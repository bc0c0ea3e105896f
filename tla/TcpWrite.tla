------------------------------ MODULE TcpWrite ------------------------------
(***************************************************************************)
(* The writing half of net/TcpConnection.cpp: send writes to the socket and*)
(* hands what the kernel does not take to writeData, which appends it to a *)
(* list of ring buffers; onWrite empties the list into the socket with     *)
(* writev from the first two buffers.  Both run in the loop thread.        *)
(*                                                                         *)
(* Bytes are the numbers 1, 2, 3, ... in the order writeData gets them.    *)
(* The list runs from writeHead_ to writeTail_.                            *)
(***************************************************************************)
EXTENDS Buffer

CONSTANTS
    MaxBytes,       \* bound: how many bytes are sent
    SocketSize      \* how many bytes the kernel takes until the peer reads

ASSUME TcpWriteAssumption ==
    MaxBytes \in Nat /\ SocketSize \in Nat \ {0}

C == INSTANCE Channel
P == INSTANCE EPollPoller

VARIABLES
    stage,          \* where the loop thread is: away or in onWrite
    buffers_,
    writeSize_,
    channel_,
    room,           \* how many bytes the kernel takes
    short,          \* a write has found too little room since the last edge
    readyList,      \* the socket is on the kernel's ready list
    sent,           \* how many bytes were sent
    queued,         \* how many of them were handed to writeData
    flushed,        \* history: the bytes onWrite wrote and took off the list
    stray           \* history: a round of onWrite began with an empty head

vars == <<stage, buffers_, writeSize_, channel_, room, short, readyList, sent, queued, flushed, stray>>

\* establishInLoop has just opened the channel of a writable socket.
Init ==
    /\ stage = "away"
    /\ buffers_ = <<Take>> /\ writeSize_ = 0
    /\ channel_ = C!Open(C!EnableAll(C!New))
    /\ room = SocketSize /\ short = FALSE /\ readyList = TRUE
    /\ sent = 0 /\ queued = 0 /\ flushed = <<>> /\ stray = FALSE

-----------------------------------------------------------------------------
(* send and writeData.                                                     *)

Least(a, b) == IF a < b THEN a ELSE b

\* The buffers takeNext adds for the bytes s: each is filled but the last.  A
\* last one that is full has push = capacity_, the others have push = 0.
NewBuffers(s) ==
    LET from(i)  == SubSeq(s, i * capacity_ + 1, Least(Len(s), (i + 1) * capacity_))
        last     == (Len(s) - 1) \div capacity_
        new(r)   == [Take EXCEPT !.buffer = Copied(Take, 0, r), !.count = Len(r)]
    IN  IF s = <<>> THEN <<>>
        ELSE [i \in 1..(last + 1) |->
                IF i <= last THEN new(from(i - 1))
                ELSE [new(from(last)) EXCEPT !.push = Len(from(last))]]

\* writeData: the list with the bytes s, at least one, behind it.
Written(list, s) ==
    LET n    == Len(list)
        tail == list[n]
        free == capacity_ - tail.count      \* writecount
        rear == capacity_ - tail.push       \* rearcount
        data == Copied(tail, tail.push, SubSeq(s, 1, Least(Len(s), free)))
    IN  IF Len(s) < free
        THEN [list EXCEPT ![n] = [tail EXCEPT
                !.buffer = data,
                !.push = IF Len(s) > rear THEN Len(s) - rear ELSE (@ + Len(s)) % capacity_,
                !.count = @ + Len(s)]]
        ELSE [list EXCEPT ![n] = [tail EXCEPT
                !.buffer = data,
                !.push = IF free > 0 THEN tail.pop ELSE @,
                !.count = capacity_]]
             \o NewBuffers(SubSeq(s, free + 1, Len(s)))

\* TcpConnection::send, run as a functor: the kernel is asked first, whatever
\* already waits in the list.
Send(n) ==
    /\ stage = "away"
    /\ sent + n <= MaxBytes
    /\ LET took == Least(n, room)
           rest == [i \in 1..(n - took) |-> queued + i]
       IN  /\ room' = room - took
           /\ short' = (short \/ took < n)
           /\ queued' = queued + Len(rest)
           /\ buffers_' = IF rest = <<>> THEN buffers_ ELSE Written(buffers_, rest)
           /\ writeSize_' = writeSize_ + Len(rest)
    /\ sent' = sent + n
    /\ UNCHANGED <<stage, channel_, readyList, flushed, stray>>

-----------------------------------------------------------------------------
(* The socket and the poller.                                              *)

\* The peer reads n bytes; the kernel signals the new room if it was missed.
PeerReads(n) ==
    /\ room + n <= SocketSize
    /\ room' = room + n
    /\ readyList' = (readyList \/ short)
    /\ short' = FALSE
    /\ UNCHANGED <<stage, buffers_, writeSize_, channel_, sent, queued, flushed, stray>>

\* Bytes from the peer are an edge too, and the report that follows names
\* everything the socket is ready for.
PeerWrites ==
    /\ ~readyList /\ readyList' = TRUE
    /\ UNCHANGED <<stage, buffers_, writeSize_, channel_, room, short, sent, queued, flushed, stray>>

\* EPollPoller::poll reports the socket, Channel::handleEvents calls onWrite if
\* Channel::onWrite has marked the channel, and onWrite has something to write.
Report ==
    /\ stage = "away"
    /\ readyList
    /\ readyList' = FALSE
    /\ short' = (short \/ room = 0)
    /\ LET ch == P!Dispatch(channel_, IF room = 0 THEN {} ELSE {"out"})
       IN  IF ch.rwrite
           THEN /\ channel_' = C!ClearWrite(C!HandleStart(ch))
                /\ stage' = IF writeSize_ = 0 THEN "away" ELSE "write"
           ELSE channel_' = ch /\ UNCHANGED stage
    /\ UNCHANGED <<buffers_, writeSize_, room, sent, queued, flushed, stray>>

-----------------------------------------------------------------------------
(* One round of onWrite.                                                   *)

Head_   == buffers_[1]
HasNext == Len(buffers_) > 1

\* What writev is given: the head, as one piece if pop lies before push, else
\* from pop to the end and from the start to push; then the buffer behind it.
Iov ==
    LET b == Head_
        head == IF b.pop < b.push THEN Bytes(b, b.pop, b.count)
                ELSE Bytes(b, b.pop, capacity_ - b.pop) \o Bytes(b, 0, b.push)
    IN  head \o IF HasNext THEN Bytes(buffers_[2], 0, buffers_[2].count) ELSE <<>>

Size == Head_.count + IF HasNext THEN buffers_[2].count ELSE 0

\* A next buffer that keeps its count when its first bytes are taken.
RestKeepingCount(n) ==
    LET b == Head_
    IN  IF n < b.count
        THEN [buffers_ EXCEPT ![1] = [b EXCEPT !.pop = (@ + n) % capacity_, !.count = @ - n]]
        ELSE IF n > b.count THEN Tail([buffers_ EXCEPT ![2].pop = n - b.count])
        ELSE IF HasNext THEN Tail(buffers_)
        ELSE <<[b EXCEPT !.push = 0, !.pop = 0, !.count = 0]>>

\* A drained head that is kept as it is, in front of the next buffer.
RestKeepingHead(n) ==
    LET b == Head_
    IN  IF n < b.count
        THEN [buffers_ EXCEPT ![1] = [b EXCEPT !.pop = (@ + n) % capacity_, !.count = @ - n]]
        ELSE IF n > b.count
        THEN Tail([buffers_ EXCEPT ![2].pop = n - b.count, ![2].count = @ - (n - b.count)])
        ELSE buffers_

\* The list when n bytes of it have been written, n <= Size.
Rest(n) ==
    LET b == Head_
    IN  IF n < b.count
        THEN [buffers_ EXCEPT ![1] = [b EXCEPT !.pop = (@ + n) % capacity_, !.count = @ - n]]
        ELSE IF n > b.count
        THEN Tail([buffers_ EXCEPT ![2].pop = n - b.count, ![2].count = @ - (n - b.count)])
        ELSE IF HasNext THEN Tail(buffers_)
        ELSE <<[b EXCEPT !.push = 0, !.pop = 0, !.count = 0]>>

\* A return from onWrite that leaves writeable_ set.
ReturnStillWriteable == stage' = "away" /\ UNCHANGED channel_

\* "disableWriteable(); return;"
Return == stage' = "away" /\ channel_' = C!DisableWriteable(channel_)

\* writev fails: EAGAIN.
WriteNothing ==
    /\ stage = "write" /\ room = 0 /\ Iov # <<>>
    /\ short' = TRUE
    /\ Return
    /\ UNCHANGED <<buffers_, writeSize_, room, readyList, sent, queued, flushed, stray>>

\* writev takes what it has room for.  More than the counts say is "error?".
WriteSome ==
    /\ stage = "write" /\ (room > 0 \/ Iov = <<>>)
    /\ LET n == Least(room, Len(Iov))
       IN  /\ room' = room - n
           /\ short' = (short \/ n < Len(Iov))
           /\ IF n > Size
              THEN UNCHANGED <<buffers_, writeSize_, flushed>>
              ELSE /\ buffers_' = Rest(n)
                   /\ writeSize_' = writeSize_ - n
                   /\ flushed' = flushed \o SubSeq(Iov, 1, n)
           /\ IF n = Size THEN UNCHANGED <<stage, channel_>> ELSE Return
    /\ stray' = (stray \/ Head_.count = 0)
    /\ UNCHANGED <<readyList, sent, queued>>

LoopStep == Report \/ WriteNothing \/ WriteSome

Next ==
    \/ \E n \in 1..MaxBytes : Send(n)
    \/ \E n \in 1..SocketSize : PeerReads(n)
    \/ PeerWrites
    \/ LoopStep

Spec == Init /\ [][Next]_vars

\* The loop thread is scheduled, and the peer reads on.
FairSpec ==
    /\ Spec
    /\ WF_vars(LoopStep)
    /\ WF_vars(\E n \in 1..SocketSize : PeerReads(n))

-----------------------------------------------------------------------------

\* The list is never empty, and writeSize_ is what it holds, through partial
\* writes, wrapped rings and the writev that was given too much
\* (TcpConnection.cpp:415-435, 281).
CountsAgree ==
    /\ buffers_ \in Seq(BufferType) /\ buffers_ # <<>>
    /\ \A i \in 1..Len(buffers_) : Coherent(buffers_[i])
    /\ Counts(buffers_) = writeSize_

\* What onWrite wrote from the list and what is left there is what writeData
\* was given: the list loses, doubles and moves no byte (TcpConnection.cpp:233-283,
\* 420-433), until onWrite, having written it all, goes on with an empty head: its
\* push and pop are equal, which line 389 takes for full.
QueueIntact ==
    stray \/ flushed \o Contents(buffers_) = [i \in 1..queued |-> i]

\* The bytes reach the kernel in the order of the calls of sendPack, as the echo
\* of src/net/tests/TcpServer_test.cpp:23 wants: none is written directly, past
\* writeData, while earlier ones wait in the list.
SentInOrder ==
    [][sent' - queued' # sent - queued => writeSize_ = 0]_vars

\* A backlog that finds writeable_ cleared is written when the peer reads on:
\* a short writev never leaves the connection waiting for an edge that has
\* already come (TcpConnection.cpp:409-413, 439-442, Channel.cpp:66-71), unless
\* onWrite went on with an empty head and met its "error?".
ResumesAfterShortWrite ==
    (writeSize_ > 0 /\ ~channel_.writeable) ~> (writeSize_ = 0 \/ stray)

\* What send could not write at once, onWrite writes when the peer reads on.
BacklogFlushed ==
    (writeSize_ > 0) ~> (writeSize_ = 0)
=============================================================================
