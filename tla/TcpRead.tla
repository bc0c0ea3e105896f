------------------------------- MODULE TcpRead -------------------------------
(***************************************************************************)
(* The reading half of net/TcpConnection.cpp: onRead moves what the socket *)
(* holds into a list of ring buffers, with readv into the free space of    *)
(* the tail and one buffer more, and PeekData and ReadData take it out.    *)
(* Both run in the loop thread, ReadData from the recvCallback or from any *)
(* other callback or functor.  The peer may close its side at any time, and*)
(* the user may close the connection: onClose then has the connection      *)
(* destroyed behind the handler that runs.                                 *)
(*                                                                         *)
(* The bytes a peer sends are the numbers 1, 2, 3, ...  The list starts at *)
(* readHead_; buffers_ holds it up to the buffer that onRead keeps ready   *)
(* behind readTail_, if there is one.                                      *)
(***************************************************************************)
EXTENDS Buffer

CONSTANT MaxBytes   \* bound: how many bytes the peer sends

ASSUME TcpReadAssumption == MaxBytes \in Nat

C == INSTANCE Channel
P == INSTANCE EPollPoller

VARIABLES
    stage,          \* where the loop thread is: away from the connection, in
                    \* Channel::handleEvents, in onRead, in its recvCallback
    buffers_,       \* the list that starts at readHead_
    readTail_,      \* the position of readTail_ in it
    readSize_,
    channel_,
    full,           \* the readv of this round filled all it was given
    socket,         \* the bytes in the kernel
    fin,            \* the peer has closed its side
    readyList,      \* the socket is on the kernel's ready list
    sent,           \* how many bytes the peer has sent
    close_,         \* "no", or who has closed the connection
    delivered,      \* history: the bytes ReadData handed out
    inside          \* history: a ReadData ended inside a buffer behind the first

rings == <<buffers_, readTail_, readSize_>>
user  == <<delivered, inside>>
peer  == <<sent, fin>>
vars  == <<stage, rings, channel_, full, socket, peer, readyList, close_, user>>

\* Established: one empty buffer, the socket open and watched.
Init ==
    /\ stage = "away"
    /\ buffers_ = <<Take>> /\ readTail_ = 1 /\ readSize_ = 0
    /\ channel_ = C!Open(C!EnableAll(C!New))
    /\ full = FALSE
    /\ socket = <<>> /\ readyList = FALSE
    /\ sent = 0 /\ fin = FALSE
    /\ close_ = "no"
    /\ delivered = <<>> /\ inside = FALSE

-----------------------------------------------------------------------------
(* Taking bytes out.                                                       *)

\* Where a ReadData of size bytes ends: the first buffer whose bytes and those
\* before it are as many, and how many of its bytes.
End(list, size) ==
    LET upto == Upto(list)
        i    == CHOOSE i \in 1..Len(list) : upto[i - 1] < size /\ size <= upto[i]
    IN  <<i, size - upto[i - 1]>>

\* PeekData: the bytes of the first buffer from pop on, then of each next one
\* from its start on.
Peek(list, size) ==
    [k \in 1..size |->
        LET e == End(list, k)
            b == list[e[1]]
        IN  b.buffer[((IF e[1] = 1 THEN b.pop ELSE 0) + e[2] - 1) % capacity_]]

\* The list once its buffer i is read to the end: the tail is kept, as empty.
After(list, tail, i) ==
    IF i = tail
    THEN <<[list[i] EXCEPT !.push = 0, !.pop = 0, !.count = 0]>> \o SubSeq(list, i + 1, Len(list))
    ELSE SubSeq(list, i + 1, Len(list))

\* ReadData's effect on the list.  In the first buffer pop and count move; in
\* a later one pop moves and count does not.
AfterRead(list, tail, size) ==
    LET e    == End(list, size)
        last == list[e[1]]
        rest == SubSeq(list, e[1] + 1, Len(list))
    IN  IF e[2] = last.count THEN After(list, tail, e[1])
        ELSE IF e[1] = 1
        THEN <<[last EXCEPT !.pop = (@ + size) % capacity_, !.count = @ - size]>> \o rest
        ELSE <<[last EXCEPT !.pop = e[2]]>> \o rest

\* ReadData, when the loop thread runs the user's code: between two events, in
\* the recvCallback, or behind onClose in handleEvents (disconnectCallback).
ReadData(size) ==
    /\ stage \in {"away", "callback"} \/ (stage = "handle" /\ ~channel_.rclose)
    /\ size \in 1..readSize_
    /\ LET e     == End(buffers_, size)
           toEnd == e[2] = buffers_[e[1]].count
       IN  /\ readTail_' = IF toEnd /\ e[1] # readTail_ THEN readTail_ - e[1] ELSE readTail_ - e[1] + 1
           /\ inside' = (inside \/ (e[1] # 1 /\ ~toEnd))
    /\ delivered' = delivered \o Peek(buffers_, size)
    /\ buffers_' = AfterRead(buffers_, readTail_, size)
    /\ readSize_' = readSize_ - size
    /\ UNCHANGED <<stage, channel_, full, socket, peer, readyList, close_>>

-----------------------------------------------------------------------------
(* The socket, the poller and the end of the connection.                   *)

\* The peer sends some bytes, with the last of which it may close its side.
Arrive ==
    /\ ~fin
    /\ \E n \in 0..(MaxBytes - sent) :
        /\ socket' = socket \o [i \in 1..n |-> sent + i]
        /\ sent' = sent + n
        /\ fin' \in IF n = 0 THEN {TRUE} ELSE BOOLEAN
    /\ readyList' = TRUE
    /\ UNCHANGED <<stage, rings, channel_, full, close_, user>>

\* EPollPoller::poll reports the socket; a channel it marks is handled.
Report ==
    /\ stage = "away" /\ channel_.started
    /\ readyList
    /\ readyList' = FALSE
    /\ LET ch == P!Dispatch(channel_, IF fin THEN {"hup", "in"}
                                      ELSE IF socket # <<>> THEN {"in"} ELSE {})
       IN  IF ch.actived
           THEN channel_' = C!HandleStart(ch) /\ stage' = "handle"
           ELSE channel_' = ch /\ UNCHANGED stage
    /\ UNCHANGED <<rings, full, socket, peer, close_, user>>

\* onClose as it would be with readable_ cleared like the interest.
OnCloseUnreadable(ch, who) ==
    IF close_ # "no" THEN UNCHANGED close_ /\ channel_' = ch
    ELSE close_' = who /\ channel_' = C!DisableReadable(C!DisableAll(ch))

\* TcpConnection::onClose, of the channel as its caller leaves it.
OnClose(ch, who) ==
    IF close_ # "no" THEN UNCHANGED close_ /\ channel_' = ch
    ELSE close_' = who /\ channel_' = C!DisableAll(ch)

\* handleEvents runs the closeCallback first...
HandleClose ==
    /\ stage = "handle" /\ channel_.rclose
    /\ OnClose(C!ClearClose(channel_), "peer")
    /\ UNCHANGED <<stage, rings, full, socket, peer, readyList, user>>

\* ... and then the readCallback, onRead, which looks at isReadable.
HandleRead ==
    /\ stage = "handle" /\ ~channel_.rclose
    /\ channel_' = C!ClearRead(channel_)
    /\ stage' = IF channel_.rread /\ channel_.readable THEN "read" ELSE "away"
    /\ UNCHANGED <<rings, full, socket, peer, readyList, close_, user>>

\* The functor of close(): the user closes the connection.
CloseByUser ==
    /\ stage = "away" /\ close_ = "no"
    /\ OnClose(channel_, "user")
    /\ UNCHANGED <<stage, rings, full, socket, peer, readyList, user>>

\* destroyInLoop, the functor that the closeCallback of onClose queues.
DestroyInLoop ==
    /\ stage = "away" /\ close_ # "no" /\ channel_.started
    /\ channel_' = C!Close(channel_)
    /\ UNCHANGED <<stage, rings, full, socket, peer, readyList, close_, user>>

-----------------------------------------------------------------------------
(* One round of onRead.                                                    *)

Tail_ == buffers_[readTail_]
Room  == capacity_ - Tail_.count        \* rearcount

\* The free space up to the end of the ring only.
TailSlotsUnwrapped ==
    [i \in 1..(IF Tail_.push < Tail_.pop THEN Room ELSE capacity_ - Tail_.push) |-> Tail_.push + i - 1]

\* The addresses readv fills in the tail: from push on, around the end when
\* push has not yet come round.
TailSlots ==
    IF Room = 0 THEN <<>>
    ELSE IF Tail_.push < Tail_.pop THEN [i \in 1..Room |-> Tail_.push + i - 1]
    ELSE [i \in 1..(capacity_ - Tail_.push) |-> Tail_.push + i - 1]
            \o [i \in 1..Tail_.pop |-> i - 1]

\* The list with the buffer behind the tail.
WithNext == IF readTail_ = Len(buffers_) THEN TakeNext(buffers_) ELSE buffers_

\* The buffer with the bytes s at the addresses given, as far as they go.
Filled(b, slots, s) ==
    [b EXCEPT !.buffer = [i \in Offsets |->
        IF \E k \in 1..Len(slots) : k <= Len(s) /\ slots[k] = i
        THEN s[CHOOSE k \in 1..Len(slots) : slots[k] = i] ELSE @[i]]]

\* push moved by all that was read, also when some of it went behind the tail.
CountedPastTheEnd(b, n) ==
    [b EXCEPT !.push = (@ + n) % capacity_, !.count = IF @ + n < capacity_ THEN @ + n ELSE capacity_]

\* "fill tail": the tail's counters after n bytes were read.
Counted(b, n) ==
    IF n < Room
    THEN [b EXCEPT !.push = (@ + n) % capacity_, !.count = @ + n]
    ELSE [b EXCEPT !.push = b.pop, !.count = capacity_]

\* readv finds nothing: EAGAIN, or the end of the stream.
ReadNothing ==
    /\ stage = "read" /\ socket = <<>>
    /\ buffers_' = WithNext
    /\ IF fin THEN OnClose(channel_, "peer")
              ELSE UNCHANGED close_ /\ channel_' = C!DisableReadable(channel_)
    /\ stage' = "away"
    /\ UNCHANGED <<readTail_, readSize_, full, socket, peer, readyList, user>>

\* readv fills the tail and then the buffer behind it.
ReadSome ==
    /\ stage = "read" /\ socket # <<>>
    /\ LET given == Len(TailSlots) + capacity_
           n     == IF Len(socket) < given THEN Len(socket) ELSE given
           bytes == SubSeq(socket, 1, n)
           tail  == Filled(Tail_, TailSlots, bytes)
           over  == SubSeq(bytes, Len(TailSlots) + 1, n)
           next  == [WithNext[readTail_ + 1] EXCEPT !.buffer = Copied(WithNext[readTail_ + 1], 0, over)]
           List(t, x) == [WithNext EXCEPT ![readTail_] = t, ![readTail_ + 1] = x]
       IN  /\ socket' = SubSeq(socket, n + 1, Len(socket))
           /\ IF n > Room + capacity_
              THEN /\ buffers_' = List(tail, next)
                   /\ channel_' = C!DisableReadable(channel_)
                   /\ stage' = "away"
                   /\ UNCHANGED <<readTail_, readSize_, full>>
              ELSE /\ buffers_' = List(Counted(tail, n),
                          IF n > Room THEN [next EXCEPT !.count = n - Room, !.push = n - Room] ELSE next)
                   /\ readTail_' = IF n > Room THEN readTail_ + 1 ELSE readTail_
                   /\ readSize_' = readSize_ + n
                   /\ full' = (n = Room + capacity_)
                   /\ stage' = "callback"
                   /\ UNCHANGED channel_
    /\ UNCHANGED <<peer, readyList, close_, user>>

\* A return from onRead that leaves readable_ set.
CallbackDoneStillReadable ==
    /\ stage = "callback"
    /\ stage' = IF full THEN "read" ELSE "away"
    /\ UNCHANGED <<rings, channel_, full, socket, peer, readyList, close_, user>>

\* recvCallback returns: another round if readv filled all it was given.
CallbackDone ==
    /\ stage = "callback"
    /\ IF full
       THEN stage' = "read" /\ UNCHANGED channel_
       ELSE stage' = "away" /\ channel_' = C!DisableReadable(channel_)
    /\ UNCHANGED <<rings, full, socket, peer, readyList, close_, user>>

LoopStep ==
    \/ Report \/ HandleClose \/ HandleRead
    \/ ReadNothing \/ ReadSome \/ CallbackDone
    \/ DestroyInLoop

Next ==
    \/ Arrive
    \/ CloseByUser
    \/ LoopStep
    \/ \E size \in 1..MaxBytes : ReadData(size)

Spec == Init /\ [][Next]_vars

\* The loop thread is scheduled; the user may read or not.
FairSpec == Spec /\ WF_vars(LoopStep)

-----------------------------------------------------------------------------

\* The list ends at readTail_ or one behind it; the counts of its rings and
\* readSize_ tell the same story, and the spare buffer is empty, unless a
\* ReadData ended inside a buffer behind the first, which sets its pop and
\* leaves its count (TcpConnection.cpp:186, 203, 213, 223-229, 335-347).
CountsAgree ==
    /\ buffers_ \in Seq(BufferType)
    /\ readTail_ \in 1..Len(buffers_) /\ Len(buffers_) - readTail_ \in {0, 1}
    /\ inside \/ /\ \A i \in 1..Len(buffers_) : Coherent(buffers_[i])
                 /\ Counts(buffers_) = readSize_
                 /\ readTail_ < Len(buffers_) => buffers_[Len(buffers_)].count = 0

\* What was delivered, what the rings hold and what the kernel holds is what
\* the peer sent: no byte is lost, doubled or moved by the ring arithmetic of
\* readv and ReadData, and PeekData shows what ReadData would hand out
\* (TcpConnection.cpp:121-231, 290-347), unless a ReadData ended inside.
StreamIntact ==
    inside \/ /\ delivered \o Contents(buffers_) \o socket = [i \in 1..sent |-> i]
              /\ \A size \in 1..readSize_ :
                    Peek(buffers_, size) = SubSeq(Contents(buffers_), 1, size)

\* A peer that closes loses none of its last bytes: handleEvents runs onClose
\* before onRead, onClose clears the interest and queues the destruction, and
\* yet nothing is left in the kernel once the loop thread is away from the
\* connection (Channel.cpp:73-99, TcpConnection.cpp:100-102, 285-288, 446-459),
\* unless a ReadData ended inside and readv was given more than the counts say.
ReadBeforeRelease ==
    (close_ = "peer" /\ stage = "away") => (socket = <<>> \/ inside)

\* While the user keeps the connection, every byte is read, and the end of the
\* stream closes it: an edge is never lost between readv and disableReadable
\* (TcpConnection.cpp:319-327, 369-372, Channel.cpp:59-64).
EveryByteIsRead ==
    /\ \A n \in 1..MaxBytes :
        (sent >= n) ~> (Len(delivered) + readSize_ >= n \/ close_ = "user" \/ inside)
    /\ fin ~> (close_ # "no")
=============================================================================
