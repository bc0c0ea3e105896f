----------------------------- MODULE TcpServer -----------------------------
(***************************************************************************)
(* net/TcpServer.cpp and net/Acceptor.cpp with the life cycle of           *)
(* net/TcpConnection.cpp: how a connection is accepted, established,       *)
(* closed by its peer or its user, removed from the server and freed, on   *)
(* the server's loop or on a loop of an EventLoopThreadPool.               *)
(*                                                                         *)
(* Connections are 1, 2, ... in the order they are accepted, and 0 is no   *)
(* connection.  Loop 0 is the server's, loop i the pool's getLoop(i - 1).  *)
(* A functor is a record: "send" and the server's part of "remove" are     *)
(* bound to a raw this, every other one holds a TcpConnectionPtr.  A       *)
(* connection lives while somebody holds it, and its descriptor with it.   *)
(***************************************************************************)
EXTENDS Integers, Sequences, FiniteSets

CONSTANTS
    MaxConnections, \* bound: how many clients connect
    PoolCount,      \* the size of the EventLoopThreadPool, if one is set
    Setups          \* what a behaviour begins with: whether loopThreadPool_ is set,
                    \* the descriptors the process has left for connections, and
                    \* a bound: how often the user calls a connection

ASSUME TcpServerAssumption ==
    /\ MaxConnections \in Nat /\ PoolCount \in Nat \ {0}
    /\ \A s \in Setups :
        /\ s.pool \in BOOLEAN /\ s.calls \in Nat
        /\ s.fds \subseteq Nat \ {0} /\ IsFiniteSet(s.fds)

C == INSTANCE Channel
P == INSTANCE EPollPoller

Connections == 1..MaxConnections
Loops == 0..PoolCount

VARIABLES
    \* TcpServer
    alive,          \* it has not been destroyed
    listen_,
    connections_,   \* of each descriptor, the connection or 0
    setup,          \* the pool, the descriptors and the calls there are
    indexLoop_,
    \* Acceptor
    accept_,
    listenning_,
    acceptorChannel,
    accepting,      \* the server's loop is in Acceptor::onRead
    inCallback,     \* ... and there in TcpServer::onAccept's connectCallback
    \* TcpConnection, of each connection
    fd,
    loop,
    establish_,
    close_,
    channel_,
    \* the loops
    queue,          \* pendingFunctors_ of each loop
    \* the kernel and the peers
    arrived,        \* how many clients have connected
    backlog,        \* how many of them wait to be accepted
    listenEdge,     \* the listening socket is on epoll's ready list
    peerClosed,
    edge,           \* of each connection, its socket is on the ready list
    \* the user
    held,           \* the connections the user holds a TcpConnectionPtr of
    call,           \* the call the user is in, past its test of close_
    calls,
    \* history
    born,           \* how many connections were made
    begun,          \* what a user called first of a connection
    late,           \* connections with a functor queued past the test of close_
    abandoned,      \* connections the server held when it was destroyed
    failed,         \* accept failed for a reason Acceptor::onRead gives up on
    dangling        \* the destroyed server was called

serverVars   == <<alive, listen_, connections_, setup, indexLoop_>>
acceptorVars == <<accept_, listenning_, acceptorChannel, accepting, inCallback>>
madeVars     == <<fd, loop, born>>
stateVars    == <<establish_, close_, channel_>>
kernelVars   == <<arrived, backlog, listenEdge, peerClosed, edge>>
userVars     == <<held, call, calls, begun, late>>
historyVars  == <<abandoned, failed, dangling>>
vars == <<serverVars, acceptorVars, madeVars, stateVars, queue, kernelVars, userVars, historyVars>>

\* The channels that Acceptor::Acceptor and TcpConnection::TcpConnection set up.
NewAcceptorChannel == C!EnableRead(C!New)
NewChannel         == C!EnableAll(C!New)

Fds == setup.fds

NoCall == [op |-> "none", conn |-> 0]

Init ==
    /\ alive = TRUE /\ listen_ = FALSE
    /\ setup \in Setups
    /\ connections_ = [f \in Fds |-> 0]
    /\ indexLoop_ = 0
    /\ accept_ = FALSE /\ listenning_ = FALSE /\ accepting = FALSE /\ inCallback = FALSE
    /\ acceptorChannel = NewAcceptorChannel
    /\ fd = [c \in Connections |-> 0]
    /\ loop = [c \in Connections |-> 0]
    /\ establish_ = [c \in Connections |-> FALSE]
    /\ close_ = [c \in Connections |-> FALSE]
    /\ channel_ = [c \in Connections |-> NewChannel]
    /\ queue = [l \in Loops |-> <<>>]
    /\ arrived = 0 /\ backlog = 0 /\ listenEdge = FALSE
    /\ peerClosed = [c \in Connections |-> FALSE]
    /\ edge = [c \in Connections |-> FALSE]
    /\ held = {} /\ call = NoCall /\ calls = 0
    /\ begun = [c \in Connections |-> "none"]
    /\ born = 0 /\ late = {} /\ abandoned = {} /\ failed = FALSE /\ dangling = FALSE

-----------------------------------------------------------------------------
(* Functors and references.                                                *)

Functor(op, c) == [op |-> op, conn |-> c]

\* runInLoop of loop l on the queues q.
RunInLoop(q, l, f) == [q EXCEPT ![l] = Append(@, f)]

\* Acceptor::listen and Acceptor::close.
AcceptorListen ==
    IF accept_ THEN UNCHANGED <<accept_, queue>>
    ELSE accept_' = TRUE /\ queue' = RunInLoop(queue, 0, Functor("listen", 0))

AcceptorClosed(q) == IF accept_ THEN RunInLoop(q, 0, Functor("closeAcceptor", 0)) ELSE q

\* TcpConnection::destroy of connection c, in the server's loop.
Destroyed(q, c) == RunInLoop(q, loop[c], Functor("destroy", c))

\* The closeCallback of a connection: TcpServer::onClose.
ServerTold(q, c) == IF alive THEN RunInLoop(q, 0, Functor("remove", c)) ELSE q

\* EventLoopThreadPool::getLoop: the pool's loops come after the server's.
PoolLoop(index) == index + 1

\* How many functors of a kind wait for a connection.
Queued(op, c) ==
    LET in(l) == Cardinality({i \in 1..Len(queue[l]) : queue[l][i] = Functor(op, c)})
    IN  in(0) + IF loop[c] = 0 THEN 0 ELSE in(loop[c])

\* A TcpConnectionPtr exists: with the user, in connections_ or in a functor.
Held(c) ==
    \/ c \in held
    \/ alive /\ connections_[fd[c]] = c
    \/ \E l \in {0, loop[c]} : \E i \in 1..Len(queue[l]) :
        queue[l][i].conn = c /\ queue[l][i].op # "send"

Made  == 1..born
Freed == {c \in Made : ~Held(c)}

FreeFds == Fds \ {fd[c] : c \in Made \ Freed}

\* A loop runs functors when it has handled the channels poll reported, and
\* the server's loop is not inside Acceptor::onRead.
MayRun(l) ==
    /\ \A c \in Made : loop[c] = l => ~channel_[c].actived
    /\ l = 0 => ~accepting /\ ~acceptorChannel.actived

\* Loop l takes the next functor, an op, for connection c.
Takes(l, op, c) ==
    /\ queue[l] # <<>>
    /\ Head(queue[l]) = Functor(op, c)
    /\ MayRun(l)

Rest(l) == [queue EXCEPT ![l] = Tail(@)]

-----------------------------------------------------------------------------
(* Acceptor.                                                               *)

\* TcpServer::listen
Listen ==
    /\ alive /\ ~listen_
    /\ listen_' = TRUE
    /\ AcceptorListen
    /\ UNCHANGED <<alive, connections_, setup, indexLoop_, listenning_, acceptorChannel, accepting,
                   inCallback, madeVars, stateVars, kernelVars, userVars, historyVars>>

ListenInLoop ==
    /\ Takes(0, "listen", 0)
    /\ queue' = Rest(0)
    /\ IF ~accept_ \/ listenning_ THEN UNCHANGED <<listenning_, acceptorChannel>>
       ELSE listenning_' = TRUE /\ acceptorChannel' = C!Open(acceptorChannel)
    /\ UNCHANGED <<serverVars, accept_, accepting, inCallback, madeVars, stateVars, kernelVars, userVars, historyVars>>

\* closeInLoop; the functor held the last AcceptorPtr, and with the Acceptor
\* goes its socket.
CloseInLoop ==
    /\ Takes(0, "closeAcceptor", 0)
    /\ queue' = Rest(0)
    /\ acceptorChannel' = IF accept_ THEN acceptorChannel ELSE C!Close(acceptorChannel)
    /\ backlog' = 0
    /\ UNCHANGED <<serverVars, accept_, listenning_, accepting, inCallback, madeVars, stateVars,
                   arrived, listenEdge, peerClosed, edge, userVars, historyVars>>

\* A client connects to the listening socket.
Arrive ==
    /\ acceptorChannel.started
    /\ arrived < MaxConnections
    /\ arrived' = arrived + 1 /\ backlog' = backlog + 1 /\ listenEdge' = TRUE
    /\ UNCHANGED <<serverVars, acceptorVars, madeVars, stateVars, queue, peerClosed, edge,
                   userVars, historyVars>>

ReportListen ==
    /\ acceptorChannel.started /\ listenEdge /\ ~accepting
    /\ listenEdge' = FALSE
    /\ acceptorChannel' = P!Dispatch(acceptorChannel, {"in"})
    /\ UNCHANGED <<serverVars, accept_, listenning_, accepting, inCallback, madeVars, stateVars, queue,
                   arrived, backlog, peerClosed, edge, userVars, historyVars>>

\* Acceptor::onRead begins.
OnRead ==
    /\ acceptorChannel.actived /\ ~accepting
    /\ acceptorChannel' = C!ClearRead(C!HandleStart(acceptorChannel))
    /\ accepting' = accept_
    /\ UNCHANGED <<serverVars, accept_, listenning_, inCallback, madeVars, stateVars, queue, kernelVars,
                   userVars, historyVars>>

\* An end of Acceptor::onRead that leaves readable_ set.
AcceptNoneStillReadable ==
    /\ accepting /\ backlog = 0 /\ FreeFds # {}
    /\ accepting' = FALSE /\ inCallback' = FALSE
    /\ UNCHANGED <<serverVars, accept_, listenning_, acceptorChannel, madeVars, stateVars, queue,
                   kernelVars, userVars, historyVars>>

\* accept: EAGAIN.  The kernel sets a descriptor aside before it looks at the
\* backlog, and says so only when it has one.
AcceptNone ==
    /\ accepting /\ backlog = 0 /\ FreeFds # {}
    /\ accepting' = FALSE /\ inCallback' = FALSE
    /\ acceptorChannel' = C!DisableReadable(acceptorChannel)
    /\ UNCHANGED <<serverVars, accept_, listenning_, madeVars, stateVars, queue, kernelVars,
                   userVars, historyVars>>

\* accept: EMFILE, even if nobody waits.  The idle descriptor is given up to
\* accept and close one, if there is one, and the loop goes round: as long as no
\* descriptor is free, onRead does not return.
AcceptFull ==
    /\ accepting /\ FreeFds = {}
    /\ backlog' = IF backlog = 0 THEN 0 ELSE backlog - 1
    /\ inCallback' = FALSE
    /\ UNCHANGED <<serverVars, accept_, listenning_, acceptorChannel, accepting, madeVars, stateVars,
                   queue, arrived, listenEdge, peerClosed, edge, userVars, historyVars>>

\* accept: any other error, such as that of a client that has gone (ECONNABORTED):
\* "FIXME".
AcceptFails ==
    /\ accepting /\ backlog > 0 /\ FreeFds # {}
    /\ backlog' = backlog - 1
    /\ accepting' = FALSE /\ inCallback' = FALSE
    /\ failed' = TRUE
    /\ UNCHANGED <<serverVars, accept_, listenning_, acceptorChannel, madeVars, stateVars, queue,
                   arrived, listenEdge, peerClosed, edge, userVars, abandoned, dangling>>

\* accept succeeds: TcpServer::onAccept makes a connection on the next loop,
\* and the connectCallback hands it to the user.  The kernel gives the lowest
\* descriptor that is free.
OnAccept ==
    /\ accepting /\ backlog > 0 /\ FreeFds # {}
    /\ backlog' = backlog - 1
    /\ inCallback' = alive
    /\ IF ~alive
       THEN dangling' = TRUE /\ UNCHANGED <<connections_, indexLoop_, madeVars, held>>
       ELSE /\ \E f \in FreeFds :
                /\ \A g \in FreeFds : f <= g
                /\ fd' = [fd EXCEPT ![born + 1] = f]
                /\ connections_' = [connections_ EXCEPT ![f] = born + 1]
            /\ indexLoop_' = IF setup.pool THEN (indexLoop_ + 1) % PoolCount ELSE indexLoop_
            /\ loop' = [loop EXCEPT ![born + 1] = IF setup.pool THEN PoolLoop(indexLoop_') ELSE 0]
            /\ born' = born + 1
            /\ held' = held \cup {born + 1}
            /\ UNCHANGED dangling
    /\ UNCHANGED <<alive, listen_, setup, accept_, listenning_, acceptorChannel, accepting, stateVars,
                   queue, arrived, listenEdge, peerClosed, edge, call, calls, begun, late, abandoned, failed>>

-----------------------------------------------------------------------------
(* The user, in any thread.                                                *)

\* establish(), close() and sendPack() test close_ ...
Call(op, c) ==
    /\ call = NoCall /\ calls < setup.calls
    /\ c \in held
    /\ ~close_[c] /\ (op = "establish" => ~establish_[c])
    /\ call' = Functor(op, c) /\ calls' = calls + 1
    /\ UNCHANGED <<serverVars, acceptorVars, madeVars, stateVars, queue, kernelVars, held, begun, late, historyVars>>

\* ... and then queue their functor, whatever has become of close_.
CallQueues ==
    /\ call # NoCall
    /\ queue' = RunInLoop(queue, loop[call.conn], call)
    /\ late' = IF close_[call.conn] \/ call.conn \in abandoned THEN late \cup {call.conn} ELSE late
    /\ begun' = [begun EXCEPT ![call.conn] = IF @ = "none" THEN call.op ELSE @]
    /\ call' = NoCall
    /\ UNCHANGED <<serverVars, acceptorVars, madeVars, stateVars, kernelVars, held, calls, historyVars>>

Drop(c) ==
    /\ c \in held /\ call.conn # c
    /\ held' = held \ {c}
    /\ UNCHANGED <<serverVars, acceptorVars, madeVars, stateVars, queue, kernelVars, call, calls, begun, late, historyVars>>

\* Every connection of the server gets its destroy(), each on its loop.
DestroyAll(q) ==
    [l \in Loops |->
        LET mine == {f \in Fds : connections_[f] # 0 /\ loop[connections_[f]] = l}
            order == CHOOSE s \in [1..Cardinality(mine) -> mine] :
                        \A i, j \in 1..Cardinality(mine) : i < j => s[i] < s[j]
        IN  q[l] \o [i \in 1..Cardinality(mine) |-> Functor("destroy", connections_[order[i]])]]

\* A destructor that leaves accept_ set.
DestroyServerStillAccepting ==
    /\ alive
    /\ accepting => inCallback /\ \E f \in Fds : connections_[f] # 0
    /\ alive' = FALSE
    /\ queue' = IF listen_ THEN DestroyAll(queue) ELSE queue
    /\ abandoned' = {connections_[f] : f \in Fds} \ {0}
    /\ UNCHANGED <<listen_, connections_, setup, indexLoop_, acceptorVars, madeVars, stateVars, kernelVars,
                   userVars, failed, dangling>>

\* ~TcpServer, in the server's loop: from a functor or a callback, which inside
\* Acceptor::onRead is the connectCallback of a connection just accepted.
DestroyServer ==
    /\ alive
    /\ accepting => inCallback /\ \E f \in Fds : connections_[f] # 0
    /\ alive' = FALSE
    /\ IF listen_
       THEN /\ accept_' = FALSE
            /\ queue' = DestroyAll(AcceptorClosed(queue))
       ELSE UNCHANGED <<accept_, queue>>
    /\ abandoned' = {connections_[f] : f \in Fds} \ {0}
    /\ UNCHANGED <<listen_, connections_, setup, indexLoop_, listenning_, acceptorChannel, accepting,
                   inCallback, madeVars, stateVars, kernelVars, userVars, failed, dangling>>

-----------------------------------------------------------------------------
(* A connection in its loop.                                               *)

\* An establishInLoop that forgets channel_->open().
EstablishInLoopUnopened(l, c) ==
    /\ Takes(l, "establish", c)
    /\ queue' = Rest(l)
    /\ establish_' = [establish_ EXCEPT ![c] = TRUE]
    /\ UNCHANGED <<serverVars, acceptorVars, madeVars, close_, channel_, kernelVars, userVars, historyVars>>

EstablishInLoop(l, c) ==
    /\ Takes(l, "establish", c)
    /\ queue' = Rest(l)
    /\ IF establish_[c] THEN UNCHANGED <<establish_, channel_>>
       ELSE /\ establish_' = [establish_ EXCEPT ![c] = TRUE]
            /\ channel_' = [channel_ EXCEPT ![c] = C!Open(@)]
    /\ UNCHANGED <<serverVars, acceptorVars, madeVars, close_, kernelVars, userVars, historyVars>>

\* send writes to the socket (module TcpWrite).
SendInLoop(l, c) ==
    /\ Takes(l, "send", c)
    /\ queue' = Rest(l)
    /\ UNCHANGED <<serverVars, acceptorVars, madeVars, stateVars, kernelVars, userVars, historyVars>>

DestroyInLoop(l, c) ==
    /\ Takes(l, "destroy", c)
    /\ queue' = Rest(l)
    /\ channel_' = [channel_ EXCEPT ![c] = C!Close(@)]
    /\ UNCHANGED <<serverVars, acceptorVars, madeVars, establish_, close_, kernelVars, userVars, historyVars>>

\* An onClose that tells the server each time.
OnCloseEachTime(c, ch, q) ==
    /\ close_' = [close_ EXCEPT ![c] = TRUE]
    /\ channel_' = [channel_ EXCEPT ![c] = C!DisableAll(ch)]
    /\ queue' = ServerTold(q, c)
    /\ dangling' = (dangling \/ ~alive)

\* TcpConnection::onClose, with the channel ch and the queues q of its caller:
\* the closeCallback is TcpServer::onClose, which queues removeConnection.
OnClose(c, ch, q) ==
    IF close_[c]
    THEN channel_' = [channel_ EXCEPT ![c] = ch] /\ queue' = q /\ UNCHANGED <<close_, dangling>>
    ELSE /\ close_' = [close_ EXCEPT ![c] = TRUE]
         /\ channel_' = [channel_ EXCEPT ![c] = C!DisableAll(ch)]
         /\ queue' = ServerTold(q, c)
         /\ dangling' = (dangling \/ ~alive)

\* The functor of close().
CloseRuns(l, c) ==
    /\ Takes(l, "close", c)
    /\ OnClose(c, channel_[c], Rest(l))
    /\ UNCHANGED <<serverVars, acceptorVars, madeVars, establish_, kernelVars, userVars, abandoned, failed>>

\* removeConnection without connection->destroy().
RemoveUndestroyed(c) ==
    /\ Takes(0, "remove", c)
    /\ IF alive
       THEN /\ connections_' = [connections_ EXCEPT ![fd[c]] = 0]
            /\ queue' = Rest(0)
            /\ UNCHANGED dangling
       ELSE dangling' = TRUE /\ queue' = Rest(0) /\ UNCHANGED connections_
    /\ UNCHANGED <<alive, listen_, setup, indexLoop_, acceptorVars, madeVars, stateVars, kernelVars,
                   userVars, abandoned, failed>>

\* removeConnection without connections_.erase().
RemoveKept(c) ==
    /\ Takes(0, "remove", c)
    /\ queue' = Destroyed(Rest(0), c)
    /\ dangling' = (dangling \/ ~alive)
    /\ UNCHANGED <<serverVars, acceptorVars, madeVars, stateVars, kernelVars,
                   userVars, abandoned, failed>>

\* TcpServer::removeConnection
RemoveConnection(c) ==
    /\ Takes(0, "remove", c)
    /\ IF alive
       THEN /\ connections_' = [connections_ EXCEPT ![fd[c]] = 0]
            /\ queue' = Destroyed(Rest(0), c)
            /\ UNCHANGED dangling
       ELSE dangling' = TRUE /\ queue' = Rest(0) /\ UNCHANGED connections_
    /\ UNCHANGED <<alive, listen_, setup, indexLoop_, acceptorVars, madeVars, stateVars, kernelVars,
                   userVars, abandoned, failed>>

PeerCloses(c) ==
    /\ c \in Made /\ ~peerClosed[c]
    /\ peerClosed' = [peerClosed EXCEPT ![c] = TRUE]
    /\ edge' = [edge EXCEPT ![c] = TRUE]
    /\ UNCHANGED <<serverVars, acceptorVars, madeVars, stateVars, queue, arrived, backlog, listenEdge,
                   userVars, historyVars>>

\* EPollPoller::poll reports EPOLLRDHUP and EPOLLIN.
ReportClosed(c) ==
    /\ edge[c] /\ channel_[c].started /\ c \in Made \ Freed
    /\ loop[c] = 0 => ~accepting
    /\ edge' = [edge EXCEPT ![c] = FALSE]
    /\ channel_' = [channel_ EXCEPT ![c] = P!Dispatch(@, {"hup", "in"})]
    /\ UNCHANGED <<serverVars, acceptorVars, madeVars, establish_, close_, queue, arrived, backlog,
                   listenEdge, peerClosed, userVars, historyVars>>

\* Channel::handleEvents: onClose, and onRead, which finds the end of the stream
\* and calls onClose again.
HandleEvents(c) ==
    /\ channel_[c].actived
    /\ loop[c] = 0 => ~accepting
    /\ OnClose(c, C!ClearRead(C!ClearClose(C!HandleStart(channel_[c]))), queue)
    /\ UNCHANGED <<serverVars, acceptorVars, madeVars, establish_, kernelVars, userVars, abandoned, failed>>

AcceptStep == ReportListen \/ OnRead \/ AcceptNone \/ AcceptFull \/ OnAccept \/ AcceptFails

LoopStep(l) ==
    \/ l = 0 /\ (ListenInLoop \/ CloseInLoop \/ AcceptStep \/ \E c \in Connections : RemoveConnection(c))
    \/ \E c \in Connections :
        \/ EstablishInLoop(l, c) \/ SendInLoop(l, c) \/ DestroyInLoop(l, c) \/ CloseRuns(l, c)
        \/ loop[c] = l /\ (ReportClosed(c) \/ HandleEvents(c))

Next ==
    \/ Listen \/ DestroyServer
    \/ Arrive \/ \E c \in Connections : PeerCloses(c)
    \/ \E c \in Connections : Drop(c) \/ \E op \in {"establish", "close", "send"} : Call(op, c)
    \/ CallQueues
    \/ \E l \in Loops : LoopStep(l)

Spec == Init /\ [][Next]_vars

\* The loops run, and a call returns.  Users and peers may do nothing.
Fairness == WF_vars(CallQueues) /\ \A l \in Loops : WF_vars(LoopStep(l))

FairSpec == Spec /\ Fairness

-----------------------------------------------------------------------------

\* "assert(n == 1)" (TcpServer.cpp:86): the server holds a connection until the
\* one removeConnection that its one onClose queues, whichever of the peer, the
\* user and a second close() came first, and no accepted descriptor takes
\* another's place in connections_ before.
RemovedOnce ==
    alive => \A c \in Made :
        /\ Queued("remove", c) <= 1
        /\ connections_[fd[c]] = c <=> (~close_[c] \/ Queued("remove", c) = 1)

\* A connection that the user establishes before anything else has its buffers
\* when a send appends to them and when the destructor walks them.
EstablishedBeforeUse ==
    \A c \in Made : begun[c] = "establish" /\ ~establish_[c] =>
        c \notin Freed /\ ~Takes(loop[c], "send", c)

\* What is freed is whole and out of reach: the pointers of a connection that is
\* established first have been set, no queued send has a freed one for its raw
\* this and none has a channel left with the poller, unless a call passed its
\* test of close_ and queued its functor after the close, or the server was
\* destroyed with the connection (TcpServer.cpp:83-88, TcpConnection.cpp:36-46,
\* 81-96, 100-119).
FreedUnreachable ==
    /\ EstablishedBeforeUse
    /\ \A c \in Freed :
        Queued("send", c) > 0 \/ channel_[c].started \/ channel_[c].actived
            => c \in late \cup abandoned

\* A server destroyed when it holds no connection is never called again by its
\* acceptor, a connection or a functor (TcpServer.cpp:32-44, Acceptor.cpp:74-77).
EmptyServerUncalled == dangling => abandoned # {}

\* With no descriptor left Acceptor::onRead goes round for ever, and the server's
\* loop runs nothing else (Acceptor.cpp:78-90).
AcceptorSpins == <>[](accepting /\ FreeFds = {})

\* The close of a peer reaches connection c, if it is established.
CloseSeen(c) == (establish_[c] /\ peerClosed[c]) ~> (close_[c] \/ c \in late \cup abandoned)

CloseSeenInPool(c) ==
    (loop[c] # 0 /\ establish_[c] /\ peerClosed[c]) ~> (close_[c] \/ c \in late \cup abandoned)

\* A closed connection that the user has dropped is removed and freed, and its
\* descriptor is free for the next client, unless the acceptor keeps the server's
\* loop to itself (TcpServer.cpp:78-88, TcpConnection.cpp:446-458).
ClosedIsFreed ==
    AcceptorSpins \/ \A c \in Connections : (c \in Made /\ close_[c] /\ c \notin held) ~> (c \in Freed)

\* The close of a peer reaches every established connection on a loop of the
\* pool, and those on the server's loop unless its acceptor keeps it to itself
\* (Channel.cpp:73-99, TcpConnection.cpp:446-458).
PeerCloseSeen ==
    /\ \A c \in Connections : CloseSeenInPool(c)
    /\ AcceptorSpins \/ \A c \in Connections : CloseSeen(c)

\* "setDisconnectCallback(std::bind(onDisconnect, ...))" (tests/TcpServer_test.cpp:30):
\* the close of a peer reaches every established connection, also when no
\* descriptor is left for the next client.
DisconnectSeen == \A c \in Connections : CloseSeen(c)

\* A client that waits is accepted or refused, unless accept failed in a way
\* that Acceptor::onRead gives up on (Acceptor.cpp:74-104).
NobodyWaits == (backlog > 0) ~> (backlog = 0 \/ failed)
=============================================================================
