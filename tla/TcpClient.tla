----------------------------- MODULE TcpClient -----------------------------
(***************************************************************************)
(* net/TcpClient.cpp and net/Connector.cpp: a client asks its connector    *)
(* for a connection, the connector tries in the loop until the peer        *)
(* accepts, and when the connection closes the client asks again, if it is *)
(* set to retry.  A user may call connect() and destroy the client between *)
(* any two steps of the loop.                                              *)
(*                                                                         *)
(* Connections are 1, 2, ... in the order they are made, 0 is none.  What  *)
(* happens inside a connection is left to TcpServer, TcpRead and TcpWrite: *)
(* here it closes once, in the loop, and then calls its closeCallback.     *)
(***************************************************************************)
EXTENDS Integers, Sequences, FiniteSets

CONSTANTS
    MaxConnections, \* bound: how many connections are made
    MaxRefusals     \* bound: how many attempts fail

ASSUME TcpClientAssumption ==
    MaxConnections \in Nat /\ MaxRefusals \in Nat

C == INSTANCE Channel
P == INSTANCE EPollPoller

VARIABLES
    \* TcpClient
    alive,          \* it has not been destroyed
    connect_,
    retry_,
    connection_,
    \* Connector
    wanted,         \* its connect_
    connecting_,
    channel_,       \* of the socket it is connecting
    \* the loop and the kernel
    queue,          \* pendingFunctors_
    attempt,        \* the socket: closed, or what has become of its connect
    edge,           \* the socket is on epoll's ready list
    refusals,       \* how many attempts have failed
    \* history
    made,           \* how many connections were made
    closed,         \* the connections that have closed
    destroyed,      \* the connections destroy() was called of
    gaveUp,         \* an attempt failed for a reason the connector gives up on
    abandoned,      \* connections the client had when it was destroyed
    dangling        \* the destroyed client was called

clientVars    == <<alive, connect_, retry_, connection_>>
connectorVars == <<wanted, connecting_, channel_>>
kernelVars    == <<attempt, edge, refusals>>
historyVars   == <<made, closed, destroyed, gaveUp, abandoned, dangling>>
vars == <<clientVars, connectorVars, queue, kernelVars, historyVars>>

Init ==
    /\ alive = TRUE /\ connect_ = FALSE /\ retry_ \in BOOLEAN /\ connection_ = 0
    /\ wanted = FALSE /\ connecting_ = FALSE /\ channel_ = C!New
    /\ queue = <<>>
    /\ attempt = "closed" /\ edge = FALSE /\ refusals = 0
    /\ made = 0 /\ closed = {} /\ destroyed = {} /\ gaveUp = FALSE
    /\ abandoned = {} /\ dangling = FALSE

-----------------------------------------------------------------------------
(* The user.                                                               *)

\* Connector::connect and Connector::close.
ConnectorConnect == wanted' = TRUE /\ queue' = Append(queue, "connect")
ConnectorClose   == wanted' = FALSE /\ queue' = Append(queue, "close")

\* TcpClient::connect
Connect ==
    /\ alive /\ ~connect_
    /\ connect_' = TRUE
    /\ ConnectorConnect
    /\ UNCHANGED <<alive, retry_, connection_, connecting_, channel_, kernelVars, historyVars>>

\* A destructor that does not close the connector.
DestroyClientConnecting ==
    /\ alive
    /\ alive' = FALSE
    /\ IF connect_ /\ connection_ # 0
       THEN destroyed' = destroyed \cup {connection_} /\ abandoned' = {connection_}
       ELSE UNCHANGED <<destroyed, abandoned>>
    /\ UNCHANGED <<connect_, retry_, connection_, connectorVars, queue, kernelVars, made, closed,
                   gaveUp, dangling>>

\* ~TcpClient, in the loop.
DestroyClient ==
    /\ alive
    /\ alive' = FALSE
    /\ IF ~connect_ THEN UNCHANGED <<destroyed, abandoned, wanted, queue>>
       ELSE IF connection_ # 0
       THEN /\ destroyed' = destroyed \cup {connection_}
            /\ abandoned' = {connection_}
            /\ UNCHANGED <<wanted, queue>>
       ELSE ConnectorClose /\ UNCHANGED <<destroyed, abandoned>>
    /\ UNCHANGED <<connect_, retry_, connection_, connecting_, channel_, kernelVars, made, closed,
                   gaveUp, dangling>>

-----------------------------------------------------------------------------
(* The connector, in the loop.                                             *)

\* The loop has handled the channel that poll reported.
MayRun == ~channel_.actived

Takes(f) == MayRun /\ queue # <<>> /\ Head(queue) = f

\* TcpClient::onConnect makes the connection and hands it to the user.
OnConnect ==
    IF alive
    THEN made' = made + 1 /\ connection_' = made + 1 /\ UNCHANGED dangling
    ELSE dangling' = TRUE /\ UNCHANGED <<made, connection_>>

\* connectInLoop with nothing to do.
ConnectIgnored ==
    /\ Takes("connect") /\ (~wanted \/ connecting_)
    /\ queue' = Tail(queue)
    /\ UNCHANGED <<clientVars, connectorVars, kernelVars, historyVars>>

\* connect(2) returns 0.
ConnectedAtOnce ==
    /\ Takes("connect") /\ wanted /\ ~connecting_
    /\ made < MaxConnections
    /\ queue' = Tail(queue)
    /\ OnConnect
    /\ UNCHANGED <<alive, connect_, retry_, connectorVars, kernelVars, closed, destroyed, gaveUp, abandoned>>

\* connect(2): EINPROGRESS.
Connecting ==
    /\ Takes("connect") /\ wanted /\ ~connecting_
    /\ made < MaxConnections
    /\ queue' = Tail(queue)
    /\ connecting_' = TRUE
    /\ channel_' = C!Open(C!EnableWrite(C!New))
    /\ attempt' = "pending" /\ edge' = FALSE
    /\ UNCHANGED <<clientVars, wanted, refusals, historyVars>>

\* connect(2) fails and is retried: ECONNREFUSED, EAGAIN, ENETUNREACH, ...
RefusedAtOnce ==
    /\ Takes("connect") /\ wanted /\ ~connecting_
    /\ refusals < MaxRefusals /\ refusals' = refusals + 1
    /\ queue' = Append(Tail(queue), "connect")
    /\ UNCHANGED <<clientVars, connectorVars, attempt, edge, historyVars>>

\* connect(2) fails for another reason: no retry, and nobody is told.
ConnectGivesUp ==
    /\ Takes("connect") /\ wanted /\ ~connecting_
    /\ queue' = Tail(queue)
    /\ gaveUp' = TRUE
    /\ UNCHANGED <<clientVars, connectorVars, kernelVars, made, closed, destroyed, abandoned, dangling>>

\* The kernel's answer to a connect in progress.
Answer ==
    /\ attempt = "pending"
    /\ \/ attempt' = "connected" /\ UNCHANGED refusals
       \/ refusals < MaxRefusals /\ refusals' = refusals + 1 /\ attempt' = "refused"
    /\ edge' = TRUE
    /\ UNCHANGED <<clientVars, connectorVars, queue, historyVars>>

Report ==
    /\ channel_.started /\ edge
    /\ edge' = FALSE
    /\ channel_' = P!Dispatch(channel_, IF attempt = "refused" THEN {"hup", "err", "out"} ELSE {"out"})
    /\ UNCHANGED <<clientVars, wanted, connecting_, queue, attempt, refusals, historyVars>>

\* The channel after handleEvents: no callback but the writeCallback is set.
Handled == C!ClearWrite(C!ClearError(C!ClearClose(C!HandleStart(channel_))))

\* Connector::onWrite of a connector closed in the meantime.
OnWriteIgnored ==
    /\ channel_.actived /\ (~wanted \/ ~connecting_)
    /\ channel_' = Handled
    /\ UNCHANGED <<clientVars, wanted, connecting_, queue, kernelVars, historyVars>>

\* An onWrite that leaves connecting_ set.
StillConnecting == UNCHANGED connecting_

\* connecting_ = false
NoLongerConnecting == connecting_' = FALSE

\* The next attempt queued before the channel of this one is reset.
RetryThenReset == queue \o <<"connect", "reset">>

\* The next attempt follows the reset.
ResetThenRetry == queue \o <<"reset", "connect">>

\* Connector::onWrite: the channel is closed now and reset in a functor.
OnWrite ==
    /\ channel_.actived /\ wanted /\ connecting_
    /\ channel_' = C!Close(Handled)
    /\ NoLongerConnecting
    /\ IF attempt = "connected"
       THEN OnConnect /\ queue' = Append(queue, "reset")
       ELSE queue' = ResetThenRetry /\ UNCHANGED <<made, connection_, dangling>>
    /\ attempt' = "closed"
    /\ UNCHANGED <<alive, connect_, retry_, wanted, edge, refusals, closed, destroyed, gaveUp, abandoned>>

ResetChannel ==
    /\ Takes("reset")
    /\ queue' = Tail(queue)
    /\ channel_' = C!New
    /\ UNCHANGED <<clientVars, wanted, connecting_, kernelVars, historyVars>>

\* A closeInLoop that closes the channel and not the socket.
CloseInLoopKeepingSocket ==
    /\ Takes("close")
    /\ queue' = Tail(queue)
    /\ channel_' = IF connecting_ THEN C!Close(channel_) ELSE channel_
    /\ UNCHANGED <<clientVars, wanted, connecting_, kernelVars, historyVars>>

\* closeInLoop closes the socket and leaves connecting_ as it is.
CloseInLoop ==
    /\ Takes("close")
    /\ queue' = Tail(queue)
    /\ IF connecting_
       THEN channel_' = C!Close(channel_) /\ attempt' = "closed" /\ edge' = FALSE
       ELSE UNCHANGED <<channel_, attempt, edge>>
    /\ UNCHANGED <<clientVars, wanted, connecting_, refusals, historyVars>>

-----------------------------------------------------------------------------

\* A TcpClient::onClose that asks the connector before it looks at retry_.
ConnectionClosesRetrying(c) ==
    /\ c \in 1..made /\ c \notin closed \cup abandoned
    /\ closed' = closed \cup {c}
    /\ destroyed' = destroyed \cup {c}
    /\ connection_' = 0
    /\ connect_' = (connect_ /\ retry_)
    /\ ConnectorConnect
    /\ UNCHANGED <<alive, retry_, connecting_, channel_, kernelVars, made, gaveUp, abandoned, dangling>>

\* TcpConnection::onClose of connection c, and TcpClient::onClose in it.
ConnectionCloses(c) ==
    /\ c \in 1..made /\ c \notin closed
    /\ closed' = closed \cup {c}
    /\ IF ~alive
       THEN dangling' = TRUE /\ UNCHANGED <<connect_, connection_, wanted, queue, destroyed>>
       ELSE IF connection_ # c
       THEN UNCHANGED <<connect_, connection_, wanted, queue, destroyed, dangling>>
       ELSE /\ destroyed' = destroyed \cup {c}
            /\ connection_' = 0
            /\ IF connect_ /\ retry_
               THEN ConnectorConnect /\ UNCHANGED connect_
               ELSE connect_' = FALSE /\ UNCHANGED <<wanted, queue>>
            /\ UNCHANGED dangling
    /\ UNCHANGED <<alive, retry_, connecting_, channel_, kernelVars, made, gaveUp, abandoned>>

LoopStep ==
    \/ ConnectIgnored \/ ConnectedAtOnce \/ Connecting \/ RefusedAtOnce \/ ConnectGivesUp
    \/ Report \/ OnWriteIgnored \/ OnWrite \/ ResetChannel \/ CloseInLoop

Next ==
    \/ Connect \/ DestroyClient
    \/ Answer \/ LoopStep
    \/ \E c \in 1..MaxConnections : ConnectionCloses(c)

Spec == Init /\ [][Next]_vars

\* The loop runs, and the kernel answers a connect.
FairSpec == Spec /\ WF_vars(LoopStep) /\ WF_vars(Answer)

-----------------------------------------------------------------------------

\* How many functors of a kind are queued.
Queued(f) == Cardinality({i \in 1..Len(queue) : queue[i] = f})

B(p) == IF p THEN 1 ELSE 0

\* A client never has two attempts, two connections, or an attempt besides its
\* connection: an onClose asks for the next one only when the last is over
\* (TcpClient.cpp:37-72, Connector.cpp:34-64, 80-105).
OneAttemptOrConnection ==
    alive => Queued("connect") + B(connecting_) + B(connection_ # 0) = B(connect_ /\ ~gaveUp)

\* The functor that destroys a channel never finds one that is registered with
\* the poller: that of the next attempt (Connector.cpp:76-78, 85-87, 103).
ResetFindsClosedChannel ==
    Queued("reset") > 0 => ~channel_.started

\* A client destroyed while it has no connection is not called again, whatever
\* its connector is doing then (TcpClient.cpp:27-35, Connector.cpp:29-36, 80-83).
IdleClientUncalled == dangling => abandoned # {}

\* Whatever has been refused before, a client that wants a connection gets one,
\* unless connect failed for a reason the connector gives up on.
ConnectsEventually ==
    (alive /\ connect_) ~> (connection_ # 0 \/ gaveUp \/ ~alive \/ made = MaxConnections)

\* A destroyed client leaves no socket behind (TcpClient.cpp:28-34,
\* Connector.cpp:66-74, 81).
DestroyedClosesSocket == ~alive ~> attempt = "closed"
=============================================================================
