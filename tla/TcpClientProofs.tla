--------------------------- MODULE TcpClientProofs ---------------------------
(***************************************************************************)
(* Proofs of the safety properties of module TcpClient, for any number of  *)
(* connections and refused attempts.                                       *)
(***************************************************************************)
EXTENDS TcpClient, QueueLemmas

Functors == {"connect", "close", "reset"}

TypeOK ==
    /\ alive \in BOOLEAN /\ connect_ \in BOOLEAN /\ retry_ \in BOOLEAN
    /\ wanted \in BOOLEAN /\ connecting_ \in BOOLEAN /\ gaveUp \in BOOLEAN
    /\ queue \in Seq(Functors)
    /\ channel_ \in C!ChannelType
    /\ made \in Nat /\ connection_ \in 0..made

-----------------------------------------------------------------------------
(* The channel.                                                            *)

\* Opening and closing a channel, and nothing else, changes whether it is
\* registered.
LEMMA ChannelSteps ==
    ASSUME NEW ch \in C!ChannelType
    PROVE  /\ C!HandleStart(ch) \in C!ChannelType /\ C!HandleStart(ch).started = ch.started
           /\ C!ClearClose(ch) \in C!ChannelType /\ C!ClearClose(ch).started = ch.started
           /\ C!ClearError(ch) \in C!ChannelType /\ C!ClearError(ch).started = ch.started
           /\ C!ClearWrite(ch) \in C!ChannelType /\ C!ClearWrite(ch).started = ch.started
           /\ C!Close(ch) \in C!ChannelType /\ C!Close(ch).started = FALSE
           /\ C!Open(ch) \in C!ChannelType
           /\ C!EnableWrite(ch) \in C!ChannelType
  BY DEF C!ChannelType, C!HandleStart, C!ClearClose, C!ClearError, C!ClearWrite, C!Close,
         C!Open, C!EnableWrite

\* A new channel is not registered.
LEMMA NewChannel == C!New \in C!ChannelType /\ C!New.started = FALSE
  BY DEF C!ChannelType, C!New

\* Nor does an event.
LEMMA Events ==
    ASSUME NEW ch \in C!ChannelType
    PROVE  /\ P!OnClose(ch) \in C!ChannelType /\ P!OnClose(ch).started = ch.started
           /\ P!OnError(ch) \in C!ChannelType /\ P!OnError(ch).started = ch.started
           /\ P!OnRead(ch) \in C!ChannelType /\ P!OnRead(ch).started = ch.started
           /\ P!OnWrite(ch) \in C!ChannelType /\ P!OnWrite(ch).started = ch.started
<1>1. P!OnClose(ch) \in C!ChannelType /\ P!OnClose(ch).started = ch.started
  BY DEF C!ChannelType, P!OnClose, P!AddActived
<1>2. P!OnError(ch) \in C!ChannelType /\ P!OnError(ch).started = ch.started
  BY DEF C!ChannelType, P!OnError, P!AddActived
<1>3. P!OnRead(ch) \in C!ChannelType /\ P!OnRead(ch).started = ch.started
  BY DEF C!ChannelType, P!OnRead, P!AddActived
<1>4. P!OnWrite(ch) \in C!ChannelType /\ P!OnWrite(ch).started = ch.started
  BY DEF C!ChannelType, P!OnWrite, P!AddActived
<1> QED  BY <1>1, <1>2, <1>3, <1>4

\* What the poller reports registers nothing either.
LEMMA Reported ==
    ASSUME NEW ch \in C!ChannelType, NEW events
    PROVE  /\ P!Dispatch(ch, events) \in C!ChannelType
           /\ P!Dispatch(ch, events).started = ch.started
<1> DEFINE hungup == IF "hup" \in events THEN P!OnClose(ch) ELSE ch
           failed == IF "err" \in events THEN P!OnError(hungup) ELSE hungup
           ready  == IF "in"  \in events THEN P!OnRead(failed)  ELSE failed
<1>1. hungup \in C!ChannelType /\ hungup.started = ch.started
  BY Events
<1> HIDE DEF hungup
<1>2. failed \in C!ChannelType /\ failed.started = ch.started
  BY <1>1, Events
<1> HIDE DEF failed
<1>3. ready \in C!ChannelType /\ ready.started = ch.started
  BY <1>2, Events
<1> HIDE DEF ready
<1>4. P!Dispatch(ch, events) = IF "out" \in events THEN P!OnWrite(ready) ELSE ready
  BY DEF P!Dispatch, ready, failed, hungup
<1> QED  BY <1>3, <1>4, Events

\* Nor does handleEvents, up to the callback.
LEMMA HandledChannel ==
    ASSUME channel_ \in C!ChannelType
    PROVE  Handled \in C!ChannelType /\ Handled.started = channel_.started
<1>1. C!HandleStart(channel_) \in C!ChannelType
      /\ C!HandleStart(channel_).started = channel_.started
  BY ChannelSteps
<1> DEFINE ch == C!HandleStart(channel_)
<1> HIDE DEF ch
<1>2. C!ClearClose(ch) \in C!ChannelType /\ C!ClearClose(ch).started = channel_.started
  BY <1>1, ChannelSteps DEF ch
<1> DEFINE dh == C!ClearClose(ch)
<1> HIDE DEF dh
<1>3. C!ClearError(dh) \in C!ChannelType /\ C!ClearError(dh).started = channel_.started
  BY <1>2, ChannelSteps DEF dh
<1> QED  BY <1>3, ChannelSteps DEF Handled, dh, ch

-----------------------------------------------------------------------------
(* The queue.                                                              *)

\* Appending a functor.
LEMMA Appended ==
    ASSUME NEW f \in Functors, NEW q \in Seq(Functors)
    PROVE  /\ Append(q, f) \in Seq(Functors)
           /\ \A g : Times(Append(q, f), g) = Times(q, g) + IF g = f THEN 1 ELSE 0
           /\ \A g : Times(q, g) \in Nat /\ Times(Append(q, f), g) \in Nat
  BY AppendProperties, TimesAppend, TimesCounts

\* Taking the functor at the head.
LEMMA Taken ==
    ASSUME NEW f, NEW q \in Seq(Functors), q # <<>>, Head(q) = f
    PROVE  /\ Tail(q) \in Seq(Functors)
           /\ \A g : Times(q, g) = Times(Tail(q), g) + IF g = f THEN 1 ELSE 0
           /\ \A g : Times(q, g) \in Nat /\ Times(Tail(q), g) \in Nat
  BY HeadTailProperties, TimesTail, TimesCounts

\* No reset comes behind a connect in q.
Ordered(q) == \A i, j \in 1..Len(q) : i < j /\ q[j] = "reset" => q[i] # "connect"

\* Taking the head keeps the order, and with a connect the last reset has gone.
LEMMA OrderedTail ==
    ASSUME NEW q \in Seq(Functors), q # <<>>, Ordered(q)
    PROVE  /\ Ordered(Tail(q))
           /\ Head(q) = "connect" => Times(Tail(q), "reset") = 0
<1> DEFINE t == Tail(q)
<1>1. /\ t \in Seq(Functors) /\ Len(q) \in Nat \ {0} /\ Len(t) = Len(q) - 1
      /\ Head(q) = q[1]
      /\ \A i \in 1..Len(t) : t[i] = q[i + 1]
  BY HeadTailProperties, EmptySeq
<1> HIDE DEF t
<1>2. Ordered(t)
  BY <1>1 DEF Ordered
<1>3. ASSUME Head(q) = "connect", NEW i \in 1..Len(t)
      PROVE  t[i] # "reset"
  BY <1>1, <1>3 DEF Ordered
<1>4. Head(q) = "connect" => Times(t, "reset") = 0
  BY <1>1, <1>3, TimesCounts
<1> QED  BY <1>2, <1>4 DEF t

\* Appending keeps the order, of a reset when no connect waits.
LEMMA OrderedAppend ==
    ASSUME NEW q \in Seq(Functors), Ordered(q), NEW f \in Functors,
           f = "reset" => Times(q, "connect") = 0
    PROVE  Ordered(Append(q, f))
<1> DEFINE p == Append(q, f)
<1>1. /\ Len(q) \in Nat /\ Len(p) = Len(q) + 1 /\ p[Len(q) + 1] = f
      /\ \A i \in 1..Len(q) : p[i] = q[i]
  BY AppendProperties
<1>2. f = "reset" => \A i \in 1..Len(q) : q[i] # "connect"
  BY TimesCounts
<1> HIDE DEF p
<1>3. Ordered(p)
  BY <1>1, <1>2 DEF Ordered
<1> QED  BY <1>3 DEF p

-----------------------------------------------------------------------------
(* The invariant.                                                          *)

\* OneAttemptOrConnection, and what makes it last: what a client wants its
\* connector wants; the connector gives up only on a client that goes on to
\* want; and the connector of a destroyed client does not want a connection any
\* more, or has nothing left that would make one.
Attempts ==
    /\ alive => Times(queue, "connect") + B(connecting_) + B(connection_ # 0)
                    = B(connect_ /\ ~gaveUp)
    /\ alive /\ connect_ => wanted
    /\ alive /\ gaveUp => connect_
    /\ ~alive /\ wanted => ~connecting_ /\ Times(queue, "connect") = 0

\* ResetFindsClosedChannel, which lasts because resets come before the next
\* attempt is made.
Resets ==
    /\ Times(queue, "reset") > 0 => ~channel_.started
    /\ Ordered(queue)

\* IdleClientUncalled, and what makes it last: the client's connection is the
\* only one that is open, and one that is open after the client was destroyed
\* is one it had then.
Connections ==
    /\ dangling => abandoned # {}
    /\ alive => \A c \in 1..made : c \notin closed => c = connection_
    /\ ~alive /\ abandoned = {} => \A c \in 1..made : c \in closed

IInv == TypeOK /\ Attempts /\ Resets /\ Connections

\* A new client has nothing to lose.
LEMMA InvInit == Init => IInv
<1> SUFFICES ASSUME Init PROVE IInv
  OBVIOUS
<1>1. queue \in Seq(Functors) /\ queue = <<>> /\ Len(queue) = 0
  BY DEF Init
<1>2. ASSUME NEW f PROVE Times(queue, f) = 0
  <2>1. \A i \in 1..Len(queue) : queue[i] # f
    BY <1>1
  <2> QED  BY <2>1, <1>1, TimesCounts
<1>3. Ordered(queue)
  BY <1>1 DEF Ordered
<1>4. TypeOK
  <2>1. channel_ \in C!ChannelType
    BY NewChannel DEF Init
  <2>2. made = 0 /\ connection_ = 0 /\ made \in Nat /\ connection_ \in 0..made
    BY DEF Init
  <2> QED  BY <2>1, <2>2, <1>1, Zenon DEF Init, TypeOK
<1>5. Attempts
  BY <1>2 DEF Init, Attempts, B
<1>6. Resets /\ Connections
  BY <1>2, <1>3 DEF Init, Resets, Connections
<1> QED  BY <1>4, <1>5, <1>6 DEF IInv

\* What the queue is like when a functor is appended.
LEMMA QueueAppend ==
    ASSUME IInv, NEW f \in Functors, f = "reset" => Times(queue, "connect") = 0
    PROVE  /\ Append(queue, f) \in Seq(Functors)
           /\ \A g : Times(Append(queue, f), g) = Times(queue, g) + IF g = f THEN 1 ELSE 0
           /\ \A g : Times(queue, g) \in Nat
           /\ Ordered(Append(queue, f))
<1>1. queue \in Seq(Functors) /\ Ordered(queue)
  BY DEF IInv, TypeOK, Resets
<1> QED  BY <1>1, Appended, OrderedAppend

\* What the queue is like when a functor is taken.
LEMMA QueueTail ==
    ASSUME IInv, NEW f, Takes(f)
    PROVE  /\ Tail(queue) \in Seq(Functors)
           /\ \A g : Times(queue, g) = Times(Tail(queue), g) + IF g = f THEN 1 ELSE 0
           /\ \A g : Times(Tail(queue), g) \in Nat
           /\ Ordered(Tail(queue))
           /\ f = "connect" => Times(Tail(queue), "reset") = 0
<1>1. queue \in Seq(Functors) /\ Ordered(queue) /\ queue # <<>> /\ Head(queue) = f
  BY DEF IInv, TypeOK, Resets, Takes
<1>2. \A g : Times(queue, g) = Times(Tail(queue), g) + IF g = f THEN 1 ELSE 0
  BY <1>1, TimesTail
<1>3. Tail(queue) \in Seq(Functors)
  BY <1>1, HeadTailProperties
<1>4. \A g : Times(Tail(queue), g) \in Nat
  BY <1>3, TimesCounts
<1> QED  BY <1>1, <1>2, <1>3, <1>4, OrderedTail

-----------------------------------------------------------------------------
(* The steps.                                                              *)

\* A client that connects has no attempt yet.
LEMMA StepConnect == ASSUME IInv, Connect PROVE IInv'
<1>1. /\ queue' = Append(queue, "connect") /\ queue' \in Seq(Functors)
      /\ \A g : Times(queue', g) = Times(queue, g) + IF g = "connect" THEN 1 ELSE 0
      /\ \A g : Times(queue, g) \in Nat
      /\ Ordered(queue')
  BY QueueAppend DEF Connect, ConnectorConnect, Functors
<1>2. TypeOK'
  BY <1>1 DEF Connect, ConnectorConnect, kernelVars, historyVars, IInv, TypeOK
<1>3. Attempts'
  BY <1>1 DEF Connect, ConnectorConnect, kernelVars, historyVars, IInv, TypeOK, Attempts, B
<1>4. Resets'
  BY <1>1 DEF Connect, ConnectorConnect, kernelVars, historyVars, IInv, TypeOK, Resets
<1>5. Connections'
  BY <1>1 DEF Connect, ConnectorConnect, kernelVars, historyVars, IInv, TypeOK, Attempts, B,
     Connections
<1> QED  BY <1>2, <1>3, <1>4, <1>5 DEF IInv

\* An attempt is ignored only when its client is destroyed.
LEMMA StepConnectIgnored == ASSUME IInv, ConnectIgnored PROVE IInv'
<1>1. /\ queue' = Tail(queue) /\ queue' \in Seq(Functors)
      /\ \A g : Times(queue, g) = Times(queue', g) + IF g = "connect" THEN 1 ELSE 0
      /\ \A g : Times(queue', g) \in Nat
      /\ Ordered(queue')
      /\ Times(queue', "reset") = 0
  BY QueueTail DEF ConnectIgnored
<1>2. TypeOK'
  BY <1>1 DEF ConnectIgnored, clientVars, connectorVars, kernelVars, historyVars, IInv, TypeOK
<1>3. Attempts'
  BY <1>1 DEF ConnectIgnored, clientVars, connectorVars, kernelVars, historyVars, IInv,
     TypeOK, Attempts, B
<1>4. Resets'
  BY <1>1 DEF ConnectIgnored, clientVars, connectorVars, kernelVars, historyVars, IInv,
     TypeOK, Resets
<1>5. Connections'
  BY <1>1 DEF ConnectIgnored, clientVars, connectorVars, kernelVars, historyVars, IInv,
     TypeOK, Attempts, B, Connections
<1> QED  BY <1>2, <1>3, <1>4, <1>5 DEF IInv

\* The connector gives up.
LEMMA StepConnectGivesUp == ASSUME IInv, ConnectGivesUp PROVE IInv'
<1>1. /\ queue' = Tail(queue) /\ queue' \in Seq(Functors)
      /\ \A g : Times(queue, g) = Times(queue', g) + IF g = "connect" THEN 1 ELSE 0
      /\ \A g : Times(queue', g) \in Nat
      /\ Ordered(queue')
      /\ Times(queue', "reset") = 0
  BY QueueTail DEF ConnectGivesUp
<1>2. TypeOK'
  BY <1>1 DEF ConnectGivesUp, clientVars, connectorVars, kernelVars, IInv, TypeOK
<1>3. Attempts'
  BY <1>1 DEF ConnectGivesUp, clientVars, connectorVars, kernelVars, IInv, TypeOK, Attempts, B
<1>4. Resets'
  BY <1>1 DEF ConnectGivesUp, clientVars, connectorVars, kernelVars, IInv, TypeOK, Resets
<1>5. Connections'
  BY <1>1 DEF ConnectGivesUp, clientVars, connectorVars, kernelVars, IInv, TypeOK, Attempts,
     B, Connections
<1> QED  BY <1>2, <1>3, <1>4, <1>5 DEF IInv

\* The attempt becomes the connection.
LEMMA StepConnectedAtOnce == ASSUME IInv, ConnectedAtOnce PROVE IInv'
<1>1. /\ queue' = Tail(queue) /\ queue' \in Seq(Functors)
      /\ \A g : Times(queue, g) = Times(queue', g) + IF g = "connect" THEN 1 ELSE 0
      /\ \A g : Times(queue', g) \in Nat
      /\ Ordered(queue')
      /\ Times(queue', "reset") = 0
  BY QueueTail DEF ConnectedAtOnce
<1>2. TypeOK'
  BY <1>1 DEF ConnectedAtOnce, OnConnect, connectorVars, kernelVars, IInv, TypeOK
<1>3. Attempts'
  BY <1>1 DEF ConnectedAtOnce, OnConnect, connectorVars, kernelVars, IInv, TypeOK, Attempts, B
<1>4. Resets'
  BY <1>1 DEF ConnectedAtOnce, OnConnect, connectorVars, kernelVars, IInv, TypeOK, Resets
<1>5. Connections'
  BY <1>1 DEF ConnectedAtOnce, OnConnect, connectorVars, kernelVars, IInv, TypeOK, Attempts,
     B, Connections
<1> QED  BY <1>2, <1>3, <1>4, <1>5 DEF IInv

\* The channel is reset.
LEMMA StepResetChannel == ASSUME IInv, ResetChannel PROVE IInv'
<1>1. /\ queue' = Tail(queue) /\ queue' \in Seq(Functors)
      /\ \A g : Times(queue, g) = Times(queue', g) + IF g = "reset" THEN 1 ELSE 0
      /\ \A g : Times(queue', g) \in Nat
      /\ Ordered(queue')
  BY QueueTail DEF ResetChannel
<1>2. channel_' = C!New /\ channel_' \in C!ChannelType /\ ~channel_'.started
  BY NewChannel DEF ResetChannel
<1>3. TypeOK'
  BY <1>1, <1>2 DEF ResetChannel, clientVars, kernelVars, historyVars, IInv, TypeOK
<1>4. Attempts'
  <2>1. Times(queue', "connect") = Times(queue, "connect")
    BY <1>1
  <2> QED  BY <2>1 DEF ResetChannel, clientVars, kernelVars, historyVars, IInv, TypeOK, Attempts, B
<1>5. Resets'
  BY <1>1, <1>2 DEF ResetChannel, clientVars, kernelVars, historyVars, IInv, TypeOK, Resets
<1>6. Connections'
  BY <1>1, <1>2 DEF ResetChannel, clientVars, kernelVars, historyVars, IInv, TypeOK,
     Attempts, B, Connections
<1> QED  BY <1>3, <1>4, <1>5, <1>6 DEF IInv

\* The kernel answers.
LEMMA StepAnswer == ASSUME IInv, Answer PROVE IInv'
<1>1. TypeOK'
  BY DEF Answer, clientVars, connectorVars, historyVars, IInv, TypeOK
<1>2. Attempts'
  BY DEF Answer, clientVars, connectorVars, historyVars, IInv, TypeOK, Attempts, B
<1>3. Resets'
  BY DEF Answer, clientVars, connectorVars, historyVars, IInv, TypeOK, Resets
<1>4. Connections'
  BY DEF Answer, clientVars, connectorVars, historyVars, IInv, TypeOK, Attempts, B, Connections
<1> QED  BY <1>1, <1>2, <1>3, <1>4 DEF IInv

\* An attempt begins, of the only functor that asked for one: no reset is left.
LEMMA StepConnecting == ASSUME IInv, Connecting PROVE IInv'
<1>1. /\ queue' = Tail(queue) /\ queue' \in Seq(Functors)
      /\ \A g : Times(queue, g) = Times(queue', g) + IF g = "connect" THEN 1 ELSE 0
      /\ \A g : Times(queue', g) \in Nat
      /\ Ordered(queue')
      /\ Times(queue', "reset") = 0
  BY QueueTail DEF Connecting
<1>2. channel_' \in C!ChannelType
  BY NewChannel, ChannelSteps DEF Connecting
<1>3. TypeOK'
  BY <1>1, <1>2 DEF Connecting, clientVars, historyVars, IInv, TypeOK
<1>4. Attempts'
  BY <1>1, <1>2 DEF Connecting, clientVars, historyVars, IInv, TypeOK, Attempts, B
<1>5. Resets'
  BY <1>1, <1>2 DEF Connecting, clientVars, historyVars, IInv, TypeOK, Resets
<1>6. Connections'
  BY <1>1, <1>2 DEF Connecting, clientVars, historyVars, IInv, TypeOK, Attempts, B, Connections
<1> QED  BY <1>3, <1>4, <1>5, <1>6 DEF IInv

\* A refused attempt is the next one.
LEMMA StepRefusedAtOnce == ASSUME IInv, RefusedAtOnce PROVE IInv'
<1>1. /\ Takes("connect") /\ Tail(queue) \in Seq(Functors)
      /\ \A g : Times(queue, g) = Times(Tail(queue), g) + IF g = "connect" THEN 1 ELSE 0
      /\ \A g : Times(Tail(queue), g) \in Nat
      /\ Ordered(Tail(queue))
  BY QueueTail DEF RefusedAtOnce
<1>2. /\ queue' \in Seq(Functors) /\ Ordered(queue')
      /\ \A g : Times(queue', g) = Times(queue, g)
  <2> DEFINE t == Tail(queue)
  <2>1. queue' = Append(t, "connect") /\ "connect" \in Functors
    BY DEF RefusedAtOnce, Functors
  <2>2. /\ queue' \in Seq(Functors)
        /\ \A g : Times(queue', g) = Times(Tail(queue), g) + IF g = "connect" THEN 1 ELSE 0
    <3>1. t \in Seq(Functors)
      BY <1>1
    <3> HIDE DEF t
    <3>2. /\ queue' \in Seq(Functors)
          /\ \A g : Times(queue', g) = Times(t, g) + IF g = "connect" THEN 1 ELSE 0
      BY <2>1, <3>1, Appended
    <3> QED  BY <3>2 DEF t
  <2>3. Ordered(queue')
    <3>1. "connect" = "reset" => Times(Tail(queue), "connect") = 0
      OBVIOUS
    <3> QED  BY <1>1, <2>1, <3>1, OrderedAppend
  <2> QED  BY <1>1, <2>2, <2>3
<1>3. TypeOK'
  BY <1>1, <1>2 DEF RefusedAtOnce, clientVars, connectorVars, kernelVars, historyVars, IInv,
     TypeOK
<1>4. Attempts'
  BY <1>1, <1>2 DEF RefusedAtOnce, clientVars, connectorVars, kernelVars, historyVars, IInv,
     TypeOK, Attempts, B
<1>5. Resets'
  BY <1>1, <1>2 DEF RefusedAtOnce, clientVars, connectorVars, kernelVars, historyVars, IInv,
     TypeOK, Resets
<1>6. Connections'
  BY <1>1, <1>2 DEF RefusedAtOnce, clientVars, connectorVars, kernelVars, historyVars, IInv,
     TypeOK, Attempts, B, Connections
<1> QED  BY <1>3, <1>4, <1>5, <1>6 DEF IInv

\* A report changes neither the queue nor whether the channel is registered.
LEMMA StepReport == ASSUME IInv, Report PROVE IInv'
<1>1. channel_' \in C!ChannelType /\ channel_'.started = channel_.started
  BY Reported DEF Report, IInv, TypeOK
<1>2. TypeOK'
  BY <1>1 DEF Report, clientVars, historyVars, IInv, TypeOK
<1>3. Attempts'
  BY <1>1 DEF Report, clientVars, historyVars, IInv, TypeOK, Attempts, B
<1>4. Resets'
  BY <1>1 DEF Report, clientVars, historyVars, IInv, TypeOK, Resets
<1>5. Connections'
  BY <1>1 DEF Report, clientVars, historyVars, IInv, TypeOK, Attempts, B, Connections
<1> QED  BY <1>2, <1>3, <1>4, <1>5 DEF IInv

\* Nor does an onWrite that is ignored.
LEMMA StepOnWriteIgnored == ASSUME IInv, OnWriteIgnored PROVE IInv'
<1>1. channel_' \in C!ChannelType /\ channel_'.started = channel_.started
  BY HandledChannel DEF OnWriteIgnored, IInv, TypeOK
<1>2. TypeOK'
  BY <1>1 DEF OnWriteIgnored, clientVars, kernelVars, historyVars, IInv, TypeOK
<1>3. Attempts'
  BY <1>1 DEF OnWriteIgnored, clientVars, kernelVars, historyVars, IInv, TypeOK, Attempts, B
<1>4. Resets'
  BY <1>1 DEF OnWriteIgnored, clientVars, kernelVars, historyVars, IInv, TypeOK, Resets
<1>5. Connections'
  BY <1>1 DEF OnWriteIgnored, clientVars, kernelVars, historyVars, IInv, TypeOK, Attempts,
     B, Connections
<1> QED  BY <1>2, <1>3, <1>4, <1>5 DEF IInv

\* The attempt of a destroyed client is closed.
LEMMA StepCloseInLoop == ASSUME IInv, CloseInLoop PROVE IInv'
<1>1. /\ queue' = Tail(queue) /\ queue' \in Seq(Functors)
      /\ \A g : Times(queue, g) = Times(queue', g) + IF g = "close" THEN 1 ELSE 0
      /\ \A g : Times(queue', g) \in Nat
      /\ Ordered(queue')
  BY QueueTail DEF CloseInLoop
<1>2. channel_' \in C!ChannelType /\ (channel_'.started => channel_.started)
  BY ChannelSteps DEF CloseInLoop, IInv, TypeOK
<1>3. TypeOK'
  BY <1>1, <1>2 DEF CloseInLoop, clientVars, historyVars, IInv, TypeOK
<1>4. Attempts'
  BY <1>1, <1>2 DEF CloseInLoop, clientVars, historyVars, IInv, TypeOK, Attempts, B
<1>5. Resets'
  BY <1>1, <1>2 DEF CloseInLoop, clientVars, historyVars, IInv, TypeOK, Resets
<1>6. Connections'
  BY <1>1, <1>2 DEF CloseInLoop, clientVars, historyVars, IInv, TypeOK, Attempts, B, Connections
<1> QED  BY <1>3, <1>4, <1>5, <1>6 DEF IInv

\* A destroyed client leaves its connector idle, unless it leaves a connection.
LEMMA StepDestroyClient == ASSUME IInv, DestroyClient PROVE IInv'
<1>1. CASE connect_ /\ connection_ = 0
  <2>1. /\ queue' = Append(queue, "close") /\ queue' \in Seq(Functors)
        /\ \A g : Times(queue', g) = Times(queue, g) + IF g = "close" THEN 1 ELSE 0
        /\ \A g : Times(queue, g) \in Nat
        /\ Ordered(queue')
    BY <1>1, QueueAppend DEF DestroyClient, ConnectorClose, Functors
  <2>2. alive' = FALSE /\ wanted' = FALSE /\ UNCHANGED <<abandoned, destroyed>>
    BY <1>1 DEF DestroyClient, ConnectorClose
  <2>3. TypeOK'
    BY <2>1, <2>2 DEF DestroyClient, kernelVars, IInv, TypeOK
  <2>4. Attempts'
    BY <2>1, <2>2 DEF DestroyClient, kernelVars, Attempts
  <2>5. Resets'
    BY <2>1 DEF DestroyClient, IInv, TypeOK, Resets
  <2>6. Connections'
    BY <1>1, <2>2 DEF DestroyClient, IInv, TypeOK, Connections
  <2> QED  BY <2>3, <2>4, <2>5, <2>6 DEF IInv
<1>2. CASE ~(connect_ /\ connection_ = 0)
  <2>1. /\ ~alive' /\ UNCHANGED <<wanted, queue, connecting_, connection_, channel_>>
        /\ UNCHANGED <<made, closed, dangling>>
        /\ abandoned' = IF connect_ THEN {connection_} ELSE abandoned
    BY <1>2 DEF DestroyClient
  <2>2. \A g : Times(queue, g) \in Nat
    BY TimesCounts DEF IInv, TypeOK
  <2>3. connection_ = 0 \/ connect_
    BY <2>2 DEF DestroyClient, IInv, TypeOK, Attempts, B
  <2>4. ~connecting_ /\ Times(queue, "connect") = 0
    BY <1>2, <2>2, <2>3 DEF DestroyClient, IInv, TypeOK, Attempts, B
  <2>5. TypeOK'
    BY <2>1 DEF DestroyClient, IInv, TypeOK
  <2>6. Attempts'
    BY <2>1, <2>4 DEF Attempts
  <2>7. Resets'
    BY <2>1 DEF IInv, Resets
  <2>8. Connections'
    BY <1>2, <2>1, <2>3 DEF DestroyClient, IInv, TypeOK, Connections
  <2> QED  BY <2>5, <2>6, <2>7, <2>8 DEF IInv
<1> QED  BY <1>1, <1>2

\* The attempt becomes the connection or the next attempt.
LEMMA StepOnWrite == ASSUME IInv, OnWrite PROVE IInv'
<1> DEFINE first == Append(queue, "reset")
<1>1. alive
  BY DEF OnWrite, IInv, TypeOK, Attempts
<1>2. (\A g : Times(queue, g) \in Nat) /\ Times(queue, "connect") = 0 /\ connection_ = 0
      /\ connect_ /\ ~gaveUp
  <2>1. \A g : Times(queue, g) \in Nat
    BY TimesCounts DEF IInv, TypeOK
  <2> QED  BY <1>1, <2>1 DEF OnWrite, IInv, TypeOK, Attempts, B
<1>3. channel_' \in C!ChannelType /\ ~channel_'.started
  BY HandledChannel, ChannelSteps DEF OnWrite, IInv, TypeOK
<1>4. /\ first \in Seq(Functors) /\ Ordered(first)
      /\ \A g : Times(first, g) = Times(queue, g) + IF g = "reset" THEN 1 ELSE 0
  BY <1>2, QueueAppend DEF Functors
<1> HIDE DEF first
<1>5. CASE attempt = "connected"
  <2>1. /\ queue' = first /\ made' = made + 1 /\ connection_' = made + 1 /\ connecting_' = FALSE
        /\ UNCHANGED <<dangling, alive, connect_, retry_, wanted, closed, gaveUp, abandoned>>
    BY <1>1, <1>5 DEF OnWrite, OnConnect, NoLongerConnecting, first
  <2>2. TypeOK'
    <3>1. made' \in Nat /\ connection_' \in 0..made'
      BY <2>1 DEF IInv, TypeOK
    <3> QED  BY <1>3, <1>4, <2>1, <3>1, Zenon DEF IInv, TypeOK
  <2>3. Times(queue', "connect") = 0
    <3>1. Times(first, "connect") = Times(queue, "connect") + 0
      BY <1>4
    <3> QED  BY <1>2, <2>1, <3>1
  <2>4. Attempts'
    <3>1. connection_' # 0
      BY <2>1 DEF IInv, TypeOK
    <3>2. wanted' /\ alive' /\ connect_' /\ ~gaveUp' /\ ~connecting_'
      BY <1>1, <1>2, <2>1 DEF OnWrite
    <3> QED  BY <2>3, <3>1, <3>2 DEF Attempts, B
  <2>5. Resets'
    BY <1>3, <1>4, <2>1 DEF Resets
  <2>6. Connections'
    BY <1>1, <1>2, <2>1 DEF IInv, TypeOK, Connections
  <2> QED  BY <2>2, <2>4, <2>5, <2>6 DEF IInv
<1>6. CASE attempt # "connected"
  <2>1. /\ queue' = Append(first, "connect") /\ connecting_' = FALSE /\ "connect" \in Functors
        /\ UNCHANGED <<made, connection_, dangling, alive, connect_, retry_, wanted>>
        /\ UNCHANGED <<closed, gaveUp, abandoned>>
    <3>1. queue \o <<"reset", "connect">> = Append(first, "connect")
      BY DEF IInv, TypeOK, Functors, first
    <3> QED  BY <1>6, <3>1 DEF OnWrite, NoLongerConnecting, ResetThenRetry, Functors
  <2>2. /\ queue' \in Seq(Functors)
        /\ \A g : Times(queue', g) = Times(first, g) + IF g = "connect" THEN 1 ELSE 0
    <3>1. first \in Seq(Functors)
      BY <1>4
    <3> QED  BY <2>1, <3>1, Appended
  <2>3. Ordered(queue')
    <3>1. "connect" = "reset" => Times(first, "connect") = 0
      OBVIOUS
    <3> QED  BY <1>4, <2>1, <3>1, OrderedAppend
  <2>4. TypeOK'
    BY <1>3, <2>1, <2>2 DEF IInv, TypeOK
  <2>5. Times(queue', "connect") = 1
    BY <1>2, <1>4, <2>2
  <2>6. Attempts'
    BY <1>1, <1>2, <2>1, <2>5 DEF OnWrite, IInv, TypeOK, Attempts, B
  <2>7. Resets'
    BY <1>3, <2>3 DEF Resets
  <2>8. Connections'
    BY <2>1 DEF IInv, Connections
  <2> QED  BY <2>4, <2>6, <2>7, <2>8 DEF IInv
<1> QED  BY <1>5, <1>6

\* A connection closes: the client's, whose client may ask for another, or one
\* that outlived its client.
LEMMA StepConnectionCloses ==
    ASSUME IInv, NEW c \in 1..MaxConnections, ConnectionCloses(c)
    PROVE  IInv'
<1>1. /\ c \in 1..made /\ c \notin closed /\ closed' = closed \cup {c}
      /\ UNCHANGED <<alive, retry_, connecting_, channel_, made, gaveUp, abandoned>>
  BY DEF ConnectionCloses, kernelVars
<1>2. \A g : Times(queue, g) \in Nat
  BY TimesCounts DEF IInv, TypeOK
<1>3. CASE ~alive
  <2>1. dangling' /\ UNCHANGED <<connect_, connection_, wanted, queue>>
    BY <1>3 DEF ConnectionCloses
  <2>2. TypeOK'
    BY <1>1, <2>1 DEF IInv, TypeOK
  <2>3. Attempts' /\ Resets'
    BY <1>1, <2>1 DEF IInv, Attempts, Resets
  <2>4. Connections'
    BY <1>1, <1>3, <2>1 DEF IInv, Connections
  <2> QED  BY <2>2, <2>3, <2>4 DEF IInv
<1>4. CASE alive
  <2>1. connection_ = c /\ c # 0 /\ c \in Nat
    BY <1>1, <1>4 DEF IInv, TypeOK, Connections
  <2>2. /\ Times(queue, "connect") = 0 /\ ~connecting_ /\ connect_ /\ ~gaveUp
    BY <1>2, <1>4, <2>1 DEF IInv, TypeOK, Attempts, B
  <2>3. connection_' = 0 /\ UNCHANGED dangling
    BY <1>4, <2>1 DEF ConnectionCloses
  <2>4. Connections'
    BY <1>1, <1>4, <2>1, <2>3 DEF IInv, Connections
  <2>5. CASE retry_
    <3>1. UNCHANGED connect_ /\ wanted' = TRUE /\ queue' = Append(queue, "connect")
      BY <1>4, <2>1, <2>2, <2>5 DEF ConnectionCloses, ConnectorConnect
    <3>2. /\ queue' \in Seq(Functors) /\ Ordered(queue')
          /\ \A g : Times(queue', g) = Times(queue, g) + IF g = "connect" THEN 1 ELSE 0
      BY <3>1, QueueAppend DEF Functors
    <3>3. TypeOK'
      BY <1>1, <2>3, <3>1, <3>2 DEF IInv, TypeOK
    <3>4. Times(queue', "connect") = 1 /\ Times(queue', "reset") = Times(queue, "reset")
      BY <1>2, <2>2, <3>2
    <3>5. Attempts'
      BY <1>1, <1>4, <2>2, <2>3, <3>1, <3>4 DEF Attempts, B
    <3>6. Resets'
      BY <1>1, <3>2, <3>4 DEF IInv, Resets
    <3> QED  BY <2>4, <3>3, <3>5, <3>6 DEF IInv
  <2>6. CASE ~retry_
    <3>1. connect_' = FALSE /\ UNCHANGED <<wanted, queue>>
      BY <1>4, <2>1, <2>6 DEF ConnectionCloses
    <3>2. TypeOK'
      <4>1. made' \in Nat /\ connection_' \in 0..made'
        BY <1>1, <2>3 DEF IInv, TypeOK
      <4> QED  BY <1>1, <3>1, <4>1, Zenon DEF IInv, TypeOK
    <3>3. Attempts'
      BY <1>1, <1>4, <2>2, <2>3, <3>1 DEF Attempts, B
    <3>4. Resets'
      BY <1>1, <3>1 DEF IInv, Resets
    <3> QED  BY <2>4, <3>2, <3>3, <3>4 DEF IInv
  <2> QED  BY <2>5, <2>6 DEF IInv, TypeOK
<1> QED  BY <1>3, <1>4

-----------------------------------------------------------------------------
(* The theorems.                                                           *)

\* Every step keeps the invariant.
LEMMA InvNext == IInv /\ [Next]_vars => IInv'
<1> SUFFICES ASSUME IInv, [Next]_vars PROVE IInv'
  OBVIOUS
<1>1. CASE Connect
  BY <1>1, StepConnect
<1>2. CASE DestroyClient
  BY <1>2, StepDestroyClient
<1>3. CASE Answer
  BY <1>3, StepAnswer
<1>4. CASE LoopStep
  BY <1>4, StepConnectIgnored, StepConnectedAtOnce, StepConnecting, StepRefusedAtOnce,
     StepConnectGivesUp, StepReport, StepOnWriteIgnored, StepOnWrite, StepResetChannel,
     StepCloseInLoop DEF LoopStep
<1>5. CASE \E c \in 1..MaxConnections : ConnectionCloses(c)
  BY <1>5, StepConnectionCloses
<1>6. CASE UNCHANGED vars
  BY <1>6 DEF vars, clientVars, connectorVars, kernelVars, historyVars, IInv, TypeOK, Attempts,
              Resets, Connections
<1> QED  BY <1>1, <1>2, <1>3, <1>4, <1>5, <1>6 DEF Next

\* The properties count the functors as Times does.
LEMMA QueuedIsTimes == \A f : Queued(f) = Times(queue, f)
  BY DEF Queued, Times, Places

\* For any number of connections and refusals, a client that is there and wants
\* a connection has exactly one attempt or one connection, and else none.
THEOREM OneAtATime == Spec => []OneAttemptOrConnection
<1>1. IInv => OneAttemptOrConnection
  BY QueuedIsTimes DEF IInv, Attempts, OneAttemptOrConnection
<1> QED  BY <1>1, InvInit, InvNext, PTL DEF Spec

\* The functor that destroys a channel never destroys that of the next attempt.
THEOREM ResetsClosedChannel == Spec => []ResetFindsClosedChannel
<1>1. IInv => ResetFindsClosedChannel
  BY QueuedIsTimes DEF IInv, Resets, ResetFindsClosedChannel
<1> QED  BY <1>1, InvInit, InvNext, PTL DEF Spec

\* A client that was destroyed without a connection is not called by its
\* connector, whatever that was doing.
THEOREM DestroyedIdleUncalled == Spec => []IdleClientUncalled
<1>1. IInv => IdleClientUncalled
  BY DEF IInv, Connections, IdleClientUncalled
<1> QED  BY <1>1, InvInit, InvNext, PTL DEF Spec
=============================================================================
