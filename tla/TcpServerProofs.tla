--------------------------- MODULE TcpServerProofs ---------------------------
(***************************************************************************)
(* Proofs of the safety properties of module TcpServer, for any number of  *)
(* connections, loops, descriptors and calls: the server removes a         *)
(* connection once, what is freed is out of reach, and a server destroyed  *)
(* without connections is not called again.                                *)
(***************************************************************************)
EXTENDS TcpServer, QueueLemmas

UserOps  == {"establish", "close", "send"}
Ops      == UserOps \cup {"listen", "closeAcceptor", "remove", "destroy"}
Functors == [op : Ops, conn : 0..MaxConnections]

TypeOK ==
    /\ alive \in BOOLEAN /\ listen_ \in BOOLEAN /\ accept_ \in BOOLEAN
    /\ accepting \in BOOLEAN /\ dangling \in BOOLEAN
    /\ setup \in Setups
    /\ connections_ \in [Fds -> 0..MaxConnections]
    /\ indexLoop_ \in Nat
    /\ fd \in [Connections -> Nat] /\ loop \in [Connections -> Loops]
    /\ establish_ \in [Connections -> BOOLEAN] /\ close_ \in [Connections -> BOOLEAN]
    /\ channel_ \in [Connections -> C!ChannelType]
    /\ arrived \in 0..MaxConnections /\ backlog \in Nat /\ born \in Nat
    /\ born + backlog <= arrived
    /\ held \subseteq Made
    /\ call = NoCall \/ (call \in Functors /\ call.op \in UserOps /\ call.conn \in Made)
    /\ begun \in [Connections -> UserOps \cup {"none"}]

\* Before it is accepted, a connection is as its constructor leaves it.
Unmade ==
    \A c \in Connections \ Made :
        ~establish_[c] /\ ~close_[c] /\ ~channel_[c].actived /\ begun[c] = "none"

\* connections_ holds a connection under its own descriptor.
UnderItsDescriptor ==
    /\ \A c \in Made : fd[c] \in Fds
    /\ \A f \in Fds : connections_[f] # 0 => connections_[f] \in Made /\ fd[connections_[f]] = f

(* What holds of the queues, q for queue: q may also be what an action makes *)
(* of queue before it appends to it.                                         *)

\* A functor f is in the loop l that runs it.
Proper(l, f) ==
    /\ f.op \in {"listen", "closeAcceptor", "remove"} => l = 0
    /\ f.op \in UserOps \cup {"remove", "destroy"} => f.conn \in Made
    /\ f.op \in UserOps \cup {"destroy"} => loop[f.conn] = l
    /\ f.op \in UserOps => begun[f.conn] # "none"

InTheirLoops(q) ==
    /\ q \in [Loops -> Seq(Functors)]
    /\ \A l \in Loops : \A i \in 1..Len(q[l]) : Proper(l, q[l][i])

Removals(q, c) == Times(q[0], Functor("remove", c))

\* The server holds a connection that is not closed, or whose only
\* removeConnection still waits.
HeldUntilRemoved(q) ==
    alive => \A c \in Made :
        /\ Removals(q, c) <= 1
        /\ ~close_[c] => Removals(q, c) = 0
        /\ connections_[fd[c]] = c <=> (~close_[c] \/ Removals(q, c) = 1)

\* The functors that touch what the destructor leaves.
Uses(c) == {Functor("establish", c), Functor("send", c)}

\* Of the functors s of one loop: none uses c; none does after c's destroy(); none
\* sends before c is established.
Quiet(s, c) == \A j \in 1..Len(s) : s[j] \notin Uses(c)

Settled(s, c) ==
    \E i \in 1..Len(s) : /\ s[i] = Functor("destroy", c)
                         /\ \A j \in (i + 1)..Len(s) : s[j] \notin Uses(c)

Ready(s, c) ==
    \E i \in 1..Len(s) : /\ s[i] = Functor("establish", c)
                         /\ \A j \in 1..(i - 1) : s[j] # Functor("send", c)

\* A user's first establish() waits ahead of any send.
EstablishWaits(q) ==
    \A c \in Made : begun[c] = "establish" /\ ~establish_[c] => Ready(q[loop[c]], c)

\* A closed connection is held by its removeConnection, then by its destroy(), or
\* that has run and left nothing that reaches it.
Gone(q, c) == Quiet(q[loop[c]], c) /\ ~channel_[c].started /\ ~channel_[c].actived

ClosedThenDestroyed(q) ==
    \A c \in Made \ (late \cup abandoned) : close_[c] =>
        \/ alive /\ Removals(q, c) = 1
        \/ Settled(q[loop[c]], c)
        \/ Gone(q, c)

\* A server destroyed without connections leaves none that would call it.
Outlived(q) ==
    /\ alive => abandoned = {} /\ ~dangling
    /\ accept_ => alive /\ listen_
    /\ ~alive =>
        /\ \A c \in Made \ abandoned : close_[c] /\ Removals(q, c) = 0
        /\ abandoned = {} => ~accepting /\ ~dangling

Safe(q) ==
    /\ Unmade /\ UnderItsDescriptor /\ InTheirLoops(q) /\ HeldUntilRemoved(q)
    /\ EstablishWaits(q) /\ ClosedThenDestroyed(q) /\ Outlived(q)

IInv == TypeOK /\ Safe(queue)

-----------------------------------------------------------------------------
(* The channels.                                                           *)

\* The operations of a channel give a channel, and open() and close() leave actived_.
LEMMA ChannelSteps ==
    ASSUME NEW ch \in C!ChannelType
    PROVE  /\ C!Open(ch) \in C!ChannelType /\ C!Open(ch).actived = ch.actived
           /\ C!Close(ch) \in C!ChannelType /\ C!Close(ch).actived = ch.actived
           /\ C!Close(ch).started = FALSE
           /\ C!DisableAll(ch) \in C!ChannelType
           /\ C!HandleStart(ch) \in C!ChannelType
           /\ C!ClearClose(ch) \in C!ChannelType
           /\ C!ClearRead(ch) \in C!ChannelType
  BY DEF C!ChannelType, C!Open, C!Close, C!DisableAll, C!HandleStart, C!ClearClose, C!ClearRead

\* A new channel has no events.
LEMMA NewChannelQuiet == NewChannel \in C!ChannelType /\ NewChannel.actived = FALSE
  BY DEF NewChannel, C!EnableAll, C!New, C!ChannelType

\* What the poller reports leaves a channel.
LEMMA Reported ==
    ASSUME NEW ch \in C!ChannelType
    PROVE  P!Dispatch(ch, {"hup", "in"}) \in C!ChannelType
  <1>1. ASSUME NEW h \in C!ChannelType
        PROVE  P!AddActived(h) \in C!ChannelType
    BY <1>1 DEF C!ChannelType, P!AddActived
  <1>2. ASSUME NEW h \in C!ChannelType
        PROVE  P!OnClose(h) \in C!ChannelType /\ P!OnRead(h) \in C!ChannelType
    <2>1. /\ [h EXCEPT !.closed = TRUE, !.rclose = TRUE] \in C!ChannelType
          /\ [h EXCEPT !.readable = TRUE, !.rread = TRUE] \in C!ChannelType
      BY <1>2 DEF C!ChannelType
    <2>2. QED
      BY <1>1, <1>2, <2>1 DEF P!OnClose, P!OnRead
  <1>3. P!Dispatch(ch, {"hup", "in"}) = P!OnRead(P!OnClose(ch))
    BY DEF P!Dispatch
  <1>4. QED
    BY <1>2, <1>3

-----------------------------------------------------------------------------
(* The functors of one loop.                                               *)

\* Taking the head.
LEMMA TailKeeps ==
    ASSUME NEW s \in Seq(Functors), s # <<>>, NEW c
    PROVE  /\ Quiet(s, c) => Quiet(Tail(s), c)
           /\ Settled(s, c) => \/ Settled(Tail(s), c)
                               \/ Head(s) = Functor("destroy", c) /\ Quiet(Tail(s), c)
           /\ Ready(s, c) => /\ Head(s) # Functor("send", c)
                             /\ Ready(Tail(s), c) \/ Head(s) = Functor("establish", c)
  <1> DEFINE t == Tail(s)
  <1>1. /\ Len(s) \in Nat \ {0} /\ Len(t) = Len(s) - 1 /\ Head(s) = s[1]
        /\ \A i \in 1..Len(t) : t[i] = s[i + 1]
    BY EmptySeq
  <1> HIDE DEF t
  <1>2. Quiet(s, c) => Quiet(t, c)
    BY <1>1 DEF Quiet
  <1>3. ASSUME Settled(s, c)
        PROVE  Settled(t, c) \/ (Head(s) = Functor("destroy", c) /\ Quiet(t, c))
    <2>1. PICK i \in 1..Len(s) : /\ s[i] = Functor("destroy", c)
                                 /\ \A j \in (i + 1)..Len(s) : s[j] \notin Uses(c)
      BY <1>3 DEF Settled
    <2>2. CASE i = 1
      BY <1>1, <2>1, <2>2 DEF Quiet
    <2>3. CASE i # 1
      <3>1. /\ i - 1 \in 1..Len(t) /\ t[i - 1] = Functor("destroy", c)
            /\ \A j \in i..Len(t) : t[j] \notin Uses(c)
        BY <1>1, <2>1, <2>3
      <3>2. (i - 1) + 1 = i
        BY <1>1
      <3>3. QED
        BY <3>1, <3>2 DEF Settled
    <2>4. QED
      BY <2>2, <2>3
  <1>4. ASSUME Ready(s, c)
        PROVE  /\ Head(s) # Functor("send", c)
               /\ Ready(t, c) \/ Head(s) = Functor("establish", c)
    <2>1. PICK i \in 1..Len(s) : /\ s[i] = Functor("establish", c)
                                 /\ \A j \in 1..(i - 1) : s[j] # Functor("send", c)
      BY <1>4 DEF Ready
    <2>2. CASE i = 1
      BY <1>1, <2>1, <2>2 DEF Functor
    <2>3. CASE i # 1
      <3>1. 1 \in 1..(i - 1)
        BY <1>1, <2>3
      <3>2. /\ i - 1 \in 1..Len(t) /\ t[i - 1] = Functor("establish", c)
            /\ \A j \in 1..((i - 1) - 1) : t[j] # Functor("send", c)
        BY <1>1, <2>1, <2>3
      <3>3. QED
        BY <1>1, <2>1, <3>1, <3>2 DEF Ready
    <2>4. QED
      BY <2>2, <2>3
  <1>5. QED
    BY <1>2, <1>3, <1>4 DEF t

\* Functors that follow: p is s and more.
Follows(p, s) == Len(s) <= Len(p) /\ \A i \in 1..Len(s) : p[i] = s[i]

\* Functors that follow leave what waits, when none of them uses c.
LEMMA MoreKeeps ==
    ASSUME NEW s \in Seq(Functors), NEW p \in Seq(Functors), Follows(p, s), NEW c
    PROVE  /\ (\A j \in (Len(s) + 1)..Len(p) : p[j] \notin Uses(c)) =>
                (Quiet(s, c) => Quiet(p, c)) /\ (Settled(s, c) => Settled(p, c))
           /\ Ready(s, c) => Ready(p, c)
  <1>1. Len(s) \in Nat /\ Len(p) \in Nat
    OBVIOUS
  <1>2. ASSUME \A j \in (Len(s) + 1)..Len(p) : p[j] \notin Uses(c), Quiet(s, c)
        PROVE  Quiet(p, c)
    BY <1>1, <1>2 DEF Quiet, Follows
  <1>3. ASSUME \A j \in (Len(s) + 1)..Len(p) : p[j] \notin Uses(c), Settled(s, c)
        PROVE  Settled(p, c)
    <2>1. PICK i \in 1..Len(s) : /\ s[i] = Functor("destroy", c)
                                 /\ \A j \in (i + 1)..Len(s) : s[j] \notin Uses(c)
      BY <1>3 DEF Settled
    <2>2. i \in 1..Len(p) /\ p[i] = Functor("destroy", c)
      BY <1>1, <2>1 DEF Follows
    <2>3. ASSUME NEW j \in (i + 1)..Len(p) PROVE p[j] \notin Uses(c)
      <3>1. j \in (i + 1)..Len(s) \/ j \in (Len(s) + 1)..Len(p)
        BY <1>1
      <3>2. j \in 1..Len(s) => p[j] = s[j]
        BY DEF Follows
      <3>3. QED
        BY <1>1, <1>3, <2>1, <3>1, <3>2
    <2>4. QED
      BY <2>2, <2>3 DEF Settled
  <1>4. ASSUME Ready(s, c) PROVE Ready(p, c)
    <2>1. PICK i \in 1..Len(s) : /\ s[i] = Functor("establish", c)
                                 /\ \A j \in 1..(i - 1) : s[j] # Functor("send", c)
      BY <1>4 DEF Ready
    <2>2. i \in 1..Len(p) /\ p[i] = Functor("establish", c)
      BY <1>1, <2>1 DEF Follows
    <2>3. \A j \in 1..(i - 1) : p[j] # Functor("send", c)
      BY <1>1, <2>1 DEF Follows
    <2>4. QED
      BY <2>2, <2>3 DEF Ready
  <1>5. QED
    BY <1>2, <1>3, <1>4

\* Functors that follow and are not f leave how often f waits.
LEMMA MoreTimes ==
    ASSUME NEW s \in Seq(Functors), NEW p \in Seq(Functors), Follows(p, s), NEW f,
           \A j \in (Len(s) + 1)..Len(p) : p[j] # f
    PROVE  Times(p, f) = Times(s, f)
  <1>1. Len(s) \in Nat /\ Len(p) \in Nat
    OBVIOUS
  <1>2. Places(p, f) = Places(s, f)
    BY <1>1 DEF Places, Follows
  <1>3. QED
    BY <1>2 DEF Times

\* Appending one.
LEMMA AppendKeeps ==
    ASSUME NEW s \in Seq(Functors), NEW f \in Functors, NEW c
    PROVE  /\ f \notin Uses(c) => /\ Quiet(s, c) => Quiet(Append(s, f), c)
                                  /\ Settled(s, c) => Settled(Append(s, f), c)
           /\ Ready(s, c) => Ready(Append(s, f), c)
           /\ f = Functor("destroy", c) => Settled(Append(s, f), c)
           /\ f = Functor("establish", c) /\ (\A j \in 1..Len(s) : s[j] # Functor("send", c))
                => Ready(Append(s, f), c)
  <1> DEFINE p == Append(s, f)
  <1>1. /\ p \in Seq(Functors) /\ Len(s) \in Nat /\ Len(p) = Len(s) + 1
        /\ p[Len(s) + 1] = f /\ \A i \in 1..Len(s) : p[i] = s[i]
    BY AppendProperties
  <1> HIDE DEF p
  <1>2. Follows(p, s)
    BY <1>1 DEF Follows
  <1>3. f \notin Uses(c) => \A j \in (Len(s) + 1)..Len(p) : p[j] \notin Uses(c)
    BY <1>1
  <1>4. /\ f \notin Uses(c) => (Quiet(s, c) => Quiet(p, c)) /\ (Settled(s, c) => Settled(p, c))
        /\ Ready(s, c) => Ready(p, c)
    BY <1>1, <1>2, <1>3, MoreKeeps
  <1>5. f = Functor("destroy", c) => Settled(p, c)
    <2>1. Len(s) + 1 \in 1..Len(p) /\ \A j \in ((Len(s) + 1) + 1)..Len(p) : FALSE
      BY <1>1
    <2>2. QED
      BY <1>1, <2>1 DEF Settled
  <1>6. ASSUME f = Functor("establish", c), \A j \in 1..Len(s) : s[j] # Functor("send", c)
        PROVE  Ready(p, c)
    <2>1. /\ Len(s) + 1 \in 1..Len(p)
          /\ \A j \in 1..((Len(s) + 1) - 1) : j \in 1..Len(s)
      BY <1>1
    <2>2. QED
      BY <1>1, <1>6, <2>1 DEF Ready
  <1>7. QED
    BY <1>4, <1>5, <1>6 DEF p

-----------------------------------------------------------------------------
(* The destroy() of every connection.                                      *)

\* A finite set of numbers can be listed in order: by the rank of each.
LEMMA Ascending ==
    ASSUME NEW M, \A m \in M : m \in Int, IsFiniteSet(M)
    PROVE  /\ Cardinality(M) \in Nat
           /\ \E s \in [1..Cardinality(M) -> M] :
                \A i, j \in 1..Cardinality(M) : i < j => s[i] < s[j]
  <1> DEFINE n == Cardinality(M)
             Below(m) == {k \in M : k <= m}
             rank == [m \in M |-> Cardinality(Below(m))]
             s == [i \in 1..n |-> CHOOSE m \in M : rank[m] = i]
  <1>1. n \in Nat
    BY FS_CardinalityType
  <1>2. ASSUME NEW m \in M
        PROVE  IsFiniteSet(Below(m)) /\ rank[m] \in 1..n
    <2>1. IsFiniteSet(Below(m)) /\ Cardinality(Below(m)) <= n
      BY FS_Subset
    <2>2. Below(m) # {}
      <3>1. m \in Below(m)
        OBVIOUS
      <3>2. QED
        BY <3>1
    <2>3. Cardinality(Below(m)) \in Nat /\ Cardinality(Below(m)) # 0
      BY <2>1, <2>2, FS_CardinalityType, FS_EmptySet
    <2>4. QED
      BY <1>1, <2>1, <2>3
  <1>3. ASSUME NEW k \in M, NEW m \in M, k < m
        PROVE  rank[k] < rank[m]
    <2>1. /\ Below(k) \subseteq Below(m) /\ m \in Below(m) /\ m \notin Below(k)
      <3>1. k \in Int /\ m \in Int /\ ~(m <= k)
        BY <1>3
      <3>2. ASSUME NEW i \in M, i <= k PROVE i <= m
        <4>1. i \in Int
          OBVIOUS
        <4> HIDE DEF Below, rank, s
        <4>2. QED
          BY <1>3, <3>1, <3>2, <4>1
      <3>3. Below(k) \subseteq Below(m)
        BY <3>2, Zenon
      <3>4. m \in Below(m)
        BY <3>1
      <3>5. m \notin Below(k)
        BY <3>1, Zenon
      <3>6. QED
        BY <3>3, <3>4, <3>5, Zenon
    <2>2. /\ IsFiniteSet(Below(k)) /\ IsFiniteSet(Below(m)) /\ Below(k) # Below(m)
          /\ rank[k] = Cardinality(Below(k)) /\ rank[m] = Cardinality(Below(m))
          /\ rank[k] \in Nat /\ rank[m] \in Nat
      BY <1>2, <2>1
    <2> HIDE DEF Below, rank
    <2>3. rank[k] <= rank[m] /\ rank[k] # rank[m]
      BY <2>1, <2>2, FS_Subset
    <2>4. QED
      BY <2>2, <2>3
  <1> HIDE DEF rank
  <1>4. rank \in Injection(M, 1..n)
    <2>1. rank \in [M -> 1..n]
      <3>1. rank = [m \in M |-> rank[m]]
        BY DEF rank
      <3>2. QED
        BY <1>2, <3>1
    <2>2. ASSUME NEW k \in M, NEW m \in M, rank[k] = rank[m] PROVE k = m
      <3>1. k < m \/ m < k \/ k = m
        <4>1. k \in Int /\ m \in Int
          OBVIOUS
        <4>2. QED
          BY <4>1
      <3>2. rank[k] \in Nat /\ rank[m] \in Nat
        <4>1. rank[k] \in 1..n /\ rank[m] \in 1..n
          BY <1>2
        <4> HIDE DEF n, s, Below
        <4>2. QED
          BY <1>1, <4>1
      <3>3. QED
        BY <1>3, <2>2, <3>1, <3>2
    <2>3. QED
      BY <2>1, <2>2 DEF Injection, IsInjective
  <1>5. IsFiniteSet(1..n) /\ Cardinality(1..n) = n
    BY <1>1, FS_Interval
  <1>6. rank \in Surjection(M, 1..n)
    BY <1>4, <1>5, FS_Injection
  <1>7. \A i \in 1..n : s[i] \in M /\ rank[s[i]] = i
    <2>1. \A i \in 1..n : \E m \in M : rank[m] = i
      BY <1>6 DEF Surjection
    <2>2. QED
      BY <2>1
  <1>8. ASSUME NEW i \in 1..n, NEW j \in 1..n, i < j PROVE s[i] < s[j]
    <2>1. s[i] \in M /\ s[j] \in M /\ rank[s[i]] = i /\ rank[s[j]] = j
      BY <1>7
    <2> HIDE DEF s
    <2>2. s[i] < s[j] \/ s[j] < s[i] \/ s[i] = s[j]
      <3>1. s[i] \in Int /\ s[j] \in Int
        BY <2>1
      <3>2. QED
        BY <3>1
    <2>3. CASE s[j] < s[i]
      <3>1. rank[s[j]] < rank[s[i]]
        BY <1>3, <2>1, <2>3
      <3>2. QED
        BY <1>1, <1>8, <2>1, <3>1
    <2>4. QED
      BY <1>1, <1>8, <2>1, <2>2, <2>3
  <1>9. s \in [1..n -> M]
    BY <1>7
  <1> HIDE DEF s
  <1>10. QED
    BY <1>1, <1>8, <1>9

\* Only the first MaxConnections connections are ever made.
LEMMA MadeConnections == TypeOK => Made \subseteq Connections /\ Made \subseteq 0..MaxConnections
  BY TcpServerAssumption DEF TypeOK, Made, Connections

\* DestroyAll appends destroy()s, each of a connection of its loop.
LEMMA DestroyAllKeeps ==
    ASSUME TypeOK, UnderItsDescriptor, NEW q \in [Loops -> Seq(Functors)], NEW l \in Loops
    PROVE  /\ DestroyAll(q)[l] \in Seq(Functors) /\ Follows(DestroyAll(q)[l], q[l])
           /\ \A j \in (Len(q[l]) + 1)..Len(DestroyAll(q)[l]) :
                \E c \in Made : loop[c] = l /\ DestroyAll(q)[l][j] = Functor("destroy", c)
  <1> DEFINE mine == {f \in Fds : connections_[f] # 0 /\ loop[connections_[f]] = l}
             n == Cardinality(mine)
             order == CHOOSE s \in [1..n -> mine] : \A i, j \in 1..n : i < j => s[i] < s[j]
             t == [i \in 1..n |-> Functor("destroy", connections_[order[i]])]
             p == DestroyAll(q)[l]
  <1>1. p = q[l] \o t
    BY Zenon DEF DestroyAll
  <1>2. (\A f \in mine : f \in Int) /\ IsFiniteSet(mine)
    <2>1. Fds \subseteq Nat /\ IsFiniteSet(Fds)
      BY TcpServerAssumption DEF TypeOK, Fds
    <2>2. mine \subseteq Fds
      OBVIOUS
    <2>3. QED
      BY <2>1, <2>2, FS_Subset
  <1> HIDE DEF mine
  <1>3. n \in Nat /\ order \in [1..n -> mine]
    <2>1. /\ n \in Nat
          /\ \E s \in [1..n -> mine] : \A i, j \in 1..n : i < j => s[i] < s[j]
      BY <1>2, Ascending
    <2>2. QED
      BY <2>1
  <1> HIDE DEF order, n
  <1>4. ASSUME NEW i \in 1..n
        PROVE  \E c \in Made : loop[c] = l /\ t[i] = Functor("destroy", c)
    <2>1. order[i] \in mine
      BY <1>3
    <2>2. connections_[order[i]] \in Made /\ loop[connections_[order[i]]] = l
      BY <2>1 DEF mine, UnderItsDescriptor
    <2>3. QED
      BY <2>2
  <1>5. \A c \in Made : Functor("destroy", c) \in Functors
    BY MadeConnections DEF Functor, Functors, Ops
  <1>6. t \in Seq(Functors) /\ Len(t) = n
    <2>1. \A i \in 1..n : t[i] \in Functors
      BY <1>4, <1>5
    <2>2. QED
      BY <1>3, <2>1
  <1> HIDE DEF t
  <1>7. /\ p \in Seq(Functors) /\ Len(q[l]) \in Nat /\ Len(p) = Len(q[l]) + n
        /\ \A i \in 1..(Len(q[l]) + n) :
                p[i] = IF i <= Len(q[l]) THEN q[l][i] ELSE t[i - Len(q[l])]
    <2> DEFINE s == q[l]
    <2>1. s \in Seq(Functors) /\ Len(s) \in Nat
      OBVIOUS
    <2> HIDE DEF s
    <2>2. /\ s \o t \in Seq(Functors) /\ Len(s \o t) = Len(s) + Len(t)
          /\ \A i \in 1..(Len(s) + Len(t)) :
                (s \o t)[i] = IF i <= Len(s) THEN s[i] ELSE t[i - Len(s)]
      BY <1>6, <2>1, ConcatProperties
    <2>3. p = s \o t
      BY <1>1 DEF s
    <2> HIDE DEF p
    <2>4. QED
      BY <1>6, <2>1, <2>2, <2>3 DEF s
  <1> HIDE DEF p
  <1>8. Follows(p, q[l])
    BY <1>3, <1>7 DEF Follows
  <1>9. ASSUME NEW j \in (Len(q[l]) + 1)..Len(p)
        PROVE  \E c \in Made : loop[c] = l /\ p[j] = Functor("destroy", c)
    <2>1. j - Len(q[l]) \in 1..n /\ p[j] = t[j - Len(q[l])]
      BY <1>3, <1>7
    <2>2. QED
      BY <1>4, <2>1
  <1>10. QED
    BY <1>7, <1>8, <1>9, SMTT(30) DEF p

-----------------------------------------------------------------------------
(* The queues.                                                             *)

\* Loop l takes its next functor.
LEMMA QueueTaken ==
    ASSUME InTheirLoops(queue), NEW l \in Loops, NEW op, NEW c, Takes(l, op, c)
    PROVE  /\ InTheirLoops(Rest(l))
           /\ Functor(op, c) \in Functors /\ Proper(l, Functor(op, c))
           /\ queue[l] # <<>> /\ Head(queue[l]) = Functor(op, c)
           /\ queue[l] \in Seq(Functors) /\ Rest(l)[l] = Tail(queue[l])
           /\ \A k \in Loops : k # l => Rest(l)[k] = queue[k]
           /\ \A k : /\ Removals(queue, k) \in Nat /\ Removals(Rest(l), k) \in Nat
                     /\ Removals(queue, k) = Removals(Rest(l), k)
                            + IF l = 0 /\ Functor(op, c) = Functor("remove", k) THEN 1 ELSE 0
  <1> DEFINE s == queue[l]
             t == Tail(s)
  <1>1. /\ queue \in [Loops -> Seq(Functors)] /\ s \in Seq(Functors) /\ s # <<>>
        /\ Head(s) = Functor(op, c)
    BY DEF InTheirLoops, Takes
  <1>2. Rest(l) = [queue EXCEPT ![l] = t]
    BY DEF Rest
  <1>3. /\ t \in Seq(Functors) /\ Head(s) \in Functors
        /\ Len(s) \in Nat \ {0} /\ Len(t) = Len(s) - 1 /\ Head(s) = s[1]
        /\ \A i \in 1..Len(t) : t[i] = s[i + 1]
    BY <1>1, HeadTailProperties, EmptySeq
  <1>4. Proper(l, Functor(op, c))
    BY <1>1, <1>3 DEF InTheirLoops
  <1>5. Rest(l)[l] = t /\ \A k \in Loops : k # l => Rest(l)[k] = queue[k]
    BY <1>1, <1>2
  <1>6. InTheirLoops(Rest(l))
    <2>1. Rest(l) \in [Loops -> Seq(Functors)]
      BY <1>1, <1>2, <1>3
    <2>2. ASSUME NEW k \in Loops, NEW i \in 1..Len(Rest(l)[k])
          PROVE  Proper(k, Rest(l)[k][i])
      <3>1. CASE k = l
        <4> HIDE DEF s, t
        <4>1. Rest(l)[k] = t
          BY <1>5, <3>1
        <4>2. i \in 1..Len(t)
          BY <2>2, <4>1
        <4>3. i + 1 \in 1..Len(s) /\ Rest(l)[k][i] = s[i + 1]
          BY <1>3, <4>1, <4>2
        <4>4. QED
          BY <3>1, <4>3 DEF InTheirLoops, s
      <3>2. CASE k # l
        BY <1>5, <2>2, <3>2 DEF InTheirLoops
      <3>3. QED
        BY <3>1, <3>2
    <2>3. QED
      BY <2>1, <2>2 DEF InTheirLoops
  <1>7. ASSUME NEW k
        PROVE  /\ Removals(queue, k) \in Nat /\ Removals(Rest(l), k) \in Nat
               /\ Removals(queue, k) = Removals(Rest(l), k)
                      + IF l = 0 /\ Functor(op, c) = Functor("remove", k) THEN 1 ELSE 0
    <2> DEFINE f == Functor("remove", k)
    <2>1. 0 \in Loops
      BY TcpServerAssumption DEF Loops
    <2>2. Times(queue[0], f) \in Nat /\ Times(Rest(l)[0], f) \in Nat
      BY <1>1, <1>6, <2>1, TimesCounts DEF InTheirLoops
    <2> HIDE DEF s, f
    <2>3. Times(s, f) = Times(t, f) + IF f = Head(s) THEN 1 ELSE 0
      BY <1>1, TimesTail
    <2>4. CASE l = 0
      BY <1>1, <1>5, <2>2, <2>3, <2>4 DEF Removals, f, s
    <2>5. CASE l # 0
      BY <1>5, <2>1, <2>2, <2>5 DEF Removals, f
    <2>6. QED
      BY <2>4, <2>5
  <1>8. QED
    BY <1>1, <1>3, <1>4, <1>5, <1>6, <1>7

\* A functor is appended to loop l's.
LEMMA QueueAppended ==
    ASSUME NEW q, InTheirLoops(q), NEW l \in Loops, NEW f \in Functors
    PROVE  /\ RunInLoop(q, l, f) \in [Loops -> Seq(Functors)]
           /\ Proper(l, f) => InTheirLoops(RunInLoop(q, l, f))
           /\ q[l] \in Seq(Functors) /\ RunInLoop(q, l, f)[l] = Append(q[l], f)
           /\ \A k \in Loops : k # l => RunInLoop(q, l, f)[k] = q[k]
           /\ \A k : /\ Removals(q, k) \in Nat /\ Removals(RunInLoop(q, l, f), k) \in Nat
                     /\ Removals(RunInLoop(q, l, f), k) = Removals(q, k)
                            + IF l = 0 /\ f = Functor("remove", k) THEN 1 ELSE 0
  <1> DEFINE s == q[l]
             p == RunInLoop(q, l, f)
  <1>1. q \in [Loops -> Seq(Functors)] /\ s \in Seq(Functors)
    BY DEF InTheirLoops
  <1>2. p = [q EXCEPT ![l] = Append(s, f)]
    BY DEF RunInLoop
  <1>3. /\ Append(s, f) \in Seq(Functors) /\ Len(s) \in Nat /\ Len(Append(s, f)) = Len(s) + 1
        /\ Append(s, f)[Len(s) + 1] = f /\ \A i \in 1..Len(s) : Append(s, f)[i] = s[i]
    BY <1>1, AppendProperties
  <1>4. p[l] = Append(s, f) /\ \A k \in Loops : k # l => p[k] = q[k]
    BY <1>1, <1>2
  <1>0. p \in [Loops -> Seq(Functors)]
    BY <1>1, <1>2, <1>3
  <1>5. ASSUME Proper(l, f) PROVE InTheirLoops(p)
    <2> HIDE DEF p
    <2>2. ASSUME NEW k \in Loops, NEW i \in 1..Len(p[k])
          PROVE  Proper(k, p[k][i])
      <3>1. CASE k = l
        <4> HIDE DEF s
        <4>1. p[k] = Append(s, f) /\ i \in 1..(Len(s) + 1)
          BY <1>3, <1>4, <2>2, <3>1
        <4>2. CASE i = Len(s) + 1
          BY <1>3, <1>5, <3>1, <4>1, <4>2
        <4>3. CASE i \in 1..Len(s)
          BY <1>3, <3>1, <4>1, <4>3 DEF InTheirLoops, s
        <4>4. QED
          BY <1>3, <4>1, <4>2, <4>3
      <3>2. CASE k # l
        BY <1>4, <2>2, <3>2 DEF InTheirLoops
      <3>3. QED
        BY <3>1, <3>2
    <2>3. QED
      BY <1>0, <2>2 DEF InTheirLoops
  <1> HIDE DEF p
  <1>6. ASSUME NEW k
        PROVE  /\ Removals(q, k) \in Nat /\ Removals(p, k) \in Nat
               /\ Removals(p, k) = Removals(q, k) + IF l = 0 /\ f = Functor("remove", k) THEN 1 ELSE 0
    <2> DEFINE g == Functor("remove", k)
    <2>1. 0 \in Loops
      BY TcpServerAssumption DEF Loops
    <2>2. Times(q[0], g) \in Nat /\ Times(p[0], g) \in Nat
      BY <1>0, <1>1, <2>1, TimesCounts
    <2> HIDE DEF s, g
    <2>3. Times(Append(s, f), g) = Times(s, g) + IF g = f THEN 1 ELSE 0
      BY <1>1, TimesAppend
    <2>4. CASE l = 0
      BY <1>4, <2>2, <2>3, <2>4 DEF Removals, g, s
    <2>5. CASE l # 0
      BY <1>4, <2>1, <2>2, <2>5 DEF Removals, g
    <2>6. QED
      BY <2>4, <2>5
  <1>7. QED
    BY <1>0, <1>1, <1>4, <1>5, <1>6 DEF p

\* What loop l's taking its next functor does to connection k's.
LEMMA Taken ==
    ASSUME TypeOK, InTheirLoops(queue), NEW l \in Loops, NEW op, NEW c, Takes(l, op, c),
           NEW k \in Connections
    PROVE  /\ Quiet(queue[loop[k]], k) => Quiet(Rest(l)[loop[k]], k)
           /\ Ready(queue[loop[k]], k) =>
                /\ loop[k] = l => Functor(op, c) # Functor("send", k)
                /\ Ready(Rest(l)[loop[k]], k) \/ Functor(op, c) = Functor("establish", k)
           /\ Settled(queue[loop[k]], k) =>
                \/ Settled(Rest(l)[loop[k]], k)
                \/ Functor(op, c) = Functor("destroy", k) /\ Quiet(Rest(l)[loop[k]], k)
  <1>1. loop[k] \in Loops
    BY DEF TypeOK
  <1>2. /\ queue[l] # <<>> /\ Head(queue[l]) = Functor(op, c) /\ queue[l] \in Seq(Functors)
        /\ Rest(l)[l] = Tail(queue[l]) /\ \A m \in Loops : m # l => Rest(l)[m] = queue[m]
    BY QueueTaken
  <1>3. CASE loop[k] = l
    <2> DEFINE s == queue[l]
    <2> HIDE DEF s
    <2>1. s \in Seq(Functors) /\ s # <<>> /\ Head(s) = Functor(op, c)
      BY <1>2 DEF s
    <2>2. /\ Quiet(s, k) => Quiet(Tail(s), k)
          /\ Settled(s, k) => \/ Settled(Tail(s), k)
                              \/ Head(s) = Functor("destroy", k) /\ Quiet(Tail(s), k)
          /\ Ready(s, k) => /\ Head(s) # Functor("send", k)
                            /\ Ready(Tail(s), k) \/ Head(s) = Functor("establish", k)
      BY <2>1, TailKeeps
    <2>3. queue[loop[k]] = s /\ Rest(l)[loop[k]] = Tail(s)
      BY <1>2, <1>3 DEF s
    <2>4. QED
      BY <2>1, <2>2, <2>3
  <1>4. CASE loop[k] # l
    BY <1>1, <1>2, <1>4
  <1>5. QED
    BY <1>3, <1>4

\* What f, appended to loop l's functors, does to connection k's.
LEMMA Appended ==
    ASSUME TypeOK, NEW q, InTheirLoops(q), NEW l \in Loops, NEW f \in Functors,
           NEW k \in Connections
    PROVE  /\ f \notin Uses(k) =>
                /\ Quiet(q[loop[k]], k) => Quiet(RunInLoop(q, l, f)[loop[k]], k)
                /\ Settled(q[loop[k]], k) => Settled(RunInLoop(q, l, f)[loop[k]], k)
           /\ Ready(q[loop[k]], k) => Ready(RunInLoop(q, l, f)[loop[k]], k)
           /\ loop[k] = l /\ f = Functor("destroy", k) => Settled(RunInLoop(q, l, f)[loop[k]], k)
           /\ loop[k] = l /\ f = Functor("establish", k)
                /\ (\A j \in 1..Len(q[l]) : q[l][j] # Functor("send", k))
                => Ready(RunInLoop(q, l, f)[loop[k]], k)
  <1> DEFINE p == RunInLoop(q, l, f)
  <1>1. loop[k] \in Loops
    BY DEF TypeOK
  <1>2. /\ q[l] \in Seq(Functors) /\ p[l] = Append(q[l], f)
        /\ \A m \in Loops : m # l => p[m] = q[m]
    BY QueueAppended
  <1>3. CASE loop[k] = l
    <2> DEFINE s == q[l]
    <2> HIDE DEF s
    <2>1. s \in Seq(Functors)
      BY <1>2 DEF s
    <2>2. /\ f \notin Uses(k) => /\ Quiet(s, k) => Quiet(Append(s, f), k)
                                 /\ Settled(s, k) => Settled(Append(s, f), k)
          /\ Ready(s, k) => Ready(Append(s, f), k)
          /\ f = Functor("destroy", k) => Settled(Append(s, f), k)
          /\ f = Functor("establish", k) /\ (\A j \in 1..Len(s) : s[j] # Functor("send", k))
               => Ready(Append(s, f), k)
      BY <2>1, AppendKeeps
    <2>3. q[loop[k]] = s /\ q[l] = s /\ p[loop[k]] = Append(s, f)
      BY <1>2, <1>3 DEF s
    <2>4. QED
      BY <1>3, <2>2, <2>3
  <1>4. CASE loop[k] # l
    <2>1. p[loop[k]] = q[loop[k]]
      BY <1>1, <1>2, <1>4
    <2>2. QED
      BY <1>4, <2>1
  <1>5. QED
    BY <1>3, <1>4

\* Taking a functor that is no connection's beginning or end leaves what holds
\* of the queues.
LEMMA RestSafe ==
    ASSUME TypeOK, Safe(queue), NEW l \in Loops, NEW op, NEW c, Takes(l, op, c),
           op \in {"listen", "closeAcceptor", "send", "close"}
    PROVE  Safe(Rest(l))
  <1> USE DEF Safe
  <1>1. /\ InTheirLoops(Rest(l))
        /\ \A k : /\ Removals(queue, k) \in Nat /\ Removals(Rest(l), k) \in Nat
                  /\ Removals(queue, k) = Removals(Rest(l), k)
                        + IF l = 0 /\ Functor(op, c) = Functor("remove", k) THEN 1 ELSE 0
    BY QueueTaken
  <1>2. \A k : /\ Functor(op, c) # Functor("remove", k)
               /\ Functor(op, c) # Functor("establish", k)
               /\ Functor(op, c) # Functor("destroy", k)
    BY DEF Functor
  <1>3. \A k : Removals(Rest(l), k) = Removals(queue, k)
    BY <1>1, <1>2
  <1>4. HeldUntilRemoved(Rest(l)) /\ Outlived(Rest(l))
    BY <1>3 DEF HeldUntilRemoved, Outlived
  <1>5. \A k \in Made : k \in Connections
    BY MadeConnections
  <1>6. EstablishWaits(Rest(l))
    BY <1>2, <1>5, Taken DEF EstablishWaits
  <1>7. ClosedThenDestroyed(Rest(l))
    BY <1>2, <1>3, <1>5, Taken DEF ClosedThenDestroyed, Gone
  <1>8. QED
    BY <1>1, <1>4, <1>6, <1>7

\* Queueing a functor of the acceptor's leaves what holds of the queues.
LEMMA AcceptorSafe ==
    ASSUME TypeOK, Safe(queue), NEW f \in {Functor("listen", 0), Functor("closeAcceptor", 0)}
    PROVE  Safe(RunInLoop(queue, 0, f))
  <1> DEFINE p == RunInLoop(queue, 0, f)
  <1> USE DEF Safe
  <1>1. 0 \in Loops /\ f \in Functors /\ Proper(0, f)
    BY TcpServerAssumption DEF Loops, Functors, Ops, UserOps, Functor, Proper
  <1>2. /\ InTheirLoops(p)
        /\ \A k : /\ Removals(queue, k) \in Nat
                  /\ Removals(p, k) = Removals(queue, k)
                        + IF 0 = 0 /\ f = Functor("remove", k) THEN 1 ELSE 0
    BY <1>1, QueueAppended
  <1>3. \A k : f # Functor("remove", k) /\ f \notin Uses(k)
    BY DEF Functor, Uses
  <1> HIDE DEF p
  <1>4. \A k : Removals(p, k) = Removals(queue, k)
    BY <1>2, <1>3
  <1>5. HeldUntilRemoved(p) /\ Outlived(p)
    BY <1>4 DEF HeldUntilRemoved, Outlived
  <1>6. ASSUME NEW k \in Made
        PROVE  /\ Quiet(queue[loop[k]], k) => Quiet(p[loop[k]], k)
               /\ Settled(queue[loop[k]], k) => Settled(p[loop[k]], k)
               /\ Ready(queue[loop[k]], k) => Ready(p[loop[k]], k)
    BY <1>1, <1>3, MadeConnections, Appended DEF p
  <1>7. EstablishWaits(p)
    BY <1>6 DEF EstablishWaits
  <1>8. ClosedThenDestroyed(p)
    BY <1>4, <1>6 DEF ClosedThenDestroyed, Gone
  <1>9. QED
    BY <1>2, <1>5, <1>7, <1>8 DEF p

-----------------------------------------------------------------------------
(* The steps.  The queues of a step's callee are the q it is given.        *)

\* The server's loop is a loop, and so is that of every connection.
LEMMA TypeIs == TypeOK => /\ 0 \in Loops /\ \A c \in Connections : loop[c] \in Loops
                          /\ \A f \in Fds : f # 0
  BY TcpServerAssumption DEF TypeOK, Loops, Fds

\* A step that is no connection's, and that makes the queues q.
LEMMA SameState ==
    ASSUME NEW q, Safe(q), queue' = q,
           UNCHANGED <<alive, connections_, setup, fd, loop, born, establish_, close_, channel_,
                       begun, late, abandoned, dangling>>,
           accept_' => alive /\ listen_', accepting' => accepting \/ alive
    PROVE  Safe(queue)'
  <1>1. Made' = Made /\ Fds' = Fds
    BY DEF Made, Fds
  <1>2. Unmade' /\ UnderItsDescriptor'
    BY <1>1 DEF Safe, Unmade, UnderItsDescriptor
  <1>3. InTheirLoops(queue)'
    BY <1>1 DEF Safe, InTheirLoops, Proper
  <1>4. HeldUntilRemoved(queue)'
    BY <1>1 DEF Safe, HeldUntilRemoved, Removals
  <1>5. EstablishWaits(queue)'
    BY <1>1 DEF Safe, EstablishWaits, Ready
  <1>6. ClosedThenDestroyed(queue)'
    BY <1>1 DEF Safe, ClosedThenDestroyed, Removals, Settled, Gone, Quiet
  <1>7. Outlived(queue)'
    BY <1>1 DEF Safe, Outlived, Removals
  <1>8. QED
    BY <1>2, <1>3, <1>4, <1>5, <1>6, <1>7 DEF Safe

\* TcpConnection::onClose.
LEMMA OnCloseSafe ==
    ASSUME TypeOK, NEW q, Safe(q), NEW c \in Made, NEW ch \in C!ChannelType, OnClose(c, ch, q),
           channel_[c].actived \/ ch = channel_[c],
           UNCHANGED <<alive, listen_, connections_, setup, accept_, accepting, fd, loop, born,
                       establish_, begun, late, abandoned>>
    PROVE  Safe(queue)'
  <1>1. /\ Made' = Made /\ Fds' = Fds /\ c \in Connections
        /\ \A k \in Made : k \in Connections
    BY MadeConnections DEF Made, Fds
  <1>2. /\ channel_ \in [Connections -> C!ChannelType] /\ close_ \in [Connections -> BOOLEAN]
        /\ alive \in BOOLEAN /\ dangling \in BOOLEAN
    BY DEF TypeOK
  <1>3. /\ channel_' \in [Connections -> C!ChannelType]
        /\ \A k \in Connections : k # c => channel_'[k] = channel_[k] /\ close_'[k] = close_[k]
        /\ close_[c] => close_' = close_ /\ channel_'[c] = ch
        /\ close_'[c]
    <2>1. C!DisableAll(ch) \in C!ChannelType
      BY ChannelSteps
    <2>2. QED
      BY <1>1, <1>2, <2>1 DEF OnClose
  <1>4. Unmade' /\ UnderItsDescriptor'
    BY <1>1, <1>3 DEF Safe, Unmade, UnderItsDescriptor
  <1>5. CASE close_[c] \/ ~alive
    <2>1. queue' = q
      BY <1>5 DEF OnClose, ServerTold
    <2>2. InTheirLoops(queue)'
      BY <1>1, <2>1 DEF Safe, InTheirLoops, Proper
    <2>3. HeldUntilRemoved(queue)'
      BY <1>1, <1>3, <1>5, <2>1 DEF Safe, HeldUntilRemoved, Removals
    <2>4. EstablishWaits(queue)'
      BY <1>1, <2>1 DEF Safe, EstablishWaits, Ready
    <2>5. ASSUME NEW k \in Made \ (late \cup abandoned), close_'[k]
          PROVE  (alive /\ Removals(q, k) = 1) \/ Settled(q[loop[k]], k) \/ Gone(q, k)'
      <3>1. close_[k]
        BY <1>1, <1>3, <1>5, <2>5 DEF Safe, Outlived
      <3>2. (alive /\ Removals(q, k) = 1) \/ Settled(q[loop[k]], k) \/ Gone(q, k)
        BY <2>5, <3>1 DEF Safe, ClosedThenDestroyed
      <3>3. Gone(q, k) => Gone(q, k)'
        <4>1. k = c => ~Gone(q, k) \/ channel_'[k] = channel_[k]
          BY <1>3, <3>1 DEF Gone
        <4>2. k # c => channel_'[k] = channel_[k]
          BY <1>1, <1>3
        <4>3. QED
          BY <4>1, <4>2 DEF Gone, Quiet
      <3>4. QED
        BY <3>2, <3>3
    <2>6. ClosedThenDestroyed(queue)'
      BY <1>1, <2>1, <2>5 DEF ClosedThenDestroyed, Removals, Settled, Gone, Quiet
    <2>7. Outlived(queue)'
      <3>1. dangling' => dangling \/ (~alive /\ abandoned # {})
        BY <1>1, <1>5 DEF OnClose, Safe, Outlived
      <3>2. QED
        BY <1>1, <1>3, <1>5, <2>1, <3>1 DEF Safe, Outlived, Removals
    <2>8. QED
      BY <1>4, <2>2, <2>3, <2>4, <2>6, <2>7 DEF Safe
  <1>6. CASE ~close_[c] /\ alive
    <2> DEFINE f == Functor("remove", c)
               p == RunInLoop(q, 0, f)
    <2>1. queue' = p /\ dangling' = dangling
      BY <1>2, <1>6 DEF OnClose, ServerTold
    <2>2. /\ 0 \in Loops /\ f \in Functors /\ Proper(0, f)
      BY TypeIs, MadeConnections DEF Functors, Ops, UserOps, Functor, Proper
    <2>3. /\ InTheirLoops(p)
          /\ \A k : /\ Removals(q, k) \in Nat
                    /\ Removals(p, k) = Removals(q, k) + IF 0 = 0 /\ f = Functor("remove", k) THEN 1 ELSE 0
      BY <2>2, QueueAppended DEF Safe
    <2>4. \A k : f \notin Uses(k) /\ (f = Functor("remove", k) <=> k = c)
      BY DEF Functor, Uses
    <2>5. ASSUME NEW k \in Made
          PROVE  /\ Quiet(q[loop[k]], k) => Quiet(p[loop[k]], k)
                 /\ Settled(q[loop[k]], k) => Settled(p[loop[k]], k)
                 /\ Ready(q[loop[k]], k) => Ready(p[loop[k]], k)
      BY <2>2, <2>4, MadeConnections, Appended DEF Safe
    <2> HIDE DEF p, f
    <2>6. /\ Removals(q, c) = 0 /\ Removals(p, c) = 1 /\ connections_[fd[c]] = c
          /\ \A k : k # c => Removals(p, k) = Removals(q, k)
      BY <1>6, <2>3, <2>4 DEF Safe, HeldUntilRemoved
    <2>7. InTheirLoops(queue)'
      BY <1>1, <2>1, <2>3 DEF InTheirLoops, Proper
    <2>8. HeldUntilRemoved(queue)'
      <3>1. ASSUME NEW k \in Made
            PROVE  /\ Removals(p, k) <= 1 /\ (~close_'[k] => Removals(p, k) = 0)
                   /\ connections_[fd[k]] = k <=> (~close_'[k] \/ Removals(p, k) = 1)
        BY <1>1, <1>3, <1>6, <2>6 DEF Safe, HeldUntilRemoved
      <3>2. QED
        BY <1>1, <2>1, <3>1 DEF HeldUntilRemoved, Removals
    <2>9. EstablishWaits(queue)'
      BY <1>1, <2>1, <2>5 DEF Safe, EstablishWaits, Ready
    <2>10. ASSUME NEW k \in Made \ (late \cup abandoned), close_'[k]
           PROVE  (alive /\ Removals(p, k) = 1) \/ Settled(p[loop[k]], k) \/ Gone(p, k)'
      <3>1. CASE k = c
        BY <1>6, <2>6, <3>1
      <3>2. CASE k # c
        <4>1. (alive /\ Removals(q, k) = 1) \/ Settled(q[loop[k]], k) \/ Gone(q, k)
          BY <1>1, <1>3, <2>10, <3>2 DEF Safe, ClosedThenDestroyed
        <4>2. channel_'[k] = channel_[k]
          BY <1>1, <1>3, <3>2
        <4>3. Gone(q, k) => Gone(p, k)'
          BY <2>5, <4>2 DEF Gone, Quiet
        <4>4. QED
          BY <2>5, <2>6, <3>2, <4>1, <4>3
      <3>3. QED
        BY <3>1, <3>2
    <2>11. ClosedThenDestroyed(queue)'
      BY <1>1, <2>1, <2>10 DEF ClosedThenDestroyed, Removals, Settled, Gone, Quiet
    <2>12. Outlived(queue)'
      BY <1>6, <2>1 DEF Safe, Outlived
    <2>13. QED
      BY <1>4, <2>7, <2>8, <2>9, <2>11, <2>12 DEF Safe
  <1>7. QED
    BY <1>5, <1>6

\* TcpConnection::establishInLoop.
LEMMA EstablishSafe ==
    ASSUME TypeOK, Safe(queue), NEW l \in Loops, NEW c \in Connections, EstablishInLoop(l, c)
    PROVE  Safe(queue)'
  <1> DEFINE q == Rest(l)
  <1>1. /\ Made' = Made /\ Fds' = Fds
        /\ \A k \in Made : k \in Connections
    BY MadeConnections DEF EstablishInLoop, serverVars, madeVars, Made, Fds
  <1>2. Takes(l, "establish", c) /\ queue' = q
    BY DEF EstablishInLoop
  <1>3. \A k : /\ Functor("establish", c) # Functor("remove", k)
               /\ Functor("establish", c) # Functor("destroy", k)
               /\ Functor("establish", c) = Functor("establish", k) <=> k = c
    BY DEF Functor
  <1>4. InTheirLoops(q) /\ c \in Made /\ loop[c] = l
    <2>1. InTheirLoops(q) /\ Proper(l, Functor("establish", c))
      BY <1>2, QueueTaken DEF Safe
    <2>2. QED
      BY <2>1 DEF Proper, Functor, UserOps
  <1>5. \A k : Removals(q, k) = Removals(queue, k)
    BY <1>2, <1>3, QueueTaken DEF Safe
  <1>6. ASSUME NEW k \in Made
        PROVE  /\ Quiet(queue[loop[k]], k) => Quiet(q[loop[k]], k)
               /\ Settled(queue[loop[k]], k) => Settled(q[loop[k]], k)
               /\ k # c => (Ready(queue[loop[k]], k) => Ready(q[loop[k]], k))
    BY <1>1, <1>2, <1>3, Taken DEF Safe
  <1>7. ~Quiet(queue[l], c)
    <2>1. queue[l] \in Seq(Functors) /\ queue[l] # <<>> /\ Head(queue[l]) = Functor("establish", c)
      BY <1>2, QueueTaken DEF Safe
    <2>2. 1 \in 1..Len(queue[l]) /\ queue[l][1] = Functor("establish", c)
      BY <2>1, EmptySeq
    <2>3. QED
      BY <2>2 DEF Quiet, Uses
  <1> HIDE DEF q
  <1>8. /\ \A k \in Connections : k # c => establish_'[k] = establish_[k] /\ channel_'[k] = channel_[k]
        /\ establish_'[c]
    BY DEF EstablishInLoop, TypeOK
  <1>9. Unmade' /\ UnderItsDescriptor'
    BY <1>1, <1>4, <1>8 DEF EstablishInLoop, serverVars, madeVars, userVars, Safe, Unmade, UnderItsDescriptor
  <1>10. InTheirLoops(queue)'
    BY <1>1, <1>2, <1>4 DEF EstablishInLoop, serverVars, madeVars, userVars, InTheirLoops, Proper
  <1>11. HeldUntilRemoved(queue)'
    BY <1>1, <1>2, <1>5 DEF EstablishInLoop, serverVars, madeVars, Safe, HeldUntilRemoved, Removals
  <1>12. EstablishWaits(queue)'
    <2>1. ASSUME NEW k \in Made, begun[k] = "establish", ~establish_'[k]
          PROVE  Ready(q[loop[k]], k)
      BY <1>1, <1>6, <1>8, <2>1 DEF Safe, EstablishWaits
    <2>2. QED
      BY <1>1, <1>2, <2>1 DEF EstablishInLoop, madeVars, userVars, EstablishWaits, Ready
  <1>13. ClosedThenDestroyed(queue)'
    <2>1. ASSUME NEW k \in Made \ (late \cup abandoned), close_[k]
          PROVE  \/ alive /\ Removals(q, k) = 1
                 \/ Settled(q[loop[k]], k)
                 \/ Quiet(q[loop[k]], k) /\ ~channel_'[k].started /\ ~channel_'[k].actived
      <3>1. (alive /\ Removals(queue, k) = 1) \/ Settled(queue[loop[k]], k) \/ Gone(queue, k)
        BY <2>1 DEF Safe, ClosedThenDestroyed
      <3>2. Gone(queue, k) => k # c
        BY <1>4, <1>7 DEF Gone
      <3>3. Gone(queue, k) => Quiet(q[loop[k]], k) /\ ~channel_'[k].started /\ ~channel_'[k].actived
        BY <1>1, <1>6, <1>8, <3>2 DEF Gone
      <3>4. QED
        BY <1>5, <1>6, <3>1, <3>3
    <2>2. QED
      BY <1>1, <1>2, <2>1 DEF EstablishInLoop, serverVars, madeVars, userVars, historyVars,
                ClosedThenDestroyed, Removals, Settled, Gone, Quiet
  <1>14. Outlived(queue)'
    BY <1>1, <1>2, <1>5 DEF EstablishInLoop, serverVars, acceptorVars, historyVars, Safe, Outlived, Removals
  <1>15. QED
    BY <1>9, <1>10, <1>11, <1>12, <1>13, <1>14 DEF Safe

\* TcpConnection::destroyInLoop.
LEMMA DestroySafe ==
    ASSUME TypeOK, Safe(queue), NEW l \in Loops, NEW c \in Connections, DestroyInLoop(l, c)
    PROVE  Safe(queue)'
  <1> DEFINE q == Rest(l)
  <1>1. /\ Made' = Made /\ Fds' = Fds
        /\ \A k \in Made : k \in Connections
    BY MadeConnections DEF DestroyInLoop, serverVars, madeVars, Made, Fds
  <1>2. Takes(l, "destroy", c) /\ queue' = q
    BY DEF DestroyInLoop
  <1>3. \A k : /\ Functor("destroy", c) # Functor("remove", k)
               /\ Functor("destroy", c) # Functor("establish", k)
               /\ Functor("destroy", c) = Functor("destroy", k) => k = c
    BY DEF Functor
  <1>4. InTheirLoops(q) /\ c \in Made /\ loop[c] = l
    <2>1. InTheirLoops(q) /\ Proper(l, Functor("destroy", c))
      BY <1>2, QueueTaken DEF Safe
    <2>2. QED
      BY <2>1 DEF Proper, Functor, UserOps
  <1>5. \A k : Removals(q, k) = Removals(queue, k)
    BY <1>2, <1>3, QueueTaken DEF Safe
  <1>6. ASSUME NEW k \in Made
        PROVE  /\ Quiet(queue[loop[k]], k) => Quiet(q[loop[k]], k)
               /\ Settled(queue[loop[k]], k) => \/ Settled(q[loop[k]], k)
                                                \/ k = c /\ Quiet(q[loop[k]], k)
               /\ Ready(queue[loop[k]], k) => Ready(q[loop[k]], k)
    BY <1>1, <1>2, <1>3, Taken DEF Safe
  <1> HIDE DEF q
  <1>7. /\ \A k \in Connections : k # c => channel_'[k] = channel_[k]
        /\ ~channel_[c].actived /\ ~channel_'[c].actived /\ ~channel_'[c].started
    <2>1. channel_[c] \in C!ChannelType /\ channel_' = [channel_ EXCEPT ![c] = C!Close(channel_[c])]
      BY DEF DestroyInLoop, TypeOK
    <2>2. ~channel_[c].actived
      BY <1>2, <1>4 DEF Takes, MayRun
    <2>3. ~C!Close(channel_[c]).actived /\ ~C!Close(channel_[c]).started
      BY <2>1, <2>2, ChannelSteps
    <2>4. QED
      BY <2>1, <2>2, <2>3 DEF TypeOK
  <1>8. Unmade' /\ UnderItsDescriptor'
    BY <1>1, <1>4, <1>7 DEF DestroyInLoop, serverVars, madeVars, userVars, Safe, Unmade, UnderItsDescriptor
  <1>9. InTheirLoops(queue)'
    BY <1>1, <1>2, <1>4 DEF DestroyInLoop, serverVars, madeVars, userVars, InTheirLoops, Proper
  <1>10. HeldUntilRemoved(queue)'
    BY <1>1, <1>2, <1>5 DEF DestroyInLoop, serverVars, madeVars, Safe, HeldUntilRemoved, Removals
  <1>11. EstablishWaits(queue)'
    BY <1>1, <1>2, <1>6 DEF DestroyInLoop, madeVars, userVars, Safe, EstablishWaits, Ready
  <1>12. ClosedThenDestroyed(queue)'
    <2>1. ASSUME NEW k \in Made \ (late \cup abandoned), close_[k]
          PROVE  \/ alive /\ Removals(q, k) = 1
                 \/ Settled(q[loop[k]], k)
                 \/ Quiet(q[loop[k]], k) /\ ~channel_'[k].started /\ ~channel_'[k].actived
      <3>1. (alive /\ Removals(queue, k) = 1) \/ Settled(queue[loop[k]], k) \/ Gone(queue, k)
        BY <2>1 DEF Safe, ClosedThenDestroyed
      <3>2. Gone(queue, k) \/ (k = c /\ Quiet(q[loop[k]], k))
                => Quiet(q[loop[k]], k) /\ ~channel_'[k].started /\ ~channel_'[k].actived
        BY <1>1, <1>6, <1>7 DEF Gone
      <3>3. QED
        BY <1>5, <1>6, <3>1, <3>2
    <2>2. QED
      BY <1>1, <1>2, <2>1 DEF DestroyInLoop, serverVars, madeVars, userVars, historyVars,
                ClosedThenDestroyed, Removals, Settled, Gone, Quiet
  <1>13. Outlived(queue)'
    BY <1>1, <1>2, <1>5 DEF DestroyInLoop, serverVars, acceptorVars, historyVars, Safe, Outlived, Removals
  <1>14. QED
    BY <1>8, <1>9, <1>10, <1>11, <1>12, <1>13 DEF Safe

\* TcpServer::removeConnection.
LEMMA RemoveSafe ==
    ASSUME TypeOK, Safe(queue), NEW c \in Connections, RemoveConnection(c)
    PROVE  Safe(queue)'
  <1> DEFINE q == Rest(0)
             f == Functor("destroy", c)
             p == RunInLoop(q, loop[c], f)
  <1>1. /\ Made' = Made /\ Fds' = Fds /\ 0 \in Loops /\ loop[c] \in Loops
        /\ \A k \in Made : k \in Connections /\ k # 0
    BY TypeIs, MadeConnections DEF RemoveConnection, madeVars, Made, Fds, Connections
  <1>2. Takes(0, "remove", c)
    BY DEF RemoveConnection
  <1>3. \A k : /\ Functor("remove", c) = Functor("remove", k) <=> k = c
               /\ Functor("remove", c) # Functor("establish", k)
               /\ Functor("remove", c) # Functor("destroy", k)
               /\ f # Functor("remove", k) /\ f \notin Uses(k)
    BY DEF Functor, Uses
  <1>4. InTheirLoops(q) /\ c \in Made
    <2>1. InTheirLoops(q) /\ Proper(0, Functor("remove", c))
      BY <1>1, <1>2, QueueTaken DEF Safe
    <2>2. QED
      BY <2>1 DEF Proper, Functor, UserOps
  <1>5. \A k : /\ Removals(queue, k) \in Nat /\ Removals(q, k) \in Nat
               /\ Removals(queue, k) = Removals(q, k)
                        + IF 0 = 0 /\ Functor("remove", c) = Functor("remove", k) THEN 1 ELSE 0
    BY <1>1, <1>2, QueueTaken DEF Safe
  <1>6. ASSUME NEW k \in Made
        PROVE  /\ Quiet(queue[loop[k]], k) => Quiet(q[loop[k]], k)
               /\ Settled(queue[loop[k]], k) => Settled(q[loop[k]], k)
               /\ Ready(queue[loop[k]], k) => Ready(q[loop[k]], k)
    BY <1>1, <1>2, <1>3, Taken DEF Safe
  <1> HIDE DEF q
  <1>7. /\ \A k : k # c => Removals(queue, k) = Removals(q, k)
        /\ Removals(queue, c) = Removals(q, c) + 1
    BY <1>3, <1>5
  <1>8. CASE alive
    <2>1. /\ queue' = p /\ connections_' = [connections_ EXCEPT ![fd[c]] = 0]
          /\ dangling' = dangling
      BY <1>8 DEF RemoveConnection, Destroyed, q
    <2>2. f \in Functors /\ Proper(loop[c], f)
      BY <1>4, MadeConnections DEF Functors, Ops, UserOps, Functor, Proper
    <2>3. InTheirLoops(p)
      BY <1>1, <1>4, <2>2, QueueAppended
    <2>4. \A k : Removals(p, k) = Removals(q, k) + IF loop[c] = 0 /\ f = Functor("remove", k) THEN 1 ELSE 0
      BY <1>1, <1>4, <2>2, QueueAppended, SMTT(30)
    <2>5. ASSUME NEW k \in Made
          PROVE  /\ Quiet(queue[loop[k]], k) => Quiet(p[loop[k]], k)
                 /\ Settled(queue[loop[k]], k) => Settled(p[loop[k]], k)
                 /\ Ready(queue[loop[k]], k) => Ready(p[loop[k]], k)
      <3>1. /\ Quiet(q[loop[k]], k) => Quiet(p[loop[k]], k)
            /\ Settled(q[loop[k]], k) => Settled(p[loop[k]], k)
            /\ Ready(q[loop[k]], k) => Ready(p[loop[k]], k)
        BY <1>1, <1>3, <1>4, <2>2, Appended
      <3>2. QED
        BY <1>6, <3>1
    <2>6. Settled(p[loop[c]], c)
      BY <1>1, <1>4, <2>2, Appended
    <2> HIDE DEF p, f
    <2>7. \A k : Removals(p, k) = Removals(q, k)
      BY <1>3, <1>5, <2>4
    <2>8. Removals(p, c) = 0 /\ close_[c] /\ connections_[fd[c]] = c /\ fd[c] \in Fds
      BY <1>4, <1>5, <1>7, <1>8, <2>7 DEF Safe, HeldUntilRemoved, UnderItsDescriptor
    <2>9. \A g \in Fds : connections_'[g] = IF g = fd[c] THEN 0 ELSE connections_[g]
      BY <2>1 DEF TypeOK
    <2>10. Unmade' /\ UnderItsDescriptor'
      BY <1>1, <2>9 DEF RemoveConnection, madeVars, stateVars, userVars, Safe, Unmade, UnderItsDescriptor
    <2>11. InTheirLoops(queue)'
      BY <1>1, <2>1, <2>3 DEF RemoveConnection, madeVars, userVars, InTheirLoops, Proper
    <2>12. HeldUntilRemoved(queue)'
      <3>1. ASSUME NEW k \in Made
            PROVE  /\ Removals(p, k) <= 1 /\ (~close_[k] => Removals(p, k) = 0)
                   /\ connections_'[fd[k]] = k <=> (~close_[k] \/ Removals(p, k) = 1)
        <4>1. fd[k] \in Fds
          BY DEF Safe, UnderItsDescriptor
        <4>2. CASE k = c
          BY <1>1, <2>8, <2>9, <4>1, <4>2
        <4>3. CASE k # c
          <5>1. /\ Removals(queue, k) <= 1 /\ (~close_[k] => Removals(queue, k) = 0)
                /\ connections_[fd[k]] = k <=> (~close_[k] \/ Removals(queue, k) = 1)
            BY <1>8 DEF Safe, HeldUntilRemoved
          <5>2. connections_'[fd[k]] = k <=> connections_[fd[k]] = k
            BY <1>1, <2>8, <2>9, <4>1, <4>3
          <5>3. QED
            BY <1>7, <2>7, <4>3, <5>1, <5>2
        <4>4. QED
          BY <4>2, <4>3
      <3>2. QED
        BY <1>1, <2>1, <3>1 DEF RemoveConnection, madeVars, stateVars, HeldUntilRemoved, Removals
    <2>13. EstablishWaits(queue)'
      BY <1>1, <2>1, <2>5 DEF RemoveConnection, madeVars, stateVars, userVars, Safe, EstablishWaits, Ready
    <2>14. ClosedThenDestroyed(queue)'
      <3>1. ASSUME NEW k \in Made \ (late \cup abandoned), close_[k]
            PROVE  Removals(p, k) = 1 \/ Settled(p[loop[k]], k) \/ Gone(p, k)
        <4>1. Removals(queue, k) = 1 \/ Settled(queue[loop[k]], k) \/ Gone(queue, k)
          BY <3>1 DEF Safe, ClosedThenDestroyed
        <4>2. QED
          BY <1>7, <2>5, <2>6, <2>7, <4>1 DEF Gone
      <3>2. QED
        BY <1>1, <1>8, <2>1, <3>1 DEF RemoveConnection, madeVars, stateVars, userVars,
                ClosedThenDestroyed, Removals, Settled, Gone, Quiet
    <2>15. Outlived(queue)'
      BY <1>8, <2>1 DEF RemoveConnection, acceptorVars, Safe, Outlived
    <2>16. QED
      BY <2>10, <2>11, <2>12, <2>13, <2>14, <2>15 DEF Safe
  <1>9. CASE ~alive
    <2>1. queue' = q /\ connections_' = connections_ /\ dangling'
      BY <1>9 DEF RemoveConnection, q
    <2>2. c \in abandoned
      BY <1>4, <1>5, <1>7, <1>9 DEF Safe, Outlived
    <2>3. Unmade' /\ UnderItsDescriptor'
      BY <1>1, <2>1 DEF RemoveConnection, madeVars, stateVars, userVars, Safe, Unmade, UnderItsDescriptor
    <2>4. InTheirLoops(queue)'
      BY <1>1, <1>4, <2>1 DEF RemoveConnection, madeVars, userVars, InTheirLoops, Proper
    <2>5. HeldUntilRemoved(queue)'
      BY <1>9 DEF RemoveConnection, HeldUntilRemoved
    <2>6. EstablishWaits(queue)'
      BY <1>1, <1>6, <2>1 DEF RemoveConnection, madeVars, stateVars, userVars, Safe, EstablishWaits, Ready
    <2>7. ClosedThenDestroyed(queue)'
      <3>1. ASSUME NEW k \in Made \ (late \cup abandoned), close_[k]
            PROVE  Settled(q[loop[k]], k) \/ Gone(q, k)
        <4>1. Settled(queue[loop[k]], k) \/ Gone(queue, k)
          BY <1>9, <3>1 DEF Safe, ClosedThenDestroyed
        <4>2. QED
          BY <1>6, <4>1 DEF Gone
      <3>2. QED
        BY <1>1, <1>9, <2>1, <3>1 DEF RemoveConnection, madeVars, stateVars, userVars,
                ClosedThenDestroyed, Removals, Settled, Gone, Quiet
    <2>8. Outlived(queue)'
      <3>1. \A k \in Made \ abandoned : close_[k] /\ Removals(q, k) = 0
        BY <1>7, <1>9, <2>2 DEF Safe, Outlived
      <3>2. QED
        BY <1>1, <1>9, <2>1, <2>2, <3>1 DEF RemoveConnection, acceptorVars, stateVars, Safe, Outlived, Removals
    <2>9. QED
      BY <2>3, <2>4, <2>5, <2>6, <2>7, <2>8 DEF Safe
  <1>10. QED
    BY <1>8, <1>9 DEF TypeOK

\* EPollPoller::poll reports the close of an established connection.
LEMMA ReportClosedSafe ==
    ASSUME TypeOK, Safe(queue), NEW c \in Connections, ReportClosed(c)
    PROVE  Safe(queue)'
  <1>1. /\ Made' = Made /\ Fds' = Fds /\ c \in Made /\ channel_[c].started
        /\ \A k \in Made : k \in Connections
    BY MadeConnections DEF ReportClosed, serverVars, madeVars, Made, Fds
  <1>2. \A k \in Connections : k # c => channel_'[k] = channel_[k]
    BY DEF ReportClosed, TypeOK
  <1>3. Unmade' /\ UnderItsDescriptor'
    BY <1>1, <1>2 DEF ReportClosed, serverVars, madeVars, userVars, Safe, Unmade, UnderItsDescriptor
  <1>4. InTheirLoops(queue)'
    BY <1>1 DEF ReportClosed, madeVars, userVars, Safe, InTheirLoops, Proper
  <1>5. HeldUntilRemoved(queue)'
    BY <1>1 DEF ReportClosed, serverVars, madeVars, Safe, HeldUntilRemoved, Removals
  <1>6. EstablishWaits(queue)'
    BY <1>1 DEF ReportClosed, madeVars, userVars, Safe, EstablishWaits, Ready
  <1>7. ClosedThenDestroyed(queue)'
    <2>1. ASSUME NEW k \in Made \ (late \cup abandoned), close_[k]
          PROVE  \/ alive /\ Removals(queue, k) = 1
                 \/ Settled(queue[loop[k]], k)
                 \/ Quiet(queue[loop[k]], k) /\ ~channel_'[k].started /\ ~channel_'[k].actived
      BY <1>1, <1>2, <2>1 DEF Safe, ClosedThenDestroyed, Gone
    <2>2. QED
      BY <1>1, <2>1 DEF ReportClosed, serverVars, madeVars, userVars, historyVars,
                ClosedThenDestroyed, Removals, Settled, Gone, Quiet
  <1>8. Outlived(queue)'
    BY <1>1 DEF ReportClosed, serverVars, acceptorVars, historyVars, Safe, Outlived, Removals
  <1>9. QED
    BY <1>3, <1>4, <1>5, <1>6, <1>7, <1>8 DEF Safe

\* A call queues its functor.
LEMMA CallQueuesSafe ==
    ASSUME TypeOK, Safe(queue), CallQueues
    PROVE  Safe(queue)'
  <1> DEFINE c == call.conn
             p == RunInLoop(queue, loop[c], call)
  <1>1. /\ call \in Functors /\ call.op \in UserOps /\ c \in Made /\ c \in Connections
        /\ loop[c] \in Loops
    BY MadeConnections, TypeIs DEF CallQueues, TypeOK
  <1>2. /\ Made' = Made /\ Fds' = Fds /\ queue' = p
        /\ \A k \in Made : k \in Connections
    BY MadeConnections DEF CallQueues, serverVars, madeVars, Made, Fds
  <1>3. \A k : /\ call # Functor("remove", k) /\ call # Functor("destroy", k)
               /\ k # c => call \notin Uses(k)
    BY <1>1 DEF Functor, Uses, UserOps
  <1>4. /\ queue[loop[c]] \in Seq(Functors) /\ p \in [Loops -> Seq(Functors)]
        /\ p[loop[c]] = Append(queue[loop[c]], call)
        /\ \A m \in Loops : m # loop[c] => p[m] = queue[m]
    BY <1>1, QueueAppended DEF Safe
  <1>5. \A k : Removals(p, k) = Removals(queue, k)
    <2>1. \A k : /\ Removals(queue, k) \in Nat
                 /\ Removals(p, k) = Removals(queue, k)
                        + IF loop[c] = 0 /\ call = Functor("remove", k) THEN 1 ELSE 0
      BY <1>1, QueueAppended DEF Safe
    <2> HIDE DEF p
    <2>2. QED
      BY <1>3, <2>1
  <1>6. ASSUME NEW k \in Made
        PROVE  /\ k # c => /\ Quiet(queue[loop[k]], k) => Quiet(p[loop[k]], k)
                           /\ Settled(queue[loop[k]], k) => Settled(p[loop[k]], k)
               /\ Ready(queue[loop[k]], k) => Ready(p[loop[k]], k)
    BY <1>1, <1>2, <1>3, Appended DEF Safe
  <1>7. /\ call = Functor("establish", c)
        /\ (\A j \in 1..Len(queue[loop[c]]) : queue[loop[c]][j] # Functor("send", c))
        => Ready(p[loop[c]], c)
    BY <1>1, <1>2, Appended DEF Safe
  <1> HIDE DEF p
  <1>8. /\ \A k \in Connections : k # c => begun'[k] = begun[k]
        /\ begun'[c] = (IF begun[c] = "none" THEN call.op ELSE begun[c])
        /\ late' = IF close_[c] \/ c \in abandoned THEN late \cup {c} ELSE late
    BY <1>1 DEF CallQueues, TypeOK
  <1> HIDE DEF c
  <1>9. \A k \in Connections : begun[k] # "none" => begun'[k] # "none"
    BY <1>8
  <1>10. Unmade' /\ UnderItsDescriptor'
    BY <1>1, <1>2, <1>8 DEF CallQueues, serverVars, madeVars, stateVars, Safe, Unmade, UnderItsDescriptor
  <1>11. InTheirLoops(queue)'
    <2>1. ASSUME NEW m \in Loops, NEW i \in 1..Len(p[m])
          PROVE  /\ p[m][i].op \in {"listen", "closeAcceptor", "remove"} => m = 0
                 /\ p[m][i].op \in UserOps \cup {"remove", "destroy"} => p[m][i].conn \in Made
                 /\ p[m][i].op \in UserOps \cup {"destroy"} => loop[p[m][i].conn] = m
                 /\ p[m][i].op \in UserOps => begun'[p[m][i].conn] # "none"
      <3>1. ASSUME NEW j \in 1..Len(queue[m]), p[m][i] = queue[m][j]
            PROVE  /\ p[m][i].op \in {"listen", "closeAcceptor", "remove"} => m = 0
                   /\ p[m][i].op \in UserOps \cup {"remove", "destroy"} => p[m][i].conn \in Made
                   /\ p[m][i].op \in UserOps \cup {"destroy"} => loop[p[m][i].conn] = m
                   /\ p[m][i].op \in UserOps => begun'[p[m][i].conn] # "none"
        <4>1. Proper(m, p[m][i])
          BY <3>1 DEF Safe, InTheirLoops
        <4>2. QED
          BY <1>2, <1>9, <4>1 DEF Proper
      <3>2. ASSUME p[m][i] = call, m = loop[c]
            PROVE  /\ p[m][i].op \in {"listen", "closeAcceptor", "remove"} => m = 0
                   /\ p[m][i].op \in UserOps \cup {"remove", "destroy"} => p[m][i].conn \in Made
                   /\ p[m][i].op \in UserOps \cup {"destroy"} => loop[p[m][i].conn] = m
                   /\ p[m][i].op \in UserOps => begun'[p[m][i].conn] # "none"
        BY <1>1, <1>8, <3>2 DEF c, UserOps
      <3>3. CASE m = loop[c]
        <4> DEFINE s == queue[m]
        <4> HIDE DEF s
        <4>1. s \in Seq(Functors) /\ p[m] = Append(s, call)
          BY <1>4, <3>3 DEF s
        <4>2. /\ Len(s) \in Nat /\ Len(p[m]) = Len(s) + 1 /\ p[m][Len(s) + 1] = call
              /\ \A j \in 1..Len(s) : p[m][j] = s[j]
          BY <1>1, <4>1, AppendProperties
        <4>3. CASE i = Len(s) + 1
          BY <3>2, <3>3, <4>2, <4>3
        <4>4. CASE i # Len(s) + 1
          <5>1. i \in 1..Len(s) /\ p[m][i] = s[i]
            BY <4>2, <4>4
          <5>2. QED
            BY <3>1, <5>1 DEF s
        <4>5. QED
          BY <4>3, <4>4
      <3>4. CASE m # loop[c]
        <4>1. p[m] = queue[m]
          BY <1>4, <3>4
        <4>2. QED
          BY <3>1, <4>1
      <3>5. QED
        BY <3>3, <3>4
    <2>2. QED
      BY <1>2, <1>4, <2>1 DEF CallQueues, madeVars, InTheirLoops, Proper
  <1>12. HeldUntilRemoved(queue)'
    BY <1>2, <1>5 DEF CallQueues, serverVars, madeVars, stateVars, Safe, HeldUntilRemoved, Removals
  <1>13. EstablishWaits(queue)'
    <2>1. ASSUME NEW k \in Made, begun'[k] = "establish", ~establish_[k]
          PROVE  Ready(p[loop[k]], k)
      <3>1. CASE begun[k] = "establish"
        BY <1>6, <2>1, <3>1 DEF Safe, EstablishWaits
      <3>2. CASE begun[k] # "establish"
        <4>1. k = c /\ begun[c] = "none" /\ call.op = "establish"
          BY <1>2, <1>8, <2>1, <3>2
        <4>2. call = Functor("establish", c)
          BY <1>1, <4>1 DEF c, Functors, Functor
        <4>3. ASSUME NEW j \in 1..Len(queue[loop[c]])
              PROVE  queue[loop[c]][j] # Functor("send", c)
          <5>1. Proper(loop[c], queue[loop[c]][j])
            BY <1>1 DEF Safe, InTheirLoops
          <5>2. QED
            BY <4>1, <5>1 DEF Proper, Functor, UserOps
        <4>4. QED
          BY <1>7, <4>1, <4>2, <4>3
      <3>3. QED
        BY <3>1, <3>2
    <2>2. QED
      BY <1>2, <2>1 DEF CallQueues, madeVars, stateVars, EstablishWaits, Ready
  <1>14. ClosedThenDestroyed(queue)'
    <2>1. ASSUME NEW k \in Made \ (late' \cup abandoned), close_[k]
          PROVE  (alive /\ Removals(p, k) = 1) \/ Settled(p[loop[k]], k) \/ Gone(p, k)
      <3>1. k # c /\ k \notin late
        BY <1>8, <2>1
      <3>2. (alive /\ Removals(queue, k) = 1) \/ Settled(queue[loop[k]], k) \/ Gone(queue, k)
        BY <2>1, <3>1 DEF Safe, ClosedThenDestroyed
      <3>3. QED
        BY <1>5, <1>6, <3>1, <3>2 DEF Gone
    <2>2. QED
      BY <1>2, <2>1 DEF CallQueues, serverVars, madeVars, stateVars, historyVars,
                ClosedThenDestroyed, Removals, Settled, Gone, Quiet
  <1>15. Outlived(queue)'
    BY <1>2, <1>5 DEF CallQueues, serverVars, acceptorVars, stateVars, historyVars, Safe, Outlived, Removals
  <1>16. QED
    BY <1>10, <1>11, <1>12, <1>13, <1>14, <1>15 DEF Safe

\* TcpServer::onAccept.
LEMMA OnAcceptSafe ==
    ASSUME TypeOK, Safe(queue), OnAccept
    PROVE  Safe(queue)'
  <1>1. /\ Fds' = Fds /\ queue' = queue /\ 0 \in Loops
        /\ \A k \in Made : k \in Connections /\ k # 0
    BY MadeConnections, TypeIs DEF OnAccept, stateVars, Fds, Connections
  <1>2. CASE ~alive
    <2>1. /\ abandoned # {} /\ dangling'
          /\ UNCHANGED <<connections_, fd, loop, born>>
      BY <1>2 DEF OnAccept, madeVars, Safe, Outlived
    <2>2. Made' = Made
      BY <2>1 DEF Made
    <2>3. Unmade' /\ UnderItsDescriptor'
      BY <1>1, <2>1, <2>2 DEF OnAccept, stateVars, Safe, Unmade, UnderItsDescriptor
    <2>4. InTheirLoops(queue)'
      BY <1>1, <2>1, <2>2 DEF OnAccept, Safe, InTheirLoops, Proper
    <2>5. HeldUntilRemoved(queue)'
      BY <1>2 DEF OnAccept, HeldUntilRemoved
    <2>6. EstablishWaits(queue)'
      BY <1>1, <2>1, <2>2 DEF OnAccept, stateVars, Safe, EstablishWaits, Ready
    <2>7. ClosedThenDestroyed(queue)'
      BY <1>1, <1>2, <2>1, <2>2 DEF OnAccept, stateVars, Safe,
            ClosedThenDestroyed, Removals, Settled, Gone, Quiet
    <2>8. Outlived(queue)'
      BY <1>1, <1>2, <2>1, <2>2 DEF OnAccept, stateVars, acceptorVars, Safe, Outlived, Removals
    <2>9. QED
      BY <2>3, <2>4, <2>5, <2>6, <2>7, <2>8 DEF Safe
  <1>3. CASE alive
    <2> DEFINE c == born + 1
    <2>1. PICK f \in FreeFds : /\ fd' = [fd EXCEPT ![c] = f]
                               /\ connections_' = [connections_ EXCEPT ![f] = c]
      BY <1>3 DEF OnAccept
    <2>2. c \in Connections \ Made /\ c # 0 /\ f \in Fds
      <3>1. born \in Nat /\ backlog \in Nat /\ backlog > 0 /\ born + backlog <= arrived
            /\ arrived \in 0..MaxConnections
        BY DEF OnAccept, TypeOK
      <3>2. QED
        BY <3>1, TcpServerAssumption DEF Connections, Made, FreeFds
    <2>3. Made' = Made \cup {c}
      <3>1. born' = born + 1 /\ born \in Nat
        BY <1>3 DEF OnAccept, TypeOK
      <3>2. QED
        BY <3>1 DEF Made
    <2>4. /\ loop' \in [Connections -> Loops] /\ dangling' = dangling
          /\ \A k \in Connections : k # c => loop'[k] = loop[k] /\ fd'[k] = fd[k]
          /\ fd'[c] = f
          /\ \A g \in Fds : connections_'[g] = IF g = f THEN c ELSE connections_[g]
      <3>1. loop' = [loop EXCEPT ![c] = IF setup.pool THEN PoolLoop(indexLoop_') ELSE 0]
            /\ dangling' = dangling
            /\ indexLoop_' = IF setup.pool THEN (indexLoop_ + 1) % PoolCount ELSE indexLoop_
        BY <1>3 DEF OnAccept
      <3>2. setup.pool => PoolLoop(indexLoop_') \in Loops
        BY <3>1, TcpServerAssumption DEF PoolLoop, Loops, TypeOK
      <3> HIDE DEF c
      <3>3. (IF setup.pool THEN PoolLoop(indexLoop_') ELSE 0) \in Loops
        BY <1>1, <3>2
      <3>4. loop \in [Connections -> Loops] /\ fd \in [Connections -> Nat]
            /\ connections_ \in [Fds -> 0..MaxConnections]
        BY DEF TypeOK
      <3>5. QED
        BY <2>1, <2>2, <3>1, <3>3, <3>4
    <2> HIDE DEF c
    <2>5. /\ ~establish_[c] /\ ~close_[c] /\ ~channel_[c].actived /\ begun[c] = "none"
          /\ connections_'[f] = c
      BY <2>2, <2>4 DEF Safe, Unmade
    <2>6. \A k \in Made : k \in Connections /\ k # c
      BY <1>1, <2>2
    <2>7. connections_[f] = 0
      <3>1. SUFFICES ASSUME connections_[f] # 0 PROVE FALSE
        OBVIOUS
      <3>2. connections_[f] \in Made /\ fd[connections_[f]] = f
        BY <2>2, <3>1 DEF Safe, UnderItsDescriptor
      <3>3. Held(connections_[f])
        BY <1>3, <3>2 DEF Held
      <3>4. QED
        BY <3>2, <3>3 DEF FreeFds, Freed
    <2>8. Removals(queue, c) = 0
      <3>1. \A i \in 1..Len(queue[0]) : queue[0][i] # Functor("remove", c)
        BY <1>1, <2>2 DEF Safe, InTheirLoops, Proper, Functor
      <3>2. queue[0] \in Seq(Functors)
        BY <1>1 DEF Safe, InTheirLoops
      <3>3. QED
        BY <3>1, <3>2, TimesCounts DEF Removals
    <2>9. Unmade'
      BY <2>3 DEF OnAccept, stateVars, Safe, Unmade
    <2>10. UnderItsDescriptor'
      <3>1. \A k \in Made' : fd'[k] \in Fds
        BY <2>2, <2>3, <2>4, <2>6 DEF Safe, UnderItsDescriptor
      <3>2. ASSUME NEW g \in Fds, connections_'[g] # 0
            PROVE  connections_'[g] \in Made' /\ fd'[connections_'[g]] = g
        <4>1. CASE g = f
          BY <2>2, <2>3, <2>4, <4>1
        <4>2. CASE g # f
          BY <2>3, <2>4, <2>6, <3>2, <4>2 DEF Safe, UnderItsDescriptor
        <4>3. QED
          BY <4>1, <4>2
      <3>3. QED
        BY <1>1, <3>1, <3>2 DEF UnderItsDescriptor
    <2>11. InTheirLoops(queue)'
      <3>1. ASSUME NEW l \in Loops, NEW i \in 1..Len(queue[l])
            PROVE  Proper(l, queue[l][i])'
        <4>1. Proper(l, queue[l][i]) /\ begun' = begun
          BY DEF OnAccept, Safe, InTheirLoops
        <4>2. QED
          BY <1>1, <2>3, <2>4, <2>6, <4>1 DEF Proper, UserOps
      <3>2. QED
        BY <1>1, <3>1 DEF Safe, InTheirLoops, Proper
    <2>12. HeldUntilRemoved(queue)'
      <3>1. ASSUME NEW k \in Made'
            PROVE  /\ Removals(queue, k) <= 1 /\ (~close_[k] => Removals(queue, k) = 0)
                   /\ connections_'[fd'[k]] = k <=> (~close_[k] \/ Removals(queue, k) = 1)
        <4>1. CASE k = c
          BY <2>4, <2>5, <2>8, <4>1
        <4>2. CASE k \in Made
          <5>1. /\ Removals(queue, k) <= 1 /\ (~close_[k] => Removals(queue, k) = 0)
                /\ connections_[fd[k]] = k <=> (~close_[k] \/ Removals(queue, k) = 1)
            BY <1>3, <4>2 DEF Safe, HeldUntilRemoved
          <5>2. fd[k] \in Fds /\ fd'[k] = fd[k] /\ k # c /\ k # 0
            BY <1>1, <2>4, <2>6, <4>2 DEF Safe, UnderItsDescriptor
          <5>3. connections_'[fd[k]] = k <=> connections_[fd[k]] = k
            BY <2>4, <2>7, <5>2
          <5>4. QED
            BY <5>1, <5>2, <5>3
        <4>3. QED
          BY <2>3, <4>1, <4>2
      <3>2. QED
        BY <1>1, <3>1 DEF OnAccept, stateVars, HeldUntilRemoved, Removals
    <2>13. EstablishWaits(queue)'
      <3>1. ASSUME NEW k \in Made', begun[k] = "establish", ~establish_[k]
            PROVE  Ready(queue[loop'[k]], k)
        BY <2>3, <2>4, <2>5, <2>6, <3>1 DEF Safe, EstablishWaits
      <3>2. QED
        BY <1>1, <3>1 DEF OnAccept, stateVars, EstablishWaits, Ready
    <2>14. ClosedThenDestroyed(queue)'
      <3>1. ASSUME NEW k \in Made' \ (late \cup abandoned), close_[k]
            PROVE  /\ loop'[k] = loop[k]
                   /\ \/ alive /\ Removals(queue, k) = 1
                      \/ Settled(queue[loop[k]], k)
                      \/ Gone(queue, k)
        BY <2>3, <2>4, <2>5, <2>6, <3>1 DEF Safe, ClosedThenDestroyed
      <3>2. QED
        BY <1>1, <3>1 DEF OnAccept, stateVars, ClosedThenDestroyed, Removals, Settled, Gone, Quiet
    <2>15. Outlived(queue)'
      BY <1>3, <2>4 DEF OnAccept, acceptorVars, Safe, Outlived
    <2>16. QED
      BY <2>9, <2>10, <2>11, <2>12, <2>13, <2>14, <2>15 DEF Safe
  <1>4. QED
    BY <1>2, <1>3 DEF TypeOK

\* ~TcpServer.
LEMMA DestroyServerSafe ==
    ASSUME TypeOK, Safe(queue), DestroyServer
    PROVE  Safe(queue)'
  <1> DEFINE q == AcceptorClosed(queue)
             f == Functor("closeAcceptor", 0)
  <1>1. /\ Made' = Made /\ Fds' = Fds /\ 0 \in Loops /\ alive /\ alive' = FALSE
        /\ \A k \in Made : k \in Connections /\ k # 0 /\ loop[k] \in Loops /\ fd[k] \in Fds
    BY MadeConnections, TypeIs DEF DestroyServer, madeVars, Made, Fds, Connections, Safe, UnderItsDescriptor
  <1>2. Safe(q)
    <2>1. CASE accept_
      BY <2>1, AcceptorSafe DEF AcceptorClosed
    <2>2. CASE ~accept_
      BY <2>2 DEF AcceptorClosed
    <2>3. QED
      BY <2>1, <2>2 DEF TypeOK
  <1> HIDE DEF q
  \* Each loop gets destroy()s of its connections.
  <1>3. ASSUME NEW l \in Loops
        PROVE  /\ DestroyAll(q)[l] \in Seq(Functors) /\ q[l] \in Seq(Functors)
               /\ Follows(DestroyAll(q)[l], q[l])
               /\ \A j \in (Len(q[l]) + 1)..Len(DestroyAll(q)[l]) :
                    \E c \in Made : loop[c] = l /\ DestroyAll(q)[l][j] = Functor("destroy", c)
    BY <1>2, DestroyAllKeeps, Zenon DEF Safe, InTheirLoops
  <1>4. DestroyAll(q) \in [Loops -> Seq(Functors)]
    <2>1. DestroyAll(q) = [l \in Loops |-> DestroyAll(q)[l]]
      BY DEF DestroyAll
    <2> DEFINE d == DestroyAll(q)
    <2> HIDE DEF d
    <2>2. (\A l \in Loops : d[l] \in Seq(Functors)) /\ d = [l \in Loops |-> d[l]]
      BY <1>3, <2>1 DEF d
    <2>3. d \in [Loops -> Seq(Functors)]
      BY <2>2
    <2>4. QED
      BY <2>3 DEF d
  <1>5. \E r : /\ Safe(r) /\ queue' \in [Loops -> Seq(Functors)]
               /\ \A l \in Loops :
                    /\ r[l] \in Seq(Functors) /\ Follows(queue'[l], r[l])
                    /\ \A j \in (Len(r[l]) + 1)..Len(queue'[l]) :
                         \E c \in Made : loop[c] = l /\ queue'[l][j] = Functor("destroy", c)
    <2>1. CASE listen_
      <3>1. queue' = DestroyAll(q)
        BY <2>1 DEF DestroyServer, q
      <3>2. QED
        BY <1>2, <1>3, <1>4, <3>1
    <2>2. CASE ~listen_
      <3>1. queue' = queue /\ queue \in [Loops -> Seq(Functors)]
        BY <2>2 DEF DestroyServer, Safe, InTheirLoops
      <3>2. ASSUME NEW l \in Loops
            PROVE  /\ queue[l] \in Seq(Functors) /\ Follows(queue[l], queue[l])
                   /\ \A j \in (Len(queue[l]) + 1)..Len(queue[l]) : FALSE
        <4>1. Len(queue[l]) \in Nat /\ queue[l] \in Seq(Functors)
          BY <3>1
        <4>2. QED
          BY <4>1 DEF Follows
      <3>3. QED
        BY <3>1, <3>2
    <2>3. QED
      BY <2>1, <2>2 DEF TypeOK
  <1>6. PICK r : /\ Safe(r) /\ queue' \in [Loops -> Seq(Functors)]
                 /\ \A l \in Loops :
                      /\ r[l] \in Seq(Functors) /\ Follows(queue'[l], r[l])
                      /\ \A j \in (Len(r[l]) + 1)..Len(queue'[l]) :
                           \E c \in Made : loop[c] = l /\ queue'[l][j] = Functor("destroy", c)
    BY <1>5
  <1>7. ASSUME NEW l \in Loops, NEW j \in (Len(r[l]) + 1)..Len(queue'[l]), NEW k
        PROVE  queue'[l][j] \notin Uses(k) /\ queue'[l][j] # Functor("remove", k)
    <2>1. PICK c \in Made : queue'[l][j] = Functor("destroy", c)
      BY <1>6
    <2>2. Functor("destroy", c) \notin Uses(k) /\ Functor("destroy", c) # Functor("remove", k)
      BY DEF Uses, Functor
    <2>3. QED
      BY <2>1, <2>2
  <1>8. ASSUME NEW k \in Made
        PROVE  /\ Quiet(r[loop[k]], k) => Quiet(queue'[loop[k]], k)
               /\ Settled(r[loop[k]], k) => Settled(queue'[loop[k]], k)
               /\ Ready(r[loop[k]], k) => Ready(queue'[loop[k]], k)
    BY <1>1, <1>6, <1>7, MoreKeeps
  <1>9. \A k : Times(queue'[0], Functor("remove", k)) = Removals(r, k)
    BY <1>1, <1>6, <1>7, MoreTimes DEF Removals
  <1>10. Unmade' /\ UnderItsDescriptor'
    BY <1>1 DEF DestroyServer, madeVars, stateVars, userVars, Safe, Unmade, UnderItsDescriptor
  <1>11. InTheirLoops(queue)'
    <2>1. ASSUME NEW l \in Loops, NEW i \in 1..Len(queue'[l])
          PROVE  Proper(l, queue'[l][i])
      <3>1. Len(r[l]) \in Nat /\ Len(queue'[l]) \in Nat /\ Follows(queue'[l], r[l])
        BY <1>6
      <3>2. CASE i \in 1..Len(r[l])
        <4>1. queue'[l][i] = r[l][i]
          BY <3>1, <3>2 DEF Follows
        <4>2. QED
          BY <1>6, <3>2, <4>1 DEF Safe, InTheirLoops
      <3>3. CASE i \in (Len(r[l]) + 1)..Len(queue'[l])
        <4>1. PICK c \in Made : loop[c] = l /\ queue'[l][i] = Functor("destroy", c)
          BY <1>6, <3>3
        <4>2. QED
          BY <4>1 DEF Proper, Functor, UserOps
      <3>4. QED
        BY <3>1, <3>2, <3>3
    <2>2. QED
      BY <1>1, <1>6, <2>1 DEF DestroyServer, madeVars, userVars, InTheirLoops, Proper
  <1>12. HeldUntilRemoved(queue)'
    BY <1>1 DEF HeldUntilRemoved
  <1>13. EstablishWaits(queue)'
    <2>1. ASSUME NEW k \in Made, begun[k] = "establish", ~establish_[k]
          PROVE  Ready(queue'[loop[k]], k)
      BY <1>6, <1>8, <2>1 DEF Safe, EstablishWaits
    <2>2. QED
      BY <1>1, <2>1 DEF DestroyServer, madeVars, stateVars, userVars, EstablishWaits, Ready
  <1>14. ASSUME NEW k \in Made
         PROVE  /\ Removals(r, k) <= 1 /\ (~close_[k] => Removals(r, k) = 0)
                /\ ~close_[k] \/ Removals(r, k) = 1 => k \in abandoned'
    <2>1. /\ Removals(r, k) <= 1 /\ (~close_[k] => Removals(r, k) = 0)
          /\ connections_[fd[k]] = k <=> (~close_[k] \/ Removals(r, k) = 1)
      BY <1>1, <1>6 DEF Safe, HeldUntilRemoved
    <2>2. abandoned' = {connections_[g] : g \in Fds} \ {0}
      BY DEF DestroyServer
    <2>3. connections_[fd[k]] = k => k \in abandoned'
      BY <1>1, <2>2
    <2>4. QED
      BY <2>1, <2>3
  <1>15. ClosedThenDestroyed(queue)'
    <2>1. ASSUME NEW k \in Made \ (late \cup abandoned'), close_[k]
          PROVE  Settled(queue'[loop[k]], k)
                 \/ (Quiet(queue'[loop[k]], k) /\ ~channel_[k].started /\ ~channel_[k].actived)
      <3>1. abandoned = {}
        BY <1>1 DEF Safe, Outlived
      <3>2. Settled(r[loop[k]], k) \/ Gone(r, k)
        BY <1>6, <1>14, <2>1, <3>1 DEF Safe, ClosedThenDestroyed
      <3>3. QED
        BY <1>8, <3>2 DEF Gone
    <2>2. QED
      BY <1>1, <2>1 DEF DestroyServer, madeVars, stateVars, userVars,
            ClosedThenDestroyed, Settled, Gone, Quiet
  <1>16. Outlived(queue)'
    <2>1. accept_' = FALSE
      BY <1>1 DEF DestroyServer, Safe, Outlived, TypeOK
    <2>2. ASSUME NEW k \in Made \ abandoned'
          PROVE  close_[k] /\ Times(queue'[0], Functor("remove", k)) = 0
      <3>1. 0 \in Loops /\ r[0] \in Seq(Functors)
        BY <1>1, <1>6
      <3>2. Removals(r, k) \in Nat
        BY <3>1, TimesCounts DEF Removals
      <3>3. close_[k] /\ Removals(r, k) = 0
        BY <1>14, <2>2, <3>2
      <3>4. QED
        BY <1>9, <3>3
    <2>3. abandoned' = {} => ~accepting /\ ~dangling
      <3>1. accepting => \E g \in Fds : connections_[g] # 0
        BY DEF DestroyServer
      <3>2. QED
        BY <1>1, <3>1 DEF DestroyServer, Safe, Outlived
    <2>4. QED
      BY <1>1, <2>1, <2>2, <2>3 DEF DestroyServer, stateVars, Outlived, Removals, Functor
  <1>17. QED
    BY <1>10, <1>11, <1>12, <1>13, <1>15, <1>16 DEF Safe

-----------------------------------------------------------------------------
(* The type invariant.                                                     *)

\* Every step keeps the type invariant.
LEMMA TypeStep ==
    ASSUME TypeOK, Safe(queue), [Next]_vars
    PROVE  TypeOK'
  <1>0. /\ MaxConnections \in Nat /\ PoolCount \in Nat \ {0} /\ 0 \in Loops
        /\ Connections = 1..MaxConnections
    BY TcpServerAssumption, TypeIs DEF Connections
  <1>1. CASE Listen
    BY <1>1 DEF TypeOK, Listen, AcceptorListen, serverVars, acceptorVars, madeVars, stateVars, kernelVars,
                userVars, historyVars, Fds, Made
  <1>2. CASE DestroyServer
    BY <1>2 DEF TypeOK, DestroyServer, madeVars, stateVars, kernelVars, userVars, Fds, Made
  <1>3. CASE Arrive
    BY <1>0, <1>3 DEF TypeOK, Arrive, serverVars, acceptorVars, madeVars, stateVars, userVars, historyVars, Fds, Made
  <1>4. ASSUME NEW c \in Connections, PeerCloses(c) PROVE TypeOK'
    BY <1>4 DEF TypeOK, PeerCloses, serverVars, acceptorVars, madeVars, stateVars, userVars, historyVars, Fds, Made
  <1>5. ASSUME NEW c \in Connections, Drop(c) PROVE TypeOK'
    BY <1>5 DEF TypeOK, Drop, serverVars, acceptorVars, madeVars, stateVars, kernelVars, historyVars, Fds, Made
  <1>6. ASSUME NEW c \in Connections, NEW op \in UserOps, Call(op, c) PROVE TypeOK'
    <2>1. Functor(op, c) \in Functors /\ Functor(op, c).op = op /\ Functor(op, c).conn = c
      BY <1>0 DEF Functor, Functors, Ops
    <2>2. c \in Made
      BY <1>6 DEF Call, TypeOK
    <2>3. QED
      BY <1>6, <2>1, <2>2 DEF TypeOK, Call, serverVars, acceptorVars, madeVars, stateVars, kernelVars, historyVars, Fds, Made
  <1>7. CASE CallQueues
    <2>1. begun' \in [Connections -> UserOps \cup {"none"}]
      BY <1>7 DEF CallQueues, TypeOK
    <2>2. QED
      BY <1>7, <2>1 DEF TypeOK, CallQueues, serverVars, acceptorVars, madeVars, stateVars, kernelVars, historyVars, Fds, Made
  <1>8. CASE ListenInLoop
    BY <1>8 DEF TypeOK, ListenInLoop, serverVars, madeVars, stateVars, kernelVars, userVars, historyVars, Fds, Made
  <1>9. CASE CloseInLoop
    BY <1>9 DEF TypeOK, CloseInLoop, serverVars, madeVars, stateVars, userVars, historyVars, Fds, Made
  <1>10. CASE ReportListen
    BY <1>10 DEF TypeOK, ReportListen, serverVars, madeVars, stateVars, userVars, historyVars, Fds, Made
  <1>11. CASE OnRead
    BY <1>11 DEF TypeOK, OnRead, serverVars, madeVars, stateVars, kernelVars, userVars, historyVars, Fds, Made
  <1>12. CASE AcceptNone
    BY <1>12 DEF TypeOK, AcceptNone, serverVars, madeVars, stateVars, kernelVars, userVars, historyVars, Fds, Made
  <1>13. CASE AcceptFull
    BY <1>13 DEF TypeOK, AcceptFull, serverVars, acceptorVars, madeVars, stateVars, userVars, historyVars, Fds, Made
  <1>14. CASE AcceptFails
    <2>1. /\ born' = born /\ arrived' = arrived /\ backlog' \in Nat
          /\ born + backlog' <= arrived
      BY <1>14 DEF AcceptFails, madeVars, TypeOK
    <2>2. QED
      BY <1>14, <2>1 DEF TypeOK, AcceptFails, serverVars, madeVars, stateVars, userVars, Fds, Made
  <1>15. CASE OnAccept
    <2>1. CASE ~alive
      <3>1. /\ born' = born /\ arrived' = arrived /\ backlog' \in Nat
            /\ born + backlog' <= arrived /\ held' = held
        BY <1>15, <2>1 DEF OnAccept, madeVars, TypeOK
      <3>2. QED
        BY <1>15, <2>1, <3>1 DEF TypeOK, OnAccept, acceptorVars, madeVars, stateVars, Fds, Made
    <2>2. CASE alive
      <3> DEFINE c == born + 1
      <3>1. PICK f \in FreeFds : /\ fd' = [fd EXCEPT ![c] = f]
                                 /\ connections_' = [connections_ EXCEPT ![f] = c]
        BY <1>15, <2>2 DEF OnAccept
      <3>2. /\ born \in Nat /\ backlog \in Nat /\ backlog > 0 /\ born + backlog <= arrived
            /\ arrived \in 0..MaxConnections /\ born' = c /\ backlog' = backlog - 1
            /\ arrived' = arrived
        BY <1>15, <2>2 DEF OnAccept, TypeOK
      <3>3. c \in 0..MaxConnections /\ f \in Nat /\ indexLoop_' \in Nat
            /\ (setup.pool => PoolLoop(indexLoop_') \in Loops)
        <4>1. f \in Nat
          BY <3>1, TcpServerAssumption DEF FreeFds, Fds, TypeOK
        <4>2. indexLoop_' \in Nat /\ (setup.pool => PoolLoop(indexLoop_') \in Loops)
          BY <1>0, <1>15, <2>2 DEF OnAccept, TypeOK, PoolLoop, Loops
        <4>3. QED
          BY <1>0, <3>2, <4>1, <4>2
      <3>4. connections_' \in [Fds -> 0..MaxConnections] /\ fd' \in [Connections -> Nat]
        BY <3>1, <3>3 DEF TypeOK
      <3>5. loop' \in [Connections -> Loops]
        <4>1. (IF setup.pool THEN PoolLoop(indexLoop_') ELSE 0) \in Loops
          BY <1>0, <3>3
        <4>2. QED
          BY <1>15, <2>2, <4>1 DEF OnAccept, TypeOK
      <3>6. held' \subseteq Made' /\ Made \subseteq Made'
        <4>1. Made' = 1..c /\ Made = 1..born /\ born \in Nat
          BY <3>2 DEF Made
        <4>2. c \in Made' /\ Made \subseteq Made'
          BY <4>1
        <4>3. held' = held \cup {c} /\ held \subseteq Made
          BY <1>15, <2>2 DEF OnAccept, TypeOK
        <4>4. QED
          BY <4>2, <4>3
      <3>7. born' \in Nat /\ backlog' \in Nat /\ born' + backlog' <= arrived' /\ arrived' \in 0..MaxConnections
        BY <3>2
      <3> HIDE DEF c
      <3>8. QED
        BY <1>15, <2>2, <3>3, <3>4, <3>5, <3>6, <3>7 DEF OnAccept, TypeOK, acceptorVars, stateVars, Fds
    <2>3. QED
      BY <2>1, <2>2 DEF TypeOK
  <1>16. ASSUME NEW c \in Connections, RemoveConnection(c) PROVE TypeOK'
    <2>1. connections_' \in [Fds -> 0..MaxConnections] /\ dangling' \in BOOLEAN
      <3>1. /\ connections_' = connections_ \/ connections_' = [connections_ EXCEPT ![fd[c]] = 0]
            /\ dangling' = dangling \/ dangling' = TRUE
        BY <1>16 DEF RemoveConnection
      <3>2. 0 \in 0..MaxConnections
        BY <1>0
      <3>3. QED
        BY <3>1, <3>2 DEF TypeOK
    <2>2. QED
      BY <1>16, <2>1 DEF TypeOK, RemoveConnection, acceptorVars, madeVars, stateVars, kernelVars, userVars, Fds, Made
  <1>17. ASSUME NEW l \in Loops, NEW c \in Connections, EstablishInLoop(l, c) PROVE TypeOK'
    <2>1. channel_[c] \in C!ChannelType
      BY DEF TypeOK
    <2>2. C!Open(channel_[c]) \in C!ChannelType
      BY <2>1, ChannelSteps
    <2>3. channel_' \in [Connections -> C!ChannelType] /\ establish_' \in [Connections -> BOOLEAN]
      BY <1>17, <2>2 DEF TypeOK, EstablishInLoop
    <2>4. QED
      BY <1>17, <2>3 DEF TypeOK, EstablishInLoop, serverVars, acceptorVars, madeVars, kernelVars, userVars,
                historyVars, Fds, Made
  <1>18. ASSUME NEW l \in Loops, NEW c \in Connections, SendInLoop(l, c) PROVE TypeOK'
    BY <1>18 DEF TypeOK, SendInLoop, serverVars, acceptorVars, madeVars, stateVars, kernelVars, userVars,
                historyVars, Fds, Made
  <1>19. ASSUME NEW l \in Loops, NEW c \in Connections, DestroyInLoop(l, c) PROVE TypeOK'
    <2>1. channel_[c] \in C!ChannelType
      BY DEF TypeOK
    <2>2. C!Close(channel_[c]) \in C!ChannelType
      BY <2>1, ChannelSteps
    <2>3. channel_' \in [Connections -> C!ChannelType]
      BY <1>19, <2>2 DEF TypeOK, DestroyInLoop
    <2>4. QED
      BY <1>19, <2>3 DEF TypeOK, DestroyInLoop, serverVars, acceptorVars, madeVars, kernelVars, userVars,
                historyVars, Fds, Made
  <1>20. ASSUME NEW c \in Connections, NEW ch \in C!ChannelType, NEW q, OnClose(c, ch, q)
         PROVE  /\ channel_' \in [Connections -> C!ChannelType] /\ close_' \in [Connections -> BOOLEAN]
                /\ dangling' \in BOOLEAN
    <2>1. C!DisableAll(ch) \in C!ChannelType
      BY ChannelSteps
    <2>2. QED
      BY <1>20, <2>1 DEF OnClose, TypeOK
  <1>21. ASSUME NEW l \in Loops, NEW c \in Connections, CloseRuns(l, c) PROVE TypeOK'
    <2>1. channel_[c] \in C!ChannelType /\ OnClose(c, channel_[c], Rest(l))
      BY <1>21 DEF TypeOK, CloseRuns
    <2>2. QED
      BY <1>20, <1>21, <2>1 DEF TypeOK, CloseRuns, serverVars, acceptorVars, madeVars, kernelVars, userVars, Fds, Made
  <1>22. ASSUME NEW c \in Connections, ReportClosed(c) PROVE TypeOK'
    <2>1. channel_[c] \in C!ChannelType
      BY DEF TypeOK
    <2>2. P!Dispatch(channel_[c], {"hup", "in"}) \in C!ChannelType
      BY <2>1, Reported
    <2>3. channel_' \in [Connections -> C!ChannelType]
      BY <1>22, <2>2 DEF TypeOK, ReportClosed
    <2>4. QED
      BY <1>22, <2>3 DEF TypeOK, ReportClosed, serverVars, acceptorVars, madeVars, userVars, historyVars, Fds, Made
  <1>23. ASSUME NEW c \in Connections, HandleEvents(c) PROVE TypeOK'
    <2> DEFINE ch == C!ClearRead(C!ClearClose(C!HandleStart(channel_[c])))
    <2>1. channel_[c] \in C!ChannelType /\ OnClose(c, ch, queue)
      BY <1>23 DEF TypeOK, HandleEvents
    <2>2. ch \in C!ChannelType
      BY <2>1, ChannelSteps
    <2> HIDE DEF ch
    <2>3. QED
      BY <1>20, <1>23, <2>1, <2>2 DEF TypeOK, HandleEvents, serverVars, acceptorVars, madeVars, kernelVars, userVars, Fds, Made
  <1>24. CASE UNCHANGED vars
    BY <1>24 DEF TypeOK, vars, serverVars, acceptorVars, madeVars, stateVars, kernelVars, userVars, historyVars, Fds, Made
  <1>25. QED
    BY <1>1, <1>2, <1>3, <1>4, <1>5, <1>6, <1>7, <1>8, <1>9, <1>10, <1>11, <1>12, <1>13, <1>14, <1>15,
       <1>16, <1>17, <1>18, <1>19, <1>21, <1>22, <1>23, <1>24 DEF Next, LoopStep, AcceptStep, UserOps

-----------------------------------------------------------------------------
(* The invariant.                                                          *)

\* Every step keeps what the properties rest on.
LEMMA SafeStep ==
    ASSUME TypeOK, Safe(queue), [Next]_vars
    PROVE  Safe(queue)'
  <1>0. 0 \in Loops
    BY TypeIs
  <1>1. CASE Listen
    <2> DEFINE f == Functor("listen", 0)
    <2>1. PICK q : queue' = q /\ Safe(q)
      BY <1>1, AcceptorSafe DEF Listen, AcceptorListen
    <2>2. /\ UNCHANGED <<alive, connections_, setup, fd, loop, born, establish_, close_, channel_,
                         begun, late, abandoned, dangling, accepting>>
          /\ alive' /\ listen_'
      BY <1>1 DEF Listen, madeVars, stateVars, userVars, historyVars
    <2>3. QED
      BY <2>1, <2>2, SameState
  <1>2. CASE DestroyServer
    BY <1>2, DestroyServerSafe
  <1>3. CASE OnAccept
    BY <1>3, OnAcceptSafe
  <1>4. CASE CallQueues
    BY <1>4, CallQueuesSafe
  <1>5. ASSUME NEW c \in Connections, RemoveConnection(c) PROVE Safe(queue)'
    BY <1>5, RemoveSafe
  <1>6. ASSUME NEW l \in Loops, NEW c \in Connections, EstablishInLoop(l, c) PROVE Safe(queue)'
    BY <1>6, EstablishSafe
  <1>7. ASSUME NEW l \in Loops, NEW c \in Connections, DestroyInLoop(l, c) PROVE Safe(queue)'
    BY <1>7, DestroySafe
  <1>8. ASSUME NEW c \in Connections, ReportClosed(c) PROVE Safe(queue)'
    BY <1>8, ReportClosedSafe
  <1>9. ASSUME NEW c \in Connections, HandleEvents(c) PROVE Safe(queue)'
    <2> DEFINE ch == C!ClearRead(C!ClearClose(C!HandleStart(channel_[c])))
    <2>1. channel_[c] \in C!ChannelType /\ OnClose(c, ch, queue) /\ channel_[c].actived
      BY <1>9 DEF TypeOK, HandleEvents
    <2>2. ch \in C!ChannelType /\ c \in Made
      BY <2>1, ChannelSteps DEF Safe, Unmade
    <2>3. UNCHANGED <<alive, listen_, connections_, setup, accept_, accepting, fd, loop, born,
                      establish_, begun, late, abandoned>>
      BY <1>9 DEF HandleEvents, serverVars, acceptorVars, madeVars, userVars
    <2> HIDE DEF ch
    <2>4. QED
      BY <2>1, <2>2, <2>3, OnCloseSafe
  <1>10. ASSUME NEW l \in Loops, NEW c \in Connections, CloseRuns(l, c) PROVE Safe(queue)'
    <2>1. Takes(l, "close", c) /\ OnClose(c, channel_[c], Rest(l))
      BY <1>10 DEF CloseRuns
    <2>2. Safe(Rest(l))
      BY <2>1, RestSafe
    <2>3. Proper(l, Functor("close", c))
      BY <2>1, QueueTaken DEF Safe
    <2>4. c \in Made /\ channel_[c] \in C!ChannelType
      BY <2>3 DEF Proper, Functor, UserOps, TypeOK
    <2>5. UNCHANGED <<alive, listen_, connections_, setup, accept_, accepting, fd, loop, born,
                      establish_, begun, late, abandoned>>
      BY <1>10 DEF CloseRuns, serverVars, acceptorVars, madeVars, userVars
    <2>6. QED
      BY <2>1, <2>2, <2>4, <2>5, OnCloseSafe
  \* What takes a functor and touches no connection's state.
  <1>11. ASSUME NEW l \in Loops, NEW op \in {"listen", "closeAcceptor", "send"}, NEW c,
                Takes(l, op, c), queue' = Rest(l),
                UNCHANGED <<alive, listen_, connections_, setup, accept_, accepting, fd, loop, born,
                            establish_, close_, channel_, begun, late, abandoned, dangling>>
         PROVE  Safe(queue)'
    <2>1. Safe(Rest(l))
      BY <1>11, RestSafe
    <2>2. accept_' => alive /\ listen_'
      BY <1>11 DEF Safe, Outlived
    <2>3. QED
      BY <1>11, <2>1, <2>2, SameState
  <1>12. CASE ListenInLoop
    BY <1>0, <1>11, <1>12 DEF ListenInLoop, serverVars, madeVars, stateVars, userVars, historyVars
  <1>13. CASE CloseInLoop
    BY <1>0, <1>11, <1>13 DEF CloseInLoop, serverVars, madeVars, stateVars, userVars, historyVars
  <1>14. ASSUME NEW l \in Loops, NEW c \in Connections, SendInLoop(l, c) PROVE Safe(queue)'
    BY <1>11, <1>14 DEF SendInLoop, serverVars, acceptorVars, madeVars, stateVars, userVars, historyVars
  \* What queues and takes none.
  <1>15. ASSUME UNCHANGED <<alive, listen_, connections_, setup, accept_, fd, loop, born, queue,
                            establish_, close_, channel_, begun, late, abandoned, dangling>>,
                accepting' => accepting \/ accept_
         PROVE  Safe(queue)'
    <2>1. accept_ => alive /\ listen_
      BY DEF Safe, Outlived
    <2>2. (accept_' => alive /\ listen_') /\ (accepting' => accepting \/ alive)
      BY <1>15, <2>1
    <2>3. PICK q : q = queue
      OBVIOUS
    <2>4. Safe(q) /\ queue' = q
      BY <1>15, <2>3
    <2>5. QED
      BY <1>15, <2>2, <2>4, SameState
  <1>16. CASE Arrive
    BY <1>15, <1>16 DEF Arrive, serverVars, acceptorVars, madeVars, stateVars, userVars, historyVars
  <1>17. ASSUME NEW c \in Connections, PeerCloses(c) PROVE Safe(queue)'
    BY <1>15, <1>17 DEF PeerCloses, serverVars, acceptorVars, madeVars, stateVars, userVars, historyVars
  <1>18. ASSUME NEW c \in Connections, Drop(c) PROVE Safe(queue)'
    BY <1>15, <1>18 DEF Drop, serverVars, acceptorVars, madeVars, stateVars, historyVars
  <1>19. ASSUME NEW c \in Connections, NEW op \in UserOps, Call(op, c) PROVE Safe(queue)'
    BY <1>15, <1>19 DEF Call, serverVars, acceptorVars, madeVars, stateVars, historyVars
  <1>20. CASE ReportListen
    BY <1>15, <1>20 DEF ReportListen, serverVars, madeVars, stateVars, userVars, historyVars
  <1>21. CASE OnRead
    BY <1>15, <1>21 DEF OnRead, serverVars, madeVars, stateVars, userVars, historyVars
  <1>22. CASE AcceptNone
    BY <1>15, <1>22 DEF AcceptNone, serverVars, madeVars, stateVars, userVars, historyVars
  <1>23. CASE AcceptFull
    BY <1>15, <1>23 DEF AcceptFull, serverVars, acceptorVars, madeVars, stateVars, userVars, historyVars
  <1>24. CASE AcceptFails
    BY <1>15, <1>24 DEF AcceptFails, serverVars, madeVars, stateVars, userVars
  <1>25. CASE UNCHANGED vars
    BY <1>15, <1>25 DEF vars, serverVars, acceptorVars, madeVars, stateVars, userVars, historyVars
  <1>26. QED
    BY <1>1, <1>2, <1>3, <1>4, <1>5, <1>6, <1>7, <1>8, <1>9, <1>10, <1>12, <1>13, <1>14, <1>16,
       <1>17, <1>18, <1>19, <1>20, <1>21, <1>22, <1>23, <1>24, <1>25 DEF Next, LoopStep, AcceptStep, UserOps

\* A server begins with the invariant.
LEMMA InitInvariant == Init => IInv
  <1> SUFFICES ASSUME Init PROVE IInv
    OBVIOUS
  <1>1. /\ MaxConnections \in Nat /\ 0 \in Loops /\ Loops = 0..PoolCount /\ Connections = 1..MaxConnections
    BY TcpServerAssumption DEF Loops, Connections
  <1>2. Made = {}
    BY DEF Init, Made
  <1>3. \A f \in Fds : f \in Nat
    BY TcpServerAssumption DEF Init, Fds
  <1>4. TypeOK
    <2>1. [c \in Connections |-> NewChannel] \in [Connections -> C!ChannelType]
      BY NewChannelQuiet
    <2>2. 0 \in 0..MaxConnections /\ "none" \in UserOps \cup {"none"}
      BY <1>1
    <2>3. /\ connections_ \in [Fds -> 0..MaxConnections]
          /\ fd \in [Connections -> Nat] /\ loop \in [Connections -> Loops]
          /\ establish_ \in [Connections -> BOOLEAN] /\ close_ \in [Connections -> BOOLEAN]
          /\ begun \in [Connections -> UserOps \cup {"none"}]
      BY <1>1, <2>2 DEF Init
    <2>4. channel_ \in [Connections -> C!ChannelType]
      BY <2>1 DEF Init
    <2>5. /\ arrived \in 0..MaxConnections /\ backlog \in Nat /\ born \in Nat /\ indexLoop_ \in Nat
          /\ born + backlog <= arrived
      BY <2>2 DEF Init
    <2>6. /\ alive \in BOOLEAN /\ listen_ \in BOOLEAN /\ accept_ \in BOOLEAN
          /\ accepting \in BOOLEAN /\ dangling \in BOOLEAN
          /\ setup \in Setups /\ held \subseteq Made /\ call = NoCall
      BY DEF Init
    <2>7. QED
      BY <2>3, <2>4, <2>5, <2>6 DEF TypeOK
  <1>5. Unmade
    BY NewChannelQuiet DEF Init, Unmade
  <1>6. UnderItsDescriptor
    BY <1>2 DEF Init, UnderItsDescriptor
  <1>7. InTheirLoops(queue)
    <2>1. \A l \in Loops : queue[l] = <<>>
      BY DEF Init
    <2>2. queue \in [Loops -> Seq(Functors)]
      BY DEF Init
    <2>3. QED
      BY <2>1, <2>2 DEF InTheirLoops
  <1>8. HeldUntilRemoved(queue) /\ EstablishWaits(queue) /\ ClosedThenDestroyed(queue)
    BY <1>2 DEF HeldUntilRemoved, EstablishWaits, ClosedThenDestroyed
  <1>9. Outlived(queue)
    BY DEF Init, Outlived
  <1>10. QED
    BY <1>4, <1>5, <1>6, <1>7, <1>8, <1>9 DEF IInv, Safe

\* The invariant is kept.
LEMMA NextInvariant == IInv /\ [Next]_vars => IInv'
  BY TypeStep, SafeStep DEF IInv

\* The invariant holds of every state.
LEMMA Invariant == Spec => []IInv
  BY InitInvariant, NextInvariant, PTL DEF Spec

-----------------------------------------------------------------------------
(* The properties.                                                         *)

\* The functors of a connection, counted as module TcpServer does.
LEMMA QueuedIs ==
    ASSUME NEW op, NEW c
    PROVE  Queued(op, c) = Times(queue[0], Functor(op, c))
                + IF loop[c] = 0 THEN 0 ELSE Times(queue[loop[c]], Functor(op, c))
  BY DEF Queued, Times, Places

\* The server removes a connection by the one removeConnection that its one
\* onClose queues, so the assertion of TcpServer::removeConnection holds.
THEOREM ConnectionsRemovedOnce == Spec => []RemovedOnce
  <1>1. ASSUME IInv PROVE RemovedOnce
    <2>1. SUFFICES ASSUME alive, NEW c \in Made
                   PROVE  /\ Queued("remove", c) <= 1
                          /\ connections_[fd[c]] = c <=> (~close_[c] \/ Queued("remove", c) = 1)
      BY DEF RemovedOnce
    <2>2. /\ 0 \in Loops /\ loop[c] \in Loops
          /\ queue \in [Loops -> Seq(Functors)]
      BY <1>1, TypeIs, MadeConnections DEF IInv, Safe, InTheirLoops
    <2>3. loop[c] # 0 => Times(queue[loop[c]], Functor("remove", c)) = 0
      <3>1. SUFFICES ASSUME loop[c] # 0 PROVE Times(queue[loop[c]], Functor("remove", c)) = 0
        OBVIOUS
      <3>2. \A i \in 1..Len(queue[loop[c]]) : queue[loop[c]][i] # Functor("remove", c)
        BY <1>1, <2>2, <3>1 DEF IInv, Safe, InTheirLoops, Proper, Functor
      <3>3. QED
        BY <2>2, <3>2, TimesCounts
    <2>4. Removals(queue, c) \in Nat
      BY <2>2, TimesCounts DEF Removals
    <2>5. Queued("remove", c) = Removals(queue, c)
      BY <2>3, <2>4, QueuedIs DEF Removals
    <2>6. QED
      BY <1>1, <2>1, <2>5 DEF IInv, Safe, HeldUntilRemoved
  <1>2. QED
    BY <1>1, Invariant, PTL

\* A connection that its user establishes first has its pointers when it is
\* sent to and when it is destroyed, and what is freed has no functor with a
\* raw pointer to it and no channel left with the poller.
THEOREM FreedNeverReached == Spec => []FreedUnreachable
  <1>1. ASSUME IInv, NEW c \in Freed
        PROVE  /\ c \in Made /\ loop[c] \in Loops /\ 0 \in Loops
               /\ queue \in [Loops -> Seq(Functors)]
               /\ alive => connections_[fd[c]] # c
               /\ \A l \in {0, loop[c]} : \A i \in 1..Len(queue[l]) : \A op \in Ops \ {"send"} :
                    queue[l][i] # Functor(op, c)
    <2>1. c \in Made /\ ~Held(c)
      BY <1>1 DEF Freed
    <2>2. loop[c] \in Loops /\ 0 \in Loops
      BY <1>1, <2>1, TypeIs, MadeConnections DEF IInv
    <2>3. \A op : Functor(op, c).op = op /\ Functor(op, c).conn = c
      BY DEF Functor
    <2>4. QED
      BY <1>1, <2>1, <2>2, <2>3 DEF Held, IInv, Safe, InTheirLoops
  <1>2. ASSUME IInv PROVE EstablishedBeforeUse
    <2>1. SUFFICES ASSUME NEW c \in Made, begun[c] = "establish", ~establish_[c]
                   PROVE  c \notin Freed /\ ~Takes(loop[c], "send", c)
      BY DEF EstablishedBeforeUse
    <2>2. Ready(queue[loop[c]], c)
      BY <1>2, <2>1 DEF IInv, Safe, EstablishWaits
    <2>3. c \notin Freed
      BY <1>1, <1>2, <2>2 DEF Ready, Ops, UserOps
    <2>4. ~Takes(loop[c], "send", c)
      <3>1. loop[c] \in Loops /\ c \in Connections
        BY <1>2, TypeIs, MadeConnections DEF IInv
      <3>2. QED
        BY <1>2, <2>2, <3>1, Taken DEF IInv, Safe
    <2>5. QED
      BY <2>3, <2>4
  <1>3. ASSUME IInv, NEW c \in Freed, c \notin late \cup abandoned
        PROVE  ~(Queued("send", c) > 0) /\ ~channel_[c].started /\ ~channel_[c].actived
    <2>1. /\ c \in Made /\ loop[c] \in Loops /\ 0 \in Loops
          /\ queue \in [Loops -> Seq(Functors)]
          /\ alive => connections_[fd[c]] # c
          /\ \A l \in {0, loop[c]} : \A i \in 1..Len(queue[l]) : \A op \in Ops \ {"send"} :
               queue[l][i] # Functor(op, c)
      BY <1>1, <1>3
    <2>2. close_[c]
      BY <1>3, <2>1 DEF IInv, Safe, HeldUntilRemoved, Outlived
    <2>3. Removals(queue, c) = 0
      BY <2>1, TimesCounts DEF Removals, Ops
    <2>4. ~Settled(queue[loop[c]], c)
      BY <2>1 DEF Settled, Ops
    <2>5. Gone(queue, c)
      BY <1>3, <2>1, <2>2, <2>3, <2>4 DEF IInv, Safe, ClosedThenDestroyed
    <2>6. Times(queue[loop[c]], Functor("send", c)) = 0
      <3>1. \A i \in 1..Len(queue[loop[c]]) : queue[loop[c]][i] # Functor("send", c)
        BY <2>5 DEF Gone, Quiet, Uses
      <3>2. QED
        BY <2>1, <3>1, TimesCounts
    <2>7. loop[c] # 0 => Times(queue[0], Functor("send", c)) = 0
      <3>1. SUFFICES ASSUME loop[c] # 0 PROVE Times(queue[0], Functor("send", c)) = 0
        OBVIOUS
      <3>2. \A i \in 1..Len(queue[0]) : queue[0][i] # Functor("send", c)
        BY <1>3, <2>1, <3>1 DEF IInv, Safe, InTheirLoops, Proper, Functor, UserOps
      <3>3. QED
        BY <2>1, <3>2, TimesCounts
    <2>8. Queued("send", c) = 0
      BY <2>6, <2>7, QueuedIs
    <2>9. QED
      BY <2>5, <2>8 DEF Gone
  <1>4. IInv => FreedUnreachable
    BY <1>2, <1>3 DEF FreedUnreachable
  <1>5. QED
    BY <1>4, Invariant, PTL

\* A server that is destroyed when it holds no connection is not called again.
THEOREM DestroyedUncalled == Spec => []EmptyServerUncalled
  <1>1. IInv => EmptyServerUncalled
    BY DEF IInv, Safe, Outlived, EmptyServerUncalled, TypeOK
  <1>2. QED
    BY <1>1, Invariant, PTL

=============================================================================
