--------------------------- MODULE EventLoopProofs ---------------------------
(***************************************************************************)
(* What TLAPS proves of EventLoop, for every set of client threads and     *)
(* every number of functors: the type invariant, that the loop never       *)
(* sleeps on work, that functors run exactly once and in order, and that   *)
(* the loop implements Executor.  And of the pool of such loops: loops     *)
(* outlive their threads, and quit leaves no functor to a sleeping one.    *)
(***************************************************************************)
EXTENDS EventLoop, QueueLemmas

\* An open channel listening for reads, the flags an edge changes given.
Reader(ch, actived, rread, readable) ==
    /\ ch \in C!ChannelType
    /\ ch.read = TRUE /\ ch.started = TRUE
    /\ ch.write = FALSE /\ ch.rclose = FALSE /\ ch.rerror = FALSE
    /\ ch.rwrite = FALSE /\ ch.closed = FALSE /\ ch.writeable = FALSE
    /\ ch.actived = actived /\ ch.rread = rread /\ ch.readable = readable

LEMMA ReaderUnique ==
    ASSUME NEW x, NEW y, NEW a, NEW r, NEW d, Reader(x, a, r, d), Reader(y, a, r, d)
    PROVE  x = y
  BY DEF Reader, C!ChannelType

LEMMA IdleFields == Reader(IdleChannel, FALSE, FALSE, FALSE)
  BY DEF Reader, IdleChannel, C!Open, C!EnableRead, C!New, C!ChannelType

LEMMA WokenFields == Reader(WokenChannel, TRUE, TRUE, TRUE)
  BY IdleFields DEF Reader, WokenChannel, C!OnRead, C!AddActived, C!ChannelType

\* What epoll's report and handleEvents do to the two states of the channel.
LEMMA WakeupChannelStates ==
    /\ P!Dispatch(IdleChannel, {"in"}) = WokenChannel
    /\ WokenChannel.actived = TRUE /\ WokenChannel.rread = TRUE
    /\ IdleChannel.actived = FALSE
    /\ AfterWakeup(WokenChannel) = IdleChannel
  <1>1. P!Dispatch(IdleChannel, {"in"}) = P!OnRead(IdleChannel)
    BY DEF P!Dispatch
  <1>2. P!OnRead(IdleChannel) = WokenChannel
    BY DEF P!OnRead, P!AddActived, C!OnRead, C!AddActived, WokenChannel
  <1>3. AfterWakeup(WokenChannel) = IdleChannel
    <2>1. Reader(C!HandleStart(WokenChannel), FALSE, TRUE, TRUE)
      BY WokenFields DEF Reader, C!HandleStart, C!ChannelType
    <2>2. Reader(C!ClearRead(C!HandleStart(WokenChannel)), FALSE, FALSE, TRUE)
      BY <2>1 DEF Reader, C!ClearRead, C!ChannelType
    <2>3. Reader(AfterWakeup(WokenChannel), FALSE, FALSE, FALSE)
      BY <2>2 DEF Reader, AfterWakeup, C!DisableReadable, C!ChannelType
    <2>4. QED
      BY <2>3, IdleFields, ReaderUnique
  <1>4. QED
    BY <1>1, <1>2, <1>3, IdleFields, WokenFields DEF Reader
-----------------------------------------------------------------------------
(* Types and the two states of the wakeup channel.                         *)

LEMMA TypeOKInit == Init => TypeOK
  <1> SUFFICES ASSUME Init PROVE TypeOK
    OBVIOUS
  <1>1. wakeupChannel_ = IdleChannel /\ wakeupChannel_ # WokenChannel
    BY WakeupChannelStates DEF Init, IdleChannel
  <1>2. <<>> \in Seq(Nat) /\ 0 \in 0..MaxFunctors
    BY ConstantsAssumption
  <1>3. stage \in Stages /\ reg \in P!Registrations
    BY DEF Init, Stages, P!Registrations
  <1>4. QED
    BY <1>1, <1>2, <1>3 DEF Init, TypeOK

LEMMA TypeOKStep == TypeOK /\ [Next]_vars => TypeOK'
  <1> USE DEF TypeOK, Stages
  <1> SUFFICES ASSUME TypeOK, [Next]_vars PROVE TypeOK'
    OBVIOUS
  <1>1. ASSUME NEW t \in Threads, RunInLoop(t) PROVE TypeOK'
    BY <1>1, ConstantsAssumption DEF RunInLoop
  <1>2. ASSUME NEW t \in Threads, Quit(t) PROVE TypeOK'
    BY <1>2 DEF Quit
  <1>3. ASSUME NEW t \in Threads, Wakeup(t) PROVE TypeOK'
    BY <1>3 DEF Wakeup, P!Armed
  <1>4. CASE PollOther
    BY <1>4 DEF PollOther, At, P!Registrations, P!AfterReport
  <1>5. CASE EnterLoop
    BY <1>5 DEF EnterLoop, At
  <1>6. CASE CheckQuit
    BY <1>6 DEF CheckQuit, At
  <1>7. CASE PollWakeup
    <2>1. wakeupChannel_ = IdleChannel
      BY <1>7 DEF PollWakeup, At
    <2>2. wakeupChannel_' = WokenChannel
      BY <1>7, <2>1, WakeupChannelStates DEF PollWakeup
    <2>3. reg' \in P!Registrations
      BY <1>7 DEF PollWakeup, P!Registrations, P!AfterReport
    <2>4. QED
      BY <1>7, <2>2, <2>3 DEF PollWakeup, At
  <1>8. CASE HandleActivedChannels
    <2>1. wakeupChannel_' = IdleChannel /\ eventFd' \in BOOLEAN
      BY <1>8, WakeupChannelStates DEF HandleActivedChannels
    <2>2. IdleChannel # WokenChannel
      BY WakeupChannelStates
    <2>3. QED
      BY <1>8, <2>1, <2>2 DEF HandleActivedChannels, At
  <1>9. CASE SwapFunctors
    BY <1>9 DEF SwapFunctors, At
  <1>10. CASE RunFunctor
    <2>1. Head(functors) \in Nat /\ Tail(functors) \in Seq(Nat)
      BY <1>10, HeadTailProperties DEF RunFunctor
    <2>2. QED
      BY <1>10, <2>1 DEF RunFunctor, At
  <1>11. CASE EndBatch
    BY <1>11 DEF EndBatch, At
  <1>12. CASE UNCHANGED vars
    BY <1>12 DEF vars
  <1>13. QED
    BY <1>1, <1>2, <1>3, <1>4, <1>5, <1>6, <1>7, <1>8, <1>9, <1>10, <1>11, <1>12
    DEF Next, LoopStep

\* Every state of the loop is well typed, and the wakeup channel is at rest
\* except between epoll's report and handleEvents (Channel.cpp:59-92,
\* EventLoop.cpp:106-110).
THEOREM TypeCorrect == Spec => []TypeOK
  BY TypeOKInit, TypeOKStep, PTL DEF Spec
-----------------------------------------------------------------------------
(* No work is left behind while the loop sleeps.                           *)

Announced == QueuedIsAnnounced /\ QuitIsAnnounced

LEMMA AnnouncedInit == Init => Announced
  BY DEF Init, Announced, QueuedIsAnnounced, QuitIsAnnounced

LEMMA AnnouncedStep == TypeOK /\ Announced /\ [Next]_vars => Announced'
  <1> USE DEF Announced, QueuedIsAnnounced, QuitIsAnnounced, WakeupComing
  <1> SUFFICES ASSUME TypeOK, Announced, [Next]_vars PROVE Announced'
    OBVIOUS
  <1>1. ASSUME NEW t \in Threads, RunInLoop(t) PROVE Announced'
    BY <1>1 DEF RunInLoop
  <1>2. ASSUME NEW t \in Threads, Quit(t) PROVE Announced'
    BY <1>2 DEF Quit
  <1>3. ASSUME NEW t \in Threads, Wakeup(t) PROVE Announced'
    BY <1>3 DEF Wakeup, P!Armed
  <1>4. CASE PollOther
    BY <1>4 DEF PollOther, At
  <1>5. CASE EnterLoop
    BY <1>5 DEF EnterLoop, At
  <1>6. CASE CheckQuit
    BY <1>6 DEF CheckQuit, At
  <1>7. CASE PollWakeup
    BY <1>7 DEF PollWakeup, At
  <1>8. CASE HandleActivedChannels
    BY <1>8 DEF HandleActivedChannels, At
  <1>9. CASE SwapFunctors
    BY <1>9 DEF SwapFunctors, At
  <1>10. CASE RunFunctor
    BY <1>10 DEF RunFunctor, At
  <1>11. CASE EndBatch
    BY <1>11 DEF EndBatch, At
  <1>12. CASE UNCHANGED vars
    BY <1>12 DEF vars
  <1>13. QED
    BY <1>1, <1>2, <1>3, <1>4, <1>5, <1>6, <1>7, <1>8, <1>9, <1>10, <1>11, <1>12
    DEF Next, LoopStep

\* Asleep in poll with work to do, the loop is about to be woken: what a
\* runInLoop or a quit leaves between its store and its write is never lost
\* to handleWakeup's read or to doPendingFunctors (EventLoop.cpp:44-65, 83-110).
THEOREM NeverSleepsOnWork == Spec => []NoLostWakeup
  <1>1. TypeOK /\ Announced => NoLostWakeup
    BY DEF NoLostWakeup, Announced, QueuedIsAnnounced, QuitIsAnnounced
  <1>2. QED
    BY <1>1, TypeOKInit, TypeOKStep, AnnouncedInit, AnnouncedStep, PTL DEF Spec
-----------------------------------------------------------------------------
(* Exactly once, in order.                                                 *)

LEMMA OrderInit == Init => ExactlyOnceInOrder
  BY DEF Init, ExactlyOnceInOrder

LEMMA OrderStep == TypeOK /\ ExactlyOnceInOrder /\ [Next]_vars => ExactlyOnceInOrder'
  <1> SUFFICES ASSUME TypeOK, ExactlyOnceInOrder, [Next]_vars PROVE ExactlyOnceInOrder'
    OBVIOUS
  <1> DEFINE taken == ran \o functors
  <1>a. ran \in Seq(Nat) /\ functors \in Seq(Nat) /\ pendingFunctors_ \in Seq(Nat)
    BY DEF TypeOK
  <1>b. taken \in Seq(Nat)
    BY <1>a, ConcatProperties
  <1>c. submitted \in Nat /\ taken \o pendingFunctors_ = [i \in 1..submitted |-> i]
    BY ConstantsAssumption DEF TypeOK, ExactlyOnceInOrder
  <1>1. ASSUME NEW t \in Threads, RunInLoop(t) PROVE ExactlyOnceInOrder'
    <2> DEFINE n == submitted + 1
    <2>1. /\ pendingFunctors_' = Append(pendingFunctors_, n) /\ submitted' = n
          /\ ran' = ran /\ functors' = functors
      BY <1>1 DEF RunInLoop
    <2>2. n \in Nat
      BY <1>c
    <2> HIDE DEF taken, n
    <2>3. taken \o Append(pendingFunctors_, n) = Append(taken \o pendingFunctors_, n)
      BY <1>a, <1>b, <2>2, ConcatAppend
    <2>4. taken \o Append(pendingFunctors_, n) = [i \in 1..n |-> i]
      BY <1>c, <2>3, AppendNumber DEF n
    <2>5. QED
      BY <2>1, <2>4 DEF ExactlyOnceInOrder, taken
  <1>2. CASE SwapFunctors
    <2>1. functors = <<>>
      BY <1>2 DEF SwapFunctors, At, TypeOK
    <2>2. taken = ran /\ (ran \o pendingFunctors_) \o <<>> = ran \o pendingFunctors_
      BY <1>a, <2>1, ConcatProperties, ConcatEmptySeq
    <2>3. QED
      BY <1>a, <1>c, <1>2, <2>2 DEF SwapFunctors, ExactlyOnceInOrder
  <1>3. CASE RunFunctor
    <2>1. functors # <<>>
      BY <1>3 DEF RunFunctor
    <2>2. Append(ran, Head(functors)) \o Tail(functors) = ran \o functors
      BY <1>a, <2>1, MoveHead
    <2>3. QED
      BY <1>a, <1>c, <1>3, <2>2 DEF RunFunctor, ExactlyOnceInOrder
  <1>4. ASSUME UNCHANGED <<ran, functors, pendingFunctors_, submitted>>
        PROVE  ExactlyOnceInOrder'
    BY <1>4 DEF ExactlyOnceInOrder
  <1>5. ASSUME NEW t \in Threads, Quit(t) \/ Wakeup(t) PROVE ExactlyOnceInOrder'
    BY <1>4, <1>5 DEF Quit, Wakeup
  <1>6. CASE PollOther \/ EnterLoop \/ CheckQuit \/ PollWakeup \/ HandleActivedChannels
    BY <1>4, <1>6 DEF PollOther, EnterLoop, CheckQuit, PollWakeup, HandleActivedChannels
  <1>7. CASE EndBatch \/ UNCHANGED vars
    BY <1>4, <1>7 DEF EndBatch, vars
  <1>8. QED
    BY <1>1, <1>2, <1>3, <1>5, <1>6, <1>7 DEF Next, LoopStep

\* Every queued functor has run, waits in the batch or waits in the queue,
\* exactly once and in the order of the runInLoop calls (EventLoop.cpp:59-65,
\* 83-92), whatever the interleaving of callers, wakeups and the loop.
THEOREM RunExactlyOnceInOrder == Spec => []ExactlyOnceInOrder
  BY TypeOKInit, TypeOKStep, OrderInit, OrderStep, PTL DEF Spec
-----------------------------------------------------------------------------
(* The loop implements Executor.                                           *)

\* The head of two queues in a row, and what is left, while the first has one.
LEMMA HeadOfFirst ==
    ASSUME NEW S, NEW s \in Seq(S), NEW t \in Seq(S), s # <<>>
    PROVE  /\ s \o t # <<>>
           /\ Head(s \o t) = Head(s)
           /\ Tail(s \o t) = Tail(s) \o t
  OBVIOUS

LEMMA ExecutorInit == Init => E!Init
  <1> SUFFICES ASSUME Init PROVE E!Init
    OBVIOUS
  <1>1. functors \o pendingFunctors_ = <<>>
    BY DEF Init
  <1>2. QED
    BY <1>1 DEF Init, E!Init

LEMMA ExecutorStep == TypeOK /\ [Next]_vars => [E!Next]_E!vars
  <1> SUFFICES ASSUME TypeOK, [Next]_vars PROVE [E!Next]_E!vars
    OBVIOUS
  <1>a. ran \in Seq(Nat) /\ functors \in Seq(Nat) /\ pendingFunctors_ \in Seq(Nat)
    BY DEF TypeOK
  <1>b. submitted \in Nat
    BY ConstantsAssumption DEF TypeOK
  <1>1. ASSUME NEW t \in Threads, RunInLoop(t) PROVE E!Submit
    <2>1. functors \o Append(pendingFunctors_, submitted + 1)
              = Append(functors \o pendingFunctors_, submitted + 1)
      BY <1>a, <1>b, ConcatAppend
    <2>2. QED
      BY <1>1, <2>1 DEF RunInLoop, E!Submit
  <1>2. CASE SwapFunctors
    <2>1. functors = <<>> /\ stage # "left" /\ stage' # "left"
      BY <1>2 DEF SwapFunctors, At, TypeOK
    <2>2. functors' \o pendingFunctors_' = functors \o pendingFunctors_
      BY <1>a, <1>2, <2>1 DEF SwapFunctors
    <2>3. QED
      BY <1>2, <2>1, <2>2 DEF SwapFunctors, E!vars
  <1>3. CASE RunFunctor
    <2>1. functors # <<>> /\ stage # "left" /\ stage' = stage
      BY <1>3 DEF RunFunctor, At
    <2>2. /\ functors \o pendingFunctors_ # <<>>
          /\ Head(functors \o pendingFunctors_) = Head(functors)
          /\ Tail(functors \o pendingFunctors_) = Tail(functors) \o pendingFunctors_
      BY <1>a, <2>1, HeadOfFirst
    <2>3. E!Run
      BY <1>3, <2>1, <2>2 DEF RunFunctor, E!Run
    <2>4. QED
      BY <2>3 DEF E!Next
  <1>4. CASE CheckQuit
    <2>1. UNCHANGED <<submitted, functors, pendingFunctors_, ran>> /\ stage # "left"
      BY <1>4 DEF CheckQuit, At
    <2>2. CASE stage' = "left"
      BY <2>1, <2>2 DEF E!Stop, E!Next
    <2>3. CASE stage' # "left"
      BY <2>1, <2>3 DEF E!vars
    <2>4. QED
      BY <2>2, <2>3
  <1>5. ASSUME UNCHANGED <<submitted, functors, pendingFunctors_, ran>>,
               (stage' = "left") = (stage = "left")
        PROVE  UNCHANGED E!vars
    BY <1>5 DEF E!vars
  <1>6. ASSUME NEW t \in Threads, Quit(t) \/ Wakeup(t) PROVE UNCHANGED E!vars
    BY <1>5, <1>6 DEF Quit, Wakeup
  <1>7. CASE PollOther \/ EnterLoop \/ PollWakeup \/ HandleActivedChannels \/ EndBatch
    BY <1>5, <1>7 DEF PollOther, EnterLoop, PollWakeup, HandleActivedChannels, EndBatch, At
  <1>8. CASE UNCHANGED vars
    BY <1>5, <1>8 DEF vars
  <1>9. QED
    BY <1>1, <1>2, <1>3, <1>4, <1>6, <1>7, <1>8 DEF Next, LoopStep, E!Next

\* The loop is an executor, for any number of threads and functors: every step
\* of the threads, of epoll and of doPendingFunctors is a submission, the run
\* of the functor submitted first of those that wait, the end of the loop, or
\* nothing the callers of runInLoop can tell (EventLoop.cpp:44-65, 83-92).
THEOREM LoopImplementsExecutor == Spec => ImplementsExecutor
  BY TypeOKInit, TypeOKStep, ExecutorInit, ExecutorStep, PTL
  DEF Spec, ImplementsExecutor, E!Spec

-----------------------------------------------------------------------------
(* A pool of loops, of any size.                                           *)

CONSTANTS count_, MaxPosts

VARIABLES phase, next, stages, quits, awake, pending, batches, freed, posts, raced

Pool == INSTANCE EventLoopThreadPool WITH
            stage <- stages, quit_ <- quits, functors <- batches

\* All that is asked of the constants.
PoolAssumption == count_ \in Nat

Ended(l) == stages[l] \in {"none", "left"}

PoolTypeOK ==
    /\ phase \in Pool!Phases
    /\ next \in Nat
    /\ stages \in [Pool!Loops -> Pool!Stages]
    /\ pending \in [Pool!Loops -> Seq(Pool!Stages)]

\* The join loop has seen the end of every thread before next; past it every
\* thread has ended, and only then is a loop deleted.
JoinedSoFar ==
    /\ phase = "joining" => \A l \in Pool!Loops : l < next => Ended(l)
    /\ phase \in {"deleting", "gone"} => \A l \in Pool!Loops : Ended(l)
    /\ freed # {} => phase \in {"deleting", "gone"}

\* The start loop has yet to give the loops from next on their threads.
UnstartedSoFar ==
    /\ phase = "made" => \A l \in Pool!Loops : stages[l] = "none"
    /\ phase = "starting" => \A l \in Pool!Loops : l >= next => stages[l] = "none"

\* What was queued while a loop slept stays queued until the batch is taken.
AsleepMarks ==
    \A l \in Pool!Loops : stages[l] \notin {"poll", "swap"} =>
        \A i \in 1..Len(pending[l]) : pending[l][i] \notin {"poll", "swap"}

PoolInv == PoolTypeOK /\ JoinedSoFar /\ UnstartedSoFar /\ AsleepMarks

\* The invariant holds of a pool that was just made (EventLoopThreadPool.cpp:8-14).
LEMMA InitPoolInv ==
  ASSUME PoolAssumption, Pool!Init
  PROVE  PoolInv
  BY DEF PoolAssumption, Pool!Init, PoolInv, PoolTypeOK, JoinedSoFar, UnstartedSoFar, AsleepMarks, Ended, Pool!Phases, Pool!Stages, Pool!Loops

\* A step of a thread that has not ended leaves the ended ones as they are.
LEMMA MovesKeepsEnded ==
  ASSUME stages \in [Pool!Loops -> Pool!Stages], NEW l \in Pool!Loops, NEW from, NEW to \in Pool!Stages,
         Pool!Moves(l, from, to), from \notin {"none", "left"}
  PROVE  /\ stages' \in [Pool!Loops -> Pool!Stages]
         /\ \A k \in Pool!Loops : Ended(k) => stages'[k] = stages[k] /\ Ended(k)'
         /\ \A k \in Pool!Loops : k # l => stages'[k] = stages[k]
         /\ stages'[l] = to
  BY DEF Pool!Moves, Ended

\* The owner's own steps: starting, quitting, joining and deleting
\* (EventLoopThreadPool.cpp:16-37).
LEMMA OwnerKeepsPoolInv ==
  ASSUME PoolAssumption, PoolInv,
         Pool!BeginStart \/ Pool!StartReturns \/ Pool!BeginDestroy \/ Pool!Destructor \/ \E l \in Pool!Loops : Pool!StartThread(l)
  PROVE  PoolInv'
<1> USE DEF PoolAssumption, PoolInv, PoolTypeOK, JoinedSoFar, UnstartedSoFar, AsleepMarks, Pool!Phases, Pool!threadVars, Pool!Loops
<1>1. CASE Pool!BeginStart
  BY <1>1 DEF Pool!BeginStart, Pool!Begin, Ended
<1>2. CASE Pool!StartReturns
  BY <1>2 DEF Pool!StartReturns, Pool!AllDone, Pool!Begin, Ended
<1>3. CASE Pool!BeginDestroy
  BY <1>3 DEF Pool!BeginDestroy, Pool!Begin, Ended
<1>4. CASE Pool!AllQuit
  BY <1>4 DEF Pool!AllQuit, Pool!AllDone, Pool!Begin, Ended
<1>5. CASE Pool!AllJoined
  BY <1>5 DEF Pool!AllJoined, Pool!AllDone, Pool!Begin, Ended
<1>6. CASE Pool!DestructorReturns
  BY <1>6 DEF Pool!DestructorReturns, Pool!AllDone, Pool!Begin, Ended
<1>7. ASSUME NEW l \in Pool!Loops, Pool!StartThread(l) PROVE PoolInv'
  BY <1>7 DEF Pool!StartThread, Pool!Each, Pool!Stages
<1>8. ASSUME NEW l \in Pool!Loops, Pool!QuitLoop(l) PROVE PoolInv'
  BY <1>8 DEF Pool!QuitLoop, Pool!Each
<1>9. ASSUME NEW l \in Pool!Loops, Pool!Join(l) PROVE PoolInv'
  BY <1>9 DEF Pool!Join, Pool!Each, Ended
<1>10. ASSUME NEW l \in Pool!Loops, Pool!DeleteLoop(l) PROVE PoolInv'
  BY <1>10 DEF Pool!DeleteLoop, Pool!Each, Ended
<1> QED
  BY <1>1, <1>2, <1>3, <1>4, <1>5, <1>6, <1>7, <1>8, <1>9, <1>10 DEF Pool!Destructor

\* runInLoop marks the functor with where it finds the loop (EventLoop.cpp:59-65).
LEMMA RunInLoopKeepsPoolInv ==
  ASSUME PoolInv, NEW l \in Pool!Loops, Pool!RunInLoop(l)
  PROVE  PoolInv'
<1>1. PoolTypeOK' /\ JoinedSoFar' /\ UnstartedSoFar'
  BY DEF PoolInv, PoolTypeOK, JoinedSoFar, UnstartedSoFar, Ended, Pool!RunInLoop, Pool!ownerVars
<1>2. AsleepMarks'
  <2> SUFFICES ASSUME NEW k \in Pool!Loops, stages[k] \notin {"poll", "swap"},
                      NEW i \in 1..Len(pending'[k])
               PROVE  pending'[k][i] \notin {"poll", "swap"}
    BY DEF AsleepMarks, Pool!RunInLoop
  <2>1. CASE k = l
    <3>1. /\ pending[l] \in Seq(Pool!Stages) /\ stages[l] \in Pool!Stages
          /\ pending'[l] = Append(pending[l], stages[l])
      BY DEF PoolInv, PoolTypeOK, Pool!RunInLoop
    <3>2. \A j \in 1..Len(pending[l]) : pending[l][j] \notin {"poll", "swap"}
      BY <2>1 DEF PoolInv, AsleepMarks
    <3> QED
      BY <2>1, <3>1, <3>2
  <2>2. CASE k # l
    BY <2>2 DEF PoolInv, PoolTypeOK, AsleepMarks, Pool!RunInLoop
  <2> QED
    BY <2>1, <2>2
<1> QED
  BY <1>1, <1>2 DEF PoolInv

\* Every step of EventLoop::loop (EventLoop.cpp:50-57, 83-92).
LEMMA LoopKeepsPoolInv ==
  ASSUME PoolInv, NEW l \in Pool!Loops, Pool!LoopStep(l) \/ Pool!PollOther(l)
  PROVE  PoolInv'
<1> DEFINE Moved(from, to) ==
      /\ from \in Pool!Stages \ {"none", "left"} /\ to \in Pool!Stages
      /\ Pool!Moves(l, from, to)
      /\ UNCHANGED <<phase, next, freed>>
<1>0. ASSUME NEW from, NEW to, Moved(from, to)
      PROVE  /\ stages' \in [Pool!Loops -> Pool!Stages]
             /\ \A k \in Pool!Loops : Ended(k) => stages'[k] = stages[k] /\ Ended(k)'
             /\ \A k \in Pool!Loops : k # l => stages'[k] = stages[k]
             /\ stages'[l] = to
             /\ stages[l] = from
             /\ phase' = phase /\ next' = next /\ freed' = freed
  <2>1. stages \in [Pool!Loops -> Pool!Stages] /\ to \in Pool!Stages /\ from \notin {"none", "left"}
    BY <1>0 DEF PoolInv, PoolTypeOK
  <2> QED
    BY <1>0, <2>1, MovesKeepsEnded DEF Pool!Moves
<1>1. ASSUME NEW from, NEW to, Moved(from, to), pending' = pending,
             to \in {"poll", "swap"} \/ from \notin {"poll", "swap"}
      PROVE  PoolInv'
  <2> HIDE DEF Moved
  <2>1. PoolTypeOK' /\ JoinedSoFar' /\ UnstartedSoFar'
    BY <1>0, <1>1 DEF PoolInv, PoolTypeOK, JoinedSoFar, UnstartedSoFar, Ended
  <2>2. AsleepMarks'
    BY <1>0, <1>1 DEF PoolInv, PoolTypeOK, AsleepMarks
  <2> QED
    BY <2>1, <2>2 DEF PoolInv
<1>2. CASE Pool!EnterLoop(l)
  BY <1>1, <1>2 DEF Pool!EnterLoop, Pool!ownerVars, Pool!Stages
<1>3. CASE Pool!CheckQuit(l)
  <2>1. Moved("check", IF quits[l] THEN "left" ELSE "poll") /\ pending' = pending
    BY <1>3 DEF Pool!CheckQuit, Pool!ownerVars, Pool!Stages
  <2> QED
    BY <1>1, <2>1
<1>4. CASE Pool!Poll(l)
  BY <1>1, <1>4 DEF Pool!Poll, Pool!ownerVars, Pool!Stages
<1>5. CASE Pool!PollOther(l)
  BY <1>1, <1>5 DEF Pool!PollOther, Pool!ownerVars, Pool!Stages
<1>6. CASE Pool!SwapFunctors(l)
  <2>1. Moved("swap", "run") /\ pending' = [pending EXCEPT ![l] = <<>>]
    BY <1>6 DEF Pool!SwapFunctors, Pool!ownerVars, Pool!Stages
  <2> HIDE DEF Moved
  <2>2. PoolTypeOK' /\ JoinedSoFar' /\ UnstartedSoFar'
    BY <1>0, <2>1 DEF PoolInv, PoolTypeOK, JoinedSoFar, UnstartedSoFar, Ended
  <2>3. pending'[l] = <<>> /\ \A k \in Pool!Loops : k # l => pending'[k] = pending[k]
    BY <2>1 DEF PoolInv, PoolTypeOK
  <2>4. AsleepMarks'
    BY <1>0, <2>1, <2>3 DEF PoolInv, PoolTypeOK, AsleepMarks
  <2> QED
    BY <2>2, <2>4 DEF PoolInv
<1>7. CASE Pool!RunFunctor(l)
  BY <1>7 DEF Pool!RunFunctor, Pool!ownerVars, PoolInv, PoolTypeOK, JoinedSoFar, UnstartedSoFar, AsleepMarks, Ended
<1>8. CASE Pool!EndBatch(l)
  BY <1>1, <1>8 DEF Pool!EndBatch, Pool!ownerVars, Pool!Stages
<1> QED
  BY <1>2, <1>3, <1>4, <1>5, <1>6, <1>7, <1>8 DEF Pool!LoopStep

\* IInv holds in every reachable state.
THEOREM PoolInvariant ==
  ASSUME PoolAssumption
  PROVE  Pool!Spec => []PoolInv
<1>1. PoolInv /\ [Pool!Next]_Pool!vars => PoolInv'
  <2> SUFFICES ASSUME PoolInv, [Pool!Next]_Pool!vars PROVE PoolInv'
    OBVIOUS
  <2>1. CASE UNCHANGED Pool!vars
    BY <2>1 DEF Pool!vars, Pool!ownerVars, Pool!threadVars, PoolInv, PoolTypeOK, JoinedSoFar, UnstartedSoFar, AsleepMarks, Ended
  <2>2. CASE Pool!Next
    BY <2>2, OwnerKeepsPoolInv, RunInLoopKeepsPoolInv, LoopKeepsPoolInv DEF Pool!Next
  <2> QED
    BY <2>1, <2>2
<1> QED
  BY <1>1, InitPoolInv, PTL DEF Pool!Spec

\* No loop of the pool is deleted while a thread may still use it, whatever the
\* number of loops (EventLoopThreadPool.cpp:16-27).
THEOREM LoopsOutliveThreads ==
  ASSUME PoolAssumption
  PROVE  Pool!Spec => []Pool!DeletedAfterAllThreads
<1>1. PoolInv => Pool!DeletedAfterAllThreads
  BY DEF PoolInv, JoinedSoFar, Pool!DeletedAfterAllThreads, Ended
<1> QED
  BY <1>1, PoolInvariant, PTL

\* A functor that was queued while its loop slept is not dropped by quit(),
\* whatever the number of loops (EventLoop.cpp:44-57, 83-92).
THEOREM QuitKeepsSleepersFunctors ==
  ASSUME PoolAssumption
  PROVE  Pool!Spec => []Pool!QueuedAsleepIsRun
<1>1. PoolInv => Pool!QueuedAsleepIsRun
  BY DEF PoolInv, AsleepMarks, Pool!QueuedAsleepIsRun
<1> QED
  BY <1>1, PoolInvariant, PTL
=============================================================================
