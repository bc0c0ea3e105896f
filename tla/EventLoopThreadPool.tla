------------------------ MODULE EventLoopThreadPool ------------------------
(***************************************************************************)
(* net/EventLoopThreadPool.{h,cpp}: count_ event loops, each with a thread *)
(* that runs it.  The owner makes the loops, starts the threads, posts to  *)
(* the loops and at last destroys the pool: it quits every loop, joins     *)
(* every thread and deletes every loop.  Functors of one loop may post to  *)
(* another: getLoop hands the loops out, as to TcpServer.                  *)
(*                                                                         *)
(* Of an EventLoop this has quit_, the queue and whether it is about to be *)
(* woken; that an edge-triggered loop never sleeps on a wakeup is what     *)
(* module EventLoop shows.  A functor is where it found the loop when it   *)
(* was queued, which is what decides whether it can still be dropped.      *)
(***************************************************************************)
EXTENDS Naturals, Sequences

CONSTANTS
    count_,         \* how many loops the pool has
    MaxPosts        \* bound: how often runInLoop is called

Loops == 1..count_

VARIABLES
    \* the owner
    phase,          \* what it does with the pool
    next,           \* the loop its for loop has come to
    \* each loop and its thread
    stage,          \* where the thread is in loop()
    quit_,
    awake,          \* the eventfd has been written and not been read since
    pending,        \* pendingFunctors_
    functors,       \* the batch doPendingFunctors has taken
    freed,          \* the loops that are deleted
    \* history
    posts,          \* how often runInLoop was called
    raced           \* the loops whose quit() came before loop() had begun

ownerVars  == <<phase, next>>
threadVars == <<stage, quit_, awake, pending, functors>>
vars == <<ownerVars, threadVars, freed, posts, raced>>

\* "none": no thread was started; "ready": it has yet to store quit_ = false.
Stages == {"none", "ready", "check", "poll", "swap", "run", "left"}

Phases == {"made", "starting", "started", "quitting", "joining", "deleting", "gone"}

\* EventLoopThreadPool(count)
Init ==
    /\ phase = "made" /\ next = 1
    /\ stage = [l \in Loops |-> "none"]
    /\ quit_ = [l \in Loops |-> FALSE]
    /\ awake = [l \in Loops |-> FALSE]
    /\ pending = [l \in Loops |-> <<>>]
    /\ functors = [l \in Loops |-> <<>>]
    /\ freed = {}
    /\ posts = 0 /\ raced = {}

-----------------------------------------------------------------------------
(* The owner.                                                              *)

\* A for loop over all loops begins, and ends.
Begin(p) == phase' = p /\ next' = 1
AllDone(p) == phase = p /\ next > count_

\* The next loop of a for loop.
Each(p, l) == phase = p /\ next = l /\ next' = next + 1

BeginStart ==
    /\ phase = "made"
    /\ Begin("starting")
    /\ UNCHANGED <<threadVars, freed, posts, raced>>

StartThread(l) ==
    /\ Each("starting", l)
    /\ stage' = [stage EXCEPT ![l] = "ready"]
    /\ UNCHANGED <<phase, quit_, awake, pending, functors, freed, posts, raced>>

StartReturns ==
    /\ AllDone("starting")
    /\ Begin("started")
    /\ UNCHANGED <<threadVars, freed, posts, raced>>

\* ~EventLoopThreadPool, of a pool that was started or was not.
BeginDestroy ==
    /\ phase \in {"made", "started"}
    /\ Begin("quitting")
    /\ UNCHANGED <<threadVars, freed, posts, raced>>

\* EventLoop::quit
QuitLoop(l) ==
    /\ Each("quitting", l)
    /\ quit_' = [quit_ EXCEPT ![l] = TRUE]
    /\ awake' = [awake EXCEPT ![l] = TRUE]
    /\ raced' = IF stage[l] = "ready" THEN raced \cup {l} ELSE raced
    /\ UNCHANGED <<phase, stage, pending, functors, freed, posts>>

AllQuit ==
    /\ AllDone("quitting")
    /\ Begin("joining")
    /\ UNCHANGED <<threadVars, freed, posts, raced>>

\* t.join(); without start() there is no thread to join.
Join(l) ==
    /\ Each("joining", l)
    /\ stage[l] \in {"none", "left"}
    /\ UNCHANGED <<phase, threadVars, freed, posts, raced>>

AllJoined ==
    /\ AllDone("joining")
    /\ Begin("deleting")
    /\ UNCHANGED <<threadVars, freed, posts, raced>>

DeleteLoop(l) ==
    /\ Each("deleting", l)
    /\ freed' = freed \cup {l}
    /\ UNCHANGED <<phase, threadVars, posts, raced>>

DestructorReturns ==
    /\ AllDone("deleting")
    /\ Begin("gone")
    /\ UNCHANGED <<threadVars, freed, posts, raced>>

Destructor ==
    \/ AllQuit \/ AllJoined \/ DestructorReturns
    \/ \E l \in Loops : QuitLoop(l) \/ Join(l) \/ DeleteLoop(l)

-----------------------------------------------------------------------------
(* runInLoop, by the owner before it destroys the pool or by a functor.    *)

MayPost ==
    \/ phase \in {"made", "starting", "started"}
    \/ \E k \in Loops : stage[k] = "run" /\ functors[k] # <<>>

RunInLoop(l) ==
    /\ MayPost /\ posts < MaxPosts
    /\ posts' = posts + 1
    /\ pending' = [pending EXCEPT ![l] = Append(@, stage[l])]
    /\ awake' = [awake EXCEPT ![l] = TRUE]
    /\ UNCHANGED <<ownerVars, stage, quit_, functors, freed, raced>>

-----------------------------------------------------------------------------
(* EventLoop::loop in the thread of loop l.                                *)

Moves(l, from, to) == stage[l] = from /\ stage' = [stage EXCEPT ![l] = to]

EnterLoop(l) ==
    /\ Moves(l, "ready", "check")
    /\ quit_' = [quit_ EXCEPT ![l] = FALSE]
    /\ UNCHANGED <<ownerVars, awake, pending, functors, freed, posts, raced>>

CheckQuit(l) ==
    /\ Moves(l, "check", IF quit_[l] THEN "left" ELSE "poll")
    /\ UNCHANGED <<ownerVars, quit_, awake, pending, functors, freed, posts, raced>>

\* poll reports the eventfd, and handleActivedChannels reads it.
Poll(l) ==
    /\ awake[l]
    /\ Moves(l, "poll", "swap")
    /\ awake' = [awake EXCEPT ![l] = FALSE]
    /\ UNCHANGED <<ownerVars, quit_, pending, functors, freed, posts, raced>>

\* poll returns for a connection or a timeout.
PollOther(l) ==
    /\ Moves(l, "poll", "swap")
    /\ UNCHANGED <<ownerVars, quit_, awake, pending, functors, freed, posts, raced>>

SwapFunctors(l) ==
    /\ Moves(l, "swap", "run")
    /\ functors' = [functors EXCEPT ![l] = pending[l]]
    /\ pending' = [pending EXCEPT ![l] = <<>>]
    /\ UNCHANGED <<ownerVars, quit_, awake, freed, posts, raced>>

RunFunctor(l) ==
    /\ stage[l] = "run" /\ functors[l] # <<>>
    /\ functors' = [functors EXCEPT ![l] = Tail(@)]
    /\ UNCHANGED <<ownerVars, stage, quit_, awake, pending, freed, posts, raced>>

EndBatch(l) ==
    /\ functors[l] = <<>>
    /\ Moves(l, "run", "check")
    /\ UNCHANGED <<ownerVars, quit_, awake, pending, functors, freed, posts, raced>>

LoopStep(l) ==
    EnterLoop(l) \/ CheckQuit(l) \/ Poll(l) \/ SwapFunctors(l) \/ RunFunctor(l) \/ EndBatch(l)

Next ==
    \/ BeginStart \/ StartReturns \/ BeginDestroy \/ Destructor
    \/ \E l \in Loops : StartThread(l) \/ RunInLoop(l) \/ LoopStep(l) \/ PollOther(l)

Spec == Init /\ [][Next]_vars

\* Threads are scheduled, functors return, and the destructor goes on when it
\* can.  Nothing is assumed of the owner before, or of PollOther.
FairSpec == Spec /\ WF_vars(Destructor) /\ \A l \in Loops : WF_vars(LoopStep(l))

-----------------------------------------------------------------------------

\* A loop is deleted when the last thread has ended, its own or another whose
\* functors may post to it (EventLoopThreadPool.cpp:16-27).
DeletedAfterAllThreads ==
    freed # {} => \A l \in Loops : stage[l] \in {"none", "left"}

\* quit() drops no functor that was queued while the loop slept, or before it
\* took its batch: those that are dropped came in before loop() ran or behind
\* the batch (EventLoop.cpp:50-57, 83-92).
QueuedAsleepIsRun ==
    \A l \in Loops : stage[l] = "left" =>
        \A i \in 1..Len(pending[l]) : pending[l][i] \notin {"poll", "swap"}

\* The destructor returns, unless a thread had yet to begin its loop when the
\* loop was told to quit: loop() then stores quit_ = false over it
\* (EventLoopThreadPool.cpp:16-22, EventLoop.cpp:44-51).
DestructionEndsUnlessRaced ==
    (phase = "quitting") ~> (phase = "gone" \/ raced # {})
=============================================================================
