----------------------------- MODULE EventLoop -----------------------------
(***************************************************************************)
(* net/EventLoop.{h,cpp}: one thread runs loop(); any thread, and the      *)
(* callbacks and functors of the loop itself, may call runInLoop() and     *)
(* quit().  The loop sleeps in EPollPoller::poll and is woken through an   *)
(* eventfd registered edge-triggered, so the question is whether a functor *)
(* or a quit can be left behind while the loop sleeps.                     *)
(*                                                                         *)
(* A functor is the number of the runInLoop call that queued it.  The      *)
(* counter of the eventfd is kept as zero or not zero, which is all a read *)
(* or an epoll report tells apart.  Both critical sections of mutex_ are   *)
(* single steps.  loop() is called once, as by every caller of the         *)
(* repository (EventLoopThreadPool::threadFunc and the two tests).         *)
(***************************************************************************)
EXTENDS Naturals, Sequences

CONSTANTS
    Clients,        \* threads other than the one that runs loop()
    Loop,           \* the thread that runs loop()
    MaxFunctors     \* bound: how often runInLoop is called

ASSUME ConstantsAssumption ==
    /\ Loop \notin Clients
    /\ MaxFunctors \in Nat

C == INSTANCE Channel
P == INSTANCE EPollPoller

VARIABLES
    stage,              \* where the loop thread is in loop()
    quit_,
    pendingFunctors_,
    functors,           \* the batch doPendingFunctors has taken
    wakeupChannel_,
    eventFd,            \* the eventfd's counter is not zero
    readyList,          \* the eventfd is on the kernel's ready list
    reg,                \* the eventfd's epoll registration
    owes,               \* threads that queued or quit and have yet to write
    submitted,          \* how many functors have been queued so far
    ran                 \* history: the functors that ran, in order

vars == <<stage, quit_, pendingFunctors_, functors, wakeupChannel_, eventFd,
          readyList, reg, owes, submitted, ran>>

Threads == Clients \cup {Loop}

Stages == {"ready", "check", "poll", "handle", "swap", "run", "left"}

\* The loop thread calls runInLoop or quit from a channel callback or a
\* functor; it is at most in one call, which it finishes before it goes on.
CallbackStages == {"handle", "swap", "run"}

MayCall(t) ==
    /\ t \notin owes
    /\ t = Loop => stage \in CallbackStages

\* The constructor: wakeupChannel_ listens for reads and is opened.
Init ==
    /\ stage = "ready"
    /\ quit_ = FALSE
    /\ pendingFunctors_ = <<>>
    /\ functors = <<>>
    /\ wakeupChannel_ = C!Open(C!EnableRead(C!New))
    /\ eventFd = FALSE
    /\ readyList = FALSE
    /\ reg \in P!AddOutcomes
    /\ owes = {}
    /\ submitted = 0
    /\ ran = <<>>

-----------------------------------------------------------------------------
(* Calls of any thread.  wakeup() comes after the critical section.        *)

\* A runInLoop that leaves out wakeup() when the loop itself is the caller.
RunInLoopNoSelfWakeup(t) ==
    /\ MayCall(t)
    /\ submitted < MaxFunctors
    /\ submitted' = submitted + 1
    /\ pendingFunctors_' = Append(pendingFunctors_, submitted')
    /\ owes' = IF t = Loop THEN owes ELSE owes \cup {t}
    /\ UNCHANGED <<stage, quit_, functors, wakeupChannel_, eventFd, readyList, reg, ran>>

RunInLoop(t) ==
    /\ MayCall(t)
    /\ submitted < MaxFunctors
    /\ submitted' = submitted + 1
    /\ pendingFunctors_' = Append(pendingFunctors_, submitted')
    /\ owes' = owes \cup {t}
    /\ UNCHANGED <<stage, quit_, functors, wakeupChannel_, eventFd, readyList, reg, ran>>

\* A quit that only stores the flag.
QuitNoWakeup(t) ==
    /\ MayCall(t)
    /\ quit_' = TRUE
    /\ UNCHANGED <<stage, pendingFunctors_, functors, wakeupChannel_, eventFd,
                   readyList, reg, owes, submitted, ran>>

Quit(t) ==
    /\ MayCall(t)
    /\ quit_' = TRUE
    /\ owes' = owes \cup {t}
    /\ UNCHANGED <<stage, pendingFunctors_, functors, wakeupChannel_, eventFd,
                   readyList, reg, submitted, ran>>

\* The write raises an edge even when the counter was not zero.
Wakeup(t) ==
    /\ t \in owes
    /\ owes' = owes \ {t}
    /\ eventFd' = TRUE
    /\ readyList' = P!Armed(reg)
    /\ UNCHANGED <<stage, quit_, pendingFunctors_, functors, wakeupChannel_, reg, submitted, ran>>

-----------------------------------------------------------------------------
(* The loop thread.  It takes no step of loop() inside a call of its own.  *)

At(s) == stage = s /\ Loop \notin owes

EnterLoop ==
    /\ At("ready")
    /\ quit_' = FALSE
    /\ stage' = "check"
    /\ UNCHANGED <<pendingFunctors_, functors, wakeupChannel_, eventFd,
                   readyList, reg, owes, submitted, ran>>

CheckQuit ==
    /\ At("check")
    /\ stage' = IF quit_ THEN "left" ELSE "poll"
    /\ UNCHANGED <<quit_, pendingFunctors_, functors, wakeupChannel_, eventFd,
                   readyList, reg, owes, submitted, ran>>

\* epoll_wait reports the eventfd.
PollWakeup ==
    /\ At("poll")
    /\ readyList /\ eventFd
    /\ readyList' = FALSE
    /\ reg' = P!AfterReport(reg)
    /\ wakeupChannel_' = P!Dispatch(wakeupChannel_, {"in"})
    /\ stage' = "handle"
    /\ UNCHANGED <<quit_, pendingFunctors_, functors, eventFd, owes, submitted, ran>>

\* epoll_wait returns without the eventfd: kPollTime has passed, a signal came,
\* other descriptors fill events_ and the eventfd keeps its place on the ready
\* list, or stray interest bits report it with nothing to read.
PollOther ==
    /\ At("poll")
    /\ readyList' = (readyList /\ eventFd)
    /\ reg' \in {reg} \cup (IF readyList /\ eventFd THEN {} ELSE {P!AfterReport(reg)})
    /\ stage' = "handle"
    /\ UNCHANGED <<quit_, pendingFunctors_, functors, wakeupChannel_, eventFd,
                   owes, submitted, ran>>

\* Channel::handleEvents without disableReadable in handleWakeup.
AfterWakeupStillReadable(ch) == C!ClearRead(C!HandleStart(ch))

\* Channel::handleEvents of the wakeup channel, with handleWakeup as callback.
AfterWakeup(ch) == C!DisableReadable(C!ClearRead(C!HandleStart(ch)))

\* handleActivedChannels: the read of handleWakeup empties the counter.
HandleActivedChannels ==
    /\ At("handle")
    /\ IF wakeupChannel_.actived /\ wakeupChannel_.rread
       THEN /\ eventFd' = FALSE
            /\ wakeupChannel_' = AfterWakeup(wakeupChannel_)
       ELSE UNCHANGED <<eventFd, wakeupChannel_>>
    /\ stage' = "swap"
    /\ UNCHANGED <<quit_, pendingFunctors_, functors, readyList, reg, owes, submitted, ran>>

\* doPendingFunctors with a copy of the queue in place of the swap.
CopyFunctors ==
    /\ At("swap")
    /\ functors' = pendingFunctors_
    /\ stage' = "run"
    /\ UNCHANGED <<quit_, pendingFunctors_, wakeupChannel_, eventFd, readyList, reg, owes, submitted, ran>>

SwapFunctors ==
    /\ At("swap")
    /\ functors' = pendingFunctors_
    /\ pendingFunctors_' = <<>>
    /\ stage' = "run"
    /\ UNCHANGED <<quit_, wakeupChannel_, eventFd, readyList, reg, owes, submitted, ran>>

RunFunctor ==
    /\ At("run")
    /\ functors # <<>>
    /\ ran' = Append(ran, Head(functors))
    /\ functors' = Tail(functors)
    /\ UNCHANGED <<stage, quit_, pendingFunctors_, wakeupChannel_, eventFd,
                   readyList, reg, owes, submitted>>

\* doPendingFunctors with the queue cleared after the batch, not swapped out.
EndBatchClearing ==
    /\ At("run")
    /\ functors = <<>>
    /\ pendingFunctors_' = <<>>
    /\ stage' = "check"
    /\ UNCHANGED <<quit_, functors, wakeupChannel_, eventFd, readyList, reg,
                   owes, submitted, ran>>

EndBatch ==
    /\ At("run")
    /\ functors = <<>>
    /\ stage' = "check"
    /\ UNCHANGED <<quit_, pendingFunctors_, functors, wakeupChannel_, eventFd,
                   readyList, reg, owes, submitted, ran>>

LoopStep ==
    \/ EnterLoop \/ CheckQuit \/ PollWakeup \/ HandleActivedChannels
    \/ SwapFunctors \/ RunFunctor \/ EndBatch

Next ==
    \/ \E t \in Threads : RunInLoop(t) \/ Quit(t) \/ Wakeup(t)
    \/ PollOther
    \/ LoopStep

\* Threads are scheduled, and a callback or functor returns: strong fairness,
\* as each call it makes holds LoopStep up.  Nothing is assumed of PollOther:
\* what this fairness yields, it yields through the eventfd alone.
Fairness ==
    /\ SF_vars(LoopStep)
    /\ \A t \in Threads : WF_vars(Wakeup(t))

Spec == Init /\ [][Next]_vars

FairSpec == Spec /\ Fairness

-----------------------------------------------------------------------------
(* The wakeup channel alternates between two states: waiting for an edge,  *)
(* and holding an edge that handleEvents has yet to consume.               *)

IdleChannel == C!Open(C!EnableRead(C!New))
WokenChannel == C!OnRead(IdleChannel)

\* Types, the two states of the wakeup channel that poll and handleEvents leave
\* it in (a handled edge leaves nothing behind, Channel.cpp:59-92), and a batch
\* only while doPendingFunctors runs it.
TypeOK ==
    /\ stage \in Stages
    /\ quit_ \in BOOLEAN
    /\ pendingFunctors_ \in Seq(Nat)
    /\ functors \in Seq(Nat)
    /\ wakeupChannel_ \in {IdleChannel, WokenChannel}
    /\ wakeupChannel_ = WokenChannel => stage = "handle"
    /\ functors # <<>> => stage = "run"
    /\ eventFd \in BOOLEAN
    /\ readyList \in BOOLEAN
    /\ reg \in P!Registrations
    /\ owes \subseteq Threads
    /\ submitted \in 0..MaxFunctors
    /\ ran \in Seq(Nat)

\* A wakeup is on its way: its writer is about to write, or the edge of the
\* written eventfd is on the ready list.
WakeupComing == owes # {} \/ (readyList /\ eventFd)

\* Work queued while the loop is past the point where it takes it.
QueuedIsAnnounced ==
    (stage \in {"ready", "run", "check", "poll"} /\ reg = "edge" /\ pendingFunctors_ # <<>>)
        => WakeupComing

QuitIsAnnounced == (stage = "poll" /\ reg = "edge" /\ quit_) => WakeupComing

\* The loop never sleeps on work: asleep in poll with a functor queued or
\* quit_ set, it is about to be woken (runInLoop and quit against poll,
\* handleWakeup and doPendingFunctors; EventLoop.cpp:44-64, 83-110).
NoLostWakeup ==
    (stage = "poll" /\ reg = "edge" /\ (pendingFunctors_ # <<>> \/ quit_))
        => WakeupComing

\* Every functor is run, waits in the batch or waits in the queue, exactly
\* once and in the order of the runInLoop calls (EventLoop.cpp:59-65, 83-92).
ExactlyOnceInOrder ==
    ran \o functors \o pendingFunctors_ = [i \in 1..submitted |-> i]

\* The queue and the batch are one queue to the callers of runInLoop.
E == INSTANCE Executor WITH
    waiting <- functors \o pendingFunctors_,
    stopped <- (stage = "left")

\* The loop is an executor: pushing under the mutex, swapping the queue out
\* and running the batch outside the mutex while others push come to one
\* queue served from its head, until loop() returns (EventLoop.cpp:44-65, 83-92).
ImplementsExecutor == E!Spec

\* With an edge-triggered registration every queued functor is run, unless the
\* loop is quit; and whatever the registration turned out to be, if a sleeping
\* loop always returns from epoll_wait: kPollTime bounds the sleep of a loop
\* the eventfd cannot wake (EventLoop.cpp:13, 53, 59-65, 101-110).
FunctorsEventuallyRun ==
    \A n \in 1..MaxFunctors :
        /\ (reg = "edge" /\ n <= submitted) ~> (n <= Len(ran) \/ stage = "left")
        /\ WF_vars(PollOther) => ((n <= submitted) ~> (n <= Len(ran) \/ stage = "left"))

\* A quit that finds the loop running ends it (EventLoop.cpp:44-57).
QuitEndsRunningLoop ==
    (reg = "edge" /\ quit_ /\ stage \notin {"ready", "left"}) ~> (stage = "left")
=============================================================================
