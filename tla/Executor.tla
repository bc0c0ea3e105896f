------------------------------ MODULE Executor ------------------------------
(***************************************************************************)
(* What EventLoop promises the callers of runInLoop (net/EventLoop.h): the *)
(* functors wait in one queue and run one at a time, in the order they     *)
(* were submitted, each once, until the loop is left; then none runs any   *)
(* more, though they can still be submitted.  The mutex, the batch, the    *)
(* eventfd and the threads are not seen from here.                         *)
(***************************************************************************)
EXTENDS Naturals, Sequences

CONSTANT MaxFunctors    \* bound: how many functors are submitted

VARIABLES
    submitted,          \* how many functors were submitted
    waiting,            \* those that have not run, in the order of submission
    ran,                \* those that have, in the order they ran
    stopped             \* the loop is left

vars == <<submitted, waiting, ran, stopped>>

Init ==
    /\ submitted = 0
    /\ waiting = <<>> /\ ran = <<>>
    /\ stopped = FALSE

Submit ==
    /\ submitted < MaxFunctors
    /\ submitted' = submitted + 1
    /\ waiting' = Append(waiting, submitted')
    /\ UNCHANGED <<ran, stopped>>

Run ==
    /\ ~stopped
    /\ waiting # <<>>
    /\ ran' = Append(ran, Head(waiting))
    /\ waiting' = Tail(waiting)
    /\ UNCHANGED <<submitted, stopped>>

Stop ==
    /\ stopped' = TRUE
    /\ UNCHANGED <<submitted, waiting, ran>>

Next == Submit \/ Run \/ Stop

Spec == Init /\ [][Next]_vars
=============================================================================
