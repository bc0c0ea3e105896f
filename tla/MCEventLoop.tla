---------------------------- MODULE MCEventLoop ----------------------------
(***************************************************************************)
(* Instances of EventLoop for TLC: two client threads, enough for a wakeup *)
(* of one to overtake the push of the other, and up to three functors, so  *)
(* that one can run, one wait in the batch and one wait in the queue.      *)
(***************************************************************************)
EXTENDS EventLoop

CONSTANTS c1, c2

MCClients == {c1, c2}

=============================================================================
