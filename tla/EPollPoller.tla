---------------------------- MODULE EPollPoller ----------------------------
(***************************************************************************)
(* net/EPollPoller.{h,cpp} and the part of epoll(7) it relies on.          *)
(*                                                                         *)
(* addChannel and updateChannel declare "struct epoll_event event;" and    *)
(* then "event.events |= ...": the word is never initialised, so the       *)
(* interest mask also carries whatever the stack held.  A stray EPOLLIN or *)
(* EPOLLOUT is harmless (Channel::onRead and onWrite test read_ and        *)
(* write_), EPOLLET is set explicitly, but two other bits matter:          *)
(* EPOLLONESHOT disarms the descriptor after its first report, and         *)
(* EPOLLEXCLUSIVE, which the kernel refuses together with EPOLLRDHUP,      *)
(* makes epoll_ctl fail, an error addChannel ignores.                      *)
(***************************************************************************)
EXTENDS Channel

\* What a call of addChannel can leave in the kernel.
AddOutcomes == {"edge", "oneshot", "rejected"}

\* A one-shot registration that has made its report is "disarmed", one that
\* removeChannel deleted, or that was never made, is "none".
Registrations == AddOutcomes \cup {"disarmed", "none"}

\* A change of readiness puts the descriptor on the kernel's ready list.
Armed(reg) == reg \in {"edge", "oneshot"}

\* The registration after epoll_wait has reported the descriptor.
AfterReport(reg) == IF reg = "oneshot" THEN "disarmed" ELSE reg

\* EPollPoller::poll for one reported descriptor, the reported events being a
\* subset of {"hup", "err", "in", "out"}.
Dispatch(ch, events) ==
    LET closed == IF "hup" \in events THEN OnClose(ch) ELSE ch
        failed == IF "err" \in events THEN OnError(closed) ELSE closed
        ready  == IF "in"  \in events THEN OnRead(failed)  ELSE failed
    IN  IF "out" \in events THEN OnWrite(ready) ELSE ready
=============================================================================
