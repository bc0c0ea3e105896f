------------------------------ MODULE Channel ------------------------------
(***************************************************************************)
(* net/Channel.h and net/Channel.cpp: what a Channel remembers about one   *)
(* file descriptor, and the operations on it.  A channel is a record with  *)
(* one field per data member of the class; an operation is an operator     *)
(* from a channel to a channel.  Callbacks are run by the modules that     *)
(* own a channel, in the order of handleEvents: close, error, read, write. *)
(*                                                                         *)
(* activedChannels_ of the EventLoop is the set of channels whose field    *)
(* "actived" is TRUE: addActivedChannel appends to it and sets the flag,   *)
(* handleEvents clears the flag, and the list is emptied after the pass.   *)
(***************************************************************************)

ChannelType ==
    [read : BOOLEAN, write : BOOLEAN, rclose : BOOLEAN, rerror : BOOLEAN,
     rread : BOOLEAN, rwrite : BOOLEAN, started : BOOLEAN, actived : BOOLEAN,
     closed : BOOLEAN, readable : BOOLEAN, writeable : BOOLEAN]

\* Channel::Channel
New ==
    [read |-> FALSE, write |-> FALSE, rclose |-> FALSE, rerror |-> FALSE,
     rread |-> FALSE, rwrite |-> FALSE, started |-> FALSE, actived |-> FALSE,
     closed |-> FALSE, readable |-> FALSE, writeable |-> FALSE]

EnableRead(ch)  == [ch EXCEPT !.read = TRUE]
EnableWrite(ch) == [ch EXCEPT !.write = TRUE]
EnableAll(ch)   == [ch EXCEPT !.read = TRUE, !.write = TRUE]
DisableAll(ch)  == [ch EXCEPT !.read = FALSE, !.write = FALSE]

DisableReadable(ch)  == [ch EXCEPT !.readable = FALSE]
DisableWriteable(ch) == [ch EXCEPT !.writeable = FALSE]

\* open and close register and remove the descriptor when that is still
\* to be done; the epoll side is in the module EPollPoller.
Open(ch)  == [ch EXCEPT !.started = TRUE]
Close(ch) == [ch EXCEPT !.started = FALSE]

\* Channel::addActivedChannel
AddActived(ch) == [ch EXCEPT !.actived = TRUE]

\* The four notifications of EPollPoller::poll.
OnClose(ch) ==
    IF ~ch.closed /\ ~ch.rclose
    THEN AddActived([ch EXCEPT !.closed = TRUE, !.rclose = TRUE])
    ELSE ch

OnError(ch) ==
    IF ~ch.rerror
    THEN AddActived([ch EXCEPT !.rerror = TRUE])
    ELSE ch

OnRead(ch) ==
    IF ch.read /\ ~ch.readable /\ ~ch.rread
    THEN AddActived([ch EXCEPT !.readable = TRUE, !.rread = TRUE])
    ELSE ch

OnWrite(ch) ==
    IF ch.write /\ ~ch.writeable /\ ~ch.rwrite
    THEN AddActived([ch EXCEPT !.writeable = TRUE, !.rwrite = TRUE])
    ELSE ch

\* handleEvents clears actived_ first, and each r-flag just before its
\* callback: an owner clears them one at a time as it runs the callbacks.
HandleStart(ch) == [ch EXCEPT !.actived = FALSE]
ClearClose(ch)  == [ch EXCEPT !.rclose = FALSE]
ClearError(ch)  == [ch EXCEPT !.rerror = FALSE]
ClearRead(ch)   == [ch EXCEPT !.rread = FALSE]
ClearWrite(ch)  == [ch EXCEPT !.rwrite = FALSE]
=============================================================================
