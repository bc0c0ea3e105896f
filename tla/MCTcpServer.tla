---------------------------- MODULE MCTcpServer ----------------------------
(***************************************************************************)
(* Instances of TcpServer for TLC, with a pool and without.  Two clients   *)
(* with two descriptors take turns with the first, so that the second      *)
(* connection has it while functors of the first may still wait, or live   *)
(* at the same time and leave none.  With one descriptor more the acceptor *)
(* goes on, with one less it has to refuse the second client.              *)
(***************************************************************************)
EXTENDS TcpServer

FewFds == {{1}, {1, 2}, {1, 2, 3}}

\* With a second call where one loop and two descriptors are shared.
MCSetups == [pool : BOOLEAN, fds : FewFds, calls : {1}] \cup [pool : {FALSE}, fds : {{1, 2}}, calls : {2}]

\* For the invariants alone.
MCTwoCalls == [pool : BOOLEAN, fds : FewFds, calls : {2}]

\* The server's loop is the only one, and two clients take what is left.
MCFull == [pool : {FALSE}, fds : {{1, 2}}, calls : {1}]
=============================================================================
