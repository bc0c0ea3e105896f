---------------------------- MODULE MCLogStream ----------------------------
(***************************************************************************)
(* Instance of LogStream for TLC: integers and pointers of 8 bits, whose   *)
(* longest texts, -128 and 0xFF with their NUL, take just the room that is *)
(* asked for, and a buffer that a few pieces fill.                         *)
(***************************************************************************)
EXTENDS LogStream

MCHeader == <<2, 1>>
MCTrailer == <<1, 1, 1>>

=============================================================================
