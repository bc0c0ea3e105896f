--------------------------- MODULE LogStream ---------------------------
(***************************************************************************)
(* The text of one message (log/LogStream.h, log/LogStream.cpp) and the    *)
(* pieces a message is made of (log/LogMessage.cpp): a buffer of fixed     *)
(* size, pieces that are dropped when they do not fit, and numbers that    *)
(* are written digit by digit into it.                                     *)
(*                                                                         *)
(* A piece is its length; of a number the digits are kept too.  Integers   *)
(* have Width bits.                                                        *)
(***************************************************************************)
EXTENDS Integers, Sequences, SequencesExt

CONSTANTS
    kBufferSize,      \* size of the buffer
    kMaxNumericSize,  \* room a number asks for
    Width,            \* bits of an integer and of a pointer
    Pieces,           \* lengths of the pieces a user appends
    Header,           \* lengths of what the constructor appends
    Trailer           \* ... and the destructor before the number of the line

ASSUME LogStreamAssumption ==
    /\ kBufferSize \in Nat \ {0} /\ kMaxNumericSize \in Nat
    /\ Width \in Nat \ {0, 1} /\ Pieces \subseteq Nat
    /\ Header \in Seq(Nat) /\ Trailer \in Seq(Nat)

VARIABLES
    length,   \* cur_ - data_
    reach,    \* one past the last byte of data_ ever written
    number,   \* the number written last, and its digits
    state     \* "made", "open" for the user's pieces, or "done"

vars == <<length, reach, number, state>>

Signed == -(2 ^ (Width - 1)) .. 2 ^ (Width - 1) - 1
Unsigned == 0 .. 2 ^ Width - 1

-----------------------------------------------------------------------------
(* convert and convertHex. *)

\* / and % of C++ round towards zero: the remainder of a negative number is
\* negative, and zero[] has a digit for it too.
Quotient(i, base) == IF i < 0 THEN -((-i) \div base) ELSE i \div base
Remainder(i, base) == i - base * Quotient(i, base)
Zero(lsd) == IF lsd < 0 THEN -lsd ELSE lsd

\* The digits of value, the last one first, are reversed at the end.
Digits(value, base) ==
    LET digits[i \in Signed \cup Unsigned] ==
            <<Zero(Remainder(i, base))>>
                \o IF Quotient(i, base) = 0 THEN << >> ELSE digits[Quotient(i, base)]
    IN  Reverse(digits[value])

\* A sign that is taken from what the loop leaves of the value.
ConvertSignOfRest(value) ==
    [value |-> value, base |-> 10, minus |-> FALSE, digits |-> Digits(value, 10)]

Convert(value) ==
    [value |-> value, base |-> 10, minus |-> value < 0, digits |-> Digits(value, 10)]

ConvertHex(value) ==
    [value |-> value, base |-> 16, minus |-> FALSE, digits |-> Digits(value, 16)]

TextLength(n) == Len(n.digits) + IF n.minus THEN 1 ELSE 0

-----------------------------------------------------------------------------
(* The stream. *)

Avail(len) == kBufferSize - len

\* LogStream::append: a piece that does not fit is dropped.
AppendPiece(len, n) == IF Avail(len) > n THEN len + n ELSE len

AppendPieces(len, pieces) == FoldLeft(AppendPiece, len, pieces)

Reached(end) == reach' = IF end > reach THEN end ELSE reach

Init ==
    /\ length = 0 /\ reach = 0
    /\ number = Convert(0)
    /\ state = "made"

\* The constructor: the second, the microseconds and the level.
Begin ==
    /\ state = "made"
    /\ length' = AppendPieces(length, Header)
    /\ Reached(length')
    /\ state' = "open"
    /\ UNCHANGED number

PutPiece ==
    /\ state = "open"
    /\ \E n \in Pieces : length' = AppendPiece(length, n)
    /\ Reached(length')
    /\ UNCHANGED <<number, state>>

\* A number that asks for room for its digits only.
PutIntegerTight ==
    /\ state = "open" /\ Avail(length) >= kMaxNumericSize - 1
    /\ \E v \in Signed \cup Unsigned : number' = Convert(v)
    /\ length' = length + TextLength(number')
    /\ Reached(length' + 1)
    /\ UNCHANGED state

\* formatInteger: convert ends the digits with a NUL that cur_ stays before.
\* Without the room nothing is written.
PutInteger ==
    /\ state = "open" /\ Avail(length) >= kMaxNumericSize
    /\ \E v \in Signed \cup Unsigned : number' = Convert(v)
    /\ length' = length + TextLength(number')
    /\ Reached(length' + 1)
    /\ UNCHANGED state

\* operator<<(const void*)
PutPointer ==
    /\ state = "open" /\ Avail(length) >= kMaxNumericSize
    /\ \E v \in Unsigned : number' = ConvertHex(v)
    /\ length' = length + 2 + TextLength(number')
    /\ Reached(length' + 1)
    /\ UNCHANGED state

\* The destructor: where the message was made, the number of the line as any
\* other number, and the newline.
End ==
    /\ state = "open"
    /\ LET named == AppendPieces(length, Trailer)
       IN  \/ /\ Avail(named) >= kMaxNumericSize
              /\ \E line \in Signed : line > 0 /\ number' = Convert(line)
              /\ length' = AppendPiece(named + TextLength(number'), 1)
              /\ Reached(named + TextLength(number') + 1)
           \/ /\ Avail(named) < kMaxNumericSize
              /\ length' = AppendPiece(named, 1)
              /\ Reached(length')
              /\ UNCHANGED number
    /\ state' = "done"

Next == Begin \/ PutPiece \/ PutInteger \/ PutPointer \/ End

Spec == Init /\ [][Next]_vars

-----------------------------------------------------------------------------
(* Properties. *)

\* Nothing is written past the buffer, the NUL after a number's digits and the
\* 0x of a pointer included, whatever pieces came before (LogStream.h:44,
\* LogStream.cpp:42, 117).
NoOverrun == length < kBufferSize /\ reach <= kBufferSize

\* The digits of every number, the most negative included, spell it, and start
\* with no zero (LogStream.cpp:27-61).
NumbersReadBack ==
    LET n == number
        magnitude == FoldLeft(LAMBDA v, d : n.base * v + d, 0, n.digits)
    IN  /\ n.value = IF n.minus THEN -magnitude ELSE magnitude
        /\ n.digits[1] = 0 => n.digits = <<0>>

====
