------------------------------- MODULE Buffer -------------------------------
(***************************************************************************)
(* net/Buffer.h: the buffers a TcpConnection keeps its bytes in.  A Buffer *)
(* is a ring of capacity_ bytes; buffers are linked through next, and such *)
(* a list is the sequence of its buffers here, so that takeNext appends a  *)
(* buffer and putNext drops the first.  Bytes are numbers; Garbage is what *)
(* a new buffer holds, and what no stream contains.                        *)
(***************************************************************************)
EXTENDS Integers, Sequences

CONSTANT capacity_

ASSUME CapacityAssumption == capacity_ \in Nat \ {0}

Flat == INSTANCE SequencesExt

Garbage == 0
Offsets == 0..(capacity_ - 1)

\* BufferPool::take
Take == [buffer |-> [i \in Offsets |-> Garbage], count |-> 0, push |-> 0, pop |-> 0]

\* BufferPool::takeNext of the last buffer.
TakeNext(list) == Append(list, Take)

\* The n bytes of a buffer from an offset on, around the end of the ring.
Bytes(b, from, n) == [i \in 1..n |-> b.buffer[(from + i - 1) % capacity_]]

\* What a buffer holds.
Content(b) == Bytes(b, b.pop, b.count)

\* The ring with the bytes s copied to an offset, around the end.
Copied(b, to, s) ==
    [i \in Offsets |->
        LET k == (i - to) % capacity_
        IN  IF k < Len(s) THEN s[k + 1] ELSE b.buffer[i]]

\* What a list of buffers holds.
Contents(list) == Flat!FlattenSeq([i \in 1..Len(list) |-> Content(list[i])])

\* How many bytes the counts of its first buffers add up to, and of all.
Upto(list) ==
    LET upto[i \in 0..Len(list)] == IF i = 0 THEN 0 ELSE upto[i - 1] + list[i].count
    IN  upto

Counts(list) == Upto(list)[Len(list)]

BufferType ==
    [buffer : [Offsets -> Nat], count : 0..capacity_, push : 0..capacity_, pop : 0..capacity_]

\* push lies count bytes after pop.
Coherent(b) == (b.pop + b.count - b.push) % capacity_ = 0
=============================================================================
