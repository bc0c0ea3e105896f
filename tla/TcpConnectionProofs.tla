------------------------- MODULE TcpConnectionProofs -------------------------
(***************************************************************************)
(* What TLAPS proves of the two directions of a TcpConnection, for buffers *)
(* of every capacity and any number of bytes.                              *)
(*                                                                         *)
(* TcpRead: the counts of the rings agree with readSize_, no byte is lost, *)
(* doubled or moved, and a peer that closes loses none of its last bytes.  *)
(* TcpWrite, as the instance W whose variables have names of their own:    *)
(* the counts agree with writeSize_, and the list of rings loses, doubles  *)
(* and moves no byte.                                                      *)
(***************************************************************************)
EXTENDS TcpRead, QueueLemmas

-----------------------------------------------------------------------------
(* The inductive invariant.                                                *)

Stages == {"away", "handle", "read", "callback"}

\* pop lies in the ring, and what onRead keeps ready behind the tail is empty.
BuffersOK(list, tail) ==
    /\ list \in Seq(BufferType)
    /\ tail \in 1..Len(list) /\ Len(list) - tail \in {0, 1}
    /\ \A i \in 1..Len(list) : list[i].pop \in Offsets
    /\ tail < Len(list) =>
          LET spare == list[Len(list)] IN spare.count = 0 /\ spare.push = 0 /\ spare.pop = 0

TypeOK ==
    /\ stage \in Stages
    /\ BuffersOK(buffers_, readTail_)
    /\ readSize_ \in Nat
    /\ channel_ \in C!ChannelType
    /\ full \in BOOLEAN /\ fin \in BOOLEAN /\ inside \in BOOLEAN
    /\ socket \in Seq(Nat) /\ delivered \in Seq(Nat) /\ sent \in Nat
    /\ close_ \in {"no", "peer", "user"}

\* readSize_ never says more than there is to take out.
Enough == readSize_ <= Counts(buffers_)

\* A ring: push is where the next byte goes.
Ring(b) == b.pop + b.count = b.push \/ b.pop + b.count = b.push + capacity_

\* A ring whose bytes are the numbers behind base.
Has(b, base) ==
    /\ Ring(b)
    /\ \A k \in 1..b.count : b.buffer[(b.pop + k - 1) % capacity_] = base + k

\* The buffers of a list, whatever bytes: only the first may be read from the middle.
Rings(list) ==
    /\ \A i \in 1..Len(list) : Ring(list[i])
    /\ \A i \in 2..Len(list) : list[i].pop = 0

\* The buffers of a list whose bytes are the numbers behind base.
Holds(list, base) ==
    /\ \A i \in 1..Len(list) : Has(list[i], base + Upto(list)[i - 1])
    /\ \A i \in 2..Len(list) : list[i].pop = 0

\* What was delivered, what the rings hold and what the kernel holds.
Stream ==
    /\ Counts(buffers_) = readSize_
    /\ Holds(buffers_, Len(delivered))
    /\ Len(delivered) + readSize_ + Len(socket) = sent
    /\ \A k \in 1..Len(delivered) : delivered[k] = k
    /\ \A k \in 1..Len(socket) : socket[k] = Len(delivered) + readSize_ + k

\* The flags of the channel tell whether onRead is still to come.
Flags ==
    /\ channel_.rclose => fin /\ stage = "handle"
    /\ stage # "handle" => ~channel_.rread
    /\ close_ = "no" =>
          /\ channel_.read
          /\ stage = "away" => ~channel_.readable
          /\ stage = "handle" => channel_.rread = channel_.readable
          /\ stage = "handle" /\ channel_.rclose => channel_.rread

\* Once the peer's close was noticed, what is left in the kernel is being read.
Draining ==
    close_ = "peer" =>
        /\ fin
        /\ stage = "away" => socket = <<>>
        /\ stage = "callback" /\ ~full => socket = <<>>
        /\ stage = "handle" => socket = <<>> \/ (channel_.rread /\ channel_.readable)

IInv ==
    /\ TypeOK /\ Enough /\ Flags
    /\ ~inside => Stream /\ Draining

-----------------------------------------------------------------------------
(* Offsets in a ring, and in a list of rings.                              *)

\* Around the end of a ring, once at most.
LEMMA Around ==
    ASSUME NEW c \in Nat \ {0}, NEW x \in Nat, x < c + c
    PROVE  x % c = IF x < c THEN x ELSE x - c
  OBVIOUS

LEMMA Within ==
    ASSUME NEW c \in Nat \ {0}, NEW x \in Nat, x < c
    PROVE  x % c = x
  OBVIOUS

\* A buffer's fields, by themselves.
LEMMA BufferFields ==
    ASSUME NEW b \in BufferType
    PROVE  /\ capacity_ \in Nat \ {0}
           /\ b.buffer \in [Offsets -> Nat]
           /\ b.count \in Nat /\ b.count <= capacity_
           /\ b.push \in Nat /\ b.push <= capacity_
           /\ b.pop \in Nat /\ b.pop <= capacity_
  BY CapacityAssumption DEF BufferType

\* A list's counts are numbers.
LEMMA CountsAreNumbers ==
    ASSUME NEW list \in Seq(BufferType)
    PROVE  Len(list) \in Nat /\ \A i \in 1..Len(list) : list[i] \in BufferType /\ list[i].count \in Nat
  BY BufferFields

\* What the recursive function in Upto computes.
LEMMA UptoSums ==
    ASSUME NEW list \in Seq(BufferType)
    PROVE  Sums(Upto(list), Len(list), [i \in 1..Len(list) |-> list[i].count])
  <1> DEFINE n == Len(list)
             c == [i \in 1..n |-> list[i].count]
             Rec(f) == f = [i \in 0..n |-> IF i = 0 THEN 0 ELSE f[i - 1] + list[i].count]
             g == Upto(list)
  <1>1. n \in Nat /\ \A i \in 1..n : c[i] \in Nat /\ c[i] = list[i].count
    BY CountsAreNumbers
  <1>2. g = CHOOSE f : Rec(f)
    BY DEF Upto
  <1> HIDE DEF c, n, g
  <1>3. PICK f \in [0..n -> Nat] : f = [i \in 0..n |-> IF i = 0 THEN 0 ELSE f[i - 1] + c[i]]
    BY <1>1, SumsExist
  <1>4. \A i \in 0..n : f[i] = IF i = 0 THEN 0 ELSE f[i - 1] + list[i].count
    <2>1. \A i \in 0..n : f[i] = IF i = 0 THEN 0 ELSE f[i - 1] + c[i]
      BY <1>3
    <2>2. \A i \in 0..n : i = 0 \/ i \in 1..n
      BY <1>1
    <2>3. QED
      BY <1>1, <2>1, <2>2
  <1>5. Rec(g)
    <2>1. Rec(f)
      BY <1>4
    <2>2. QED
      BY <1>2, <2>1
  <1>6. \A i \in 0..n : g[i] = IF i = 0 THEN 0 ELSE g[i - 1] + list[i].count
    BY <1>5
  <1>7. 0..n \subseteq {i \in 0..n : g[i] \in Nat}
    <2> DEFINE T == {i \in 0..n : g[i] \in Nat}
    <2>1. 0 \in T
      BY <1>1, <1>6
    <2>2. ASSUME NEW i \in 0..(n - 1), i \in T
          PROVE  i + 1 \in T
      <3>1. i + 1 \in 1..n /\ i + 1 \in 0..n /\ i + 1 # 0 /\ (i + 1) - 1 = i
        BY <1>1
      <3>2. g[i + 1] = g[i] + list[i + 1].count
        BY <1>6, <3>1
      <3>3. list[i + 1].count \in Nat
        BY <1>1, <3>1
      <3>4. QED
        BY <2>2, <3>1, <3>2, <3>3
    <2> HIDE DEF T
    <2>3. 0..n \subseteq T
      BY <1>1, <2>1, <2>2, InductionUpTo
    <2>4. QED
      BY <2>3 DEF T
  <1>8. g \in [0..n -> Nat]
    BY <1>5, <1>7
  <1>9. Sums(g, n, c)
    <2>1. g[0] = 0
      BY <1>1, <1>6
    <2>2. ASSUME NEW i \in 1..n
          PROVE  g[i] = g[i - 1] + c[i]
      <3>1. i \in 0..n /\ i # 0 /\ c[i] = list[i].count
        BY <1>1
      <3>2. QED
        BY <1>6, <3>1
    <2>3. QED
      BY <1>8, <2>1, <2>2 DEF Sums
  <1>10. QED
    BY <1>9 DEF c, n, g

\* Upto adds up, it grows, and each byte has its buffer.
LEMMA UptoFacts ==
    ASSUME NEW list \in Seq(BufferType)
    PROVE  /\ Len(list) \in Nat /\ \A i \in 0..Len(list) : Upto(list)[i] \in Nat
           /\ Upto(list)[0] = 0
           /\ \A i \in 1..Len(list) :
                 list[i].count \in Nat /\ Upto(list)[i] = Upto(list)[i - 1] + list[i].count
           /\ \A j \in 0..Len(list) : \A i \in 0..j : Upto(list)[i] <= Upto(list)[j]
           /\ Counts(list) = Upto(list)[Len(list)] /\ Counts(list) \in Nat
           /\ \A k \in 1..Counts(list) :
                 \E i \in 1..Len(list) : Upto(list)[i - 1] < k /\ k <= Upto(list)[i]
  <1> DEFINE n == Len(list)
             u == Upto(list)
             c == [i \in 1..n |-> list[i].count]
  <1>1. n \in Nat /\ \A i \in 1..n : c[i] \in Nat /\ c[i] = list[i].count
    BY CountsAreNumbers
  <1>2. Sums(u, n, c)
    BY UptoSums
  <1>3. Counts(list) = u[n]
    BY DEF Counts
  <1> HIDE DEF n, u, c
  <1>4. /\ u[0] = 0 /\ \A i \in 0..n : u[i] \in Nat
        /\ \A i \in 1..n : list[i].count \in Nat /\ u[i] = u[i - 1] + list[i].count
    BY <1>1, <1>2 DEF Sums
  <1>5. \A j \in 0..n : \A i \in 0..j : u[i] <= u[j]
    BY <1>1, <1>2, SumsGrow
  <1>6. u[n] \in Nat
    BY <1>1, <1>4
  <1>7. ASSUME NEW k \in 1..u[n]
        PROVE  \E i \in 1..n : u[i - 1] < k /\ k <= u[i]
    <2>1. k \in Nat \ {0} /\ k <= u[n]
      BY <1>6
    <2>2. QED
      BY <1>1, <1>2, <2>1, SumsFind
  <1>8. QED
    BY <1>1, <1>3, <1>4, <1>5, <1>6, <1>7 DEF n, u

\* Where two lists have the same counts, their offsets go the same way.
AlikeLists(list, a, rest, b, l) == \A i \in 1..l : list[a + i].count = rest[b + i].count

LEMMA UptoShift ==
    ASSUME NEW list \in Seq(BufferType), NEW rest \in Seq(BufferType),
           NEW a \in Nat, NEW b \in Nat, NEW l \in Nat, a + l <= Len(list), b + l <= Len(rest),
           AlikeLists(list, a, rest, b, l)
    PROVE  Parallel(Upto(list), a, Upto(rest), b, l)
  <1> DEFINE n == Len(list)
             m == Len(rest)
             c == [i \in 1..n |-> list[i].count]
             d == [i \in 1..m |-> rest[i].count]
  <1>1. /\ n \in Nat /\ \A i \in 1..n : c[i] \in Nat /\ c[i] = list[i].count
        /\ m \in Nat /\ \A i \in 1..m : d[i] = rest[i].count
    BY CountsAreNumbers
  <1>2. Sums(Upto(list), n, c) /\ Sums(Upto(rest), m, d) /\ a + l <= n /\ b + l <= m
    BY UptoSums
  <1> HIDE DEF n, m, c, d
  <1>3. Alike(c, a, d, b, l)
    <2>1. ASSUME NEW i \in 1..l
          PROVE  c[a + i] \in Nat /\ c[a + i] = d[b + i]
      <3>1. a + i \in 1..n /\ b + i \in 1..m
        BY <1>1, <1>2
      <3>2. list[a + i].count = rest[b + i].count
        BY DEF AlikeLists
      <3>3. QED
        BY <1>1, <3>1, <3>2
    <2>2. QED
      BY <2>1 DEF Alike
  <1>4. QED
    BY <1>1, <1>2, <1>3, SumsShift

\* Lists that begin alike have the same offsets there.
LEMMA UptoPrefix ==
    ASSUME NEW list \in Seq(BufferType), NEW rest \in Seq(BufferType),
           NEW l \in Nat, l <= Len(list), l <= Len(rest),
           \A i \in 1..l : list[i].count = rest[i].count
    PROVE  \A i \in 0..l : Upto(list)[i] = Upto(rest)[i]
  <1>1. Parallel(Upto(list), 0, Upto(rest), 0, l)
    <2>1. 0 + l <= Len(list) /\ 0 + l <= Len(rest)
      OBVIOUS
    <2>2. AlikeLists(list, 0, rest, 0, l)
      BY DEF AlikeLists
    <2>3. QED
      BY <2>1, <2>2, UptoShift
  <1>2. /\ Upto(list)[0] = 0 /\ \A i \in 0..Len(list) : Upto(list)[i] \in Nat
        /\ Upto(rest)[0] = 0 /\ \A i \in 0..Len(rest) : Upto(rest)[i] \in Nat
        /\ Len(list) \in Nat /\ Len(rest) \in Nat
    BY UptoFacts
  <1>3. QED
    BY <1>1, <1>2 DEF Parallel

-----------------------------------------------------------------------------
(* What readv does to a ring (TcpConnection.cpp:293-340).                  *)

\* The tail, as the type invariant has it.
LEMMA TailFields ==
    ASSUME TypeOK
    PROVE  /\ Tail_ \in BufferType /\ Tail_.pop \in Offsets
           /\ Room \in Nat /\ Room = capacity_ - Tail_.count /\ Room <= capacity_
  <1>1. Tail_ \in BufferType /\ Tail_.pop \in Offsets
    BY DEF TypeOK, BuffersOK, Tail_
  <1>2. QED
    BY <1>1, BufferFields DEF Room

\* A run of n addresses, and one that goes around the end of a ring of c.
Straight(s, p, n) == s \in Seq(Nat) /\ Len(s) = n /\ \A i \in 1..n : s[i] = p + i - 1
Wrapped(s, c, p, q) ==
    /\ s \in Seq(Nat) /\ Len(s) = (c - p) + q
    /\ \A i \in 1..Len(s) : s[i] = IF i <= c - p THEN p + i - 1 ELSE i - (c - p) - 1

LEMMA AroundTheEnd ==
    ASSUME NEW c \in Nat, NEW p \in Nat, p <= c, NEW q \in Nat,
           NEW one, Straight(one, p, c - p), NEW two, Straight(two, 0, q)
    PROVE  Wrapped(one \o two, c, p, q)
  <1> DEFINE s == one \o two
  <1>1. /\ one \in Seq(Nat) /\ Len(one) = c - p /\ \A i \in 1..(c - p) : one[i] = p + i - 1
        /\ two \in Seq(Nat) /\ Len(two) = q /\ \A i \in 1..q : two[i] = i - 1
    BY DEF Straight
  <1>2. s \in Seq(Nat) /\ Behind(s, one, two)
    BY <1>1, ConcatBehind
  <1> HIDE DEF s
  <1>3. /\ Len(s) = (c - p) + q
        /\ \A k \in 1..(c - p) : s[k] = one[k]
        /\ \A k \in 1..q : s[(c - p) + k] = two[k]
    BY <1>1, <1>2 DEF Behind
  <1>4. ASSUME NEW i \in 1..Len(s)
        PROVE  s[i] = IF i <= c - p THEN p + i - 1 ELSE i - (c - p) - 1
    <2>1. CASE i <= c - p
      BY <1>1, <1>3, <2>1
    <2>2. CASE ~(i <= c - p)
      <3> DEFINE k == i - (c - p)
      <3>1. k \in 1..q /\ (c - p) + k = i
        BY <1>3, <2>2
      <3>2. s[(c - p) + k] = two[k]
        BY <1>3, <3>1
      <3>3. QED
        BY <1>1, <2>2, <3>1, <3>2
    <2>3. QED
      BY <2>1, <2>2
  <1>5. QED
    BY <1>2, <1>3, <1>4 DEF s, Wrapped

\* The addresses readv is given, one by one.
LEMMA SlotsAre ==
    ASSUME TypeOK
    PROVE  /\ TailSlots \in Seq(Nat)
           /\ Room = 0 => TailSlots = <<>>
           /\ Room # 0 /\ Tail_.push < Tail_.pop =>
                 /\ Len(TailSlots) = Room
                 /\ \A i \in 1..Room : TailSlots[i] = Tail_.push + i - 1
           /\ Room # 0 /\ ~(Tail_.push < Tail_.pop) =>
                 /\ Len(TailSlots) = (capacity_ - Tail_.push) + Tail_.pop
                 /\ \A i \in 1..Len(TailSlots) :
                       TailSlots[i] = IF i <= capacity_ - Tail_.push THEN Tail_.push + i - 1
                                      ELSE i - (capacity_ - Tail_.push) - 1
  <1> DEFINE p == Tail_.push
             q == Tail_.pop
             r == Room
             c == capacity_
  <1>1. c \in Nat /\ p \in Nat /\ p <= c /\ q \in Nat /\ r \in Nat
    BY TailFields, BufferFields
  <1>2. CASE Room = 0
    BY <1>2 DEF TailSlots
  <1>3. CASE Room # 0 /\ Tail_.push < Tail_.pop
    <2>1. TailSlots = [i \in 1..r |-> p + i - 1]
      BY <1>3 DEF TailSlots
    <2> HIDE DEF p, q, r, c
    <2>2. TailSlots \in Seq(Nat) /\ Len(TailSlots) = r /\ \A i \in 1..r : TailSlots[i] = p + i - 1
      <3> DEFINE s == [i \in 1..r |-> p + i - 1]
      <3>1. s \in Seq(Nat) /\ Len(s) = r /\ \A i \in 1..r : s[i] = p + i - 1
        BY <1>1
      <3>2. QED
        BY <2>1, <3>1
    <2>3. QED
      BY <1>3, <2>2 DEF p, q, r, c
  <1>4. CASE Room # 0 /\ ~(Tail_.push < Tail_.pop)
    <2>1. TailSlots = [i \in 1..(c - p) |-> p + i - 1] \o [i \in 1..q |-> i - 1]
      BY <1>4 DEF TailSlots
    <2> DEFINE s == TailSlots
               one == [i \in 1..(c - p) |-> p + i - 1]
               two == [i \in 1..q |-> i - 1]
    <2> HIDE DEF p, q, c
    <2>2. Straight(one, p, c - p)
      BY <1>1 DEF Straight
    <2>3. Straight(two, 0, q)
      BY <1>1 DEF Straight
    <2>4. s = one \o two
      BY <2>1
    <2> HIDE DEF s, one, two
    <2>5. Wrapped(s, c, p, q)
      BY <1>1, <2>2, <2>3, <2>4, AroundTheEnd
    <2>6. QED
      BY <1>4, <2>5 DEF p, q, c, s, Wrapped
  <1>5. QED
    BY <1>2, <1>3, <1>4

\* readv is given each address once.
LEMMA SlotsDiffer ==
    ASSUME TypeOK
    PROVE  \A i, j \in 1..Len(TailSlots) : TailSlots[i] = TailSlots[j] => i = j
  <1> DEFINE p == Tail_.push
             q == Tail_.pop
             c == capacity_
             s == TailSlots
  <1>1. c \in Nat /\ p \in Nat /\ p <= c /\ q \in Nat /\ Room \in Nat
    BY TailFields, BufferFields
  <1>2. CASE Room = 0
    BY <1>2, SlotsAre
  <1>3. CASE Room # 0 /\ p < q
    <2>1. Len(s) = Room /\ \A i \in 1..Room : s[i] = p + i - 1
      BY <1>3, SlotsAre
    <2> HIDE DEF p, q, c, s
    <2>2. \A i, j \in 1..Len(s) : s[i] = s[j] => i = j
      BY <1>1, <2>1
    <2>3. QED
      BY <2>2 DEF s
  <1>4. CASE Room # 0 /\ ~(p < q)
    <2>1. /\ Len(s) = (c - p) + q
          /\ \A i \in 1..Len(s) : s[i] = IF i <= c - p THEN p + i - 1 ELSE i - (c - p) - 1
      BY <1>4, SlotsAre
    <2> HIDE DEF p, q, c, s
    <2>2. \A i, j \in 1..Len(s) : s[i] = s[j] => i = j
      BY <1>1, <1>4, <2>1
    <2>3. QED
      BY <2>2 DEF s
  <1>5. QED
    BY <1>2, <1>3, <1>4

\* In a ring they are the free places behind push, around the end.
LEMMA SlotsOfRing ==
    ASSUME TypeOK, Ring(Tail_)
    PROVE  /\ Len(TailSlots) = Room
           /\ \A j \in 1..Room :
                 TailSlots[j] = (Tail_.pop + (Tail_.count + j) - 1) % capacity_
  <1> DEFINE p == Tail_.push
             q == Tail_.pop
             n == Tail_.count
             c == capacity_
             s == TailSlots
             r == Room
  <1>1. /\ c \in Nat \ {0} /\ p \in Nat /\ p <= c /\ q \in Nat /\ q < c
        /\ n \in Nat /\ r \in Nat /\ r = c - n
        /\ q + n = p \/ q + n = p + c
    BY TailFields, BufferFields DEF Ring, Offsets
  <1>2. /\ r = 0 => Len(s) = 0
        /\ r # 0 /\ p < q => Len(s) = r /\ \A i \in 1..r : s[i] = p + i - 1
        /\ r # 0 /\ ~(p < q) =>
              /\ Len(s) = (c - p) + q
              /\ \A i \in 1..Len(s) : s[i] = IF i <= c - p THEN p + i - 1 ELSE i - (c - p) - 1
    BY SlotsAre
  <1> HIDE DEF p, q, n, c, s, r
  <1>3. Len(s) = r
    BY <1>1, <1>2
  <1>4. ASSUME NEW j \in 1..r
        PROVE  s[j] = (q + (n + j) - 1) % c
    <2> DEFINE x == q + (n + j) - 1
    <2>1. x \in Nat /\ x < c + c
      BY <1>1
    <2>2. x = p + j - 1 \/ x = p + j - 1 + c
      BY <1>1
    <2>3. s[j] = IF x < c THEN x ELSE x - c
      BY <1>1, <1>2, <1>3, <2>1, <2>2
    <2> HIDE DEF x
    <2>4. x % c = IF x < c THEN x ELSE x - c
      BY <1>1, <2>1, Around
    <2>5. QED
      BY <2>3, <2>4 DEF x
  <1>5. QED
    BY <1>3, <1>4 DEF p, q, n, c, s, r

\* The buffer after readv: what it was given lies at the addresses, as far as
\* they go, and all else is as it was.
LEMMA FilledIs ==
    ASSUME NEW b \in BufferType, NEW slots \in Seq(Nat), NEW s \in Seq(Nat),
           \A i, j \in 1..Len(slots) : slots[i] = slots[j] => i = j
    PROVE  /\ Filled(b, slots, s) \in BufferType
           /\ Filled(b, slots, s).count = b.count
           /\ Filled(b, slots, s).push = b.push
           /\ Filled(b, slots, s).pop = b.pop
           /\ \A k \in 1..Len(slots) : k <= Len(s) /\ slots[k] \in Offsets
                 => Filled(b, slots, s).buffer[slots[k]] = s[k]
           /\ \A i \in Offsets : (\A k \in 1..Len(slots) : k <= Len(s) => slots[k] # i)
                 => Filled(b, slots, s).buffer[i] = b.buffer[i]
  <1> DEFINE At(i, k) == k \in 1..Len(slots) /\ slots[k] = i
             Given(i) == \E k \in 1..Len(slots) : k <= Len(s) /\ slots[k] = i
             F == [i \in Offsets |->
                     IF Given(i) THEN s[CHOOSE k \in 1..Len(slots) : slots[k] = i] ELSE b.buffer[i]]
             f == Filled(b, slots, s)
  <1>1. f = [b EXCEPT !.buffer = F]
    BY DEF Filled
  <1>2. b.buffer \in [Offsets -> Nat] /\ Len(slots) \in Nat /\ Len(s) \in Nat
    BY DEF BufferType
  <1>3. ASSUME NEW k \in 1..Len(slots), k <= Len(s)
        PROVE  (CHOOSE j \in 1..Len(slots) : slots[j] = slots[k]) = k /\ s[k] \in Nat
    <2>1. (CHOOSE j \in 1..Len(slots) : slots[j] = slots[k]) \in 1..Len(slots)
          /\ slots[CHOOSE j \in 1..Len(slots) : slots[j] = slots[k]] = slots[k]
      OBVIOUS
    <2>2. s[k] \in Nat
      BY <1>2, <1>3
    <2>3. QED
      BY <2>1, <2>2
  <1>4. ASSUME NEW i \in Offsets
        PROVE  F[i] \in Nat
    <2>1. CASE Given(i)
      <3>1. PICK k \in 1..Len(slots) : k <= Len(s) /\ slots[k] = i
        BY <2>1
      <3>2. (CHOOSE j \in 1..Len(slots) : slots[j] = i) = k /\ s[k] \in Nat
        BY <1>3, <3>1
      <3>3. QED
        BY <2>1, <3>2
    <2>2. CASE ~Given(i)
      BY <1>2, <2>2
    <2>3. QED
      BY <2>1, <2>2
  <1>5. F \in [Offsets -> Nat]
    BY <1>4
  <1>6. ASSUME NEW k \in 1..Len(slots), k <= Len(s), slots[k] \in Offsets
        PROVE  F[slots[k]] = s[k]
    <2>1. Given(slots[k])
      BY <1>6
    <2>2. QED
      BY <1>3, <1>6, <2>1
  <1>7. ASSUME NEW i \in Offsets, \A k \in 1..Len(slots) : k <= Len(s) => slots[k] # i
        PROVE  F[i] = b.buffer[i]
    <2>1. ~Given(i)
      BY <1>7
    <2>2. QED
      BY <2>1
  <1> HIDE DEF F, f
  <1>8. f \in BufferType
    BY <1>1, <1>5 DEF BufferType
  <1>9. f.buffer = F /\ f.count = b.count /\ f.push = b.push /\ f.pop = b.pop
    BY <1>1 DEF BufferType
  <1>10. QED
    BY <1>6, <1>7, <1>8, <1>9 DEF f

\* The buffer behind the tail after readv.
LEMMA CopiedIs ==
    ASSUME NEW b \in BufferType, NEW s \in Seq(Nat)
    PROVE  LET x == [b EXCEPT !.buffer = Copied(b, 0, s)]
           IN  /\ x \in BufferType
               /\ x.count = b.count /\ x.push = b.push /\ x.pop = b.pop
               /\ \A k \in 1..Len(s) : k <= capacity_ => x.buffer[k - 1] = s[k]
  <1> DEFINE F == Copied(b, 0, s)
             c == capacity_
             x == [b EXCEPT !.buffer = F]
  <1>1. c \in Nat \ {0} /\ Offsets = 0..(c - 1) /\ b.buffer \in [Offsets -> Nat] /\ Len(s) \in Nat
    BY BufferFields DEF Offsets
  <1>2. F = [i \in Offsets |-> LET k == (i - 0) % c IN IF k < Len(s) THEN s[k + 1] ELSE b.buffer[i]]
    BY DEF Copied
  <1> HIDE DEF F, c, x
  <1>3. ASSUME NEW i \in Offsets
        PROVE  (i - 0) % c = i
    <2>1. i \in Nat /\ i < c /\ i - 0 = i
      BY <1>1
    <2>2. i % c = i
      BY <1>1, <2>1, Within
    <2>3. QED
      BY <2>1, <2>2
  <1>4. \A i \in Offsets : F[i] = IF i < Len(s) THEN s[i + 1] ELSE b.buffer[i]
    BY <1>2, <1>3
  <1>5. F \in [Offsets -> Nat]
    <2>1. ASSUME NEW i \in Offsets
          PROVE  F[i] \in Nat
      <3>1. CASE i < Len(s)
        <4>1. i + 1 \in 1..Len(s)
          BY <1>1, <3>1
        <4>2. s[i + 1] \in Nat
          BY <4>1
        <4>3. QED
          BY <1>4, <3>1, <4>2
      <3>2. CASE ~(i < Len(s))
        BY <1>1, <1>4, <3>2
      <3>3. QED
        BY <3>1, <3>2
    <2>2. QED
      BY <1>2, <2>1
  <1>6. ASSUME NEW k \in 1..Len(s), k <= c
        PROVE  F[k - 1] = s[k]
    <2>1. k - 1 \in Offsets /\ k - 1 < Len(s) /\ (k - 1) + 1 = k
      BY <1>1, <1>6
    <2>2. QED
      BY <1>4, <2>1
  <1>7. x = [b EXCEPT !.buffer = F]
    BY DEF x
  <1>8. x \in BufferType
    BY <1>5, <1>7 DEF BufferType
  <1>9. x.buffer = F /\ x.count = b.count /\ x.push = b.push /\ x.pop = b.pop
    BY <1>7 DEF BufferType
  <1>10. QED
    BY <1>6, <1>8, <1>9 DEF c, x, F

\* No two of the places from a ring's pop on are the same.
LEMMA PlacesDiffer ==
    ASSUME NEW c \in Nat \ {0}, NEW q \in 0..(c - 1), NEW x \in 1..c, NEW y \in 1..c
    PROVE  (q + x - 1) % c = (q + y - 1) % c => x = y
  <1> DEFINE u == q + x - 1
             v == q + y - 1
  <1>1. u \in Nat /\ u < c + c /\ v \in Nat /\ v < c + c /\ u - q + 1 = x /\ v - q + 1 = y
    OBVIOUS
  <1>2. u - v < c /\ v - u < c
    OBVIOUS
  <1> HIDE DEF u, v
  <1>3. u % c = IF u < c THEN u ELSE u - c
    BY <1>1, Around
  <1>4. v % c = IF v < c THEN v ELSE v - c
    BY <1>1, Around
  <1>5. u % c = v % c => u = v
    BY <1>1, <1>2, <1>3, <1>4
  <1>6. u = v => x = y
    BY <1>1
  <1>7. QED
    BY <1>5, <1>6 DEF u, v

\* The tail's counters after n bytes were read.
LEMMA CountedIs ==
    ASSUME TypeOK, NEW b \in BufferType, b.pop = Tail_.pop, b.push = Tail_.push,
           b.count = Tail_.count, NEW n \in Nat
    PROVE  LET t == Counted(b, n)
           IN  /\ t \in BufferType
               /\ t.buffer = b.buffer /\ t.pop = b.pop
               /\ n < Room => t.count = b.count + n /\ t.push = (b.push + n) % capacity_
               /\ ~(n < Room) => t.count = capacity_ /\ t.push = b.pop
               /\ t.count = b.count + (IF n < Room THEN n ELSE Room)
  <1> DEFINE c == capacity_
             p == b.push
             m == b.count
             t == Counted(b, n)
  <1>1. c \in Nat \ {0} /\ p \in Nat /\ m \in Nat /\ Room \in Nat /\ Room = c - m
    BY TailFields, BufferFields
  <1>2. CASE n < Room
    <2>1. t = [b EXCEPT !.push = (@ + n) % c, !.count = @ + n]
      BY <1>2 DEF Counted
    <2>2. (p + n) % c \in 0..c /\ m + n \in 0..c
      <3> HIDE DEF c, p, m, t
      <3>1. m + n \in 0..c
        BY <1>1, <1>2
      <3>2. p + n \in Nat
        BY <1>1
      <3> DEFINE x == p + n
      <3> HIDE DEF x
      <3>3. x % c \in 0..c
        BY <1>1, <3>2 DEF x
      <3>4. QED
        BY <3>1, <3>3 DEF x
    <2>3. [b EXCEPT !.push = (p + n) % c] \in BufferType
      BY <2>2 DEF BufferType
    <2>4. t = [[b EXCEPT !.push = (p + n) % c] EXCEPT !.count = m + n]
      BY <2>1 DEF BufferType
    <2>5. t \in BufferType
      BY <2>2, <2>3, <2>4 DEF BufferType
    <2>6. t.buffer = b.buffer /\ t.pop = b.pop /\ t.count = m + n /\ t.push = (p + n) % c
      BY <2>1 DEF BufferType
    <2>7. QED
      BY <1>2, <2>5, <2>6
  <1>3. CASE ~(n < Room)
    <2>1. t = [b EXCEPT !.push = b.pop, !.count = c]
      BY <1>3 DEF Counted
    <2>2. b.pop \in 0..c /\ c \in 0..c
      BY <1>1 DEF BufferType
    <2>3. [b EXCEPT !.push = b.pop] \in BufferType
      BY <2>2 DEF BufferType
    <2>4. t = [[b EXCEPT !.push = b.pop] EXCEPT !.count = c]
      BY <2>1 DEF BufferType
    <2>5. t \in BufferType
      BY <2>2, <2>3, <2>4 DEF BufferType
    <2>6. t.buffer = b.buffer /\ t.pop = b.pop /\ t.count = c /\ t.push = b.pop
      BY <2>1 DEF BufferType
    <2>7. m + Room = c
      BY <1>1
    <2>8. QED
      BY <1>3, <2>5, <2>6, <2>7
  <1>4. QED
    BY <1>2, <1>3

\* readv and the counters that follow it, in the tail.
LEMMA TailFilled ==
    ASSUME TypeOK, NEW s \in Seq(Nat), NEW n \in Nat
    PROVE  LET t == Counted(Filled(Tail_, TailSlots, s), n)
           IN  /\ t \in BufferType
               /\ t.pop = Tail_.pop
               /\ t.count = Tail_.count + (IF n < Room THEN n ELSE Room)
  <1> DEFINE f == Filled(Tail_, TailSlots, s)
  <1>1. Tail_ \in BufferType /\ TailSlots \in Seq(Nat)
    BY TailFields, SlotsAre
  <1>2. f \in BufferType /\ f.count = Tail_.count /\ f.push = Tail_.push /\ f.pop = Tail_.pop
    BY <1>1, SlotsDiffer, FilledIs
  <1> HIDE DEF f
  <1>3. /\ Counted(f, n) \in BufferType /\ Counted(f, n).pop = f.pop
        /\ Counted(f, n).count = f.count + (IF n < Room THEN n ELSE Room)
    BY <1>2, CountedIs
  <1>4. QED
    BY <1>2, <1>3 DEF f

\* push comes round, as far behind pop as there are bytes.
Meets(c, q, m, p) == q + m = p \/ q + m = p + c

LEMMA PushComesRound ==
    ASSUME NEW c \in Nat \ {0}, NEW q \in 0..(c - 1), NEW m \in Nat, NEW p \in 0..c,
           Meets(c, q, m, p), NEW n \in Nat, m + n < c
    PROVE  Meets(c, q, m + n, (p + n) % c)
  <1> DEFINE x == p + n
  <1>1. x \in Nat /\ x < c + c
    OBVIOUS
  <1>2. q + (m + n) = x \/ q + (m + n) = x + c
    BY DEF Meets
  <1>3. x % c = IF x < c THEN x ELSE x - c
    <2> HIDE DEF x
    <2>1. QED
      BY <1>1, Around
  <1>4. q + (m + n) < c + c
    OBVIOUS
  <1> DEFINE y == q + (m + n)
             z == x % c
  <1>5. z = x \/ z = x - c
    BY <1>3
  <1>6. x < c => z = x
    BY <1>3
  <1>7. ~(x < c) => z = x - c
    BY <1>3
  <1>8. y \in Nat
    OBVIOUS
  <1> HIDE DEF x, y, z
  <1>9. y = z \/ y = z + c
    BY <1>1, <1>2, <1>4, <1>6, <1>7, <1>8 DEF y
  <1>10. QED
    BY <1>9 DEF x, y, z, Meets

\* What a ring holds, readv leaves there, and puts the new bytes behind.
LEMMA TailHas ==
    ASSUME TypeOK, NEW base \in Nat, Has(Tail_, base), NEW s \in Seq(Nat),
           \A k \in 1..Len(s) : s[k] = base + Tail_.count + k
    PROVE  Has(Counted(Filled(Tail_, TailSlots, s), Len(s)), base)
  <1> DEFINE b == Tail_
             f == Filled(b, TailSlots, s)
             n == Len(s)
             t == Counted(f, n)
             c == capacity_
             q == b.pop
             m == b.count
             p == b.push
             r == Room
             Place(k) == (q + k - 1) % c
  <1>1. /\ b \in BufferType /\ TailSlots \in Seq(Nat) /\ n \in Nat
        /\ Ring(b) /\ \A k \in 1..m : b.buffer[Place(k)] = base + k
    BY TailFields, SlotsAre DEF Has
  <1>2. /\ c \in Nat \ {0} /\ q \in 0..(c - 1) /\ m \in Nat /\ m <= c /\ p \in 0..c
        /\ r \in Nat /\ r = c - m
    BY TailFields, BufferFields DEF Offsets
  <1>3. /\ f \in BufferType /\ f.count = m /\ f.push = p /\ f.pop = q
        /\ \A k \in 1..Len(TailSlots) : k <= n /\ TailSlots[k] \in Offsets
              => f.buffer[TailSlots[k]] = s[k]
        /\ \A i \in Offsets : (\A k \in 1..Len(TailSlots) : k <= n => TailSlots[k] # i)
              => f.buffer[i] = b.buffer[i]
    BY <1>1, SlotsDiffer, FilledIs, ZenonT(40)
  <1>4. /\ Len(TailSlots) = r /\ \A j \in 1..r : TailSlots[j] = Place(m + j)
    BY <1>1, SlotsOfRing
  <1> HIDE DEF b, f
  <1>5. /\ t.buffer = f.buffer /\ t.pop = q
        /\ n < r => t.count = m + n /\ t.push = (p + n) % c
        /\ ~(n < r) => t.count = c /\ t.push = q
    BY <1>1, <1>3, CountedIs DEF b
  <1>6. Ring(t)
    <2> DEFINE tp == t.push
               tc == t.count
               tq == t.pop
    <2>1. q + m = p \/ q + m = p + c
      BY <1>1 DEF Ring
    <2>2. tq + tc = tp \/ tq + tc = tp + c
      <3>0. /\ tq = q
            /\ n < r => tc = m + n /\ tp = (p + n) % c
            /\ ~(n < r) => tc = c /\ tp = q
        BY <1>5
      <3> HIDE DEF c, q, m, p, r, t, n, tp, tc, tq
      <3>1. CASE n < r
        <4>1. m + n < c
          BY <1>1, <1>2, <3>1
        <4>2. Meets(c, q, m + n, (p + n) % c)
          <5>1. Meets(c, q, m, p)
            BY <2>1 DEF Meets
          <5>2. QED
            BY <1>1, <1>2, <4>1, <5>1, PushComesRound
        <4>3. QED
          BY <3>0, <3>1, <4>2 DEF Meets
      <3>2. CASE ~(n < r)
        BY <3>0, <3>2
      <3>3. QED
        BY <3>1, <3>2
    <2>3. QED
      BY <2>2 DEF Ring
  <1>7. \A k \in 1..c : Place(k) \in Offsets
    <2> HIDE DEF c, q, m, p, r, t, n
    <2>1. ASSUME NEW k \in 1..c
          PROVE  Place(k) \in 0..(c - 1)
      <3> DEFINE x == q + k - 1
      <3>1. x \in Nat
        BY <1>2
      <3> HIDE DEF x
      <3>2. x % c \in 0..(c - 1)
        BY <1>2, <3>1
      <3>3. QED
        BY <3>2 DEF x
    <2>2. QED
      BY <2>1 DEF c, Offsets
  <1>8. \A x, y \in 1..c : Place(x) = Place(y) => x = y
    <2> HIDE DEF c, q, m, p, r, t, n
    <2>1. QED
      BY <1>2, PlacesDiffer
  <1> HIDE DEF c, q, m, p, r, t, n, Place
  <1>9. ASSUME NEW k \in 1..t.count
        PROVE  t.buffer[Place(k)] = base + k
    <2>1. k \in 1..c /\ (k <= m \/ k \in (m + 1)..(m + n))
      BY <1>1, <1>2, <1>5
    <2>2. Place(k) \in Offsets
      BY <1>7, <2>1
    <2>3. CASE k <= m
      <3>1. ASSUME NEW j \in 1..Len(TailSlots)
            PROVE  TailSlots[j] # Place(k)
        <4>1. m + j \in 1..c /\ j \in 1..r /\ m + j # k
          BY <1>2, <1>4, <2>3
        <4>2. Place(m + j) # Place(k)
          BY <1>8, <2>1, <4>1
        <4>3. QED
          BY <1>4, <4>1, <4>2
      <3>2. f.buffer[Place(k)] = b.buffer[Place(k)]
        BY <1>3, <2>2, <3>1
      <3>3. k \in 1..m
        BY <2>3, <1>2, <2>1
      <3>4. QED
        BY <1>1, <1>5, <3>2, <3>3
    <2>4. CASE ~(k <= m)
      <3> DEFINE j == k - m
      <3>1. j \in 1..r /\ j \in 1..n /\ j <= n /\ m + j = k
        BY <1>1, <1>2, <2>1, <2>4
      <3> HIDE DEF j
      <3>2. TailSlots[j] = Place(k) /\ j \in 1..Len(TailSlots)
        BY <1>4, <3>1
      <3>3. f.buffer[Place(k)] = s[j]
        BY <1>3, <2>2, <3>1, <3>2
      <3>4. s[j] = base + m + j
        BY <3>1 DEF n, m, b
      <3>5. base + m + j = base + k
        BY <1>2, <3>1
      <3>6. QED
        BY <1>5, <3>3, <3>4, <3>5
    <2>5. QED
      BY <2>3, <2>4
  <1>10. Has(t, base)
    BY <1>5, <1>6, <1>9 DEF Has, Place, c
  <1>11. QED
    BY <1>10 DEF t, f, b, n

-----------------------------------------------------------------------------
(* What readv does to the list.                                            *)

\* The list with a buffer behind the tail.
LEMMA WithNextIs ==
    ASSUME TypeOK
    PROVE  /\ readTail_ \in Nat \ {0}
           /\ WithNext \in Seq(BufferType) /\ Len(WithNext) = readTail_ + 1
           /\ \A i \in 1..readTail_ : WithNext[i] = buffers_[i]
           /\ LET spare == WithNext[readTail_ + 1]
              IN  spare.count = 0 /\ spare.push = 0 /\ spare.pop = 0
  <1> DEFINE t == readTail_
             l == buffers_
             z == Take
  <1>1. l \in Seq(BufferType) /\ Len(l) \in Nat /\ t \in 1..Len(l) /\ Len(l) - t \in {0, 1}
    BY DEF TypeOK, BuffersOK
  <1>2. z \in BufferType /\ z.count = 0 /\ z.push = 0 /\ z.pop = 0
    <2>1. capacity_ \in Nat \ {0} /\ 0 \in 0..capacity_
      BY CapacityAssumption
    <2>2. [i \in Offsets |-> Garbage] \in [Offsets -> Nat]
      BY DEF Garbage
    <2>3. QED
      BY <2>1, <2>2 DEF Take, BufferType
  <1>3. CASE t = Len(l)
    <2>1. WithNext = Append(l, z)
      BY <1>3 DEF WithNext, TakeNext
    <2> HIDE DEF t, l, z
    <2>2. Append(l, z) \in Seq(BufferType) /\ Len(Append(l, z)) = t + 1
      BY <1>1, <1>2, <1>3
    <2>3. \A i \in 1..t : Append(l, z)[i] = l[i]
      BY <1>1, <1>3
    <2>4. Append(l, z)[t + 1] = z
      BY <1>1, <1>3
    <2>5. QED
      BY <1>1, <1>2, <2>1, <2>2, <2>3, <2>4 DEF t, l
  <1>4. CASE t # Len(l)
    <2>1. WithNext = l
      BY <1>4 DEF WithNext
    <2>2. t < Len(l) /\ Len(l) = t + 1
      BY <1>1, <1>4
    <2>3. l[Len(l)].count = 0 /\ l[Len(l)].push = 0 /\ l[Len(l)].pop = 0
      BY <2>2 DEF TypeOK, BuffersOK
    <2>4. QED
      BY <1>1, <2>1, <2>2, <2>3
  <1>5. QED
    BY <1>3, <1>4

\* Behind the tail there is nothing.
LEMMA CountsUptoTail ==
    ASSUME TypeOK
    PROVE  /\ Upto(buffers_)[readTail_ - 1] \in Nat
           /\ Counts(buffers_) = Upto(buffers_)[readTail_]
           /\ Counts(buffers_) = Upto(buffers_)[readTail_ - 1] + Tail_.count
  <1> DEFINE t == readTail_
             l == buffers_
             u == Upto(l)
             n == Len(l)
  <1>1. l \in Seq(BufferType) /\ n \in Nat /\ t \in 1..n /\ n - t \in {0, 1}
        /\ (t < n => l[n].count = 0)
    BY DEF TypeOK, BuffersOK
  <1>2. /\ \A i \in 0..n : u[i] \in Nat
        /\ \A i \in 1..n : l[i].count \in Nat /\ u[i] = u[i - 1] + l[i].count
        /\ Counts(l) = u[n]
    BY <1>1, UptoFacts
  <1>3. Tail_ = l[t]
    BY DEF Tail_
  <1> HIDE DEF t, l, u, n
  <1>4. t - 1 \in 0..n /\ u[t] = u[t - 1] + l[t].count
    BY <1>1, <1>2
  <1>5. u[n] = u[t]
    <2>1. CASE t = n
      BY <2>1
    <2>2. CASE t # n
      <3>1. t < n /\ t = n - 1 /\ n \in 1..n
        BY <1>1, <2>2
      <3>2. u[n] = u[n - 1] + 0 /\ u[n - 1] \in Nat
        <4>1. n - 1 \in 0..n
          BY <1>1, <3>1
        <4>2. QED
          BY <1>1, <1>2, <3>1, <4>1
      <3>3. QED
        BY <3>1, <3>2
    <2>3. QED
      BY <2>1, <2>2
  <1>6. QED
    BY <1>2, <1>3, <1>4, <1>5 DEF t, l, u

\* The list with its tail and the buffer behind it replaced.
Replaced(T, X) == [WithNext EXCEPT ![readTail_] = T, ![readTail_ + 1] = X]

LEMMA ReplacedIs ==
    ASSUME TypeOK, NEW T \in BufferType, NEW X \in BufferType
    PROVE  LET list == Replaced(T, X)
           IN  /\ list \in Seq(BufferType) /\ Len(list) = readTail_ + 1
               /\ \A i \in 1..(readTail_ - 1) : list[i] = buffers_[i]
               /\ list[readTail_] = T /\ list[readTail_ + 1] = X
               /\ \A i \in 0..(readTail_ - 1) : Upto(list)[i] = Upto(buffers_)[i]
               /\ Upto(list)[readTail_] = Upto(buffers_)[readTail_ - 1] + T.count
               /\ Counts(list) = Upto(buffers_)[readTail_ - 1] + T.count + X.count
  <1> DEFINE list == Replaced(T, X)
             t == readTail_
             l == buffers_
             W == WithNext
             n == Len(l)
  <1>1. /\ t \in Nat \ {0} /\ W \in Seq(BufferType) /\ Len(W) = t + 1
        /\ \A i \in 1..t : W[i] = l[i]
    BY WithNextIs
  <1>2. l \in Seq(BufferType) /\ n \in Nat /\ t <= n
    BY DEF TypeOK, BuffersOK
  <1> HIDE DEF t, l, W, n, list
  <1>3. list = [[W EXCEPT ![t] = T] EXCEPT ![t + 1] = X]
    <2>1. Replaced(T, X) = [[W EXCEPT ![t] = T] EXCEPT ![t + 1] = X]
      BY DEF t, W, Replaced
    <2>2. QED
      BY <2>1 DEF list
  <1>4. list \in Seq(BufferType) /\ Len(list) = t + 1
    <2> DEFINE V == [W EXCEPT ![t] = T]
    <2>1. V \in Seq(BufferType) /\ Len(V) = t + 1
      BY <1>1
    <2>2. list = [V EXCEPT ![t + 1] = X]
      BY <1>3
    <2> HIDE DEF V
    <2>3. t + 1 \in 1..Len(V)
      BY <1>1, <2>1
    <2>4. /\ [V EXCEPT ![t + 1] = X] \in Seq(BufferType)
          /\ Len([V EXCEPT ![t + 1] = X]) = Len(V)
      BY <2>1, <2>3, ExceptSeq
    <2>5. list \in Seq(BufferType) /\ Len(list) = Len(V)
      BY <2>2, <2>4, Zenon
    <2>6. QED
      BY <2>1, <2>5
  <1>5. \A i \in 1..(t - 1) : list[i] = W[i] /\ W[i] = l[i]
    BY <1>1, <1>3
  <1>6. list[t] = T /\ list[t + 1] = X
    BY <1>1, <1>3
  <1>7. \A i \in 0..(t - 1) : Upto(list)[i] = Upto(l)[i]
    <2>1. t - 1 \in Nat /\ t - 1 <= Len(list) /\ t - 1 <= Len(l)
      BY <1>1, <1>2, <1>4 DEF n
    <2>2. \A i \in 1..(t - 1) : list[i].count = l[i].count
      BY <1>5
    <2>3. QED
      BY <1>2, <1>4, <2>1, <2>2, UptoPrefix
  <1>8. /\ \A i \in 0..(t + 1) : Upto(list)[i] \in Nat
        /\ \A i \in 1..(t + 1) : Upto(list)[i] = Upto(list)[i - 1] + list[i].count
        /\ Counts(list) = Upto(list)[t + 1]
    BY <1>4, UptoFacts
  <1>9. Upto(list)[t] = Upto(l)[t - 1] + T.count
    <2>1. t \in 1..(t + 1) /\ t - 1 \in 0..(t - 1)
      BY <1>1
    <2>2. QED
      BY <1>6, <1>7, <1>8, <2>1
  <1>10. Counts(list) = Upto(l)[t - 1] + T.count + X.count
    <2>1. t + 1 \in 1..(t + 1) /\ (t + 1) - 1 = t
      BY <1>1
    <2>2. Upto(list)[t + 1] = Upto(list)[t] + list[t + 1].count
      BY <1>8, <2>1
    <2>3. QED
      BY <1>6, <1>8, <1>9, <2>2
  <1>11. QED
    BY <1>4, <1>5, <1>6, <1>7, <1>9, <1>10 DEF t, l, list

\* The list holds what it held, and the new tail and the buffer behind it go on.
LEMMA ReplacedHolds ==
    ASSUME TypeOK, NEW T \in BufferType, NEW X \in BufferType, NEW D \in Nat,
           Holds(buffers_, D), T.pop = Tail_.pop, X.pop = 0,
           Has(T, D + Upto(buffers_)[readTail_ - 1]),
           Has(X, D + (Upto(buffers_)[readTail_ - 1] + T.count))
    PROVE  Holds(Replaced(T, X), D)
  <1> DEFINE t == readTail_
             l == buffers_
             U == Upto(l)[t - 1]
             k == Replaced(T, X)
  <1>1. /\ k \in Seq(BufferType) /\ Len(k) = t + 1
        /\ \A i \in 1..(t - 1) : k[i] = l[i]
        /\ k[t] = T /\ k[t + 1] = X
        /\ \A i \in 0..(t - 1) : Upto(k)[i] = Upto(l)[i]
        /\ Upto(k)[t] = U + T.count
    BY ReplacedIs
  <1>2. t \in 1..Len(l) /\ Tail_ = l[t] /\ Len(l) \in Nat /\ t \in Nat \ {0}
    BY WithNextIs DEF TypeOK, BuffersOK, Tail_
  <1> HIDE DEF k, t, l, U
  <1>3. ASSUME NEW i \in 1..(t + 1)
        PROVE  Has(k[i], D + Upto(k)[i - 1])
    <2>1. CASE i \in 1..(t - 1)
      <3>1. i \in 1..Len(l) /\ i - 1 \in 0..(t - 1)
        BY <1>2, <2>1
      <3>2. Has(l[i], D + Upto(l)[i - 1])
        BY <3>1 DEF Holds, l
      <3>3. Upto(k)[i - 1] = Upto(l)[i - 1]
        BY <1>1, <3>1
      <3>4. k[i] = l[i]
        BY <1>1, <2>1
      <3>5. QED
        BY <3>2, <3>3, <3>4
    <2>2. CASE i = t
      <3>1. t - 1 \in 0..(t - 1)
        BY <1>2
      <3>2. Upto(k)[t - 1] = U
        BY <1>1, <3>1 DEF U
      <3>3. QED
        BY <1>1, <2>2, <3>2 DEF U, l, t
    <2>3. CASE i = t + 1
      <3>1. i - 1 = t
        BY <1>2, <2>3
      <3>2. QED
        BY <1>1, <2>3, <3>1 DEF U, l, t
    <2>4. QED
      BY <1>2, <2>1, <2>2, <2>3
  <1>4. ASSUME NEW i \in 2..(t + 1)
        PROVE  k[i].pop = 0
    <2>1. CASE i \in 1..(t - 1)
      <3>1. i \in 2..Len(l)
        BY <1>2, <2>1
      <3>2. l[i].pop = 0
        BY <3>1 DEF Holds, l
      <3>3. QED
        BY <1>1, <2>1, <3>2
    <2>2. CASE i = t
      <3>1. t \in 2..Len(l)
        BY <1>2, <2>2
      <3>2. l[t].pop = 0
        BY <3>1 DEF Holds, l
      <3>3. QED
        BY <1>1, <1>2, <2>2, <3>2
    <2>3. CASE i = t + 1
      BY <1>1, <2>3
    <2>4. QED
      BY <1>2, <2>1, <2>2, <2>3
  <1>5. Holds(k, D)
    BY <1>1, <1>3, <1>4 DEF Holds
  <1>6. QED
    BY <1>5 DEF k

\* A list whose tail is followed by at most one buffer, and that one empty.
LEMMA MakesBuffersOK ==
    ASSUME NEW list \in Seq(BufferType), NEW tail \in Nat,
           tail \in 1..Len(list), Len(list) = tail \/ Len(list) = tail + 1,
           \A i \in 1..Len(list) : list[i].pop \in Offsets,
           Len(list) = tail + 1 =>
              list[tail + 1].count = 0 /\ list[tail + 1].push = 0 /\ list[tail + 1].pop = 0
    PROVE  BuffersOK(list, tail)
  <1>1. Len(list) \in Nat /\ Len(list) - tail \in {0, 1}
    OBVIOUS
  <1>2. tail < Len(list) => Len(list) = tail + 1
    OBVIOUS
  <1>3. QED
    BY <1>1, <1>2 DEF BuffersOK

\* A spare buffer changes nothing.
LEMMA WithNextKeeps ==
    ASSUME TypeOK
    PROVE  /\ BuffersOK(WithNext, readTail_)
           /\ Counts(WithNext) = Counts(buffers_)
           /\ \A D \in Nat : Holds(buffers_, D) => Holds(WithNext, D)
  <1> DEFINE W == WithNext
             t == readTail_
             X == W[t + 1]
             l == buffers_
  <1>1. /\ t \in Nat \ {0} /\ W \in Seq(BufferType) /\ Len(W) = t + 1
        /\ \A i \in 1..t : W[i] = l[i]
        /\ X.count = 0 /\ X.push = 0 /\ X.pop = 0
    BY WithNextIs
  <1>2. Tail_ = W[t] /\ Tail_ \in BufferType /\ Tail_.pop \in Offsets
    BY <1>1, TailFields DEF Tail_
  <1>3. X \in BufferType
    <2> HIDE DEF W, t
    <2>1. t + 1 \in 1..Len(W)
      BY <1>1
    <2>2. QED
      BY <1>1, <2>1
  <1>4. \A i \in 1..t : l[i].pop \in Offsets
    BY DEF TypeOK, BuffersOK
  <1>5. 0 \in Offsets
    BY CapacityAssumption DEF Offsets
  <1> HIDE DEF W, l, t
  <1>6. W = [[W EXCEPT ![t] = Tail_] EXCEPT ![t + 1] = X]
    <2> DEFINE V == [W EXCEPT ![t] = Tail_]
    <2>1. V = W
      <3>1. V \in Seq(BufferType) /\ Len(V) = Len(W) /\ \A i \in 1..Len(W) : V[i] = W[i]
        <4>1. t \in 1..Len(W)
          BY <1>1
        <4>2. /\ V \in Seq(BufferType) /\ Len(V) = Len(W)
              /\ \A i \in 1..Len(W) : V[i] = IF i = t THEN Tail_ ELSE W[i]
          BY <1>1, <1>2, <4>1, ExceptSeq
        <4>3. QED
          BY <1>2, <4>2
      <3>2. QED
        BY <1>1, <3>1, SeqEqual
    <2> DEFINE Z == [W EXCEPT ![t + 1] = X]
    <2>2. Z = W
      <3>1. Z \in Seq(BufferType) /\ Len(Z) = Len(W) /\ \A i \in 1..Len(W) : Z[i] = W[i]
        <4>1. t + 1 \in 1..Len(W)
          BY <1>1
        <4>2. /\ Z \in Seq(BufferType) /\ Len(Z) = Len(W)
              /\ \A i \in 1..Len(W) : Z[i] = IF i = t + 1 THEN X ELSE W[i]
          BY <1>1, <1>3, <4>1, ExceptSeq
        <4>3. QED
          BY <4>2
      <3>2. QED
        BY <1>1, <3>1, SeqEqual
    <2>3. QED
      BY <2>1, <2>2
  <1>7. Replaced(Tail_, X) = W
    <2>1. Replaced(Tail_, X) = [[W EXCEPT ![t] = Tail_] EXCEPT ![t + 1] = X]
      BY DEF Replaced, W, t
    <2>2. QED
      BY <1>6, <2>1
  <1> HIDE DEF X
  <1>8. Counts(W) = Counts(l)
    <2>1. Counts(W) = Upto(l)[t - 1] + Tail_.count + X.count
      <3>1. Counts(Replaced(Tail_, X)) = Upto(buffers_)[readTail_ - 1] + Tail_.count + X.count
        BY <1>2, <1>3, ReplacedIs
      <3>2. QED
        BY <1>7, <3>1 DEF l, t
    <2>2. /\ Upto(l)[t - 1] \in Nat /\ Counts(l) = Upto(l)[t - 1] + Tail_.count
          /\ Tail_.count \in Nat
      BY <1>2, CountsUptoTail, BufferFields DEF l, t
    <2>3. QED
      BY <1>1, <2>1, <2>2
  <1>9. BuffersOK(W, t)
    <2>1. t \in 1..Len(W) /\ \A i \in 1..Len(W) : i \in 1..t \/ i = t + 1
      BY <1>1
    <2>2. \A i \in 1..Len(W) : W[i].pop \in Offsets
      BY <1>1, <1>4, <1>5, <2>1 DEF X
    <2>3. QED
      BY <1>1, <2>1, <2>2, MakesBuffersOK DEF X
  <1>10. ASSUME NEW D \in Nat, Holds(l, D)
         PROVE  Holds(W, D)
    <2>1. Has(Tail_, D + Upto(l)[t - 1])
      <3>1. t \in 1..Len(l) /\ Tail_ = l[t]
        BY DEF TypeOK, BuffersOK, Tail_, t, l
      <3>2. QED
        BY <1>10, <3>1 DEF Holds
    <2>2. Has(X, D + (Upto(l)[t - 1] + Tail_.count))
      BY <1>1 DEF Has, Ring, X
    <2>3. X.pop = 0
      BY <1>1 DEF X
    <2>4. Holds(Replaced(Tail_, X), D)
      BY <1>2, <1>3, <1>10, <2>1, <2>2, <2>3, ReplacedHolds DEF l, t
    <2>5. QED
      BY <1>7, <2>4
  <1>11. QED
    BY <1>8, <1>9, <1>10 DEF W, l, t

-----------------------------------------------------------------------------
(* The parts of ReadSome, by name.                                         *)

Given  == Len(TailSlots) + capacity_
N      == IF Len(socket) < Given THEN Len(socket) ELSE Given
Read   == SubSeq(socket, 1, N)
Over   == SubSeq(Read, Len(TailSlots) + 1, N)
Spare  == WithNext[readTail_ + 1]
NextRead == [Spare EXCEPT !.buffer = Copied(Spare, 0, Over)]
NextCounted ==
    IF N > Room THEN [NextRead EXCEPT !.count = N - Room, !.push = N - Room] ELSE NextRead
TailRead == Filled(Tail_, TailSlots, Read)

LEMMA ReadSomeIs ==
    ASSUME ReadSome
    PROVE  /\ socket # <<>> /\ stage = "read"
           /\ socket' = SubSeq(socket, N + 1, Len(socket))
           /\ IF N > Room + capacity_
              THEN /\ buffers_' = Replaced(TailRead, NextRead)
                   /\ channel_' = C!DisableReadable(channel_)
                   /\ stage' = "away"
                   /\ readTail_' = readTail_ /\ readSize_' = readSize_ /\ full' = full
              ELSE /\ buffers_' = Replaced(Counted(TailRead, N), NextCounted)
                   /\ readTail_' = IF N > Room THEN readTail_ + 1 ELSE readTail_
                   /\ readSize_' = readSize_ + N
                   /\ full' = (N = Room + capacity_)
                   /\ stage' = "callback"
                   /\ channel_' = channel_
           /\ sent' = sent /\ fin' = fin /\ readyList' = readyList /\ close_' = close_
           /\ delivered' = delivered /\ inside' = inside
  BY DEF ReadSome, Given, N, Read, Over, Spare, NextRead, NextCounted, TailRead, Replaced, peer, user

\* What is read, and what is left.
LEMMA ReadIs ==
    ASSUME TypeOK, socket # <<>>
    PROVE  /\ Given \in Nat /\ N \in Nat \ {0} /\ N <= Len(socket) /\ N <= Given
           /\ N < Given => N = Len(socket)
           /\ Read \in Seq(Nat) /\ Len(Read) = N /\ \A k \in 1..N : Read[k] = socket[k]
           /\ LET rest == SubSeq(socket, N + 1, Len(socket))
              IN  /\ rest \in Seq(Nat) /\ Len(rest) = Len(socket) - N
                  /\ \A k \in 1..Len(rest) : rest[k] = socket[N + k]
                  /\ N = Len(socket) => rest = <<>>
  <1>1. socket \in Seq(Nat) /\ Len(socket) \in Nat \ {0}
    BY EmptySeq DEF TypeOK
  <1>2. Given \in Nat \ {0}
    BY SlotsAre, CapacityAssumption DEF Given
  <1>3. N \in Nat \ {0} /\ N <= Len(socket) /\ N <= Given /\ (N < Given => N = Len(socket))
    BY <1>1, <1>2 DEF N
  <1> DEFINE n == N
             s == socket
             a == SubSeq(s, 1, n)
             b == SubSeq(s, n + 1, Len(s))
  <1> HIDE DEF n, s
  <1>4. n \in Nat \ {0} /\ n <= Len(s) /\ s \in Seq(Nat) /\ Len(s) \in Nat
    BY <1>1, <1>3 DEF n, s
  <1>5. a \in Seq(Nat) /\ Len(a) = n /\ \A k \in 1..n : a[k] = s[k]
    BY <1>4
  <1>6. b \in Seq(Nat) /\ Len(b) = Len(s) - n /\ \A k \in 1..Len(b) : b[k] = s[n + k]
    BY <1>4
  <1>7. n = Len(s) => b = <<>>
    <2> HIDE DEF b
    <2>1. QED
      BY <1>6, EmptySeq
  <1>8. QED
    BY <1>2, <1>3, <1>5, <1>6, <1>7 DEF n, s, Read

\* The buffer behind the tail, after a round.
LEMMA NextIs ==
    ASSUME TypeOK, socket # <<>>
    PROVE  /\ NextRead \in BufferType
           /\ NextRead.count = 0 /\ NextRead.push = 0 /\ NextRead.pop = 0
           /\ N <= Room + capacity_ =>
                 LET x == NextCounted
                     m == IF N > Room THEN N - Room ELSE 0
                 IN  /\ x \in BufferType
                     /\ x.count = m /\ x.push = m /\ x.pop = 0
                     /\ Len(TailSlots) = Room =>
                           \A k \in 1..m : x.buffer[k - 1] = socket[Room + k]
  <1> DEFINE z == Spare
             y == NextRead
             a == Len(TailSlots)
             r == Room
             c == capacity_
             n == N
             o == Over
             x == NextCounted
  <1>1. z \in BufferType /\ z.count = 0 /\ z.push = 0 /\ z.pop = 0
    <2>1. readTail_ + 1 \in 1..Len(WithNext)
      BY WithNextIs
    <2>2. QED
      BY <2>1, WithNextIs DEF Spare
  <1>2. /\ a \in Nat /\ n \in Nat \ {0} /\ n <= a + c /\ r \in Nat /\ c \in Nat \ {0}
        /\ Read \in Seq(Nat) /\ Len(Read) = n /\ \A k \in 1..n : Read[k] = socket[k]
    BY ReadIs, SlotsAre, TailFields, CapacityAssumption DEF Given
  <1>3. o \in Seq(Nat) /\ (a < n => Len(o) = n - a /\ \A k \in 1..(n - a) : o[k] = Read[a + k])
    <2> DEFINE R == Read
    <2>1. o = SubSeq(R, a + 1, n)
      BY DEF Over
    <2> HIDE DEF a, n, R, o
    <2>2. /\ SubSeq(R, a + 1, n) \in Seq(Nat)
          /\ a < n => /\ Len(SubSeq(R, a + 1, n)) = n - a
                      /\ \A k \in 1..(n - a) : SubSeq(R, a + 1, n)[k] = R[a + k]
      BY <1>2 DEF R
    <2>3. QED
      BY <2>1, <2>2 DEF R
  <1>4. /\ y \in BufferType
        /\ y.count = 0 /\ y.push = 0 /\ y.pop = 0
        /\ \A k \in 1..Len(o) : k <= c => y.buffer[k - 1] = o[k]
    <2> HIDE DEF z, o
    <2>1. y = [z EXCEPT !.buffer = Copied(z, 0, o)]
      BY DEF NextRead, z, o
    <2>2. QED
      BY <1>1, <1>3, <2>1, CopiedIs
  <1>5. ASSUME n <= r + c
        PROVE  LET m == IF n > r THEN n - r ELSE 0
               IN  /\ x \in BufferType
                   /\ x.count = m /\ x.push = m /\ x.pop = 0
                   /\ a = r => \A k \in 1..m : x.buffer[k - 1] = socket[r + k]
    <2>1. CASE n > r
      <3> DEFINE m == n - r
      <3>1. m \in 1..c /\ m \in 0..c
        BY <1>2, <1>5, <2>1
      <3>2. x = [y EXCEPT !.count = m, !.push = m]
        BY <2>1 DEF NextCounted
      <3> HIDE DEF m, x, y
      <3>3. [y EXCEPT !.count = m] \in BufferType
        BY <1>4, <3>1 DEF BufferType
      <3>4. x = [[y EXCEPT !.count = m] EXCEPT !.push = m]
        BY <3>2
      <3>5. x \in BufferType
        BY <3>1, <3>3, <3>4 DEF BufferType
      <3>6. x.buffer = y.buffer /\ x.count = m /\ x.push = m /\ x.pop = 0
        BY <1>4, <3>2 DEF BufferType
      <3>7. ASSUME a = r, NEW k \in 1..m
            PROVE  x.buffer[k - 1] = socket[r + k]
        <4>1. k \in 1..Len(o) /\ k \in 1..(n - a) /\ k <= c /\ a + k \in 1..n
          BY <1>2, <1>3, <2>1, <3>1, <3>7 DEF m
        <4>2. y.buffer[k - 1] = o[k] /\ o[k] = Read[a + k] /\ Read[a + k] = socket[a + k]
          <5>1. a < n
            BY <2>1, <3>7
          <5>2. QED
            BY <1>2, <1>3, <1>4, <4>1, <5>1
        <4>3. QED
          BY <3>6, <3>7, <4>2
      <3>8. QED
        BY <2>1, <3>5, <3>6, <3>7 DEF m
    <2>2. CASE ~(n > r)
      <3>1. x = y
        BY <2>2 DEF NextCounted
      <3> HIDE DEF x, y
      <3>2. QED
        BY <1>4, <2>2, <3>1
    <2>3. QED
      BY <2>1, <2>2
  <1>6. QED
    BY <1>4, <1>5

\* A channel with its readable_ cleared.
LEMMA Unreadable ==
    ASSUME NEW ch \in C!ChannelType
    PROVE  LET d == C!DisableReadable(ch)
           IN  /\ d \in C!ChannelType /\ ~d.readable
               /\ d.read = ch.read /\ d.rread = ch.rread /\ d.rclose = ch.rclose
  BY DEF C!DisableReadable, C!ChannelType

\* The tail that readv has written to.
LEMMA TailReadIs ==
    ASSUME TypeOK, socket # <<>>
    PROVE  /\ TailRead \in BufferType
           /\ TailRead.count = Tail_.count /\ TailRead.pop = Tail_.pop
           /\ LET t == Counted(TailRead, N)
              IN  /\ t \in BufferType
                  /\ t.pop = Tail_.pop
                  /\ t.count = Tail_.count + (IF N < Room THEN N ELSE Room)
  <1>1. Tail_ \in BufferType /\ TailSlots \in Seq(Nat) /\ Read \in Seq(Nat) /\ N \in Nat
    BY TailFields, SlotsAre, ReadIs
  <1>2. TailRead \in BufferType /\ TailRead.count = Tail_.count /\ TailRead.pop = Tail_.pop
    BY <1>1, SlotsDiffer, FilledIs DEF TailRead
  <1>3. LET t == Counted(TailRead, N)
        IN  /\ t \in BufferType
            /\ t.pop = Tail_.pop
            /\ t.count = Tail_.count + (IF N < Room THEN N ELSE Room)
    BY <1>1, TailFilled DEF TailRead
  <1>4. QED
    BY <1>2, <1>3

\* readv and what follows it keep the types, also of buffers that are no rings.
LEMMA ReadSomeKeepsTypes ==
    ASSUME TypeOK, Enough, ReadSome
    PROVE  TypeOK' /\ Enough'
  <1> DEFINE t == readTail_
             r == Room
             c == capacity_
             n == N
             U == Upto(buffers_)[t - 1]
             m == Tail_.count
             T == Counted(TailRead, n)
             big == n > r + c
  <1>1. socket # <<>>
    BY ReadSomeIs
  <1>2. /\ r \in Nat /\ c \in Nat \ {0} /\ n \in Nat \ {0} /\ t \in Nat \ {0} /\ m \in Nat
        /\ U \in Nat /\ readSize_ \in Nat /\ readSize_ <= U + m /\ 0 \in Offsets
        /\ Tail_.pop \in Offsets
    <2>1. /\ Room \in Nat /\ capacity_ \in Nat \ {0} /\ N \in Nat \ {0} /\ readTail_ \in Nat \ {0}
          /\ Tail_.count \in Nat /\ Tail_.pop \in Offsets
      BY <1>1, TailFields, BufferFields, ReadIs, WithNextIs
    <2>2. U \in Nat /\ Counts(buffers_) = U + m
      BY CountsUptoTail
    <2>3. readSize_ \in Nat /\ readSize_ <= Counts(buffers_)
      BY DEF TypeOK, Enough
    <2>4. 0 \in Offsets
      BY <2>1 DEF Offsets
    <2>5. QED
      BY <2>1, <2>2, <2>3, <2>4
  <1>3. \A i \in 1..(t - 1) : buffers_[i].pop \in Offsets
    BY <1>2 DEF TypeOK, BuffersOK
  <1>4. socket' \in Seq(Nat)
    BY <1>1, ReadSomeIs, ReadIs
  <1>5. CASE big
    <2>1. /\ TailRead \in BufferType /\ TailRead.count = m /\ TailRead.pop = Tail_.pop
          /\ NextRead \in BufferType
          /\ NextRead.count = 0 /\ NextRead.push = 0 /\ NextRead.pop = 0
      BY <1>1, TailReadIs, NextIs
    <2>2. /\ buffers_' = Replaced(TailRead, NextRead)
          /\ readTail_' = t /\ readSize_' = readSize_ /\ full' = full
          /\ stage' = "away" /\ channel_' = C!DisableReadable(channel_)
      BY <1>5, ReadSomeIs
    <2>3. /\ buffers_' \in Seq(BufferType) /\ Len(buffers_') = t + 1
          /\ \A i \in 1..(t - 1) : buffers_'[i] = buffers_[i]
          /\ buffers_'[t] = TailRead /\ buffers_'[t + 1] = NextRead
          /\ Counts(buffers_') = U + TailRead.count + NextRead.count
      <3> DEFINE l == Replaced(TailRead, NextRead)
      <3>1. /\ l \in Seq(BufferType) /\ Len(l) = readTail_ + 1
            /\ \A i \in 1..(readTail_ - 1) : l[i] = buffers_[i]
            /\ l[readTail_] = TailRead /\ l[readTail_ + 1] = NextRead
            /\ Counts(l) = Upto(buffers_)[readTail_ - 1] + TailRead.count + NextRead.count
        BY <2>1, ReplacedIs
      <3> HIDE DEF l
      <3>2. l = buffers_'
        BY <2>2 DEF l
      <3>3. QED
        BY <3>1, <3>2
    <2> HIDE DEF t, r, c, n, U, m, T
    <2>4. \A i \in 1..(t + 1) : i \in 1..(t - 1) \/ i = t \/ i = t + 1
      BY <1>2
    <2>5. \A i \in 1..(t + 1) : buffers_'[i].pop \in Offsets
      BY <1>2, <1>3, <2>1, <2>3, <2>4
    <2>6. BuffersOK(buffers_', t)
      BY <1>2, <2>1, <2>3, <2>5, MakesBuffersOK
    <2>7. Enough'
      BY <1>2, <2>1, <2>2, <2>3 DEF Enough
    <2>8. channel_' \in C!ChannelType
      BY <2>2, Unreadable DEF TypeOK
    <2>9. TypeOK'
      BY <1>2, <1>4, <2>2, <2>6, <2>8, ReadSomeIs DEF TypeOK, Stages
    <2>10. QED
      BY <2>7, <2>9
  <1>6. CASE ~big
    <2> DEFINE X == NextCounted
               w == IF n > r THEN n - r ELSE 0
    <2>1. /\ T \in BufferType /\ T.pop = Tail_.pop
          /\ T.count = m + (IF n < r THEN n ELSE r)
      BY <1>1, TailReadIs
    <2>2. n <= r + c
      BY <1>2, <1>6
    <2>3. X \in BufferType /\ X.count = w /\ X.push = w /\ X.pop = 0
      BY <1>1, <2>2, NextIs
    <2>4. /\ buffers_' = Replaced(T, X)
          /\ readTail_' = (IF n > r THEN t + 1 ELSE t) /\ readSize_' = readSize_ + n
          /\ full' = (n = r + c) /\ stage' = "callback" /\ channel_' = channel_
      BY <1>6, ReadSomeIs
    <2> HIDE DEF T, X
    <2>5. /\ buffers_' \in Seq(BufferType) /\ Len(buffers_') = t + 1
          /\ \A i \in 1..(t - 1) : buffers_'[i] = buffers_[i]
          /\ buffers_'[t] = T /\ buffers_'[t + 1] = X
          /\ Counts(buffers_') = U + T.count + X.count
      <3> DEFINE l == Replaced(T, X)
      <3>1. /\ l \in Seq(BufferType) /\ Len(l) = readTail_ + 1
            /\ \A i \in 1..(readTail_ - 1) : l[i] = buffers_[i]
            /\ l[readTail_] = T /\ l[readTail_ + 1] = X
            /\ Counts(l) = Upto(buffers_)[readTail_ - 1] + T.count + X.count
        BY <2>1, <2>3, ReplacedIs
      <3> HIDE DEF l
      <3>2. l = buffers_'
        BY <2>4 DEF l
      <3>3. QED
        BY <3>1, <3>2
    <2> HIDE DEF t, r, c, n, U, m
    <2>6. \A i \in 1..(t + 1) : i \in 1..(t - 1) \/ i = t \/ i = t + 1
      BY <1>2
    <2>7. \A i \in 1..(t + 1) : buffers_'[i].pop \in Offsets
      BY <1>2, <1>3, <2>1, <2>3, <2>5, <2>6
    <2>8. BuffersOK(buffers_', readTail_')
      <3>1. CASE n > r
        <4>1. readTail_' = t + 1 /\ t + 1 \in Nat /\ t + 1 \in 1..(t + 1)
          BY <1>2, <2>4, <3>1
        <4>2. (t + 1) # (t + 1) + 1
          BY <1>2
        <4>3. QED
          BY <2>5, <2>7, <4>1, <4>2, MakesBuffersOK
      <3>2. CASE ~(n > r)
        <4>1. readTail_' = t /\ t \in 1..(t + 1) /\ t \in Nat /\ w = 0
          BY <1>2, <2>4, <3>2
        <4>2. QED
          BY <2>3, <2>5, <2>7, <4>1, MakesBuffersOK
      <3>3. QED
        BY <3>1, <3>2
    <2>9. (IF n < r THEN n ELSE r) + w = n
      BY <1>2
    <2>10. Counts(buffers_') = U + m + n
      BY <1>2, <2>1, <2>3, <2>5, <2>9
    <2>11. Enough'
      BY <1>2, <2>4, <2>10 DEF Enough
    <2>12. readSize_' \in Nat /\ full' \in BOOLEAN
      BY <1>2, <2>4
    <2>13. TypeOK'
      BY <1>4, <2>4, <2>8, <2>12, ReadSomeIs DEF TypeOK, Stages
    <2>14. QED
      BY <2>11, <2>13
  <1>7. QED
    BY <1>5, <1>6

\* In a list of rings each byte that readv reads goes behind the last.
LEMMA ReadSomeKeepsStream ==
    ASSUME TypeOK, Stream, sent \in Nat, ReadSome
    PROVE  Stream' /\ stage' = "callback" /\ (~full' => socket' = <<>>)
  <1> DEFINE t == readTail_
             r == Room
             c == capacity_
             n == N
             D == Len(delivered)
             l == buffers_
             U == Upto(l)[t - 1]
             m == Tail_.count
             T == Counted(TailRead, n)
             X == NextCounted
             w == IF n > r THEN n - r ELSE 0
  <1>1. socket # <<>> /\ socket' = SubSeq(socket, n + 1, Len(socket))
    BY ReadSomeIs
  <1>2. /\ Counts(l) = readSize_ /\ Holds(l, D)
        /\ D + readSize_ + Len(socket) = sent
        /\ \A k \in 1..D : delivered[k] = k
        /\ \A k \in 1..Len(socket) : socket[k] = D + readSize_ + k
    BY DEF Stream
  <1>3. /\ r \in Nat /\ c \in Nat \ {0} /\ n \in Nat \ {0} /\ t \in Nat \ {0} /\ m \in Nat
        /\ D \in Nat /\ U \in Nat /\ readSize_ = U + m /\ m + r = c /\ Len(socket) \in Nat
    <2>1. /\ Room \in Nat /\ capacity_ \in Nat \ {0} /\ N \in Nat \ {0} /\ readTail_ \in Nat \ {0}
          /\ Tail_.count \in Nat /\ Room = capacity_ - Tail_.count
      BY <1>1, TailFields, BufferFields, ReadIs, WithNextIs
    <2>2. U \in Nat /\ Counts(l) = U + m
      BY CountsUptoTail
    <2>3. Len(delivered) \in Nat /\ Len(socket) \in Nat
      BY DEF TypeOK
    <2>4. m + r = c
      BY <2>1
    <2>5. QED
      BY <1>2, <2>1, <2>2, <2>3, <2>4
  <1>4. t \in 1..Len(l) /\ Tail_ = l[t] /\ Len(l) \in Nat
    BY DEF TypeOK, BuffersOK, Tail_
  <1>5. Has(Tail_, D + U) /\ (t # 1 => Tail_.pop = 0)
    <2>1. Has(l[t], D + Upto(l)[t - 1])
      BY <1>2, <1>4 DEF Holds
    <2>2. t # 1 => t \in 2..Len(l)
      BY <1>3, <1>4
    <2>3. QED
      BY <1>2, <1>4, <2>1, <2>2 DEF Holds
  <1>6. Len(TailSlots) = r
    BY <1>5, SlotsOfRing DEF Has
  <1>7. /\ n <= r + c /\ n <= Len(socket)
        /\ n < r + c => n = Len(socket)
        /\ Read \in Seq(Nat) /\ Len(Read) = n /\ \A k \in 1..n : Read[k] = socket[k]
        /\ LET rest == SubSeq(socket, n + 1, Len(socket))
           IN  /\ rest \in Seq(Nat) /\ Len(rest) = Len(socket) - n
               /\ \A k \in 1..Len(rest) : rest[k] = socket[n + k]
               /\ n = Len(socket) => rest = <<>>
    <2>1. Given = r + c
      BY <1>6 DEF Given
    <2>2. QED
      BY <1>1, <2>1, ReadIs
  <1>8. /\ buffers_' = Replaced(T, X)
        /\ readTail_' = (IF n > r THEN t + 1 ELSE t) /\ readSize_' = readSize_ + n
        /\ full' = (n = r + c) /\ stage' = "callback" /\ channel_' = channel_
        /\ delivered' = delivered /\ sent' = sent
    <2>1. ~(n > r + c)
      BY <1>3, <1>7
    <2>2. QED
      BY <2>1, ReadSomeIs
  <1>9. T \in BufferType /\ T.pop = Tail_.pop /\ T.count = m + (IF n < r THEN n ELSE r)
    BY <1>1, TailReadIs
  <1>10. /\ X \in BufferType /\ X.count = w /\ X.push = w /\ X.pop = 0
         /\ \A k \in 1..w : X.buffer[k - 1] = socket[r + k]
    BY <1>1, <1>6, <1>7, NextIs
  <1>11. Has(T, D + U)
    <2>1. D + U \in Nat
      BY <1>3
    <2>2. \A k \in 1..Len(Read) : Read[k] = (D + U) + Tail_.count + k
      <3> HIDE DEF D, U, n
      <3>1. ASSUME NEW k \in 1..n
            PROVE  Read[k] = (D + U) + m + k
        <4>1. k \in 1..Len(socket)
          BY <1>3, <1>7
        <4>2. socket[k] = D + readSize_ + k
          BY <1>2, <4>1
        <4>3. D + readSize_ + k = (D + U) + m + k
          BY <1>3
        <4>4. QED
          BY <1>7, <4>2, <4>3
      <3>2. QED
        BY <1>7, <3>1
    <2>3. Has(Counted(Filled(Tail_, TailSlots, Read), Len(Read)), D + U)
      BY <1>5, <1>7, <2>1, <2>2, TailHas
    <2>4. QED
      BY <1>7, <2>3 DEF TailRead
  <1> HIDE DEF T, X
  <1>12. /\ buffers_' \in Seq(BufferType) /\ Len(buffers_') = t + 1
         /\ \A i \in 1..(t - 1) : buffers_'[i] = l[i]
         /\ buffers_'[t] = T /\ buffers_'[t + 1] = X
         /\ \A i \in 0..(t - 1) : Upto(buffers_')[i] = Upto(l)[i]
         /\ Upto(buffers_')[t] = U + T.count
         /\ Counts(buffers_') = U + T.count + X.count
    <2> DEFINE k == Replaced(T, X)
    <2>1. /\ k \in Seq(BufferType) /\ Len(k) = readTail_ + 1
          /\ \A i \in 1..(readTail_ - 1) : k[i] = buffers_[i]
          /\ k[readTail_] = T /\ k[readTail_ + 1] = X
          /\ \A i \in 0..(readTail_ - 1) : Upto(k)[i] = Upto(buffers_)[i]
          /\ Upto(k)[readTail_] = Upto(buffers_)[readTail_ - 1] + T.count
          /\ Counts(k) = Upto(buffers_)[readTail_ - 1] + T.count + X.count
      BY <1>9, <1>10, ReplacedIs
    <2> HIDE DEF k
    <2>2. k = buffers_'
      BY <1>8 DEF k
    <2>3. QED
      BY <2>1, <2>2
  <1> HIDE DEF t, r, c, n, D, l, U, m
  <1>13. Counts(buffers_') = readSize_'
    <2>1. (IF n < r THEN n ELSE r) + w = n
      BY <1>3
    <2>2. QED
      BY <1>3, <1>8, <1>9, <1>10, <1>12, <2>1, SMTT(30)
  <1>14. Has(X, D + (U + T.count))
    <2>1. Ring(X)
      <3>1. w \in Nat
        BY <1>3
      <3>2. 0 + w = w
        BY <3>1
      <3>3. QED
        BY <1>10, <3>2 DEF Ring
    <2>2. ASSUME NEW k \in 1..X.count
          PROVE  X.buffer[(X.pop + k - 1) % capacity_] = (D + (U + T.count)) + k
      <3>1. k \in 1..w /\ n > r /\ r + k \in 1..Len(socket) /\ k - 1 \in Nat /\ k - 1 < c
        BY <1>3, <1>7, <1>10
      <3>2. X.buffer[k - 1] = D + readSize_ + (r + k)
        BY <1>2, <1>10, <3>1 DEF D
      <3>3. T.count = m + r
        BY <1>3, <1>9, <3>1
      <3>4. D + readSize_ + (r + k) = (D + (U + T.count)) + k
        BY <1>3, <3>3
      <3>5. X.pop + k - 1 = k - 1
        BY <1>10, <3>1
      <3>6. (k - 1) % c = k - 1
        <4> DEFINE z == k - 1
        <4>1. z \in Nat /\ z < c
          BY <3>1
        <4> HIDE DEF z
        <4>2. z % c = z
          BY <1>3, <4>1, Within
        <4>3. QED
          BY <4>2 DEF z
      <3>7. QED
        BY <3>2, <3>4, <3>5, <3>6 DEF c
    <2>3. QED
      BY <2>1, <2>2 DEF Has
  <1>15. Holds(buffers_', D)
    <2>1. Holds(Replaced(T, X), D)
      BY <1>2, <1>3, <1>9, <1>10, <1>11, <1>14, ReplacedHolds DEF D, U, l, t
    <2>2. QED
      BY <1>8, <2>1
  <1>16. D + readSize_' + Len(socket') = sent'
    <2>1. Len(socket') = Len(socket) - n /\ readSize_' = readSize_ + n /\ sent' = sent
      BY <1>1, <1>7, <1>8
    <2>2. D + readSize_ + Len(socket) = sent /\ readSize_ \in Nat
      BY <1>2, <1>3 DEF D
    <2>3. QED
      BY <1>3, <2>1, <2>2
  <1>17. ASSUME NEW k \in 1..Len(socket')
         PROVE  socket'[k] = D + readSize_' + k
    <2>1. socket'[k] = socket[n + k] /\ Len(socket') = Len(socket) - n
      BY <1>1, <1>7
    <2>2. n + k \in 1..Len(socket)
      BY <1>3, <1>7, <2>1
    <2>3. socket[n + k] = D + readSize_ + (n + k)
      BY <1>2, <2>2
    <2>4. QED
      BY <1>3, <1>8, <2>1, <2>3
  <1>18. Stream'
    <2>1. Len(delivered') = D
      BY <1>8 DEF D
    <2>2. \A k \in 1..D : delivered'[k] = k
      BY <1>2, <1>8
    <2>3. QED
      BY <1>13, <1>15, <1>16, <1>17, <2>1, <2>2 DEF Stream
  <1>19. stage' = "callback" /\ (~full' => socket' = <<>>)
    <2>1. stage' = "callback" /\ (~full' => n # r + c)
      BY <1>8
    <2>2. n # r + c => n = Len(socket)
      BY <1>3, <1>7
    <2>3. n = Len(socket) => socket' = <<>>
      BY <1>1, <1>7
    <2>4. QED
      BY <2>1, <2>2, <2>3
  <1>20. QED
    BY <1>18, <1>19

-----------------------------------------------------------------------------
(* Where a read ends, and what PeekData shows.                             *)

LEMMA EndIs ==
    ASSUME NEW list \in Seq(BufferType), NEW size \in 1..Counts(list)
    PROVE  LET i == End(list, size)[1]
               e == End(list, size)[2]
           IN  /\ i \in 1..Len(list) /\ e = size - Upto(list)[i - 1]
               /\ Upto(list)[i - 1] < size /\ size <= Upto(list)[i]
               /\ e \in 1..list[i].count /\ Upto(list)[i - 1] \in Nat /\ Upto(list)[i] \in Nat
  <1> DEFINE u == Upto(list)
             n == Len(list)
             Ends(i) == u[i - 1] < size /\ size <= u[i]
             i == CHOOSE i \in 1..n : Ends(i)
  <1>1. /\ n \in Nat /\ \A j \in 0..n : u[j] \in Nat
        /\ \A j \in 1..n : list[j].count \in Nat /\ u[j] = u[j - 1] + list[j].count
        /\ \E j \in 1..n : Ends(j)
        /\ size \in Nat
    <2>1. \A k \in 1..Counts(list) : \E j \in 1..n : u[j - 1] < k /\ k <= u[j]
      BY UptoFacts
    <2>2. Counts(list) \in Nat
      BY UptoFacts
    <2>3. \E j \in 1..n : Ends(j)
      BY <2>1, Zenon
    <2>4. QED
      BY <2>2, <2>3, UptoFacts
  <1>2. End(list, size) = <<i, size - u[i - 1]>>
    BY DEF End
  <1>3. i \in 1..n /\ Ends(i)
    BY <1>1
  <1> HIDE DEF i, u, n
  <1>4. i - 1 \in 0..n /\ i \in 0..n
    BY <1>1, <1>3
  <1>5. u[i - 1] \in Nat /\ u[i] \in Nat /\ list[i].count \in Nat /\ u[i] = u[i - 1] + list[i].count
    BY <1>1, <1>3, <1>4
  <1>6. size - u[i - 1] \in 1..list[i].count
    <2>1. size \in Nat /\ u[i - 1] < size /\ size <= u[i]
      BY <1>1, <1>3
    <2>2. QED
      BY <1>5, <2>1, SMTT(30)
  <1>7. End(list, size)[1] = i /\ End(list, size)[2] = size - u[i - 1]
    BY <1>2
  <1>8. QED
    BY <1>3, <1>5, <1>6, <1>7 DEF u, n

\* PeekData's k-th byte.
LEMMA PeekIs ==
    ASSUME NEW list \in Seq(BufferType), \A i \in 1..Len(list) : list[i].pop \in Offsets,
           NEW size \in 1..Counts(list)
    PROVE  /\ Peek(list, size) \in Seq(Nat) /\ Len(Peek(list, size)) = size
           /\ \A base \in Nat : Holds(list, base) =>
                 \A k \in 1..size : Peek(list, size)[k] = base + k
  <1> DEFINE At(k) == LET e == End(list, k)
                          b == list[e[1]]
                      IN  b.buffer[((IF e[1] = 1 THEN b.pop ELSE 0) + e[2] - 1) % capacity_]
             c == capacity_
  <1>1. Counts(list) \in Nat /\ size \in Nat /\ c \in Nat \ {0} /\ Offsets = 0..(c - 1)
    BY UptoFacts, CapacityAssumption DEF Offsets
  <1>2. Peek(list, size) = [k \in 1..size |-> At(k)]
    BY DEF Peek
  <1>3. ASSUME NEW k \in 1..size
        PROVE  /\ At(k) \in Nat
               /\ \A base \in Nat : Holds(list, base) => At(k) = base + k
    <2> DEFINE e == End(list, k)
               i == e[1]
               o == e[2]
               b == list[i]
               from == IF i = 1 THEN b.pop ELSE 0
               x == from + o - 1
               u == Upto(list)[i - 1]
    <2>1. k \in 1..Counts(list)
      BY <1>1
    <2>2. i \in 1..Len(list) /\ o = k - u /\ o \in 1..b.count /\ u \in Nat
      BY <2>1, EndIs
    <2>3. At(k) = b.buffer[x % c]
      OBVIOUS
    <2> HIDE DEF e, i, o, At
    <2>4. b \in BufferType /\ b.buffer \in [Offsets -> Nat] /\ b.count \in Nat
      BY <2>2, BufferFields
    <2>5. from \in Nat
      BY <1>1, <2>2
    <2> HIDE DEF b, from, u
    <2>6. x \in Nat
      BY <2>2, <2>4, <2>5
    <2>7. x % c \in Offsets
      <3> HIDE DEF x, c
      <3>1. QED
        BY <1>1, <2>6
    <2>8. At(k) \in Nat
      BY <2>3, <2>4, <2>7
    <2>9. ASSUME NEW base \in Nat, Holds(list, base)
          PROVE  At(k) = base + k
      <3>1. Has(b, base + u)
        BY <2>2, <2>9 DEF Holds, b, u
      <3>2. i # 1 => b.pop = 0
        <4>1. i # 1 => i \in 2..Len(list)
          BY <2>2
        <4>2. QED
          BY <2>9, <4>1 DEF Holds, b
      <3>3. from = b.pop
        BY <3>2 DEF from
      <3>4. b.buffer[(b.pop + o - 1) % c] = (base + u) + o
        BY <2>2, <3>1 DEF Has
      <3>5. (base + u) + o = base + k
        BY <2>2
      <3>6. QED
        BY <2>3, <3>3, <3>4, <3>5
    <2>10. QED
      BY <2>8, <2>9
  <1> HIDE DEF At
  <1>4. Peek(list, size) \in Seq(Nat) /\ Len(Peek(list, size)) = size
    BY <1>1, <1>2, <1>3
  <1>5. \A k \in 1..size : Peek(list, size)[k] = At(k)
    BY <1>2
  <1>6. QED
    BY <1>3, <1>4, <1>5

-----------------------------------------------------------------------------
(* What ReadData leaves of the list.                                       *)

\* The buffers behind the i-th: they hold what they held.
LEMMA RestIs ==
    ASSUME NEW list \in Seq(BufferType), NEW i \in 1..Len(list)
    PROVE  LET r == SubSeq(list, i + 1, Len(list))
               u == Upto(list)
           IN  /\ r \in Seq(BufferType) /\ Len(r) = Len(list) - i
               /\ \A j \in 1..Len(r) : r[j] = list[i + j]
               /\ \A j \in 0..Len(r) : Upto(r)[j] = u[i + j] - u[i]
               /\ Counts(r) = Counts(list) - u[i]
  <1> DEFINE n == Len(list)
             r == SubSeq(list, i + 1, n)
             u == Upto(list)
             v == Upto(r)
             l == n - i
  <1>1. n \in Nat /\ l \in Nat /\ i \in Nat /\ i + l = n
    OBVIOUS
  <1>2. r \in Seq(BufferType) /\ Len(r) = l /\ \A j \in 1..l : r[j] = list[i + j]
    OBVIOUS
  <1> HIDE DEF n, r, l
  <1>3. Parallel(u, i, v, 0, l)
    <2>1. AlikeLists(list, i, r, 0, l)
      BY <1>1, <1>2 DEF AlikeLists
    <2>2. i + l <= Len(list) /\ 0 + l <= Len(r)
      BY <1>1, <1>2 DEF n
    <2>3. QED
      BY <1>1, <1>2, <2>1, <2>2, UptoShift
  <1>4. /\ \A j \in 0..n : u[j] \in Nat
        /\ v[0] = 0 /\ \A j \in 0..l : v[j] \in Nat
        /\ Counts(list) = u[n] /\ Counts(r) = v[l]
    BY <1>2, UptoFacts DEF n
  <1> HIDE DEF u, v
  <1>5. ASSUME NEW j \in 0..l
        PROVE  v[j] = u[i + j] - u[i]
    <2>1. u[i + j] - u[i] = v[0 + j] - v[0]
      BY <1>3 DEF Parallel
    <2>2. 0 + j = j
      BY <1>1
    <2>3. v[j] - v[0] = v[j]
      BY <1>4
    <2>4. QED
      BY <2>1, <2>2, <2>3
  <1>6. Counts(r) = Counts(list) - u[i]
    <2>1. l \in 0..l
      BY <1>1
    <2>2. v[l] = u[i + l] - u[i]
      BY <1>5, <2>1
    <2>3. QED
      BY <1>1, <1>4, <2>2
  <1>7. QED
    BY <1>2, <1>5, <1>6 DEF n, r, u, v, l

\* The same with a buffer put before them.
LEMMA HeadAndRest ==
    ASSUME NEW list \in Seq(BufferType), NEW i \in 1..Len(list), NEW x \in BufferType
    PROVE  LET r == <<x>> \o SubSeq(list, i + 1, Len(list))
               u == Upto(list)
           IN  /\ r \in Seq(BufferType) /\ Len(r) = (Len(list) - i) + 1
               /\ r[1] = x
               /\ \A j \in 1..(Len(list) - i) : r[1 + j] = list[i + j]
               /\ \A j \in 0..(Len(list) - i) : Upto(r)[1 + j] = x.count + (u[i + j] - u[i])
               /\ Counts(r) = x.count + (Counts(list) - u[i])
  <1> DEFINE n == Len(list)
             s == SubSeq(list, i + 1, n)
             r == <<x>> \o s
             u == Upto(list)
             v == Upto(r)
             l == n - i
  <1>1. n \in Nat /\ l \in Nat /\ i \in Nat /\ i + l = n
    OBVIOUS
  <1>2. s \in Seq(BufferType) /\ Len(s) = l /\ \A j \in 1..l : s[j] = list[i + j]
    BY RestIs
  <1> HIDE DEF n, s, l
  <1>3. r \in Seq(BufferType) /\ Len(r) = l + 1 /\ r[1] = x /\ \A j \in 1..l : r[1 + j] = s[j]
    <2>1. <<x>> \in Seq(BufferType) /\ Len(<<x>>) = 1 /\ <<x>>[1] = x
      OBVIOUS
    <2>2. r \in Seq(BufferType) /\ Behind(r, <<x>>, s)
      BY <1>2, <2>1, ConcatBehind
    <2> HIDE DEF r
    <2>3. Len(r) = 1 + l /\ r[1] = x /\ \A j \in 1..l : r[1 + j] = s[j]
      BY <1>2, <2>1, <2>2 DEF Behind
    <2>4. QED
      BY <1>1, <2>2, <2>3
  <1> HIDE DEF r
  <1>4. \A j \in 1..l : r[1 + j] = list[i + j]
    BY <1>2, <1>3
  <1>5. Parallel(u, i, v, 1, l)
    <2>1. AlikeLists(list, i, r, 1, l)
      BY <1>1, <1>4 DEF AlikeLists
    <2>2. i + l <= Len(list) /\ 1 + l <= Len(r) /\ 1 \in Nat
      BY <1>1, <1>3 DEF n
    <2>3. QED
      BY <1>1, <1>3, <2>1, <2>2, UptoShift
  <1>6. /\ \A j \in 0..n : u[j] \in Nat
        /\ \A j \in 0..(l + 1) : v[j] \in Nat
        /\ Counts(list) = u[n] /\ Counts(r) = v[l + 1]
    BY <1>3, UptoFacts DEF n
  <1>7. v[1] = x.count /\ x.count \in Nat
    <2>1. v[0] = 0 /\ \A j \in 1..(l + 1) : r[j].count \in Nat /\ v[j] = v[j - 1] + r[j].count
      BY <1>3, UptoFacts
    <2>2. 1 \in 1..(l + 1) /\ 1 - 1 = 0
      BY <1>1
    <2>3. v[1] = v[0] + r[1].count /\ r[1].count \in Nat
      BY <2>1, <2>2
    <2>4. QED
      BY <1>3, <2>1, <2>3
  <1> HIDE DEF u, v
  <1>8. ASSUME NEW j \in 0..l
        PROVE  v[1 + j] = x.count + (u[i + j] - u[i])
    <2>1. u[i + j] - u[i] = v[1 + j] - v[1]
      BY <1>5 DEF Parallel
    <2>2. v[1 + j] \in Nat /\ u[i + j] \in Nat /\ u[i] \in Nat
      BY <1>1, <1>6
    <2>3. QED
      BY <1>7, <2>1, <2>2
  <1>9. Counts(r) = x.count + (Counts(list) - u[i])
    <2>1. l \in 0..l /\ 1 + l = l + 1
      BY <1>1
    <2>2. v[1 + l] = x.count + (u[i + l] - u[i])
      BY <1>8, <2>1
    <2>3. QED
      BY <1>1, <1>6, <2>1, <2>2
  <1>10. QED
    BY <1>3, <1>4, <1>8, <1>9 DEF n, s, r, u, v, l

\* The first buffer of a list once size of its bytes are taken out.
LEMMA PopMoves ==
    ASSUME NEW b \in BufferType, NEW size \in 1..(b.count - 1)
    PROVE  LET x == [b EXCEPT !.pop = (@ + size) % capacity_, !.count = @ - size]
           IN  /\ x \in BufferType /\ x.pop \in Offsets /\ x.count = b.count - size
               /\ Ring(b) => Ring(x)
               /\ \A base \in Nat : Has(b, base) => Has(x, base + size)
  <1> DEFINE c == capacity_
             q == b.pop
             m == b.count
             p == b.push
             x == [b EXCEPT !.pop = (@ + size) % c, !.count = @ - size]
             y == q + size
             z == y % c
  <1>1. /\ c \in Nat \ {0} /\ q \in 0..c /\ m \in 0..c /\ p \in 0..c
        /\ Offsets = 0..(c - 1) /\ size \in 1..(m - 1)
    BY BufferFields DEF Offsets
  <1>2. y \in Nat /\ y < c + c /\ m - size \in 0..c
    <2>1. q \in Nat /\ m \in Nat /\ size \in Nat /\ c \in Nat
      BY <1>1
    <2>2. q <= c /\ size < m /\ m <= c
      BY <1>1
    <2> HIDE DEF c, q, m
    <2>3. y \in Nat /\ y < c + c
      BY <2>1, <2>2
    <2>4. m - size \in 0..c
      BY <2>1, <2>2
    <2>5. QED
      BY <2>3, <2>4
  <1>3. z \in Offsets /\ z \in 0..c
    <2> HIDE DEF c, y
    <2>1. z \in 0..(c - 1)
      BY <1>1, <1>2
    <2> HIDE DEF z
    <2>2. QED
      BY <1>1, <2>1
  <1>4. z = IF y < c THEN y ELSE y - c
    <2> HIDE DEF c, y
    <2>1. QED
      BY <1>1, <1>2, Around
  <1>5. x.buffer = b.buffer /\ x.pop = z /\ x.count = m - size /\ x.push = p
    BY DEF BufferType
  <1>6. x \in BufferType
    <2>1. [b EXCEPT !.pop = z] \in BufferType
      BY <1>3 DEF BufferType
    <2>2. x = [[b EXCEPT !.pop = z] EXCEPT !.count = m - size]
      BY DEF BufferType
    <2>3. QED
      BY <1>2, <2>1, <2>2 DEF BufferType
  <1> HIDE DEF x, z
  <1>7. ASSUME q + m = p \/ q + m = p + c
        PROVE  z + (m - size) = p \/ z + (m - size) = p + c
    <2> HIDE DEF q, m, p, c
    <2>1. q + m = p \/ q + m = p + c
      BY <1>7
    <2>2. CASE y < c
      <3>1. z = q + size
        BY <1>4, <2>2
      <3>2. QED
        BY <1>1, <2>1, <3>1
    <2>3. CASE ~(y < c)
      <3>1. z = q + size - c /\ ~(q + size < c)
        BY <1>1, <1>4, <2>3
      <3>2. q + m = p + c
        BY <1>1, <2>1, <3>1
      <3>3. QED
        BY <1>1, <3>1, <3>2
    <2>4. QED
      BY <2>2, <2>3
  <1>8. ASSUME NEW base \in Nat, Has(b, base)
        PROVE  Has(x, base + size)
    <2>1. (q + m = p \/ q + m = p + c) /\ \A k \in 1..m : b.buffer[(q + k - 1) % c] = base + k
      BY <1>8 DEF Has, Ring
    <2>2. z + (m - size) = p \/ z + (m - size) = p + c
      BY <1>7, <2>1
    <2>3. ASSUME NEW k \in 1..(m - size)
          PROVE  b.buffer[(z + k - 1) % c] = (base + size) + k
      <3> DEFINE g == q + (size + k) - 1
                 h == z + k - 1
      <3> HIDE DEF q, m, p, c
      <3>1. /\ g \in Nat /\ g < c + c /\ h \in Nat /\ h < c + c
            /\ (h = g \/ (h = g - c)) /\ (h = g => y < c)
            /\ size + k \in 1..m /\ base + (size + k) = (base + size) + k
        BY <1>1, <1>4
      <3>2. g % c = h % c
        <4> HIDE DEF g, h
        <4>1. g % c = IF g < c THEN g ELSE g - c
          BY <1>1, <3>1, Around
        <4>2. h % c = IF h < c THEN h ELSE h - c
          BY <1>1, <3>1, Around
        <4>3. QED
          BY <1>1, <3>1, <4>1, <4>2
      <3>3. b.buffer[g % c] = base + (size + k)
        BY <2>1, <3>1
      <3>4. QED
        BY <3>1, <3>2, <3>3
    <2>4. QED
      BY <1>5, <2>2, <2>3 DEF Has, Ring
  <1>9. Ring(b) => Ring(x)
    BY <1>5, <1>7 DEF Ring
  <1>10. QED
    BY <1>3, <1>5, <1>6, <1>8, <1>9 DEF x, z

\* A list that goes on behind its i-th buffer, with x in place of the first i:
\* what it holds.
LEMMA HeadHolds ==
    ASSUME NEW list \in Seq(BufferType), NEW i \in 1..Len(list), NEW x \in BufferType
    PROVE  LET r == <<x>> \o SubSeq(list, i + 1, Len(list))
           IN  /\ Rings(list) /\ Ring(x) => Rings(r)
               /\ \A base, size \in Nat :
                     Holds(list, base) /\ size + x.count = Upto(list)[i] /\ Has(x, base + size)
                     => Holds(r, base + size)
  <1> DEFINE n == Len(list)
             r == <<x>> \o SubSeq(list, i + 1, n)
             u == Upto(list)
             v == Upto(r)
             l == n - i
  <1>2. n \in Nat /\ i \in 1..n /\ l \in Nat /\ list \in Seq(BufferType)
    OBVIOUS
  <1>3. /\ r \in Seq(BufferType) /\ Len(r) = l + 1
        /\ r[1] = x
        /\ \A j \in 1..l : r[1 + j] = list[i + j]
        /\ \A j \in 0..l : v[1 + j] = x.count + (u[i + j] - u[i])
    BY <1>2, HeadAndRest
  <1> HIDE DEF n, r, l
  <1>6. ASSUME NEW j \in 1..(l + 1), j # 1
        PROVE  j - 1 \in 1..l /\ j - 1 \in 0..l /\ 1 + (j - 1) = j /\ i + (j - 1) \in 2..n
               /\ i + ((j - 1) - 1) = (i + (j - 1)) - 1 /\ (j - 1) - 1 \in 0..l
               /\ 1 + ((j - 1) - 1) = j - 1
    BY <1>2, <1>6 DEF l
  <1>4. ASSUME Rings(list), Ring(x)
        PROVE  Rings(r)
    <2>1. ASSUME NEW j \in 1..(l + 1)
          PROVE  Ring(r[j]) /\ (j # 1 => r[j].pop = 0)
      <3>1. CASE j = 1
        BY <1>3, <1>4, <3>1
      <3>2. CASE j # 1
        <4> DEFINE k == i + (j - 1)
        <4>1. j - 1 \in 1..l /\ 1 + (j - 1) = j /\ k \in 2..n /\ k \in 1..n
          BY <1>2, <1>6, <3>2
        <4>2. r[j] = list[k]
          BY <1>3, <4>1
        <4> HIDE DEF k
        <4>3. QED
          BY <1>4, <4>1, <4>2 DEF Rings, n
      <3>3. QED
        BY <3>1, <3>2
    <2>2. \A j \in 2..(l + 1) : j \in 1..(l + 1) /\ j # 1
      BY <1>2
    <2>3. QED
      BY <1>3, <2>1, <2>2 DEF Rings
  <1>5. ASSUME NEW base \in Nat, NEW size \in Nat, Holds(list, base), size + x.count = u[i],
                Has(x, base + size)
         PROVE  Holds(r, base + size)
    <2>1. /\ \A j \in 0..n : u[j] \in Nat
          /\ \A j \in 0..(l + 1) : v[j] \in Nat
          /\ v[0] = 0 /\ x.count \in Nat
      BY <1>2, <1>3, UptoFacts, BufferFields DEF n
    <2> HIDE DEF u, v
    <2>2. ASSUME NEW j \in 1..(l + 1)
          PROVE  Has(r[j], (base + size) + v[j - 1]) /\ (j # 1 => r[j].pop = 0)
      <3>1. CASE j = 1
        <4>1. j - 1 = 0 /\ (base + size) + 0 = base + size
          BY <3>1
        <4>2. QED
          BY <1>3, <1>5, <2>1, <3>1, <4>1
      <3>2. CASE j # 1
        <4> DEFINE k == i + (j - 1)
        <4>1. /\ j - 1 \in 1..l /\ 1 + (j - 1) = j /\ k \in 2..n /\ k \in 1..n /\ k - 1 \in 0..n
              /\ (j - 1) - 1 \in 0..l /\ 1 + ((j - 1) - 1) = j - 1
              /\ i + ((j - 1) - 1) = k - 1
          BY <1>2, <1>6, <3>2
        <4>2. r[j] = list[k]
          BY <1>3, <4>1
        <4>3. v[j - 1] = x.count + (u[k - 1] - u[i])
          <5>1. v[1 + ((j - 1) - 1)] = x.count + (u[i + ((j - 1) - 1)] - u[i])
            BY <1>3, <4>1
          <5>2. QED
            BY <4>1, <5>1
        <4>4. Has(list[k], base + u[k - 1]) /\ list[k].pop = 0
          BY <1>5, <4>1 DEF Holds, n, u
        <4>5. u[k - 1] \in Nat /\ u[i] \in Nat
          BY <1>2, <2>1, <4>1
        <4> HIDE DEF k
        <4>6. (base + size) + v[j - 1] = base + u[k - 1]
          <5>1. size + x.count = u[i] /\ x.count \in Nat
            BY <1>5, <2>1
          <5>2. QED
            BY <4>3, <4>5, <5>1, SMTT(30)
        <4>7. QED
          BY <4>2, <4>4, <4>6
      <3>3. QED
        BY <3>1, <3>2
    <2>3. \A j \in 2..(l + 1) : j \in 1..(l + 1) /\ j # 1
      BY <1>2
    <2>4. QED
      BY <1>3, <2>2, <2>3 DEF Holds, v
  <1>7. QED
    BY <1>4, <1>5 DEF n, r

\* The same of what onRead has.
LEMMA HeadKeeps ==
    ASSUME NEW list, NEW tail, BuffersOK(list, tail), NEW i \in 1..tail,
           NEW x \in BufferType, x.pop \in Offsets
    PROVE  LET r == <<x>> \o SubSeq(list, i + 1, Len(list))
           IN  /\ BuffersOK(r, tail - i + 1)
               /\ \A base, size \in Nat :
                     Holds(list, base) /\ size + x.count = Upto(list)[i] /\ Has(x, base + size)
                     => Holds(r, base + size)
  <1> DEFINE n == Len(list)
             r == <<x>> \o SubSeq(list, i + 1, n)
             u == Upto(list)
             v == Upto(r)
             l == n - i
             t == tail - i + 1
  <1>1. /\ list \in Seq(BufferType) /\ tail \in 1..n /\ n - tail \in {0, 1}
        /\ \A j \in 1..n : list[j].pop \in Offsets
    BY DEF BuffersOK
  <1>2. n \in Nat /\ i \in 1..n
    BY <1>1
  <1>3. /\ r \in Seq(BufferType) /\ Len(r) = l + 1
        /\ r[1] = x
        /\ \A j \in 1..l : r[1 + j] = list[i + j]
        /\ \A j \in 0..l : v[1 + j] = x.count + (u[i + j] - u[i])
    BY <1>1, <1>2, HeadAndRest
  <1>4. tail < n => list[n].count = 0 /\ list[n].push = 0 /\ list[n].pop = 0
    BY DEF BuffersOK
  <1>5. l \in Nat /\ t \in Nat /\ t \in 1..(l + 1) /\ (l + 1 = t \/ l + 1 = t + 1)
    BY <1>1, <1>2
  <1> HIDE DEF n, r, l, t
  <1>6. ASSUME NEW j \in 1..(l + 1), j # 1
        PROVE  j - 1 \in 1..l /\ j - 1 \in 0..l /\ 1 + (j - 1) = j /\ i + (j - 1) \in 2..n
               /\ i + ((j - 1) - 1) = (i + (j - 1)) - 1 /\ (j - 1) - 1 \in 0..l
               /\ 1 + ((j - 1) - 1) = j - 1
    BY <1>2, <1>6 DEF l
  <1>7. \A j \in 1..(l + 1) : r[j].pop \in Offsets
    <2>1. ASSUME NEW j \in 1..(l + 1)
          PROVE  r[j].pop \in Offsets
      <3>1. CASE j = 1
        BY <1>3, <3>1
      <3>2. CASE j # 1
        <4>1. j - 1 \in 1..l /\ 1 + (j - 1) = j /\ i + (j - 1) \in 1..n
          BY <1>2, <1>6, <3>2
        <4>2. r[j] = list[i + (j - 1)]
          BY <1>3, <4>1
        <4>3. QED
          BY <1>1, <4>1, <4>2
      <3>3. QED
        BY <3>1, <3>2
    <2>2. QED
      BY <2>1
  <1>8. l + 1 = t + 1 => r[t + 1].count = 0 /\ r[t + 1].push = 0 /\ r[t + 1].pop = 0
    <2>1. ASSUME l + 1 = t + 1
          PROVE  r[t + 1] = list[n] /\ tail < n
      <3>1. tail < n /\ i + l = n /\ l \in 1..l /\ 1 + l = t + 1
        BY <1>1, <1>2, <1>5, <2>1 DEF l, t
      <3>2. r[1 + l] = list[i + l]
        BY <1>3, <3>1
      <3>3. QED
        BY <3>1, <3>2
    <2>2. QED
      BY <1>4, <2>1
  <1>9. BuffersOK(r, t)
    BY <1>3, <1>5, <1>7, <1>8, MakesBuffersOK
  <1>10. \A base, size \in Nat :
            Holds(list, base) /\ size + x.count = u[i] /\ Has(x, base + size) => Holds(r, base + size)
    BY <1>1, <1>2, HeadHolds DEF r, n
  <1>11. QED
    BY <1>9, <1>10 DEF n, r, t

\* A list without its first i buffers: what it holds.
LEMMA RestHolds ==
    ASSUME NEW list \in Seq(BufferType), NEW i \in 1..Len(list)
    PROVE  LET r == SubSeq(list, i + 1, Len(list))
           IN  /\ Rings(list) => Rings(r)
               /\ \A base, size \in Nat :
                     Holds(list, base) /\ size = Upto(list)[i] => Holds(r, base + size)
  <1> DEFINE n == Len(list)
             r == SubSeq(list, i + 1, n)
             u == Upto(list)
             v == Upto(r)
             l == n - i
  <1>2. n \in Nat /\ i \in 1..n /\ l \in Nat /\ list \in Seq(BufferType)
    OBVIOUS
  <1>3. /\ r \in Seq(BufferType) /\ Len(r) = l
        /\ \A j \in 1..l : r[j] = list[i + j]
        /\ \A j \in 0..l : v[j] = u[i + j] - u[i]
    BY <1>2, RestIs
  <1> HIDE DEF n, r, l
  <1>6. \A j \in 1..l : i + j \in 2..n /\ i + j \in 1..n /\ j - 1 \in 0..l
                        /\ i + (j - 1) = (i + j) - 1 /\ (i + j) - 1 \in 0..n
    BY <1>2 DEF l
  <1>4. ASSUME Rings(list)
        PROVE  Rings(r)
    <2>1. ASSUME NEW j \in 1..l
          PROVE  Ring(r[j]) /\ r[j].pop = 0
      <3> DEFINE k == i + j
      <3>1. k \in 2..n /\ k \in 1..n
        BY <1>6
      <3>2. r[j] = list[k]
        BY <1>3
      <3> HIDE DEF k
      <3>3. QED
        BY <1>4, <3>1, <3>2 DEF Rings, n
    <2>2. \A j \in 2..l : j \in 1..l
      BY <1>2
    <2>3. QED
      BY <1>3, <2>1, <2>2 DEF Rings
  <1>5. ASSUME NEW base \in Nat, NEW size \in Nat, Holds(list, base), size = u[i]
         PROVE  Holds(r, base + size)
    <2>1. \A j \in 0..n : u[j] \in Nat
      BY <1>2, UptoFacts DEF n
    <2> HIDE DEF u, v
    <2>2. ASSUME NEW j \in 1..l
          PROVE  Has(r[j], (base + size) + v[j - 1]) /\ r[j].pop = 0
      <3> DEFINE k == i + j
      <3>1. k \in 2..n /\ k \in 1..n /\ j - 1 \in 0..l /\ i + (j - 1) = k - 1 /\ k - 1 \in 0..n
        BY <1>6
      <3>2. r[j] = list[k] /\ v[j - 1] = u[k - 1] - u[i]
        BY <1>3, <3>1
      <3>3. Has(list[k], base + u[k - 1]) /\ list[k].pop = 0
        BY <1>5, <3>1 DEF Holds, n, u
      <3>4. u[k - 1] \in Nat
        BY <2>1, <3>1
      <3> HIDE DEF k
      <3>5. (base + size) + v[j - 1] = base + u[k - 1]
        BY <1>5, <3>2, <3>4
      <3>6. QED
        BY <3>2, <3>3, <3>5
    <2>3. \A j \in 2..l : j \in 1..l
      BY <1>2
    <2>4. QED
      BY <1>3, <2>2, <2>3 DEF Holds, v
  <1>7. QED
    BY <1>4, <1>5 DEF n, r

\* The same of what onRead has.
LEMMA RestKeeps ==
    ASSUME NEW list, NEW tail, BuffersOK(list, tail), NEW i \in 1..(tail - 1)
    PROVE  LET r == SubSeq(list, i + 1, Len(list))
           IN  /\ BuffersOK(r, tail - i)
               /\ \A base, size \in Nat :
                     Holds(list, base) /\ size = Upto(list)[i] => Holds(r, base + size)
  <1> DEFINE n == Len(list)
             r == SubSeq(list, i + 1, n)
             u == Upto(list)
             v == Upto(r)
             l == n - i
             t == tail - i
  <1>1. /\ list \in Seq(BufferType) /\ tail \in 1..n /\ n - tail \in {0, 1}
        /\ \A j \in 1..n : list[j].pop \in Offsets
    BY DEF BuffersOK
  <1>2. n \in Nat /\ i \in 1..n
    BY <1>1
  <1>3. /\ r \in Seq(BufferType) /\ Len(r) = l
        /\ \A j \in 1..l : r[j] = list[i + j]
        /\ \A j \in 0..l : v[j] = u[i + j] - u[i]
    BY <1>1, <1>2, RestIs
  <1>4. tail < n => list[n].count = 0 /\ list[n].push = 0 /\ list[n].pop = 0
    BY DEF BuffersOK
  <1>5. l \in Nat /\ t \in Nat /\ t \in 1..l /\ (l = t \/ l = t + 1)
    BY <1>1, <1>2
  <1> HIDE DEF n, r, l, t
  <1>6. \A j \in 1..l : i + j \in 2..n /\ i + j \in 1..n /\ j - 1 \in 0..l
                        /\ i + (j - 1) = (i + j) - 1 /\ (i + j) - 1 \in 0..n
    BY <1>2 DEF l
  <1>7. \A j \in 1..l : r[j].pop \in Offsets
    BY <1>1, <1>3, <1>6
  <1>8. l = t + 1 => r[t + 1].count = 0 /\ r[t + 1].push = 0 /\ r[t + 1].pop = 0
    <2>1. ASSUME l = t + 1
          PROVE  r[t + 1] = list[n] /\ tail < n
      <3>1. tail < n /\ i + l = n /\ l \in 1..l
        BY <1>1, <1>2, <1>5, <2>1 DEF l, t
      <3>2. r[l] = list[i + l]
        BY <1>3, <3>1
      <3>3. QED
        BY <2>1, <3>1, <3>2
    <2>2. QED
      BY <1>4, <2>1
  <1>9. BuffersOK(r, t)
    BY <1>3, <1>5, <1>7, <1>8, MakesBuffersOK
  <1>10. \A base, size \in Nat : Holds(list, base) /\ size = u[i] => Holds(r, base + size)
    BY <1>1, <1>2, RestHolds DEF r, n
  <1>11. QED
    BY <1>9, <1>10 DEF n, r, t

\* ReadData's list, and where its tail is.
TailAfter(list, tail, size) ==
    LET e == End(list, size)
    IN  IF e[2] = list[e[1]].count /\ e[1] # tail THEN tail - e[1] ELSE tail - e[1] + 1

LEMMA AfterReadIs ==
    ASSUME NEW list, NEW tail, BuffersOK(list, tail), NEW size \in 1..Counts(list)
    PROVE  LET r == AfterRead(list, tail, size)
               e == End(list, size)
           IN  /\ BuffersOK(r, TailAfter(list, tail, size))
               /\ Counts(r) >= Counts(list) - size
               /\ e[1] = 1 \/ e[2] = list[e[1]].count =>
                     /\ Counts(r) = Counts(list) - size
                     /\ \A base \in Nat : Holds(list, base) => Holds(r, base + size)
  <1> DEFINE n == Len(list)
             u == Upto(list)
             i == End(list, size)[1]
             o == End(list, size)[2]
             b == list[i]
             r == AfterRead(list, tail, size)
             rest == SubSeq(list, i + 1, n)
             T == TailAfter(list, tail, size)
             c == capacity_
  <1>1. list \in Seq(BufferType) /\ tail \in 1..n /\ n \in Nat /\ n - tail \in {0, 1}
    BY DEF BuffersOK
  <1>2. /\ i \in 1..n /\ o = size - u[i - 1] /\ u[i - 1] < size /\ size <= u[i]
        /\ o \in 1..b.count /\ u[i - 1] \in Nat /\ u[i] \in Nat
    BY <1>1, EndIs
  <1>3. Counts(list) \in Nat /\ size \in Nat /\ u[i] = u[i - 1] + b.count /\ u[0] = 0
    <2>1. Counts(list) \in Nat /\ u[0] = 0
      BY <1>1, UptoFacts
    <2>2. \A j \in 1..n : u[j] = u[j - 1] + list[j].count
      BY <1>1, UptoFacts
    <2>3. u[i] = u[i - 1] + b.count
      BY <1>2, <2>2
    <2>4. QED
      BY <2>1, <2>3
  <1>4. b \in BufferType /\ b.pop \in Offsets /\ b.count \in Nat /\ b.count <= c /\ c \in Nat \ {0}
    BY <1>1, <1>2, BufferFields, SMTT(30) DEF BuffersOK
  <1>5. i \in 1..tail
    <2>1. ASSUME ~(i \in 1..tail)
          PROVE  FALSE
      <3>1. i = n /\ tail < n
        BY <1>1, <1>2, <2>1
      <3>2. list[n].count = 0
        BY <3>1 DEF BuffersOK
      <3> HIDE DEF i, o, n
      <3>3. b.count = 0
        BY <3>1, <3>2
      <3>4. QED
        BY <1>2, <3>3
    <2>2. QED
      BY <2>1
  <1>6. T = IF o = b.count /\ i # tail THEN tail - i ELSE tail - i + 1
    BY DEF TailAfter
  <1>7. r = IF o = b.count
            THEN IF i = tail THEN <<[b EXCEPT !.push = 0, !.pop = 0, !.count = 0]>> \o rest
                 ELSE rest
            ELSE IF i = 1 THEN <<[b EXCEPT !.pop = (@ + size) % c, !.count = @ - size]>> \o rest
            ELSE <<[b EXCEPT !.pop = o]>> \o rest
    <2> HIDE DEF i, o
    <2>1. CASE i = tail
      BY <2>1 DEF AfterRead, After, i, o
    <2>2. CASE i # tail
      BY <2>2 DEF AfterRead, After, i, o
    <2>3. QED
      BY <2>1, <2>2
  <1> HIDE DEF n, u, i, o, b, r, T, c
  <1>8. CASE o = b.count /\ i = tail
    <2> DEFINE x == [b EXCEPT !.push = 0, !.pop = 0, !.count = 0]
    <2>1. 0 \in 0..capacity_ /\ 0 \in Offsets
      BY <1>4 DEF c, Offsets
    <2>2. x \in BufferType /\ x.count = 0 /\ x.push = 0 /\ x.pop = 0
      BY <1>4, <2>1 DEF BufferType
    <2>3. r = <<x>> \o rest /\ T = tail - i + 1
      BY <1>6, <1>7, <1>8
    <2> HIDE DEF x
    <2>4. BuffersOK(r, T)
      BY <1>1, <1>5, <2>1, <2>2, <2>3, HeadKeeps DEF n
    <2>5. size = u[i]
      BY <1>2, <1>3, <1>8
    <2>6. Counts(r) = Counts(list) - size
      <3>1. Counts(r) = x.count + (Counts(list) - u[i])
        BY <1>1, <1>2, <2>2, <2>3, HeadAndRest DEF n, u
      <3>2. QED
        BY <1>2, <1>3, <2>2, <2>5, <3>1
    <2>7. ASSUME NEW base \in Nat, Holds(list, base)
          PROVE  Holds(r, base + size)
      <3>1. Has(x, base + size)
        BY <2>2 DEF Has, Ring
      <3>2. size + x.count = u[i]
        BY <1>2, <2>2, <2>5
      <3>3. QED
        BY <1>3, <1>5, <2>1, <2>2, <2>3, <2>7, <3>1, <3>2, HeadKeeps DEF n, u
    <2>8. Counts(r) >= Counts(list) - size
      BY <1>3, <2>6
    <2>9. QED
      BY <2>4, <2>6, <2>7, <2>8 DEF r, T
  <1>9. CASE o = b.count /\ i # tail
    <2>1. r = rest /\ T = tail - i /\ i \in 1..(tail - 1)
      BY <1>1, <1>5, <1>6, <1>7, <1>9
    <2>2. BuffersOK(r, T)
      BY <2>1, RestKeeps DEF n
    <2>3. size = u[i]
      BY <1>2, <1>3, <1>9
    <2>4. Counts(r) = Counts(list) - size
      BY <1>1, <1>2, <2>1, <2>3, RestIs DEF n, u
    <2>5. ASSUME NEW base \in Nat, Holds(list, base)
          PROVE  Holds(r, base + size)
      BY <1>3, <2>1, <2>3, <2>5, RestKeeps DEF n, u
    <2>6. Counts(r) >= Counts(list) - size
      BY <1>3, <2>4
    <2>7. QED
      BY <2>2, <2>4, <2>5, <2>6 DEF r, T
  <1>10. CASE o # b.count /\ i = 1
    <2> DEFINE x == [b EXCEPT !.pop = (@ + size) % c, !.count = @ - size]
    <2>1. /\ o = size /\ u[i - 1] = 0 /\ u[i] = b.count /\ size \in 1..(b.count - 1)
          /\ size + (b.count - size) = u[i]
      BY <1>2, <1>3, <1>4, <1>10
    <2>2. /\ x \in BufferType /\ x.pop \in Offsets /\ x.count = b.count - size
          /\ \A base \in Nat : Has(b, base) => Has(x, base + size)
      BY <1>4, <2>1, PopMoves DEF c
    <2>3. r = <<x>> \o rest /\ T = tail - i + 1
      BY <1>6, <1>7, <1>10
    <2> HIDE DEF x
    <2>4. BuffersOK(r, T)
      BY <1>1, <1>5, <2>2, <2>3, HeadKeeps DEF n
    <2>5. Counts(r) = Counts(list) - size
      <3>1. Counts(r) = x.count + (Counts(list) - u[i])
        BY <1>1, <1>2, <2>2, <2>3, HeadAndRest DEF n, u
      <3>2. QED
        BY <1>2, <1>3, <1>4, <2>1, <2>2, <3>1
    <2>6. ASSUME NEW base \in Nat, Holds(list, base)
          PROVE  Holds(r, base + size)
      <3>1. Has(b, base)
        <4>1. Has(b, base + u[i - 1])
          BY <1>2, <2>6 DEF Holds, n, u, b
        <4>2. base + u[i - 1] = base
          BY <2>1
        <4>3. QED
          BY <4>1, <4>2
      <3>2. Has(x, base + size)
        BY <2>2, <3>1
      <3>3. size + x.count = u[i]
        BY <2>1, <2>2
      <3>4. QED
        BY <1>3, <1>5, <2>2, <2>3, <2>6, <3>2, <3>3, HeadKeeps DEF n, u
    <2>7. Counts(r) >= Counts(list) - size
      BY <1>3, <2>5
    <2>8. QED
      BY <2>4, <2>5, <2>6, <2>7 DEF r, T
  <1>11. CASE o # b.count /\ i # 1
    <2> DEFINE x == [b EXCEPT !.pop = o]
    <2>1. o \in 0..(c - 1) /\ o \in Offsets
      <3>1. o \in 0..(c - 1)
        BY <1>2, <1>4, <1>11
      <3>2. QED
        BY <3>1 DEF Offsets, c
    <2>2. x \in BufferType /\ x.pop = o /\ x.count = b.count
      <3>1. o \in 0..capacity_
        BY <1>4, <2>1 DEF c
      <3>2. QED
        BY <1>4, <3>1 DEF BufferType
    <2>3. r = <<x>> \o rest /\ T = tail - i + 1
      BY <1>6, <1>7, <1>11
    <2> HIDE DEF x
    <2>4. BuffersOK(r, T)
      BY <1>1, <1>5, <2>1, <2>2, <2>3, HeadKeeps DEF n
    <2>5. Counts(r) >= Counts(list) - size
      <3>1. Counts(r) = x.count + (Counts(list) - u[i])
        BY <1>1, <1>2, <2>2, <2>3, HeadAndRest DEF n, u
      <3>2. QED
        BY <1>2, <1>3, <1>4, <2>2, <3>1
    <2>6. QED
      BY <1>11, <2>4, <2>5 DEF r, T, i, o, b
  <1>12. QED
    BY <1>8, <1>9, <1>10, <1>11

-----------------------------------------------------------------------------
(* The invariant, action by action.                                        *)

\* A list of one empty buffer: the established connection's.
LEMMA OneBuffer ==
    ASSUME NEW list, list = <<Take>>
    PROVE  BuffersOK(list, 1) /\ Counts(list) = 0 /\ Holds(list, 0)
  <1> DEFINE z == Take
  <1>1. z \in BufferType /\ z.count = 0 /\ z.push = 0 /\ z.pop = 0
    <2>1. capacity_ \in Nat \ {0} /\ 0 \in 0..capacity_
      BY CapacityAssumption
    <2>2. [i \in Offsets |-> Garbage] \in [Offsets -> Nat]
      BY DEF Garbage
    <2>3. QED
      BY <2>1, <2>2 DEF Take, BufferType
  <1>2. 0 \in Offsets
    BY CapacityAssumption DEF Offsets
  <1> HIDE DEF z
  <1>3. list \in Seq(BufferType) /\ Len(list) = 1 /\ list[1] = z
    BY <1>1 DEF z
  <1>4. BuffersOK(list, 1)
    BY <1>1, <1>2, <1>3 DEF BuffersOK
  <1>5. Upto(list)[0] = 0 /\ Counts(list) = Upto(list)[1] /\ Upto(list)[1] = Upto(list)[0] + list[1].count
    <2>1. /\ Upto(list)[0] = 0 /\ Counts(list) = Upto(list)[Len(list)]
          /\ \A i \in 1..Len(list) : Upto(list)[i] = Upto(list)[i - 1] + list[i].count
      BY <1>3, UptoFacts
    <2>2. 1 \in 1..1 /\ 1 - 1 = 0
      OBVIOUS
    <2>3. QED
      BY <1>3, <2>1, <2>2
  <1>6. Has(z, 0 + Upto(list)[1 - 1])
    BY <1>1 DEF Has, Ring
  <1>7. Holds(list, 0)
    BY <1>3, <1>6 DEF Holds
  <1>8. QED
    BY <1>1, <1>3, <1>4, <1>5, <1>7

LEMMA InitIInv ==
    Init => IInv
  <1> SUFFICES ASSUME Init
               PROVE  IInv
    OBVIOUS
  <1>1. BuffersOK(buffers_, readTail_) /\ Counts(buffers_) = 0 /\ Holds(buffers_, 0)
    BY OneBuffer DEF Init
  <1>2. /\ channel_ \in C!ChannelType /\ channel_.read /\ ~channel_.readable
        /\ ~channel_.rread /\ ~channel_.rclose
    BY DEF Init, C!Open, C!EnableAll, C!New, C!ChannelType
  <1>3. TypeOK
    <2>1. /\ stage = "away" /\ readTail_ = 1 /\ readSize_ = 0 /\ full = FALSE /\ socket = <<>>
          /\ sent = 0 /\ fin = FALSE /\ close_ = "no" /\ delivered = <<>> /\ inside = FALSE
      BY DEF Init
    <2>2. socket \in Seq(Nat) /\ delivered \in Seq(Nat)
      BY <2>1
    <2>3. readSize_ \in Nat /\ sent \in Nat
      BY <2>1
    <2>4. QED
      BY <1>1, <1>2, <2>1, <2>2, <2>3, Zenon DEF TypeOK, Stages
  <1>4. Enough
    BY <1>1 DEF Init, Enough
  <1>5. Flags
    BY <1>2 DEF Init, Flags
  <1>6. Stream
    BY <1>1 DEF Init, Stream
  <1>7. Draining
    BY DEF Init, Draining
  <1>8. QED
    BY <1>3, <1>4, <1>5, <1>6, <1>7 DEF IInv

LEMMA ArriveKeeps ==
    IInv /\ Arrive => IInv'
  <1> SUFFICES ASSUME IInv, Arrive
               PROVE  IInv'
    OBVIOUS
  <1>1. PICK n \in 0..(MaxBytes - sent) :
            /\ socket' = socket \o [i \in 1..n |-> sent + i]
            /\ sent' = sent + n
            /\ fin' \in IF n = 0 THEN {TRUE} ELSE BOOLEAN
    BY DEF Arrive
  <1>2. /\ ~fin /\ buffers_' = buffers_ /\ readTail_' = readTail_ /\ readSize_' = readSize_
        /\ stage' = stage /\ channel_' = channel_ /\ full' = full /\ close_' = close_
        /\ delivered' = delivered /\ inside' = inside
    BY DEF Arrive, rings, user
  <1>3. n \in Nat /\ sent \in Nat /\ socket \in Seq(Nat) /\ Len(socket) \in Nat
    BY TcpReadAssumption DEF IInv, TypeOK
  <1> DEFINE new == [i \in 1..n |-> sent + i]
  <1>4. new \in Seq(Nat) /\ Len(new) = n /\ \A i \in 1..n : new[i] = sent + i
    BY <1>3
  <1>5. socket' = socket \o new
    BY <1>1
  <1> HIDE DEF new
  <1>6. socket' \in Seq(Nat) /\ Behind(socket', socket, new)
    BY <1>3, <1>4, <1>5, ConcatBehind
  <1>7. /\ Len(socket') = Len(socket) + n
        /\ \A k \in 1..Len(socket) : socket'[k] = socket[k]
        /\ \A k \in 1..n : socket'[Len(socket) + k] = sent + k
    BY <1>4, <1>6 DEF Behind
  <1>8. sent' = sent + n /\ sent' \in Nat /\ fin' \in BOOLEAN
    <2>1. fin' \in BOOLEAN
      BY <1>1
    <2>2. sent' = sent + n
      BY <1>1
    <2>3. QED
      BY <1>3, <2>1, <2>2
  <1>9. TypeOK'
    BY <1>2, <1>6, <1>8 DEF IInv, TypeOK
  <1>10. Enough'
    BY <1>2 DEF IInv, Enough
  <1>11. Flags'
    <2>1. ~channel_.rclose
      BY <1>2 DEF IInv, Flags
    <2>2. QED
      BY <1>2, <2>1 DEF IInv, Flags
  <1>12. ASSUME ~inside'
         PROVE  Stream' /\ Draining'
    <2>1. Stream /\ Draining
      BY <1>2, <1>12 DEF IInv
    <2>2. Draining'
      BY <1>2, <2>1 DEF Draining
    <2> DEFINE D == Len(delivered)
               R == readSize_
               L == Len(socket)
    <2>3. D \in Nat /\ R \in Nat /\ L \in Nat /\ D + R + L = sent
      BY <2>1 DEF IInv, TypeOK, Stream
    <2>4. \A k \in 1..L : socket[k] = D + R + k
      BY <2>1 DEF Stream
    <2>5. \A k \in 1..Len(socket') : socket'[k] = D + R + k
      <3> HIDE DEF D, R
      <3>1. ASSUME NEW k \in 1..(L + n)
            PROVE  socket'[k] = D + R + k
        <4>1. CASE k <= L
          <5>1. k \in 1..L
            BY <2>3, <4>1
          <5>2. QED
            BY <1>7, <2>4, <5>1
        <4>2. CASE ~(k <= L)
          <5> DEFINE j == k - L
          <5>1. j \in 1..n /\ L + j = k
            BY <1>3, <2>3, <4>2
          <5>2. socket'[L + j] = sent + j
            BY <1>7, <5>1
          <5> HIDE DEF L
          <5>3. sent + j = D + R + k
            BY <1>3, <2>3, <5>1
          <5>4. QED
            BY <5>1, <5>2, <5>3
        <4>3. QED
          BY <4>1, <4>2
      <3>2. QED
        BY <1>7, <3>1
    <2>6. D + R + Len(socket') = sent'
      <3> HIDE DEF D, R, L
      <3>1. Len(socket') = L + n
        BY <1>7 DEF L
      <3>2. QED
        BY <1>3, <1>8, <2>3, <3>1
    <2>7. Stream'
      <3>1. Counts(buffers_) = R /\ Holds(buffers_, D) /\ \A k \in 1..D : delivered[k] = k
        BY <2>1 DEF Stream
      <3>2. QED
        BY <1>2, <2>5, <2>6, <3>1 DEF Stream
    <2>8. QED
      BY <2>2, <2>7
  <1>13. QED
    BY <1>9, <1>10, <1>11, <1>12 DEF IInv

\* The invariant where only the loop thread's stage, the channel and who has
\* closed it change.
LEMMA OnlyFlags ==
    ASSUME IInv, UNCHANGED <<buffers_, readTail_, readSize_, delivered, socket, sent, inside, full, fin>>,
           stage' \in Stages, channel_' \in C!ChannelType, close_' \in {"no", "peer", "user"},
           Flags', Draining => Draining'
    PROVE  IInv'
  <1>1. TypeOK'
    BY DEF IInv, TypeOK
  <1>2. Enough'
    BY DEF IInv, Enough
  <1>3. Stream => Stream'
    BY DEF Stream
  <1>4. ~inside' => Stream' /\ Draining'
    BY <1>3 DEF IInv
  <1>5. QED
    BY <1>1, <1>2, <1>4 DEF IInv

\* What one report of the poller does to the channel of an idle connection.
LEMMA DispatchIs ==
    ASSUME NEW ch \in C!ChannelType, ~ch.rclose, ~ch.rread, NEW events \in SUBSET {"hup", "in"},
           NEW d, d = P!Dispatch(ch, events)
    PROVE  /\ d \in C!ChannelType /\ d.read = ch.read
           /\ d.rclose => "hup" \in events
           /\ ch.read /\ ~ch.readable /\ "in" \in events => d.rread /\ d.readable
           /\ ch.read /\ ~ch.readable /\ "in" \notin events => ~d.rread /\ ~d.readable
           /\ ~d.actived => ~d.rclose /\ ~d.rread /\ d.readable = ch.readable
  <1> DEFINE a == IF "hup" \in events THEN P!OnClose(ch) ELSE ch
             b == IF "in" \in events THEN P!OnRead(a) ELSE a
  <1>1. d = b
    BY DEF P!Dispatch
  <1>2. /\ a \in C!ChannelType /\ a.read = ch.read /\ ~a.rread /\ a.readable = ch.readable
        /\ a.rclose => "hup" \in events /\ a.actived
    <2>1. CASE "hup" \in events /\ ~ch.closed /\ ~ch.rclose
      <3>1. a = [[ch EXCEPT !.closed = TRUE, !.rclose = TRUE] EXCEPT !.actived = TRUE]
        BY <2>1 DEF P!OnClose, P!AddActived
      <3>2. QED
        BY <2>1, <3>1 DEF C!ChannelType
    <2>2. CASE ~("hup" \in events /\ ~ch.closed /\ ~ch.rclose)
      BY <2>2 DEF P!OnClose
    <2>3. QED
      BY <2>1, <2>2
  <1> HIDE DEF a
  <1>3. CASE "in" \in events /\ a.read /\ ~a.readable /\ ~a.rread
    <2>1. b = [[a EXCEPT !.readable = TRUE, !.rread = TRUE] EXCEPT !.actived = TRUE]
      BY <1>3 DEF P!OnRead, P!AddActived
    <2>2. /\ b \in C!ChannelType /\ b.read = a.read /\ b.rread /\ b.readable /\ b.actived
          /\ b.rclose = a.rclose
      BY <1>2, <2>1 DEF C!ChannelType
    <2>3. QED
      BY <1>1, <1>2, <1>3, <2>2
  <1>4. CASE ~("in" \in events /\ a.read /\ ~a.readable /\ ~a.rread)
    <2>1. b = a
      BY <1>4 DEF P!OnRead
    <2>2. QED
      BY <1>1, <1>2, <1>4, <2>1
  <1>5. QED
    BY <1>3, <1>4

LEMMA ReportKeeps ==
    IInv /\ Report => IInv'
  <1> SUFFICES ASSUME IInv, Report
               PROVE  IInv'
    OBVIOUS
  <1> DEFINE events == IF fin THEN {"hup", "in"} ELSE IF socket # <<>> THEN {"in"} ELSE {}
             d == P!Dispatch(channel_, events)
  <1>1. /\ stage = "away"
        /\ IF d.actived THEN channel_' = C!HandleStart(d) /\ stage' = "handle"
           ELSE channel_' = d /\ stage' = stage
        /\ UNCHANGED <<buffers_, readTail_, readSize_, delivered, socket, sent, inside, full, fin>>
        /\ close_' = close_
    BY DEF Report, rings, peer, user
  <1>2. /\ channel_ \in C!ChannelType /\ close_ \in {"no", "peer", "user"}
        /\ ~channel_.rclose /\ ~channel_.rread
        /\ close_ = "no" => channel_.read /\ ~channel_.readable
    BY <1>1 DEF IInv, TypeOK, Flags
  <1>3. events \in SUBSET {"hup", "in"} /\ ("hup" \in events => fin /\ "in" \in events)
    OBVIOUS
  <1> HIDE DEF events
  <1>4. /\ d \in C!ChannelType /\ d.read = channel_.read
        /\ d.rclose => "hup" \in events
        /\ channel_.read /\ ~channel_.readable /\ "in" \in events => d.rread /\ d.readable
        /\ channel_.read /\ ~channel_.readable /\ "in" \notin events => ~d.rread /\ ~d.readable
        /\ ~d.actived => ~d.rclose /\ ~d.rread /\ d.readable = channel_.readable
    BY <1>2, <1>3, DispatchIs
  <1> HIDE DEF d
  <1>5. CASE d.actived
    <2>1. stage' = "handle" /\ channel_' = [d EXCEPT !.actived = FALSE]
      BY <1>1, <1>5 DEF C!HandleStart
    <2>2. /\ channel_' \in C!ChannelType /\ channel_'.read = d.read
          /\ channel_'.rclose = d.rclose /\ channel_'.rread = d.rread
          /\ channel_'.readable = d.readable
      BY <1>4, <2>1 DEF C!ChannelType
    <2>3. Flags'
      <3>1. channel_'.rclose => fin' /\ "in" \in events
        BY <1>1, <1>3, <1>4, <2>2
      <3>2. CASE close_ = "no" /\ "in" \in events
        <4>1. channel_'.read /\ channel_'.rread /\ channel_'.readable
          BY <1>2, <1>4, <2>2, <3>2
        <4>2. QED
          BY <1>1, <2>1, <3>1, <4>1 DEF Flags
      <3>3. CASE close_ = "no" /\ "in" \notin events
        <4>1. channel_'.read /\ ~channel_'.rread /\ ~channel_'.readable /\ ~channel_'.rclose
          BY <1>2, <1>4, <2>2, <3>1, <3>3
        <4>2. channel_'.rread = channel_'.readable
          BY <2>2, <4>1 DEF C!ChannelType
        <4>3. QED
          BY <1>1, <2>1, <3>1, <4>1, <4>2 DEF Flags
      <3>4. CASE close_ # "no"
        BY <1>1, <2>1, <3>1, <3>4 DEF Flags
      <3>5. QED
        BY <3>2, <3>3, <3>4
    <2>4. Draining => Draining'
      BY <1>1, <2>1 DEF Draining
    <2>5. QED
      BY <1>1, <1>2, <2>1, <2>2, <2>3, <2>4, OnlyFlags DEF Stages
  <1>6. CASE ~d.actived
    <2>1. stage' = "away" /\ channel_' = d
      BY <1>1, <1>6
    <2>2. Flags'
      BY <1>1, <1>2, <1>4, <1>6, <2>1 DEF Flags
    <2>3. Draining => Draining'
      BY <1>1, <2>1 DEF Draining
    <2>4. QED
      BY <1>1, <1>2, <1>4, <2>1, <2>2, <2>3, OnlyFlags DEF Stages
  <1>7. QED
    BY <1>5, <1>6

\* onClose, of a channel whose r-flags its caller leaves as they are.
LEMMA OnCloseIs ==
    ASSUME NEW ch \in C!ChannelType, NEW who \in {"peer", "user"}, OnClose(ch, who),
           close_ \in {"no", "peer", "user"}
    PROVE  /\ channel_' \in C!ChannelType
           /\ channel_'.rclose = ch.rclose /\ channel_'.rread = ch.rread
           /\ channel_'.readable = ch.readable
           /\ close_' \in {"peer", "user"}
           /\ close_ = "no" => close_' = who
           /\ close_ # "no" => close_' = close_
  <1>1. CASE close_ # "no"
    BY <1>1 DEF OnClose
  <1>2. CASE close_ = "no"
    <2>1. close_' = who /\ channel_' = [ch EXCEPT !.read = FALSE, !.write = FALSE]
      BY <1>2 DEF OnClose, C!DisableAll
    <2>2. QED
      BY <1>2, <2>1 DEF C!ChannelType
  <1>3. QED
    BY <1>1, <1>2

LEMMA HandleCloseKeeps ==
    IInv /\ HandleClose => IInv'
  <1> SUFFICES ASSUME IInv, HandleClose
               PROVE  IInv'
    OBVIOUS
  <1> DEFINE ch == C!ClearClose(channel_)
  <1>1. /\ stage = "handle" /\ channel_.rclose /\ OnClose(ch, "peer") /\ stage' = stage
        /\ UNCHANGED <<buffers_, readTail_, readSize_, delivered, socket, sent, inside, full, fin>>
    BY DEF HandleClose, rings, peer, user
  <1>2. /\ ch \in C!ChannelType /\ ~ch.rclose /\ ch.rread = channel_.rread
        /\ ch.readable = channel_.readable
    BY DEF IInv, TypeOK, C!ClearClose, C!ChannelType
  <1>3. close_ \in {"no", "peer", "user"}
    BY DEF IInv, TypeOK
  <1> HIDE DEF ch
  <1>4. /\ channel_' \in C!ChannelType
        /\ ~channel_'.rclose /\ channel_'.rread = channel_.rread
        /\ channel_'.readable = channel_.readable
        /\ close_' \in {"peer", "user"}
        /\ close_ = "no" => close_' = "peer"
        /\ close_ # "no" => close_' = close_
    BY <1>1, <1>2, <1>3, OnCloseIs
  <1>5. fin /\ (close_ = "no" => channel_.rread /\ channel_.readable)
    BY <1>1 DEF IInv, Flags
  <1>6. Flags'
    BY <1>1, <1>4 DEF Flags
  <1>7. Draining => Draining'
    BY <1>1, <1>3, <1>4, <1>5 DEF Draining
  <1>8. stage' \in Stages
    BY <1>1 DEF Stages
  <1>9. QED
    BY <1>1, <1>4, <1>6, <1>7, <1>8, OnlyFlags

LEMMA HandleReadKeeps ==
    IInv /\ HandleRead => IInv'
  <1> SUFFICES ASSUME IInv, HandleRead
               PROVE  IInv'
    OBVIOUS
  <1>1. /\ stage = "handle" /\ ~channel_.rclose /\ channel_' = C!ClearRead(channel_)
        /\ stage' = IF channel_.rread /\ channel_.readable THEN "read" ELSE "away"
        /\ UNCHANGED <<buffers_, readTail_, readSize_, delivered, socket, sent, inside, full, fin>>
        /\ close_' = close_
    BY DEF HandleRead, rings, peer, user
  <1>2. channel_ \in C!ChannelType /\ close_ \in {"no", "peer", "user"}
    BY DEF IInv, TypeOK
  <1>3. /\ channel_' \in C!ChannelType /\ ~channel_'.rread /\ channel_'.rclose = channel_.rclose
        /\ channel_'.readable = channel_.readable /\ channel_'.read = channel_.read
    <2>1. channel_' = [channel_ EXCEPT !.rread = FALSE]
      BY <1>1 DEF C!ClearRead
    <2>2. QED
      BY <1>2, <2>1 DEF C!ChannelType
  <1>4. close_ = "no" => channel_.read /\ channel_.rread = channel_.readable
    BY <1>1 DEF IInv, Flags
  <1>5. Flags'
    BY <1>1, <1>3, <1>4 DEF Flags
  <1>6. Draining => Draining'
    BY <1>1 DEF Draining
  <1>7. stage' \in Stages
    BY <1>1 DEF Stages
  <1>8. QED
    BY <1>1, <1>2, <1>3, <1>5, <1>6, <1>7, OnlyFlags

LEMMA CloseByUserKeeps ==
    IInv /\ CloseByUser => IInv'
  <1> SUFFICES ASSUME IInv, CloseByUser
               PROVE  IInv'
    OBVIOUS
  <1>1. /\ stage = "away" /\ close_ = "no" /\ OnClose(channel_, "user") /\ stage' = stage
        /\ UNCHANGED <<buffers_, readTail_, readSize_, delivered, socket, sent, inside, full, fin>>
    BY DEF CloseByUser, rings, peer, user
  <1>2. channel_ \in C!ChannelType /\ close_ \in {"no", "peer", "user"}
    BY DEF IInv, TypeOK
  <1>3. /\ channel_' \in C!ChannelType
        /\ channel_'.rclose = channel_.rclose /\ channel_'.rread = channel_.rread
        /\ close_' = "user"
    BY <1>1, <1>2, OnCloseIs
  <1>4. Flags'
    BY <1>1, <1>3 DEF IInv, Flags
  <1>5. Draining'
    BY <1>3 DEF Draining
  <1>6. stage' \in Stages
    BY <1>1 DEF Stages
  <1>7. QED
    BY <1>1, <1>3, <1>4, <1>5, <1>6, OnlyFlags

LEMMA DestroyInLoopKeeps ==
    IInv /\ DestroyInLoop => IInv'
  <1> SUFFICES ASSUME IInv, DestroyInLoop
               PROVE  IInv'
    OBVIOUS
  <1>1. /\ stage = "away" /\ close_ # "no" /\ channel_' = C!Close(channel_) /\ stage' = stage
        /\ UNCHANGED <<buffers_, readTail_, readSize_, delivered, socket, sent, inside, full, fin>>
        /\ close_' = close_
    BY DEF DestroyInLoop, rings, peer, user
  <1>2. channel_ \in C!ChannelType /\ close_ \in {"no", "peer", "user"}
    BY DEF IInv, TypeOK
  <1>3. /\ channel_' \in C!ChannelType
        /\ channel_'.rclose = channel_.rclose /\ channel_'.rread = channel_.rread
    <2>1. channel_' = [channel_ EXCEPT !.started = FALSE]
      BY <1>1 DEF C!Close
    <2>2. QED
      BY <1>2, <2>1 DEF C!ChannelType
  <1>4. Flags'
    BY <1>1, <1>3 DEF IInv, Flags
  <1>5. Draining => Draining'
    BY <1>1 DEF Draining
  <1>6. stage' \in Stages
    BY <1>1 DEF Stages
  <1>7. QED
    BY <1>1, <1>2, <1>3, <1>4, <1>5, <1>6, OnlyFlags

LEMMA CallbackDoneKeeps ==
    IInv /\ CallbackDone => IInv'
  <1> SUFFICES ASSUME IInv, CallbackDone
               PROVE  IInv'
    OBVIOUS
  <1>1. /\ stage = "callback"
        /\ IF full THEN stage' = "read" /\ channel_' = channel_
           ELSE stage' = "away" /\ channel_' = C!DisableReadable(channel_)
        /\ UNCHANGED <<buffers_, readTail_, readSize_, delivered, socket, sent, inside, full, fin>>
        /\ close_' = close_
    BY DEF CallbackDone, rings, peer, user
  <1>2. channel_ \in C!ChannelType /\ close_ \in {"no", "peer", "user"}
    BY DEF IInv, TypeOK
  <1>3. ~channel_.rclose /\ ~channel_.rread /\ (close_ = "no" => channel_.read)
    BY <1>1 DEF IInv, Flags
  <1>4. /\ channel_' \in C!ChannelType /\ channel_'.read = channel_.read
        /\ channel_'.rread = channel_.rread /\ channel_'.rclose = channel_.rclose
        /\ stage' = "away" => ~channel_'.readable
    BY <1>1, <1>2, Unreadable
  <1>5. stage' \in {"away", "read"} /\ stage' \in Stages /\ (stage' = "away" => ~full)
    BY <1>1 DEF Stages
  <1>6. Flags'
    BY <1>1, <1>3, <1>4, <1>5 DEF Flags
  <1>7. Draining => Draining'
    BY <1>1, <1>5 DEF Draining
  <1>8. QED
    BY <1>1, <1>2, <1>4, <1>5, <1>6, <1>7, OnlyFlags

LEMMA ReadNothingKeeps ==
    IInv /\ ReadNothing => IInv'
  <1> SUFFICES ASSUME IInv, ReadNothing
               PROVE  IInv'
    OBVIOUS
  <1>1. /\ stage = "read" /\ socket = <<>> /\ stage' = "away" /\ buffers_' = WithNext
        /\ IF fin THEN OnClose(channel_, "peer")
                  ELSE close_' = close_ /\ channel_' = C!DisableReadable(channel_)
        /\ UNCHANGED <<readTail_, readSize_, delivered, socket, sent, inside, full, fin>>
    BY DEF ReadNothing, peer, user
  <1>2. TypeOK /\ channel_ \in C!ChannelType /\ close_ \in {"no", "peer", "user"}
    BY DEF IInv, TypeOK
  <1>3. ~channel_.rclose /\ ~channel_.rread /\ (close_ = "no" => channel_.read)
    BY <1>1 DEF IInv, Flags
  <1>4. /\ channel_' \in C!ChannelType /\ close_' \in {"no", "peer", "user"}
        /\ ~channel_'.rclose /\ ~channel_'.rread
        /\ close_' = "no" => channel_'.read /\ ~channel_'.readable
        /\ close_' = "peer" => fin \/ close_ = "peer"
    <2>1. CASE fin
      <3>1. OnClose(channel_, "peer")
        BY <1>1, <2>1
      <3>2. /\ channel_' \in C!ChannelType
            /\ channel_'.rclose = channel_.rclose /\ channel_'.rread = channel_.rread
            /\ close_' \in {"peer", "user"}
        BY <1>2, <3>1, OnCloseIs
      <3>3. QED
        BY <1>3, <2>1, <3>2
    <2>2. CASE ~fin
      <3>1. close_' = close_ /\ channel_' = C!DisableReadable(channel_)
        BY <1>1, <2>2
      <3>2. /\ channel_' \in C!ChannelType /\ ~channel_'.readable /\ channel_'.read = channel_.read
            /\ channel_'.rclose = channel_.rclose /\ channel_'.rread = channel_.rread
        BY <1>2, <3>1, Unreadable
      <3>3. QED
        BY <1>2, <1>3, <3>1, <3>2
    <2>3. QED
      BY <2>1, <2>2
  <1>5. BuffersOK(buffers_', readTail_') /\ Counts(buffers_') = Counts(buffers_)
    BY <1>1, <1>2, WithNextKeeps
  <1>6. TypeOK'
    BY <1>1, <1>2, <1>4, <1>5 DEF TypeOK, Stages
  <1>7. Enough'
    BY <1>1, <1>5 DEF IInv, Enough
  <1>8. Flags'
    BY <1>1, <1>4 DEF Flags
  <1>9. ASSUME ~inside'
        PROVE  Stream' /\ Draining'
    <2>1. Stream /\ Draining
      BY <1>1, <1>9 DEF IInv
    <2>2. Len(delivered) \in Nat
      BY <1>2 DEF TypeOK
    <2>3. Holds(buffers_, Len(delivered))
      BY <2>1 DEF Stream
    <2>4. Holds(WithNext, Len(delivered))
      BY <1>2, <2>2, <2>3, WithNextKeeps
    <2>5. Stream'
      BY <1>1, <1>5, <2>1, <2>4 DEF Stream
    <2>6. Draining'
      BY <1>1, <1>4, <2>1 DEF Draining
    <2>7. QED
      BY <2>5, <2>6
  <1>10. QED
    BY <1>6, <1>7, <1>8, <1>9 DEF IInv

LEMMA ReadSomeKeeps ==
    IInv /\ ReadSome => IInv'
  <1> SUFFICES ASSUME IInv, ReadSome
               PROVE  IInv'
    OBVIOUS
  <1>1. /\ stage = "read" /\ fin' = fin /\ close_' = close_ /\ inside' = inside
        /\ \/ stage' = "away" /\ channel_' = C!DisableReadable(channel_)
           \/ stage' = "callback" /\ channel_' = channel_
    BY ReadSomeIs
  <1>2. TypeOK' /\ Enough'
    BY ReadSomeKeepsTypes DEF IInv
  <1>3. channel_ \in C!ChannelType /\ sent \in Nat
    BY DEF IInv, TypeOK
  <1>4. ~channel_.rclose /\ ~channel_.rread /\ (close_ = "no" => channel_.read)
    BY <1>1 DEF IInv, Flags
  <1>5. /\ ~channel_'.rclose /\ ~channel_'.rread /\ (close_ = "no" => channel_'.read)
        /\ stage' = "away" => ~channel_'.readable
    <2>1. CASE stage' = "away" /\ channel_' = C!DisableReadable(channel_)
      BY <1>3, <1>4, <2>1, Unreadable
    <2>2. CASE stage' = "callback" /\ channel_' = channel_
      BY <1>4, <2>2
    <2>3. QED
      BY <1>1, <2>1, <2>2
  <1>6. Flags'
    BY <1>1, <1>5 DEF Flags
  <1>7. ASSUME ~inside'
        PROVE  Stream' /\ Draining'
    <2>1. TypeOK /\ Stream /\ Draining
      BY <1>1, <1>7 DEF IInv
    <2>2. Stream' /\ stage' = "callback" /\ (~full' => socket' = <<>>)
      BY <1>3, <2>1, ReadSomeKeepsStream
    <2>3. Draining'
      BY <1>1, <2>1, <2>2 DEF Draining
    <2>4. QED
      BY <2>2, <2>3
  <1>8. QED
    BY <1>2, <1>6, <1>7 DEF IInv

LEMMA ReadDataKeeps ==
    ASSUME IInv, NEW size, ReadData(size)
    PROVE  IInv'
  <1> DEFINE e == End(buffers_, size)
             out == Peek(buffers_, size)
             D == Len(delivered)
             R == readSize_
             toEnd == e[2] = buffers_[e[1]].count
  <1>1. /\ size \in 1..readSize_
        /\ readTail_' = TailAfter(buffers_, readTail_, size)
        /\ inside' = (inside \/ (e[1] # 1 /\ ~toEnd))
        /\ delivered' = delivered \o out
        /\ buffers_' = AfterRead(buffers_, readTail_, size)
        /\ readSize_' = readSize_ - size
        /\ UNCHANGED <<stage, channel_, full, socket, sent, fin, close_>>
    BY DEF ReadData, TailAfter, peer
  <1>2. TypeOK /\ Enough /\ Flags
    BY DEF IInv
  <1>3. /\ buffers_ \in Seq(BufferType) /\ BuffersOK(buffers_, readTail_) /\ R \in Nat
        /\ delivered \in Seq(Nat) /\ D \in Nat
        /\ \A i \in 1..Len(buffers_) : buffers_[i].pop \in Offsets
    BY <1>2 DEF TypeOK, BuffersOK
  <1>4. Counts(buffers_) \in Nat /\ R <= Counts(buffers_)
    BY <1>2, <1>3, UptoFacts DEF Enough
  <1>5. size \in 1..Counts(buffers_) /\ size \in Nat /\ size <= R
    BY <1>1, <1>3, <1>4
  <1>6. /\ BuffersOK(buffers_', readTail_')
        /\ Counts(buffers_') >= Counts(buffers_) - size
        /\ e[1] = 1 \/ toEnd =>
              /\ Counts(buffers_') = Counts(buffers_) - size
              /\ \A base \in Nat : Holds(buffers_, base) => Holds(buffers_', base + size)
    BY <1>1, <1>3, <1>5, AfterReadIs
  <1>7. /\ out \in Seq(Nat) /\ Len(out) = size
        /\ \A base \in Nat : Holds(buffers_, base) => \A k \in 1..size : out[k] = base + k
    BY <1>3, <1>5, PeekIs
  <1> HIDE DEF out
  <1>8. delivered' \in Seq(Nat) /\ Behind(delivered', delivered, out)
    BY <1>1, <1>3, <1>7, ConcatBehind
  <1>9. /\ Len(delivered') = D + size
        /\ \A k \in 1..D : delivered'[k] = delivered[k]
        /\ \A k \in 1..size : delivered'[D + k] = out[k]
    BY <1>7, <1>8 DEF Behind
  <1>10. inside' \in BOOLEAN /\ (~inside' => ~inside /\ (e[1] = 1 \/ toEnd))
    BY <1>1, <1>2 DEF TypeOK
  <1> HIDE DEF e, toEnd
  <1>11. readSize_' = R - size /\ readSize_' \in Nat
    BY <1>1, <1>3, <1>5
  <1>12. TypeOK'
    BY <1>1, <1>2, <1>6, <1>8, <1>10, <1>11 DEF TypeOK
  <1>13. Enough'
    <2>1. Counts(buffers_') \in Nat
      BY <1>6, UptoFacts DEF BuffersOK
    <2>2. R - size <= Counts(buffers_')
      BY <1>3, <1>4, <1>5, <1>6, <2>1
    <2>3. QED
      BY <1>11, <2>2 DEF Enough
  <1>14. Flags'
    BY <1>1, <1>2 DEF Flags
  <1>15. ASSUME ~inside'
         PROVE  Stream' /\ Draining'
    <2>1. Stream /\ Draining /\ (e[1] = 1 \/ toEnd)
      BY <1>10, <1>15 DEF IInv
    <2>2. Draining'
      BY <1>1, <2>1 DEF Draining
    <2>3. /\ Counts(buffers_) = R /\ Holds(buffers_, D) /\ D + R + Len(socket) = sent
          /\ \A k \in 1..D : delivered[k] = k
          /\ \A k \in 1..Len(socket) : socket[k] = D + R + k
      BY <2>1 DEF Stream
    <2>4. Counts(buffers_') = readSize_' /\ Holds(buffers_', D + size)
      BY <1>3, <1>6, <1>11, <2>1, <2>3
    <2>5. (D + size) + (R - size) = D + R
      BY <1>3, <1>5
    <2>6. \A k \in 1..(D + size) : delivered'[k] = k
      <3>1. ASSUME NEW k \in 1..(D + size)
            PROVE  delivered'[k] = k
        <4>1. CASE k <= D
          <5>1. k \in 1..D
            BY <1>3, <4>1
          <5>2. QED
            BY <1>9, <2>3, <5>1
        <4>2. CASE ~(k <= D)
          <5> DEFINE j == k - D
          <5>1. j \in 1..size /\ D + j = k
            BY <1>3, <1>5, <4>2
          <5>2. out[j] = D + j
            BY <1>3, <1>7, <2>3, <5>1
          <5>3. delivered'[D + j] = out[j]
            BY <1>9, <5>1
          <5>4. QED
            BY <5>1, <5>2, <5>3
        <4>3. QED
          BY <4>1, <4>2
      <3>2. QED
        BY <3>1
    <2> HIDE DEF D, R
    <2>7. (D + size) + readSize_' = D + R
      BY <1>11, <2>5
    <2>8. Stream'
      BY <1>1, <1>9, <2>3, <2>4, <2>6, <2>7 DEF Stream
    <2>9. QED
      BY <2>2, <2>8
  <1>16. QED
    BY <1>12, <1>13, <1>14, <1>15 DEF IInv

LEMMA StutterKeeps ==
    IInv /\ UNCHANGED vars => IInv'
  <1> SUFFICES ASSUME IInv, UNCHANGED vars
               PROVE  IInv'
    OBVIOUS
  <1>1. /\ UNCHANGED <<buffers_, readTail_, readSize_, delivered, socket, sent, inside, full, fin>>
        /\ stage' = stage /\ channel_' = channel_ /\ close_' = close_
    BY DEF vars, rings, peer, user
  <1>2. stage' \in Stages /\ channel_' \in C!ChannelType /\ close_' \in {"no", "peer", "user"}
    BY <1>1 DEF IInv, TypeOK
  <1>3. Flags' /\ (Draining => Draining')
    BY <1>1 DEF IInv, Flags, Draining
  <1>4. QED
    BY <1>1, <1>2, <1>3, OnlyFlags

\* The counts, the streams and the flags of the channel stay together, for
\* rings of every capacity (TcpConnection.cpp:121-231, 285-373).
THEOREM Invariant ==
    Spec => []IInv
  <1>1. IInv /\ [Next]_vars => IInv'
    BY ArriveKeeps, CloseByUserKeeps, ReportKeeps, HandleCloseKeeps, HandleReadKeeps,
       ReadNothingKeeps, ReadSomeKeeps, CallbackDoneKeeps, DestroyInLoopKeeps, ReadDataKeeps,
       StutterKeeps
       DEF Next, LoopStep
  <1>2. QED
    BY InitIInv, <1>1, PTL DEF Spec

-----------------------------------------------------------------------------
(* What the invariant says of the whole list.                              *)

\* What the rings of a list hold, one behind the other.
LEMMA ContentsIs ==
    ASSUME NEW list \in Seq(BufferType),
           NEW base \in Nat, Holds(list, base)
    PROVE  /\ Contents(list) \in Seq(Nat) /\ Len(Contents(list)) = Counts(list)
           /\ \A k \in 1..Counts(list) : Contents(list)[k] = base + k
  <1> DEFINE n == Len(list)
             u == Upto(list)
             ss == [i \in 1..n |-> Content(list[i])]
             c == [i \in 1..n |-> list[i].count]
             F == Lists!FlattenSeq(ss)
  <1>1. /\ n \in Nat /\ \A i \in 0..n : u[i] \in Nat
        /\ \A i \in 1..n : list[i].count \in Nat /\ u[i] = u[i - 1] + list[i].count
        /\ Counts(list) = u[n]
    BY UptoFacts
  <1>2. \A k \in 1..Counts(list) : \E i \in 1..n : u[i - 1] < k /\ k <= u[i]
    BY UptoFacts
  <1>3. Sums(u, n, c)
    BY UptoSums
  <1>4. ASSUME NEW i \in 1..n
        PROVE  /\ Content(list[i]) \in Seq(Nat) /\ Len(Content(list[i])) = list[i].count
               /\ \A k \in 1..list[i].count : Content(list[i])[k] = base + u[i - 1] + k
    <2> DEFINE b == list[i]
               q == b.pop
               m == b.count
               cap == capacity_
    <2>1. b \in BufferType
      OBVIOUS
    <2>2. /\ cap \in Nat \ {0} /\ b.buffer \in [Offsets -> Nat] /\ m \in Nat
          /\ Offsets = 0..(cap - 1) /\ q \in Nat
      BY <2>1, BufferFields DEF Offsets
    <2>3. \A k \in 1..m : b.buffer[(q + k - 1) % cap] = (base + u[i - 1]) + k
      BY DEF Holds, Has
    <2>4. Content(b) = [k \in 1..m |-> b.buffer[(q + k - 1) % cap]]
      BY DEF Content, Bytes
    <2> HIDE DEF b, q, m, cap, u, n
    <2>5. ASSUME NEW k \in 1..m
          PROVE  b.buffer[(q + k - 1) % cap] \in Nat
      <3> DEFINE x == q + k - 1
      <3>1. x \in Nat
        BY <2>1, <2>2
      <3> HIDE DEF x
      <3>2. x % cap \in Offsets
        BY <2>2, <3>1
      <3>3. QED
        BY <2>2, <3>2 DEF x
    <2> DEFINE G(k) == b.buffer[(q + k - 1) % cap]
    <2>6. Content(b) = [k \in 1..m |-> G(k)] /\ \A k \in 1..m : G(k) \in Nat
      BY <2>4, <2>5
    <2>7. \A k \in 1..m : G(k) = (base + u[i - 1]) + k
      BY <2>3
    <2> HIDE DEF G
    <2>8. Content(b) \in Seq(Nat) /\ Len(Content(b)) = m /\ \A k \in 1..m : Content(b)[k] = G(k)
      BY <2>2, <2>6
    <2>9. QED
      BY <2>7, <2>8 DEF b, m
  <1> HIDE DEF u, n
  <1>5. ss \in Seq(Seq(Nat)) /\ Len(ss) = n /\ \A i \in 1..n : ss[i] = Content(list[i])
    BY <1>1, <1>4
  <1>6. \A i \in 1..Len(ss) : c[i] = Len(ss[i])
    BY <1>4, <1>5
  <1> HIDE DEF ss, c
  <1>7. F \in Seq(Nat) /\ Joins(F, n, ss, u)
    BY <1>3, <1>5, <1>6, FlattenPlaces
  <1>8. Contents(list) = F
    <2>1. Contents(list) = Flat!FlattenSeq(ss)
      BY DEF Contents, ss, n
    <2>2. Flat!FlattenSeq(ss) = Lists!FlattenSeq(ss)
      BY DEF Flat!FlattenSeq, Lists!FlattenSeq
    <2>3. QED
      BY <2>1, <2>2
  <1> HIDE DEF F
  <1>9. /\ Len(F) = u[n]
        /\ \A i \in 1..n : \A k \in 1..Len(ss[i]) : F[u[i - 1] + k] = ss[i][k]
    BY <1>7 DEF Joins
  <1>10. ASSUME NEW x \in 1..Counts(list)
         PROVE  F[x] = base + x
    <2>1. PICK i \in 1..n : u[i - 1] < x /\ x <= u[i]
      BY <1>2
    <2> DEFINE k == x - u[i - 1]
    <2>2. i - 1 \in 0..n /\ i \in 0..n
      BY <1>1
    <2>3. u[i - 1] \in Nat /\ u[i] \in Nat /\ u[i] = u[i - 1] + list[i].count /\ list[i].count \in Nat
      BY <1>1, <2>2
    <2>4. x \in Nat
      BY <1>1
    <2>5. k \in 1..list[i].count /\ u[i - 1] + k = x /\ base + u[i - 1] + k = base + x
      <3>1. k \in 1..list[i].count /\ u[i - 1] + k = x
        BY <2>1, <2>3, <2>4, SMTT(30)
      <3>2. base + u[i - 1] + k = base + x
        BY <2>3, <2>4, SMTT(30)
      <3>3. QED
        BY <3>1, <3>2
    <2> HIDE DEF k
    <2>6. F[u[i - 1] + k] = ss[i][k]
      <3>1. Len(ss[i]) = list[i].count
        BY <1>4, <1>5
      <3>2. k \in 1..Len(ss[i])
        BY <2>5, <3>1
      <3>3. QED
        BY <1>9, <3>2
    <2>7. ss[i][k] = base + u[i - 1] + k
      BY <1>4, <1>5, <2>5
    <2>8. QED
      BY <2>5, <2>6, <2>7
  <1>11. QED
    BY <1>1, <1>7, <1>8, <1>9, <1>10

\* A ring's fields agree.
LEMMA RingCoheres ==
    ASSUME NEW b \in BufferType, Ring(b)
    PROVE  Coherent(b)
  <1> DEFINE x == b.pop + b.count - b.push
             c == capacity_
  <1>1. c \in Nat \ {0} /\ (x = 0 \/ x = c)
    BY BufferFields DEF Ring
  <1> HIDE DEF x, c
  <1>2. 0 % c = 0
    BY <1>1
  <1>3. c % c = 0
    BY <1>1
  <1>4. x % c = 0
    BY <1>1, <1>2, <1>3
  <1>5. QED
    BY <1>4 DEF Coherent, x, c

LEMMA IInvCounts ==
    IInv => CountsAgree
  <1> SUFFICES ASSUME IInv
               PROVE  CountsAgree
    OBVIOUS
  <1>1. /\ buffers_ \in Seq(BufferType)
        /\ readTail_ \in 1..Len(buffers_) /\ Len(buffers_) - readTail_ \in {0, 1}
        /\ readTail_ < Len(buffers_) => buffers_[Len(buffers_)].count = 0
    BY DEF IInv, TypeOK, BuffersOK
  <1>2. ASSUME ~inside
        PROVE  /\ \A i \in 1..Len(buffers_) : Coherent(buffers_[i])
               /\ Counts(buffers_) = readSize_
    <2>1. Counts(buffers_) = readSize_ /\ Holds(buffers_, Len(delivered))
      BY <1>2 DEF IInv, Stream
    <2>2. ASSUME NEW i \in 1..Len(buffers_)
          PROVE  Coherent(buffers_[i])
      <3>1. buffers_[i] \in BufferType
        BY <1>1
      <3>2. Ring(buffers_[i])
        BY <2>1 DEF Holds, Has
      <3>3. QED
        BY <3>1, <3>2, RingCoheres
    <2>3. QED
      BY <2>1, <2>2
  <1>3. QED
    BY <1>1, <1>2 DEF CountsAgree

LEMMA IInvStreams ==
    IInv => StreamIntact
  <1> SUFFICES ASSUME IInv, ~inside
               PROVE  /\ delivered \o Contents(buffers_) \o socket = [i \in 1..sent |-> i]
                      /\ \A size \in 1..readSize_ :
                            Peek(buffers_, size) = SubSeq(Contents(buffers_), 1, size)
    BY DEF StreamIntact
  <1> DEFINE D == Len(delivered)
             R == readSize_
             held == Contents(buffers_)
  <1>1. /\ buffers_ \in Seq(BufferType) /\ \A i \in 1..Len(buffers_) : buffers_[i].pop \in Offsets
        /\ delivered \in Seq(Nat) /\ socket \in Seq(Nat) /\ R \in Nat /\ sent \in Nat /\ D \in Nat
        /\ Len(socket) \in Nat
    BY DEF IInv, TypeOK, BuffersOK
  <1>2. /\ Counts(buffers_) = R /\ Holds(buffers_, D) /\ D + R + Len(socket) = sent
        /\ \A k \in 1..D : delivered[k] = k
        /\ \A k \in 1..Len(socket) : socket[k] = D + R + k
    BY DEF IInv, Stream
  <1>3. held \in Seq(Nat) /\ Len(held) = R /\ \A k \in 1..R : held[k] = D + k
    BY <1>1, <1>2, ContentsIs
  <1> HIDE DEF held, R
  <1>4. delivered \o held \o socket = [i \in 1..sent |-> i]
    <2> DEFINE two == delivered \o held
               all == two \o socket
               want == [i \in 1..sent |-> i]
    <2>1. two \in Seq(Nat) /\ Behind(two, delivered, held)
      BY <1>1, <1>3, ConcatBehind
    <2>2. /\ Len(two) = D + R
          /\ \A k \in 1..D : two[k] = delivered[k]
          /\ \A k \in 1..R : two[D + k] = held[k]
      BY <1>3, <2>1 DEF Behind
    <2> HIDE DEF two, D
    <2>3. all \in Seq(Nat) /\ Behind(all, two, socket)
      BY <1>1, <2>1, ConcatBehind
    <2> HIDE DEF all
    <2>4. /\ Len(all) = (D + R) + Len(socket)
          /\ \A k \in 1..(D + R) : all[k] = two[k]
          /\ \A k \in 1..Len(socket) : all[(D + R) + k] = socket[k]
      BY <2>2, <2>3 DEF Behind
    <2>5. Len(all) = sent
      BY <1>2, <2>4
    <2>6. ASSUME NEW k \in 1..sent
          PROVE  all[k] = k
      <3>1. CASE k <= D
        <4>1. k \in 1..D /\ k \in 1..(D + R)
          BY <1>1, <3>1
        <4>2. QED
          BY <1>2, <2>2, <2>4, <4>1
      <3>2. CASE D < k /\ k <= D + R
        <4> DEFINE j == k - D
        <4>1. j \in 1..R /\ D + j = k /\ k \in 1..(D + R)
          BY <1>1, <3>2
        <4>2. two[D + j] = held[j] /\ held[j] = D + j
          BY <1>3, <2>2, <4>1
        <4>3. QED
          BY <2>4, <4>1, <4>2
      <3>3. CASE D + R < k
        <4> DEFINE j == k - (D + R)
        <4>1. j \in 1..Len(socket) /\ (D + R) + j = k /\ D + R + j = k
          BY <1>1, <1>2, <3>3
        <4>2. all[(D + R) + j] = socket[j] /\ socket[j] = D + R + j
          BY <1>2, <2>4, <4>1
        <4>3. QED
          BY <4>1, <4>2
      <3>4. QED
        BY <1>1, <3>1, <3>2, <3>3
    <2>7. want \in Seq(Nat) /\ Len(want) = sent /\ \A k \in 1..sent : want[k] = k
      BY <1>1
    <2> HIDE DEF want
    <2>8. all = want
      BY <2>3, <2>5, <2>6, <2>7, SeqEqual
    <2>9. QED
      BY <2>8 DEF all, two, want
  <1>5. ASSUME NEW size \in 1..R
        PROVE  Peek(buffers_, size) = SubSeq(held, 1, size)
    <2> DEFINE p == Peek(buffers_, size)
               s == SubSeq(held, 1, size)
    <2>1. size \in 1..Counts(buffers_)
      BY <1>2
    <2>2. p \in Seq(Nat) /\ Len(p) = size /\ \A k \in 1..size : p[k] = D + k
      BY <1>1, <1>2, <2>1, PeekIs
    <2>3. s \in Seq(Nat) /\ Len(s) = size /\ \A k \in 1..size : s[k] = D + k
      <3> HIDE DEF D
      <3>1. s \in Seq(Nat) /\ Len(s) = size /\ \A k \in 1..size : s[k] = held[k]
        BY <1>1, <1>3
      <3>2. QED
        BY <1>1, <1>3, <3>1
    <2> HIDE DEF p, s
    <2>4. Len(p) = Len(s) /\ \A k \in 1..Len(p) : p[k] = s[k]
      BY <2>2, <2>3
    <2>5. p = s
      BY <2>2, <2>3, <2>4, SeqEqual
    <2>6. QED
      BY <2>5 DEF p, s
  <1>6. QED
    BY <1>4, <1>5 DEF held, R

\* The rings' counts, push and pop, and readSize_ tell the same story, for
\* buffers of every capacity and any number of bytes (TcpConnection.cpp:186,
\* 203, 213, 223-229, 335-347).
THEOREM CountsAlwaysAgree ==
    Spec => []CountsAgree
  BY Invariant, IInvCounts, PTL

\* No byte is lost, doubled or moved by readv or ReadData, and PeekData shows
\* what ReadData would hand out (TcpConnection.cpp:121-231, 290-347).
THEOREM StreamAlwaysIntact ==
    Spec => []StreamIntact
  BY Invariant, IInvStreams, PTL

\* A peer that closes loses none of its last bytes, although onClose runs
\* before onRead (Channel.cpp:73-99, TcpConnection.cpp:100-102, 285-288,
\* 446-459).
THEOREM AlwaysReadBeforeRelease ==
    Spec => []ReadBeforeRelease
  <1>1. IInv => ReadBeforeRelease
    BY DEF IInv, TypeOK, Draining, ReadBeforeRelease
  <1>2. QED
    BY Invariant, <1>1, PTL

-----------------------------------------------------------------------------
(* The writing half, TcpWrite, for buffers of the same capacity.           *)

CONSTANT SocketSize

WriteAssumption == MaxBytes \in Nat /\ SocketSize \in Nat \ {0}

VARIABLES
    writing, waiting, writeSize_, writeChannel_, room, short, writeReady, total, queued, flushed,
    stray

W == INSTANCE TcpWrite
    WITH stage <- writing, buffers_ <- waiting, channel_ <- writeChannel_,
         readyList <- writeReady, sent <- total

\* Its buffers are those of the reading half.
LEMMA SameBuffers ==
    /\ W!Offsets = Offsets /\ W!BufferType = BufferType /\ W!Take = Take
    /\ \A b, to, s : W!Copied(b, to, s) = Copied(b, to, s)
    /\ \A b, from, n : W!Bytes(b, from, n) = Bytes(b, from, n)
    /\ \A b : W!Coherent(b) = Coherent(b)
    /\ \A list : W!Upto(list) = Upto(list) /\ W!Counts(list) = Counts(list)
    /\ \A list : W!Contents(list) = Contents(list)
  BY DEF W!Offsets, Offsets, W!BufferType, BufferType, W!Take, Take, W!Garbage, Garbage,
         W!Copied, Copied, W!Bytes, Bytes, W!Coherent, Coherent, W!Upto, Upto, W!Counts, Counts,
         W!Contents, Contents, W!Content, Content, W!Flat!FlattenSeq, Flat!FlattenSeq

-----------------------------------------------------------------------------
(* What writeData does to a ring (TcpConnection.cpp:233-283).              *)

\* Where a place of the ring is, seen from push.
Seen(c, q, m, p, k) ==
    (((q + k - 1) % c) - p) % c = IF k <= m THEN c + (k - 1 - m) ELSE k - 1 - m

LEMMA FromPush ==
    ASSUME NEW c \in Nat \ {0}, NEW q \in 0..c, NEW m \in 0..c, NEW p \in 0..c,
           Meets(c, q, m, p), NEW k \in 1..c
    PROVE  Seen(c, q, m, p, k)
  <1> DEFINE x == q + k - 1
             y == x % c
             d == y - p
             z == k - 1 - m
  <1>1. x \in Nat /\ x < c + c
    OBVIOUS
  <1>2. y = x \/ y = x - c
    <2> HIDE DEF x
    <2>1. QED
      BY <1>1, Around
  <1>3. y \in 0..(c - 1)
    <2> HIDE DEF x
    <2>1. QED
      BY <1>1
  <1>4. d \in Int /\ -c <= d /\ d < c /\ z \in Int /\ -c <= z /\ z < c
    <2> HIDE DEF y
    <2>1. QED
      BY <1>3
  <1>5. d = z \/ d = z - c \/ d = z + c
    <2> HIDE DEF y
    <2>1. q + m = p \/ q + m = p + c
      BY DEF Meets
    <2>2. QED
      BY <1>2, <1>3, <2>1
  <1>6. z < 0 <=> k <= m
    OBVIOUS
  <1> HIDE DEF d, z
  <1>7. d % c = IF d < 0 THEN c + d ELSE d
    <2>1. CASE d < 0
      <3>1. c + d \in Nat /\ c + d < c
        BY <1>4, <2>1
      <3>2. d % c = (c + d) % c
        BY <1>4
      <3>3. QED
        BY <2>1, <3>1, <3>2, Within
    <2>2. CASE ~(d < 0)
      BY <1>4, <2>2, Within
    <2>3. QED
      BY <2>1, <2>2
  <1>8. d % c = IF z < 0 THEN c + z ELSE z
    <2>1. d % c = d \/ d % c = c + d
      BY <1>7
    <2>2. QED
      BY <1>4, <1>5, <1>7
  <1>9. QED
    BY <1>6, <1>8 DEF d, z, Seen

\* The ring with more bytes copied to push: those it had stay.
LEMMA CopiedBehind ==
    ASSUME NEW b \in BufferType, Ring(b), NEW s \in Seq(Nat), b.count + Len(s) <= capacity_
    PROVE  LET F == Copied(b, b.push, s)
           IN  /\ F \in [Offsets -> Nat]
               /\ \A k \in 1..b.count :
                     F[(b.pop + k - 1) % capacity_] = b.buffer[(b.pop + k - 1) % capacity_]
               /\ \A j \in 1..Len(s) : F[(b.pop + (b.count + j) - 1) % capacity_] = s[j]
  <1> DEFINE F == Copied(b, b.push, s)
             c == capacity_
             q == b.pop
             m == b.count
             p == b.push
             l == Len(s)
             From(i) == (i - p) % c
             Place(k) == (q + k - 1) % c
  <1>1. /\ c \in Nat \ {0} /\ q \in 0..c /\ m \in 0..c /\ p \in 0..c /\ l \in Nat /\ m + l <= c
        /\ Offsets = 0..(c - 1) /\ b.buffer \in [Offsets -> Nat]
    BY BufferFields DEF Offsets
  <1>2. Meets(c, q, m, p)
    BY DEF Meets, Ring
  <1>3. F = [i \in Offsets |-> IF From(i) < l THEN s[From(i) + 1] ELSE b.buffer[i]]
    BY DEF Copied
  <1> HIDE DEF F, c, q, m, p, l
  <1>4. ASSUME NEW i \in Offsets
        PROVE  From(i) \in Nat
    <2> DEFINE y == i - p
    <2>1. y \in Int
      BY <1>1
    <2> HIDE DEF y
    <2>2. y % c \in Nat
      BY <1>1, <2>1
    <2>3. QED
      BY <2>2 DEF y
  <1>5. ASSUME NEW k \in 1..c
        PROVE  /\ Place(k) \in Offsets
               /\ From(Place(k)) = IF k <= m THEN c + (k - 1 - m) ELSE k - 1 - m
    <2> DEFINE x == q + k - 1
    <2>1. x \in Nat
      BY <1>1
    <2>2. Place(k) \in Offsets
      <3> HIDE DEF x
      <3>1. x % c \in 0..(c - 1)
        BY <1>1, <2>1
      <3>2. QED
        BY <1>1, <3>1 DEF x
    <2>3. Seen(c, q, m, p, k)
      BY <1>1, <1>2, FromPush
    <2>4. QED
      BY <2>2, <2>3 DEF Seen
  <1> HIDE DEF From, Place
  <1>6. F \in [Offsets -> Nat]
    <2>1. ASSUME NEW i \in Offsets
          PROVE  (IF From(i) < l THEN s[From(i) + 1] ELSE b.buffer[i]) \in Nat
      <3>1. CASE From(i) < l
        <4>1. From(i) + 1 \in 1..l
          BY <1>1, <1>4, <3>1
        <4>2. QED
          BY <3>1, <4>1 DEF l
      <3>2. CASE ~(From(i) < l)
        BY <1>1, <3>2
      <3>3. QED
        BY <3>1, <3>2
    <2>2. QED
      BY <1>3, <2>1
  <1>7. ASSUME NEW k \in 1..m
        PROVE  F[Place(k)] = b.buffer[Place(k)]
    <2>1. k \in 1..c /\ k <= m /\ ~(c + (k - 1 - m) < l)
      BY <1>1
    <2>2. Place(k) \in Offsets /\ From(Place(k)) = c + (k - 1 - m)
      BY <1>5, <2>1
    <2>3. QED
      BY <1>3, <2>1, <2>2
  <1>8. ASSUME NEW j \in 1..l
        PROVE  F[Place(m + j)] = s[j]
    <2>1. m + j \in 1..c /\ ~(m + j <= m) /\ (m + j) - 1 - m = j - 1 /\ j - 1 < l /\ (j - 1) + 1 = j
      BY <1>1
    <2>2. Place(m + j) \in Offsets /\ From(Place(m + j)) = j - 1
      BY <1>5, <2>1
    <2>3. QED
      BY <1>3, <2>1, <2>2
  <1>9. QED
    BY <1>6, <1>7, <1>8 DEF F, c, q, m, p, l, Place

\* A ring that got the numbers behind its own holds them all.
LEMMA RingGets ==
    ASSUME NEW b \in BufferType, NEW s \in Seq(Nat), b.count + Len(s) <= capacity_,
           NEW t \in BufferType, Ring(t), t.buffer = Copied(b, b.push, s),
           t.pop = b.pop, t.count = b.count + Len(s),
           NEW base \in Nat, Has(b, base), \A k \in 1..Len(s) : s[k] = base + b.count + k
    PROVE  Has(t, base)
  <1> DEFINE c == capacity_
             q == b.pop
             m == b.count
             l == Len(s)
             Place(k) == (q + k - 1) % c
  <1>1. m \in Nat /\ l \in Nat /\ t.count = m + l
    BY BufferFields
  <1>2. /\ \A k \in 1..m : t.buffer[Place(k)] = b.buffer[Place(k)]
        /\ \A j \in 1..l : t.buffer[Place(m + j)] = s[j]
    BY CopiedBehind DEF Has
  <1>3. \A k \in 1..m : b.buffer[Place(k)] = base + k
    BY DEF Has
  <1> HIDE DEF c, q, m, l, Place
  <1>4. ASSUME NEW k \in 1..(m + l)
        PROVE  t.buffer[Place(k)] = base + k
    <2>1. CASE k \in 1..m
      BY <1>2, <1>3, <2>1
    <2>2. CASE ~(k \in 1..m)
      <3> DEFINE j == k - m
      <3>1. j \in 1..l /\ m + j = k /\ base + m + j = base + k
        BY <1>1, <2>2
      <3>2. s[j] = base + m + j
        BY <3>1 DEF l, m
      <3> HIDE DEF j
      <3>3. t.buffer[Place(m + j)] = s[j]
        BY <1>2, <3>1
      <3>4. QED
        BY <3>1, <3>2, <3>3
    <2>3. QED
      BY <2>1, <2>2
  <1>5. QED
    BY <1>1, <1>4 DEF Has, Place, q, c, m, l

\* push after the bytes that a ring got, when they do not fill it.
LEMMA PushMoves ==
    ASSUME NEW c \in Nat \ {0}, NEW q \in 0..c, NEW m \in 0..c, NEW p \in 0..c,
           Meets(c, q, m, p), NEW l \in Nat, m + l < c,
           NEW y, y = IF l > c - p THEN l - (c - p) ELSE (p + l) % c
    PROVE  y \in 0..c /\ Meets(c, q, m + l, y)
  <1>1. q + m = p \/ q + m = p + c
    BY DEF Meets
  <1>2. CASE l > c - p
    <2>1. y = p + l - c
      BY <1>2
    <2>2. QED
      BY <1>1, <1>2, <2>1 DEF Meets
  <1>3. CASE ~(l > c - p)
    <2> DEFINE x == p + l
    <2>1. x \in Nat /\ x < c + c /\ x <= c
      BY <1>3
    <2> HIDE DEF x
    <2>2. x % c = IF x < c THEN x ELSE x - c
      BY <2>1, Around
    <2>3. y = IF x < c THEN x ELSE 0
      BY <1>3, <2>1, <2>2 DEF x
    <2>4. QED
      BY <1>1, <2>1, <2>3 DEF x, Meets
  <1>4. QED
    BY <1>2, <1>3

\* A ring with more bytes behind its own, and the push that goes with them.
More(b, s, y) == [b EXCEPT !.buffer = Copied(b, b.push, s), !.push = y, !.count = b.count + Len(s)]

\* The ring t is b with the bytes s behind its own.
Wrote(b, s, t) ==
    /\ t \in BufferType /\ Ring(t) /\ t.pop = b.pop /\ t.count = b.count + Len(s)
    /\ \A base \in Nat :
          Has(b, base) /\ (\A k \in 1..Len(s) : s[k] = base + b.count + k) => Has(t, base)

LEMMA RingWritten ==
    ASSUME NEW b \in BufferType, Ring(b), NEW s \in Seq(Nat), b.count + Len(s) <= capacity_,
           NEW y \in 0..capacity_, Meets(capacity_, b.pop, b.count + Len(s), y)
    PROVE  Wrote(b, s, More(b, s, y))
  <1> DEFINE F == Copied(b, b.push, s)
             n == b.count + Len(s)
             t == [b EXCEPT !.buffer = F, !.push = y, !.count = n]
  <1>1. F \in [Offsets -> Nat]
    BY CopiedBehind
  <1>2. n \in 0..capacity_
    BY BufferFields
  <1>3. t = More(b, s, y)
    BY DEF More
  <1> HIDE DEF F, n
  <1>4. t \in BufferType /\ t.buffer = F /\ t.pop = b.pop /\ t.push = y /\ t.count = n
    BY <1>1, <1>2 DEF BufferType
  <1> HIDE DEF t
  <1>5. Ring(t)
    BY <1>4 DEF Ring, Meets, n
  <1>6. ASSUME NEW base \in Nat, Has(b, base), \A k \in 1..Len(s) : s[k] = base + b.count + k
        PROVE  Has(t, base)
    BY <1>4, <1>5, <1>6, RingGets DEF F, n
  <1>7. QED
    BY <1>3, <1>4, <1>5, <1>6 DEF n, Wrote

\* A list whose tail was replaced, with more buffers behind it.
Longer(list, t, x) == [list EXCEPT ![Len(list)] = t] \o x

LongerFacts(list, t, x) ==
    LET r == Longer(list, t, x)
        n == Len(list)
    IN  /\ r \in Seq(BufferType) /\ Len(r) = n + Len(x)
        /\ \A j \in 1..(n - 1) : r[j] = list[j]
        /\ r[n] = t
        /\ \A j \in 1..Len(x) : r[n + j] = x[j]
        /\ \A j \in 0..(n - 1) : Upto(r)[j] = Upto(list)[j]
        /\ \A j \in 0..Len(x) : Upto(r)[n + j] = Upto(list)[n - 1] + t.count + Upto(x)[j]
        /\ Counts(r) = Upto(list)[n - 1] + t.count + Counts(x)

LEMMA LongerIs ==
    ASSUME NEW list \in Seq(BufferType), Len(list) # 0, NEW t \in BufferType,
           NEW x \in Seq(BufferType)
    PROVE  LongerFacts(list, t, x)
  <1> DEFINE n == Len(list)
             s == [list EXCEPT ![n] = t]
             r == s \o x
             l == Len(x)
             u == Upto(list)
             v == Upto(r)
             w == Upto(x)
  <1>1. n \in Nat \ {0} /\ l \in Nat
    OBVIOUS
  <1>2. s \in Seq(BufferType) /\ Len(s) = n /\ s[n] = t /\ \A j \in 1..(n - 1) : s[j] = list[j]
    OBVIOUS
  <1> HIDE DEF s
  <1>3. r \in Seq(BufferType) /\ Behind(r, s, x)
    BY <1>2, ConcatBehind
  <1> HIDE DEF r
  <1>4. Len(r) = n + l /\ (\A j \in 1..n : r[j] = s[j]) /\ \A j \in 1..l : r[n + j] = x[j]
    BY <1>2, <1>3 DEF Behind
  <1> HIDE DEF n, l
  <1>5. r[n] = t /\ \A j \in 1..(n - 1) : r[j] = list[j]
    BY <1>1, <1>2, <1>4
  <1>6. \A j \in 0..(n - 1) : v[j] = u[j]
    <2>1. n - 1 \in Nat /\ n - 1 <= Len(list) /\ n - 1 <= Len(r)
      BY <1>1, <1>4 DEF n
    <2>2. \A j \in 1..(n - 1) : list[j].count = r[j].count
      BY <1>5
    <2>3. \A j \in 0..(n - 1) : u[j] = v[j]
      BY <1>3, <2>1, <2>2, UptoPrefix
    <2>4. QED
      BY <2>3
  <1>7. Parallel(v, n, w, 0, l)
    <2>1. AlikeLists(r, n, x, 0, l)
      BY <1>1, <1>4 DEF AlikeLists
    <2>2. n + l <= Len(r) /\ 0 + l <= Len(x)
      BY <1>1, <1>4 DEF l
    <2>3. QED
      BY <1>1, <1>3, <2>1, <2>2, UptoShift
  <1>8. /\ \A j \in 0..n : u[j] \in Nat
        /\ \A j \in 0..(n + l) : v[j] \in Nat
        /\ \A j \in 1..(n + l) : r[j].count \in Nat /\ v[j] = v[j - 1] + r[j].count
        /\ w[0] = 0 /\ (\A j \in 0..l : w[j] \in Nat) /\ Counts(x) = w[l] /\ Counts(r) = v[n + l]
    BY <1>3, <1>4, UptoFacts DEF n, l
  <1> HIDE DEF u, v, w
  <1>9. v[n] = u[n - 1] + t.count /\ t.count \in Nat /\ u[n - 1] \in Nat
    <2>1. n \in 1..(n + l) /\ n - 1 \in 0..(n - 1) /\ n - 1 \in 0..n
      BY <1>1
    <2>2. v[n] = v[n - 1] + r[n].count /\ r[n].count \in Nat /\ v[n - 1] = u[n - 1]
      BY <1>6, <1>8, <2>1
    <2>3. QED
      BY <1>5, <1>8, <2>1, <2>2
  <1>10. ASSUME NEW j \in 0..l
         PROVE  v[n + j] = u[n - 1] + t.count + w[j]
    <2>1. v[n + j] - v[n] = w[0 + j] - w[0]
      BY <1>7 DEF Parallel
    <2>2. 0 + j = j /\ n + j \in 0..(n + l)
      BY <1>1
    <2>3. w[j] \in Nat /\ v[n + j] \in Nat /\ w[0] = 0
      BY <1>8, <2>2
    <2>4. v[n + j] - v[n] = w[j] - w[0]
      BY <2>1, <2>2
    <2>5. v[n + j] = v[n] + w[j]
      <3> DEFINE a == v[n + j]
                 b == v[n]
                 d == w[j]
                 e == w[0]
      <3>1. a \in Nat /\ b \in Nat /\ d \in Nat /\ e = 0
        BY <1>9, <2>3
      <3>2. a - b = d - e
        BY <2>4
      <3> HIDE DEF a, b, d, e
      <3>3. a = b + d
        BY <3>1, <3>2
      <3>4. QED
        BY <3>3 DEF a, b, d
    <2>6. QED
      BY <1>1, <1>9, <2>3, <2>5
  <1>11. Counts(r) = u[n - 1] + t.count + Counts(x)
    <2>1. l \in 0..l
      BY <1>1
    <2>2. QED
      BY <1>8, <1>10, <2>1
  <1>12. r = Longer(list, t, x)
    BY DEF Longer, r, s, n
  <1>13. QED
    BY <1>3, <1>4, <1>5, <1>6, <1>10, <1>11, <1>12 DEF LongerFacts, n, l, u, v, w

\* What the longer list holds.
Behinds(x) == Rings(x) /\ \A j \in 1..Len(x) : x[j].pop = 0

LEMMA LongerHolds ==
    ASSUME NEW list \in Seq(BufferType), Len(list) # 0, NEW t \in BufferType,
           NEW x \in Seq(BufferType), Rings(list), Ring(t), t.pop = list[Len(list)].pop, Behinds(x)
    PROVE  /\ Rings(Longer(list, t, x))
           /\ \A base \in Nat :
                 /\ Holds(list, base)
                 /\ Has(t, base + Upto(list)[Len(list) - 1])
                 /\ Holds(x, base + Upto(list)[Len(list) - 1] + t.count)
                 => Holds(Longer(list, t, x), base)
  <1> DEFINE n == Len(list)
             l == Len(x)
             r == Longer(list, t, x)
             u == Upto(list)
             v == Upto(r)
             w == Upto(x)
  <1>1. n \in Nat \ {0} /\ l \in Nat
    OBVIOUS
  <1>2. /\ r \in Seq(BufferType) /\ Len(r) = n + l
        /\ \A j \in 1..(n - 1) : r[j] = list[j]
        /\ r[n] = t
        /\ \A j \in 1..l : r[n + j] = x[j]
        /\ \A j \in 0..(n - 1) : v[j] = u[j]
        /\ \A j \in 0..l : v[n + j] = u[n - 1] + t.count + w[j]
    <2>1. LongerFacts(list, t, x)
      BY LongerIs
    <2>2. QED
      BY <2>1 DEF LongerFacts
  <1>3. /\ \A j \in 1..n : Ring(list[j])
        /\ \A j \in 2..n : list[j].pop = 0
        /\ \A j \in 1..l : Ring(x[j]) /\ x[j].pop = 0
        /\ t.pop = list[n].pop
    BY DEF Rings, Behinds
  <1>4. t.count \in Nat /\ (\A j \in 0..n : u[j] \in Nat) /\ \A j \in 0..l : w[j] \in Nat
    BY BufferFields, UptoFacts
  <1> HIDE DEF n, l, r, u, v, w
  <1>5. \A j \in 1..(n + l) : j \in 1..(n - 1) \/ j = n \/ \E k \in 1..l : j = n + k
    <2>1. ASSUME NEW j \in 1..(n + l), ~(j \in 1..(n - 1)), j # n
          PROVE  j - n \in 1..l /\ j = n + (j - n)
      BY <1>1, <2>1
    <2>2. QED
      BY <2>1
  <1>6. \A j \in 2..(n + l) : r[j].pop = 0
    <2>1. ASSUME NEW j \in 2..(n + l)
          PROVE  r[j].pop = 0
      <3>1. j \in 1..(n + l)
        OBVIOUS
      <3>2. CASE j \in 1..(n - 1)
        <4>1. j \in 2..n
          BY <1>1, <3>2
        <4>2. QED
          BY <1>2, <1>3, <3>2, <4>1
      <3>3. CASE j = n
        <4>1. n \in 2..n
          BY <1>1, <3>3
        <4>2. QED
          BY <1>2, <1>3, <3>3, <4>1
      <3>4. CASE \E k \in 1..l : j = n + k
        BY <1>2, <1>3, <3>4
      <3>5. QED
        BY <1>5, <3>1, <3>2, <3>3, <3>4
    <2>2. QED
      BY <2>1
  <1>7. \A j \in 1..(n + l) : Ring(r[j])
    <2>1. \A j \in 1..(n - 1) : j \in 1..n
      BY <1>1
    <2>2. QED
      BY <1>2, <1>3, <1>5, <2>1
  <1>8. ASSUME NEW base \in Nat, Holds(list, base), Has(t, base + u[n - 1]),
               Holds(x, base + u[n - 1] + t.count)
        PROVE  Holds(r, base)
    <2>1. \A j \in 1..n : Has(list[j], base + u[j - 1])
      BY <1>8 DEF Holds, n, u
    <2>2. \A j \in 1..l : Has(x[j], (base + u[n - 1] + t.count) + w[j - 1])
      BY <1>8 DEF Holds, l, w
    <2>3. ASSUME NEW j \in 1..(n + l)
          PROVE  Has(r[j], base + v[j - 1])
      <3>1. CASE j \in 1..(n - 1)
        <4>1. j \in 1..n /\ j - 1 \in 0..(n - 1)
          BY <1>1, <3>1
        <4>2. QED
          BY <1>2, <2>1, <3>1, <4>1
      <3>2. CASE j = n
        <4>1. n - 1 \in 0..(n - 1)
          BY <1>1
        <4>2. QED
          BY <1>2, <1>8, <3>2, <4>1
      <3>3. ASSUME NEW k \in 1..l, j = n + k
            PROVE  Has(r[j], base + v[j - 1])
        <4>1. k - 1 \in 0..l /\ j - 1 = n + (k - 1) /\ n - 1 \in 0..n
          BY <1>1, <3>3
        <4>2. v[j - 1] = u[n - 1] + t.count + w[k - 1] /\ w[k - 1] \in Nat /\ u[n - 1] \in Nat
          BY <1>2, <1>4, <4>1
        <4>3. base + v[j - 1] = (base + u[n - 1] + t.count) + w[k - 1]
          BY <1>4, <4>2, SMTT(20)
        <4>4. Has(x[k], (base + u[n - 1] + t.count) + w[k - 1])
          BY <2>2
        <4>5. r[j] = x[k]
          BY <1>2, <3>3
        <4>6. QED
          BY <4>3, <4>4, <4>5
      <3>4. QED
        BY <1>5, <3>1, <3>2, <3>3
    <2>4. QED
      BY <1>2, <1>6, <2>3 DEF Holds, v
  <1>9. Rings(r)
    BY <1>2, <1>6, <1>7 DEF Rings
  <1>10. QED
    BY <1>8, <1>9 DEF n, l, r, u, v, w

\* How l bytes are shared out: last buffers are filled, and one gets the rest.
LEMMA SharedOut ==
    ASSUME NEW c \in Nat \ {0}, NEW l \in Nat \ {0}, NEW last, last = (l - 1) \div c
    PROVE  /\ last \in Nat /\ last * c < l /\ l <= (last + 1) * c
           /\ \A i \in 0..last :
                 i * c \in Nat /\ (i + 1) * c = i * c + c /\ (i # last => (i + 1) * c <= last * c)
  <1>1. last \in Nat
    OBVIOUS
  <1>2. last * c <= l - 1 /\ l - 1 < (last + 1) * c
    OBVIOUS
  <1>3. ASSUME NEW i \in 0..last
        PROVE  i * c \in Nat /\ (i + 1) * c = i * c + c /\ (i # last => (i + 1) * c <= last * c)
    OBVIOUS
  <1>4. QED
    BY <1>1, <1>2, <1>3

\* The bytes of s that the buffer behind i full ones gets.
Share(s, i) == SubSeq(s, i * capacity_ + 1, W!Least(Len(s), (i + 1) * capacity_))
LastFull(s) == (Len(s) - 1) \div capacity_

LEMMA PartIs ==
    ASSUME NEW s \in Seq(Nat), NEW a \in Nat, NEW e \in Nat, a < e, e <= Len(s)
    PROVE  /\ SubSeq(s, a + 1, e) \in Seq(Nat) /\ Len(SubSeq(s, a + 1, e)) = e - a
           /\ \A k \in 1..(e - a) : SubSeq(s, a + 1, e)[k] = s[a + k]
  <1> DEFINE b == a + 1
  <1>1. b \in Int /\ e \in Int /\ b <= e /\ e - b + 1 = e - a
    OBVIOUS
  <1>2. \A i \in b..e : s[i] \in Nat
    <2>1. \A i \in b..e : i \in 1..Len(s)
      OBVIOUS
    <2> HIDE DEF b
    <2>2. QED
      BY <2>1
  <1>3. \A k \in 1..(e - a) : b + k - 1 = a + k
    OBVIOUS
  <1> DEFINE t == SubSeq(s, b, e)
  <1> HIDE DEF b
  <1>4. /\ t \in Seq(Nat) /\ Len(t) = (IF b <= e THEN e - b + 1 ELSE 0)
        /\ \A k \in 1..(e - b + 1) : t[k] = s[b + k - 1]
    BY <1>1, <1>2, SubSeqProperties
  <1> HIDE DEF t
  <1>5. t \in Seq(Nat) /\ Len(t) = e - a /\ \A k \in 1..(e - a) : t[k] = s[a + k]
    BY <1>1, <1>3, <1>4
  <1>6. QED
    BY <1>5 DEF t, b

LEMMA ShareIs ==
    ASSUME NEW s \in Seq(Nat), s # <<>>, NEW i \in 0..LastFull(s)
    PROVE  /\ LastFull(s) \in Nat /\ i * capacity_ \in Nat
           /\ (i + 1) * capacity_ = i * capacity_ + capacity_
           /\ Share(s, i) \in Seq(Nat) /\ Len(Share(s, i)) \in 1..capacity_
           /\ i # LastFull(s) => Len(Share(s, i)) = capacity_
           /\ i = LastFull(s) => i * capacity_ + Len(Share(s, i)) = Len(s)
           /\ \A k \in 1..Len(Share(s, i)) :
                 i * capacity_ + k \in 1..Len(s) /\ Share(s, i)[k] = s[i * capacity_ + k]
  <1> DEFINE c == capacity_
             l == Len(s)
             last == LastFull(s)
             a == i * c
             z == (i + 1) * c
             e == W!Least(l, z)
             r == SubSeq(s, a + 1, e)
  <1>1. c \in Nat \ {0} /\ l \in Nat \ {0}
    BY CapacityAssumption, EmptySeq
  <1>2. /\ last \in Nat /\ last * c < l /\ l <= (last + 1) * c
        /\ a \in Nat /\ z = a + c /\ (i # last => z <= last * c)
    BY <1>1, SharedOut DEF LastFull
  <1>3. e = IF l < z THEN l ELSE z
    BY DEF W!Least
  <1>4. r = Share(s, i)
    BY DEF Share
  <1>5. i = last => a < l /\ l <= z
    BY <1>2
  <1>6. last * c \in Nat
    BY <1>1, <1>2
  <1>7. /\ e \in Nat /\ a < e /\ e <= l /\ e - a <= c
        /\ (i # last => e = a + c) /\ (i = last => e = l)
    <2> HIDE DEF a, z, e, c, l, last
    <2>1. CASE i = last
      BY <1>1, <1>2, <1>3, <1>5, <2>1
    <2>2. CASE i # last
      <3> DEFINE y == last * c
      <3>1. y \in Nat /\ y < l /\ z <= y
        BY <1>2, <1>6, <2>2
      <3> HIDE DEF y
      <3>2. QED
        BY <1>1, <1>2, <1>3, <2>2, <3>1
    <2>3. QED
      BY <2>1, <2>2
  <1> HIDE DEF a, z, e, c, last
  <1>8. /\ r \in Seq(Nat) /\ Len(r) = e - a
        /\ \A k \in 1..(e - a) : a + k \in 1..l /\ r[k] = s[a + k]
    <2>1. r \in Seq(Nat) /\ Len(r) = e - a /\ \A k \in 1..(e - a) : r[k] = s[a + k]
      BY <1>2, <1>7, PartIs
    <2>2. \A k \in 1..(e - a) : a + k \in 1..l
      BY <1>1, <1>2, <1>7
    <2>3. QED
      BY <2>1, <2>2
  <1> HIDE DEF r
  <1>9. Len(r) \in 1..c /\ (i # last => Len(r) = c) /\ (i = last => a + Len(r) = l)
    BY <1>1, <1>2, <1>7, <1>8
  <1>10. QED
    BY <1>2, <1>4, <1>8, <1>9 DEF c, l, last, a, z

\* The empty buffer of takeNext.
LEMMA TakeIs ==
    /\ Take \in BufferType /\ Take.count = 0 /\ Take.push = 0 /\ Take.pop = 0
    /\ Ring(Take) /\ \A base \in Nat : Has(Take, base)
  <1>1. Take \in BufferType /\ Take.count = 0 /\ Take.push = 0 /\ Take.pop = 0
    <2>1. capacity_ \in Nat \ {0} /\ 0 \in 0..capacity_
      BY CapacityAssumption
    <2>2. [i \in Offsets |-> Garbage] \in [Offsets -> Nat]
      BY DEF Garbage
    <2>3. QED
      BY <2>1, <2>2 DEF Take, BufferType
  <1>2. Ring(Take)
    BY <1>1 DEF Ring
  <1>3. QED
    BY <1>1, <1>2 DEF Has

\* Writing what is there already.
LEMMA PushKept ==
    ASSUME NEW b \in BufferType, b.push = 0, NEW F, NEW n
    PROVE  [b EXCEPT !.buffer = F, !.count = n] = [b EXCEPT !.buffer = F, !.push = 0, !.count = n]
  <1>1. [b EXCEPT !.buffer = F] = [[b EXCEPT !.buffer = F] EXCEPT !.push = 0]
    BY DEF BufferType
  <1>2. QED
    BY <1>1, Zenon

\* The buffers behind the tail, one by one.
New(s, i) == More(Take, Share(s, i), IF i = LastFull(s) THEN Len(Share(s, i)) ELSE 0)

LEMMA NewBuffersAre ==
    ASSUME NEW s \in Seq(Nat), s # <<>>
    PROVE  W!NewBuffers(s) = [i \in 1..(LastFull(s) + 1) |-> New(s, i - 1)]
  <1> DEFINE last == LastFull(s)
             Made(r) == [W!Take EXCEPT !.buffer = W!Copied(W!Take, 0, r), !.count = Len(r)]
             One(i) == IF i <= last THEN Made(Share(s, i - 1))
                       ELSE [Made(Share(s, last)) EXCEPT !.push = Len(Share(s, last))]
  <1>1. W!NewBuffers(s) = [i \in 1..(last + 1) |-> One(i)]
    BY Zenon DEF W!NewBuffers, W!Offsets, Share, LastFull
  <1>2. last \in Nat
    BY CapacityAssumption, EmptySeq DEF LastFull
  <1>3. ASSUME NEW r \in Seq(Nat)
        PROVE  Made(r) = More(Take, r, 0) /\ [Made(r) EXCEPT !.push = Len(r)] = More(Take, r, Len(r))
    <2> DEFINE F == Copied(Take, 0, r)
               n == Len(r)
    <2>1. Made(r) = [Take EXCEPT !.buffer = F, !.count = n]
      BY SameBuffers, Zenon
    <2>2. n \in Nat /\ 0 + n = n
      OBVIOUS
    <2>3. \A y : More(Take, r, y) = [Take EXCEPT !.buffer = F, !.push = y, !.count = n]
      BY TakeIs, <2>2, Zenon DEF More
    <2> HIDE DEF F, n, Made
    <2>4. [[Take EXCEPT !.buffer = F, !.count = n] EXCEPT !.push = n]
            = [Take EXCEPT !.buffer = F, !.push = n, !.count = n]
      BY DEF Take
    <2>5. [Take EXCEPT !.buffer = F, !.count = n] = [Take EXCEPT !.buffer = F, !.push = 0, !.count = n]
      BY TakeIs, PushKept, Zenon
    <2>6. QED
      BY <2>1, <2>3, <2>4, <2>5, Zenon DEF n
  <1> HIDE DEF Made
  <1>4. ASSUME NEW i \in 1..(last + 1)
        PROVE  One(i) = New(s, i - 1)
    <2>1. CASE i <= last
      <3>1. i - 1 # last /\ i - 1 \in 0..last
        BY <1>2, <2>1
      <3>2. Share(s, i - 1) \in Seq(Nat)
        BY <3>1, ShareIs
      <3>3. QED
        BY <1>3, <2>1, <3>1, <3>2, Zenon DEF New
    <2>2. CASE ~(i <= last)
      <3>1. i - 1 = last /\ last \in 0..last
        BY <1>2, <2>2
      <3>2. Share(s, last) \in Seq(Nat)
        BY <3>1, ShareIs
      <3>3. QED
        BY <1>3, <2>2, <3>1, <3>2, Zenon DEF New
    <2>3. QED
      BY <2>1, <2>2
  <1> HIDE DEF One, last
  <1>5. QED
    BY <1>1, <1>4 DEF last

LEMMA NewIs ==
    ASSUME NEW s \in Seq(Nat), s # <<>>, NEW i \in 0..LastFull(s)
    PROVE  /\ New(s, i) \in BufferType /\ Ring(New(s, i)) /\ New(s, i).pop = 0
           /\ New(s, i).count = Len(Share(s, i))
           /\ \A base \in Nat :
                 (\A k \in 1..Len(s) : s[k] = base + k) => Has(New(s, i), base + i * capacity_)
  <1> DEFINE c == capacity_
             r == Share(s, i)
             l == Len(r)
             a == i * c
             y == IF i = LastFull(s) THEN l ELSE 0
  <1>1. /\ c \in Nat \ {0} /\ a \in Nat /\ r \in Seq(Nat) /\ l \in 1..c /\ (i # LastFull(s) => l = c)
        /\ \A k \in 1..l : a + k \in 1..Len(s) /\ r[k] = s[a + k]
    BY CapacityAssumption, ShareIs
  <1>2. New(s, i) = More(Take, r, y)
    BY Zenon DEF New
  <1> HIDE DEF r, l, a
  <1>3. /\ y \in 0..c /\ Meets(c, Take.pop, Take.count + l, y)
        /\ Take.count + l = l /\ Take.count + l <= c
    BY <1>1, TakeIs DEF Meets
  <1> HIDE DEF y
  <1>4. Wrote(Take, r, More(Take, r, y))
    BY <1>1, <1>3, TakeIs, RingWritten, Zenon DEF l
  <1>5. /\ More(Take, r, y) \in BufferType
        /\ Ring(More(Take, r, y))
        /\ More(Take, r, y).pop = 0
        /\ More(Take, r, y).count = l
        /\ \A base \in Nat :
              (\A k \in 1..l : r[k] = base + 0 + k) => Has(More(Take, r, y), base)
    BY <1>3, <1>4, TakeIs DEF Wrote, l
  <1>6. ASSUME NEW base \in Nat, \A k \in 1..Len(s) : s[k] = base + k
        PROVE  Has(More(Take, r, y), base + a)
    <2> DEFINE h == base + a
    <2>1. h \in Nat
      BY <1>1
    <2>2. ASSUME NEW k \in 1..l
          PROVE  r[k] = h + 0 + k
      <3>1. a + k \in 1..Len(s) /\ r[k] = s[a + k]
        BY <1>1
      <3>2. s[a + k] = base + (a + k)
        BY <1>6, <3>1
      <3>3. base + (a + k) = h + 0 + k
        BY <1>1
      <3>4. QED
        BY <3>1, <3>2, <3>3
    <2> HIDE DEF h
    <2>3. Has(More(Take, r, y), h)
      BY <1>5, <2>1, <2>2
    <2>4. QED
      BY <2>3 DEF h
  <1>7. QED
    BY <1>2, <1>5, <1>6 DEF l, r, a

\* All of them.
LEMMA NewBuffersHold ==
    ASSUME NEW s \in Seq(Nat), s # <<>>
    PROVE  LET x == W!NewBuffers(s)
           IN  /\ x \in Seq(BufferType) /\ Behinds(x)
               /\ Counts(x) = Len(s)
               /\ \A base \in Nat : (\A k \in 1..Len(s) : s[k] = base + k) => Holds(x, base)
  <1> DEFINE x == W!NewBuffers(s)
             last == LastFull(s)
             n == last + 1
             c == capacity_
             u == Upto(x)
  <1>1. last \in Nat /\ last \in 0..last /\ n \in Nat
    BY CapacityAssumption, EmptySeq DEF LastFull
  <1>2. x = [i \in 1..n |-> New(s, i - 1)]
    BY NewBuffersAre
  <1>3. ASSUME NEW i \in 1..n
        PROVE  /\ i - 1 \in 0..last /\ x[i] = New(s, i - 1) /\ x[i] \in BufferType
               /\ Ring(x[i]) /\ x[i].pop = 0
               /\ x[i].count = Len(Share(s, i - 1))
    <2>1. i - 1 \in 0..last /\ x[i] = New(s, i - 1)
      BY <1>1, <1>2
    <2>2. QED
      BY <2>1, NewIs
  <1>4. x \in Seq(BufferType) /\ Len(x) = n
    <2> DEFINE G(i) == New(s, i - 1)
    <2>1. x = [i \in 1..n |-> G(i)] /\ \A i \in 1..n : G(i) \in BufferType
      BY <1>2, <1>3
    <2> HIDE DEF G, x, n
    <2>2. QED
      BY <1>1, <2>1
  <1> HIDE DEF x, last
  <1>5. Behinds(x)
    <2>1. \A i \in 2..n : i \in 1..n
      BY <1>1
    <2>2. QED
      BY <1>3, <1>4, <2>1 DEF Behinds, Rings
  <1>6. u[0] = 0 /\ Counts(x) = u[n] /\ \A i \in 1..n : u[i] = u[i - 1] + x[i].count
    BY <1>4, UptoFacts
  <1> HIDE DEF u
  <1>7. \A i \in 0..last : u[i] = i * c
    <2> DEFINE T == {i \in 0..last : u[i] = i * c}
    <2>1. 0 \in T
      BY <1>1, <1>6, CapacityAssumption
    <2>2. ASSUME NEW i \in 0..(last - 1), i \in T
          PROVE  i + 1 \in T
      <3>1. i + 1 \in 1..n /\ i + 1 \in 0..last /\ (i + 1) - 1 = i /\ i \in 0..last /\ i # last
        BY <1>1
      <3>2. u[i + 1] = u[i] + x[i + 1].count
        BY <1>6, <3>1
      <3>3. x[i + 1].count = c /\ (i + 1) * c = i * c + c
        <4>1. x[i + 1].count = Len(Share(s, i))
          BY <1>3, <3>1
        <4>2. QED
          BY <3>1, <4>1, ShareIs DEF last
      <3>4. u[i] = i * c
        BY <2>2
      <3>5. QED
        BY <3>1, <3>2, <3>3, <3>4
    <2> HIDE DEF T
    <2>3. 0..last \subseteq T
      BY <1>1, <2>1, <2>2, InductionUpTo
    <2>4. QED
      BY <2>3 DEF T
  <1>8. Counts(x) = Len(s)
    <2>1. n \in 1..n /\ n - 1 = last
      BY <1>1
    <2>2. u[n] = u[last] + x[n].count /\ x[n].count = Len(Share(s, last)) /\ u[last] = last * c
      BY <1>1, <1>3, <1>6, <1>7, <2>1
    <2>3. last * c + Len(Share(s, last)) = Len(s)
      BY <1>1, ShareIs DEF last
    <2>4. QED
      BY <1>6, <2>2, <2>3
  <1>9. ASSUME NEW base \in Nat, \A k \in 1..Len(s) : s[k] = base + k
        PROVE  Holds(x, base)
    <2>1. ASSUME NEW i \in 1..n
          PROVE  Has(x[i], base + u[i - 1])
      <3>1. i - 1 \in 0..last /\ x[i] = New(s, i - 1)
        BY <1>3
      <3>2. u[i - 1] = (i - 1) * c
        BY <1>7, <3>1
      <3>3. Has(New(s, i - 1), base + (i - 1) * c)
        <4>1. i - 1 \in 0..LastFull(s)
          BY <3>1 DEF last
        <4>2. QED
          BY <1>9, <4>1, NewIs
      <3>4. QED
        BY <3>1, <3>2, <3>3
    <2>2. \A i \in 2..n : i \in 1..n
      BY <1>1
    <2>3. QED
      BY <1>3, <1>4, <2>1, <2>2 DEF Holds, u
  <1>10. QED
    BY <1>4, <1>5, <1>8, <1>9 DEF x

\* What writeData makes of the tail, and of the bytes for it.
Tail0(list) == list[Len(list)]
Free(list) == capacity_ - Tail0(list).count
ForTail(list, s) == SubSeq(s, 1, W!Least(Len(s), Free(list)))
PushAfter(list, s) ==
    LET b == Tail0(list)
    IN  IF Len(s) < Free(list)
        THEN IF Len(s) > capacity_ - b.push THEN Len(s) - (capacity_ - b.push)
             ELSE (b.push + Len(s)) % capacity_
        ELSE IF Free(list) > 0 THEN b.pop ELSE b.push
TailThen(list, s) == More(Tail0(list), ForTail(list, s), PushAfter(list, s))

LEMMA WrittenIs ==
    ASSUME NEW list \in Seq(BufferType), list # <<>>, NEW s \in Seq(Nat), s # <<>>
    PROVE  W!Written(list, s) =
             IF Len(s) < Free(list)
             THEN [list EXCEPT ![Len(list)] = TailThen(list, s)]
             ELSE Longer(list, TailThen(list, s), W!NewBuffers(SubSeq(s, Free(list) + 1, Len(s))))
  <1> DEFINE n == Len(list)
             b == list[n]
             c == capacity_
             l == Len(s)
             free == c - b.count
             r == SubSeq(s, 1, W!Least(l, free))
             data == W!Copied(b, b.push, r)
             y == IF l > c - b.push THEN l - (c - b.push) ELSE (b.push + l) % c
             z == IF free > 0 THEN b.pop ELSE b.push
             T == [b EXCEPT !.buffer = data, !.push = y, !.count = b.count + l]
             F == [b EXCEPT !.buffer = data, !.push = z, !.count = c]
  <1>1. n \in Nat \ {0} /\ b \in BufferType /\ l \in Nat \ {0}
    BY EmptySeq
  <1>2. c \in Nat \ {0} /\ b.count \in Nat /\ b.count <= c /\ free \in Nat
    BY <1>1, BufferFields
  <1>3. W!Written(list, s) =
          IF l < free THEN [list EXCEPT ![n] = T]
          ELSE [list EXCEPT ![n] = F] \o W!NewBuffers(SubSeq(s, free + 1, l))
    BY <1>1 DEF W!Written, BufferType
  <1>4. CASE l < free
    <2>1. W!Least(l, free) = l
      BY <1>4 DEF W!Least
    <2>2. r = s
      BY <1>1, <2>1, SubSeqFull
    <2>3. T = TailThen(list, s)
      BY <1>4, <2>1, <2>2, SameBuffers, Zenon DEF TailThen, More, Tail0, Free, ForTail, PushAfter
    <2>4. QED
      BY <1>3, <1>4, <2>3, Zenon DEF Tail0, Free
  <1>5. CASE ~(l < free)
    <2>1. W!Least(l, free) = free
      BY <1>1, <1>2, <1>5 DEF W!Least
    <2>2. Len(r) = free
      BY <1>1, <1>2, <1>5, <2>1
    <2>3. b.count + Len(r) = c
      <3> HIDE DEF r, b
      <3>1. QED
        BY <1>2, <2>2
    <2>4. F = TailThen(list, s)
      BY <1>5, <2>3, SameBuffers, Zenon DEF TailThen, More, Tail0, Free, ForTail, PushAfter
    <2>5. QED
      BY <1>3, <1>5, <2>4, Zenon DEF Tail0, Free, Longer
  <1>6. QED
    BY <1>4, <1>5

LEMMA LeastIs ==
    ASSUME NEW a \in Nat, NEW b \in Nat
    PROVE  /\ W!Least(a, b) \in Nat /\ W!Least(a, b) <= a /\ W!Least(a, b) <= b
           /\ W!Least(a, b) = IF a < b THEN a ELSE b
  BY DEF W!Least

LEMMA FrontIs ==
    ASSUME NEW s \in Seq(Nat), NEW e \in Nat, e <= Len(s)
    PROVE  /\ SubSeq(s, 1, e) \in Seq(Nat) /\ Len(SubSeq(s, 1, e)) = e
           /\ \A k \in 1..e : k \in 1..Len(s) /\ SubSeq(s, 1, e)[k] = s[k]
  OBVIOUS

\* How many bytes the tail gets, and where its push goes.
LEMMA RoomAtTheTail ==
    ASSUME NEW c \in Nat \ {0}, NEW q \in 0..c, NEW m \in 0..c, NEW p \in 0..c,
           Meets(c, q, m, p), NEW l \in Nat \ {0}, NEW n, n = W!Least(l, c - m),
           NEW y, y = IF l < c - m
                      THEN IF l > c - p THEN l - (c - p) ELSE (p + l) % c
                      ELSE IF c - m > 0 THEN q ELSE p
    PROVE  m + n <= c /\ y \in 0..c /\ Meets(c, q, m + n, y)
  <1>1. c - m \in Nat /\ n = IF l < c - m THEN l ELSE c - m
    BY DEF W!Least
  <1>2. CASE l < c - m
    <2>1. m + l < c /\ n = l /\ y = IF l > c - p THEN l - (c - p) ELSE (p + l) % c
      BY <1>1, <1>2
    <2>2. y \in 0..c /\ Meets(c, q, m + l, y)
      BY <2>1, PushMoves
    <2>3. QED
      BY <2>1, <2>2
  <1>3. CASE ~(l < c - m)
    <2>1. m + n = c /\ y \in 0..c
      BY <1>1, <1>3
    <2>2. Meets(c, q, c, y)
      <3>1. CASE m = c
        <4>1. y = p
          BY <1>3, <3>1
        <4>2. QED
          BY <3>1, <4>1
      <3>2. CASE m # c
        <4>1. y = q
          BY <1>3, <3>2
        <4>2. QED
          BY <4>1 DEF Meets
      <3>3. QED
        BY <3>1, <3>2
    <2>3. QED
      BY <2>1, <2>2
  <1>4. QED
    BY <1>2, <1>3

\* The tail is a ring that got what it had room for.
LEMMA TailThenIs ==
    ASSUME NEW list \in Seq(BufferType), list # <<>>, Rings(list), NEW s \in Seq(Nat), s # <<>>
    PROVE  /\ ForTail(list, s) \in Seq(Nat)
           /\ Free(list) \in Nat
           /\ Len(ForTail(list, s)) = W!Least(Len(s), Free(list))
           /\ \A k \in 1..Len(ForTail(list, s)) : k \in 1..Len(s) /\ ForTail(list, s)[k] = s[k]
           /\ Wrote(Tail0(list), ForTail(list, s), TailThen(list, s))
  <1> DEFINE b == Tail0(list)
             c == capacity_
             l == Len(s)
             free == Free(list)
             r == ForTail(list, s)
             y == PushAfter(list, s)
  <1>1. b \in BufferType /\ l \in Nat \ {0} /\ Ring(b)
    BY EmptySeq DEF Tail0, Rings
  <1>2. /\ c \in Nat \ {0} /\ b.count \in Nat /\ b.count <= c /\ free \in Nat /\ free = c - b.count
        /\ b.push \in Nat /\ b.push <= c /\ b.pop \in Nat /\ b.pop <= c
    BY <1>1, BufferFields DEF Free
  <1>3. W!Least(l, free) \in Nat /\ W!Least(l, free) <= l
    BY <1>1, <1>2, LeastIs
  <1>4. /\ r \in Seq(Nat) /\ Len(r) = W!Least(l, free)
        /\ \A k \in 1..Len(r) : k \in 1..l /\ r[k] = s[k]
    BY <1>3, FrontIs, Zenon DEF ForTail
  <1>5. y = IF l < c - b.count
            THEN IF l > c - b.push THEN l - (c - b.push) ELSE (b.push + l) % c
            ELSE IF c - b.count > 0 THEN b.pop ELSE b.push
    BY <1>2, Zenon DEF PushAfter
  <1>6. Meets(c, b.pop, b.count, b.push)
    BY <1>1 DEF Ring, Meets
  <1> HIDE DEF b, free, r, y, l
  <1>7. b.count + Len(r) <= c /\ y \in 0..c /\ Meets(c, b.pop, b.count + Len(r), y)
    <2> DEFINE m == b.count
               q == b.pop
               p == b.push
               n == Len(r)
    <2>1. m \in 0..c /\ q \in 0..c /\ p \in 0..c /\ l \in Nat \ {0} /\ c \in Nat \ {0}
      BY <1>1, <1>2
    <2>2. n = W!Least(l, c - m)
      BY <1>2, <1>4, Zenon
    <2> HIDE DEF m, q, p, n
    <2>3. y = IF l < c - m THEN IF l > c - p THEN l - (c - p) ELSE (p + l) % c
              ELSE IF c - m > 0 THEN q ELSE p
      BY <1>5, Zenon DEF m, q, p
    <2>4. Meets(c, q, m, p)
      BY <1>6, Zenon DEF m, q, p
    <2>5. m + n <= c /\ y \in 0..c /\ Meets(c, q, m + n, y)
      BY <2>1, <2>2, <2>3, <2>4, RoomAtTheTail, Zenon
    <2>6. QED
      BY <2>5, Zenon DEF m, q, n
  <1>8. Wrote(b, r, More(b, r, y))
    BY <1>1, <1>4, <1>7, RingWritten, Zenon
  <1>9. TailThen(list, s) = More(b, r, y)
    BY Zenon DEF TailThen, b, r, y
  <1>10. QED
    BY <1>2, <1>4, <1>8, <1>9 DEF b, r, free, l

\* No buffers hold no bytes.
LEMMA NoBuffers ==
    /\ <<>> \in Seq(BufferType) /\ Behinds(<<>>) /\ Counts(<<>>) = 0
    /\ \A base \in Nat : Holds(<<>>, base)
  <1>1. <<>> \in Seq(BufferType) /\ Len(<<>>) = 0
    OBVIOUS
  <1>2. Counts(<<>>) = Upto(<<>>)[0] /\ Upto(<<>>)[0] = 0
    BY <1>1, UptoFacts DEF Counts
  <1>3. QED
    BY <1>1, <1>2 DEF Behinds, Rings, Holds

\* What is left of s behind its first a bytes.
LeftOver(s, a, r) ==
    /\ r \in Seq(Nat) /\ r # <<>> /\ Len(r) = Len(s) - a
    /\ \A k \in 1..(Len(s) - a) : r[k] = s[a + k]

LEMMA LeftOverIs ==
    ASSUME NEW s \in Seq(Nat), NEW a \in Nat, a < Len(s)
    PROVE  LeftOver(s, a, SubSeq(s, a + 1, Len(s)))
  <1> DEFINE l == Len(s)
             r == SubSeq(s, a + 1, l)
  <1>1. l \in Nat /\ l <= Len(s) /\ a < l
    OBVIOUS
  <1>2. r \in Seq(Nat) /\ Len(r) = l - a /\ \A k \in 1..(l - a) : r[k] = s[a + k]
    <2> HIDE DEF l
    <2>1. QED
      BY <1>1, PartIs
  <1> HIDE DEF r
  <1>3. r # <<>>
    <2>1. Len(r) # 0
      BY <1>1, <1>2
    <2>2. QED
      BY <2>1
  <1>4. QED
    BY <1>2, <1>3 DEF LeftOver, r, l

\* writeData: the list has the bytes s behind its own (TcpConnection.cpp:233-283).
LEMMA WrittenHolds ==
    ASSUME NEW list \in Seq(BufferType), list # <<>>, Rings(list), NEW s \in Seq(Nat), s # <<>>
    PROVE  /\ W!Written(list, s) \in Seq(BufferType) /\ W!Written(list, s) # <<>>
           /\ Rings(W!Written(list, s))
           /\ Counts(W!Written(list, s)) = Counts(list) + Len(s)
           /\ \A base \in Nat :
                 Holds(list, base) /\ (\A k \in 1..Len(s) : s[k] = base + Counts(list) + k)
                 => Holds(W!Written(list, s), base)
  <1> DEFINE n == Len(list)
             b == Tail0(list)
             l == Len(s)
             free == Free(list)
             r == ForTail(list, s)
             e == Len(r)
             t == TailThen(list, s)
             rest == SubSeq(s, free + 1, l)
             x == IF l <= free THEN <<>> ELSE W!NewBuffers(rest)
             u == Upto(list)
  <1>1. n \in Nat \ {0} /\ b = list[n] /\ b \in BufferType /\ Ring(b) /\ l \in Nat \ {0}
    BY EmptySeq DEF Tail0, Rings
  <1>2. /\ free \in Nat /\ e = W!Least(l, free)
        /\ \A k \in 1..e : k \in 1..l /\ r[k] = s[k]
        /\ Wrote(b, r, t)
    BY TailThenIs
  <1>3. e \in Nat /\ e <= l /\ e <= free /\ e = IF l < free THEN l ELSE free
    BY <1>1, <1>2, LeastIs
  <1>4. /\ t \in BufferType /\ Ring(t) /\ t.pop = b.pop /\ t.count = b.count + e
        /\ \A base \in Nat :
              Has(b, base) /\ (\A k \in 1..e : r[k] = base + b.count + k) => Has(t, base)
    BY <1>2 DEF Wrote
  <1>5. ASSUME free < l
        PROVE  /\ rest \in Seq(Nat) /\ rest # <<>> /\ Len(rest) = l - free
               /\ \A k \in 1..(l - free) : rest[k] = s[free + k]
    <2>1. free \in Nat /\ free < Len(s)
      BY <1>2, <1>5
    <2> HIDE DEF free
    <2>2. LeftOver(s, free, rest)
      BY <2>1, LeftOverIs
    <2>3. QED
      BY <2>2 DEF LeftOver
  <1> HIDE DEF n, b, l, free, r, e, t, rest
  <1>6. /\ x \in Seq(BufferType) /\ Behinds(x) /\ Counts(x) = l - e
        /\ \A base \in Nat :
              (\A k \in 1..(l - e) : s[e + k] = base + k) => Holds(x, base)
    <2>1. CASE l <= free
      <3>1. l - e = 0
        BY <1>1, <1>2, <1>3, <2>1
      <3>2. QED
        BY <2>1, <3>1, NoBuffers
    <2>2. CASE ~(l <= free)
      <3>1. free < l /\ e = free
        BY <1>1, <1>2, <1>3, <2>2
      <3>2. /\ rest \in Seq(Nat) /\ rest # <<>> /\ Len(rest) = l - free
            /\ \A k \in 1..(l - free) : rest[k] = s[free + k]
        BY <1>5, <3>1
      <3> DEFINE z == W!NewBuffers(rest)
      <3>3. /\ z \in Seq(BufferType) /\ Behinds(z) /\ Counts(z) = Len(rest)
            /\ \A base \in Nat : (\A k \in 1..Len(rest) : rest[k] = base + k) => Holds(z, base)
        BY <3>2, NewBuffersHold
      <3>4. x = z
        BY <2>2
      <3> HIDE DEF z
      <3>5. QED
        BY <3>1, <3>2, <3>3, <3>4
    <2>3. QED
      BY <2>1, <2>2
  <1> HIDE DEF x
  <1>7. W!Written(list, s) = Longer(list, t, x)
    <2>1. CASE l < free
      <3>1. W!Written(list, s) = [list EXCEPT ![Len(list)] = t]
        BY <2>1, WrittenIs DEF l, free, t
      <3>2. x = <<>>
        BY <1>1, <1>2, <2>1 DEF x
      <3>3. [list EXCEPT ![Len(list)] = t] \in Seq(BufferType)
        BY <1>4
      <3>4. QED
        BY <3>1, <3>2, <3>3, ConcatEmptySeq DEF Longer
    <2>2. CASE ~(l < free)
      <3>1. W!Written(list, s) = Longer(list, t, W!NewBuffers(rest))
        BY <2>2, WrittenIs DEF l, free, t, rest
      <3>2. CASE l = free
        <4>1. rest = <<>>
          BY <1>2, <3>2 DEF rest, l, free
        <4>2. W!NewBuffers(rest) = <<>>
          BY <4>1 DEF W!NewBuffers
        <4>3. QED
          BY <3>1, <3>2, <4>2 DEF x
      <3>3. CASE l # free
        <4>1. ~(l <= free)
          BY <1>1, <1>2, <2>2, <3>3
        <4>2. QED
          BY <3>1, <4>1 DEF x
      <3>4. QED
        BY <3>2, <3>3
    <2>3. QED
      BY <2>1, <2>2
  <1>8. /\ n - 1 \in 0..n /\ u[n - 1] \in Nat /\ b.count \in Nat
        /\ Counts(list) = u[n - 1] + b.count
    <2>1. /\ \A i \in 0..n : u[i] \in Nat
          /\ \A i \in 1..n : u[i] = u[i - 1] + list[i].count
          /\ Counts(list) = u[n]
      BY UptoFacts DEF n
    <2>2. n \in 1..n /\ n - 1 \in 0..n
      BY <1>1
    <2>3. QED
      BY <1>1, <2>1, <2>2, BufferFields
  <1> HIDE DEF u
  <1>9. /\ Longer(list, t, x) \in Seq(BufferType)
        /\ Len(Longer(list, t, x)) = n + Len(x)
        /\ Counts(Longer(list, t, x)) = u[n - 1] + t.count + Counts(x)
    <2>1. LongerFacts(list, t, x)
      BY <1>1, <1>4, <1>6, LongerIs DEF n
    <2>2. QED
      BY <2>1 DEF LongerFacts, n, u
  <1>10. Longer(list, t, x) # <<>>
    <2>1. Len(x) \in Nat
      BY <1>6
    <2>2. n + Len(x) # 0
      BY <1>1, <2>1
    <2>3. Len(Longer(list, t, x)) # 0
      BY <1>9, <2>2
    <2>4. QED
      BY <2>3
  <1>11. Counts(Longer(list, t, x)) = Counts(list) + l
    <2> DEFINE a == u[n - 1]
               m == b.count
    <2>1. t.count = m + e /\ Counts(x) = l - e
      BY <1>4, <1>6
    <2>2. Counts(Longer(list, t, x)) = a + (m + e) + (l - e)
      BY <1>9, <2>1
    <2>3. a \in Nat /\ m \in Nat /\ e \in Nat /\ l \in Nat
      BY <1>1, <1>3, <1>8
    <2>4. Counts(list) = a + m
      BY <1>8
    <2> HIDE DEF a, m
    <2>5. a + (m + e) + (l - e) = (a + m) + l
      BY <2>3
    <2>6. QED
      BY <2>2, <2>4, <2>5
  <1>12. /\ Rings(Longer(list, t, x))
         /\ \A base \in Nat :
               /\ Holds(list, base)
               /\ Has(t, base + u[n - 1])
               /\ Holds(x, base + u[n - 1] + t.count)
               => Holds(Longer(list, t, x), base)
    BY <1>1, <1>4, <1>6, LongerHolds DEF n, u
  <1>13. ASSUME NEW base \in Nat, Holds(list, base),
                \A k \in 1..l : s[k] = base + Counts(list) + k
         PROVE  Holds(Longer(list, t, x), base)
    <2> DEFINE h == base + u[n - 1]
               g == h + t.count
    <2>1. h \in Nat /\ g \in Nat /\ t.count = b.count + e /\ base + Counts(list) = h + b.count
      <3> DEFINE a == u[n - 1]
                 m == b.count
      <3>1. a \in Nat /\ m \in Nat /\ e \in Nat
        BY <1>3, <1>8
      <3>2. t.count = m + e /\ Counts(list) = a + m
        BY <1>4, <1>8
      <3> HIDE DEF a, m
      <3>3. base + a \in Nat /\ (base + a) + (m + e) \in Nat /\ base + (a + m) = (base + a) + m
        BY <3>1
      <3>4. QED
        BY <3>2, <3>3 DEF a, m
    <2>2. Has(b, h)
      BY <1>1, <1>13 DEF Holds, n, u
    <2> HIDE DEF h
    <2>3. Has(t, h)
      <3>1. ASSUME NEW k \in 1..e
            PROVE  r[k] = h + b.count + k
        BY <1>2, <1>13, <2>1
      <3>2. QED
        BY <1>4, <2>1, <2>2, <3>1
    <2>4. ASSUME NEW k \in 1..(l - e)
          PROVE  s[e + k] = g + k
      <3>1. e + k \in 1..l
        BY <1>1, <1>3
      <3>2. s[e + k] = (h + b.count) + (e + k)
        BY <1>13, <2>1, <3>1
      <3>3. (h + b.count) + (e + k) = g + k
        <4> DEFINE m == b.count
        <4>1. m \in Nat /\ e \in Nat /\ k \in Nat /\ h \in Nat
          BY <1>1, <1>3, <1>8, <2>1
        <4>2. t.count = m + e
          BY <2>1
        <4> HIDE DEF m
        <4>3. (h + m) + (e + k) = (h + (m + e)) + k
          BY <4>1
        <4>4. QED
          BY <4>2, <4>3 DEF m
      <3>4. QED
        BY <3>2, <3>3
    <2> HIDE DEF g
    <2>5. Holds(x, g)
      BY <1>6, <2>1, <2>4
    <2>6. QED
      BY <1>12, <1>13, <2>3, <2>5 DEF h, g
  <1>14. QED
    BY <1>7, <1>9, <1>10, <1>11, <1>12, <1>13 DEF l

-----------------------------------------------------------------------------
(* What onWrite hands to writev (TcpConnection.cpp:385-401).               *)

\* The sequence s is the n bytes of the ring b from an offset on.
From(s, b, from, n) ==
    /\ s \in Seq(Nat) /\ Len(s) = n
    /\ \A i \in 1..n : s[i] = b.buffer[(from + i - 1) % capacity_]

LEMMA BytesAre ==
    ASSUME NEW b \in BufferType, NEW from \in Nat, NEW n \in Nat
    PROVE  From(Bytes(b, from, n), b, from, n)
  <1> DEFINE c == capacity_
             G(i) == b.buffer[(from + i - 1) % c]
  <1>1. c \in Nat \ {0} /\ Offsets = 0..(c - 1) /\ b.buffer \in [Offsets -> Nat]
    BY BufferFields DEF Offsets
  <1>2. ASSUME NEW i \in 1..n
        PROVE  G(i) \in Nat
    <2> DEFINE x == from + i - 1
    <2>1. x \in Nat
      OBVIOUS
    <2> HIDE DEF x, c
    <2>2. x % c \in Offsets
      BY <1>1, <2>1
    <2>3. QED
      BY <1>1, <2>2 DEF x, c
  <1>3. Bytes(b, from, n) = [i \in 1..n |-> G(i)]
    BY DEF Bytes
  <1> HIDE DEF G
  <1>4. /\ Bytes(b, from, n) \in Seq(Nat) /\ Len(Bytes(b, from, n)) = n
        /\ \A i \in 1..n : Bytes(b, from, n)[i] = G(i)
    BY <1>2, <1>3
  <1>5. QED
    BY <1>4 DEF G, From

\* The pieces of the head, as line 389 has them.
Pieces(b) ==
    IF b.pop < b.push THEN Bytes(b, b.pop, b.count)
    ELSE Bytes(b, b.pop, capacity_ - b.pop) \o Bytes(b, 0, b.push)

LEMMA PiecesAre ==
    ASSUME NEW b \in BufferType, Ring(b)
    PROVE  /\ Pieces(b) \in Seq(Nat)
           /\ b.count # 0 =>
                 /\ Len(Pieces(b)) = b.count
                 /\ \A k \in 1..b.count : Pieces(b)[k] = b.buffer[(b.pop + k - 1) % capacity_]
  <1> DEFINE c == capacity_
             q == b.pop
             m == b.count
             p == b.push
             s == Bytes(b, q, c - q)
             t == Bytes(b, 0, p)
  <1>1. /\ c \in Nat \ {0} /\ q \in Nat /\ m \in Nat /\ p \in Nat /\ c - q \in Nat
        /\ q <= c /\ m <= c /\ p <= c
    BY BufferFields
  <1>2. q + m = p \/ q + m = p + c
    BY DEF Ring
  <1>3. CASE q < p
    <2>1. Pieces(b) = Bytes(b, q, m)
      BY <1>3 DEF Pieces
    <2>2. From(Bytes(b, q, m), b, q, m)
      BY <1>1, BytesAre
    <2>3. QED
      BY <2>1, <2>2 DEF From
  <1>4. CASE ~(q < p)
    <2>1. Pieces(b) = s \o t
      BY <1>4 DEF Pieces
    <2>2. s \in Seq(Nat) /\ Len(s) = c - q /\ \A i \in 1..(c - q) : s[i] = b.buffer[(q + i - 1) % c]
      <3>1. From(s, b, q, c - q)
        BY <1>1, BytesAre
      <3>2. QED
        BY <3>1 DEF From
    <2>3. t \in Seq(Nat) /\ Len(t) = p /\ \A i \in 1..p : t[i] = b.buffer[(0 + i - 1) % c]
      <3>1. From(t, b, 0, p)
        BY <1>1, BytesAre
      <3>2. QED
        BY <3>1 DEF From
    <2> HIDE DEF s, t
    <2>4. s \o t \in Seq(Nat) /\ Behind(s \o t, s, t)
      BY <2>2, <2>3, ConcatBehind
    <2>5. /\ Len(s \o t) = (c - q) + p
          /\ \A k \in 1..(c - q) : (s \o t)[k] = s[k]
          /\ \A k \in 1..p : (s \o t)[(c - q) + k] = t[k]
      BY <2>2, <2>3, <2>4 DEF Behind
    <2>6. ASSUME m # 0
          PROVE  (c - q) + p = m
      <3> HIDE DEF c, q, m, p
      <3>1. QED
        BY <1>1, <1>2, <1>4, <2>6
    <2>7. ASSUME m # 0, NEW k \in 1..m
          PROVE  (s \o t)[k] = b.buffer[(q + k - 1) % c]
      <3>1. CASE k \in 1..(c - q)
        BY <2>2, <2>5, <3>1
      <3>2. CASE ~(k \in 1..(c - q))
        <4> DEFINE j == k - (c - q)
                   x == q + k - 1
                   y == 0 + j - 1
        <4>1. j \in 1..p /\ (c - q) + j = k /\ x = c + y /\ y \in Nat /\ y < c /\ x \in Nat
          <5> HIDE DEF c, q, m, p
          <5>1. (c - q) + p = m
            BY <2>6, <2>7
          <5>2. QED
            BY <1>1, <3>2, <5>1
        <4>2. x % c = y % c
          <5> HIDE DEF x, y, c
          <5>1. x < c + c /\ ~(x < c) /\ x - c = y
            BY <1>1, <4>1
          <5>2. x % c = y
            BY <1>1, <4>1, <5>1, Around
          <5>3. y % c = y
            BY <1>1, <4>1, Within
          <5>4. QED
            BY <5>2, <5>3
        <4>3. (s \o t)[(c - q) + j] = t[j] /\ t[j] = b.buffer[y % c]
          BY <2>3, <2>5, <4>1
        <4>4. QED
          BY <4>1, <4>2, <4>3
      <3>3. QED
        BY <3>1, <3>2
    <2>8. QED
      BY <2>1, <2>4, <2>5, <2>6, <2>7
  <1>5. QED
    BY <1>3, <1>4

\* Two buffers at most: the pieces of the head, and the buffer behind it.
LEMMA IovIs ==
    ASSUME waiting \in Seq(BufferType), waiting # <<>>, Rings(waiting)
    PROVE  /\ W!Iov \in Seq(Nat) /\ W!Size \in Nat
           /\ waiting[1].count # 0 =>
                 /\ Len(W!Iov) = W!Size /\ W!Size # 0
                 /\ \A base \in Nat :
                       Holds(waiting, base) => \A k \in 1..W!Size : W!Iov[k] = base + k
  <1> DEFINE n == Len(waiting)
             b == waiting[1]
             m == b.count
             d == waiting[2]
             r == d.count
             s == Pieces(b)
             t == IF n > 1 THEN Bytes(d, 0, r) ELSE <<>>
             more == IF n > 1 THEN r ELSE 0
             c == capacity_
             u == Upto(waiting)
  <1>1. n \in Nat \ {0} /\ b \in BufferType /\ Ring(b) /\ m \in Nat
    <2>1. n \in Nat \ {0} /\ 1 \in 1..n
      BY EmptySeq
    <2>2. b \in BufferType /\ Ring(b)
      BY <2>1 DEF Rings
    <2>3. QED
      BY <2>1, <2>2, BufferFields
  <1>2. ASSUME n > 1
        PROVE  d \in BufferType /\ r \in Nat /\ d.pop = 0 /\ 2 \in 1..n
    <2>1. 2 \in 1..n /\ 2 \in 2..n
      BY <1>1, <1>2
    <2>2. d \in BufferType /\ d.pop = 0
      BY <2>1 DEF Rings
    <2>3. QED
      BY <2>1, <2>2, BufferFields
  <1>3. /\ more \in Nat /\ t \in Seq(Nat) /\ Len(t) = more
        /\ n > 1 => \A k \in 1..r : t[k] = d.buffer[(0 + k - 1) % c]
    <2>1. CASE n > 1
      <3>1. From(Bytes(d, 0, r), d, 0, r)
        BY <1>2, <2>1, BytesAre
      <3>2. QED
        BY <1>2, <2>1, <3>1 DEF From
    <2>2. CASE ~(n > 1)
      BY <2>2
    <2>3. QED
      BY <2>1, <2>2
  <1>4. W!Iov = s \o t /\ W!Size = m + more
    BY SameBuffers, Zenon DEF W!Iov, W!Size, W!Head_, W!HasNext, Pieces
  <1>5. /\ s \in Seq(Nat)
        /\ m # 0 => Len(s) = m /\ \A k \in 1..m : s[k] = b.buffer[(b.pop + k - 1) % c]
    BY <1>1, PiecesAre
  <1> HIDE DEF s, t, more
  <1>6. s \o t \in Seq(Nat) /\ Behind(s \o t, s, t)
    BY <1>3, <1>5, ConcatBehind
  <1>7. ASSUME m # 0
        PROVE  /\ Len(s \o t) = m + more
               /\ \A k \in 1..m : (s \o t)[k] = s[k]
               /\ \A k \in 1..more : (s \o t)[m + k] = t[k]
    BY <1>3, <1>5, <1>6, <1>7 DEF Behind
  <1>8. u[0] = 0 /\ u[1] = m /\ 1 \in 1..n
    <2>1. u[0] = 0 /\ \A i \in 1..n : u[i] = u[i - 1] + waiting[i].count
      BY UptoFacts
    <2>2. 1 \in 1..n /\ 1 - 1 = 0
      BY <1>1
    <2>3. u[1] = u[0] + m
      BY <2>1, <2>2
    <2>4. QED
      BY <1>1, <2>1, <2>2, <2>3
  <1> HIDE DEF u
  <1>9. ASSUME m # 0, NEW base \in Nat, Holds(waiting, base), NEW k \in 1..(m + more)
        PROVE  (s \o t)[k] = base + k
    <2>1. \A i \in 1..n : Has(waiting[i], base + u[i - 1])
      BY <1>9 DEF Holds, u
    <2>2. CASE k \in 1..m
      <3>1. Has(b, base)
        <4>1. Has(b, base + u[1 - 1]) /\ 1 - 1 = 0 /\ base + 0 = base
          BY <1>8, <2>1
        <4>2. QED
          BY <1>8, <4>1
      <3>2. b.buffer[(b.pop + k - 1) % c] = base + k
        BY <2>2, <3>1 DEF Has
      <3>3. (s \o t)[k] = s[k] /\ s[k] = b.buffer[(b.pop + k - 1) % c]
        BY <1>5, <1>7, <1>9, <2>2
      <3>4. QED
        BY <3>2, <3>3
    <2>3. CASE ~(k \in 1..m)
      <3> DEFINE j == k - m
      <3>1. j \in 1..more /\ m + j = k /\ (base + m) + j = base + k
        BY <1>1, <1>3, <1>9, <2>3
      <3>2. n > 1 /\ more = r
        <4>1. more # 0
          BY <1>3, <3>1
        <4>2. QED
          BY <4>1 DEF more
      <3>3. Has(d, base + m)
        <4>1. Has(d, base + u[2 - 1]) /\ 2 - 1 = 1
          BY <1>2, <2>1, <3>2
        <4>2. QED
          BY <1>8, <4>1
      <3>4. j \in 1..r /\ d.pop = 0
        BY <1>2, <3>1, <3>2
      <3> HIDE DEF j
      <3>5. d.buffer[(0 + j - 1) % c] = (base + m) + j
        BY <3>3, <3>4 DEF Has
      <3>6. (s \o t)[m + j] = t[j] /\ t[j] = d.buffer[(0 + j - 1) % c]
        BY <1>3, <1>7, <1>9, <3>1, <3>2, <3>4
      <3>7. QED
        BY <3>1, <3>5, <3>6
    <2>4. QED
      BY <2>2, <2>3
  <1>10. m + more \in Nat /\ (m # 0 => m + more # 0)
    BY <1>1, <1>3
  <1>11. QED
    BY <1>4, <1>6, <1>7, <1>9, <1>10

-----------------------------------------------------------------------------
(* What onWrite takes off the list (TcpConnection.cpp:415-433).            *)

\* The buffer behind a drained head: pop is set to how much of it is gone.
LEMMA NextMoves ==
    ASSUME NEW b \in BufferType, b.pop = 0, NEW k \in 1..b.count
    PROVE  LET x == [b EXCEPT !.pop = k, !.count = @ - k]
           IN  /\ x \in BufferType /\ x.count = b.count - k
               /\ Ring(b) => Ring(x)
               /\ \A base \in Nat : Has(b, base) => Has(x, base + k)
  <1> DEFINE x == [b EXCEPT !.pop = k, !.count = @ - k]
             m == b.count
             c == capacity_
  <1>1. c \in Nat \ {0} /\ m \in 0..c /\ k \in 0..c /\ m - k \in 0..c /\ k <= m
    BY BufferFields
  <1>2. CASE k \in 1..(m - 1)
    <2>1. k < c /\ k \in Nat
      BY <1>1, <1>2
    <2>2. (0 + k) % c = k
      <3>1. k % c = k
        BY <1>1, <2>1, Within
      <3>2. 0 + k = k
        OBVIOUS
      <3>3. QED
        BY <3>1, <3>2
    <2> DEFINE y == [b EXCEPT !.pop = (@ + k) % c, !.count = @ - k]
    <2>3. x = y
      <3>1. (b.pop + k) % c = k
        BY <2>2
      <3>2. [b EXCEPT !.pop = (@ + k) % c] = [b EXCEPT !.pop = k]
        BY <3>1, Zenon
      <3>3. QED
        BY <3>2, Zenon
    <2>4. /\ y \in BufferType /\ y.count = m - k
          /\ Ring(b) => Ring(y)
          /\ \A base \in Nat : Has(b, base) => Has(y, base + k)
      BY <1>2, PopMoves, Zenon
    <2>5. QED
      BY <2>3, <2>4, Zenon
  <1>3. CASE ~(k \in 1..(m - 1))
    <2>1. k = m /\ m - k = 0
      BY <1>1, <1>3
    <2>2. x \in BufferType /\ x.pop = k /\ x.count = m - k /\ x.push = b.push
      <3>1. [b EXCEPT !.pop = k] \in BufferType
        BY <1>1 DEF BufferType
      <3>2. QED
        BY <1>1, <3>1 DEF BufferType
    <2> HIDE DEF x
    <2>3. ASSUME Ring(b)
          PROVE  Ring(x)
      <3>1. 0 + m = b.push \/ 0 + m = b.push + c
        BY <2>3 DEF Ring
      <3>2. x.pop + x.count = 0 + m
        BY <1>1, <2>1, <2>2
      <3>3. QED
        BY <2>2, <3>1, <3>2 DEF Ring
    <2>4. ASSUME NEW base \in Nat, Has(b, base)
          PROVE  Has(x, base + k)
      <3>1. Ring(x)
        BY <2>3, <2>4 DEF Has
      <3>2. 1..x.count = {}
        BY <2>1, <2>2
      <3>3. QED
        BY <3>1, <3>2 DEF Has
    <2>5. QED
      BY <2>2, <2>3, <2>4 DEF x
  <1>4. QED
    BY <1>2, <1>3

\* The list r is what is left of list when its first n bytes are gone.
Left(list, n, r) ==
    /\ r \in Seq(BufferType) /\ r # <<>> /\ Rings(r)
    /\ Counts(r) = Counts(list) - n
    /\ \A base \in Nat : Holds(list, base) => Holds(r, base + n)

\* What follows the first i of a list.
Follows(s, list, i) ==
    /\ Len(s) = Len(list) - i
    /\ \A j \in 1..(Len(list) - i) : s[j] = list[i + j]

LEMMA FollowsIs ==
    ASSUME NEW S, NEW list \in Seq(S), NEW i \in 1..Len(list)
    PROVE  SubSeq(list, i + 1, Len(list)) \in Seq(S) /\ Follows(SubSeq(list, i + 1, Len(list)), list, i)
  BY DEF Follows

LEMMA FirstReplaced ==
    ASSUME NEW S, NEW list \in Seq(S), list # <<>>, NEW x \in S
    PROVE  [list EXCEPT ![1] = x] = <<x>> \o SubSeq(list, 1 + 1, Len(list))
  <1> DEFINE n == Len(list)
             r == [list EXCEPT ![1] = x]
             s == SubSeq(list, 1 + 1, n)
             q == <<x>> \o s
  <1>1. n \in Nat \ {0}
    BY EmptySeq
  <1>2. r \in Seq(S) /\ Len(r) = n /\ r[1] = x /\ \A i \in 2..n : r[i] = list[i]
    BY <1>1
  <1>3. s \in Seq(S) /\ Len(s) = n - 1 /\ \A i \in 1..(n - 1) : s[i] = list[1 + i]
    <2>1. 1 \in 1..n
      BY <1>1
    <2>2. s \in Seq(S) /\ Follows(s, list, 1)
      BY <2>1, FollowsIs
    <2>3. QED
      BY <2>2 DEF Follows
  <1>4. <<x>> \in Seq(S) /\ Len(<<x>>) = 1 /\ <<x>>[1] = x
    OBVIOUS
  <1> HIDE DEF r, s, n
  <1>5. q \in Seq(S) /\ Behind(q, <<x>>, s)
    BY <1>3, <1>4, ConcatBehind
  <1> HIDE DEF q
  <1>6. Len(q) = 1 + (n - 1) /\ q[1] = x /\ \A i \in 1..(n - 1) : q[1 + i] = s[i]
    BY <1>3, <1>4, <1>5 DEF Behind
  <1>7. ASSUME NEW i \in 1..n
        PROVE  r[i] = q[i]
    <2>1. CASE i = 1
      BY <1>2, <1>6, <2>1
    <2>2. CASE i # 1
      <3>1. i - 1 \in 1..(n - 1) /\ 1 + (i - 1) = i /\ i \in 2..n
        BY <1>1, <2>2
      <3>2. q[1 + (i - 1)] = s[i - 1] /\ s[i - 1] = list[1 + (i - 1)]
        BY <1>3, <1>6, <3>1
      <3>3. QED
        BY <1>2, <3>1, <3>2
    <2>3. QED
      BY <2>1, <2>2
  <1>8. Len(r) = Len(q) /\ \A i \in 1..Len(r) : r[i] = q[i]
    BY <1>1, <1>2, <1>6, <1>7
  <1>9. r = q
    BY <1>2, <1>5, <1>8, SeqEqual
  <1>10. QED
    BY <1>9 DEF r, q, s, n

LEMMA SecondReplaced ==
    ASSUME NEW S, NEW list \in Seq(S), Len(list) > 1, NEW x \in S
    PROVE  Tail([list EXCEPT ![2] = x]) = <<x>> \o SubSeq(list, 2 + 1, Len(list))
  <1> DEFINE n == Len(list)
             t == [list EXCEPT ![2] = x]
             r == Tail(t)
             s == SubSeq(list, 2 + 1, n)
             q == <<x>> \o s
  <1>1. n \in Nat /\ n > 1
    OBVIOUS
  <1>2. t \in Seq(S) /\ Len(t) = n /\ t # <<>> /\ t[2] = x /\ \A i \in 3..n : t[i] = list[i]
    BY <1>1
  <1> HIDE DEF t
  <1>3. r \in Seq(S) /\ Len(r) = n - 1 /\ \A i \in 1..(n - 1) : r[i] = t[i + 1]
    BY <1>2, HeadTailProperties
  <1>4. s \in Seq(S) /\ Len(s) = n - 2 /\ \A i \in 1..(n - 2) : s[i] = list[2 + i]
    <2>1. 2 \in 1..n
      BY <1>1
    <2>2. s \in Seq(S) /\ Follows(s, list, 2)
      BY <2>1, FollowsIs
    <2>3. QED
      BY <2>2 DEF Follows
  <1>5. <<x>> \in Seq(S) /\ Len(<<x>>) = 1 /\ <<x>>[1] = x
    OBVIOUS
  <1> HIDE DEF r, s, n
  <1>6. q \in Seq(S) /\ Behind(q, <<x>>, s)
    BY <1>4, <1>5, ConcatBehind
  <1> HIDE DEF q
  <1>7. Len(q) = 1 + (n - 2) /\ q[1] = x /\ \A i \in 1..(n - 2) : q[1 + i] = s[i]
    BY <1>4, <1>5, <1>6 DEF Behind
  <1>8. ASSUME NEW i \in 1..(n - 1)
        PROVE  r[i] = q[i]
    <2>1. CASE i = 1
      <3>1. i + 1 = 2 /\ i \in 1..(n - 1)
        BY <2>1
      <3>2. QED
        BY <1>2, <1>3, <1>7, <2>1, <3>1
    <2>2. CASE i # 1
      <3>1. i - 1 \in 1..(n - 2) /\ 1 + (i - 1) = i /\ i + 1 \in 3..n /\ 2 + (i - 1) = i + 1
        BY <1>1, <2>2
      <3>2. q[1 + (i - 1)] = s[i - 1] /\ s[i - 1] = list[2 + (i - 1)]
        BY <1>4, <1>7, <3>1
      <3>3. QED
        BY <1>2, <1>3, <3>1, <3>2
    <2>3. QED
      BY <2>1, <2>2
  <1>9. Len(r) = Len(q) /\ \A i \in 1..Len(r) : r[i] = q[i]
    BY <1>1, <1>3, <1>7, <1>8
  <1>10. r = q
    BY <1>3, <1>6, <1>9, SeqEqual
  <1>11. QED
    BY <1>10 DEF r, q, s, n, t

LEMMA HeadLeft ==
    ASSUME NEW list \in Seq(BufferType), Rings(list), NEW i \in 1..Len(list),
           NEW x \in BufferType, Ring(x), NEW n \in Nat, n + x.count = Upto(list)[i],
           \A base \in Nat : Holds(list, base) => Has(x, base + n)
    PROVE  Left(list, n, <<x>> \o SubSeq(list, i + 1, Len(list)))
  <1> DEFINE r == <<x>> \o SubSeq(list, i + 1, Len(list))
             u == Upto(list)
  <1>1. r \in Seq(BufferType) /\ Len(r) = (Len(list) - i) + 1 /\ Counts(r) = x.count + (Counts(list) - u[i])
    BY HeadAndRest
  <1>2. /\ Rings(r)
        /\ \A base, size \in Nat :
              Holds(list, base) /\ size + x.count = u[i] /\ Has(x, base + size) => Holds(r, base + size)
    BY HeadHolds
  <1> HIDE DEF r, u
  <1>3. Len(r) # 0
    <2>1. Len(list) \in Nat /\ i \in Nat /\ i <= Len(list)
      OBVIOUS
    <2>2. QED
      BY <1>1, <2>1
  <1>4. x.count \in Nat /\ Counts(list) \in Nat /\ n + x.count = u[i] /\ u[i] \in Nat
    <2>1. x.count \in Nat /\ Counts(list) \in Nat
      BY BufferFields, UptoFacts
    <2>2. n + x.count = u[i]
      BY DEF u
    <2> DEFINE y == x.count
               z == u[i]
    <2> HIDE DEF y, z
    <2>3. y \in Nat /\ n + y = z
      BY <2>1, <2>2 DEF y, z
    <2>4. z \in Nat
      BY <2>3
    <2>5. QED
      BY <2>1, <2>2, <2>4 DEF z
  <1>5. Counts(r) = Counts(list) - n
    <2> DEFINE y == x.count
               z == u[i]
               a == Counts(list)
               e == Counts(r)
    <2> HIDE DEF y, z, a, e
    <2>1. y \in Nat /\ z \in Nat /\ a \in Nat /\ n + y = z /\ e = y + (a - z)
      BY <1>1, <1>4 DEF y, z, a, e
    <2>2. e = a - n
      BY <2>1
    <2>3. QED
      BY <2>2 DEF a, e
  <1>6. \A base \in Nat : Holds(list, base) => Holds(r, base + n)
    BY <1>2, <1>4
  <1>7. r # <<>>
    BY <1>3
  <1>8. Left(list, n, r)
    BY <1>1, <1>2, <1>5, <1>6, <1>7 DEF Left
  <1>9. QED
    BY <1>8, Zenon DEF r

LEMMA TailLeft ==
    ASSUME NEW list \in Seq(BufferType), Rings(list), Len(list) > 1
    PROVE  Left(list, list[1].count, Tail(list))
  <1> DEFINE r == SubSeq(list, 1 + 1, Len(list))
             u == Upto(list)
             n == list[1].count
  <1>1. Len(list) \in Nat /\ 1 \in 1..Len(list) /\ n \in Nat /\ u[1] = n
    <2>1. Len(list) \in Nat /\ 1 \in 1..Len(list) /\ 1 - 1 = 0
      OBVIOUS
    <2>2. u[0] = 0 /\ \A i \in 1..Len(list) : list[i].count \in Nat /\ u[i] = u[i - 1] + list[i].count
      BY UptoFacts
    <2>3. u[1] = u[0] + n /\ n \in Nat
      BY <2>1, <2>2
    <2> HIDE DEF n, u
    <2>4. QED
      BY <2>1, <2>2, <2>3
  <1>2. r \in Seq(BufferType) /\ Len(r) = Len(list) - 1 /\ Counts(r) = Counts(list) - u[1]
    BY <1>1, RestIs
  <1>3. /\ Rings(r)
        /\ \A base, size \in Nat : Holds(list, base) /\ size = u[1] => Holds(r, base + size)
    BY <1>1, RestHolds
  <1>4. r = Tail(list)
    <2>1. list # <<>>
      BY <1>1
    <2>2. Tail(list) = SubSeq(list, 2, Len(list))
      BY <2>1, TailIsSubSeq
    <2>3. 1 + 1 = 2
      OBVIOUS
    <2>4. QED
      BY <2>2, <2>3
  <1> HIDE DEF r, u, n
  <1>5. Len(r) # 0
    BY <1>1, <1>2
  <1>6. r # <<>>
    BY <1>5
  <1>7. QED
    BY <1>1, <1>2, <1>3, <1>4, <1>6 DEF Left, n

LEMMA PutTwice ==
    ASSUME NEW S, NEW list \in Seq(S), Len(list) > 1, NEW y, NEW z
    PROVE  /\ [[list EXCEPT ![2] = y] EXCEPT ![2] = z] = [list EXCEPT ![2] = z]
           /\ [list EXCEPT ![2] = y][2] = y
  <1> DEFINE f == [list EXCEPT ![2] = y]
             g == [f EXCEPT ![2] = z]
             h == [list EXCEPT ![2] = z]
  <1>1. 2 \in DOMAIN list
    BY LenProperties
  <1>2. f[2] = y
    BY <1>1, Zenon
  <1>3. g = h
    <2>1. g = [i \in DOMAIN list |-> IF i = 2 THEN z ELSE f[i]]
      BY Zenon
    <2>2. h = [i \in DOMAIN list |-> IF i = 2 THEN z ELSE list[i]]
      BY Zenon
    <2>3. \A i \in DOMAIN list : i # 2 => f[i] = list[i]
      BY Zenon
    <2>4. QED
      BY <2>1, <2>2, <2>3, Zenon
  <1>4. QED
    BY <1>2, <1>3, Zenon

LEMMA RestIsLeft ==
    ASSUME waiting \in Seq(BufferType), waiting # <<>>, Rings(waiting),
           NEW n \in Nat, n <= W!Size, n = 0 => waiting[1].count = 0
    PROVE  Left(waiting, n, W!Rest(n))
  <1> DEFINE l == Len(waiting)
             b == waiting[1]
             m == b.count
             d == waiting[2]
             c == capacity_
             u == Upto(waiting)
  <1>1. l \in Nat \ {0} /\ 1 \in 1..l /\ b \in BufferType /\ Ring(b) /\ m \in Nat
    <2>1. l \in Nat \ {0} /\ 1 \in 1..l
      BY EmptySeq
    <2>2. b \in BufferType /\ Ring(b)
      BY <2>1 DEF Rings
    <2>3. QED
      BY <2>1, <2>2, BufferFields
  <1>2. ASSUME l > 1
        PROVE  /\ d \in BufferType /\ Ring(d) /\ d.count \in Nat /\ d.pop = 0
               /\ 2 \in 1..l /\ u[2] = m + d.count
    <2>1. 2 \in 1..l /\ 2 \in 2..l /\ 1 \in 1..l /\ 2 - 1 = 1 /\ 1 - 1 = 0
      BY <1>1, <1>2
    <2>2. d \in BufferType /\ Ring(d) /\ d.pop = 0
      BY <2>1 DEF Rings
    <2>3. u[0] = 0 /\ \A i \in 1..l : u[i] = u[i - 1] + waiting[i].count
      BY UptoFacts
    <2>4. u[2] = u[1] + d.count /\ u[1] = u[0] + m
      BY <2>1, <2>3
    <2> HIDE DEF u, m
    <2>5. d.count \in Nat
      BY <2>2, BufferFields
    <2>6. QED
      BY <1>1, <2>1, <2>2, <2>3, <2>4, <2>5
  <1>3. u[0] = 0 /\ u[1] = m
    <2>1. u[0] = 0 /\ \A i \in 1..l : u[i] = u[i - 1] + waiting[i].count
      BY UptoFacts
    <2>2. 1 - 1 = 0
      OBVIOUS
    <2>3. u[1] = u[0] + m
      BY <1>1, <2>1, <2>2
    <2> HIDE DEF u, m
    <2>4. QED
      BY <1>1, <2>1, <2>3
  <1>4. \A base \in Nat : Holds(waiting, base) =>
            /\ Has(b, base)
            /\ l > 1 => Has(d, base + m)
    <2>1. ASSUME NEW base \in Nat, Holds(waiting, base)
          PROVE  Has(b, base) /\ (l > 1 => Has(d, base + m))
      <3>1. \A i \in 1..l : Has(waiting[i], base + u[i - 1])
        BY <2>1 DEF Holds
      <3>2. Has(b, base)
        <4>1. Has(b, base + u[1 - 1]) /\ 1 - 1 = 0 /\ base + 0 = base
          BY <1>1, <3>1
        <4> HIDE DEF u
        <4>2. QED
          BY <1>3, <4>1
      <3>3. ASSUME l > 1
            PROVE  Has(d, base + m)
        <4>1. Has(d, base + u[2 - 1]) /\ 2 - 1 = 1
          BY <1>2, <3>1, <3>3
        <4> HIDE DEF u
        <4>2. QED
          BY <1>3, <4>1
      <3>4. QED
        BY <3>2, <3>3
    <2>2. QED
      BY <2>1
  <1>5. W!Size = m + IF l > 1 THEN d.count ELSE 0
    BY DEF W!Size, W!Head_, W!HasNext
  <1>6. W!HasNext <=> l > 1
    BY DEF W!HasNext
  <1> HIDE DEF l, m, u
  <1>7. CASE n < m
    <2> DEFINE x == [b EXCEPT !.pop = (@ + n) % c, !.count = @ - n]
    <2>1. W!Rest(n) = [waiting EXCEPT ![1] = x]
      BY <1>7 DEF W!Rest, W!Head_, m
    <2>2. n \in 1..(m - 1)
      BY <1>1, <1>7 DEF m
    <2>3. /\ x \in BufferType /\ x.count = m - n
          /\ Ring(b) => Ring(x)
          /\ \A base \in Nat : Has(b, base) => Has(x, base + n)
      BY <1>1, <2>2, PopMoves, Zenon DEF m
    <2> HIDE DEF x
    <2>4. W!Rest(n) = <<x>> \o SubSeq(waiting, 1 + 1, Len(waiting))
      BY <2>1, <2>3, FirstReplaced
    <2>5. n + x.count = u[1]
      BY <1>1, <1>3, <1>7, <2>3
    <2>6. \A base \in Nat : Holds(waiting, base) => Has(x, base + n)
      BY <1>4, <2>3
    <2>7. Left(waiting, n, <<x>> \o SubSeq(waiting, 1 + 1, Len(waiting)))
      BY <1>1, <2>3, <2>5, <2>6, HeadLeft DEF l, u
    <2>8. QED
      BY <2>4, <2>7
  <1>8. CASE n > m
    <2> DEFINE k == n - m
               x == [d EXCEPT !.pop = k, !.count = @ - k]
    <2>1. l > 1
      BY <1>1, <1>5, <1>8
    <2>2. W!Rest(n) = Tail([waiting EXCEPT ![2] = x])
      <3> DEFINE y == [d EXCEPT !.pop = k]
                 t == [waiting EXCEPT ![2].pop = k, ![2].count = @ - k]
      <3>1. ~(n < m) /\ n > m
        BY <1>1, <1>8
      <3>2. W!Rest(n) = Tail(t)
        <4> DEFINE first == [waiting EXCEPT ![1] =
                                [b EXCEPT !.pop = (@ + n) % c, !.count = @ - n]]
                   rest  == IF W!HasNext THEN Tail(waiting)
                            ELSE <<[b EXCEPT !.push = 0, !.pop = 0, !.count = 0]>>
        <4>1. W!Rest(n) = IF n < m THEN first ELSE IF n > m THEN Tail(t) ELSE rest
          BY Zenon DEF W!Rest, W!Head_, m
        <4> HIDE DEF first, rest, t
        <4>2. QED
          BY <3>1, <4>1, Zenon
      <3>3. t = [waiting EXCEPT ![2] = [[waiting EXCEPT ![2] = y][2] EXCEPT !.count = d.count - k]]
        <4> DEFINE z == [[waiting EXCEPT ![2] = y][2] EXCEPT !.count = d.count - k]
        <4>1. t = [[waiting EXCEPT ![2] = y] EXCEPT ![2] = z]
          BY Zenon
        <4> HIDE DEF t, y, z
        <4>2. [[waiting EXCEPT ![2] = y] EXCEPT ![2] = z] = [waiting EXCEPT ![2] = z]
          BY <2>1, PutTwice, Zenon DEF l
        <4>3. t = [waiting EXCEPT ![2] = z]
          BY <4>1, <4>2, Zenon
        <4>4. QED
          BY <4>3, Zenon DEF z
      <3>4. [waiting EXCEPT ![2] = y][2] = y
        BY <2>1, PutTwice, Zenon DEF l
      <3>5. [y EXCEPT !.count = d.count - k] = x
        OBVIOUS
      <3>6. t = [waiting EXCEPT ![2] = x]
        BY <3>3, <3>4, <3>5, Zenon
      <3>7. QED
        BY <3>2, <3>6, Zenon
    <2>3. k \in 1..d.count
      BY <1>1, <1>2, <1>5, <1>8, <2>1
    <2> HIDE DEF k
    <2>4. /\ x \in BufferType /\ x.count = d.count - k
          /\ Ring(d) => Ring(x)
          /\ \A base \in Nat : Has(d, base) => Has(x, base + k)
      BY <1>2, <2>1, <2>3, NextMoves, Zenon
    <2> HIDE DEF x
    <2>5. W!Rest(n) = <<x>> \o SubSeq(waiting, 2 + 1, Len(waiting))
      BY <2>1, <2>2, <2>4, SecondReplaced DEF l
    <2>6. n + x.count = u[2]
      BY <1>1, <1>2, <1>8, <2>1, <2>4 DEF k
    <2>7. ASSUME NEW base \in Nat, Holds(waiting, base)
          PROVE  Has(x, base + n)
      <3>1. Has(d, base + m) /\ base + m \in Nat
        BY <1>1, <1>4, <2>1, <2>7
      <3>2. Has(x, (base + m) + k)
        BY <2>4, <3>1
      <3>3. (base + m) + k = base + n
        BY <1>1, <1>8 DEF k
      <3>4. QED
        BY <3>2, <3>3
    <2>8. Left(waiting, n, <<x>> \o SubSeq(waiting, 2 + 1, Len(waiting)))
      BY <1>2, <2>1, <2>4, <2>6, <2>7, HeadLeft DEF l, u
    <2>9. QED
      BY <2>5, <2>8
  <1>9. CASE n = m /\ l > 1
    <2>1. W!Rest(n) = Tail(waiting)
      BY <1>1, <1>6, <1>9 DEF W!Rest, W!Head_, m
    <2>2. Left(waiting, m, Tail(waiting))
      BY <1>9, TailLeft DEF l, m
    <2>3. QED
      BY <1>9, <2>1, <2>2
  <1>10. CASE n = m /\ ~(l > 1)
    <2> DEFINE x == [b EXCEPT !.push = 0, !.pop = 0, !.count = 0]
    <2>1. W!Rest(n) = <<x>>
      BY <1>1, <1>6, <1>10 DEF W!Rest, W!Head_, m
    <2>2. x \in BufferType /\ x.count = 0 /\ x.push = 0 /\ x.pop = 0
      <3>1. 0 \in 0..c
        BY CapacityAssumption
      <3>2. QED
        BY <1>1, <3>1 DEF BufferType
    <2> HIDE DEF x
    <2>3. Ring(x) /\ \A base \in Nat : Has(x, base)
      BY <2>2 DEF Has, Ring
    <2>4. <<x>> \o SubSeq(waiting, 1 + 1, Len(waiting)) = <<x>>
      <3>1. Len(waiting) = 1
        <4>1. l = 1
          BY <1>1, <1>10
        <4>2. QED
          BY <4>1 DEF l
      <3>2. SubSeq(waiting, 1 + 1, Len(waiting)) = <<>>
        BY <3>1
      <3>3. <<x>> \in Seq(BufferType)
        BY <2>2
      <3>4. QED
        BY <3>2, <3>3, ConcatEmptySeq
    <2>5. n + x.count = u[1]
      BY <1>1, <1>3, <1>10, <2>2
    <2>6. Left(waiting, n, <<x>> \o SubSeq(waiting, 1 + 1, Len(waiting)))
      <3>1. \A base \in Nat : Holds(waiting, base) => Has(x, base + n)
        BY <2>3
      <3>2. QED
        BY <1>1, <2>2, <2>3, <2>5, <3>1, HeadLeft DEF l, u
    <2>7. QED
      BY <2>1, <2>4, <2>6
  <1>11. QED
    BY <1>1, <1>7, <1>8, <1>9, <1>10

-----------------------------------------------------------------------------
(* The invariant of the writing half, action by action.                    *)

\* The list, its counts and what was written from it.
WListed ==
    /\ waiting \in Seq(BufferType) /\ waiting # <<>> /\ Rings(waiting)
    /\ Counts(waiting) = writeSize_
    /\ room \in Nat /\ queued \in Nat /\ flushed \in Seq(Nat)
    /\ Len(flushed) + writeSize_ = queued

\* What was written and what is waiting are the numbers writeData was given.
WStream ==
    /\ Holds(waiting, Len(flushed))
    /\ \A k \in 1..Len(flushed) : flushed[k] = k

WInv == WListed /\ (~stray => WStream)

LEMMA WListKept ==
    ASSUME WInv, room' \in Nat, UNCHANGED <<waiting, writeSize_, queued, flushed, stray>>
    PROVE  WInv'
  <1>1. WListed'
    BY DEF WInv, WListed
  <1>2. WStream' <=> WStream
    BY DEF WStream
  <1>3. QED
    BY <1>1, <1>2 DEF WInv

LEMMA InitWInv ==
    ASSUME WriteAssumption, W!Init
    PROVE  WInv
  <1>1. waiting = <<Take>>
    BY SameBuffers DEF W!Init
  <1>2. Counts(waiting) = 0 /\ Holds(waiting, 0)
    BY <1>1, OneBuffer
  <1>3. waiting \in Seq(BufferType) /\ Len(waiting) = 1 /\ waiting[1] = Take /\ Ring(Take)
    BY <1>1, TakeIs
  <1>4. Rings(waiting) /\ waiting # <<>>
    BY <1>3 DEF Rings
  <1>5. writeSize_ = 0 /\ queued = 0 /\ flushed = <<>> /\ room \in Nat
    BY DEF W!Init, WriteAssumption
  <1>6. flushed \in Seq(Nat) /\ Len(flushed) = 0
    BY <1>5
  <1>7. WListed
    BY <1>2, <1>3, <1>4, <1>5, <1>6 DEF WListed
  <1>8. WStream
    BY <1>2, <1>6 DEF WStream
  <1>9. QED
    BY <1>7, <1>8 DEF WInv

LEMMA SendKeepsWInv ==
    ASSUME WInv, NEW n \in Nat, W!Send(n)
    PROVE  WInv'
  <1> DEFINE took == W!Least(n, room)
             e == n - took
             G(i) == queued + i
             rest == [i \in 1..e |-> G(i)]
  <1>1. /\ waiting \in Seq(BufferType) /\ waiting # <<>> /\ Rings(waiting)
        /\ Counts(waiting) = writeSize_
        /\ room \in Nat /\ queued \in Nat /\ flushed \in Seq(Nat)
        /\ Len(flushed) + writeSize_ = queued
    BY DEF WInv, WListed
  <1>2. /\ room' = room - took /\ queued' = queued + Len(rest)
        /\ waiting' = IF rest = <<>> THEN waiting ELSE W!Written(waiting, rest)
        /\ writeSize_' = writeSize_ + Len(rest)
        /\ UNCHANGED <<flushed, stray>>
    BY DEF W!Send
  <1>3. took \in Nat /\ took <= n /\ took <= room
    BY <1>1, LeastIs
  <1>4. e \in Nat /\ room' \in Nat
    <2>1. room \in Nat /\ room' = room - took
      BY <1>1, <1>2
    <2> HIDE DEF took
    <2>2. QED
      BY <1>3, <2>1
  <1>5. rest \in Seq(Nat) /\ Len(rest) = e /\ \A k \in 1..e : rest[k] = queued + k
    <2>1. \A i \in 1..e : G(i) \in Nat
      BY <1>1
    <2>2. rest \in Seq(Nat) /\ Len(rest) = e /\ \A k \in 1..e : rest[k] = G(k)
      <3> HIDE DEF G, e
      <3>1. QED
        BY <1>4, <2>1
    <2>3. QED
      BY <2>2
  <1> HIDE DEF rest
  <1>6. CASE rest = <<>>
    <2>1. Len(rest) = 0
      BY <1>6
    <2>2. Counts(waiting) \in Nat /\ writeSize_ \in Nat
      BY <1>1, UptoFacts
    <2>3. UNCHANGED <<waiting, writeSize_, queued, flushed, stray>>
      BY <1>1, <1>2, <1>6, <2>1, <2>2
    <2>4. QED
      BY <1>4, <2>3, WListKept
  <1>7. CASE rest # <<>>
    <2> DEFINE l == W!Written(waiting, rest)
    <2>1. /\ l \in Seq(BufferType) /\ l # <<>> /\ Rings(l)
          /\ Counts(l) = Counts(waiting) + Len(rest)
          /\ \A base \in Nat :
                Holds(waiting, base) /\ (\A k \in 1..Len(rest) : rest[k] = base + Counts(waiting) + k)
                => Holds(l, base)
      BY <1>1, <1>5, <1>7, WrittenHolds
    <2>2. waiting' = l
      BY <1>2, <1>7
    <2> HIDE DEF l
    <2>3. Counts(waiting) \in Nat /\ writeSize_ \in Nat /\ Len(flushed) \in Nat
      BY <1>1, UptoFacts
    <2>4. Len(flushed') + writeSize_' = queued' /\ queued' \in Nat
      <3> DEFINE f == Len(flushed)
      <3>1. /\ writeSize_ \in Nat /\ f \in Nat /\ e \in Nat /\ f + writeSize_ = queued
            /\ writeSize_' = writeSize_ + e /\ queued' = queued + e
        BY <1>1, <1>2, <1>4, <1>5, <2>3
      <3>2. Len(flushed') = f
        BY <1>2
      <3> HIDE DEF f, e
      <3>3. QED
        BY <3>1, <3>2
    <2>5. WListed'
      BY <1>1, <1>2, <1>4, <2>1, <2>2, <2>4 DEF WListed
    <2>6. ASSUME WStream
          PROVE  WStream'
      <3>1. Holds(waiting, Len(flushed)) /\ \A k \in 1..Len(flushed) : flushed[k] = k
        BY <2>6 DEF WStream
      <3>2. \A k \in 1..Len(rest) : rest[k] = Len(flushed) + Counts(waiting) + k
        BY <1>1, <1>5, <2>3
      <3>3. Holds(l, Len(flushed))
        BY <2>1, <2>3, <3>1, <3>2
      <3>4. QED
        BY <1>2, <2>2, <3>1, <3>3 DEF WStream
    <2>7. QED
      BY <1>2, <2>5, <2>6 DEF WInv
  <1>8. QED
    BY <1>6, <1>7

\* onWrite's writev takes n bytes of what it was given.
LEMMA TakenKeepsWInv ==
    ASSUME WInv, NEW n \in Nat, n <= Len(W!Iov), n <= W!Size, n = 0 => waiting[1].count = 0,
           waiting' = W!Rest(n), writeSize_' = writeSize_ - n,
           flushed' = flushed \o SubSeq(W!Iov, 1, n),
           room' \in Nat, UNCHANGED queued, stray' = (stray \/ waiting[1].count = 0)
    PROVE  WInv'
  <1> DEFINE r == W!Rest(n)
             s == SubSeq(W!Iov, 1, n)
             f == Len(flushed)
             m == waiting[1].count
             size == W!Size
  <1>1. /\ waiting \in Seq(BufferType) /\ waiting # <<>> /\ Rings(waiting)
        /\ Counts(waiting) = writeSize_
        /\ queued \in Nat /\ flushed \in Seq(Nat)
        /\ f + writeSize_ = queued
    BY DEF WInv, WListed
  <1>2. Left(waiting, n, r)
    BY <1>1, RestIsLeft
  <1>3. /\ W!Iov \in Seq(Nat) /\ size \in Nat
        /\ m # 0 => \A base \in Nat :
                       Holds(waiting, base) => \A k \in 1..size : W!Iov[k] = base + k
    BY <1>1, IovIs
  <1>4. s \in Seq(Nat) /\ Len(s) = n /\ \A k \in 1..n : s[k] = W!Iov[k]
    BY <1>3, FrontIs
  <1>5. f \in Nat /\ writeSize_ \in Nat
    BY <1>1, UptoFacts
  <1> HIDE DEF r, s
  <1>6. /\ r \in Seq(BufferType) /\ r # <<>> /\ Rings(r) /\ Counts(r) = writeSize_ - n
        /\ \A base \in Nat : Holds(waiting, base) => Holds(r, base + n)
    BY <1>1, <1>2 DEF Left
  <1>7. waiting' = r /\ flushed' = flushed \o s
    BY DEF r, s
  <1>8. flushed' \in Seq(Nat) /\ Behind(flushed', flushed, s)
    BY <1>1, <1>4, <1>7, ConcatBehind
  <1>9. /\ Len(flushed') = f + n
        /\ \A k \in 1..f : flushed'[k] = flushed[k]
        /\ \A k \in 1..n : flushed'[f + k] = s[k]
    BY <1>4, <1>8 DEF Behind
  <1>10. Len(flushed') + writeSize_' = queued'
    <2> DEFINE g == Len(flushed')
    <2>1. /\ writeSize_' = writeSize_ - n /\ queued' = queued /\ f + writeSize_ = queued
          /\ g = f + n
      BY <1>1, <1>9
    <2> HIDE DEF f, g
    <2>2. g + writeSize_' = queued'
      BY <1>5, <2>1
    <2>3. QED
      BY <2>2 DEF g
  <1>11. WListed'
    BY <1>1, <1>6, <1>7, <1>8, <1>10 DEF WListed
  <1>12. ASSUME WStream, m # 0
         PROVE  WStream'
    <2>1. Holds(waiting, f) /\ \A k \in 1..f : flushed[k] = k
      BY <1>12 DEF WStream
    <2>2. Holds(r, f + n)
      BY <1>5, <1>6, <2>1
    <2>3. \A k \in 1..size : W!Iov[k] = f + k
      BY <1>3, <1>5, <1>12, <2>1
    <2>4. \A k \in 1..n : s[k] = f + k
      <3> HIDE DEF f
      <3>1. n <= size
        OBVIOUS
      <3> HIDE DEF size
      <3>2. \A k \in 1..n : k \in 1..size
        BY <1>3, <3>1
      <3>3. QED
        BY <1>4, <2>3, <3>2
    <2> HIDE DEF f
    <2>5. ASSUME NEW k \in 1..(f + n)
          PROVE  flushed'[k] = k
      <3>1. CASE k <= f
        <4>1. k \in 1..f
          BY <1>5, <3>1
        <4>2. QED
          BY <1>9, <2>1, <4>1
      <3>2. CASE f < k
        <4> DEFINE j == k - f
        <4>1. j \in 1..n /\ f + j = k
          BY <1>5, <3>2
        <4> HIDE DEF j
        <4>2. flushed'[f + j] = s[j] /\ s[j] = f + j
          BY <1>9, <2>4, <4>1
        <4>3. QED
          BY <4>1, <4>2
      <3>3. k <= f \/ f < k
        BY <1>5
      <3>4. QED
        BY <3>1, <3>2, <3>3
    <2>6. \A k \in 1..Len(flushed') : flushed'[k] = k
      BY <1>9, <2>5
    <2>7. Holds(waiting', Len(flushed'))
      BY <1>7, <1>9, <2>2
    <2>8. QED
      BY <2>6, <2>7 DEF WStream
  <1>13. ~stray' => ~stray /\ m # 0
    OBVIOUS
  <1>14. QED
    BY <1>11, <1>12, <1>13 DEF WInv

LEMMA WriteSomeKeepsWInv ==
    ASSUME WInv, W!WriteSome
    PROVE  WInv'
  <1> DEFINE iov == W!Iov
             n == W!Least(room, Len(iov))
             m == waiting[1].count
  <1>1. /\ room > 0 \/ iov = <<>>
        /\ room' = room - n
        /\ IF n > W!Size
           THEN UNCHANGED <<waiting, writeSize_, flushed>>
           ELSE /\ waiting' = W!Rest(n)
                /\ writeSize_' = writeSize_ - n
                /\ flushed' = flushed \o SubSeq(iov, 1, n)
        /\ stray' = (stray \/ m = 0)
        /\ UNCHANGED queued
    BY DEF W!WriteSome, W!Head_
  <1>2. waiting \in Seq(BufferType) /\ waiting # <<>> /\ Rings(waiting) /\ room \in Nat
    BY DEF WInv, WListed
  <1>3. /\ iov \in Seq(Nat) /\ W!Size \in Nat
        /\ m # 0 => Len(iov) = W!Size /\ W!Size # 0
    BY <1>2, IovIs
  <1>4. Len(iov) \in Nat
    BY <1>3
  <1>5. /\ n \in Nat /\ n <= room /\ n <= Len(iov)
        /\ n = IF room < Len(iov) THEN room ELSE Len(iov)
    BY <1>2, <1>4, LeastIs
  <1>6. iov = <<>> => Len(iov) = 0
    OBVIOUS
  <1>7. room' \in Nat
    <2>1. room' = room - n
      BY <1>1
    <2> HIDE DEF n
    <2>2. QED
      BY <1>2, <1>5, <2>1
  <1>8. CASE n > W!Size
    <2> HIDE DEF n, m, iov
    <2>1. m = 0
      BY <1>3, <1>5, <1>8
    <2>2. WInv'
      <3>1. UNCHANGED <<waiting, writeSize_, flushed, queued>>
        BY <1>1, <1>8
      <3>2. WListed'
        BY <1>7, <3>1 DEF WInv, WListed
      <3>3. stray'
        BY <1>1, <2>1
      <3>4. QED
        BY <3>2, <3>3 DEF WInv
    <2>3. QED
      BY <2>2
  <1>9. CASE ~(n > W!Size)
    <2>1. n <= W!Size
      <3> HIDE DEF n
      <3>1. QED
        BY <1>3, <1>5, <1>9
    <2>2. n = 0 => m = 0
      <3> HIDE DEF n, m, iov
      <3>1. QED
        BY <1>1, <1>2, <1>3, <1>4, <1>5, <1>6
    <2>3. QED
      BY <1>1, <1>5, <1>7, <1>9, <2>1, <2>2, TakenKeepsWInv
  <1>10. QED
    BY <1>8, <1>9

LEMMA NextKeepsWInv ==
    ASSUME WriteAssumption, WInv, [W!Next]_(W!vars)
    PROVE  WInv'
  <1>1. room \in Nat
    BY DEF WInv, WListed
  <1>2. ASSUME NEW n \in 1..MaxBytes, W!Send(n)
        PROVE  WInv'
    <2>1. n \in Nat
      BY DEF WriteAssumption
    <2>2. QED
      BY <1>2, <2>1, SendKeepsWInv
  <1>3. ASSUME NEW n \in 1..SocketSize, W!PeerReads(n)
        PROVE  WInv'
    <2>1. room' = room + n /\ UNCHANGED <<waiting, writeSize_, queued, flushed, stray>>
      BY <1>3 DEF W!PeerReads
    <2>2. n \in Nat
      BY DEF WriteAssumption
    <2>3. room' \in Nat
      BY <1>1, <2>1, <2>2
    <2>4. QED
      BY <2>1, <2>3, WListKept
  <1>4. CASE W!PeerWrites
    BY <1>1, <1>4, WListKept DEF W!PeerWrites
  <1>5. CASE W!Report
    <2>1. UNCHANGED <<room, waiting, writeSize_, queued, flushed, stray>>
      BY <1>5 DEF W!Report
    <2>2. QED
      BY <1>1, <2>1, WListKept
  <1>6. CASE W!WriteNothing
    <2>1. UNCHANGED <<room, waiting, writeSize_, queued, flushed, stray>>
      BY <1>6 DEF W!WriteNothing
    <2>2. QED
      BY <1>1, <2>1, WListKept
  <1>7. CASE W!WriteSome
    BY <1>7, WriteSomeKeepsWInv
  <1>8. CASE UNCHANGED W!vars
    BY <1>1, <1>8, WListKept DEF W!vars
  <1>9. QED
    BY <1>2, <1>3, <1>4, <1>5, <1>6, <1>7, <1>8 DEF W!Next, W!LoopStep

\* The list of rings that waits, what was written from it and the counts
\* belong together in every reachable state (TcpConnection.cpp:233-283,
\* 385-435).
THEOREM WriteInvariant ==
    ASSUME WriteAssumption
    PROVE  W!Spec => []WInv
  <1>1. W!Init => WInv
    BY InitWInv
  <1>2. WInv /\ [W!Next]_(W!vars) => WInv'
    BY NextKeepsWInv
  <1>3. QED
    BY <1>1, <1>2, PTL DEF W!Spec

LEMMA WInvCounts ==
    WInv => W!CountsAgree
  <1> SUFFICES ASSUME WInv
               PROVE  W!CountsAgree
    OBVIOUS
  <1>1. /\ waiting \in Seq(BufferType) /\ waiting # <<>> /\ Rings(waiting)
        /\ Counts(waiting) = writeSize_
    BY DEF WInv, WListed
  <1>2. ASSUME NEW i \in 1..Len(waiting)
        PROVE  W!Coherent(waiting[i])
    <2>1. waiting[i] \in BufferType /\ Ring(waiting[i])
      BY <1>1 DEF Rings
    <2>2. Coherent(waiting[i])
      BY <2>1, RingCoheres
    <2>3. W!Coherent(waiting[i]) = Coherent(waiting[i])
      BY SameBuffers
    <2>4. QED
      BY <2>2, <2>3
  <1>3. W!BufferType = BufferType /\ W!Counts(waiting) = Counts(waiting)
    BY SameBuffers
  <1>4. QED
    BY <1>1, <1>2, <1>3 DEF W!CountsAgree

LEMMA WInvQueue ==
    WInv => W!QueueIntact
  <1> SUFFICES ASSUME WInv, ~stray
               PROVE  flushed \o Contents(waiting) = [i \in 1..queued |-> i]
    <2>1. W!Contents(waiting) = Contents(waiting)
      BY SameBuffers
    <2>2. QED
      BY <2>1 DEF W!QueueIntact
  <1> DEFINE held == Contents(waiting)
             all == flushed \o held
             want == [i \in 1..queued |-> i]
             f == Len(flushed)
             w == writeSize_
  <1>1. /\ waiting \in Seq(BufferType) /\ queued \in Nat /\ flushed \in Seq(Nat) /\ f \in Nat
        /\ f + w = queued
    BY DEF WInv, WListed
  <1>2. Counts(waiting) = w /\ Holds(waiting, f) /\ \A k \in 1..f : flushed[k] = k
    BY DEF WInv, WListed, WStream
  <1>3. held \in Seq(Nat) /\ Len(held) = w /\ \A k \in 1..w : held[k] = f + k
    BY <1>1, <1>2, ContentsIs
  <1>4. w \in Nat
    BY <1>1, <1>2, UptoFacts
  <1> HIDE DEF held
  <1>5. all \in Seq(Nat) /\ Behind(all, flushed, held)
    BY <1>1, <1>3, ConcatBehind
  <1> HIDE DEF all, w
  <1>6. /\ Len(all) = f + w
        /\ \A k \in 1..f : all[k] = flushed[k]
        /\ \A k \in 1..w : all[f + k] = held[k]
    BY <1>3, <1>5 DEF Behind
  <1> HIDE DEF f
  <1>7. ASSUME NEW k \in 1..queued
        PROVE  all[k] = k
    <2>1. CASE k <= f
      <3>1. k \in 1..f
        BY <1>1, <2>1
      <3>2. QED
        BY <1>2, <1>6, <3>1
    <2>2. CASE f < k
      <3> DEFINE j == k - f
      <3>1. j \in 1..w /\ f + j = k
        BY <1>1, <1>4, <2>2
      <3> HIDE DEF j
      <3>2. all[f + j] = held[j] /\ held[j] = f + j
        BY <1>3, <1>6, <3>1
      <3>3. QED
        BY <3>1, <3>2
    <2>3. k <= f \/ f < k
      BY <1>1
    <2>4. QED
      BY <2>1, <2>2, <2>3
  <1>8. want \in Seq(Nat) /\ Len(want) = queued /\ \A k \in 1..queued : want[k] = k
    BY <1>1
  <1> HIDE DEF want
  <1>9. Len(all) = queued
    BY <1>1, <1>6
  <1>10. all = want
    <2>1. Len(all) = Len(want) /\ \A k \in 1..Len(all) : all[k] = want[k]
      BY <1>7, <1>8, <1>9
    <2>2. QED
      BY <1>5, <1>8, <2>1, SeqEqual
  <1>11. QED
    BY <1>10 DEF all, held, want

\* The list of rings is never empty, its counts, push and pop agree, and
\* writeSize_ is what it holds, whatever writev takes (TcpConnection.cpp:281,
\* 415-435).
THEOREM WriteCountsAlwaysAgree ==
    ASSUME WriteAssumption
    PROVE  W!Spec => []W!CountsAgree
  BY WriteInvariant, WInvCounts, PTL

\* The list loses, doubles and moves no byte that send could not write at
\* once, until onWrite goes on with an empty head (TcpConnection.cpp:233-283,
\* 420-433).
THEOREM QueueAlwaysIntact ==
    ASSUME WriteAssumption
    PROVE  W!Spec => []W!QueueIntact
  BY WriteInvariant, WInvQueue, PTL
=============================================================================
