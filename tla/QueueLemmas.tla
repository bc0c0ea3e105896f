----------------------------- MODULE QueueLemmas -----------------------------
(***************************************************************************)
(* Facts about queues kept as sequences, for the proofs about the functor  *)
(* queue of EventLoop, the calls of TcpServer and TcpClient and the        *)
(* buffers of AsyncLogger and TcpConnection: what is appended to the last  *)
(* part, or moved from one part to the next, leaves the concatenation of   *)
(* the parts as it should be.  Behind them is induction over the numbers,  *)
(* with a set for the predicate, and what it says of the recursive         *)
(* functions that add up lengths and put parts one behind the other.       *)
(***************************************************************************)
EXTENDS Integers, Sequences, FiniteSets, SequenceTheorems, FunctionTheorems, FiniteSetTheorems,
        WellFoundedInduction, TLAPS

Lists == INSTANCE SequencesExt

\* Appending to the last of two queues appends to their concatenation.
LEMMA ConcatAppend ==
    ASSUME NEW S, NEW s \in Seq(S), NEW t \in Seq(S), NEW e \in S
    PROVE  s \o Append(t, e) = Append(s \o t, e)
  <1>1. Append(t, e) = t \o <<e>>
    BY AppendIsConcat
  <1>2. s \o (t \o <<e>>) = (s \o t) \o <<e>>
    BY ConcatAssociative
  <1>3. s \o t \in Seq(S)
    BY ConcatProperties
  <1>4. QED
    BY <1>1, <1>2, <1>3, AppendIsConcat

\* Concatenation is associative, as a predicate to be cited whole.
Associates(s, t, u) == (s \o t) \o u = s \o (t \o u)

LEMMA ConcatAssociates ==
    ASSUME NEW S, NEW s \in Seq(S), NEW t \in Seq(S), NEW u \in Seq(S)
    PROVE  Associates(s, t, u)
  BY ConcatAssociative, SMTT(30) DEF Associates

\* The second of four parts, put with those behind it or with the one in front.
Regrouped(x, e, t, c) == (x \o e) \o (t \o c) = x \o ((e \o t) \o c)

LEMMA FourParts ==
    ASSUME NEW S, NEW x \in Seq(S), NEW e \in Seq(S), NEW t \in Seq(S), NEW c \in Seq(S)
    PROVE  Regrouped(x, e, t, c)
  <1>1. Associates(e, t, c)
    BY ConcatAssociates
  <1>2. t \o c \in Seq(S)
    BY ConcatProperties
  <1>3. Associates(x, e, t \o c)
    BY <1>2, ConcatAssociates
  <1>4. QED
    BY <1>1, <1>3, Zenon DEF Associates, Regrouped

\* A queue is its head followed by its tail.
LEMMA HeadThenTail ==
    ASSUME NEW S, NEW t \in Seq(S), t # <<>>
    PROVE  t = <<Head(t)>> \o Tail(t)
  <1>1. Len(t) \in Nat \ {0}
    BY EmptySeq
  <1>2. SubSeq(t, 1, Len(t)) = <<t[1]>> \o SubSeq(t, 1 + 1, Len(t))
    BY <1>1, SubSeqRecursiveFirst
  <1>3. SubSeq(t, 1, Len(t)) = t
    BY SubSeqFull
  <1>4. Tail(t) = SubSeq(t, 2, Len(t))
    BY TailIsSubSeq
  <1>5. Head(t) = t[1]
    BY <1>1
  <1>6. QED
    BY <1>2, <1>3, <1>4, <1>5

\* Moving the head of the second queue to the end of the first changes nothing.
LEMMA MoveHead ==
    ASSUME NEW S, NEW s \in Seq(S), NEW t \in Seq(S), t # <<>>
    PROVE  Append(s, Head(t)) \o Tail(t) = s \o t
  <1>1. Head(t) \in S /\ Tail(t) \in Seq(S)
    BY HeadTailProperties
  <1>2. Append(s, Head(t)) = s \o <<Head(t)>>
    BY <1>1, AppendIsConcat
  <1>3. (s \o <<Head(t)>>) \o Tail(t) = s \o (<<Head(t)>> \o Tail(t))
    BY <1>1, ConcatAssociative
  <1>4. QED
    BY <1>2, <1>3, HeadThenTail

\* Appending the next number to 1, 2, ..., n.
LEMMA AppendNumber ==
    ASSUME NEW n \in Nat
    PROVE  Append([i \in 1..n |-> i], n + 1) = [i \in 1..(n + 1) |-> i]
  OBVIOUS

\* How often x is in a queue.
Places(q, x) == {i \in 1..Len(q) : q[i] = x}
Times(q, x)  == Cardinality(Places(q, x))

\* A queue is finite, and x is in it if it is there more than no time.
LEMMA TimesCounts ==
    ASSUME NEW S, NEW q \in Seq(S), NEW x
    PROVE  /\ IsFiniteSet(Places(q, x)) /\ Times(q, x) \in Nat
           /\ Times(q, x) = 0 <=> \A i \in 1..Len(q) : q[i] # x
  <1>1. IsFiniteSet(Places(q, x))
    <2>1. Len(q) \in Nat /\ Places(q, x) \subseteq 1..Len(q)
      BY DEF Places
    <2>2. IsFiniteSet(1..Len(q))
      BY <2>1, FS_Interval
    <2>3. QED
      BY <2>1, <2>2, FS_Subset
  <1>2. Times(q, x) \in Nat
    BY <1>1, FS_CardinalityType DEF Times
  <1>3. Times(q, x) = 0 <=> Places(q, x) = {}
    BY <1>1, FS_EmptySet DEF Times
  <1>4. QED
    BY <1>1, <1>2, <1>3 DEF Places

\* Appending y adds one time to y's, and none to any other's.
LEMMA TimesAppend ==
    ASSUME NEW S, NEW q \in Seq(S), NEW y \in S, NEW x
    PROVE  Times(Append(q, y), x) = Times(q, x) + IF x = y THEN 1 ELSE 0
  <1> DEFINE n == Len(q) + 1
             p == Append(q, y)
  <1>1. /\ Len(q) \in Nat /\ Len(p) = n /\ p[n] = y
        /\ \A i \in 1..Len(q) : p[i] = q[i]
    BY AppendProperties
  <1>2. IsFiniteSet(Places(q, x)) /\ Times(q, x) \in Nat
    BY TimesCounts
  <1>3. n \notin Places(q, x)
    BY <1>1 DEF Places
  <1>4. CASE x = y
    <2>1. Places(p, x) = Places(q, x) \cup {n}
      <3>1. 1..Len(p) = (1..Len(q)) \cup {n}
        BY <1>1
      <3> HIDE DEF p, n
      <3>2. QED
        BY <3>1, <1>1, <1>4 DEF Places
    <2> HIDE DEF p, n
    <2>2. Cardinality(Places(p, x)) = Cardinality(Places(q, x)) + 1
      BY <2>1, <1>2, <1>3, FS_AddElement
    <2>3. QED
      BY <2>2, <1>4 DEF Times, p
  <1>5. CASE x # y
    <2>1. Places(p, x) = Places(q, x)
      <3>1. 1..Len(p) = (1..Len(q)) \cup {n}
        BY <1>1
      <3> HIDE DEF p, n
      <3>2. QED
        BY <3>1, <1>1, <1>5 DEF Places
    <2>2. QED
      BY <2>1, <1>2, <1>5 DEF Times
  <1>6. QED
    BY <1>4, <1>5

\* Taking the head takes one time from its, and none from any other's.
LEMMA TimesTail ==
    ASSUME NEW S, NEW q \in Seq(S), q # <<>>, NEW x
    PROVE  Times(q, x) = Times(Tail(q), x) + IF x = Head(q) THEN 1 ELSE 0
  <1> DEFINE t == Tail(q)
             f == [i \in Places(t, x) |-> i + 1]
             R == Places(q, x) \ {1}
  <1>1. /\ t \in Seq(S) /\ Len(q) \in Nat \ {0} /\ Len(t) = Len(q) - 1
        /\ Head(q) = q[1]
        /\ \A i \in 1..Len(t) : t[i] = q[i + 1]
    BY HeadTailProperties, EmptySeq
  <1>2. IsFiniteSet(Places(t, x)) /\ IsFiniteSet(Places(q, x)) /\ Times(t, x) \in Nat
    BY <1>1, TimesCounts
  <1>3. Cardinality(R) = Times(t, x)
    <2> HIDE DEF t
    <2>1. f \in Injection(Places(t, x), R)
      <3>1. ASSUME NEW i \in Places(t, x)
            PROVE  i \in Nat /\ i + 1 \in R
        BY <1>1 DEF Places
      <3>2. f \in [Places(t, x) -> R]
        BY <3>1
      <3>3. ASSUME NEW i \in Places(t, x), NEW j \in Places(t, x), f[i] = f[j]
            PROVE  i = j
        BY <3>1, <3>3
      <3>4. QED
        BY <3>2, <3>3 DEF Injection, IsInjective
    <2>2. f \in Surjection(Places(t, x), R)
      <3>1. ASSUME NEW j \in R
            PROVE  \E i \in Places(t, x) : f[i] = j
        <4>1. j - 1 \in Places(t, x) /\ f[j - 1] = j
          BY <1>1 DEF Places
        <4>2. QED
          BY <4>1
      <3>2. f \in [Places(t, x) -> R]
        BY <2>1 DEF Injection
      <3>3. QED
        BY <3>1, <3>2 DEF Surjection
    <2> HIDE DEF f, R
    <2>3. ExistsBijection(Places(t, x), R)
      BY <2>1, <2>2 DEF ExistsBijection, Bijection
    <2>4. QED
      BY <2>3, <1>2, FS_Bijection DEF Times
  <1>4. Times(q, x) \in Nat
    BY TimesCounts
  <1>5. Cardinality(R) = IF 1 \in Places(q, x) THEN Times(q, x) - 1 ELSE Times(q, x)
    BY <1>2, FS_RemoveElement DEF Times
  <1>6. 1 \in Places(q, x) <=> x = Head(q)
    BY <1>1 DEF Places
  <1> HIDE DEF R, t
  <1>7. QED
    BY <1>2, <1>3, <1>4, <1>5, <1>6 DEF t

-----------------------------------------------------------------------------
(* Numbers, and what a recursive function over them computes.              *)

\* A set of numbers that is not empty has a least one.
LEMMA LeastNumber ==
    ASSUME NEW T, T \subseteq Nat, T # {}
    PROVE  \E x \in T : \A y \in T : x <= y
  <1> DEFINE R == OpToRel(<, Nat)
  <1>1. IsWellFoundedOn(R, Nat)
    BY NatLessThanWellFounded
  <1>2. \A x, y \in Nat : x < y => <<x, y>> \in R
    BY DEF OpToRel
  <1> HIDE DEF R
  <1>3. PICK x \in T : \A y \in T : ~ (<<y, x>> \in R)
    BY <1>1, WFMin
  <1>4. ASSUME NEW y \in T
        PROVE  x <= y
    <2>1. x \in Nat /\ y \in Nat /\ ~(<<y, x>> \in R)
      BY <1>3
    <2>2. ~(y < x)
      BY <2>1, <1>2
    <2>3. QED
      BY <2>1, <2>2
  <1>5. QED
    BY <1>4

\* Induction up to n: a set that has 0, and with each number the next, has them all.
LEMMA InductionUpTo ==
    ASSUME NEW n \in Nat, NEW T, 0 \in T,
           \A i \in 0..(n - 1) : i \in T => i + 1 \in T
    PROVE  0..n \subseteq T
  <1> DEFINE Missing == {i \in 0..n : i \notin T}
  <1>1. SUFFICES ASSUME Missing # {}
                 PROVE  FALSE
    OBVIOUS
  <1>2. Missing \subseteq Nat
    OBVIOUS
  <1> HIDE DEF Missing
  <1>3. PICK x \in Missing : \A y \in Missing : x <= y
    BY <1>1, <1>2, LeastNumber
  <1>4. x \in 1..n /\ x \notin T
    BY DEF Missing
  <1>5. x - 1 \in 0..(n - 1) /\ x - 1 \notin Missing
    BY <1>3, <1>4, <1>2
  <1>6. x - 1 \in T
    BY <1>5, <1>4 DEF Missing
  <1>7. QED
    BY <1>4, <1>5, <1>6


\* u[i] is what the first i of the n numbers c add up to.
Sums(u, n, c) ==
    /\ u \in [0..n -> Nat]
    /\ u[0] = 0
    /\ \A i \in 1..n : u[i] = u[i - 1] + c[i]

\* What a recursive function that adds up numbers computes.
LEMMA SumsExist ==
    ASSUME NEW n \in Nat, NEW c, \A i \in 1..n : c[i] \in Nat
    PROVE  \E f \in [0..n -> Nat] : f = [i \in 0..n |-> IF i = 0 THEN 0 ELSE f[i - 1] + c[i]]
  <1> DEFINE P(f, m) == f = [i \in 0..m |-> IF i = 0 THEN 0 ELSE f[i - 1] + c[i]]
             T == {m \in 0..n : \E f \in [0..m -> Nat] : P(f, m)}
  <1>1. 0 \in T
    <2> DEFINE z == [i \in 0..0 |-> 0]
    <2>1. 0 \in 0..n /\ z \in [0..0 -> Nat] /\ P(z, 0)
      OBVIOUS
    <2> HIDE DEF z, P
    <2>2. QED
      BY <2>1
  <1>2. ASSUME NEW m \in 0..(n - 1), m \in T
        PROVE  m + 1 \in T
    <2>1. PICK f \in [0..m -> Nat] : P(f, m)
      BY <1>2
    <2> DEFINE g == [i \in 0..(m + 1) |-> IF i = m + 1 THEN f[m] + c[m + 1] ELSE f[i]]
    <2>2. m + 1 \in 0..n /\ g \in [0..(m + 1) -> Nat]
      OBVIOUS
    <2>3. \A i \in 0..(m + 1) : g[i] = IF i = 0 THEN 0 ELSE g[i - 1] + c[i]
      BY <2>1
    <2>4. P(g, m + 1)
      BY <2>2, <2>3
    <2> HIDE DEF g, P
    <2>5. QED
      BY <2>2, <2>4
  <1> HIDE DEF T, P
  <1>3. 0..n \subseteq T
    BY <1>1, <1>2, InductionUpTo
  <1>4. n \in T
    BY <1>3
  <1>5. QED
    BY <1>4 DEF T, P

\* The sums grow.
LEMMA SumsGrow ==
    ASSUME NEW n \in Nat, NEW c, \A i \in 1..n : c[i] \in Nat, NEW u, Sums(u, n, c),
           NEW j \in 0..n
    PROVE  \A i \in 0..j : u[i] <= u[j]
  <1> DEFINE T == {m \in 0..n : \A i \in 0..m : u[i] <= u[m]}
  <1>1. 0 \in T
    BY DEF Sums
  <1>2. ASSUME NEW m \in 0..(n - 1), m \in T
        PROVE  m + 1 \in T
    <2>1. m + 1 \in 1..n /\ u[m + 1] = u[m] + c[m + 1] /\ c[m + 1] \in Nat
      BY DEF Sums
    <2>2. ASSUME NEW i \in 0..(m + 1)
          PROVE  u[i] <= u[m + 1]
      <3>1. u[i] \in Nat /\ u[m] \in Nat
        BY DEF Sums
      <3>2. i = m + 1 \/ u[i] <= u[m]
        BY <1>2
      <3>3. QED
        BY <2>1, <3>1, <3>2
    <2>3. QED
      BY <2>1, <2>2
  <1> HIDE DEF T
  <1>3. 0..n \subseteq T
    BY <1>1, <1>2, InductionUpTo
  <1>4. QED
    BY <1>3 DEF T

\* Each number up to the last sum lies behind one sum and not behind the next.
LEMMA SumsFind ==
    ASSUME NEW n \in Nat, NEW c, \A i \in 1..n : c[i] \in Nat, NEW u, Sums(u, n, c),
           NEW k \in Nat \ {0}, k <= u[n]
    PROVE  \E i \in 1..n : u[i - 1] < k /\ k <= u[i]
  <1> DEFINE T == {m \in 0..n : u[m] < k}
  <1>1. 0 \in T
    BY DEF Sums
  <1>2. SUFFICES ASSUME \A i \in 1..n : ~(u[i - 1] < k /\ k <= u[i])
                 PROVE  FALSE
    OBVIOUS
  <1>3. ASSUME NEW m \in 0..(n - 1), m \in T
        PROVE  m + 1 \in T
    <2>1. m + 1 \in 1..n /\ u[m + 1] \in Nat
      BY DEF Sums
    <2>2. u[(m + 1) - 1] < k
      BY <1>3
    <2>3. u[m + 1] < k
      BY <1>2, <2>1, <2>2
    <2>4. QED
      BY <2>1, <2>3
  <1> HIDE DEF T
  <1>4. 0..n \subseteq T
    BY <1>1, <1>3, InductionUpTo
  <1>5. u[n] < k /\ u[n] \in Nat
    BY <1>4 DEF T, Sums
  <1>6. QED
    BY <1>5

\* The l numbers behind a and behind b are the same, and the sums there go the
\* same way.
Alike(c, a, d, b, l) == \A i \in 1..l : c[a + i] \in Nat /\ c[a + i] = d[b + i]
Parallel(u, a, v, b, l) == \A i \in 0..l : u[a + i] - u[a] = v[b + i] - v[b]

\* The sums over stretches that are the same.
LEMMA SumsShift ==
    ASSUME NEW n \in Nat, NEW c, NEW u, Sums(u, n, c),
           NEW m \in Nat, NEW d, NEW v, Sums(v, m, d),
           NEW a \in Nat, NEW b \in Nat, NEW l \in Nat, a + l <= n, b + l <= m,
           Alike(c, a, d, b, l)
    PROVE  Parallel(u, a, v, b, l)
  <1> DEFINE T == {i \in 0..l : u[a + i] - u[a] = v[b + i] - v[b]}
  <1>1. u[a] \in Nat /\ v[b] \in Nat
    BY DEF Sums
  <1>2. 0 \in T
    BY <1>1
  <1>3. ASSUME NEW i \in 0..(l - 1), i \in T
        PROVE  i + 1 \in T
    <2>1. /\ a + (i + 1) \in 1..n /\ b + (i + 1) \in 1..m /\ i + 1 \in 1..l
          /\ (a + (i + 1)) - 1 = a + i /\ (b + (i + 1)) - 1 = b + i
      OBVIOUS
    <2>2. u[a + (i + 1)] = u[a + i] + c[a + (i + 1)] /\ v[b + (i + 1)] = v[b + i] + d[b + (i + 1)]
      BY <2>1 DEF Sums
    <2>3. u[a + i] \in Nat /\ v[b + i] \in Nat
      <3>1. a + i \in 0..n
        OBVIOUS
      <3>2. b + i \in 0..m
        OBVIOUS
      <3>3. u[a + i] \in Nat
        BY <3>1 DEF Sums
      <3>4. v[b + i] \in Nat
        BY <3>2 DEF Sums
      <3>5. QED
        BY <3>3, <3>4
    <2>4. c[a + (i + 1)] \in Nat /\ c[a + (i + 1)] = d[b + (i + 1)]
      BY <2>1 DEF Alike
    <2>5. u[a + i] - u[a] = v[b + i] - v[b]
      BY <1>3
    <2>6. u[a + (i + 1)] - u[a] = v[b + (i + 1)] - v[b]
      BY <1>1, <2>2, <2>3, <2>4, <2>5
    <2>7. QED
      BY <2>1, <2>6
  <1> HIDE DEF T
  <1>4. 0..l \subseteq T
    BY <1>2, <1>3, InductionUpTo
  <1>5. QED
    BY <1>4 DEF T, Parallel


\* What FlattenSeq's recursive function is to be.
Flattens(f, m, ss) == f = [i \in 1..m |-> IF i = 1 THEN ss[i] ELSE f[i - 1] \o ss[i]]

\* There is one.
LEMMA FlattenExists ==
    ASSUME NEW S, NEW ss \in Seq(Seq(S)), ss # <<>>
    PROVE  \E f \in [1..Len(ss) -> Seq(S)] : Flattens(f, Len(ss), ss)
  <1> DEFINE n == Len(ss)
             T == {m \in 0..n : m = 0 \/ \E f \in [1..m -> Seq(S)] : Flattens(f, m, ss)}
  <1>1. n \in Nat \ {0} /\ \A i \in 1..n : ss[i] \in Seq(S)
    BY EmptySeq
  <1>2. 0 \in T
    BY <1>1
  <1>3. ASSUME NEW m \in 0..(n - 1), m \in T
        PROVE  m + 1 \in T
    <2>1. m + 1 \in 0..n /\ m + 1 \in 1..n /\ ss[m + 1] \in Seq(S)
      BY <1>1
    <2>2. CASE m = 0
      <3> DEFINE g == [i \in 1..1 |-> ss[i]]
      <3>1. g \in [1..1 -> Seq(S)]
        BY <1>1
      <3>2. Flattens(g, 1, ss)
        BY <1>1 DEF Flattens
      <3> HIDE DEF g
      <3>3. QED
        BY <2>1, <2>2, <3>1, <3>2
    <2>3. CASE m # 0
      <3>1. PICK f \in [1..m -> Seq(S)] : Flattens(f, m, ss)
        BY <1>3, <2>3
      <3> DEFINE g == [i \in 1..(m + 1) |-> IF i = m + 1 THEN f[m] \o ss[m + 1] ELSE f[i]]
      <3>2. f[m] \in Seq(S)
        BY <2>3
      <3>3. f[m] \o ss[m + 1] \in Seq(S)
        BY <2>1, <3>2, ConcatProperties
      <3>4. g \in [1..(m + 1) -> Seq(S)]
        BY <3>3
      <3>5. ASSUME NEW i \in 1..(m + 1)
            PROVE  g[i] = IF i = 1 THEN ss[i] ELSE g[i - 1] \o ss[i]
        <4>1. ASSUME NEW j \in 1..m
              PROVE  g[j] = f[j]
          <5>1. j \in 1..(m + 1) /\ j # m + 1
            BY <1>1
          <5>2. QED
            BY <5>1
        <4>2. CASE i = m + 1
          <5>1. i # 1 /\ m \in 1..m /\ i - 1 = m
            BY <2>3, <4>2
          <5>2. g[i] = f[m] \o ss[i] /\ g[i - 1] = f[m]
            BY <4>1, <4>2, <5>1
          <5>3. QED
            BY <5>1, <5>2
        <4>3. CASE i \in 1..m
          <5>1. f[i] = IF i = 1 THEN ss[i] ELSE f[i - 1] \o ss[i]
            BY <3>1, <4>3 DEF Flattens
          <5>2. i # 1 => i - 1 \in 1..m
            BY <4>3
          <5> HIDE DEF g
          <5>3. QED
            BY <4>1, <4>3, <5>1, <5>2
        <4>4. QED
          BY <4>2, <4>3
      <3>6. Flattens(g, m + 1, ss)
        BY <3>5 DEF Flattens
      <3> HIDE DEF g
      <3>7. QED
        BY <2>1, <3>4, <3>6
    <2>4. QED
      BY <2>2, <2>3
  <1> HIDE DEF T
  <1>4. 0..n \subseteq T
    BY <1>1, <1>2, <1>3, InductionUpTo
  <1>5. n \in 0..n
    BY <1>1
  <1>6. n \in T
    BY <1>4, <1>5
  <1>7. QED
    BY <1>1, <1>6 DEF T

\* Where the elements of two parts are in their concatenation.
LEMMA ConcatPlaces ==
    ASSUME NEW S, NEW s \in Seq(S), NEW t \in Seq(S)
    PROVE  /\ s \o t \in Seq(S)
           /\ Len(s \o t) = Len(s) + Len(t)
           /\ \A k \in 1..Len(s) : (s \o t)[k] = s[k]
           /\ \A k \in 1..Len(t) : (s \o t)[Len(s) + k] = t[k]
  OBVIOUS

\* The same, of a sequence r that is to be their concatenation.
Behind(r, s, t) ==
    /\ Len(r) = Len(s) + Len(t)
    /\ \A k \in 1..Len(s) : r[k] = s[k]
    /\ \A k \in 1..Len(t) : r[Len(s) + k] = t[k]

LEMMA ConcatBehind ==
    ASSUME NEW S, NEW s \in Seq(S), NEW t \in Seq(S)
    PROVE  s \o t \in Seq(S) /\ Behind(s \o t, s, t)
  BY DEF Behind

\* The first m parts of ss, put one behind the other, are the sequence s.
Joins(s, m, ss, u) ==
    /\ Len(s) = u[m]
    /\ \A i \in 1..m : \A k \in 1..Len(ss[i]) : s[u[i - 1] + k] = ss[i][k]

\* One part more.
LEMMA JoinsOneMore ==
    ASSUME NEW S, NEW n \in Nat, NEW ss, \A i \in 1..n : ss[i] \in Seq(S),
           NEW c, NEW u, \A i \in 1..n : c[i] = Len(ss[i]), Sums(u, n, c),
           NEW m \in 1..n, NEW s \in Seq(S), Joins(s, m - 1, ss, u)
    PROVE  Joins(s \o ss[m], m, ss, u)
  <1> DEFINE t == ss[m]
  <1>1. t \in Seq(S) /\ \A i \in 1..n : c[i] \in Nat
    OBVIOUS
  <1>2. /\ m - 1 \in 0..n /\ u[m - 1] \in Nat /\ Len(s) = u[m - 1]
        /\ u[m] = u[m - 1] + Len(t) /\ Len(t) \in Nat
    BY DEF Sums, Joins
  <1> HIDE DEF t
  <1>3. /\ Len(s \o t) = Len(s) + Len(t)
        /\ \A k \in 1..Len(s) : (s \o t)[k] = s[k]
        /\ \A k \in 1..Len(t) : (s \o t)[Len(s) + k] = t[k]
    BY <1>1, ConcatPlaces
  <1>4. ASSUME NEW i \in 1..(m - 1), NEW k \in 1..Len(ss[i])
        PROVE  (s \o t)[u[i - 1] + k] = ss[i][k]
    <2>1. i \in 1..n /\ i \in 0..(m - 1) /\ ss[i] \in Seq(S)
      OBVIOUS
    <2>2. Len(ss[i]) \in Nat /\ u[i - 1] \in Nat /\ u[i] = u[i - 1] + Len(ss[i])
      <3>1. Len(ss[i]) \in Nat /\ c[i] = Len(ss[i])
        BY <2>1
      <3>2. i - 1 \in 0..n
        OBVIOUS
      <3>3. u[i - 1] \in Nat
        BY <3>2 DEF Sums
      <3>4. u[i] = u[i - 1] + c[i]
        BY <2>1 DEF Sums
      <3>5. QED
        BY <3>1, <3>3, <3>4
    <2>3. u[i] <= u[m - 1]
      BY <1>1, <1>2, <2>1, SumsGrow
    <2> DEFINE a == u[i - 1]
               b == u[m - 1]
               l == Len(ss[i])
    <2>4. a \in Nat /\ b \in Nat /\ l \in Nat /\ k \in 1..l /\ a + l <= b /\ Len(s) = b
      BY <1>2, <2>2, <2>3
    <2>5. s[a + k] = ss[i][k]
      BY DEF Joins
    <2> HIDE DEF a, b, l
    <2>6. a + k \in 1..Len(s)
      BY <2>4
    <2>7. (s \o t)[a + k] = ss[i][k]
      <3>1. (s \o t)[a + k] = s[a + k]
        BY <1>3, <2>6
      <3>2. QED
        BY <2>5, <3>1
    <2>8. QED
      BY <2>7 DEF a
  <1>5. \A i \in 1..m : i \in 1..(m - 1) \/ i = m
    OBVIOUS
  <1>6. Len(s \o t) = u[m]
    BY <1>2, <1>3
  <1>7. ASSUME NEW k \in 1..Len(t)
        PROVE  (s \o t)[u[m - 1] + k] = t[k]
    BY <1>2, <1>3
  <1>8. ASSUME NEW i \in 1..m
        PROVE  \A k \in 1..Len(ss[i]) : (s \o t)[u[i - 1] + k] = ss[i][k]
    <2>1. CASE i \in 1..(m - 1)
      BY <1>4, <2>1
    <2>2. CASE i = m
      BY <1>7, <2>2 DEF t
    <2>3. QED
      BY <1>5, <2>1, <2>2
  <1>9. Joins(s \o t, m, ss, u)
    BY <1>6, <1>8 DEF Joins
  <1>10. QED
    BY <1>9 DEF t

\* FlattenSeq puts each part where the lengths of those before it say.
LEMMA FlattenPlaces ==
    ASSUME NEW S, NEW ss \in Seq(Seq(S)), NEW c, NEW u,
           \A i \in 1..Len(ss) : c[i] = Len(ss[i]),
           Sums(u, Len(ss), c)
    PROVE  /\ Lists!FlattenSeq(ss) \in Seq(S)
           /\ Joins(Lists!FlattenSeq(ss), Len(ss), ss, u)
  <1> DEFINE n == Len(ss)
  <1>1. CASE ss = <<>>
    BY <1>1 DEF Lists!FlattenSeq, Sums, Joins
  <1>2. CASE ss # <<>>
    <2>1. n \in Nat \ {0} /\ \A i \in 1..n : ss[i] \in Seq(S)
      BY <1>2, EmptySeq
    <2>2. \E f : Flattens(f, n, ss)
      BY <1>2, FlattenExists
    <2> DEFINE g == CHOOSE h : Flattens(h, n, ss)
    <2>3. Lists!FlattenSeq(ss) = g[n]
      BY <1>2, <2>1 DEF Lists!FlattenSeq, Flattens
    <2>4. Flattens(g, n, ss)
      BY <2>2
    <2> HIDE DEF g
    <2>5. \A i \in 1..n : g[i] = IF i = 1 THEN ss[i] ELSE g[i - 1] \o ss[i]
      BY <2>4 DEF Flattens
    <2>6. /\ n \in Nat /\ \A i \in 1..n : c[i] = Len(ss[i])
          /\ Sums(u, n, c)
      BY <2>1
    <2> HIDE DEF n
    <2> DEFINE T == {m \in 0..n : m = 0 \/ (g[m] \in Seq(S) /\ Joins(g[m], m, ss, u))}
    <2>7. 0 \in T
      BY <2>1
    <2>8. ASSUME NEW m \in 0..(n - 1), m \in T
          PROVE  m + 1 \in T
      <3> DEFINE k == m + 1
      <3>1. k \in 1..n /\ k \in 0..n /\ k - 1 = m /\ ss[k] \in Seq(S)
        BY <2>1
      <3>2. CASE m = 0
        <4>1. Joins(<<>>, 0, ss, u) /\ <<>> \in Seq(S)
          BY <2>6 DEF Joins, Sums
        <4>2. Joins(<<>> \o ss[k], k, ss, u)
          BY <2>1, <2>6, <3>1, <3>2, <4>1, JoinsOneMore
        <4>3. <<>> \o ss[k] = ss[k] /\ g[k] = ss[k]
          BY <2>5, <3>1, <3>2, ConcatEmptySeq
        <4>4. QED
          BY <3>1, <4>2, <4>3
      <3>3. CASE m # 0
        <4>1. g[m] \in Seq(S) /\ Joins(g[m], m, ss, u)
          BY <2>8, <3>3
        <4>2. k # 1 /\ g[k] = g[m] \o ss[k]
          <5>1. k # 1
            BY <3>3
          <5>2. g[k] = g[k - 1] \o ss[k]
            BY <2>5, <3>1, <5>1
          <5>3. QED
            BY <3>1, <5>1, <5>2
        <4> HIDE DEF k
        <4>3. Joins(g[m] \o ss[k], k, ss, u)
          BY <2>1, <2>6, <3>1, <4>1, JoinsOneMore
        <4>4. g[k] \in Seq(S)
          BY <3>1, <4>1, <4>2, ConcatProperties
        <4>5. QED
          BY <3>1, <4>2, <4>3, <4>4 DEF k
      <3>4. QED
        BY <3>2, <3>3
    <2> HIDE DEF T
    <2>9. 0..n \subseteq T
      BY <2>1, <2>7, <2>8, InductionUpTo
    <2>10. g[n] \in Seq(S) /\ Joins(g[n], n, ss, u)
      BY <2>1, <2>9 DEF T
    <2>11. QED
      BY <2>3, <2>10 DEF n
  <1>3. QED
    BY <1>1, <1>2

\* There are running sums.
LEMMA SumsOf ==
    ASSUME NEW n \in Nat, NEW c, \A i \in 1..n : c[i] \in Nat
    PROVE  \E u : Sums(u, n, c)
  <1>1. PICK f \in [0..n -> Nat] : f = [i \in 0..n |-> IF i = 0 THEN 0 ELSE f[i - 1] + c[i]]
    BY SumsExist
  <1>2. f[0] = 0 /\ \A i \in 1..n : f[i] = f[i - 1] + c[i]
    <2>1. \A i \in 0..n : f[i] = IF i = 0 THEN 0 ELSE f[i - 1] + c[i]
      BY <1>1
    <2>2. QED
      BY <2>1
  <1>3. QED
    BY <1>1, <1>2 DEF Sums

\* Two sequences that have the same parts in the same places are the same.
LEMMA JoinsUnique ==
    ASSUME NEW S, NEW ss \in Seq(Seq(S)), NEW c, NEW u,
           \A i \in 1..Len(ss) : c[i] = Len(ss[i]), Sums(u, Len(ss), c),
           NEW s \in Seq(S), Joins(s, Len(ss), ss, u),
           NEW t \in Seq(S), Joins(t, Len(ss), ss, u)
    PROVE  s = t
  <1> DEFINE n == Len(ss)
  <1>1. n \in Nat /\ \A i \in 1..n : ss[i] \in Seq(S) /\ Len(ss[i]) \in Nat /\ c[i] = Len(ss[i])
    OBVIOUS
  <1>2. Len(s) = u[n] /\ Len(t) = u[n] /\ u[n] \in Nat
    BY <1>1 DEF Joins, Sums
  <1>3. ASSUME NEW k \in 1..Len(s)
        PROVE  s[k] = t[k]
    <2>1. k \in Nat \ {0} /\ k <= u[n]
      BY <1>2
    <2>2. \A i \in 1..n : c[i] \in Nat
      BY <1>1
    <2> HIDE DEF n
    <2>3. PICK i \in 1..n : u[i - 1] < k /\ k <= u[i]
      BY <1>1, <2>1, <2>2, SumsFind DEF n
    <2> DEFINE a == u[i - 1]
               j == k - a
    <2>4. a \in Nat /\ u[i] = a + Len(ss[i]) /\ Len(ss[i]) \in Nat
      <3>1. Sums(u, n, c) /\ c[i] = Len(ss[i]) /\ Len(ss[i]) \in Nat
        BY <1>1 DEF n
      <3>2. i - 1 \in 0..n
        BY <1>1
      <3>3. u[i - 1] \in Nat
        BY <3>1, <3>2 DEF Sums
      <3>4. u[i] = u[i - 1] + c[i]
        BY <3>1 DEF Sums
      <3>5. QED
        BY <3>1, <3>3, <3>4
    <2>5. j \in 1..Len(ss[i]) /\ a + j = k
      <3> DEFINE l == Len(ss[i])
      <3>1. k \in Nat /\ a \in Nat /\ l \in Nat /\ a < k /\ k <= a + l
        BY <2>1, <2>3, <2>4
      <3> HIDE DEF a, l
      <3>2. j \in 1..l /\ a + j = k
        BY <3>1
      <3>3. QED
        BY <3>2 DEF l
    <2>6. s[a + j] = ss[i][j] /\ t[a + j] = ss[i][j]
      <3> HIDE DEF j
      <3>1. QED
        BY <2>5 DEF Joins, n
    <2> HIDE DEF a, j
    <2>7. QED
      BY <2>5, <2>6
  <1>4. QED
    BY <1>2, <1>3, SeqEqual

\* FlattenSeq of no part, of one part more, and of one part in front.
LEMMA FlattenNone == Lists!FlattenSeq(<<>>) = <<>>
  BY DEF Lists!FlattenSeq

LEMMA FlattenAppend ==
    ASSUME NEW S, NEW ss \in Seq(Seq(S)), NEW s \in Seq(S)
    PROVE  /\ Lists!FlattenSeq(ss) \in Seq(S)
           /\ Lists!FlattenSeq(Append(ss, s)) = Lists!FlattenSeq(ss) \o s
  <1> DEFINE n == Len(ss)
             tt == Append(ss, s)
             c == [i \in 1..(n + 1) |-> Len(tt[i])]
  <1>1. /\ n \in Nat /\ tt \in Seq(Seq(S)) /\ Len(tt) = n + 1 /\ tt[n + 1] = s
        /\ \A i \in 1..n : tt[i] = ss[i]
    BY AppendProperties
  <1> HIDE DEF tt
  <1>2. \A i \in 1..(n + 1) : c[i] = Len(tt[i]) /\ c[i] \in Nat /\ tt[i] \in Seq(S)
    BY <1>1
  <1> HIDE DEF c, n
  <1>3. PICK u : Sums(u, n + 1, c)
    <2>1. n + 1 \in Nat
      BY <1>1
    <2>2. QED
      BY <1>2, <2>1, SumsOf
  <1> DEFINE v == [i \in 0..n |-> u[i]]
             f == Lists!FlattenSeq(ss)
  <1>4. Sums(v, n, c) /\ \A i \in 0..n : v[i] = u[i]
    <2>1. u \in [0..(n + 1) -> Nat] /\ 0..n \subseteq 0..(n + 1) /\ 1..n \subseteq 1..(n + 1)
      BY <1>1, <1>3 DEF Sums
    <2>2. v \in [0..n -> Nat]
      BY <2>1
    <2>3. \A i \in 1..n : i - 1 \in 0..n /\ i \in 0..n
      BY <1>1
    <2>4. v[0] = 0
      BY <1>1, <1>3 DEF Sums
    <2>5. \A i \in 1..n : v[i] = v[i - 1] + c[i]
      BY <1>3, <2>1, <2>3 DEF Sums
    <2>6. QED
      BY <2>2, <2>4, <2>5 DEF Sums
  <1> HIDE DEF v
  <1>5. f \in Seq(S) /\ Joins(f, n, ss, v)
    <2>1. \A i \in 1..Len(ss) : c[i] = Len(ss[i])
      BY <1>1, <1>2 DEF n
    <2>2. QED
      BY <1>4, <2>1, FlattenPlaces DEF n
  <1> HIDE DEF f
  <1>6. Joins(f, n, tt, u)
    <2>1. n \in 0..n /\ \A i \in 1..n : i - 1 \in 0..n
      BY <1>1
    <2>2. Len(f) = u[n]
      BY <1>4, <1>5, <2>1 DEF Joins
    <2>3. ASSUME NEW i \in 1..n, NEW k \in 1..Len(tt[i])
          PROVE  f[u[i - 1] + k] = tt[i][k]
      <3>1. tt[i] = ss[i] /\ v[i - 1] = u[i - 1]
        BY <1>1, <1>4, <2>1
      <3>2. k \in 1..Len(ss[i])
        BY <3>1
      <3>3. f[v[i - 1] + k] = ss[i][k]
        BY <1>5, <3>2 DEF Joins
      <3>4. QED
        BY <3>1, <3>3
    <2>4. QED
      BY <2>2, <2>3 DEF Joins
  <1>7. Joins(f \o s, n + 1, tt, u)
    <2> DEFINE m == n + 1
    <2>1. m \in Nat /\ m \in 1..m /\ m - 1 = n /\ tt[m] = s
      BY <1>1
    <2>2. /\ \A i \in 1..m : tt[i] \in Seq(S)
          /\ \A i \in 1..m : c[i] = Len(tt[i])
          /\ Sums(u, m, c)
      BY <1>2, <1>3
    <2> HIDE DEF m
    <2>3. Joins(f, m - 1, tt, u)
      BY <1>6, <2>1
    <2>4. Joins(f \o tt[m], m, tt, u)
      BY <1>5, <2>1, <2>2, <2>3, JoinsOneMore
    <2>5. QED
      BY <2>1, <2>4 DEF m
  <1>8. f \o s \in Seq(S)
    BY <1>5, ConcatProperties
  <1>9. Lists!FlattenSeq(tt) \in Seq(S) /\ Joins(Lists!FlattenSeq(tt), n + 1, tt, u)
    <2>1. Len(tt) = n + 1 /\ \A i \in 1..Len(tt) : c[i] = Len(tt[i])
      BY <1>1, <1>2
    <2>2. Sums(u, Len(tt), c)
      BY <1>3, <2>1
    <2>3. QED
      BY <1>1, <2>1, <2>2, FlattenPlaces
  <1>10. Lists!FlattenSeq(tt) = f \o s
    <2>1. Len(tt) = n + 1 /\ \A i \in 1..Len(tt) : c[i] = Len(tt[i])
      BY <1>1, <1>2
    <2>2. Sums(u, Len(tt), c) /\ Joins(f \o s, Len(tt), tt, u) /\ Joins(Lists!FlattenSeq(tt), Len(tt), tt, u)
      BY <1>3, <1>7, <1>9, <2>1
    <2>3. QED
      BY <1>1, <1>8, <1>9, <2>1, <2>2, JoinsUnique
  <1>11. QED
    BY <1>5, <1>10 DEF f, tt

LEMMA FlattenFront ==
    ASSUME NEW S, NEW ss \in Seq(Seq(S)), NEW s \in Seq(S)
    PROVE  Lists!FlattenSeq(<<s>> \o ss) = s \o Lists!FlattenSeq(ss)
  <1> DEFINE n == Len(ss)
             first(m) == SubSeq(ss, 1, m)
             P(m) == Lists!FlattenSeq(<<s>> \o first(m)) = s \o Lists!FlattenSeq(first(m))
             T == {m \in 0..n : P(m)}
  <1>1. n \in Nat /\ <<s>> \in Seq(Seq(S)) /\ <<>> \in Seq(Seq(S)) /\ <<>> \in Seq(S)
    OBVIOUS
  <1>2. Lists!FlattenSeq(<<s>>) = s
    <2>1. Append(<<>>, s) = <<s>>
      OBVIOUS
    <2>2. Lists!FlattenSeq(<<s>>) = Lists!FlattenSeq(<<>>) \o s
      BY <1>1, <2>1, FlattenAppend
    <2>3. QED
      BY <2>2, FlattenNone, ConcatEmptySeq
  <1>3. 0 \in T
    <2>1. first(0) = <<>>
      BY SubSeqEmpty
    <2>2. <<s>> \o <<>> = <<s>> /\ s \o <<>> = s
      BY <1>1, ConcatEmptySeq
    <2>3. Lists!FlattenSeq(<<s>> \o <<>>) = s \o Lists!FlattenSeq(<<>>)
      BY <1>2, <2>2, FlattenNone
    <2>4. P(0)
      BY <2>1, <2>3
    <2> HIDE DEF P
    <2>5. QED
      BY <1>1, <2>4
  <1>4. ASSUME NEW m \in 0..(n - 1), m \in T
        PROVE  m + 1 \in T
    <2>1. m + 1 \in 1..n /\ ss[m + 1] \in Seq(S)
      BY <1>1
    <2> DEFINE p == first(m)
               e == ss[m + 1]
    <2>2. p \in Seq(Seq(S)) /\ first(m + 1) = Append(p, e)
      <3>1. 1 \in 1..Len(ss) /\ m + 1 \in 1..Len(ss) /\ (m + 1) - 1 = m
        BY <2>1
      <3>2. SubSeq(ss, 1, m + 1) = SubSeq(ss, 1, (m + 1) - 1) \o <<ss[m + 1]>>
        BY <3>1, SubSeqRecursiveSecond
      <3>3. first(m) \in Seq(Seq(S))
        <4>1. m \in Int /\ \A i \in 1..m : ss[i] \in Seq(S)
          OBVIOUS
        <4>2. QED
          BY <4>1, SubSeqProperties
      <3>4. Append(first(m), ss[m + 1]) = first(m) \o <<ss[m + 1]>>
        BY <2>1, <3>3, AppendIsConcat
      <3>5. QED
        BY <3>1, <3>2, <3>3, <3>4
    <2>3. Lists!FlattenSeq(<<s>> \o p) = s \o Lists!FlattenSeq(p)
      BY <1>4
    <2>4. e \in Seq(S)
      BY <2>1
    <2> HIDE DEF p, e, first
    <2>5. <<s>> \o Append(p, e) = Append(<<s>> \o p, e) /\ <<s>> \o p \in Seq(Seq(S))
      <3> DEFINE R == Seq(S)
                 h == <<s>>
      <3>1. h \in Seq(R) /\ p \in Seq(R) /\ e \in R
        BY <1>1, <2>2, <2>4
      <3> HIDE DEF R, h
      <3>2. h \o Append(p, e) = Append(h \o p, e)
        BY <3>1, ConcatAppend
      <3>3. h \o p \in Seq(R)
        BY <3>1, ConcatProperties
      <3>4. QED
        BY <3>2, <3>3 DEF R, h
    <2>6. /\ Lists!FlattenSeq(p) \in Seq(S)
          /\ Lists!FlattenSeq(Append(p, e)) = Lists!FlattenSeq(p) \o e
          /\ Lists!FlattenSeq(Append(<<s>> \o p, e)) = Lists!FlattenSeq(<<s>> \o p) \o e
      BY <2>2, <2>4, <2>5, FlattenAppend
    <2>7. (s \o Lists!FlattenSeq(p)) \o e = s \o (Lists!FlattenSeq(p) \o e)
      <3> DEFINE q == Lists!FlattenSeq(p)
      <3>1. q \in Seq(S)
        BY <2>6
      <3> HIDE DEF q
      <3>2. Associates(s, q, e)
        BY <2>4, <3>1, ConcatAssociates
      <3>3. QED
        BY <3>2 DEF q, Associates
    <2>8. m + 1 \in 0..n
      BY <2>1
    <2>9. QED
      BY <2>2, <2>3, <2>5, <2>6, <2>7, <2>8
  <1> HIDE DEF T, P, first
  <1>5. n \in T
    <2>1. 0..n \subseteq T
      BY <1>1, <1>3, <1>4, InductionUpTo
    <2>2. QED
      BY <1>1, <2>1
  <1>6. first(n) = ss
    BY SubSeqFull DEF first
  <1>7. QED
    BY <1>5, <1>6 DEF T, P
=============================================================================
