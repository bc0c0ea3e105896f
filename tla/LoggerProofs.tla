---------------------------- MODULE LoggerProofs ----------------------------
(***************************************************************************)
(* Proofs of the safety properties of module Logger, for any number of     *)
(* threads and lines, any clock and any limits: what becomes of a line,    *)
(* when a file is too long or written on too late, and what an abort       *)
(* leaves behind.                                                          *)
(*                                                                         *)
(* What the invariant says of the log and the files is stated of any l and *)
(* fs, n lines having been appended, for a batch appends more than once in *)
(* one step.                                                               *)
(***************************************************************************)
EXTENDS Logger, QueueLemmas

Lines == [no : Nat, len : Sizes, run : Nat, late : BOOLEAN, due : BOOLEAN,
          since : Nat, synced : Nat]

LogType == [count_ : 0 .. kCheckTimeRoll_ + 1, lastRoll_ : Nat, lastFlush_ : Nat,
            name : Names, writtenBytes_ : Nat, buffered : Nat]

TypeOK ==
    /\ clock \in 0 .. MaxClock /\ async \in BOOLEAN /\ up \in BOOLEAN
    /\ log \in LogType /\ files \in [Names -> Seq(Lines)]
    /\ t_lastSecond \in [Threads -> Nat] /\ t_time \in [Threads -> Int]
    /\ pc \in [Threads -> {"idle", "made", "flush", "abort"}] /\ fatal \in [Threads -> Nat]
    /\ appended \in Nat /\ restarts \in Nat
    /\ lost \subseteq [no : Nat, run : Nat]

\* A process that is down has no threads; a line numbered for a FATAL message has
\* been appended; the text of a second is of the second it was made in.
ThreadsOK ==
    /\ ~up => \A t \in Threads : pc[t] = "idle"
    /\ \A t \in Threads : pc[t] \in {"flush", "abort"} => fatal[t] <= appended
    /\ \A t \in Threads : t_lastSecond[t] # 0 => t_time[t] = t_lastSecond[t]

\* The numbers of the lines.
InOrder(f) == \A i, j \in 1 .. Len(f) : i < j => f[i].no < f[j].no

Numbered(fs, n) ==
    /\ \A m \in Names : InOrder(fs[m])
    /\ \A m \in Names : \A i \in 1 .. Len(fs[m]) : fs[m][i].no \in 1 .. n /\ fs[m][i].run <= restarts
    /\ \A m, p \in Names : m # p =>
        \A i \in 1 .. Len(fs[m]), j \in 1 .. Len(fs[p]) : fs[m][i].no # fs[p][j].no
    /\ \A b \in lost : b.no \in 1 .. n /\ b.run <= restarts /\ (up => b.run < restarts)

\* Every line is somewhere.
Kept(fs, n) ==
    \A k \in 1 .. n : \/ \E m \in Names : \E i \in 1 .. Len(fs[m]) : fs[m][i].no = k
                      \/ \E b \in lost : b.no = k

\* What is lost is later than what the same process left in the files.
LostLast(fs) ==
    \A m \in Names : \A i \in 1 .. Len(fs[m]) : \A b \in lost :
        fs[m][i].run = b.run => fs[m][i].no < b.no

\* What stdio buffers are the last lines of all.
IsBuffered(l, fs, m, i) == m = l.name /\ i > Len(fs[m]) - l.buffered

BufferedLast(l, fs) ==
    /\ l.buffered <= Len(fs[l.name])
    /\ \A m, p \in Names : \A i \in 1 .. Len(fs[m]), j \in 1 .. Len(fs[p]) :
        IsBuffered(l, fs, m, i) /\ ~IsBuffered(l, fs, p, j) => fs[p][j].no < fs[m][i].no

\* A thread that aborts has no line, and none before it, in the buffer.
AbortsFlushed(l, fs) ==
    \A t \in Threads : pc[t] = "abort" =>
        \A i \in 1 .. Len(fs[l.name]) : IsBuffered(l, fs, l.name, i) => fatal[t] < fs[l.name][i].no

\* No opening of this process is later than the one that is written to.
Since(l, fs) ==
    up => \A m \in Names : \A i \in 1 .. Len(fs[m]) :
            fs[m][i].run = restarts => fs[m][i].since <= l.lastRoll_

\* The bytes of the first i lines of f that one opening wrote: each is a place in
\* its line.
Opened(f, i, run, since) == {k \in 1 .. i : f[k].run = run /\ f[k].since = since}
BytesOf(f, S)            == UNION {{k} \X (1 .. f[k].len) : k \in S}
Bytes(f, i, run, since)  == BytesOf(f, Opened(f, i, run, since))

\* writtenBytes_ counts the bytes of the opening, which are too many only for
\* a line that was not late.
Counted(l, fs) ==
    up => LET f == fs[l.name]
          IN  Cardinality(Bytes(f, Len(f), restarts, l.lastRoll_)) = l.writtenBytes_

LateFits(l, fs) ==
    up /\ (rollSize_ > 0 \/ async) =>
        LET f == fs[l.name]
        IN  \A i \in 1 .. Len(f) :
                f[i].run = restarts /\ f[i].since = l.lastRoll_ /\ f[i].late
                    => Cardinality(Bytes(f, i, restarts, l.lastRoll_)) <= rollSize_

\* count_ counts the lines at the end of the file that were due.
Waits(l, e) == e.due /\ e.run = restarts /\ e.since = l.lastRoll_ /\ e.synced = l.lastFlush_

DueCounted(l, fs) ==
    up => LET f == fs[l.name]
          IN  \A i \in 1 .. Len(f) :
                (\A k \in i .. Len(f) : Waits(l, f[k])) => Len(f) - i + 1 <= l.count_

\* What is to be shown of a file.
Fits(f) ==
    (rollSize_ > 0 \/ async) =>
        \A i, j \in 1 .. Len(f) :
            (i < j /\ SameOpening(f[i], f[j]) /\ f[i].late)
                => Cardinality(Bytes(f, i, f[i].run, f[i].since)) <= rollSize_

Looked(f) ==
    \A i, j \in 1 .. Len(f) : j = i + kCheckTimeRoll_ + 2 =>
        \E k \in i .. j : ~f[k].due \/ ~SameOpening(f[k], f[i]) \/ f[k].synced # f[i].synced

FilesOK(fs) == \A m \in Names : Fits(fs[m]) /\ Looked(fs[m])

\* What holds of the log and the files.
LogOK(l, fs, n) ==
    /\ Numbered(fs, n) /\ Kept(fs, n) /\ LostLast(fs)
    /\ BufferedLast(l, fs) /\ AbortsFlushed(l, fs)
    /\ Since(l, fs) /\ Counted(l, fs) /\ LateFits(l, fs) /\ DueCounted(l, fs)
    /\ FilesOK(fs)

IInv == TypeOK /\ ThreadsOK /\ LogOK(log, files, appended)

-----------------------------------------------------------------------------
(* The log.                                                                *)

After(l) == IF async THEN AsyncLoggerAppend(l, clock) ELSE LoggerAppend(l, clock)

\* An append to l leaves o: the file is rolled, or it is not.
Rolled(l, o) ==
    /\ clock > l.lastRoll_ /\ o.lastRoll_ = clock /\ o.name = Name(clock)
    /\ o.writtenBytes_ = 0 /\ o.buffered = 0

Stayed(l, o, len) ==
    /\ o.name = l.name /\ o.lastRoll_ = l.lastRoll_
    /\ o.writtenBytes_ = l.writtenBytes_ + len
    /\ o.buffered = 0 \/ o.buffered = l.buffered + 1
    /\ (rollSize_ > 0 \/ async) /\ Late(l) => o.writtenBytes_ <= rollSize_
    /\ Due(l) /\ o.lastFlush_ = l.lastFlush_ => o.count_ = l.count_ + 1

\* The file is named after a second there is.
LEMMA NameIs == ASSUME TypeOK PROVE Name(clock) \in Names
  BY LoggerAssumption DEF TypeOK, Name, Names

\* rollFile opens a file named after this second, or does nothing.
LEMMA RollFileIs ==
    ASSUME TypeOK, NEW l \in LogType
    PROVE  /\ RollFile(l, clock) \in LogType
           /\ clock > l.lastRoll_ =>
                /\ RollFile(l, clock).lastRoll_ = clock /\ RollFile(l, clock).lastFlush_ = clock
                /\ RollFile(l, clock).name = Name(clock)
                /\ RollFile(l, clock).writtenBytes_ = 0 /\ RollFile(l, clock).buffered = 0
           /\ ~(clock > l.lastRoll_) => RollFile(l, clock) = l
  <1>1. Name(clock) \in Names /\ clock \in Nat
    BY NameIs, LoggerAssumption DEF TypeOK
  <1>2. QED
    BY <1>1 DEF RollFile, OpenFile, LogType

\* The effects of an append on the log.
LEMMA Outcome ==
    ASSUME TypeOK, NEW l \in LogType, NEW len \in Sizes
    PROVE  /\ After(LogFileAppend(l, len)) \in LogType
           /\ \/ Rolled(l, After(LogFileAppend(l, len)))
              \/ Stayed(l, After(LogFileAppend(l, len)), len)
  <1> DEFINE a == LogFileAppend(l, len)
             z == [a EXCEPT !.count_ = 0]
             p == [a EXCEPT !.count_ = @ + 1]
             w == Flush([z EXCEPT !.lastFlush_ = clock])
  <1>1. /\ kCheckTimeRoll_ \in Nat /\ rollSize_ \in Nat /\ flushInterval_ \in Nat
        /\ len \in Nat \ {0} /\ clock \in Nat
    BY LoggerAssumption DEF TypeOK
  <1>2. /\ a \in LogType /\ a.count_ = l.count_ /\ a.lastRoll_ = l.lastRoll_
        /\ a.lastFlush_ = l.lastFlush_ /\ a.name = l.name
        /\ a.writtenBytes_ = l.writtenBytes_ + len /\ a.buffered = l.buffered + 1
    <2>1. /\ l.writtenBytes_ \in Nat /\ l.buffered \in Nat
      BY DEF LogType
    <2>2. l.writtenBytes_ + len \in Nat /\ l.buffered + 1 \in Nat
      BY <1>1, <2>1
    <2>3. a = [l EXCEPT !.writtenBytes_ = l.writtenBytes_ + len, !.buffered = l.buffered + 1]
      BY DEF LogFileAppend
    <2> HIDE DEF a
    <2>4. a \in LogType
      BY <2>2, <2>3 DEF LogType
    <2>5. a.writtenBytes_ = l.writtenBytes_ + len /\ a.buffered = l.buffered + 1
      BY <2>3 DEF LogType
    <2>6. a.count_ = l.count_ /\ a.lastRoll_ = l.lastRoll_ /\ a.lastFlush_ = l.lastFlush_ /\ a.name = l.name
      BY <2>3 DEF LogType
    <2>7. QED
      BY <2>4, <2>5, <2>6
  <1>3. /\ z \in LogType /\ z.count_ = 0 /\ z.lastRoll_ = l.lastRoll_
        /\ z.lastFlush_ = l.lastFlush_ /\ z.name = l.name
        /\ z.writtenBytes_ = l.writtenBytes_ + len /\ z.buffered = l.buffered + 1
    BY <1>1, <1>2 DEF LogType
  <1>4. /\ w \in LogType /\ w.lastRoll_ = l.lastRoll_
        /\ w.lastFlush_ = clock /\ w.name = l.name
        /\ w.writtenBytes_ = l.writtenBytes_ + len /\ w.buffered = 0
    BY <1>1, <1>3 DEF LogType, Flush
  <1>5. ~(l.count_ > kCheckTimeRoll_) =>
            /\ p \in LogType /\ p.count_ = l.count_ + 1 /\ p.lastRoll_ = l.lastRoll_
            /\ p.lastFlush_ = l.lastFlush_ /\ p.name = l.name
            /\ p.writtenBytes_ = l.writtenBytes_ + len /\ p.buffered = l.buffered + 1
    BY <1>1, <1>2 DEF LogType
  <1>6. l.count_ \in 0 .. kCheckTimeRoll_ + 1 /\ l.lastRoll_ \in Nat /\ l.lastFlush_ \in Nat
        /\ l.writtenBytes_ \in Nat
    BY DEF LogType
  <1>7. a = LogFileAppend(l, len)
    OBVIOUS
  <1>8. Late(l) <=> clock > l.lastRoll_
    BY DEF Late
  <1>9. Due(l) <=> /\ clock > l.lastRoll_
                   /\ \/ Period(clock) # Period(l.lastRoll_)
                      \/ ~async /\ clock - l.lastFlush_ > flushInterval_
    BY DEF Due, Late
  \* What rollFile makes of a and of z.
  <1>10. ASSUME NEW x \in {a, z}
         PROVE  /\ RollFile(x, clock) \in LogType
                /\ clock > l.lastRoll_ => Rolled(l, RollFile(x, clock))
                /\ ~(clock > l.lastRoll_) => RollFile(x, clock) = x
    BY <1>2, <1>3, RollFileIs DEF Rolled
  <1> HIDE DEF a, z, p, w
  <1>11. CASE ~async
    <2>1. CASE rollSize_ > 0 /\ a.writtenBytes_ > rollSize_
      <3>1. After(a) = RollFile(a, clock)
        BY <1>11, <2>1 DEF After, LoggerAppend
      <3>2. QED
        BY <1>1, <1>2, <1>6, <1>7, <1>8, <1>9, <1>10, <3>1 DEF Stayed
    <2>2. CASE ~(rollSize_ > 0 /\ a.writtenBytes_ > rollSize_) /\ ~(l.count_ > kCheckTimeRoll_)
      <3>1. After(a) = p
        BY <1>2, <1>11, <2>2 DEF After, LoggerAppend, p
      <3>2. QED
        BY <1>1, <1>2, <1>5, <1>6, <1>7, <1>8, <1>9, <1>11, <2>2, <3>1 DEF Stayed
    <2>3. CASE /\ ~(rollSize_ > 0 /\ a.writtenBytes_ > rollSize_) /\ l.count_ > kCheckTimeRoll_
               /\ Period(clock) # Period(l.lastRoll_)
      <3>1. After(a) = RollFile(z, clock)
        BY <1>2, <1>11, <2>3 DEF After, LoggerAppend, z
      <3>2. QED
        BY <1>1, <1>2, <1>3, <1>6, <1>7, <1>8, <1>9, <1>10, <1>11, <2>3, <3>1 DEF Stayed
    <2>4. CASE /\ ~(rollSize_ > 0 /\ a.writtenBytes_ > rollSize_) /\ l.count_ > kCheckTimeRoll_
               /\ Period(clock) = Period(l.lastRoll_) /\ clock - l.lastFlush_ > flushInterval_
      <3>1. After(a) = w
        BY <1>2, <1>11, <2>4 DEF After, LoggerAppend, w, z
      <3>2. QED
        BY <1>1, <1>2, <1>4, <1>6, <1>7, <1>8, <1>9, <1>11, <2>4, <3>1 DEF Stayed
    <2>5. CASE /\ ~(rollSize_ > 0 /\ a.writtenBytes_ > rollSize_) /\ l.count_ > kCheckTimeRoll_
               /\ Period(clock) = Period(l.lastRoll_) /\ ~(clock - l.lastFlush_ > flushInterval_)
      <3>1. After(a) = z
        BY <1>2, <1>11, <2>5 DEF After, LoggerAppend, z
      <3>2. QED
        BY <1>1, <1>2, <1>3, <1>6, <1>7, <1>8, <1>9, <1>11, <2>5, <3>1 DEF Stayed
    <2>6. QED
      BY <2>1, <2>2, <2>3, <2>4, <2>5
  <1>12. CASE async
    <2>1. CASE a.writtenBytes_ > rollSize_
      <3>1. After(a) = RollFile(z, clock)
        BY <1>12, <2>1 DEF After, AsyncLoggerAppend, z
      <3>2. QED
        BY <1>1, <1>2, <1>3, <1>6, <1>7, <1>8, <1>9, <1>10, <3>1 DEF Stayed
    <2>2. CASE ~(a.writtenBytes_ > rollSize_) /\ ~(l.count_ > kCheckTimeRoll_)
      <3>1. After(a) = p
        BY <1>2, <1>12, <2>2 DEF After, AsyncLoggerAppend, p
      <3>2. QED
        BY <1>1, <1>2, <1>5, <1>6, <1>7, <1>8, <1>9, <1>12, <2>2, <3>1 DEF Stayed
    <2>3. CASE /\ ~(a.writtenBytes_ > rollSize_) /\ l.count_ > kCheckTimeRoll_
               /\ Period(clock) # Period(l.lastRoll_)
      <3>1. After(a) = RollFile(z, clock)
        BY <1>2, <1>12, <2>3 DEF After, AsyncLoggerAppend, z
      <3>2. QED
        BY <1>1, <1>2, <1>3, <1>6, <1>7, <1>8, <1>9, <1>10, <1>12, <2>3, <3>1 DEF Stayed
    <2>4. CASE /\ ~(a.writtenBytes_ > rollSize_) /\ l.count_ > kCheckTimeRoll_
               /\ Period(clock) = Period(l.lastRoll_)
      <3>1. After(a) = z
        BY <1>2, <1>12, <2>4 DEF After, AsyncLoggerAppend, z
      <3>2. QED
        BY <1>1, <1>2, <1>3, <1>6, <1>7, <1>8, <1>9, <1>12, <2>4, <3>1 DEF Stayed
    <2>5. QED
      BY <2>1, <2>2, <2>3, <2>4
  <1>13. QED
    BY <1>11, <1>12 DEF TypeOK, a

-----------------------------------------------------------------------------
(* The bytes that one opening wrote.                                       *)

\* A line has a length.
LEMMA SizesAre == \A s \in Sizes : s \in Nat /\ s > 0
  <1>1. Sizes \subseteq Nat \ {0}
    BY LoggerAssumption
  <1>2. QED
    BY <1>1

\* Lines of a file make finitely many bytes.
LEMMA BytesFinite ==
    ASSUME NEW f \in Seq(Lines), NEW i \in 0 .. Len(f), NEW run, NEW since
    PROVE  IsFiniteSet(Bytes(f, i, run, since)) /\ Cardinality(Bytes(f, i, run, since)) \in Nat
  <1> DEFINE S == Opened(f, i, run, since)
             P(k) == {k} \X (1 .. f[k].len)
             all == {P(k) : k \in S}
             g == [k \in S |-> P(k)]
  <1>1. S \subseteq 1 .. i /\ Len(f) \in Nat
    BY DEF Opened
  <1>2. IsFiniteSet(S)
    <2>1. IsFiniteSet(1 .. i)
      BY FS_Interval
    <2>2. QED
      BY <1>1, <2>1, FS_Subset
  <1>3. IsFiniteSet(all)
    <2>1. g \in Surjection(S, all)
      BY DEF Surjection
    <2>2. QED
      BY <1>2, <2>1, FS_Surjection
  <1>4. \A B \in all : IsFiniteSet(B)
    <2>1. ASSUME NEW k \in S PROVE IsFiniteSet(P(k))
      <3>0. k \in 1 .. Len(f)
        BY <1>1
      <3>1. f[k].len \in Int
        <4>1. f[k] \in Lines
          BY <3>0
        <4>2. f[k].len \in Sizes
          BY <4>1 DEF Lines
        <4>3. f[k].len \in Nat
          BY <4>2, SizesAre
        <4>4. QED
          BY <4>3
      <3>2. IsFiniteSet({k}) /\ IsFiniteSet(1 .. f[k].len)
        <4>1. IsFiniteSet(1 .. f[k].len)
          BY <3>1, FS_Interval
        <4>2. QED
          BY <4>1, FS_Singleton
      <3>3. QED
        BY <3>2, FS_Product
    <2>2. QED
      BY <2>1
  <1>5. IsFiniteSet(UNION all)
    BY <1>3, <1>4, FS_UNION
  <1>6. QED
    BY <1>5, FS_CardinalityType DEF Bytes, BytesOf


\* Only the first i lines of a file count.
LEMMA BytesSame ==
    ASSUME NEW f, NEW g, NEW i \in Nat, \A k \in 1 .. i : g[k] = f[k], NEW run, NEW since
    PROVE  Bytes(g, i, run, since) = Bytes(f, i, run, since)
  <1>1. Opened(g, i, run, since) = Opened(f, i, run, since)
    BY DEF Opened
  <1>2. \A k \in Opened(f, i, run, since) : g[k].len = f[k].len
    BY DEF Opened
  <1>3. BytesOf(g, Opened(f, i, run, since)) = BytesOf(f, Opened(f, i, run, since))
    BY <1>2 DEF BytesOf
  <1>4. QED
    BY <1>1, <1>3 DEF Bytes

\* There are n numbers up to n.
LEMMA FirstNumbers == \A n \in Nat : IsFiniteSet(1 .. n) /\ Cardinality(1 .. n) = n
  <1>1. SUFFICES ASSUME NEW n \in Nat PROVE IsFiniteSet(1 .. n) /\ Cardinality(1 .. n) = n
    OBVIOUS
  <1>2. IsFiniteSet(1 .. n) /\ Cardinality(1 .. n) = IF 1 > n THEN 0 ELSE n - 1 + 1
    BY FS_Interval
  <1>3. (IF 1 > n THEN 0 ELSE n - 1 + 1) = n
    OBVIOUS
  <1>4. QED
    BY <1>2, <1>3

\* A line of an opening adds its bytes.
LEMMA BytesAdded ==
    ASSUME NEW g \in Seq(Lines), NEW i \in 0 .. Len(g), i + 1 <= Len(g),
           NEW run, NEW since, g[i + 1].run = run, g[i + 1].since = since
    PROVE  Cardinality(Bytes(g, i + 1, run, since))
                = Cardinality(Bytes(g, i, run, since)) + g[i + 1].len
  <1> DEFINE A == Bytes(g, i, run, since)
             B == {i + 1} \X (1 .. g[i + 1].len)
  <1>1. i + 1 \in 0 .. Len(g) /\ i \in Nat /\ Len(g) \in Nat /\ g[i + 1] \in Lines
    OBVIOUS
  <1>2. g[i + 1].len \in Nat
    <2>1. g[i + 1].len \in Sizes
      BY <1>1 DEF Lines
    <2>2. QED
      BY <2>1, SizesAre
  <1>3. IsFiniteSet(B) /\ Cardinality(B) = g[i + 1].len
    <2>1. IsFiniteSet({i + 1}) /\ Cardinality({i + 1}) = 1
      BY FS_Singleton
    <2>2. IsFiniteSet(1 .. g[i + 1].len) /\ Cardinality(1 .. g[i + 1].len) = g[i + 1].len
      BY <1>2, FirstNumbers
    <2>3. IsFiniteSet(B) /\ Cardinality(B) = 1 * g[i + 1].len
      BY <2>1, <2>2, FS_Product
    <2>4. QED
      BY <1>2, <2>3
  <1>4. IsFiniteSet(A) /\ Cardinality(A) \in Nat
    BY BytesFinite
  <1>5. A \cap B = {}
    <2>1. \A x \in A : \E k \in 1 .. i : x[1] = k
      BY DEF Bytes, BytesOf, Opened
    <2>2. \A x \in B : x[1] = i + 1
      OBVIOUS
    <2>3. \A k \in 1 .. i : k # i + 1
      BY <1>1
    <2> HIDE DEF A, B
    <2>4. QED
      BY <2>1, <2>2, <2>3
  <1>6. Bytes(g, i + 1, run, since) = A \cup B
    <2> DEFINE S == Opened(g, i, run, since)
    <2>1. Opened(g, i + 1, run, since) = S \cup {i + 1}
      BY <1>1 DEF Opened
    <2> HIDE DEF S
    <2>2. BytesOf(g, S \cup {i + 1}) = BytesOf(g, S) \cup B
      BY DEF BytesOf
    <2>3. QED
      BY <2>1, <2>2 DEF Bytes, S
  <1> HIDE DEF A, B
  <1>7. Cardinality(A \cup B) = Cardinality(A) + Cardinality(B) - Cardinality(A \cap B)
    BY <1>3, <1>4, FS_Union
  <1>8. Cardinality(A \cap B) = 0
    BY <1>5, FS_EmptySet
  <1>9. Cardinality(Bytes(g, i + 1, run, since)) = Cardinality(A \cup B)
    BY <1>6
  <1>10. Cardinality(A \cup B) = Cardinality(A) + g[i + 1].len
    <2> DEFINE n == g[i + 1].len
    <2>1. Cardinality(B) = n /\ n \in Nat
      BY <1>2, <1>3
    <2> HIDE DEF n
    <2>2. Cardinality(A \cup B) = Cardinality(A) + n
      BY <1>4, <1>7, <1>8, <2>1
    <2>3. QED
      BY <2>2 DEF n
  <1>11. QED
    BY <1>9, <1>10 DEF A

-----------------------------------------------------------------------------
(* The files.                                                              *)

\* The line e, the (n + 1)-th, is appended to the open file of l.
Appends(l, fs, n, e, gs) ==
    /\ e \in Lines /\ e.no = n + 1 /\ e.run = restarts
    /\ e.late = Late(l) /\ e.due = Due(l) /\ e.since = l.lastRoll_ /\ e.synced = l.lastFlush_
    /\ gs \in [Names -> Seq(Lines)] /\ \A m \in Names : m # l.name => gs[m] = fs[m]
    /\ Len(gs[l.name]) = Len(fs[l.name]) + 1
    /\ gs[l.name][Len(fs[l.name]) + 1] = e
    /\ \A i \in 1 .. Len(fs[l.name]) : gs[l.name][i] = fs[l.name][i]

\* Where the lines of gs are from.
LEMMA Places2 ==
    ASSUME NEW l \in LogType, NEW fs \in [Names -> Seq(Lines)], NEW n, NEW e, NEW gs, Appends(l, fs, n, e, gs),
           NEW m \in Names
    PROVE  /\ Len(fs[m]) \in Nat /\ Len(gs[m]) \in Nat /\ Len(fs[m]) <= Len(gs[m])
           /\ \A i \in 1 .. Len(fs[m]) : i \in 1 .. Len(gs[m]) /\ gs[m][i] = fs[m][i]
           /\ \A i \in 1 .. Len(gs[m]) : \/ i \in 1 .. Len(fs[m])
                                         \/ m = l.name /\ i = Len(fs[m]) + 1 /\ gs[m][i] = e
  <1>1. fs[m] \in Seq(Lines) /\ gs[m] \in Seq(Lines)
    BY DEF Appends
  <1>2. Len(fs[m]) \in Nat /\ Len(gs[m]) \in Nat
    BY <1>1
  <1>3. CASE m # l.name
    BY <1>2, <1>3 DEF Appends
  <1>4. CASE m = l.name
    BY <1>2, <1>4 DEF Appends
  <1>5. QED
    BY <1>3, <1>4

\* The new line has the greatest number, and nothing else changes.
LEMMA NumberedAfter ==
    ASSUME NEW l \in LogType, NEW fs \in [Names -> Seq(Lines)], NEW n \in Nat, NEW e, NEW gs,
           Appends(l, fs, n, e, gs), Numbered(fs, n), Kept(fs, n), LostLast(fs), up, restarts \in Nat
    PROVE  Numbered(gs, n + 1) /\ Kept(gs, n + 1) /\ LostLast(gs)
  <1>1. l.name \in Names /\ e.no = n + 1 /\ e.run = restarts
    BY DEF LogType, Appends
  <1>2. \A m \in Names : \A i \in 1 .. Len(fs[m]) : fs[m][i].no \in 1 .. n
    BY DEF Numbered
  <1>3. \A m \in Names : InOrder(gs[m])
    <2>1. SUFFICES ASSUME NEW m \in Names, NEW i \in 1 .. Len(gs[m]), NEW j \in 1 .. Len(gs[m]), i < j
                   PROVE  gs[m][i].no < gs[m][j].no
      BY DEF InOrder
    <2>2. i \in 1 .. Len(fs[m])
      BY <2>1, Places2
    <2>3. gs[m][i] = fs[m][i]
      BY <2>2, Places2
    <2>4. CASE j \in 1 .. Len(fs[m])
      <3>1. gs[m][j] = fs[m][j]
        BY <2>4, Places2
      <3>2. QED
        BY <2>1, <2>2, <2>3, <2>4, <3>1 DEF Numbered, InOrder
    <2>5. CASE gs[m][j] = e
      BY <1>1, <1>2, <2>2, <2>3, <2>5
    <2>6. QED
      BY <2>4, <2>5, Places2
  <1>4. ASSUME NEW m \in Names, NEW i \in 1 .. Len(gs[m])
        PROVE  gs[m][i].no \in 1 .. n + 1 /\ gs[m][i].run <= restarts
    <2>1. CASE i \in 1 .. Len(fs[m])
      <3>1. gs[m][i] = fs[m][i]
        BY <2>1, Places2
      <3>2. QED
        BY <2>1, <3>1 DEF Numbered
    <2>2. CASE gs[m][i] = e
      BY <1>1, <2>2
    <2>3. QED
      BY <2>1, <2>2, Places2
  <1>5. ASSUME NEW m \in Names, NEW p \in Names, m # p,
               NEW i \in 1 .. Len(gs[m]), NEW j \in 1 .. Len(gs[p])
        PROVE  gs[m][i].no # gs[p][j].no
    <2>1. \/ i \in 1 .. Len(fs[m]) /\ gs[m][i] = fs[m][i]
          \/ m = l.name /\ gs[m][i] = e
      BY Places2
    <2>2. \/ j \in 1 .. Len(fs[p]) /\ gs[p][j] = fs[p][j]
          \/ p = l.name /\ gs[p][j] = e
      BY Places2
    <2>3. QED
      BY <1>1, <1>2, <1>5, <2>1, <2>2, SMTT(30) DEF Numbered
  <1>6. Numbered(gs, n + 1)
    BY <1>3, <1>4, <1>5 DEF Numbered
  <1>7. Kept(gs, n + 1)
    <2>1. SUFFICES ASSUME NEW k \in 1 .. n + 1
                   PROVE  \/ \E m \in Names : \E i \in 1 .. Len(gs[m]) : gs[m][i].no = k
                          \/ \E b \in lost : b.no = k
      BY DEF Kept
    <2>2. CASE k \in 1 .. n
      <3>1. CASE \E b \in lost : b.no = k
        BY <3>1
      <3>2. CASE \E m \in Names : \E i \in 1 .. Len(fs[m]) : fs[m][i].no = k
        BY <3>2, Places2
      <3>3. QED
        BY <2>2, <3>1, <3>2 DEF Kept
    <2>3. CASE k = n + 1
      <3>1. Len(fs[l.name]) + 1 \in 1 .. Len(gs[l.name])
        BY <1>1, Places2 DEF Appends
      <3>2. gs[l.name][Len(fs[l.name]) + 1].no = k
        BY <1>1, <2>3 DEF Appends
      <3>3. QED
        BY <1>1, <3>1, <3>2
    <2>4. QED
      BY <2>2, <2>3
  <1>8. LostLast(gs)
    <2>1. SUFFICES ASSUME NEW m \in Names, NEW i \in 1 .. Len(gs[m]), NEW b \in lost, gs[m][i].run = b.run
                   PROVE  gs[m][i].no < b.no
      BY DEF LostLast
    <2>2. CASE i \in 1 .. Len(fs[m])
      <3>1. gs[m][i] = fs[m][i]
        BY <2>2, Places2
      <3>2. QED
        BY <2>1, <2>2, <3>1 DEF LostLast
    <2>3. CASE gs[m][i] = e
      <3>1. b.run < restarts /\ b.run = restarts
        BY <1>1, <2>1, <2>3 DEF Numbered
      <3>2. QED
        BY <3>1
    <2>4. QED
      BY <2>2, <2>3, Places2
  <1>9. QED
    BY <1>6, <1>7, <1>8

\* The rest of the invariant after the append, of which o is the outcome.
LEMMA BufferedAfter ==
    ASSUME NEW l \in LogType, NEW fs \in [Names -> Seq(Lines)], NEW n \in Nat, NEW e, NEW gs,
           Appends(l, fs, n, e, gs), NEW o \in LogType, Rolled(l, o) \/ Stayed(l, o, e.len),
           Numbered(fs, n), BufferedLast(l, fs), AbortsFlushed(l, fs),
           \A t \in Threads : pc[t] = "abort" => fatal[t] \in Nat /\ fatal[t] <= n
    PROVE  BufferedLast(o, gs) /\ AbortsFlushed(o, gs)
  <1>1. /\ l.name \in Names /\ o.name \in Names /\ l.buffered \in Nat /\ o.buffered \in Nat /\ e.no = n + 1
        /\ o.buffered # 0 => o.name = l.name /\ o.buffered = l.buffered + 1
    BY DEF LogType, Appends, Rolled, Stayed
  <1>2. \A m \in Names : Len(fs[m]) \in Nat /\ Len(gs[m]) \in Nat
    BY Places2
  <1>3. Len(gs[l.name]) = Len(fs[l.name]) + 1
    BY DEF Appends
  \* A line that is buffered now was, or is the new one.
  <1>4. ASSUME NEW m \in Names, NEW i \in 1 .. Len(gs[m]), IsBuffered(o, gs, m, i)
        PROVE  /\ o.buffered # 0 /\ m = l.name
               /\ \/ i \in 1 .. Len(fs[m]) /\ gs[m][i] = fs[m][i] /\ IsBuffered(l, fs, m, i)
                  \/ gs[m][i] = e
    <2>1. m = o.name /\ i > Len(gs[m]) - o.buffered
      BY <1>4 DEF IsBuffered
    <2>2. o.buffered # 0
      BY <1>1, <1>2, <2>1
    <2>3. m = l.name /\ i > Len(fs[m]) - l.buffered
      BY <1>1, <1>2, <1>3, <2>1, <2>2, SMTT(30)
    <2>4. QED
      BY <2>2, <2>3, Places2 DEF IsBuffered
  \* One that is not buffered now was not, when one is.
  <1>5. ASSUME o.buffered # 0, NEW p \in Names, NEW j \in 1 .. Len(gs[p]), ~IsBuffered(o, gs, p, j)
        PROVE  j \in 1 .. Len(fs[p]) /\ gs[p][j] = fs[p][j] /\ ~IsBuffered(l, fs, p, j)
    <2>1. CASE p # l.name
      BY <2>1, Places2 DEF IsBuffered
    <2>2. CASE p = l.name
      <3>1. ~(j > Len(gs[p]) - o.buffered)
        BY <1>1, <1>5, <2>2 DEF IsBuffered
      <3>2. j <= Len(fs[p]) - l.buffered
        BY <1>1, <1>2, <1>3, <1>5, <2>2, <3>1
      <3>3. j \in 1 .. Len(fs[p])
        BY <1>1, <1>2, <3>2
      <3>4. ~IsBuffered(l, fs, p, j)
        BY <1>1, <1>2, <3>2 DEF IsBuffered
      <3>5. QED
        BY <3>3, <3>4, Places2
    <2>3. QED
      BY <2>1, <2>2
  <1>6. o.buffered <= Len(gs[o.name])
    BY <1>1, <1>2, <1>3 DEF BufferedLast
  <1>7. ASSUME NEW m \in Names, NEW p \in Names, NEW i \in 1 .. Len(gs[m]), NEW j \in 1 .. Len(gs[p]),
               IsBuffered(o, gs, m, i), ~IsBuffered(o, gs, p, j)
        PROVE  gs[p][j].no < gs[m][i].no
    <2>1. /\ o.buffered # 0
          /\ \/ i \in 1 .. Len(fs[m]) /\ gs[m][i] = fs[m][i] /\ IsBuffered(l, fs, m, i)
             \/ gs[m][i] = e
      BY <1>4, <1>7
    <2>2. j \in 1 .. Len(fs[p]) /\ gs[p][j] = fs[p][j] /\ ~IsBuffered(l, fs, p, j)
      BY <1>5, <1>7, <2>1
    <2>3. CASE gs[m][i] = e
      <3>1. fs[p][j].no \in 1 .. n
        BY <2>2 DEF Numbered
      <3>2. QED
        BY <1>1, <2>2, <2>3, <3>1
    <2>4. CASE i \in 1 .. Len(fs[m]) /\ gs[m][i] = fs[m][i] /\ IsBuffered(l, fs, m, i)
      BY <2>2, <2>4 DEF BufferedLast
    <2>5. QED
      BY <2>1, <2>3, <2>4
  <1>8. ASSUME NEW t \in Threads, pc[t] = "abort", NEW i \in 1 .. Len(gs[o.name]),
               IsBuffered(o, gs, o.name, i)
        PROVE  fatal[t] < gs[o.name][i].no
    <2>1. /\ o.name = l.name
          /\ \/ i \in 1 .. Len(fs[l.name]) /\ gs[l.name][i] = fs[l.name][i] /\ IsBuffered(l, fs, l.name, i)
             \/ gs[l.name][i] = e
      BY <1>1, <1>4, <1>8
    <2>2. CASE gs[l.name][i] = e
      BY <1>1, <1>8, <2>1, <2>2
    <2>3. CASE i \in 1 .. Len(fs[l.name]) /\ gs[l.name][i] = fs[l.name][i] /\ IsBuffered(l, fs, l.name, i)
      BY <1>8, <2>1, <2>3 DEF AbortsFlushed
    <2>4. QED
      BY <2>1, <2>2, <2>3
  <1>9. QED
    BY <1>6, <1>7, <1>8 DEF BufferedLast, AbortsFlushed

\* When the file is rolled no line of this process is of the new opening yet.
LEMMA NoneYet ==
    ASSUME TypeOK, NEW l \in LogType, NEW fs \in [Names -> Seq(Lines)], NEW n \in Nat, NEW e, NEW gs,
           Appends(l, fs, n, e, gs), NEW o \in LogType, Rolled(l, o), Since(l, fs), up
    PROVE  \A m \in Names : \A i \in 1 .. Len(gs[m]) : gs[m][i].run = restarts => gs[m][i].since < o.lastRoll_
  <1>1. SUFFICES ASSUME NEW m \in Names, NEW i \in 1 .. Len(gs[m]), gs[m][i].run = restarts
                 PROVE  gs[m][i].since < o.lastRoll_
    OBVIOUS
  <1>2. /\ l.lastRoll_ \in Nat /\ o.lastRoll_ \in Nat /\ l.lastRoll_ < o.lastRoll_ /\ e.since = l.lastRoll_
    BY DEF LogType, Rolled, Appends, TypeOK
  <1>3. CASE gs[m][i] = e
    BY <1>2, <1>3
  <1>4. CASE i \in 1 .. Len(fs[m])
    <2>1. gs[m][i] = fs[m][i] /\ fs[m][i] \in Lines
      <3>1. fs[m] \in Seq(Lines)
        OBVIOUS
      <3>2. fs[m][i] \in Lines
        BY <1>4, <3>1
      <3>3. QED
        BY <1>4, <3>2, Places2
    <2>2. fs[m][i].since <= l.lastRoll_ /\ fs[m][i].since \in Nat
      BY <1>1, <1>4, <2>1 DEF Since, Lines
    <2>3. QED
      BY <1>2, <2>1, <2>2
  <1>5. QED
    BY <1>3, <1>4, Places2

\* The new line is of an opening that is not later than the one after it.
LEMMA SinceAfter ==
    ASSUME TypeOK, NEW l \in LogType, NEW fs \in [Names -> Seq(Lines)], NEW n \in Nat, NEW e, NEW gs,
           Appends(l, fs, n, e, gs), NEW o \in LogType, Rolled(l, o) \/ Stayed(l, o, e.len), Since(l, fs)
    PROVE  Since(o, gs)
  <1>1. CASE Rolled(l, o)
    <2>1. SUFFICES ASSUME up, NEW m \in Names, NEW i \in 1 .. Len(gs[m]), gs[m][i].run = restarts
                   PROVE  gs[m][i].since <= o.lastRoll_
      BY DEF Since
    <2>2. gs[m][i].since < o.lastRoll_
      BY <1>1, <2>1, NoneYet
    <2>3. gs[m][i].since \in Nat /\ o.lastRoll_ \in Nat
      <3>1. gs[m] \in Seq(Lines)
        BY DEF Appends
      <3>2. gs[m][i] \in Lines
        BY <3>1
      <3>3. QED
        BY <3>2 DEF Lines, LogType
    <2>4. QED
      BY <2>2, <2>3
  <1>2. CASE Stayed(l, o, e.len)
    <2>1. SUFFICES ASSUME up, NEW m \in Names, NEW i \in 1 .. Len(gs[m]), gs[m][i].run = restarts
                   PROVE  gs[m][i].since <= o.lastRoll_
      BY DEF Since
    <2>2. o.lastRoll_ = l.lastRoll_ /\ l.lastRoll_ \in Nat /\ e.since = l.lastRoll_
      BY <1>2 DEF Stayed, Appends, LogType
    <2>3. CASE gs[m][i] = e
      BY <2>2, <2>3
    <2>4. CASE i \in 1 .. Len(fs[m])
      BY <2>1, <2>2, <2>4, Places2 DEF Since
    <2>5. QED
      BY <2>3, <2>4, Places2
  <1>3. QED
    BY <1>1, <1>2

\* writtenBytes_ still counts the bytes of its opening.
LEMMA CountedAfter ==
    ASSUME TypeOK, NEW l \in LogType, NEW fs \in [Names -> Seq(Lines)], NEW n \in Nat, NEW e, NEW gs,
           Appends(l, fs, n, e, gs), NEW o \in LogType, Rolled(l, o) \/ Stayed(l, o, e.len),
           Since(l, fs), Counted(l, fs)
    PROVE  Counted(o, gs)
  <1>1. SUFFICES ASSUME up
                 PROVE  Cardinality(Bytes(gs[o.name], Len(gs[o.name]), restarts, o.lastRoll_)) = o.writtenBytes_
    BY DEF Counted
  <1>2. l.name \in Names /\ o.name \in Names /\ e.run = restarts /\ e.since = l.lastRoll_ /\ l.writtenBytes_ \in Nat
    BY DEF LogType, Appends
  <1>3. CASE Rolled(l, o)
    <2>1. Opened(gs[o.name], Len(gs[o.name]), restarts, o.lastRoll_) = {}
      <3>1. \A i \in 1 .. Len(gs[o.name]) : gs[o.name][i].run = restarts => gs[o.name][i].since < o.lastRoll_
        BY <1>1, <1>2, <1>3, NoneYet
      <3>2. \A i \in 1 .. Len(gs[o.name]) : gs[o.name][i].run = restarts => gs[o.name][i].since # o.lastRoll_
        <4>1. o.lastRoll_ \in Nat
          BY DEF LogType
        <4>2. QED
          BY <3>1, <4>1
      <3>3. QED
        BY <3>2 DEF Opened
    <2>2. Bytes(gs[o.name], Len(gs[o.name]), restarts, o.lastRoll_) = {}
      BY <2>1 DEF Bytes, BytesOf
    <2>3. Cardinality({}) = 0
      BY FS_EmptySet
    <2>4. QED
      BY <1>3, <2>2, <2>3 DEF Rolled
  <1>4. CASE Stayed(l, o, e.len)
    <2> DEFINE f == fs[l.name]
               g == gs[l.name]
    <2>1. g \in Seq(Lines) /\ Len(f) \in 0 .. Len(g) /\ Len(f) + 1 <= Len(g) /\ Len(f) \in Nat
          /\ g[Len(f) + 1] = e /\ Len(g) = Len(f) + 1
      BY <1>2 DEF Appends
    <2>2. \A k \in 1 .. Len(f) : g[k] = f[k]
      BY DEF Appends
    <2>3. o.name = l.name /\ o.lastRoll_ = l.lastRoll_ /\ o.writtenBytes_ = l.writtenBytes_ + e.len
      BY <1>4 DEF Stayed
    <2> HIDE DEF f, g
    <2>4. Bytes(g, Len(f), restarts, l.lastRoll_) = Bytes(f, Len(f), restarts, l.lastRoll_)
      <3> DEFINE i == Len(f)
      <3>1. i \in Nat /\ \A k \in 1 .. i : g[k] = f[k]
        BY <2>1, <2>2
      <3> HIDE DEF i
      <3>2. Bytes(g, i, restarts, l.lastRoll_) = Bytes(f, i, restarts, l.lastRoll_)
        BY <3>1, BytesSame
      <3>3. QED
        BY <3>2 DEF i
    <2>5. Cardinality(Bytes(g, Len(f) + 1, restarts, l.lastRoll_))
                = Cardinality(Bytes(g, Len(f), restarts, l.lastRoll_)) + e.len
      BY <1>2, <2>1, BytesAdded
    <2>6. Cardinality(Bytes(f, Len(f), restarts, l.lastRoll_)) = l.writtenBytes_
      BY <1>1 DEF Counted, f
    <2>7. Cardinality(Bytes(g, Len(g), restarts, l.lastRoll_)) = o.writtenBytes_
      BY <2>1, <2>3, <2>4, <2>5, <2>6
    <2>8. QED
      BY <2>3, <2>7 DEF g
  <1>5. QED
    BY <1>3, <1>4

\* A line that was late and went over the limit has rolled the file.
LEMMA LateFitsAfter ==
    ASSUME TypeOK, NEW l \in LogType, NEW fs \in [Names -> Seq(Lines)], NEW n \in Nat, NEW e, NEW gs,
           Appends(l, fs, n, e, gs), NEW o \in LogType, Rolled(l, o) \/ Stayed(l, o, e.len),
           Since(l, fs), LateFits(l, fs), Counted(o, gs)
    PROVE  LateFits(o, gs)
  <1>1. SUFFICES ASSUME up, rollSize_ > 0 \/ async, NEW i \in 1 .. Len(gs[o.name]),
                        gs[o.name][i].run = restarts, gs[o.name][i].since = o.lastRoll_, gs[o.name][i].late
                 PROVE  Cardinality(Bytes(gs[o.name], i, restarts, o.lastRoll_)) <= rollSize_
    BY DEF LateFits
  <1>2. l.name \in Names /\ o.name \in Names /\ o.lastRoll_ \in Nat
    BY DEF LogType
  <1>3. CASE Rolled(l, o)
    <2>1. gs[o.name][i].since < o.lastRoll_
      BY <1>1, <1>2, <1>3, NoneYet
    <2>2. QED
      BY <1>1, <1>2, <2>1
  <1>4. CASE Stayed(l, o, e.len)
    <2>1. o.name = l.name /\ o.lastRoll_ = l.lastRoll_
      BY <1>4 DEF Stayed
    <2>2. CASE i \in 1 .. Len(fs[l.name])
      <3>1. gs[l.name][i] = fs[l.name][i]
        BY <2>2 DEF Appends
      <3>2. Cardinality(Bytes(fs[l.name], i, restarts, l.lastRoll_)) <= rollSize_
        BY <1>1, <2>1, <2>2, <3>1 DEF LateFits
      <3>3. Bytes(gs[l.name], i, restarts, l.lastRoll_) = Bytes(fs[l.name], i, restarts, l.lastRoll_)
        <4>1. \A k \in 1 .. i : gs[l.name][k] = fs[l.name][k]
          BY <1>2, <2>2 DEF Appends
        <4>2. i \in Nat
          BY <2>2
        <4> DEFINE f == fs[l.name]
                   g == gs[l.name]
        <4>3. \A k \in 1 .. i : g[k] = f[k]
          BY <4>1
        <4> HIDE DEF f, g
        <4>4. Bytes(g, i, restarts, l.lastRoll_) = Bytes(f, i, restarts, l.lastRoll_)
          BY <4>2, <4>3, BytesSame
        <4>5. QED
          BY <4>4 DEF f, g
      <3>4. QED
        BY <2>1, <3>2, <3>3
    <2>3. CASE i = Len(fs[l.name]) + 1 /\ gs[l.name][i] = e
      <3>1. i = Len(gs[l.name])
        BY <2>3 DEF Appends
      <3>2. Cardinality(Bytes(gs[o.name], i, restarts, o.lastRoll_)) = o.writtenBytes_
        BY <1>1, <2>1, <3>1 DEF Counted
      <3>3. Late(l)
        BY <1>1, <2>1, <2>3 DEF Appends
      <3>4. QED
        BY <1>1, <1>4, <3>2, <3>3 DEF Stayed
    <2>4. QED
      BY <1>2, <2>1, <2>2, <2>3, Places2
  <1>5. QED
    BY <1>3, <1>4

\* A line that was due is counted, or count_ starts again with a roll or a flush.
LEMMA DueCountedAfter ==
    ASSUME TypeOK, NEW l \in LogType, NEW fs \in [Names -> Seq(Lines)], NEW n \in Nat, NEW e, NEW gs,
           Appends(l, fs, n, e, gs), NEW o \in LogType, Rolled(l, o) \/ Stayed(l, o, e.len),
           Since(l, fs), DueCounted(l, fs)
    PROVE  DueCounted(o, gs)
  <1>1. SUFFICES ASSUME up, NEW i \in 1 .. Len(gs[o.name]),
                        \A k \in i .. Len(gs[o.name]) : Waits(o, gs[o.name][k])
                 PROVE  Len(gs[o.name]) - i + 1 <= o.count_
    BY DEF DueCounted
  <1>2. l.name \in Names /\ o.name \in Names /\ o.lastRoll_ \in Nat /\ l.count_ \in Nat
    BY LoggerAssumption DEF LogType
  <1>3. Len(gs[o.name]) \in Nat
    BY <1>2, Places2
  <1>4. CASE Rolled(l, o)
    <2>1. Waits(o, gs[o.name][i])
      BY <1>1, <1>3
    <2>2. gs[o.name][i].since < o.lastRoll_ /\ gs[o.name][i].since = o.lastRoll_
      BY <1>1, <1>2, <1>4, <2>1, NoneYet DEF Waits
    <2>3. QED
      BY <1>2, <2>2
  <1>5. CASE Stayed(l, o, e.len)
    <2> DEFINE f == fs[l.name]
               g == gs[l.name]
    <2>1. o.name = l.name /\ o.lastRoll_ = l.lastRoll_
      BY <1>5 DEF Stayed
    <2>2. /\ Len(f) \in Nat /\ Len(g) = Len(f) + 1 /\ g[Len(f) + 1] = e
          /\ \A k \in 1 .. Len(f) : g[k] = f[k]
      BY <1>2, Places2 DEF Appends
    <2>3. i \in 1 .. Len(g) /\ \A k \in i .. Len(g) : Waits(o, g[k])
      BY <1>1, <2>1
    <2> HIDE DEF f, g
    <2>4. Waits(o, e)
      BY <2>2, <2>3
    <2>5. Due(l) /\ o.lastFlush_ = l.lastFlush_
      BY <2>4 DEF Waits, Appends
    <2>6. o.count_ = l.count_ + 1
      BY <1>5, <2>5 DEF Stayed
    <2>7. CASE i = Len(f) + 1
      BY <1>2, <2>1, <2>2, <2>6, <2>7 DEF g
    <2>8. CASE i \in 1 .. Len(f)
      <3>1. \A k \in i .. Len(f) : Waits(l, f[k])
        <4>1. SUFFICES ASSUME NEW k \in i .. Len(f) PROVE Waits(l, f[k])
          OBVIOUS
        <4>2. k \in i .. Len(g) /\ k \in 1 .. Len(f)
          BY <2>2, <2>8
        <4>3. Waits(o, f[k])
          BY <2>2, <2>3, <4>2
        <4>4. QED
          BY <2>1, <2>5, <4>3 DEF Waits
      <3>2. Len(f) - i + 1 <= l.count_
        BY <1>1, <2>8, <3>1 DEF DueCounted, f
      <3>3. QED
        BY <1>2, <2>1, <2>2, <2>6, <2>8, <3>2 DEF g
    <2>9. QED
      BY <2>2, <2>3, <2>7, <2>8
  <1>6. QED
    BY <1>4, <1>5

\* The new line ends no run of lines that is too long or too late.
LEMMA FilesAfter ==
    ASSUME TypeOK, NEW l \in LogType, NEW fs \in [Names -> Seq(Lines)], NEW n \in Nat, NEW e, NEW gs,
           Appends(l, fs, n, e, gs), up, LateFits(l, fs), DueCounted(l, fs), FilesOK(fs)
    PROVE  FilesOK(gs)
  <1>1. /\ l.name \in Names /\ l.count_ \in 0 .. kCheckTimeRoll_ + 1 /\ kCheckTimeRoll_ \in Nat
        /\ e.run = restarts /\ e.since = l.lastRoll_ /\ e.synced = l.lastFlush_
    BY LoggerAssumption DEF LogType, Appends
  <1> DEFINE f == fs[l.name]
             g == gs[l.name]
  <1>2. /\ Len(f) \in Nat /\ Len(g) = Len(f) + 1 /\ g[Len(f) + 1] = e
        /\ \A k \in 1 .. Len(f) : g[k] = f[k]
    BY <1>1, Places2 DEF Appends
  <1>3. Fits(f) /\ Looked(f)
    BY <1>1 DEF FilesOK
  <1>4. rollSize_ > 0 \/ async =>
            \A i \in 1 .. Len(f) : f[i].run = restarts /\ f[i].since = l.lastRoll_ /\ f[i].late
                => Cardinality(Bytes(f, i, restarts, l.lastRoll_)) <= rollSize_
    BY DEF LateFits
  <1>5. \A i \in 1 .. Len(f) : (\A k \in i .. Len(f) : Waits(l, f[k])) => Len(f) - i + 1 <= l.count_
    BY DEF DueCounted
  <1> HIDE DEF f, g
  <1>6. Fits(g)
    <2>1. SUFFICES ASSUME rollSize_ > 0 \/ async, NEW i \in 1 .. Len(g), NEW j \in 1 .. Len(g), i < j,
                          SameOpening(g[i], g[j]), g[i].late
                   PROVE  Cardinality(Bytes(g, i, g[i].run, g[i].since)) <= rollSize_
      BY DEF Fits
    <2>2. i \in 1 .. Len(f) /\ g[i] = f[i]
      BY <1>2, <2>1
    <2>3. Bytes(g, i, g[i].run, g[i].since) = Bytes(f, i, f[i].run, f[i].since)
      <3>1. \A k \in 1 .. i : g[k] = f[k]
        BY <1>2, <2>2
      <3>2. Bytes(g, i, f[i].run, f[i].since) = Bytes(f, i, f[i].run, f[i].since)
        BY <2>2, <3>1, BytesSame, SMTT(30)
      <3>3. QED
        BY <2>2, <3>2
    <2>4. CASE j \in 1 .. Len(f)
      BY <1>2, <1>3, <2>1, <2>2, <2>3, <2>4 DEF Fits
    <2>5. CASE j = Len(f) + 1
      <3>1. f[i].run = restarts /\ f[i].since = l.lastRoll_ /\ f[i].late
        BY <1>1, <1>2, <2>1, <2>2, <2>5 DEF SameOpening
      <3>2. QED
        BY <1>4, <2>1, <2>2, <2>3, <3>1
    <2>6. QED
      BY <1>2, <2>4, <2>5
  <1>7. Looked(g)
    <2>1. SUFFICES ASSUME NEW i \in 1 .. Len(g), NEW j \in 1 .. Len(g), j = i + kCheckTimeRoll_ + 2,
                          \A k \in i .. j : g[k].due /\ SameOpening(g[k], g[i]) /\ g[k].synced = g[i].synced
                   PROVE  FALSE
      BY DEF Looked
    <2>2. i \in 1 .. Len(f) /\ g[i] = f[i]
      BY <1>1, <1>2, <2>1
    <2>3. CASE j \in 1 .. Len(f)
      <3>1. \A k \in i .. j : g[k] = f[k]
        BY <1>2, <2>2, <2>3
      <3>2. QED
        BY <1>3, <2>1, <2>2, <2>3, <3>1, SMTT(30) DEF Looked
    <2>4. CASE j = Len(f) + 1
      <3>0. j \in i .. j
        BY <1>1, <2>1
      <3>1. j \in i .. j /\ g[j] = e
        BY <1>2, <2>4, <3>0
      <3>2. g[i].run = restarts /\ g[i].since = l.lastRoll_ /\ g[i].synced = l.lastFlush_
        BY <1>1, <2>1, <3>1 DEF SameOpening
      <3>3. \A k \in i .. Len(f) : Waits(l, f[k])
        <4>1. SUFFICES ASSUME NEW k \in i .. Len(f) PROVE Waits(l, f[k])
          OBVIOUS
        <4>2. k \in i .. j /\ g[k] = f[k]
          BY <1>2, <2>2, <2>4
        <4>3. QED
          BY <2>1, <3>2, <4>2 DEF Waits, SameOpening
      <3>4. Len(f) - i + 1 <= l.count_
        BY <1>5, <2>2, <3>3
      <3>5. QED
        BY <1>1, <1>2, <2>1, <2>4, <3>4
    <2>5. QED
      BY <1>2, <2>3, <2>4
  <1>8. \A m \in Names : m # l.name => gs[m] = fs[m]
    BY DEF Appends
  <1>9. QED
    BY <1>6, <1>7, <1>8 DEF FilesOK, g

-----------------------------------------------------------------------------
(* A flush and an append keep the invariant.                               *)

LogAndFiles == [log : LogType, files : [Names -> Seq(Lines)]]

\* A flush changes only what is buffered.
LEMMA FlushKeeps ==
    ASSUME NEW l \in LogType, NEW fs \in [Names -> Seq(Lines)], NEW n, LogOK(l, fs, n)
    PROVE  Flush(l) \in LogType /\ LogOK(Flush(l), fs, n)
  <1> DEFINE o == Flush(l)
  <1>1. /\ o \in LogType /\ o.buffered = 0 /\ o.name = l.name /\ o.lastRoll_ = l.lastRoll_
        /\ o.lastFlush_ = l.lastFlush_ /\ o.count_ = l.count_ /\ o.writtenBytes_ = l.writtenBytes_
    BY DEF Flush, LogType
  <1>2. l.name \in Names
    BY DEF LogType
  <1> HIDE DEF o
  <1>3. \A m \in Names : \A i \in 1 .. Len(fs[m]) : ~IsBuffered(o, fs, m, i)
    <2>1. SUFFICES ASSUME NEW m \in Names, NEW i \in 1 .. Len(fs[m]), i > Len(fs[m]) - o.buffered PROVE FALSE
      BY DEF IsBuffered
    <2>2. fs[m] \in Seq(Lines)
      OBVIOUS
    <2>3. Len(fs[m]) \in Nat
      BY <2>2
    <2>4. QED
      BY <1>1, <2>1, <2>3
  <1>4. BufferedLast(o, fs)
    <2>1. fs[l.name] \in Seq(Lines)
      BY <1>2
    <2>2. o.buffered <= Len(fs[o.name])
      BY <1>1, <2>1
    <2>3. QED
      BY <1>3, <2>2 DEF BufferedLast
  <1>5. AbortsFlushed(o, fs)
    BY <1>1, <1>2, <1>3 DEF AbortsFlushed
  <1>6. Since(o, fs) /\ Counted(o, fs) /\ LateFits(o, fs)
    BY <1>1 DEF LogOK, Since, Counted, LateFits
  <1>7. DueCounted(o, fs)
    BY <1>1 DEF LogOK, DueCounted, Waits
  <1>8. QED
    BY <1>1, <1>4, <1>5, <1>6, <1>7 DEF LogOK, o

\* What append_unlocked does, in the words of the lemmas above.
LEMMA AppendIs ==
    ASSUME TypeOK, NEW s \in LogAndFiles, NEW n \in Nat, NEW len \in Sizes
    PROVE  LET d == AppendUnlocked(s, n + 1, len)
           IN  /\ d.log = After(LogFileAppend(s.log, len))
               /\ d \in LogAndFiles
               /\ \E e : Appends(s.log, s.files, n, e, d.files) /\ e.len = len
  <1> DEFINE d == AppendUnlocked(s, n + 1, len)
             l == s.log
             fs == s.files
             a == LogFileAppend(l, len)
             e == [no |-> n + 1, len |-> len, run |-> restarts, late |-> Late(a),
                   due |-> Due(a), since |-> a.lastRoll_, synced |-> a.lastFlush_]
             gs == [fs EXCEPT ![a.name] = Append(@, e)]
  <1>1. d = [log |-> After(a), files |-> gs]
    BY DEF AppendUnlocked, After
  <1>2. l \in LogType /\ fs \in [Names -> Seq(Lines)]
    BY DEF LogAndFiles
  <1>3. /\ a.lastRoll_ = l.lastRoll_ /\ a.lastFlush_ = l.lastFlush_ /\ a.name = l.name
    BY <1>2 DEF LogFileAppend, LogType
  <1>4. l.name \in Names /\ l.lastRoll_ \in Nat /\ l.lastFlush_ \in Nat
    BY <1>2 DEF LogType
  <1>5. After(a) \in LogType
    BY <1>2, Outcome
  <1>6. Late(a) = Late(l) /\ Due(a) = Due(l) /\ Late(a) \in BOOLEAN /\ Due(a) \in BOOLEAN
    BY <1>3 DEF Late, Due
  <1>7. e \in Lines
    <2>1. n + 1 \in Nat /\ restarts \in Nat /\ a.lastRoll_ \in Nat /\ a.lastFlush_ \in Nat
      BY <1>3, <1>4 DEF TypeOK
    <2> HIDE DEF a
    <2>2. QED
      BY <1>6, <2>1 DEF Lines
  <1>8. /\ e.no = n + 1 /\ e.run = restarts /\ e.late = Late(l) /\ e.due = Due(l)
        /\ e.since = l.lastRoll_ /\ e.synced = l.lastFlush_ /\ e.len = len
    BY <1>3, <1>6
  <1> HIDE DEF a, e
  <1>9. fs[l.name] \in Seq(Lines) /\ Append(fs[l.name], e) \in Seq(Lines)
    BY <1>2, <1>4, <1>7
  <1>10. gs \in [Names -> Seq(Lines)]
    BY <1>2, <1>3, <1>4, <1>9
  <1>11. gs[l.name] = Append(fs[l.name], e) /\ \A m \in Names : m # l.name => gs[m] = fs[m]
    BY <1>2, <1>3, <1>4
  <1>12. /\ Len(Append(fs[l.name], e)) = Len(fs[l.name]) + 1
         /\ Append(fs[l.name], e)[Len(fs[l.name]) + 1] = e
         /\ \A i \in 1 .. Len(fs[l.name]) : Append(fs[l.name], e)[i] = fs[l.name][i]
    <2> DEFINE q == fs[l.name]
    <2>1. q \in Seq(Lines)
      BY <1>9
    <2> HIDE DEF q
    <2>2. /\ Len(Append(q, e)) = Len(q) + 1 /\ Append(q, e)[Len(q) + 1] = e
          /\ \A i \in 1 .. Len(q) : Append(q, e)[i] = q[i]
      BY <1>7, <2>1
    <2>3. QED
      BY <2>2 DEF q
  <1> HIDE DEF gs, l, fs
  <1>13. Appends(l, fs, n, e, gs)
    BY <1>7, <1>8, <1>10, <1>11, <1>12 DEF Appends
  <1> HIDE DEF d
  <1>14. d.log = After(a) /\ d.files = gs /\ d \in LogAndFiles
    BY <1>1, <1>5, <1>10 DEF LogAndFiles
  <1>15. QED
    BY <1>8, <1>13, <1>14 DEF d, a, l, fs

\* An append keeps what holds of the log and the files.
LEMMA AppendKeeps ==
    ASSUME TypeOK, up, NEW s \in LogAndFiles, NEW n \in Nat, NEW len \in Sizes, LogOK(s.log, s.files, n),
           \A t \in Threads : pc[t] = "abort" => fatal[t] <= n
    PROVE  /\ AppendUnlocked(s, n + 1, len) \in LogAndFiles
           /\ LogOK(AppendUnlocked(s, n + 1, len).log, AppendUnlocked(s, n + 1, len).files, n + 1)
  <1> DEFINE d == AppendUnlocked(s, n + 1, len)
             l == s.log
             fs == s.files
             o == d.log
             gs == d.files
  <1>1. l \in LogType /\ fs \in [Names -> Seq(Lines)]
    BY DEF LogAndFiles
  <1>2. d \in LogAndFiles /\ o = After(LogFileAppend(l, len))
        /\ \E e : Appends(l, fs, n, e, gs) /\ e.len = len
    BY AppendIs
  <1>3. PICK e : Appends(l, fs, n, e, gs) /\ e.len = len
    BY <1>2
  <1>4. o \in LogType
    BY <1>2 DEF LogAndFiles
  <1>5. Rolled(l, o) \/ Stayed(l, o, e.len)
    BY <1>1, <1>2, <1>3, Outcome
  <1>6. LogOK(l, fs, n)
    OBVIOUS
  <1>7. restarts \in Nat /\ \A t \in Threads : pc[t] = "abort" => fatal[t] \in Nat /\ fatal[t] <= n
    BY DEF TypeOK
  <1> HIDE DEF d, l, fs, o, gs
  <1>8. Numbered(gs, n + 1) /\ Kept(gs, n + 1) /\ LostLast(gs)
    BY <1>1, <1>3, <1>6, <1>7, NumberedAfter DEF LogOK
  <1>9. BufferedLast(o, gs) /\ AbortsFlushed(o, gs)
    BY <1>1, <1>3, <1>4, <1>5, <1>6, <1>7, BufferedAfter DEF LogOK
  <1>10. Since(o, gs)
    BY <1>1, <1>3, <1>4, <1>5, <1>6, SinceAfter DEF LogOK
  <1>11. Counted(o, gs)
    BY <1>1, <1>3, <1>4, <1>5, <1>6, CountedAfter DEF LogOK
  <1>12. LateFits(o, gs)
    BY <1>1, <1>3, <1>4, <1>5, <1>6, <1>11, LateFitsAfter DEF LogOK
  <1>13. DueCounted(o, gs)
    BY <1>1, <1>3, <1>4, <1>5, <1>6, DueCountedAfter DEF LogOK
  <1>14. FilesOK(gs)
    BY <1>1, <1>3, <1>6, FilesAfter DEF LogOK
  <1>15. LogOK(o, gs, n + 1)
    BY <1>8, <1>9, <1>10, <1>11, <1>12, <1>13, <1>14 DEF LogOK
  <1>16. QED
    BY <1>2, <1>15 DEF d, o, gs

-----------------------------------------------------------------------------
(* The steps.                                                              *)

\* A step that leaves the process as it is.
LEMMA Carried ==
    ASSUME LogOK(log', files', appended'), UNCHANGED <<async, up, lost, restarts>>, AbortsFlushed(log, files)'
    PROVE  LogOK(log, files, appended)'
  <1>1. async' = async /\ up' = up /\ lost' = lost /\ restarts' = restarts
    OBVIOUS
  <1>2. Numbered(files, appended)'
    <2>1. Numbered(files', appended')
      BY DEF LogOK
    <2>2. QED
      BY <1>1, <2>1 DEF Numbered, InOrder
  <1>3. Kept(files, appended)'
    <2>1. Kept(files', appended')
      BY DEF LogOK
    <2>2. QED
      BY <1>1, <2>1 DEF Kept
  <1>4. LostLast(files)'
    <2>1. LostLast(files')
      BY DEF LogOK
    <2>2. QED
      BY <1>1, <2>1 DEF LostLast
  <1>5. BufferedLast(log, files)'
    <2>1. BufferedLast(log', files')
      BY DEF LogOK
    <2>2. QED
      BY <2>1 DEF BufferedLast, IsBuffered
  <1>6. Since(log, files)'
    <2>1. Since(log', files')
      BY DEF LogOK
    <2>2. QED
      BY <1>1, <2>1 DEF Since
  <1>7. Counted(log, files)'
    <2>1. Counted(log', files')
      BY DEF LogOK
    <2>2. QED
      BY <1>1, <2>1 DEF Counted, Bytes, BytesOf, Opened
  <1>8. LateFits(log, files)'
    <2>1. LateFits(log', files')
      BY DEF LogOK
    <2>2. QED
      BY <1>1, <2>1 DEF LateFits, Bytes, BytesOf, Opened
  <1>9. DueCounted(log, files)'
    <2>1. DueCounted(log', files')
      BY DEF LogOK
    <2>2. QED
      BY <1>1, <2>1 DEF DueCounted, Waits
  <1>10. FilesOK(files)'
    <2>1. FilesOK(files')
      BY DEF LogOK
    <2>2. QED
      BY <1>1, <2>1 DEF FilesOK, Fits, Looked, Bytes, BytesOf, Opened, SameOpening
  <1>11. QED
    BY <1>2, <1>3, <1>4, <1>5, <1>6, <1>7, <1>8, <1>9, <1>10 DEF LogOK

\* A step that does not touch the log, the files or the process, and makes no
\* thread abort.
LEMMA Untouched ==
    ASSUME LogOK(log, files, appended),
           UNCHANGED <<async, up, log, files, fatal, appended, lost, restarts>>,
           \A t \in Threads : pc'[t] = "abort" => pc[t] = "abort"
    PROVE  LogOK(log, files, appended)'
  <1>1. LogOK(log', files', appended')
    <2>1. log' = log /\ files' = files /\ appended' = appended
      OBVIOUS
    <2>2. QED
      BY <2>1
  <1>2. AbortsFlushed(log, files)'
    BY DEF LogOK, AbortsFlushed, IsBuffered
  <1>3. QED
    BY <1>1, <1>2, Carried

\* A message is made: the text of the second is the second.
LEMMA MakeKeeps == ASSUME IInv, NEW t \in Threads, Make(t) PROVE IInv'
  <1>1. TypeOK'
    BY DEF IInv, TypeOK, Make
  <1>2. ThreadsOK'
    BY DEF IInv, TypeOK, ThreadsOK, Make
  <1>3. \A u \in Threads : pc'[u] = "abort" => pc[u] = "abort"
    BY DEF IInv, TypeOK, Make
  <1>4. LogOK(log, files, appended)'
    BY <1>3, Untouched DEF IInv, Make
  <1>5. QED
    BY <1>1, <1>2, <1>4 DEF IInv

\* The clock is no part of what holds of the log.
LEMMA ClockKeeps == ASSUME IInv, Tick \/ SetBack PROVE IInv'
  <1>1. TypeOK'
    BY LoggerAssumption DEF IInv, TypeOK, Tick, SetBack
  <1>2. ThreadsOK'
    BY DEF IInv, ThreadsOK, Tick, SetBack
  <1>3. LogOK(log, files, appended)'
    BY Untouched DEF IInv, Tick, SetBack
  <1>4. QED
    BY <1>1, <1>2, <1>3 DEF IInv

\* A message is appended; if it is FATAL, its number is the last.
LEMMA FinishKeeps == ASSUME IInv, NEW t \in Threads, Finish(t) PROVE IInv'
  <1> DEFINE s == [log |-> log, files |-> files]
  <1>1. s \in LogAndFiles /\ LogOK(s.log, s.files, appended) /\ up /\ appended \in Nat /\ TypeOK
    BY DEF IInv, TypeOK, LogAndFiles, Finish
  <1>2. PICK len \in Sizes : /\ log' = AppendUnlocked(s, appended + 1, len).log
                             /\ files' = AppendUnlocked(s, appended + 1, len).files
    BY DEF Finish
  <1>3. \A u \in Threads : pc[u] = "abort" => fatal[u] <= appended
    BY DEF IInv, ThreadsOK
  <1>4. appended' = appended + 1
    BY DEF Finish
  <1> HIDE DEF s
  <1>5. /\ AppendUnlocked(s, appended + 1, len) \in LogAndFiles
        /\ LogOK(AppendUnlocked(s, appended + 1, len).log, AppendUnlocked(s, appended + 1, len).files,
                 appended + 1)
    BY <1>1, <1>3, AppendKeeps
  <1>6. log' \in LogType /\ files' \in [Names -> Seq(Lines)]
    BY <1>2, <1>5 DEF LogAndFiles
  <1>7. LogOK(log', files', appended')
    BY <1>2, <1>4, <1>5
  <1>a. /\ UNCHANGED <<clock, async, up, t_lastSecond, t_time, lost, setBacks, restarts>>
        /\ \/ pc' = [pc EXCEPT ![t] = "flush"] /\ fatal' = [fatal EXCEPT ![t] = appended + 1]
           \/ pc' = [pc EXCEPT ![t] = "idle"] /\ fatal' = fatal
    BY DEF Finish
  <1>8. TypeOK'
    <2>1. appended' \in Nat /\ appended + 1 \in Nat
      BY <1>1, <1>4
    <2>2. pc' \in [Threads -> {"idle", "made", "flush", "abort"}] /\ fatal' \in [Threads -> Nat]
      BY <1>1, <1>a, <2>1 DEF TypeOK
    <2>3. QED
      BY <1>1, <1>6, <1>a, <2>1, <2>2 DEF TypeOK
  <1>9. ThreadsOK'
    <2>1. \A u \in Threads : pc[u] \in {"flush", "abort"} => fatal[u] \in Nat /\ fatal[u] <= appended
      BY <1>1 DEF IInv, ThreadsOK, TypeOK
    <2>2. ASSUME NEW u \in Threads, pc'[u] \in {"flush", "abort"} PROVE fatal'[u] <= appended'
      <3>1. CASE u = t
        BY <1>1, <1>4, <1>a, <2>2, <3>1 DEF TypeOK
      <3>2. CASE u # t
        <4>1. pc'[u] = pc[u] /\ fatal'[u] = fatal[u]
          BY <1>1, <1>a, <3>2 DEF TypeOK
        <4>2. QED
          BY <1>1, <1>4, <2>1, <2>2, <4>1
      <3>3. QED
        BY <3>1, <3>2
    <2>3. \A u \in Threads : t_lastSecond'[u] # 0 => t_time'[u] = t_lastSecond'[u]
      BY <1>a DEF IInv, ThreadsOK
    <2>4. up'
      BY <1>1, <1>a
    <2>5. QED
      BY <2>2, <2>3, <2>4 DEF ThreadsOK
  <1>10. AbortsFlushed(log, files)'
    <2>1. \A u \in Threads : pc'[u] = "abort" => pc[u] = "abort" /\ fatal'[u] = fatal[u]
      BY <1>1 DEF TypeOK, Finish
    <2>2. AbortsFlushed(log', files')
      BY <1>7 DEF LogOK
    <2>3. QED
      BY <2>1, <2>2 DEF AbortsFlushed, IsBuffered
  <1>11. LogOK(log, files, appended)'
    BY <1>7, <1>10, Carried DEF Finish
  <1>12. QED
    BY <1>8, <1>9, <1>11 DEF IInv

\* A thread that is about to abort has flushed.
LEMMA FlushFatalKeeps == ASSUME IInv, NEW t \in Threads, FlushFatal(t) PROVE IInv'
  <1>1. TypeOK /\ LogOK(log, files, appended) /\ log \in LogType /\ files \in [Names -> Seq(Lines)]
    BY DEF IInv, TypeOK
  <1>2. log' = Flush(log) /\ log' \in LogType /\ LogOK(log', files', appended')
    <2>1. Flush(log) \in LogType /\ LogOK(Flush(log), files, appended)
      BY <1>1, FlushKeeps
    <2>2. log' = Flush(log) /\ files' = files /\ appended' = appended
      BY DEF FlushFatal
    <2>3. QED
      BY <2>1, <2>2
  <1>3. TypeOK'
    BY <1>1, <1>2 DEF TypeOK, FlushFatal
  <1>4. ThreadsOK'
    BY <1>1 DEF IInv, TypeOK, ThreadsOK, FlushFatal
  <1>5. AbortsFlushed(log, files)'
    <2>1. log'.buffered = 0 /\ log'.name \in Names /\ files' \in [Names -> Seq(Lines)]
      BY <1>1, <1>2 DEF Flush, LogType, FlushFatal
    <2>2. files'[log'.name] \in Seq(Lines)
      BY <2>1
    <2>3. \A i \in 1 .. Len(files'[log'.name]) : ~(i > Len(files'[log'.name]) - log'.buffered)
      BY <2>1, <2>2
    <2>4. QED
      BY <2>3 DEF AbortsFlushed, IsBuffered
  <1>6. LogOK(log, files, appended)'
    BY <1>2, <1>5, Carried DEF FlushFatal
  <1>7. QED
    BY <1>3, <1>4, <1>6 DEF IInv

\* A batch is appended buffer by buffer.
LEMMA AppendBuffersKeeps == ASSUME IInv, AppendBuffers PROVE IInv'
  <1> DEFINE s == [log |-> log, files |-> files]
  <1>1. s \in LogAndFiles /\ LogOK(s.log, s.files, appended) /\ up /\ appended \in Nat /\ TypeOK
    BY DEF IInv, TypeOK, LogAndFiles, AppendBuffers
  <1>2. \A u \in Threads : pc[u] = "abort" => fatal[u] \in Nat /\ fatal[u] <= appended
    BY DEF IInv, TypeOK, ThreadsOK
  <1>a. PICK n \in 1 .. 2 : \E lens \in [1 .. n -> Sizes] :
            LET one == AppendUnlocked(s, appended + 1, lens[1])
                d == IF n = 1 THEN one ELSE AppendUnlocked(one, appended + 2, lens[2])
            IN  log' = Flush(d.log) /\ files' = d.files /\ appended' = appended + n
    BY DEF AppendBuffers
  <1>3. PICK lens \in [1 .. n -> Sizes] :
            LET one == AppendUnlocked(s, appended + 1, lens[1])
                d == IF n = 1 THEN one ELSE AppendUnlocked(one, appended + 2, lens[2])
            IN  log' = Flush(d.log) /\ files' = d.files /\ appended' = appended + n
    BY <1>a
  <1> DEFINE one == AppendUnlocked(s, appended + 1, lens[1])
             two == AppendUnlocked(one, appended + 2, lens[2])
  <1> HIDE DEF s
  <1>4. one \in LogAndFiles /\ LogOK(one.log, one.files, appended + 1)
    <2>1. lens[1] \in Sizes
      BY <1>3
    <2>2. QED
      BY <1>1, <1>2, <2>1, AppendKeeps
  <1> HIDE DEF one
  <1>5. n = 2 => two \in LogAndFiles /\ LogOK(two.log, two.files, appended + 2)
    <2>1. SUFFICES ASSUME n = 2 PROVE two \in LogAndFiles /\ LogOK(two.log, two.files, appended + 2)
      OBVIOUS
    <2>2. lens[2] \in Sizes
      BY <1>3, <2>1
    <2>3. appended + 1 \in Nat /\ appended + 2 = (appended + 1) + 1
      BY <1>1
    <2>4. \A u \in Threads : pc[u] = "abort" => fatal[u] <= appended + 1
      BY <1>1, <1>2
    <2> DEFINE m == appended + 1
    <2>5. m \in Nat /\ LogOK(one.log, one.files, m) /\ \A u \in Threads : pc[u] = "abort" => fatal[u] <= m
      BY <1>4, <2>3, <2>4
    <2> HIDE DEF m
    <2>6. /\ AppendUnlocked(one, m + 1, lens[2]) \in LogAndFiles
          /\ LogOK(AppendUnlocked(one, m + 1, lens[2]).log, AppendUnlocked(one, m + 1, lens[2]).files, m + 1)
      BY <1>1, <1>4, <2>2, <2>5, AppendKeeps
    <2>7. m + 1 = appended + 2
      BY <2>3 DEF m
    <2>8. QED
      BY <2>6, <2>7
  <1> HIDE DEF two
  <1>6. PICK d \in LogAndFiles : log' = Flush(d.log) /\ files' = d.files /\ LogOK(d.log, d.files, appended')
    <2>1. CASE n = 1
      BY <1>3, <1>4, <2>1 DEF one
    <2>2. CASE n = 2
      BY <1>3, <1>5, <2>2 DEF two, one
    <2>3. QED
      BY <2>1, <2>2
  <1>7. log' \in LogType /\ files' \in [Names -> Seq(Lines)] /\ LogOK(log', files', appended')
    <2>1. d.log \in LogType /\ d.files \in [Names -> Seq(Lines)]
      BY DEF LogAndFiles
    <2>2. Flush(d.log) \in LogType /\ LogOK(Flush(d.log), d.files, appended')
      BY <1>6, <2>1, FlushKeeps
    <2>3. QED
      BY <1>6, <2>1, <2>2
  <1>8. appended' \in Nat /\ appended <= appended'
    BY <1>1, <1>3
  <1>9. TypeOK'
    BY <1>1, <1>7, <1>8 DEF TypeOK, AppendBuffers
  <1>10. ThreadsOK'
    <2>1. \A u \in Threads : pc[u] \in {"flush", "abort"} => fatal[u] \in Nat /\ fatal[u] <= appended'
      BY <1>1, <1>8, SMTT(30) DEF IInv, TypeOK, ThreadsOK
    <2>2. QED
      BY <1>1, <2>1 DEF IInv, ThreadsOK, AppendBuffers
  <1>11. AbortsFlushed(log, files)'
    <2>1. AbortsFlushed(log', files')
      BY <1>7 DEF LogOK
    <2>2. QED
      BY <2>1, Zenon DEF AbortsFlushed, IsBuffered, AppendBuffers
  <1>12. LogOK(log, files, appended)'
    BY <1>7, <1>11, Carried DEF AppendBuffers
  <1>13. QED
    BY <1>9, <1>10, <1>12 DEF IInv

\* A file that is cut short is still as it should be.
LEMMA CutShort ==
    ASSUME NEW f \in Seq(Lines), NEW g \in Seq(Lines), Len(g) <= Len(f),
           \A i \in 1 .. Len(g) : g[i] = f[i], Fits(f), Looked(f)
    PROVE  Fits(g) /\ Looked(g)
  <1>1. Len(f) \in Nat /\ Len(g) \in Nat
    OBVIOUS
  <1>2. Fits(g)
    <2>1. SUFFICES ASSUME rollSize_ > 0 \/ async, NEW i \in 1 .. Len(g), NEW j \in 1 .. Len(g), i < j,
                          SameOpening(g[i], g[j]), g[i].late
                   PROVE  Cardinality(Bytes(g, i, g[i].run, g[i].since)) <= rollSize_
      BY DEF Fits
    <2>2. i \in 1 .. Len(f) /\ j \in 1 .. Len(f) /\ g[i] = f[i] /\ g[j] = f[j] /\ i \in Nat
      BY <1>1
    <2>3. \A k \in 1 .. i : g[k] = f[k]
      BY <1>1
    <2>4. Bytes(g, i, f[i].run, f[i].since) = Bytes(f, i, f[i].run, f[i].since)
      BY <2>2, <2>3, BytesSame
    <2>5. Cardinality(Bytes(f, i, f[i].run, f[i].since)) <= rollSize_
      BY <2>1, <2>2 DEF Fits
    <2>6. QED
      BY <2>2, <2>4, <2>5
  <1>3. Looked(g)
    <2>1. SUFFICES ASSUME NEW i \in 1 .. Len(g), NEW j \in 1 .. Len(g), j = i + kCheckTimeRoll_ + 2
                   PROVE  \E k \in i .. j : ~g[k].due \/ ~SameOpening(g[k], g[i]) \/ g[k].synced # g[i].synced
      BY DEF Looked
    <2>2. i \in 1 .. Len(f) /\ j \in 1 .. Len(f)
      BY <1>1
    <2>3. PICK k \in i .. j : ~f[k].due \/ ~SameOpening(f[k], f[i]) \/ f[k].synced # f[i].synced
      BY <2>1, <2>2 DEF Looked
    <2>4. g[k] = f[k] /\ g[i] = f[i]
      BY <1>1, <2>3
    <2>5. QED
      BY <2>3, <2>4
  <1>4. QED
    BY <1>2, <1>3

\* A process dies: what stdio buffered is lost.
LEMMA DieKeeps ==
    ASSUME IInv, Die, UNCHANGED <<clock, async, appended, setBacks, restarts>>
    PROVE  IInv'
  <1> DEFINE name == log.name
             f == files[name]
             k == Len(f) - log.buffered
             g == SubSeq(f, 1, k)
             dead == {[no |-> f[i].no, run |-> f[i].run] : i \in k + 1 .. Len(f)}
  <1>1. /\ TypeOK /\ log \in LogType /\ files \in [Names -> Seq(Lines)] /\ name \in Names
        /\ LogOK(log, files, appended)
    BY DEF IInv, TypeOK, LogType
  <1>2. f \in Seq(Lines) /\ Len(f) \in Nat /\ log.buffered \in Nat /\ log.buffered <= Len(f) /\ k \in Nat /\ k <= Len(f)
    <2>1. f \in Seq(Lines) /\ log.buffered \in Nat
      BY <1>1 DEF LogType
    <2>2. log.buffered <= Len(f) /\ Len(f) \in Nat
      BY <1>1, <2>1 DEF LogOK, BufferedLast
    <2>3. QED
      BY <2>1, <2>2
  <1>3. /\ files' = [files EXCEPT ![name] = g] /\ lost' = lost \cup dead /\ log' = Flush(log) /\ up' = FALSE
        /\ async' = async /\ restarts' = restarts /\ appended' = appended
    BY DEF Die
  <1>4. pc' = [t \in Threads |-> "idle"] /\ fatal' = [t \in Threads |-> 0]
        /\ t_lastSecond' = [t \in Threads |-> 0] /\ t_time' = [t \in Threads |-> -1]
    BY DEF Die, NoThreads
  <1>5. \A i \in 1 .. Len(f) : f[i] \in Lines /\ f[i].no \in Nat /\ f[i].run \in Nat
    <2>1. \A i \in 1 .. Len(f) : f[i] \in Lines
      BY <1>2
    <2>2. QED
      BY <2>1 DEF Lines
  <1> HIDE DEF f, k
  <1>6. g \in Seq(Lines) /\ Len(g) = k /\ \A i \in 1 .. k : g[i] = f[i]
    BY <1>2
  <1> HIDE DEF g
  <1>7. \A d \in dead : \E i \in 1 .. Len(f) : i > k /\ d = [no |-> f[i].no, run |-> f[i].run]
    BY <1>2
  <1>8. \A i \in 1 .. Len(f) : i > k => [no |-> f[i].no, run |-> f[i].run] \in dead
    BY <1>2
  <1> HIDE DEF dead
  <1>9. dead \subseteq [no : Nat, run : Nat]
    BY <1>5, <1>7
  <1>10. files' \in [Names -> Seq(Lines)] /\ files'[name] = g /\ \A m \in Names : m # name => files'[m] = files[m]
    BY <1>1, <1>3, <1>6
  <1>11. log' \in LogType /\ log'.buffered = 0 /\ log'.name = name
    BY <1>1, <1>3 DEF Flush, LogType
  <1>12. TypeOK'
    <2>1. /\ pc' \in [Threads -> {"idle", "made", "flush", "abort"}] /\ fatal' \in [Threads -> Nat]
          /\ t_lastSecond' \in [Threads -> Nat] /\ t_time' \in [Threads -> Int]
      BY <1>4
    <2>2. lost' \subseteq [no : Nat, run : Nat]
      BY <1>1, <1>3, <1>9 DEF TypeOK
    <2>3. clock' \in 0 .. MaxClock /\ async' \in BOOLEAN /\ up' \in BOOLEAN /\ appended' \in Nat /\ restarts' \in Nat
      BY <1>1, <1>3 DEF TypeOK
    <2>4. QED
      BY <1>10, <1>11, <2>1, <2>2, <2>3 DEF TypeOK
  <1>13. ThreadsOK'
    BY <1>4 DEF ThreadsOK
  \* What stays in the files was there, and was not buffered.
  <1>14. ASSUME NEW m \in Names
         PROVE  /\ Len(files'[m]) \in Nat /\ Len(files[m]) \in Nat /\ Len(files'[m]) <= Len(files[m])
                /\ \A i \in 1 .. Len(files'[m]) : /\ i \in 1 .. Len(files[m]) /\ files'[m][i] = files[m][i]
                                                 /\ ~IsBuffered(log, files, m, i)
    <2>1. CASE m # name
      <3>1. files[m] \in Seq(Lines) /\ files'[m] = files[m]
        BY <1>1, <1>10, <2>1
      <3>2. QED
        BY <2>1, <3>1 DEF IsBuffered
    <2>2. CASE m = name
      BY <1>2, <1>6, <1>10, <2>2, SMTT(30) DEF IsBuffered, f, k
    <2>3. QED
      BY <2>1, <2>2
  <1>15. Numbered(files, appended)'
    <2>1. \A m \in Names : \A i, j \in 1 .. Len(files'[m]) : i < j => files'[m][i].no < files'[m][j].no
      BY <1>1, <1>14 DEF LogOK, Numbered, InOrder
    <2>2. \A m \in Names : \A i \in 1 .. Len(files'[m]) :
              files'[m][i].no \in 1 .. appended /\ files'[m][i].run <= restarts
      BY <1>1, <1>14 DEF LogOK, Numbered
    <2>3. ASSUME NEW m \in Names, NEW p \in Names, m # p,
                 NEW i \in 1 .. Len(files'[m]), NEW j \in 1 .. Len(files'[p])
          PROVE  files'[m][i].no # files'[p][j].no
      <3>1. i \in 1 .. Len(files[m]) /\ files'[m][i] = files[m][i]
        BY <1>14
      <3>2. j \in 1 .. Len(files[p]) /\ files'[p][j] = files[p][j]
        BY <1>14
      <3>3. files[m][i].no # files[p][j].no
        BY <1>1, <2>3, <3>1, <3>2 DEF LogOK, Numbered
      <3>4. QED
        BY <3>1, <3>2, <3>3
    <2>4. ASSUME NEW b \in lost' PROVE b.no \in 1 .. appended /\ b.run <= restarts
      <3>1. CASE b \in lost
        BY <1>1, <3>1 DEF LogOK, Numbered
      <3>2. CASE b \in dead
        <4>1. PICK i \in 1 .. Len(f) : b = [no |-> f[i].no, run |-> f[i].run]
          BY <1>7, <3>2
        <4>2. f[i].no \in 1 .. appended /\ f[i].run <= restarts
          BY <1>1 DEF LogOK, Numbered, f
        <4>3. QED
          BY <4>1, <4>2
      <3>3. QED
        BY <1>3, <3>1, <3>2
    <2>5. QED
      BY <1>3, <2>1, <2>2, <2>3, <2>4 DEF Numbered, InOrder
  <1>16. Kept(files, appended)'
    <2>1. SUFFICES ASSUME NEW x \in 1 .. appended
                   PROVE  \/ \E m \in Names : \E i \in 1 .. Len(files'[m]) : files'[m][i].no = x
                          \/ \E b \in lost' : b.no = x
      BY <1>3 DEF Kept
    <2>2. CASE \E b \in lost : b.no = x
      BY <1>3, <2>2
    <2>3. CASE \E m \in Names : \E i \in 1 .. Len(files[m]) : files[m][i].no = x
      <3>1. PICK m \in Names : \E i \in 1 .. Len(files[m]) : files[m][i].no = x
        BY <2>3
      <3>2. PICK i \in 1 .. Len(files[m]) : files[m][i].no = x
        BY <3>1
      <3>3. CASE m # name
        BY <1>10, <3>1, <3>3
      <3>4. CASE m = name /\ i <= k
        <4>1. i \in 1 .. Len(files'[m]) /\ files'[m][i] = files[m][i]
          BY <1>2, <1>6, <1>10, <3>4 DEF f
        <4>2. QED
          BY <3>2, <4>1
      <3>5. CASE m = name /\ i > k
        <4>1. [no |-> f[i].no, run |-> f[i].run] \in lost'
          BY <1>3, <1>8, <3>5 DEF f
        <4>2. QED
          BY <3>2, <3>5, <4>1 DEF f
      <3>6. QED
        BY <1>2, <3>3, <3>4, <3>5
    <2>4. QED
      BY <1>1, <2>2, <2>3 DEF LogOK, Kept
  <1>17. LostLast(files)'
    <2>1. SUFFICES ASSUME NEW m \in Names, NEW i \in 1 .. Len(files'[m]), NEW b \in lost', files'[m][i].run = b.run
                   PROVE  files'[m][i].no < b.no
      BY DEF LostLast
    <2>2. i \in 1 .. Len(files[m]) /\ files'[m][i] = files[m][i] /\ ~IsBuffered(log, files, m, i)
      BY <1>14
    <2>3. CASE b \in lost
      BY <1>1, <2>1, <2>2, <2>3 DEF LogOK, LostLast
    <2>4. CASE b \in dead
      <3>1. PICK j \in 1 .. Len(f) : j > k /\ b = [no |-> f[j].no, run |-> f[j].run]
        BY <1>7, <2>4
      <3>2. IsBuffered(log, files, name, j)
        BY <3>1 DEF IsBuffered, f, k
      <3>3. files[m][i].no < files[name][j].no
        BY <1>1, <2>2, <3>1, <3>2 DEF LogOK, BufferedLast, f
      <3>4. QED
        BY <2>2, <3>1, <3>3 DEF f
    <2>5. QED
      BY <1>3, <2>3, <2>4
  <1>18. BufferedLast(log, files)' /\ AbortsFlushed(log, files)'
    <2>1. \A m \in Names : \A i \in 1 .. Len(files'[m]) : ~(i > Len(files'[m]) - log'.buffered)
      BY <1>11, <1>14
    <2>2. log'.buffered <= Len(files'[log'.name])
      BY <1>1, <1>11, <1>14
    <2>3. BufferedLast(log, files)'
      BY <2>1, <2>2 DEF BufferedLast, IsBuffered
    <2>4. AbortsFlushed(log, files)'
      BY <1>4 DEF AbortsFlushed
    <2>5. QED
      BY <2>3, <2>4
  <1>19. Since(log, files)' /\ Counted(log, files)' /\ LateFits(log, files)' /\ DueCounted(log, files)'
    BY <1>3 DEF Since, Counted, LateFits, DueCounted
  <1>20. FilesOK(files)'
    <2>1. ASSUME NEW m \in Names PROVE Fits(files'[m]) /\ Looked(files'[m])
      <3>1. files[m] \in Seq(Lines) /\ files'[m] \in Seq(Lines)
        BY <1>1, <1>10
      <3>2. Fits(files[m]) /\ Looked(files[m])
        BY <1>1 DEF LogOK, FilesOK
      <3>3. QED
        BY <1>14, <3>1, <3>2, CutShort
    <2>2. FilesOK(files')
      BY <2>1 DEF FilesOK
    <2>3. async' = async
      BY <1>3
    <2>4. QED
      BY <2>2, <2>3 DEF FilesOK, Fits, Looked, Bytes, BytesOf, Opened, SameOpening
  <1>21. QED
    BY <1>12, <1>13, <1>15, <1>16, <1>17, <1>18, <1>19, <1>20 DEF IInv, LogOK

\* The log of a new process.
LEMMA FreshRolled ==
    ASSUME clock \in Nat, clock > 0
    PROVE  RollFile(Fresh, clock) = [count_ |-> 0, lastRoll_ |-> clock, lastFlush_ |-> clock,
                                     name |-> Name(clock), writtenBytes_ |-> 0, buffered |-> 0]
  BY DEF RollFile, OpenFile, Fresh

\* A new process: no line is of its openings yet.
LEMMA RestartKeeps == ASSUME IInv, Restart PROVE IInv'
  <1>1. /\ TypeOK /\ ThreadsOK /\ files \in [Names -> Seq(Lines)] /\ LogOK(log, files, appended)
        /\ clock \in Nat /\ clock > 0 /\ restarts \in Nat /\ ~up
    BY LoggerAssumption DEF IInv, TypeOK, Restart
  <1>2. /\ files' = files /\ lost' = lost /\ async' = async /\ appended' = appended /\ pc' = pc
        /\ fatal' = fatal /\ restarts' = restarts + 1
    BY DEF Restart
  <1>3. /\ log' = [count_ |-> 0, lastRoll_ |-> clock, lastFlush_ |-> clock, name |-> Name(clock),
                   writtenBytes_ |-> 0, buffered |-> 0]
    BY <1>1, FreshRolled DEF Restart
  <1>4. Name(clock) \in Names
    BY <1>1, NameIs
  <1>5. log' \in LogType /\ log'.buffered = 0 /\ log'.name \in Names /\ log'.writtenBytes_ = 0
    BY <1>1, <1>3, <1>4, LoggerAssumption DEF LogType
  <1>6. TypeOK'
    BY <1>1, <1>5 DEF TypeOK, Restart
  <1>7. ThreadsOK'
    BY <1>1 DEF ThreadsOK, Restart
  <1>8. \A m \in Names : Len(files[m]) \in Nat /\ \A i \in 1 .. Len(files[m]) :
            files[m][i].run \in Nat /\ files[m][i].run < restarts' /\ files[m][i].run # restarts'
    <2>1. SUFFICES ASSUME NEW m \in Names
                   PROVE  Len(files[m]) \in Nat /\ \A i \in 1 .. Len(files[m]) :
                              files[m][i].run \in Nat /\ files[m][i].run < restarts' /\ files[m][i].run # restarts'
      OBVIOUS
    <2>2. files[m] \in Seq(Lines)
      BY <1>1
    <2>3. \A i \in 1 .. Len(files[m]) : files[m][i].run \in Nat
      <3>1. \A i \in 1 .. Len(files[m]) : files[m][i] \in Lines
        BY <2>2
      <3>2. QED
        BY <3>1 DEF Lines
    <2>4. \A i \in 1 .. Len(files[m]) : files[m][i].run <= restarts
      BY <1>1 DEF LogOK, Numbered
    <2>5. QED
      BY <1>1, <1>2, <2>2, <2>3, <2>4
  <1>9. Numbered(files, appended)'
    <2>1. \A b \in lost : b.no \in 1 .. appended /\ b.run <= restarts /\ b.run \in Nat
      BY <1>1 DEF LogOK, Numbered, TypeOK
    <2>2. \A b \in lost : b.no \in 1 .. appended /\ b.run <= restarts' /\ b.run < restarts'
      BY <1>1, <1>2, <2>1
    <2>3. \A m \in Names : \A i \in 1 .. Len(files[m]) :
              files[m][i].no \in 1 .. appended /\ files[m][i].run <= restarts'
      BY <1>1, <1>2, <1>8 DEF LogOK, Numbered
    <2>4. /\ \A m \in Names : InOrder(files[m])
          /\ \A m, p \in Names : m # p =>
                \A i \in 1 .. Len(files[m]), j \in 1 .. Len(files[p]) : files[m][i].no # files[p][j].no
      BY <1>1 DEF LogOK, Numbered
    <2>5. QED
      BY <1>2, <2>2, <2>3, <2>4 DEF Numbered, InOrder
  <1>10. Kept(files, appended)' /\ LostLast(files)'
    BY <1>1, <1>2 DEF LogOK, Kept, LostLast
  <1>11. \A m \in Names : \A i \in 1 .. Len(files'[m]) : ~(i > Len(files'[m]) - log'.buffered)
    BY <1>2, <1>5, <1>8
  <1>12. BufferedLast(log, files)' /\ AbortsFlushed(log, files)'
    <2>1. log'.buffered <= Len(files'[log'.name])
      BY <1>2, <1>5, <1>8
    <2>2. BufferedLast(log, files)'
      BY <1>11, <2>1 DEF BufferedLast, IsBuffered
    <2>3. AbortsFlushed(log, files)'
      BY <1>5, <1>11 DEF AbortsFlushed, IsBuffered
    <2>4. QED
      BY <2>2, <2>3
  <1>13. Since(log, files)' /\ LateFits(log, files)'
    BY <1>2, <1>5, <1>8 DEF Since, LateFits
  <1>14. Counted(log, files)'
    <2>1. Opened(files[log'.name], Len(files[log'.name]), restarts', log'.lastRoll_) = {}
      BY <1>5, <1>8 DEF Opened
    <2>2. Bytes(files[log'.name], Len(files[log'.name]), restarts', log'.lastRoll_) = {}
      BY <2>1 DEF Bytes, BytesOf
    <2>3. Cardinality({}) = 0
      BY FS_EmptySet
    <2>4. Cardinality(Bytes(files'[log'.name], Len(files'[log'.name]), restarts', log'.lastRoll_)) = log'.writtenBytes_
      BY <1>2, <1>5, <2>2, <2>3
    <2>5. QED
      BY <2>4 DEF Counted, Bytes, BytesOf, Opened
  <1>15. DueCounted(log, files)'
    <2>1. SUFFICES ASSUME NEW i \in 1 .. Len(files'[log'.name]),
                          \A k \in i .. Len(files'[log'.name]) : Waits(log, files[log.name][k])'
                   PROVE  FALSE
      BY DEF DueCounted, Waits
    <2>2. i \in i .. Len(files'[log'.name]) /\ i \in 1 .. Len(files[log'.name])
      BY <1>2, <1>5, <1>8
    <2>3. QED
      BY <1>2, <1>5, <1>8, <2>1, <2>2 DEF Waits
  <1>16. FilesOK(files)'
    <2>1. FilesOK(files')
      BY <1>1, <1>2 DEF LogOK
    <2>2. QED
      BY <1>2, <2>1 DEF FilesOK, Fits, Looked, Bytes, BytesOf, Opened, SameOpening
  <1>17. QED
    BY <1>6, <1>7, <1>9, <1>10, <1>12, <1>13, <1>14, <1>15, <1>16 DEF IInv, LogOK

\* The invariant holds of an empty log.
LEMMA InitHolds == ASSUME Init PROVE IInv
  <1>1. /\ clock = 1 /\ files = [n \in Names |-> << >>] /\ lost = {} /\ appended = 0 /\ restarts = 0
        /\ async \in BOOLEAN /\ up = TRUE
        /\ pc = [t \in Threads |-> "idle"] /\ fatal = [t \in Threads |-> 0]
        /\ t_lastSecond = [t \in Threads |-> 0] /\ t_time = [t \in Threads |-> -1]
    BY DEF Init, NoThreads
  <1>2. clock \in 0 .. MaxClock
    BY <1>1, LoggerAssumption
  <1>3. log = [count_ |-> 0, lastRoll_ |-> clock, lastFlush_ |-> clock, name |-> Name(clock),
               writtenBytes_ |-> 0, buffered |-> 0]
    <2>1. log = RollFile(Fresh, clock) /\ clock \in Nat /\ clock > 0
      BY <1>1 DEF Init
    <2>2. QED
      BY <2>1, FreshRolled
  <1>4. Name(clock) \in Names
    BY <1>2, LoggerAssumption DEF Name, Names
  <1>5. log \in LogType /\ log.buffered = 0 /\ log.name \in Names /\ log.writtenBytes_ = 0
    BY <1>2, <1>3, <1>4, LoggerAssumption DEF LogType
  <1>6. \A m \in Names : files[m] = << >>
    BY <1>1
  <1>7. \A m \in Names : files[m] \in Seq(Lines) /\ Len(files[m]) = 0 /\ 1 .. Len(files[m]) = {}
    <2>1. << >> \in Seq(Lines) /\ Len(<< >>) = 0 /\ 1 .. 0 = {}
      OBVIOUS
    <2>2. QED
      BY <1>6, <2>1
  <1>8. TypeOK
    <2>1. files \in [Names -> Seq(Lines)]
      BY <1>1, <1>7
    <2>2. QED
      BY <1>1, <1>2, <1>5, <2>1 DEF TypeOK
  <1>9. ThreadsOK
    BY <1>1 DEF ThreadsOK
  <1>10. Numbered(files, appended) /\ Kept(files, appended) /\ LostLast(files)
    BY <1>1, <1>7 DEF Numbered, InOrder, Kept, LostLast
  <1>11. BufferedLast(log, files) /\ AbortsFlushed(log, files)
    BY <1>5, <1>7 DEF BufferedLast, AbortsFlushed
  <1>12. Since(log, files) /\ LateFits(log, files) /\ DueCounted(log, files)
    BY <1>5, <1>7 DEF Since, LateFits, DueCounted
  <1>13. Counted(log, files)
    <2>1. Bytes(files[log.name], Len(files[log.name]), restarts, log.lastRoll_) = {}
      BY <1>5, <1>7 DEF Bytes, BytesOf, Opened
    <2>2. Cardinality({}) = 0
      BY FS_EmptySet
    <2>3. QED
      BY <1>5, <2>1, <2>2 DEF Counted
  <1>14. FilesOK(files)
    BY <1>7 DEF FilesOK, Fits, Looked
  <1>15. QED
    BY <1>8, <1>9, <1>10, <1>11, <1>12, <1>13, <1>14 DEF IInv, LogOK

\* Every step keeps the invariant.
LEMMA NextKeeps == ASSUME IInv, [Next]_vars PROVE IInv'
  <1>1. ASSUME NEW t \in Threads, Make(t) PROVE IInv'
    BY <1>1, MakeKeeps
  <1>2. ASSUME NEW t \in Threads, Finish(t) PROVE IInv'
    BY <1>2, FinishKeeps
  <1>3. ASSUME NEW t \in Threads, FlushFatal(t) PROVE IInv'
    BY <1>3, FlushFatalKeeps
  <1>4. ASSUME NEW t \in Threads, Abort(t) PROVE IInv'
    BY <1>4, DieKeeps DEF Abort
  <1>5. CASE AppendBuffers
    BY <1>5, AppendBuffersKeeps
  <1>6. CASE Kill
    BY <1>6, DieKeeps DEF Kill
  <1>7. CASE Restart
    BY <1>7, RestartKeeps
  <1>8. CASE Tick \/ SetBack
    BY <1>8, ClockKeeps
  <1>9. CASE UNCHANGED vars
    <2>1. LogOK(log, files, appended)'
      BY <1>9, Untouched DEF IInv, vars
    <2>2. TypeOK' /\ ThreadsOK'
      BY <1>9 DEF IInv, vars, TypeOK, ThreadsOK
    <2>3. QED
      BY <2>1, <2>2 DEF IInv
  <1>10. QED
    BY <1>1, <1>2, <1>3, <1>4, <1>5, <1>6, <1>7, <1>8, <1>9 DEF Next

-----------------------------------------------------------------------------
(* The theorems.                                                           *)

\* The inductive invariant holds of every behaviour.
THEOREM Inductive == Spec => []IInv
  <1>1. Init => IInv
    BY InitHolds
  <1>2. IInv /\ [Next]_vars => IInv'
    BY NextKeeps
  <1>3. QED
    BY <1>1, <1>2, PTL DEF Spec

\* A file has its lines at the places 1 to Len.
LEMMA Domains ==
    ASSUME TypeOK, NEW m \in Names
    PROVE  /\ files[m] \in Seq(Lines) /\ Len(files[m]) \in Nat /\ DOMAIN files[m] = 1 .. Len(files[m])
           /\ \A a : a \in Range(files[m]) <=> \E i \in 1 .. Len(files[m]) : a = files[m][i]
  <1>1. files[m] \in Seq(Lines)
    BY DEF TypeOK
  <1>2. Len(files[m]) \in Nat /\ DOMAIN files[m] = 1 .. Len(files[m])
    BY <1>1
  <1>3. \A a : a \in Range(files[m]) <=> \E i \in 1 .. Len(files[m]) : a = files[m][i]
    BY <1>2 DEF Range
  <1>4. QED
    BY <1>1, <1>2, <1>3

\* Every line appended is in exactly one file, in order, or was lost with every
\* later line of its process, however often the file is rolled, a name comes
\* back, or the process is killed (LogFile.h:17, 24; Logger.cpp:66).
THEOREM EveryLineKept == Spec => []LinesKept
  <1>1. ASSUME IInv PROVE LinesKept
    <2>1. TypeOK /\ Numbered(files, appended) /\ Kept(files, appended) /\ LostLast(files)
      BY <1>1 DEF IInv, LogOK
    <2>2. \A n \in Names : \A i, j \in DOMAIN files[n] : i < j => files[n][i].no < files[n][j].no
      BY <2>1, Domains DEF Numbered, InOrder
    <2>3. ASSUME NEW m \in Names, NEW n \in Names, NEW a \in Range(files[m]), NEW b \in Range(files[n]),
                 a.no = b.no
          PROVE  m = n
      <3>1. PICK i \in 1 .. Len(files[m]) : a = files[m][i]
        BY <2>1, Domains
      <3>2. PICK j \in 1 .. Len(files[n]) : b = files[n][j]
        BY <2>1, Domains
      <3>3. QED
        BY <2>1, <2>3, <3>1, <3>2 DEF Numbered
    <2> DEFINE All == UNION {Range(files[n]) : n \in Names}
    <2>4. \A a : a \in All <=> \E m \in Names : \E i \in 1 .. Len(files[m]) : a = files[m][i]
      <3>1. \A a : a \in All <=> \E m \in Names : a \in Range(files[m])
        OBVIOUS
      <3>2. \A m \in Names : \A a : a \in Range(files[m]) <=> \E i \in 1 .. Len(files[m]) : a = files[m][i]
        BY <2>1, Domains
      <3> HIDE DEF All
      <3>3. ASSUME NEW a \in All PROVE \E m \in Names : \E i \in 1 .. Len(files[m]) : a = files[m][i]
        <4>1. PICK m \in Names : a \in Range(files[m])
          BY <3>1
        <4>2. \E i \in 1 .. Len(files[m]) : a = files[m][i]
          BY <2>1, <4>1, Domains
        <4>3. QED
          BY <4>2
      <3>4. ASSUME NEW a, NEW m \in Names, NEW i \in 1 .. Len(files[m]), a = files[m][i] PROVE a \in All
        <4>1. a \in Range(files[m])
          BY <3>2, <3>4
        <4>2. QED
          BY <3>1, <4>1
      <3>5. QED
        BY <3>3, <3>4
    <2> HIDE DEF All
    <2>5. \A a \in All : a.no \in 1 .. appended
      BY <2>1, <2>4 DEF Numbered
    <2>6. \A b \in lost : b.no \in 1 .. appended
      BY <2>1 DEF Numbered
    <2>7. \A k \in 1 .. appended : (\E a \in All : a.no = k) \/ (\E b \in lost : b.no = k)
      <3>1. SUFFICES ASSUME NEW k \in 1 .. appended, ~ \E b \in lost : b.no = k PROVE \E a \in All : a.no = k
        OBVIOUS
      <3>2. PICK m \in Names : \E i \in 1 .. Len(files[m]) : files[m][i].no = k
        BY <2>1, <3>1 DEF Kept
      <3>3. PICK i \in 1 .. Len(files[m]) : files[m][i].no = k
        BY <3>2
      <3>4. files[m][i] \in All
        BY <2>4
      <3>5. QED
        BY <3>3, <3>4
    <2>8. {a.no : a \in All} \cup {a.no : a \in lost} = 1 .. appended
      BY <2>5, <2>6, <2>7
    <2>9. ASSUME NEW a \in All, NEW b \in lost, a.run = b.run PROVE a.no < b.no
      <3>1. PICK m \in Names : \E i \in 1 .. Len(files[m]) : a = files[m][i]
        BY <2>4
      <3>2. PICK i \in 1 .. Len(files[m]) : a = files[m][i]
        BY <3>1
      <3>3. QED
        BY <2>1, <2>9, <3>2 DEF LostLast
    <2>10. QED
      BY <2>2, <2>3, <2>8, <2>9 DEF LinesKept, All
  <1>2. QED
    BY <1>1, Inductive, PTL

\* A file that is open grows past rollSize_ only within the second it was opened
\* in, and by one more line after it, for any limit, lines and clock
\* (Logger.cpp:66, 87).
THEOREM SizeLimitKept == Spec => []OversizedOnlyWithinASecond
  <1>1. ASSUME IInv PROVE OversizedOnlyWithinASecond
    <2>1. SUFFICES ASSUME rollSize_ > 0 \/ async, NEW n \in Names,
                          NEW i \in DOMAIN files[n], NEW j \in DOMAIN files[n],
                          i < j, SameOpening(files[n][i], files[n][j]), files[n][i].late
                   PROVE  WrittenUpTo(files[n], i) <= rollSize_
      BY DEF OversizedOnlyWithinASecond
    <2>2. TypeOK /\ Fits(files[n])
      BY <1>1 DEF IInv, LogOK, FilesOK
    <2>3. i \in 1 .. Len(files[n]) /\ j \in 1 .. Len(files[n])
      BY <2>2, Domains
    <2>4. Cardinality(Bytes(files[n], i, files[n][i].run, files[n][i].since)) <= rollSize_
      BY <2>1, <2>2, <2>3 DEF Fits
    <2>5. WrittenUpTo(files[n], i) = Cardinality(Bytes(files[n], i, files[n][i].run, files[n][i].since))
      BY DEF WrittenUpTo, Bytes, BytesOf, Opened, SameOpening
    <2>6. QED
      BY <2>4, <2>5
  <1>2. QED
    BY <1>1, Inductive, PTL

\* No more than kCheckTimeRoll_ + 2 lines go on after each other into a file that
\* should have been rolled or flushed, for any count (Logger.cpp:69, 90).
THEOREM ClockLookedAt == Spec => []LooksAtTheClock
  <1>1. ASSUME IInv PROVE LooksAtTheClock
    <2>1. SUFFICES ASSUME NEW n \in Names, NEW i \in DOMAIN files[n],
                          i + kCheckTimeRoll_ + 2 \in DOMAIN files[n]
                   PROVE  \E k \in i .. (i + kCheckTimeRoll_ + 2) :
                              \/ ~files[n][k].due \/ ~SameOpening(files[n][k], files[n][i])
                              \/ files[n][k].synced # files[n][i].synced
      BY DEF LooksAtTheClock
    <2>2. TypeOK /\ Looked(files[n])
      BY <1>1 DEF IInv, LogOK, FilesOK
    <2>3. DOMAIN files[n] = 1 .. Len(files[n])
      BY <2>2, Domains
    <2>4. QED
      BY <2>1, <2>2, <2>3 DEF Looked
  <1>2. QED
    BY <1>1, Inductive, PTL

\* When a thread aborts over a FATAL message its line and all before it are out of
\* the stdio buffer, whatever other threads did since (LogMessage.cpp:82-93).
THEOREM FatalWritten == Spec => []FatalIsWritten
  <1>1. ASSUME IInv PROVE FatalIsWritten
    <2>1. SUFFICES ASSUME NEW t \in Threads, up, pc[t] = "abort", NEW i \in DOMAIN files[log.name],
                          files[log.name][i].no <= fatal[t]
                   PROVE  i <= Len(files[log.name]) - log.buffered
      BY DEF FatalIsWritten
    <2>2. TypeOK /\ AbortsFlushed(log, files) /\ log.name \in Names /\ log.buffered \in Nat /\ fatal[t] \in Nat
      BY <1>1 DEF IInv, LogOK, TypeOK, LogType
    <2>3. /\ files[log.name] \in Seq(Lines) /\ Len(files[log.name]) \in Nat
          /\ i \in 1 .. Len(files[log.name])
      BY <2>2, Domains
    <2>4. files[log.name][i].no \in Nat
      <3>1. files[log.name][i] \in Lines
        BY <2>3
      <3>2. QED
        BY <3>1 DEF Lines
    <2>5. ~(fatal[t] < files[log.name][i].no)
      BY <2>1, <2>2, <2>4
    <2>6. ~(i > Len(files[log.name]) - log.buffered)
      BY <2>1, <2>2, <2>3, <2>5 DEF AbortsFlushed, IsBuffered
    <2>7. QED
      BY <2>2, <2>3, <2>6
  <1>2. QED
    BY <1>1, Inductive, PTL

\* A message is stamped with the second it is made in, although the text is kept
\* from message to message and the clock may go back (LogMessage.cpp:15, 42).
THEOREM StampsOfTheSecond == Spec => StampsTrue
  <1>1. ASSUME IInv, [Next]_vars
        PROVE  [\A t \in Threads : (pc[t] = "idle" /\ pc'[t] = "made")
                              => t_time'[t] = clock \/ clock = 0]_vars
    <2>1. SUFFICES ASSUME Next, NEW t \in Threads, pc[t] = "idle", pc'[t] = "made", clock # 0
                   PROVE  t_time'[t] = clock
      BY <1>1
    <2>2. TypeOK /\ ThreadsOK
      BY <1>1 DEF IInv
    <2>3. Make(t)
      <3>1. ASSUME NEW u \in Threads, Make(u) PROVE Make(t)
        <4>1. u = t
          BY <2>1, <2>2, <3>1 DEF TypeOK, Make
        <4>2. QED
          BY <3>1, <4>1
      <3>2. ASSUME NEW u \in Threads, Finish(u) PROVE FALSE
        BY <2>1, <2>2, <3>2 DEF TypeOK, Finish
      <3>3. ASSUME NEW u \in Threads, FlushFatal(u) PROVE FALSE
        BY <2>1, <2>2, <3>3 DEF TypeOK, FlushFatal
      <3>4. ASSUME Die PROVE FALSE
        BY <2>1, <3>4 DEF Die, NoThreads
      <3>5. ASSUME NEW u \in Threads, Abort(u) PROVE FALSE
        BY <3>4, <3>5 DEF Abort
      <3>6. Kill => FALSE
        BY <3>4 DEF Kill
      <3>7. AppendBuffers \/ Restart \/ Tick \/ SetBack => FALSE
        BY <2>1 DEF AppendBuffers, Restart, Tick, SetBack
      <3>8. QED
        BY <2>1, <3>1, <3>2, <3>3, <3>5, <3>6, <3>7 DEF Next
    <2>4. QED
      BY <2>1, <2>2, <2>3 DEF Make, TypeOK, ThreadsOK
  <1>2. QED
    BY <1>1, Inductive, PTL DEF Spec, StampsTrue
=============================================================================
