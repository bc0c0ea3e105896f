------------------------- MODULE AsyncLoggingProofs -------------------------
(***************************************************************************)
(* What TLAPS proves of AsyncLogging, for any number of loggers, buffers,  *)
(* lines, line lengths and starts: types, that a logger is on the list     *)
(* exactly while it holds lines, that the backend never sleeps while one   *)
(* is, that recycling a batch always finds the buffers it takes back, that *)
(* no buffer is reached through two pointers, and that every line reaches  *)
(* the file once and in order.                                             *)
(***************************************************************************)
EXTENDS AsyncLogging, QueueLemmas

\* No element of a queue is in it twice.
Distinct(s) == \A i, j \in 1..Len(s) : s[i] = s[j] => i = j

\* The batch is a list of distinct loggers, and there is one only while the
\* backend writes it; the backend has a thread only between start() and join().
BatchWhileWriting ==
    /\ Distinct(toWrite)
    /\ thread # "write" => toWrite = <<>>
    /\ main = "idle" => thread = "none"

\* A logger out of the batch has given its batch back: no buffers to write, and
\* buffer1_ and buffer2_ at hand for the next swap.
AtRest(l) ==
    buffersToWrite_[l] = <<>> /\ buffer1_[l] # NULL /\ buffer2_[l] # NULL

RestOutsideBatch == \A l \in Loggers : l \notin Elements(toWrite) => AtRest(l)

\* A spare buffer in use has left a full one behind.
SpareReplaced == \A l \in Loggers : nextBuffer_[l] = NULL => buffers_[l] # <<>>

IInv ==
    /\ TypeOK
    /\ ListedOnceWhileNotEmpty
    /\ BatchWhileWriting
    /\ RestOutsideBatch
    /\ SpareReplaced
    /\ RecycleFindsBuffers
    /\ NoLineMissesTheWait
-----------------------------------------------------------------------------
(* Queues as sets.                                                         *)

LEMMA ElementsAppend ==
    ASSUME NEW S, NEW s \in Seq(S), NEW e \in S
    PROVE  /\ Elements(Append(s, e)) = Elements(s) \cup {e}
           /\ Distinct(s) /\ e \notin Elements(s) => Distinct(Append(s, e))
  BY DEF Elements, Distinct

LEMMA ElementsTail ==
    ASSUME NEW S, NEW s \in Seq(S), s # <<>>
    PROVE  /\ Head(s) \in S /\ Tail(s) \in Seq(S)
           /\ \A e \in Elements(s) : e = Head(s) \/ e \in Elements(Tail(s))
           /\ Distinct(s) => Distinct(Tail(s)) /\ Head(s) \notin Elements(Tail(s))
  <1>1. Head(s) \in S /\ Tail(s) \in Seq(S)
    BY HeadTailProperties
  <1>2. /\ Len(s) \in Nat \ {0} /\ Len(Tail(s)) = Len(s) - 1 /\ Head(s) = s[1]
        /\ \A i \in 1..Len(Tail(s)) : Tail(s)[i] = s[i + 1]
    BY EmptySeq
  <1>3. ASSUME NEW e \in Elements(s) PROVE e = Head(s) \/ e \in Elements(Tail(s))
    <2>1. PICK i \in 1..Len(s) : e = s[i]
      BY DEF Elements
    <2>2. CASE i = 1
      BY <1>2, <2>1, <2>2
    <2>3. CASE i # 1
      <3>1. i - 1 \in 1..Len(Tail(s)) /\ Tail(s)[i - 1] = s[i]
        BY <1>2, <2>3
      <3>2. QED
        BY <2>1, <3>1 DEF Elements
    <2>4. QED
      BY <2>2, <2>3
  <1>4. ASSUME Distinct(s) PROVE Distinct(Tail(s)) /\ Head(s) \notin Elements(Tail(s))
    BY <1>2, <1>4 DEF Distinct, Elements
  <1>5. QED
    BY <1>1, <1>3, <1>4

LEMMA ElementsEmpty == Elements(<<>>) = {} /\ Distinct(<<>>)
  BY DEF Elements, Distinct
-----------------------------------------------------------------------------

LEMMA IInvInit == Init => IInv
  <1> SUFFICES ASSUME Init PROVE IInv
    OBVIOUS
  <1>1. /\ LoggerCount \in Nat /\ MaxBuffers \in Nat /\ MaxBuffers >= 4 * LoggerCount
        /\ kBufferSize \in Nat /\ MaxLines \in Nat /\ MaxStarts \in Nat
    BY AsyncLoggingAssumption
  <1>2. \A l \in Loggers : {4 * l - 3, 4 * l - 2, 4 * l - 1, 4 * l} \subseteq Buffers /\ NULL \notin Buffers
    BY <1>1 DEF Loggers, Buffers, NULL
  <1>3. TypeOK
    <2>1. /\ currentBuffer_ \in [Loggers -> Buffers]
          /\ nextBuffer_ \in [Loggers -> Buffers \cup {NULL}]
          /\ buffer1_ \in [Loggers -> Buffers \cup {NULL}]
          /\ buffer2_ \in [Loggers -> Buffers \cup {NULL}]
      BY <1>2 DEF Init
    <2>2. /\ notEmpty_ \in [Loggers -> BOOLEAN]
          /\ buffers_ \in [Loggers -> Seq(Buffers)]
          /\ buffersToWrite_ \in [Loggers -> Seq(Buffers)]
          /\ lines \in [Buffers -> Seq(Nat)]
          /\ written \in [Loggers -> Seq(Nat)]
      BY DEF Init
    <2>3. /\ cur_ \in [Buffers -> 0..kBufferSize]
          /\ accepted \in [Loggers -> Nat]
          /\ appended \in 0..MaxLines /\ starts \in 0..MaxStarts
      BY <1>1 DEF Init
    <2>4. asyncLoggers_ \in Seq(Loggers) /\ toWrite \in Seq(Loggers)
      BY DEF Init
    <2>5. position \in Nat /\ latch_ \in Int
      BY DEF Init
    <2>6. running_ \in BOOLEAN /\ main = "idle" /\ thread = "none"
      BY DEF Init
    <2>7. QED
      BY <2>1, <2>2, <2>3, <2>4, <2>5, <2>6 DEF TypeOK
  <1>4. ListedOnceWhileNotEmpty /\ BatchWhileWriting /\ NoLineMissesTheWait
    BY ElementsEmpty DEF Init, ListedOnceWhileNotEmpty, BatchWhileWriting, NoLineMissesTheWait
  <1>5. \A l \in Loggers : AtRest(l) /\ nextBuffer_[l] # NULL
    BY <1>1, <1>2 DEF Init, AtRest
  <1>6. RestOutsideBatch /\ SpareReplaced
    BY <1>5 DEF RestOutsideBatch, SpareReplaced
  <1>7. RecycleFindsBuffers
    BY <1>5 DEF RecycleFindsBuffers, Missing, AtRest, Init
  <1>8. QED
    BY <1>3, <1>4, <1>6, <1>7 DEF IInv

\* A step of the owner or of the backend that leaves the loggers and the list.
LEMMA IInvThreads ==
    ASSUME IInv, UNCHANGED <<batchVars, loggerVars>>,
           main' \in {"idle", "latch", "running", "notify", "join"},
           starts' \in 0..MaxStarts, running_' \in BOOLEAN, latch_' \in Int,
           thread' \in {"none", "started", "aborted", "check", "lock", "waiting",
                        "woken", "write", "exited"},
           thread' # "write" => toWrite = <<>>,
           main' = "idle" => thread' = "none",
           thread' = "waiting" => asyncLoggers_ = <<>>
    PROVE  IInv'
  <1> USE DEF IInv, batchVars, loggerVars, producerVars, backendVars, dataVars
  <1>1. TypeOK'
    BY DEF TypeOK
  <1>2. ListedOnceWhileNotEmpty' /\ RecycleFindsBuffers'
    BY DEF ListedOnceWhileNotEmpty, RecycleFindsBuffers, Missing
  <1>3. BatchWhileWriting'
    BY DEF BatchWhileWriting
  <1>4. RestOutsideBatch' /\ SpareReplaced'
    BY DEF RestOutsideBatch, AtRest, SpareReplaced
  <1>5. NoLineMissesTheWait'
    BY DEF NoLineMissesTheWait
  <1>6. QED
    BY <1>1, <1>2, <1>3, <1>4, <1>5
-----------------------------------------------------------------------------
(* A line.                                                                 *)

LEMMA StoreTypes ==
    ASSUME TypeOK, NEW l \in Loggers, NEW b \in Buffers, NEW len \in Sizes,
           NEW used \in 0..kBufferSize, Store(l, b, used, len)
    PROVE  /\ cur_' \in [Buffers -> 0..kBufferSize]
           /\ lines' \in [Buffers -> Seq(Nat)]
           /\ accepted' \in [Loggers -> Nat]
  <1>1. len \in Nat /\ kBufferSize \in Nat
    BY AsyncLoggingAssumption
  <1>2. accepted[l] + 1 \in Nat /\ lines[b] \in Seq(Nat)
    BY DEF TypeOK
  <1>3. Append(lines[b], accepted[l] + 1) \in Seq(Nat)
    BY <1>2, AppendProperties
  <1>4. CASE kBufferSize - used > len
    <2>1. used + len \in 0..kBufferSize
      BY <1>1, <1>4
    <2>2. QED
      BY <1>2, <1>3, <1>4, <2>1 DEF Store, TypeOK
  <1>5. CASE ~(kBufferSize - used > len)
    BY <1>5 DEF Store, TypeOK
  <1>6. QED
    BY <1>4, <1>5

\* Where the line goes: into the current buffer, the spare one or a new one.
LEMMA LineBuffers ==
    ASSUME TypeOK, SpareReplaced, NEW l \in Loggers, NEW len \in Sizes,
           KeepCurrent(l, len) \/ TakeNext(l, len) \/ MakeNew(l, len)
    PROVE  /\ currentBuffer_' \in [Loggers -> Buffers]
           /\ nextBuffer_' \in [Loggers -> Buffers \cup {NULL}]
           /\ buffers_' \in [Loggers -> Seq(Buffers)]
           /\ cur_' \in [Buffers -> 0..kBufferSize]
           /\ lines' \in [Buffers -> Seq(Nat)]
           /\ accepted' \in [Loggers -> Nat]
           /\ SpareReplaced'
  <1> DEFINE b == currentBuffer_[l]
             n == nextBuffer_[l]
             full == Append(buffers_[l], b)
  <1>1. b \in Buffers /\ n \in Buffers \cup {NULL} /\ cur_[b] \in 0..kBufferSize
    BY DEF TypeOK
  <1>2. full \in Seq(Buffers) /\ full # <<>>
    <2>1. buffers_[l] \in Seq(Buffers)
      BY DEF TypeOK
    <2>2. QED
      BY <1>1, <2>1, AppendProperties
  <1>3. CASE KeepCurrent(l, len)
    <2>1. Store(l, b, cur_[b], len) /\ UNCHANGED <<currentBuffer_, nextBuffer_, buffers_>>
      BY <1>3 DEF KeepCurrent
    <2> HIDE DEF b
    <2>2. QED
      BY <1>1, <2>1, StoreTypes DEF TypeOK, SpareReplaced
  <1>4. CASE TakeNext(l, len)
    <2>1. /\ n \in Buffers /\ Store(l, n, cur_[n], len)
          /\ buffers_' = [buffers_ EXCEPT ![l] = full]
          /\ currentBuffer_' = [currentBuffer_ EXCEPT ![l] = n]
          /\ nextBuffer_' = [nextBuffer_ EXCEPT ![l] = NULL]
      BY <1>1, <1>4 DEF TakeNext
    <2>2. cur_[n] \in 0..kBufferSize
      BY <2>1 DEF TypeOK
    <2> HIDE DEF n, full
    <2>3. /\ cur_' \in [Buffers -> 0..kBufferSize] /\ lines' \in [Buffers -> Seq(Nat)]
          /\ accepted' \in [Loggers -> Nat]
      BY <2>1, <2>2, StoreTypes
    <2>4. QED
      BY <1>2, <2>1, <2>3 DEF TypeOK, SpareReplaced
  <1>5. CASE MakeNew(l, len)
    <2>1. PICK u \in Unused :
            /\ buffers_' = [buffers_ EXCEPT ![l] = full]
            /\ currentBuffer_' = [currentBuffer_ EXCEPT ![l] = u]
            /\ Store(l, u, 0, len)
            /\ nextBuffer_' = nextBuffer_
      BY <1>5 DEF MakeNew
    <2>2. u \in Buffers /\ 0 \in 0..kBufferSize
      BY AsyncLoggingAssumption DEF Unused
    <2> HIDE DEF full
    <2>3. /\ cur_' \in [Buffers -> 0..kBufferSize] /\ lines' \in [Buffers -> Seq(Nat)]
          /\ accepted' \in [Loggers -> Nat]
      BY <2>1, <2>2, StoreTypes
    <2>4. QED
      BY <1>2, <2>1, <2>2, <2>3 DEF TypeOK, SpareReplaced
  <1>6. QED
    BY <1>3, <1>4, <1>5

\* The logger is listed now, once, and a backend that waited is awake.
LEMMA LineListed ==
    ASSUME TypeOK, ListedOnceWhileNotEmpty, NoLineMissesTheWait,
           NEW l \in Loggers, ListLogger(l)
    PROVE  /\ asyncLoggers_' \in Seq(Loggers)
           /\ notEmpty_' \in [Loggers -> BOOLEAN]
           /\ thread' \in {thread, "woken"} /\ thread' # "waiting"
           /\ thread' # thread => thread = "waiting"
           /\ ListedOnceWhileNotEmpty'
  <1>1. asyncLoggers_ \in Seq(Loggers) /\ notEmpty_ \in [Loggers -> BOOLEAN]
    BY DEF TypeOK
  <1>2. notEmpty_' = [notEmpty_ EXCEPT ![l] = TRUE]
    BY DEF ListLogger
  <1>3. Distinct(asyncLoggers_) /\ \A k \in Loggers : notEmpty_[k] <=> k \in Elements(asyncLoggers_)
    BY DEF ListedOnceWhileNotEmpty, Distinct
  <1>4. CASE notEmpty_[l]
    <2>1. UNCHANGED <<asyncLoggers_, thread>> /\ l \in Elements(asyncLoggers_)
      BY <1>3, <1>4 DEF ListLogger
    <2>2. thread # "waiting"
      BY <2>1 DEF NoLineMissesTheWait, Elements
    <2>3. Elements(asyncLoggers_') = Elements(asyncLoggers_) /\ Distinct(asyncLoggers_')
      BY <1>3, <2>1 DEF Elements
    <2>4. \A k \in Loggers : notEmpty_'[k] <=> k \in Elements(asyncLoggers_')
      BY <1>1, <1>2, <1>3, <2>1, <2>3
    <2>5. ListedOnceWhileNotEmpty'
      BY <2>3, <2>4 DEF ListedOnceWhileNotEmpty, Distinct, Elements
    <2>6. QED
      BY <1>1, <1>2, <2>1, <2>2, <2>5
  <1>5. CASE ~notEmpty_[l]
    <2>1. asyncLoggers_' = Append(asyncLoggers_, l) /\ thread' = Notified
      BY <1>5 DEF ListLogger
    <2>2. l \notin Elements(asyncLoggers_)
      BY <1>3, <1>5
    <2>3. /\ Elements(asyncLoggers_') = Elements(asyncLoggers_) \cup {l}
          /\ Distinct(asyncLoggers_')
      BY <1>1, <1>3, <2>1, <2>2, ElementsAppend
    <2>4. \A k \in Loggers : notEmpty_'[k] <=> k \in Elements(asyncLoggers_')
      BY <1>1, <1>2, <1>3, <2>3
    <2>5. ListedOnceWhileNotEmpty'
      BY <2>3, <2>4 DEF ListedOnceWhileNotEmpty, Distinct, Elements
    <2>6. asyncLoggers_' \in Seq(Loggers)
      BY <1>1, <2>1, AppendProperties
    <2>7. QED
      BY <1>1, <1>2, <2>1, <2>5, <2>6 DEF Notified
  <1>6. QED
    BY <1>4, <1>5

LEMMA IInvLogLine ==
    ASSUME IInv, NEW l \in Loggers, NEW len \in Sizes, LogLine(l, len)
    PROVE  IInv'
  <1>1. /\ TypeOK /\ ListedOnceWhileNotEmpty /\ NoLineMissesTheWait /\ SpareReplaced
    BY DEF IInv
  <1>2. /\ KeepCurrent(l, len) \/ TakeNext(l, len) \/ MakeNew(l, len)
        /\ ListLogger(l)
        /\ appended < MaxLines /\ appended' = appended + 1
        /\ UNCHANGED <<main, starts, running_, latch_, toWrite, position,
                       buffersToWrite_, buffer1_, buffer2_, written>>
    BY DEF LogLine, ownerVars, backendVars
  <1>3. /\ currentBuffer_' \in [Loggers -> Buffers]
        /\ nextBuffer_' \in [Loggers -> Buffers \cup {NULL}]
        /\ buffers_' \in [Loggers -> Seq(Buffers)]
        /\ cur_' \in [Buffers -> 0..kBufferSize]
        /\ lines' \in [Buffers -> Seq(Nat)]
        /\ accepted' \in [Loggers -> Nat]
        /\ SpareReplaced'
    BY <1>1, <1>2, LineBuffers
  <1>4. /\ asyncLoggers_' \in Seq(Loggers)
        /\ notEmpty_' \in [Loggers -> BOOLEAN]
        /\ thread' \in {thread, "woken"} /\ thread' # "waiting"
        /\ thread' # thread => thread = "waiting"
        /\ ListedOnceWhileNotEmpty'
    BY <1>1, <1>2, LineListed
  <1>5. appended' \in 0..MaxLines
    BY <1>1, <1>2, AsyncLoggingAssumption DEF TypeOK
  <1>6. TypeOK'
    BY <1>1, <1>2, <1>3, <1>4, <1>5 DEF TypeOK
  <1>7. BatchWhileWriting'
    BY <1>2, <1>4 DEF IInv, BatchWhileWriting
  <1>8. RestOutsideBatch' /\ RecycleFindsBuffers'
    BY <1>2 DEF IInv, RestOutsideBatch, AtRest, RecycleFindsBuffers, Missing
  <1>9. NoLineMissesTheWait'
    BY <1>4 DEF NoLineMissesTheWait
  <1>10. QED
    BY <1>3, <1>4, <1>6, <1>7, <1>8, <1>9 DEF IInv
-----------------------------------------------------------------------------
(* The backend takes a batch, writes it and recycles its buffers.          *)

LEMMA IInvTakeLoggers == IInv /\ TakeLoggers => IInv'
  <1> SUFFICES ASSUME IInv, TakeLoggers PROVE IInv'
    OBVIOUS
  <1> DEFINE listed == Elements(asyncLoggers_)
             full(l) == l \in listed /\ cur_[currentBuffer_[l]] > 0
             gap(l) == l \in listed /\ nextBuffer_[l] = NULL
  <1>1. TypeOK /\ ListedOnceWhileNotEmpty /\ SpareReplaced
    BY DEF IInv
  <1>2. /\ thread \in {"woken", "lock"} /\ toWrite' = asyncLoggers_ /\ asyncLoggers_' = <<>>
        /\ position' = 0 /\ thread' = "write"
        /\ UNCHANGED <<main, starts, running_, latch_, cur_, lines, accepted, appended, written>>
    BY DEF TakeLoggers, ownerVars, dataVars
  <1>3. /\ buffersToWrite_' = [l \in Loggers |->
                IF full(l) THEN Append(buffers_[l], currentBuffer_[l])
                ELSE IF l \in listed THEN buffers_[l] ELSE buffersToWrite_[l]]
        /\ buffers_' = [l \in Loggers |->
                IF l \in listed THEN buffersToWrite_[l] ELSE buffers_[l]]
        /\ currentBuffer_' = [l \in Loggers |->
                IF full(l) THEN buffer1_[l] ELSE currentBuffer_[l]]
        /\ buffer1_' = [l \in Loggers |-> IF full(l) THEN NULL ELSE buffer1_[l]]
        /\ nextBuffer_' = [l \in Loggers |-> IF gap(l) THEN buffer2_[l] ELSE nextBuffer_[l]]
        /\ buffer2_' = [l \in Loggers |-> IF gap(l) THEN NULL ELSE buffer2_[l]]
        /\ notEmpty_' = [l \in Loggers |-> notEmpty_[l] /\ l \notin listed]
    BY DEF TakeLoggers, SwapBuffersToWrite
  <1>4. \A l \in Loggers : AtRest(l)
    BY <1>2, ElementsEmpty DEF IInv, BatchWhileWriting, RestOutsideBatch
  <1>5. \A l \in Loggers :
            /\ currentBuffer_[l] \in Buffers /\ buffers_[l] \in Seq(Buffers)
            /\ buffersToWrite_[l] = <<>> /\ buffer1_[l] \in Buffers /\ buffer2_[l] \in Buffers
            /\ nextBuffer_[l] \in Buffers \cup {NULL}
    BY <1>1, <1>4 DEF TypeOK, AtRest
  <1>6. \A l \in Loggers :
            /\ Append(buffers_[l], currentBuffer_[l]) \in Seq(Buffers)
            /\ Len(Append(buffers_[l], currentBuffer_[l])) = Len(buffers_[l]) + 1
            /\ Len(buffers_[l]) \in Nat
            /\ nextBuffer_[l] = NULL => Len(buffers_[l]) >= 1
    <2> SUFFICES ASSUME NEW l \in Loggers
                 PROVE  /\ Append(buffers_[l], currentBuffer_[l]) \in Seq(Buffers)
                        /\ Len(Append(buffers_[l], currentBuffer_[l])) = Len(buffers_[l]) + 1
                        /\ Len(buffers_[l]) \in Nat
                        /\ nextBuffer_[l] = NULL => Len(buffers_[l]) >= 1
      OBVIOUS
    <2>1. nextBuffer_[l] = NULL => buffers_[l] # <<>>
      BY <1>1 DEF SpareReplaced
    <2>2. QED
      BY <1>5, <2>1, AppendProperties, EmptySeq
  <1> HIDE DEF full, gap, listed
  <1>7. TypeOK'
    <2>1. /\ buffersToWrite_' \in [Loggers -> Seq(Buffers)]
          /\ buffers_' \in [Loggers -> Seq(Buffers)]
      <3>1. ASSUME NEW l \in Loggers
            PROVE  /\ (IF full(l) THEN Append(buffers_[l], currentBuffer_[l])
                       ELSE IF l \in listed THEN buffers_[l] ELSE buffersToWrite_[l]) \in Seq(Buffers)
                   /\ (IF l \in listed THEN buffersToWrite_[l] ELSE buffers_[l]) \in Seq(Buffers)
        <4>1. /\ Append(buffers_[l], currentBuffer_[l]) \in Seq(Buffers)
              /\ buffers_[l] \in Seq(Buffers)
          BY <1>5, <1>6
        <4>2. buffersToWrite_[l] \in Seq(Buffers)
          BY <1>1 DEF TypeOK
        <4>3. QED
          BY <4>1, <4>2
      <3>2. QED
        BY <1>3, <3>1
    <2>2. /\ currentBuffer_' \in [Loggers -> Buffers]
          /\ nextBuffer_' \in [Loggers -> Buffers \cup {NULL}]
          /\ buffer1_' \in [Loggers -> Buffers \cup {NULL}]
          /\ buffer2_' \in [Loggers -> Buffers \cup {NULL}]
      BY <1>3, <1>5
    <2>3. notEmpty_' \in [Loggers -> BOOLEAN]
      BY <1>3
    <2>4. asyncLoggers_' \in Seq(Loggers) /\ toWrite' \in Seq(Loggers)
      BY <1>1, <1>2 DEF TypeOK
    <2>5. QED
      BY <1>1, <1>2, <2>1, <2>2, <2>3, <2>4 DEF TypeOK
  <1>8. ListedOnceWhileNotEmpty'
    <2>1. \A l \in Loggers : ~notEmpty_'[l]
      BY <1>1, <1>3 DEF ListedOnceWhileNotEmpty, listed
    <2>2. QED
      BY <1>2, <2>1 DEF ListedOnceWhileNotEmpty, Elements
  <1>9. BatchWhileWriting'
    <2>1. Distinct(toWrite')
      BY <1>1, <1>2 DEF ListedOnceWhileNotEmpty, Distinct
    <2>2. main' # "idle"
      BY <1>2 DEF IInv, BatchWhileWriting
    <2>3. QED
      BY <1>2, <2>1, <2>2 DEF BatchWhileWriting, Distinct
  <1>10. RestOutsideBatch'
    <2> SUFFICES ASSUME NEW l \in Loggers, l \notin listed PROVE AtRest(l)'
      BY <1>2 DEF RestOutsideBatch, listed, Elements
    <2>1. ~full(l) /\ ~gap(l)
      BY DEF full, gap
    <2>2. QED
      BY <1>3, <1>4, <2>1 DEF AtRest
  <1>11. SpareReplaced'
    <2> SUFFICES ASSUME NEW l \in Loggers, nextBuffer_'[l] = NULL PROVE buffers_'[l] # <<>>
      BY DEF SpareReplaced
    <2>1. NULL \notin Buffers
      BY DEF Buffers, NULL
    <2>2. ~gap(l) /\ nextBuffer_[l] = NULL
      BY <1>3, <1>5, <2>1
    <2>3. l \notin listed
      BY <2>2 DEF gap
    <2>4. QED
      BY <1>1, <1>3, <2>2, <2>3 DEF SpareReplaced
  <1>12. RecycleFindsBuffers'
    <2> SUFFICES ASSUME NEW l \in Loggers PROVE (Missing(l) <= Len(buffersToWrite_[l]))'
      BY DEF RecycleFindsBuffers
    <2>1. /\ buffer1_'[l] = NULL <=> full(l)
          /\ buffer2_'[l] = NULL <=> gap(l)
      BY <1>3, <1>4 DEF AtRest
    <2>2. gap(l) => Len(buffers_[l]) >= 1 /\ l \in listed
      BY <1>6 DEF gap
    <2>3. CASE full(l)
      BY <1>3, <1>6, <2>1, <2>2, <2>3 DEF Missing
    <2>4. CASE ~full(l) /\ gap(l)
      BY <1>3, <1>6, <2>1, <2>2, <2>4 DEF Missing
    <2>5. CASE ~full(l) /\ ~gap(l)
      <3>1. buffersToWrite_'[l] \in Seq(Buffers)
        BY <1>7 DEF TypeOK
      <3>2. Len(buffersToWrite_'[l]) \in Nat
        BY <3>1
      <3>3. QED
        BY <2>1, <2>5, <3>2 DEF Missing
    <2>6. QED
      BY <2>3, <2>4, <2>5
  <1>13. NoLineMissesTheWait'
    BY <1>2 DEF NoLineMissesTheWait
  <1>14. QED
    BY <1>7, <1>8, <1>9, <1>10, <1>11, <1>12, <1>13 DEF IInv

LEMMA IInvWriteBuffer == IInv /\ WriteBuffer => IInv'
  <1> SUFFICES ASSUME IInv, WriteBuffer PROVE IInv'
    OBVIOUS
  <1> DEFINE l == Head(toWrite)
             b == buffersToWrite_[l][position + 1]
             w == written[l] \o lines[b]
  <1>1. TypeOK
    BY DEF IInv
  <1>2. toWrite # <<>> /\ position < Len(buffersToWrite_[l])
    BY DEF WriteBuffer
  <1>3. l \in Loggers
    BY <1>1, <1>2, HeadTailProperties DEF TypeOK
  <1>4. written' = [written EXCEPT ![l] = w] /\ position' = position + 1
    BY DEF WriteBuffer
  <1>5. UNCHANGED <<main, starts, thread, running_, latch_, toWrite, asyncLoggers_,
                    notEmpty_, currentBuffer_, nextBuffer_, buffers_, buffersToWrite_,
                    buffer1_, buffer2_, cur_, lines, accepted, appended>>
    BY DEF WriteBuffer, ownerVars, producerVars, backendVars
  <1>6. b \in Buffers
    <2>1. buffersToWrite_[l] \in Seq(Buffers) /\ position \in Nat
      BY <1>1, <1>3 DEF TypeOK
    <2> HIDE DEF l
    <2>2. position + 1 \in 1..Len(buffersToWrite_[l])
      BY <1>2, <2>1
    <2>3. QED
      BY <2>1, <2>2, ElementOfSeq
  <1>7. w \in Seq(Nat)
    <2>1. written[l] \in Seq(Nat) /\ lines[b] \in Seq(Nat)
      BY <1>1, <1>3, <1>6 DEF TypeOK
    <2>2. QED
      BY <2>1, ConcatProperties
  <1> HIDE DEF l, b, w
  <1>8. written' \in [Loggers -> Seq(Nat)] /\ position' \in Nat
    <2>1. written \in [Loggers -> Seq(Nat)] /\ position \in Nat
      BY <1>1 DEF TypeOK
    <2>2. written' \in [Loggers -> Seq(Nat)]
      BY <1>4, <1>7, <2>1
    <2>3. position' \in Nat
      BY <1>4, <2>1
    <2>4. QED
      BY <2>2, <2>3
  <1>9. TypeOK'
    BY <1>1, <1>5, <1>8 DEF TypeOK
  <1>10. ListedOnceWhileNotEmpty' /\ RecycleFindsBuffers'
    BY <1>5 DEF IInv, ListedOnceWhileNotEmpty, RecycleFindsBuffers, Missing
  <1>11. BatchWhileWriting' /\ NoLineMissesTheWait'
    BY <1>5 DEF IInv, BatchWhileWriting, NoLineMissesTheWait
  <1>12. RestOutsideBatch' /\ SpareReplaced'
    BY <1>5 DEF IInv, RestOutsideBatch, AtRest, SpareReplaced
  <1>13. QED
    BY <1>9, <1>10, <1>11, <1>12 DEF IInv

LEMMA IInvRecycle == IInv /\ Recycle => IInv'
  <1> SUFFICES ASSUME IInv, Recycle PROVE IInv'
    OBVIOUS
  <1> DEFINE l == Head(toWrite)
             v == buffersToWrite_[l]
             last == IF buffer1_[l] = NULL THEN Len(v) - 1 ELSE Len(v)
  <1>1. TypeOK
    BY DEF IInv
  <1>2. toWrite # <<>> /\ thread = "write"
    BY DEF Recycle
  <1>3. /\ l \in Loggers /\ Tail(toWrite) \in Seq(Loggers)
        /\ \A k \in Elements(toWrite) : k = l \/ k \in Elements(Tail(toWrite))
        /\ Distinct(Tail(toWrite)) /\ l \notin Elements(Tail(toWrite))
    BY <1>1, <1>2, ElementsTail DEF TypeOK, IInv, BatchWhileWriting
  <1>4. /\ Refill(l, v) /\ Empty(Elements(v))
        /\ buffersToWrite_' = [buffersToWrite_ EXCEPT ![l] = <<>>]
        /\ toWrite' = Tail(toWrite) /\ position' = 0
    BY DEF Recycle
  <1>5. UNCHANGED <<main, starts, thread, running_, latch_, asyncLoggers_, notEmpty_,
                    currentBuffer_, nextBuffer_, buffers_, accepted, appended, written>>
    BY DEF Recycle, ownerVars, threadVars, producerVars
  <1>6. /\ v \in Seq(Buffers) /\ Len(v) \in Nat
        /\ buffer1_[l] \in Buffers \cup {NULL} /\ buffer2_[l] \in Buffers \cup {NULL}
        /\ (IF buffer1_[l] = NULL THEN 1 ELSE 0) + (IF buffer2_[l] = NULL THEN 1 ELSE 0) <= Len(v)
    <2>1. Missing(l) <= Len(v)
      BY <1>3 DEF IInv, RecycleFindsBuffers
    <2>2. v \in Seq(Buffers)
      BY <1>1, <1>3 DEF TypeOK
    <2>3. buffer1_[l] \in Buffers \cup {NULL} /\ buffer2_[l] \in Buffers \cup {NULL}
      BY <1>1, <1>3 DEF TypeOK
    <2>4. (IF buffer1_[l] = NULL THEN 1 ELSE 0) + (IF buffer2_[l] = NULL THEN 1 ELSE 0) <= Len(v)
      BY <2>1 DEF Missing
    <2> HIDE DEF v
    <2>5. Len(v) \in Nat
      BY <2>2
    <2>6. QED
      BY <2>2, <2>3, <2>4, <2>5
  <1>7. /\ buffer1_[l] = NULL => v[Len(v)] \in Buffers
        /\ buffer2_[l] = NULL => v[last] \in Buffers
    <2>1. /\ buffer1_[l] = NULL => Len(v) \in 1..Len(v)
          /\ buffer2_[l] = NULL => last \in 1..Len(v)
      BY <1>6
    <2> HIDE DEF v, last
    <2>2. QED
      BY <1>6, <2>1, ElementOfSeq
  <1>8. /\ buffer1_' = IF buffer1_[l] = NULL THEN [buffer1_ EXCEPT ![l] = v[Len(v)]] ELSE buffer1_
        /\ buffer2_' = IF buffer2_[l] = NULL THEN [buffer2_ EXCEPT ![l] = v[last]] ELSE buffer2_
    BY <1>4 DEF Refill
  <1>9. cur_' \in [Buffers -> 0..kBufferSize] /\ lines' \in [Buffers -> Seq(Nat)]
    <2>1. 0 \in 0..kBufferSize /\ <<>> \in Seq(Nat)
      BY AsyncLoggingAssumption
    <2> HIDE DEF v
    <2>2. QED
      BY <1>1, <1>4, <2>1 DEF Empty, TypeOK
  <1> HIDE DEF l, v, last
  <1>10. /\ buffer1_' \in [Loggers -> Buffers \cup {NULL}] /\ buffer1_'[l] # NULL
         /\ buffer2_' \in [Loggers -> Buffers \cup {NULL}] /\ buffer2_'[l] # NULL
         /\ \A k \in Loggers \ {l} : buffer1_'[k] = buffer1_[k] /\ buffer2_'[k] = buffer2_[k]
    <2>1. NULL \notin Buffers
      BY DEF Buffers, NULL
    <2>2. /\ buffer1_ \in [Loggers -> Buffers \cup {NULL}]
          /\ buffer2_ \in [Loggers -> Buffers \cup {NULL}]
      BY <1>1 DEF TypeOK
    <2>3. QED
      BY <1>3, <1>7, <1>8, <2>1, <2>2
  <1>11. /\ buffersToWrite_' \in [Loggers -> Seq(Buffers)] /\ buffersToWrite_'[l] = <<>>
         /\ \A k \in Loggers \ {l} : buffersToWrite_'[k] = buffersToWrite_[k]
    <2>1. buffersToWrite_ \in [Loggers -> Seq(Buffers)] /\ <<>> \in Seq(Buffers)
      BY <1>1 DEF TypeOK
    <2>2. QED
      BY <1>3, <1>4, <2>1
  <1>12. TypeOK'
    BY <1>1, <1>3, <1>4, <1>5, <1>9, <1>10, <1>11 DEF TypeOK
  <1>13. ListedOnceWhileNotEmpty' /\ NoLineMissesTheWait'
    BY <1>5 DEF IInv, ListedOnceWhileNotEmpty, NoLineMissesTheWait
  <1>14. BatchWhileWriting'
    BY <1>2, <1>3, <1>4, <1>5 DEF IInv, BatchWhileWriting
  <1>15. RestOutsideBatch'
    <2> SUFFICES ASSUME NEW k \in Loggers, k \notin Elements(Tail(toWrite)) PROVE AtRest(k)'
      BY <1>4 DEF RestOutsideBatch, Elements
    <2>1. CASE k = l
      BY <1>10, <1>11, <2>1 DEF AtRest
    <2>2. CASE k # l
      <3>1. AtRest(k)
        BY <1>3, <2>2 DEF IInv, RestOutsideBatch
      <3>2. QED
        BY <1>10, <1>11, <2>2, <3>1 DEF AtRest
    <2>3. QED
      BY <2>1, <2>2
  <1>16. SpareReplaced'
    BY <1>5 DEF IInv, SpareReplaced
  <1>17. RecycleFindsBuffers'
    <2> SUFFICES ASSUME NEW k \in Loggers PROVE (Missing(k) <= Len(buffersToWrite_[k]))'
      BY DEF RecycleFindsBuffers
    <2>1. CASE k = l
      BY <1>10, <1>11, <2>1 DEF Missing
    <2>2. CASE k # l
      BY <1>10, <1>11, <2>2 DEF IInv, RecycleFindsBuffers, Missing
    <2>3. QED
      BY <2>1, <2>2
  <1>18. QED
    BY <1>12, <1>13, <1>14, <1>15, <1>16, <1>17 DEF IInv
-----------------------------------------------------------------------------

LEMMA IInvStep == IInv /\ [Next]_vars => IInv'
  <1> SUFFICES ASSUME IInv, [Next]_vars PROVE IInv'
    OBVIOUS
  <1>1. TypeOK /\ BatchWhileWriting /\ NoLineMissesTheWait
    BY DEF IInv
  <1> USE DEF TypeOK, BatchWhileWriting, NoLineMissesTheWait, ownerVars, threadVars
  <1>2. CASE Start
    BY <1>1, <1>2, IInvThreads, AsyncLoggingAssumption DEF Start
  <1>3. CASE StopStore
    BY <1>1, <1>3, IInvThreads DEF StopStore
  <1>4. CASE StartReturns
    BY <1>1, <1>4, IInvThreads DEF StartReturns
  <1>5. CASE StopNotify
    BY <1>1, <1>5, IInvThreads DEF StopNotify, Notified
  <1>6. CASE Join
    BY <1>1, <1>6, IInvThreads DEF Join
  <1>7. CASE SpuriousWakeup
    BY <1>1, <1>7, IInvThreads DEF SpuriousWakeup
  <1>8. CASE ThreadStarts
    BY <1>1, <1>8, IInvThreads DEF ThreadStarts, CountDown
  <1>9. CASE CheckRunning
    BY <1>1, <1>9, IInvThreads DEF CheckRunning
  <1>10. CASE Wait
    BY <1>1, <1>10, IInvThreads DEF Wait
  <1>11. CASE BatchDone
    BY <1>1, <1>11, IInvThreads DEF BatchDone
  <1>12. CASE TakeLoggers
    BY <1>12, IInvTakeLoggers
  <1>13. CASE WriteBuffer
    BY <1>13, IInvWriteBuffer
  <1>14. CASE Recycle
    BY <1>14, IInvRecycle
  <1>15. ASSUME NEW l \in Loggers, NEW len \in Sizes, LogLine(l, len) PROVE IInv'
    BY <1>15, IInvLogLine
  <1>16. CASE UNCHANGED vars
    BY <1>1, <1>16, IInvThreads DEF vars
  <1>17. QED
    BY <1>2, <1>3, <1>4, <1>5, <1>6, <1>7, <1>8, <1>9, <1>10, <1>11, <1>12, <1>13,
       <1>14, <1>15, <1>16
    DEF Next, Owner, BackendStep
-----------------------------------------------------------------------------
(* Buffers are not shared: the pointers of a logger, as values.            *)

\* Two vectors of buffers, a current buffer c, a next buffer n and the backend's
\* f and s: no buffer is there twice.
Apart(v, w, c, n, f, s) ==
    /\ Distinct(v) /\ Distinct(w) /\ Elements(v) \cap Elements(w) = {}
    /\ {c, n, f, s} \cap (Elements(v) \cup Elements(w)) = {}
    /\ c \notin {n, f, s}
    /\ n # NULL => n \notin {f, s}
    /\ f # NULL => f # s

\* The buffers among them.
Reach(v, w, c, n, f, s) == ({c, n, f, s} \ {NULL}) \cup Elements(w) \cup Elements(v)

OwnApart(l) ==
    Apart(buffersToWrite_[l], buffers_[l], currentBuffer_[l], nextBuffer_[l],
          buffer1_[l], buffer2_[l])

\* No logger has a buffer twice, and no two loggers have one in common.
NoneShared ==
    /\ \A l \in Loggers : OwnApart(l)
    /\ \A k, l \in Loggers : k # l => HeldBy(k) \cap HeldBy(l) = {}

LEMMA HeldByReach ==
    \A l \in Loggers :
        HeldBy(l) = Reach(buffersToWrite_[l], buffers_[l], currentBuffer_[l], nextBuffer_[l],
                          buffer1_[l], buffer2_[l])
  BY DEF HeldBy, Reach

\* The full current buffer joins the full ones; the spare, or a new one, follows.
LEMMA NextApart ==
    ASSUME NEW v \in Seq(Buffers), NEW w \in Seq(Buffers), NEW c \in Buffers,
           NEW n \in Buffers \cup {NULL},
           NEW f \in Buffers \cup {NULL}, NEW s \in Buffers \cup {NULL},
           Apart(v, w, c, n, f, s), NEW b \in Buffers,
           b = n \/ (n = NULL /\ b \notin Reach(v, w, c, n, f, s))
    PROVE  /\ Apart(v, Append(w, c), b, NULL, f, s)
           /\ Reach(v, Append(w, c), b, NULL, f, s) \subseteq Reach(v, w, c, n, f, s) \cup {b}
  <1>1. NULL \notin Buffers
    BY DEF Buffers, NULL
  <1>2. /\ Elements(Append(w, c)) = Elements(w) \cup {c}
        /\ Distinct(Append(w, c))
    BY ElementsAppend DEF Apart
  <1>3. Elements(v) \subseteq Buffers /\ Elements(w) \subseteq Buffers
    BY ElementOfSeq DEF Elements
  <1>4. Apart(v, Append(w, c), b, NULL, f, s)
    BY <1>1, <1>2, <1>3 DEF Apart, Reach
  <1>5. Reach(v, Append(w, c), b, NULL, f, s) \subseteq Reach(v, w, c, n, f, s) \cup {b}
    BY <1>1, <1>2 DEF Reach
  <1>6. QED
    BY <1>4, <1>5

LEMMA NoneSharedInit == Init => NoneShared
  <1> SUFFICES ASSUME Init PROVE NoneShared
    OBVIOUS
  <1>1. /\ LoggerCount \in Nat /\ NULL = 0
        /\ \A l \in Loggers : /\ currentBuffer_[l] = 4 * l - 3 /\ nextBuffer_[l] = 4 * l - 2
                              /\ buffer1_[l] = 4 * l - 1 /\ buffer2_[l] = 4 * l
                              /\ buffers_[l] = <<>> /\ buffersToWrite_[l] = <<>>
    BY AsyncLoggingAssumption DEF Init, NULL
  <1>2. \A l \in Loggers : l \in Nat \ {0}
    BY <1>1 DEF Loggers
  <1>3. \A l \in Loggers : OwnApart(l)
    BY <1>1, <1>2, ElementsEmpty DEF OwnApart, Apart
  <1>4. ASSUME NEW k \in Loggers, NEW l \in Loggers, k # l
        PROVE  HeldBy(k) \cap HeldBy(l) = {}
    <2>1. /\ HeldBy(k) \subseteq {4 * k - 3, 4 * k - 2, 4 * k - 1, 4 * k}
          /\ HeldBy(l) \subseteq {4 * l - 3, 4 * l - 2, 4 * l - 1, 4 * l}
      BY <1>1, ElementsEmpty DEF HeldBy
    <2>2. {4 * k - 3, 4 * k - 2, 4 * k - 1, 4 * k} \cap {4 * l - 3, 4 * l - 2, 4 * l - 1, 4 * l} = {}
      BY <1>2, <1>4
    <2>3. QED
      BY <2>1, <2>2
  <1>5. QED
    BY <1>3, <1>4 DEF NoneShared

\* A step may change the pointers of one logger, and then reaches no buffer
\* through them that it did not reach or that was in use.
LEMMA NoneSharedOne ==
    ASSUME NoneShared, NEW l \in Loggers, OwnApart(l)',
           HeldBy(l)' \subseteq HeldBy(l) \cup Unused,
           \A k \in Loggers \ {l} : HeldBy(k)' = HeldBy(k) /\ (OwnApart(k)' <=> OwnApart(k))
    PROVE  NoneShared'
  BY DEF NoneShared, Unused

\* The pointers that a step leaves alone.
LEMMA SamePointers ==
    ASSUME NEW k \in Loggers,
           buffersToWrite_'[k] = buffersToWrite_[k], buffers_'[k] = buffers_[k],
           currentBuffer_'[k] = currentBuffer_[k], nextBuffer_'[k] = nextBuffer_[k],
           buffer1_'[k] = buffer1_[k], buffer2_'[k] = buffer2_[k]
    PROVE  HeldBy(k)' = HeldBy(k) /\ (OwnApart(k)' <=> OwnApart(k))
  BY DEF HeldBy, Elements, OwnApart, Apart, Distinct

\* What a step makes of a logger's pointers.
LEMMA NextPointers ==
    ASSUME NEW l \in Loggers
    PROVE  /\ OwnApart(l)' = Apart(buffersToWrite_'[l], buffers_'[l], currentBuffer_'[l],
                                   nextBuffer_'[l], buffer1_'[l], buffer2_'[l])
           /\ HeldBy(l)' = Reach(buffersToWrite_'[l], buffers_'[l], currentBuffer_'[l],
                                 nextBuffer_'[l], buffer1_'[l], buffer2_'[l])
  <1>1. OwnApart(l)' = Apart(buffersToWrite_'[l], buffers_'[l], currentBuffer_'[l],
                             nextBuffer_'[l], buffer1_'[l], buffer2_'[l])
    BY DEF OwnApart, Apart, Distinct, Elements
  <1>2. HeldBy(l)' = Reach(buffersToWrite_'[l], buffers_'[l], currentBuffer_'[l],
                           nextBuffer_'[l], buffer1_'[l], buffer2_'[l])
    BY DEF HeldBy, Reach, Elements
  <1>3. QED
    BY <1>1, <1>2

LEMMA NoneSharedUnchanged ==
    ASSUME NoneShared, UNCHANGED <<buffersToWrite_, buffers_, currentBuffer_, nextBuffer_,
                                   buffer1_, buffer2_>>
    PROVE  NoneShared'
  BY SamePointers DEF NoneShared

LEMMA NoneSharedLogLine ==
    ASSUME IInv, NoneShared, NEW l \in Loggers, NEW len \in Sizes, LogLine(l, len)
    PROVE  NoneShared'
  <1> DEFINE v == buffersToWrite_[l]
             w == buffers_[l]
             c == currentBuffer_[l]
             n == nextBuffer_[l]
             f == buffer1_[l]
             s == buffer2_[l]
  <1>1. /\ v \in Seq(Buffers) /\ w \in Seq(Buffers) /\ c \in Buffers
        /\ n \in Buffers \cup {NULL} /\ f \in Buffers \cup {NULL} /\ s \in Buffers \cup {NULL}
    BY DEF IInv, TypeOK
  <1>2. /\ KeepCurrent(l, len) \/ TakeNext(l, len) \/ MakeNew(l, len)
        /\ UNCHANGED <<buffersToWrite_, buffer1_, buffer2_>>
    BY DEF LogLine, backendVars
  <1>3. /\ buffers_ \in [Loggers -> Seq(Buffers)] /\ currentBuffer_ \in [Loggers -> Buffers]
        /\ nextBuffer_ \in [Loggers -> Buffers \cup {NULL}]
    BY DEF IInv, TypeOK
  <1>4. Apart(v, w, c, n, f, s) /\ HeldBy(l) = Reach(v, w, c, n, f, s)
    BY HeldByReach DEF NoneShared, OwnApart
  <1>5. CASE KeepCurrent(l, len)
    BY <1>2, <1>5, NoneSharedUnchanged DEF KeepCurrent
  <1>6. ASSUME NEW b \in Buffers, b = n \/ (n = NULL /\ b \in Unused),
               buffers_' = [buffers_ EXCEPT ![l] = Append(w, c)],
               currentBuffer_' = [currentBuffer_ EXCEPT ![l] = b],
               nextBuffer_' = [nextBuffer_ EXCEPT ![l] = NULL]
        PROVE  NoneShared'
    <2>1. b = n \/ (n = NULL /\ b \notin Reach(v, w, c, n, f, s))
      BY <1>4, <1>6 DEF Unused
    <2>2. /\ buffers_'[l] = Append(w, c) /\ currentBuffer_'[l] = b /\ nextBuffer_'[l] = NULL
          /\ buffersToWrite_'[l] = v /\ buffer1_'[l] = f /\ buffer2_'[l] = s
      BY <1>2, <1>3, <1>6
    <2> HIDE DEF v, w, c, n, f, s
    <2>3. /\ Apart(v, Append(w, c), b, NULL, f, s)
          /\ Reach(v, Append(w, c), b, NULL, f, s) \subseteq Reach(v, w, c, n, f, s) \cup {b}
      BY <1>1, <1>4, <2>1, NextApart
    <2>4. OwnApart(l)'
      BY <2>2, <2>3, NextPointers
    <2>5. HeldBy(l)' \subseteq HeldBy(l) \cup Unused
      <3>1. HeldBy(l)' = Reach(v, Append(w, c), b, NULL, f, s)
        BY <2>2, NextPointers
      <3>2. b \in HeldBy(l) \cup Unused
        BY <1>4, <1>6 DEF Reach, n, Buffers, NULL
      <3>3. QED
        BY <1>4, <2>3, <3>1, <3>2
    <2>6. \A k \in Loggers \ {l} : HeldBy(k)' = HeldBy(k) /\ (OwnApart(k)' <=> OwnApart(k))
      <3> SUFFICES ASSUME NEW k \in Loggers \ {l}
                   PROVE  HeldBy(k)' = HeldBy(k) /\ (OwnApart(k)' <=> OwnApart(k))
        OBVIOUS
      <3>1. /\ buffers_'[k] = buffers_[k] /\ currentBuffer_'[k] = currentBuffer_[k]
            /\ nextBuffer_'[k] = nextBuffer_[k]
        BY <1>3, <1>6
      <3>2. QED
        BY <1>2, <3>1, SamePointers
    <2>7. QED
      BY <2>4, <2>5, <2>6, NoneSharedOne
  <1>7. CASE TakeNext(l, len)
    <2>1. n \in Buffers
      BY <1>1, <1>7 DEF TakeNext
    <2>2. QED
      BY <1>6, <1>7, <2>1 DEF TakeNext
  <1>8. CASE MakeNew(l, len)
    <2>1. PICK b \in Unused :
            /\ buffers_' = [buffers_ EXCEPT ![l] = Append(w, c)]
            /\ currentBuffer_' = [currentBuffer_ EXCEPT ![l] = b]
      BY <1>8 DEF MakeNew
    <2>2. n = NULL /\ nextBuffer_' = nextBuffer_
      BY <1>8 DEF MakeNew
    <2>3. nextBuffer_' = [nextBuffer_ EXCEPT ![l] = NULL]
      BY <1>3, <2>2
    <2>4. b \in Buffers
      BY DEF Unused
    <2>5. QED
      BY <1>6, <2>1, <2>2, <2>3, <2>4
  <1>9. QED
    BY <1>2, <1>5, <1>7, <1>8

LEMMA NoneSharedTakeLoggers ==
    ASSUME IInv, NoneShared, TakeLoggers
    PROVE  NoneShared'
  <1> DEFINE listed == Elements(asyncLoggers_)
             full(l) == l \in listed /\ cur_[currentBuffer_[l]] > 0
             gap(l) == l \in listed /\ nextBuffer_[l] = NULL
  <1>1. /\ buffersToWrite_' = [l \in Loggers |->
                IF full(l) THEN Append(buffers_[l], currentBuffer_[l])
                ELSE IF l \in listed THEN buffers_[l] ELSE buffersToWrite_[l]]
        /\ buffers_' = [l \in Loggers |->
                IF l \in listed THEN buffersToWrite_[l] ELSE buffers_[l]]
        /\ currentBuffer_' = [l \in Loggers |->
                IF full(l) THEN buffer1_[l] ELSE currentBuffer_[l]]
        /\ buffer1_' = [l \in Loggers |-> IF full(l) THEN NULL ELSE buffer1_[l]]
        /\ nextBuffer_' = [l \in Loggers |-> IF gap(l) THEN buffer2_[l] ELSE nextBuffer_[l]]
        /\ buffer2_' = [l \in Loggers |-> IF gap(l) THEN NULL ELSE buffer2_[l]]
    BY DEF TakeLoggers, SwapBuffersToWrite
  <1>2. thread # "write"
    BY DEF TakeLoggers
  <1>3. ASSUME NEW l \in Loggers
        PROVE  OwnApart(l)' /\ HeldBy(l)' \subseteq HeldBy(l)
    <2>1. AtRest(l)
      BY <1>2, ElementsEmpty DEF IInv, BatchWhileWriting, RestOutsideBatch
    <2>2. /\ buffers_[l] \in Seq(Buffers) /\ currentBuffer_[l] \in Buffers
          /\ buffersToWrite_[l] = <<>> /\ buffer1_[l] \in Buffers /\ buffer2_[l] \in Buffers
          /\ nextBuffer_[l] \in Buffers \cup {NULL}
      BY <2>1 DEF IInv, TypeOK, AtRest
    <2>3. /\ OwnApart(l) 
          /\ HeldBy(l) = Reach(buffersToWrite_[l], buffers_[l], currentBuffer_[l],
                               nextBuffer_[l], buffer1_[l], buffer2_[l])
      BY HeldByReach DEF NoneShared
    <2>4. CASE l \notin listed
      <3>1. /\ buffersToWrite_'[l] = buffersToWrite_[l] /\ buffers_'[l] = buffers_[l]
            /\ currentBuffer_'[l] = currentBuffer_[l] /\ nextBuffer_'[l] = nextBuffer_[l]
            /\ buffer1_'[l] = buffer1_[l] /\ buffer2_'[l] = buffer2_[l]
        BY <1>1, <2>4
      <3>2. QED
        BY <2>3, <3>1, SamePointers
    <2>5. CASE l \in listed
      <3> DEFINE isFull == cur_[currentBuffer_[l]] > 0
                 isGap == nextBuffer_[l] = NULL
                 v2 == buffersToWrite_'[l]
                 c2 == currentBuffer_'[l]
                 n2 == nextBuffer_'[l]
                 f2 == buffer1_'[l]
                 s2 == buffer2_'[l]
      <3>1. /\ v2 = IF isFull THEN Append(buffers_[l], currentBuffer_[l]) ELSE buffers_[l]
            /\ buffers_'[l] = <<>>
            /\ c2 = IF isFull THEN buffer1_[l] ELSE currentBuffer_[l]
            /\ f2 = IF isFull THEN NULL ELSE buffer1_[l]
            /\ n2 = IF isGap THEN buffer2_[l] ELSE nextBuffer_[l]
            /\ s2 = IF isGap THEN NULL ELSE buffer2_[l]
        BY <1>1, <2>2, <2>5
      <3>2. Apart(<<>>, buffers_[l], currentBuffer_[l], nextBuffer_[l], buffer1_[l], buffer2_[l])
        BY <2>2, <2>3 DEF OwnApart
      <3>3. isFull \in BOOLEAN /\ isGap \in BOOLEAN /\ (isGap => nextBuffer_[l] = NULL)
        <4>1. isGap \in BOOLEAN
          OBVIOUS
        <4>2. isFull \in BOOLEAN
          <5>1. cur_[currentBuffer_[l]] \in Int
            BY <2>2, AsyncLoggingAssumption DEF IInv, TypeOK
          <5>2. QED
            BY <5>1
        <4>3. QED
          BY <4>1, <4>2
      <3> HIDE DEF isFull, isGap, v2, c2, n2, f2, s2
      <3>4. /\ Apart(v2, <<>>, c2, n2, f2, s2)
            /\ Reach(v2, <<>>, c2, n2, f2, s2)
                    \subseteq Reach(<<>>, buffers_[l], currentBuffer_[l], nextBuffer_[l],
                                    buffer1_[l], buffer2_[l])
        <4> DEFINE w == buffers_[l]
                   c == currentBuffer_[l]
                   n == nextBuffer_[l]
                   f == buffer1_[l]
                   s == buffer2_[l]
        <4>1. /\ w \in Seq(Buffers) /\ c \in Buffers /\ n \in Buffers \cup {NULL}
              /\ f \in Buffers /\ s \in Buffers /\ Apart(<<>>, w, c, n, f, s)
          BY <2>2, <3>2
        <4>2. /\ isFull => v2 = Append(w, c) /\ c2 = f /\ f2 = NULL
              /\ ~isFull => v2 = w /\ c2 = c /\ f2 = f
              /\ isGap => n2 = s /\ s2 = NULL
              /\ ~isGap => n2 = n /\ s2 = s
              /\ isFull \in BOOLEAN /\ isGap \in BOOLEAN /\ (isGap => n = NULL)
          BY <3>1, <3>3
        <4> HIDE DEF w, c, n, f, s
        <4>3. NULL \notin Buffers
          BY DEF Buffers, NULL
        <4>4. /\ Elements(w) \subseteq Buffers /\ Elements(<<>>) = {} /\ Distinct(<<>>)
              /\ Elements(Append(w, c)) = Elements(w) \cup {c} /\ Distinct(Append(w, c))
          BY <4>1, ElementOfSeq, ElementsEmpty, ElementsAppend DEF Apart, Elements
        <4>5. /\ Elements(v2) = Elements(w) \cup IF isFull THEN {c} ELSE {}
              /\ Distinct(v2)
          BY <4>1, <4>2, <4>4 DEF Apart
        <4>6. Apart(v2, <<>>, c2, n2, f2, s2)
          BY <4>1, <4>2, <4>3, <4>4, <4>5 DEF Apart
        <4>7. Reach(v2, <<>>, c2, n2, f2, s2) \subseteq Reach(<<>>, w, c, n, f, s)
          BY <4>1, <4>2, <4>3, <4>4, <4>5 DEF Reach
        <4>8. QED
          BY <4>6, <4>7 DEF w, c, n, f, s
      <3>5. /\ OwnApart(l)' = Apart(v2, <<>>, c2, n2, f2, s2)
            /\ HeldBy(l)' = Reach(v2, <<>>, c2, n2, f2, s2)
        BY <3>1, NextPointers DEF v2, c2, n2, f2, s2
      <3>6. QED
        BY <2>2, <2>3, <3>4, <3>5
    <2>6. QED
      BY <2>4, <2>5
  <1>4. QED
    BY <1>3 DEF NoneShared

LEMMA NoneSharedRecycle ==
    ASSUME IInv, NoneShared, Recycle
    PROVE  NoneShared'
  <1> DEFINE l == Head(toWrite)
             v == buffersToWrite_[l]
             last == IF buffer1_[l] = NULL THEN Len(v) - 1 ELSE Len(v)
             f2 == IF buffer1_[l] = NULL THEN v[Len(v)] ELSE buffer1_[l]
             s2 == IF buffer2_[l] = NULL THEN v[last] ELSE buffer2_[l]
  <1>1. l \in Loggers
    BY HeadTailProperties DEF Recycle, IInv, TypeOK
  <1>2. /\ v \in Seq(Buffers) /\ buffers_[l] \in Seq(Buffers) /\ currentBuffer_[l] \in Buffers
        /\ nextBuffer_[l] \in Buffers \cup {NULL}
        /\ buffer1_[l] \in Buffers \cup {NULL} /\ buffer2_[l] \in Buffers \cup {NULL}
    BY <1>1 DEF IInv, TypeOK
  <1>3. /\ buffersToWrite_ \in [Loggers -> Seq(Buffers)]
        /\ buffer1_ \in [Loggers -> Buffers \cup {NULL}]
        /\ buffer2_ \in [Loggers -> Buffers \cup {NULL}]
    BY DEF IInv, TypeOK
  <1>4. /\ buffersToWrite_' = [buffersToWrite_ EXCEPT ![l] = <<>>]
        /\ buffer1_' = [buffer1_ EXCEPT ![l] = f2]
        /\ buffer2_' = [buffer2_ EXCEPT ![l] = s2]
        /\ UNCHANGED <<buffers_, currentBuffer_, nextBuffer_>>
    <2>1. /\ buffer1_' = IF buffer1_[l] = NULL THEN [buffer1_ EXCEPT ![l] = v[Len(v)]] ELSE buffer1_
          /\ buffer2_' = IF buffer2_[l] = NULL THEN [buffer2_ EXCEPT ![l] = v[last]] ELSE buffer2_
          /\ buffersToWrite_' = [buffersToWrite_ EXCEPT ![l] = <<>>]
          /\ UNCHANGED <<buffers_, currentBuffer_, nextBuffer_>>
      BY DEF Recycle, Refill, producerVars
    <2> HIDE DEF v, last
    <2>2. QED
      BY <1>1, <1>3, <2>1
  <1>5. /\ buffer1_[l] = NULL => Len(v) \in 1..Len(v)
        /\ buffer2_[l] = NULL => last \in 1..Len(v)
    <2>1. Missing(l) <= Len(v)
      BY <1>1 DEF IInv, RecycleFindsBuffers
    <2> HIDE DEF v
    <2>2. Len(v) \in Nat
      BY <1>2
    <2>3. QED
      BY <2>1, <2>2 DEF Missing
  <1>6. /\ Apart(v, buffers_[l], currentBuffer_[l], nextBuffer_[l], buffer1_[l], buffer2_[l])
        /\ HeldBy(l) = Reach(v, buffers_[l], currentBuffer_[l], nextBuffer_[l],
                             buffer1_[l], buffer2_[l])
    BY <1>1, HeldByReach DEF NoneShared, OwnApart
  <1>7. /\ last = IF buffer1_[l] = NULL THEN Len(v) - 1 ELSE Len(v)
        /\ f2 = IF buffer1_[l] = NULL THEN v[Len(v)] ELSE buffer1_[l]
        /\ s2 = IF buffer2_[l] = NULL THEN v[last] ELSE buffer2_[l]
    OBVIOUS
  <1> HIDE DEF l, v, last, f2, s2
  <1>8. /\ Apart(<<>>, buffers_[l], currentBuffer_[l], nextBuffer_[l], f2, s2)
        /\ Reach(<<>>, buffers_[l], currentBuffer_[l], nextBuffer_[l], f2, s2) \subseteq HeldBy(l)
    <2> DEFINE w == buffers_[l]
               c == currentBuffer_[l]
               n == nextBuffer_[l]
               f == buffer1_[l]
               s == buffer2_[l]
    <2>1. /\ w \in Seq(Buffers) /\ c \in Buffers /\ n \in Buffers \cup {NULL}
          /\ f \in Buffers \cup {NULL} /\ s \in Buffers \cup {NULL}
          /\ f = NULL => last = Len(v) - 1 /\ Len(v) \in 1..Len(v) /\ f2 = v[Len(v)]
          /\ f # NULL => last = Len(v) /\ f2 = f
          /\ s = NULL => last \in 1..Len(v) /\ s2 = v[last]
          /\ s # NULL => s2 = s
      BY <1>2, <1>5, <1>7
    <2>2. Apart(v, w, c, n, f, s) /\ HeldBy(l) = Reach(v, w, c, n, f, s)
      BY <1>6
    <2> HIDE DEF w, c, n, f, s
    <2>3. v \in Seq(Buffers)
      BY <1>2
    <2>4. NULL \notin Buffers /\ Elements(<<>>) = {} /\ Distinct(<<>>)
      BY ElementsEmpty DEF Buffers, NULL
    <2>5. Elements(v) \subseteq Buffers /\ Elements(w) \subseteq Buffers
      BY <2>1, <2>3, ElementOfSeq DEF Elements
    <2>6. (f = NULL => f2 \in Elements(v)) /\ (s = NULL => s2 \in Elements(v))
      BY <2>1 DEF Elements
    <2>7. f = NULL /\ s = NULL => f2 # s2
      <3>1. Len(v) \in Nat
        BY <2>3
      <3>2. QED
        BY <2>1, <2>2, <3>1 DEF Apart, Distinct
    <2>8. Apart(<<>>, w, c, n, f2, s2)
      BY <2>1, <2>2, <2>4, <2>5, <2>6, <2>7 DEF Apart
    <2>9. Reach(<<>>, w, c, n, f2, s2) \subseteq Reach(v, w, c, n, f, s)
      BY <2>1, <2>4, <2>5, <2>6 DEF Reach
    <2>10. QED
      BY <2>2, <2>8, <2>9 DEF w, c, n, f, s
  <1>9. /\ buffersToWrite_'[l] = <<>> /\ buffer1_'[l] = f2 /\ buffer2_'[l] = s2
        /\ buffers_'[l] = buffers_[l] /\ currentBuffer_'[l] = currentBuffer_[l]
        /\ nextBuffer_'[l] = nextBuffer_[l]
    BY <1>1, <1>3, <1>4
  <1>10. ASSUME NEW k \in Loggers, k = l
         PROVE  OwnApart(k)' /\ HeldBy(k)' \subseteq HeldBy(k)
    <2>1. /\ buffersToWrite_'[k] = <<>> /\ buffer1_'[k] = f2 /\ buffer2_'[k] = s2
          /\ buffers_'[k] = buffers_[k] /\ currentBuffer_'[k] = currentBuffer_[k]
          /\ nextBuffer_'[k] = nextBuffer_[k]
      BY <1>9, <1>10
    <2>2. /\ Apart(<<>>, buffers_[k], currentBuffer_[k], nextBuffer_[k], f2, s2)
          /\ Reach(<<>>, buffers_[k], currentBuffer_[k], nextBuffer_[k], f2, s2) \subseteq HeldBy(k)
      BY <1>8, <1>10
    <2>3. /\ OwnApart(k)' = Apart(<<>>, buffers_[k], currentBuffer_[k], nextBuffer_[k], f2, s2)
          /\ HeldBy(k)' = Reach(<<>>, buffers_[k], currentBuffer_[k], nextBuffer_[k], f2, s2)
      BY <2>1, NextPointers
    <2>4. QED
      BY <2>2, <2>3
  <1>11. ASSUME NEW k \in Loggers, k # l
         PROVE  HeldBy(k)' = HeldBy(k) /\ (OwnApart(k)' <=> OwnApart(k))
    <2>1. /\ buffersToWrite_'[k] = buffersToWrite_[k] /\ buffer1_'[k] = buffer1_[k]
          /\ buffer2_'[k] = buffer2_[k]
      BY <1>3, <1>4, <1>11
    <2>2. QED
      BY <1>4, <2>1, SamePointers
  <1>12. \A k \in Loggers : OwnApart(k)' /\ HeldBy(k)' \subseteq HeldBy(k)
    BY <1>10, <1>11 DEF NoneShared
  <1>13. QED
    BY <1>12 DEF NoneShared

LEMMA NoneSharedStep == IInv /\ NoneShared /\ [Next]_vars => NoneShared'
  <1> SUFFICES ASSUME IInv, NoneShared, [Next]_vars PROVE NoneShared'
    OBVIOUS
  <1>1. CASE TakeLoggers
    BY <1>1, NoneSharedTakeLoggers
  <1>2. CASE Recycle
    BY <1>2, NoneSharedRecycle
  <1>3. ASSUME NEW l \in Loggers, NEW len \in Sizes, LogLine(l, len) PROVE NoneShared'
    BY <1>3, NoneSharedLogLine
  <1>4. CASE \/ Start \/ StopStore \/ StartReturns \/ StopNotify \/ Join \/ SpuriousWakeup
             \/ ThreadStarts \/ CheckRunning \/ Wait \/ BatchDone \/ WriteBuffer
             \/ UNCHANGED vars
    <2>1. UNCHANGED <<buffersToWrite_, buffers_, currentBuffer_, nextBuffer_,
                      buffer1_, buffer2_>>
      BY <1>4 DEF Start, StopStore, StartReturns, StopNotify, Join, SpuriousWakeup,
         ThreadStarts, CheckRunning, Wait, BatchDone, WriteBuffer, vars, loggerVars,
         producerVars, backendVars
    <2>2. QED
      BY <2>1, NoneSharedUnchanged
  <1>5. QED
    BY <1>1, <1>2, <1>3, <1>4 DEF Next, Owner, BackendStep

\* A place among the pointers of a logger is in one of the two vectors or one of
\* the four pointers.
LEMMA PointerPlaces ==
    ASSUME NEW v \in Seq(Buffers), NEW w \in Seq(Buffers),
           NEW t \in Seq(Buffers \cup {NULL}), Len(t) = 4
    PROVE  /\ Len(v) \in Nat /\ Len(w) \in Nat /\ Len(v \o w \o t) = Len(v) + Len(w) + 4
           /\ \A i \in 1..Len(v \o w \o t) :
                (v \o w \o t)[i] = IF i <= Len(v) THEN v[i]
                                   ELSE IF i <= Len(v) + Len(w) THEN w[i - Len(v)]
                                   ELSE t[i - Len(v) - Len(w)]
  <1>1. /\ v \in Seq(Buffers \cup {NULL}) /\ w \in Seq(Buffers \cup {NULL})
    BY SeqMonotonic
  <1>2. /\ v \o w \in Seq(Buffers \cup {NULL}) /\ Len(v \o w) = Len(v) + Len(w)
        /\ \A i \in 1..Len(v) + Len(w) :
                (v \o w)[i] = IF i <= Len(v) THEN v[i] ELSE w[i - Len(v)]
    BY <1>1, ConcatProperties
  <1> DEFINE x == v \o w
             p == x \o t
  <1>3. /\ Len(p) = Len(x) + 4
        /\ \A i \in 1..Len(x) + Len(t) :
                p[i] = IF i <= Len(x) THEN x[i] ELSE t[i - Len(x)]
    <2>1. x \in Seq(Buffers \cup {NULL})
      BY <1>2
    <2> HIDE DEF x
    <2>2. /\ Len(x \o t) = Len(x) + Len(t)
          /\ \A i \in 1..Len(x) + Len(t) :
                (x \o t)[i] = IF i <= Len(x) THEN x[i] ELSE t[i - Len(x)]
      BY <2>1, ConcatProperties
    <2>3. QED
      BY <2>2
  <1>4. Len(v) \in Nat /\ Len(w) \in Nat
    OBVIOUS
  <1>5. p = v \o w \o t /\ Len(x) = Len(v) + Len(w)
    BY <1>2
  <1> HIDE DEF p
  <1>6. /\ Len(p) = Len(v) + Len(w) + 4
        /\ \A i \in 1..Len(p) : p[i] = IF i <= Len(v) THEN v[i]
                                       ELSE IF i <= Len(v) + Len(w) THEN w[i - Len(v)]
                                       ELSE t[i - Len(v) - Len(w)]
    BY <1>2, <1>3, <1>4, <1>5
  <1>7. QED
    BY <1>4, <1>5, <1>6

LEMMA PlacesApart ==
    ASSUME NEW v \in Seq(Buffers), NEW w \in Seq(Buffers),
           NEW t \in Seq(Buffers \cup {NULL}), Len(t) = 4, t[1] # NULL,
           Apart(v, w, t[1], t[2], t[3], t[4])
    PROVE  /\ \A i \in 1..Len(v \o w \o t) :
                \/ (v \o w \o t)[i] = NULL
                \/ (v \o w \o t)[i] \in Reach(v, w, t[1], t[2], t[3], t[4])
           /\ \A i, j \in 1..Len(v \o w \o t) :
                (v \o w \o t)[i] = (v \o w \o t)[j] /\ (v \o w \o t)[i] # NULL => i = j
  <1> DEFINE p == v \o w \o t
  <1>1. /\ Len(v) \in Nat /\ Len(w) \in Nat /\ Len(p) = Len(v) + Len(w) + 4
        /\ \A i \in 1..Len(p) :
             p[i] = IF i <= Len(v) THEN v[i]
                    ELSE IF i <= Len(v) + Len(w) THEN w[i - Len(v)]
                    ELSE t[i - Len(v) - Len(w)]
    BY PointerPlaces
  <1> HIDE DEF p
  <1> DEFINE InV(i) == i \in 1..Len(v) /\ p[i] = v[i]
             InW(i) == i - Len(v) \in 1..Len(w) /\ p[i] = w[i - Len(v)]
             InT(i) == i - Len(v) - Len(w) \in 1..4 /\ p[i] = t[i - Len(v) - Len(w)]
  <1>2. \A i \in 1..Len(p) : i \in Int /\ (InV(i) \/ InW(i) \/ InT(i))
    BY <1>1, SMTT(30)
  <1>3. /\ \A i : InV(i) => p[i] \in Elements(v)
        /\ \A i : InW(i) => p[i] \in Elements(w)
    BY DEF Elements
  <1>4. \A i : InT(i) => p[i] \in {t[1], t[2], t[3], t[4]}
    <2>1. \A m \in 1..4 : m \in {1, 2, 3, 4}
      OBVIOUS
    <2>2. QED
      BY <2>1
  <1>5. \A m, o \in 1..4 : t[m] = t[o] /\ t[m] # NULL => m = o
    <2>1. \A m \in 1..4 : m \in {1, 2, 3, 4}
      OBVIOUS
    <2>2. QED
      BY <2>1 DEF Apart
  <1>6. ASSUME NEW i \in 1..Len(p), NEW j \in 1..Len(p), p[i] = p[j], p[i] # NULL
        PROVE  i = j
    <2>1. CASE InV(i) /\ InV(j)
      BY <1>6, <2>1 DEF Apart, Distinct
    <2>2. CASE InW(i) /\ InW(j)
      <3>1. i - Len(v) = j - Len(v)
        BY <1>6, <2>2 DEF Apart, Distinct
      <3>2. QED
        BY <1>1, <1>2, <3>1
    <2>3. CASE InT(i) /\ InT(j)
      <3>1. i - Len(v) - Len(w) = j - Len(v) - Len(w)
        BY <1>5, <1>6, <2>3
      <3>2. QED
        BY <1>1, <1>2, <3>1
    <2> HIDE DEF InV, InW, InT
    <2>4. CASE InT(i) /\ ~InT(j)
      BY <1>2, <1>3, <1>4, <1>6, <2>4 DEF Apart
    <2>5. CASE ~InT(i) /\ InT(j)
      BY <1>2, <1>3, <1>4, <1>6, <2>5 DEF Apart
    <2>6. CASE ~InT(i) /\ ~InT(j) /\ ~(InV(i) /\ InV(j)) /\ ~(InW(i) /\ InW(j))
      BY <1>2, <1>3, <1>6, <2>6 DEF Apart
    <2>7. QED
      BY <2>1, <2>2, <2>3, <2>4, <2>5, <2>6
  <1> HIDE DEF InV, InW, InT
  <1>7. \A i \in 1..Len(p) : p[i] = NULL \/ p[i] \in Reach(v, w, t[1], t[2], t[3], t[4])
    BY <1>2, <1>3, <1>4 DEF Reach
  <1>8. QED
    BY <1>6, <1>7 DEF p

LEMMA PointersApart ==
    ASSUME IInv, NoneShared, NEW l \in Loggers
    PROVE  /\ \A i \in 1..Len(Pointers(l)) :
                Pointers(l)[i] = NULL \/ Pointers(l)[i] \in HeldBy(l)
           /\ \A i, j \in 1..Len(Pointers(l)) :
                Pointers(l)[i] = Pointers(l)[j] /\ Pointers(l)[i] # NULL => i = j
  <1> DEFINE v == buffersToWrite_[l]
             w == buffers_[l]
             t == <<currentBuffer_[l], nextBuffer_[l], buffer1_[l], buffer2_[l]>>
  <1>1. /\ v \in Seq(Buffers) /\ w \in Seq(Buffers)
        /\ t \in Seq(Buffers \cup {NULL}) /\ Len(t) = 4 /\ t[1] # NULL
    BY SMTT(30) DEF IInv, TypeOK, Buffers, NULL
  <1>2. OwnApart(l)
    BY DEF NoneShared
  <1>3. Apart(v, w, t[1], t[2], t[3], t[4]) /\ HeldBy(l) = Reach(v, w, t[1], t[2], t[3], t[4])
    BY <1>2, HeldByReach DEF OwnApart
  <1>4. Pointers(l) = v \o w \o t
    BY DEF Pointers
  <1> HIDE DEF v, w, t
  <1>5. /\ \A i \in 1..Len(v \o w \o t) :
                \/ (v \o w \o t)[i] = NULL
                \/ (v \o w \o t)[i] \in Reach(v, w, t[1], t[2], t[3], t[4])
        /\ \A i, j \in 1..Len(v \o w \o t) :
                (v \o w \o t)[i] = (v \o w \o t)[j] /\ (v \o w \o t)[i] # NULL => i = j
    BY <1>1, <1>3, PlacesApart
  <1>6. QED
    BY <1>3, <1>4, <1>5

LEMMA NoneSharedPointers == IInv /\ NoneShared => NoSharedBuffer
  <1> SUFFICES ASSUME IInv, NoneShared PROVE NoSharedBuffer
    OBVIOUS
  <1>1. ASSUME NEW k \in Loggers, NEW l \in Loggers,
               NEW i \in 1..Len(Pointers(k)), NEW j \in 1..Len(Pointers(l)),
               Pointers(k)[i] = Pointers(l)[j], Pointers(k)[i] # NULL
        PROVE  k = l /\ i = j
    <2>1. Pointers(k)[i] \in HeldBy(k) /\ Pointers(k)[i] \in HeldBy(l)
      BY <1>1, PointersApart
    <2>2. k = l
      BY <2>1 DEF NoneShared
    <2>3. QED
      BY <1>1, <2>2, PointersApart
  <1>2. QED
    BY <1>1 DEF NoSharedBuffer
-----------------------------------------------------------------------------
(* Lines, from append to the file.                                         *)

\* What the buffers of v hold, one behind the other, in a memory ls.
Texts(ls, v) == [i \in 1..Len(v) |-> ls[v[i]]]
Text(ls, v)  == Lists!FlattenSeq(Texts(ls, v))

\* Only the buffers between append and the file hold lines.
Clean ==
    \A b \in Buffers : lines[b] # <<>> =>
        \E l \in Loggers : \/ b \in Elements(buffersToWrite_[l])
                           \/ b \in Elements(buffers_[l])
                           \/ b = currentBuffer_[l]

\* The file w, the full buffers' text t and the current one's c have a lines.
Ordered(w, t, c, a) == w \o (t \o c) = [n \in 1..a |-> n]

InOrder(l) ==
    Ordered(written[l], Text(lines, StillToWrite(l) \o buffers_[l]),
            lines[currentBuffer_[l]], accepted[l])

LinesInv == Clean /\ \A l \in Loggers : InOrder(l)

LEMMA TextNone == \A ls : Text(ls, <<>>) = <<>>
  <1>1. ASSUME NEW ls PROVE Texts(ls, <<>>) = <<>>
    BY DEF Texts
  <1>2. QED
    BY <1>1, FlattenNone DEF Text

LEMMA TextsType ==
    ASSUME NEW ls \in [Buffers -> Seq(Nat)], NEW v \in Seq(Buffers)
    PROVE  Texts(ls, v) \in Seq(Seq(Nat))
  BY DEF Texts

\* A buffer behind the others, and one in front of them.
LEMMA TextAppend ==
    ASSUME NEW ls \in [Buffers -> Seq(Nat)], NEW v \in Seq(Buffers), NEW b \in Buffers
    PROVE  /\ Text(ls, v) \in Seq(Nat) /\ ls[b] \in Seq(Nat)
           /\ Text(ls, Append(v, b)) = Text(ls, v) \o ls[b]
  <1>1. ls[b] \in Seq(Nat)
    OBVIOUS
  <1>2. Texts(ls, Append(v, b)) = Append(Texts(ls, v), ls[b])
    BY DEF Texts
  <1>3. Texts(ls, v) \in Seq(Seq(Nat))
    BY TextsType
  <1>4. QED
    BY <1>1, <1>2, <1>3, FlattenAppend DEF Text

LEMMA TextFront ==
    ASSUME NEW ls \in [Buffers -> Seq(Nat)], NEW v \in Seq(Buffers), NEW b \in Buffers
    PROVE  Text(ls, <<b>> \o v) = ls[b] \o Text(ls, v)
  <1>1. ls[b] \in Seq(Nat)
    OBVIOUS
  <1>2. Texts(ls, <<b>> \o v) = <<ls[b]>> \o Texts(ls, v)
    <2> DEFINE r == <<b>> \o v
               q == <<ls[b]>> \o Texts(ls, v)
               one == <<b>>
               first == <<ls[b]>>
    <2>1. /\ one \in Seq(Buffers) /\ Len(one) = 1 /\ one[1] = b /\ Len(v) \in Nat
          /\ first \in Seq(Seq(Nat)) /\ Len(first) = 1 /\ first[1] = ls[b]
          /\ Texts(ls, v) \in Seq(Seq(Nat)) /\ Len(Texts(ls, v)) = Len(v)
          /\ \A k \in 1..Len(v) : Texts(ls, v)[k] = ls[v[k]]
      BY <1>1, TextsType DEF Texts
    <2> HIDE DEF one, first
    <2>2. r \in Seq(Buffers) /\ Behind(r, one, v)
      BY <2>1, ConcatBehind DEF one
    <2>3. q \in Seq(Seq(Nat)) /\ Behind(q, first, Texts(ls, v))
      BY <2>1, ConcatBehind DEF first
    <2> HIDE DEF r, q
    <2>4. Texts(ls, r) \in Seq(Seq(Nat)) /\ Len(Texts(ls, r)) = Len(r)
      <3>1. Texts(ls, r) \in Seq(Seq(Nat))
        BY <2>2, TextsType
      <3>2. Len(r) \in Nat
        BY <2>2
      <3>3. QED
        BY <3>1, <3>2 DEF Texts
    <2>5. Len(r) = Len(v) + 1 /\ Len(q) = Len(v) + 1
      BY <2>1, <2>2, <2>3 DEF Behind
    <2>6. ASSUME NEW k \in 1..Len(r)
          PROVE  Texts(ls, r)[k] = q[k]
      <3>1. Texts(ls, r)[k] = ls[r[k]]
        BY DEF Texts
      <3>2. CASE k = 1
        BY <2>1, <2>2, <2>3, <3>1, <3>2 DEF Behind
      <3>3. CASE k # 1
        <4> DEFINE j == k - 1
        <4>1. j \in 1..Len(v) /\ 1 + j = k
          BY <2>1, <2>5, <3>3
        <4> HIDE DEF j
        <4>2. r[1 + j] = v[j] /\ q[1 + j] = ls[v[j]]
          BY <2>1, <2>2, <2>3, <4>1 DEF Behind
        <4>3. QED
          BY <3>1, <4>1, <4>2
      <3>4. QED
        BY <3>2, <3>3
    <2>7. Texts(ls, r) = q
      BY <2>3, <2>4, <2>5, <2>6, SeqEqual
    <2>8. QED
      BY <2>7 DEF r, q
  <1>3. Texts(ls, v) \in Seq(Seq(Nat))
    BY TextsType
  <1>4. QED
    BY <1>1, <1>2, <1>3, FlattenFront DEF Text

\* Two memories that agree on the buffers.
LEMMA TextSame ==
    ASSUME NEW ls, NEW ms, NEW v \in Seq(Buffers), \A b \in Elements(v) : ls[b] = ms[b]
    PROVE  Text(ls, v) = Text(ms, v)
  <1>1. \A i \in 1..Len(v) : ls[v[i]] = ms[v[i]]
    BY DEF Elements
  <1>2. Texts(ls, v) = Texts(ms, v)
    BY <1>1 DEF Texts
  <1>3. QED
    BY <1>2 DEF Text

\* The buffers of two vectors.
LEMMA ElementsConcat ==
    ASSUME NEW v \in Seq(Buffers), NEW w \in Seq(Buffers)
    PROVE  v \o w \in Seq(Buffers) /\ Elements(v \o w) \subseteq Elements(v) \cup Elements(w)
  <1>1. v \o w \in Seq(Buffers) /\ Behind(v \o w, v, w)
    BY ConcatBehind
  <1>2. ASSUME NEW i \in 1..Len(v \o w)
        PROVE  (v \o w)[i] \in Elements(v) \cup Elements(w)
    <2>1. Len(v) \in Nat /\ Len(w) \in Nat /\ Len(v \o w) = Len(v) + Len(w)
      BY <1>1 DEF Behind
    <2>2. CASE i <= Len(v)
      BY <1>1, <2>1, <2>2 DEF Behind, Elements
    <2>3. CASE i > Len(v)
      <3> DEFINE j == i - Len(v)
      <3>1. j \in 1..Len(w) /\ Len(v) + j = i
        BY <2>1, <2>3
      <3> HIDE DEF j
      <3>2. (v \o w)[Len(v) + j] = w[j]
        BY <1>1, <3>1 DEF Behind
      <3>3. QED
        BY <3>1, <3>2 DEF Elements
    <2>4. QED
      BY <2>1, <2>2, <2>3
  <1>3. QED
    BY <1>1, <1>2 DEF Elements

\* What is still to be written of a batch is some of it.
LEMMA StillTypes ==
    ASSUME TypeOK, NEW l \in Loggers
    PROVE  /\ StillToWrite(l) \in Seq(Buffers)
           /\ Elements(StillToWrite(l)) \subseteq Elements(buffersToWrite_[l])
  <1> DEFINE v == buffersToWrite_[l]
             s == SubSeq(v, position + 1, Len(v))
  <1>1. v \in Seq(Buffers) /\ position \in Nat /\ Len(v) \in Nat
    BY DEF TypeOK
  <1>2. s \in Seq(Buffers) /\ Elements(s) \subseteq Elements(v)
    <2> DEFINE m == position + 1
               n == Len(v)
    <2>1. m \in Int /\ n \in Int /\ m >= 1 /\ \A i \in m..n : v[i] \in Buffers
      BY <1>1
    <2> HIDE DEF v, m, n
    <2>2. /\ SubSeq(v, m, n) \in Seq(Buffers)
          /\ Len(SubSeq(v, m, n)) = IF m <= n THEN n - m + 1 ELSE 0
          /\ \A i \in 1..(n - m + 1) : SubSeq(v, m, n)[i] = v[m + i - 1]
      BY <2>1, SubSeqProperties
    <2>3. ASSUME NEW i \in 1..Len(SubSeq(v, m, n))
          PROVE  SubSeq(v, m, n)[i] \in Elements(v)
      <3>1. i \in 1..(n - m + 1) /\ m + i - 1 \in 1..n
        BY <2>1, <2>2
      <3>2. QED
        BY <2>2, <3>1 DEF Elements, n
    <2>4. QED
      BY <2>2, <2>3 DEF Elements, m, n
  <1> HIDE DEF s
  <1>3. StillToWrite(l) = s \/ StillToWrite(l) = v
    BY DEF StillToWrite, s
  <1>4. QED
    BY <1>1, <1>2, <1>3

\* Buffers that wait to be used are empty.
LEMMA SparesEmpty ==
    ASSUME NoneShared, Clean, NEW l \in Loggers, NEW b \in Buffers,
           b \in {nextBuffer_[l], buffer1_[l], buffer2_[l]} \/ b \in Unused
    PROVE  lines[b] = <<>>
  <1>1. b # NULL
    BY DEF Buffers, NULL
  <1>2. ASSUME NEW k \in Loggers
        PROVE  b \notin Elements(buffersToWrite_[k]) /\ b \notin Elements(buffers_[k]) /\ b # currentBuffer_[k]
    <2>1. CASE b \in Unused
      BY <1>1, <2>1 DEF Unused, HeldBy
    <2>2. CASE b \notin Unused /\ k = l
      BY <1>1, <2>2 DEF NoneShared, OwnApart, Apart
    <2>3. CASE b \notin Unused /\ k # l
      <3>1. b \in HeldBy(l)
        BY <1>1, <2>3 DEF HeldBy
      <3>2. b \notin HeldBy(k)
        BY <2>3, <3>1 DEF NoneShared
      <3>3. QED
        BY <1>1, <3>2 DEF HeldBy
    <2>4. QED
      BY <2>1, <2>2, <2>3
  <1>3. QED
    BY <1>2 DEF Clean

\* The steps that leave buffers and lines where they are.
LEMMA CleanKept ==
    ASSUME Clean, UNCHANGED <<lines, buffersToWrite_, buffers_, currentBuffer_>>
    PROVE  Clean'
  <1> SUFFICES ASSUME NEW b \in Buffers, lines'[b] # <<>>
               PROVE  \E k \in Loggers : \/ b \in Elements(buffersToWrite_[k])'
                                         \/ b \in Elements(buffers_[k])'
                                         \/ b = currentBuffer_'[k]
    BY DEF Clean
  <1>1. lines[b] # <<>>
    OBVIOUS
  <1>2. PICK k \in Loggers : \/ b \in Elements(buffersToWrite_[k])
                             \/ b \in Elements(buffers_[k])
                             \/ b = currentBuffer_[k]
    BY <1>1 DEF Clean
  <1>3. Elements(buffersToWrite_[k])' = Elements(buffersToWrite_[k])
    BY DEF Elements
  <1>4. Elements(buffers_[k])' = Elements(buffers_[k])
    BY DEF Elements
  <1>5. currentBuffer_'[k] = currentBuffer_[k]
    OBVIOUS
  <1>6. QED
    BY <1>2, <1>3, <1>4, <1>5

LEMMA LinesUnchanged ==
    ASSUME LinesInv,
           UNCHANGED <<toWrite, position, buffersToWrite_, buffers_, currentBuffer_,
                       lines, accepted, written>>
    PROVE  LinesInv'
  <1>1. Clean'
    <2>1. Clean
      BY ZenonT(40) DEF LinesInv
    <2>2. QED
      BY <2>1, CleanKept
  <1>2. ASSUME NEW l \in Loggers PROVE InOrder(l)'
    <2>1. Ordered(written[l], Text(lines, StillToWrite(l) \o buffers_[l]),
                  lines[currentBuffer_[l]], accepted[l])
      BY DEF LinesInv, InOrder
    <2>2. StillToWrite(l)' = StillToWrite(l)
      BY DEF StillToWrite
    <2>3. QED
      BY <2>1, <2>2 DEF InOrder, Ordered, Text, Texts
  <1>3. QED
    BY <1>1, <1>2 DEF LinesInv

\* A full current buffer c goes behind the others, an empty one takes its place.
LEMMA OrderedNext ==
    ASSUME NEW ls \in [Buffers -> Seq(Nat)], NEW v \in Seq(Buffers), NEW w \in Seq(Buffers),
           NEW c \in Buffers, NEW d, d = <<>>, NEW x, NEW a,
           Ordered(x, Text(ls, v \o w), ls[c], a)
    PROVE  Ordered(x, Text(ls, v \o Append(w, c)), d, a)
  <1>1. v \o Append(w, c) = Append(v \o w, c) /\ v \o w \in Seq(Buffers)
    <2>1. v \o Append(w, c) = Append(v \o w, c)
      BY ConcatAppend
    <2>2. v \o w \in Seq(Buffers)
      BY ConcatProperties
    <2>3. QED
      BY <2>1, <2>2
  <1> DEFINE t == Text(ls, v \o w)
  <1>2. /\ t \in Seq(Nat) /\ ls[c] \in Seq(Nat)
        /\ Text(ls, v \o Append(w, c)) = t \o ls[c]
    BY <1>1, TextAppend
  <1>3. (t \o ls[c]) \o d = t \o ls[c]
    <2>1. t \o ls[c] \in Seq(Nat)
      BY <1>2, ConcatProperties
    <2>2. QED
      BY <2>1, ConcatEmptySeq
  <1>4. QED
    BY <1>2, <1>3 DEF Ordered

\* The next line.
LEMMA OrderedLine ==
    ASSUME NEW x \in Seq(Nat), NEW t \in Seq(Nat), NEW c \in Seq(Nat), NEW a \in Nat,
           Ordered(x, t, c, a)
    PROVE  Ordered(x, t, Append(c, a + 1), a + 1)
  <1>1. t \o Append(c, a + 1) = Append(t \o c, a + 1) /\ t \o c \in Seq(Nat)
    <2>1. a + 1 \in Nat
      OBVIOUS
    <2>2. t \o Append(c, a + 1) = Append(t \o c, a + 1)
      BY <2>1, ConcatAppend
    <2>3. t \o c \in Seq(Nat)
      BY ConcatProperties
    <2>4. QED
      BY <2>2, <2>3
  <1>2. x \o Append(t \o c, a + 1) = Append(x \o (t \o c), a + 1)
    <2> DEFINE q == t \o c
               e == a + 1
    <2>1. q \in Seq(Nat) /\ e \in Nat
      BY <1>1
    <2> HIDE DEF q, e
    <2>2. x \o Append(q, e) = Append(x \o q, e)
      BY <2>1, ConcatAppend, SMTT(30)
    <2>3. QED
      BY <2>2 DEF q, e
  <1>3. Append([n \in 1..a |-> n], a + 1) = [n \in 1..(a + 1) |-> n]
    BY AppendNumber
  <1>4. QED
    BY <1>1, <1>2, <1>3 DEF Ordered

\* Where a line goes: a buffer b, empty if it was not the current one.
LEMMA LineGoes ==
    ASSUME IInv, NoneShared, Clean, NEW l \in Loggers, NEW len \in Sizes, LogLine(l, len)
    PROVE  \E b \in Buffers, used \in Nat :
              /\ currentBuffer_'[l] = b /\ Store(l, b, used, len)
              /\ \/ b = currentBuffer_[l] /\ buffers_'[l] = buffers_[l]
                 \/ lines[b] = <<>> /\ buffers_'[l] = Append(buffers_[l], currentBuffer_[l])
              /\ \A k \in Loggers \ {l} : buffers_'[k] = buffers_[k] /\ currentBuffer_'[k] = currentBuffer_[k]
  <1>1. /\ buffers_ \in [Loggers -> Seq(Buffers)] /\ currentBuffer_ \in [Loggers -> Buffers]
        /\ nextBuffer_ \in [Loggers -> Buffers \cup {NULL}]
        /\ \A b \in Buffers : cur_[b] \in Nat
    BY AsyncLoggingAssumption DEF IInv, TypeOK
  <1>2. KeepCurrent(l, len) \/ TakeNext(l, len) \/ MakeNew(l, len)
    BY DEF LogLine
  <1>3. CASE KeepCurrent(l, len)
    BY <1>1, <1>3 DEF KeepCurrent
  <1>4. CASE TakeNext(l, len)
    <2> DEFINE b == nextBuffer_[l]
    <2>1. b \in Buffers /\ lines[b] = <<>>
      BY <1>1, <1>4, SparesEmpty DEF TakeNext
    <2>2. Store(l, b, cur_[b], len)
      BY <1>4 DEF TakeNext
    <2>3. buffers_' = [buffers_ EXCEPT ![l] = Append(buffers_[l], currentBuffer_[l])]
      BY <1>4 DEF TakeNext
    <2>4. currentBuffer_' = [currentBuffer_ EXCEPT ![l] = b]
      BY <1>4 DEF TakeNext
    <2> HIDE DEF b
    <2>5. cur_[b] \in Nat
      BY <1>1, <2>1
    <2>6. QED
      BY <1>1, <2>1, <2>2, <2>3, <2>4, <2>5
  <1>5. CASE MakeNew(l, len)
    <2>1. PICK b \in Unused :
            /\ buffers_' = [buffers_ EXCEPT ![l] = Append(buffers_[l], currentBuffer_[l])]
            /\ currentBuffer_' = [currentBuffer_ EXCEPT ![l] = b]
            /\ Store(l, b, 0, len)
      BY <1>5 DEF MakeNew
    <2>2. b \in Buffers /\ lines[b] = <<>>
      BY SparesEmpty DEF Unused
    <2>3. QED
      BY <1>1, <2>1, <2>2
  <1>6. QED
    BY <1>2, <1>3, <1>4, <1>5

\* The buffer a line goes to is no other's, nor among the full ones.
LEMMA CurrentApart ==
    ASSUME TypeOK, NoneShared, NEW l \in Loggers
    PROVE  /\ currentBuffer_[l] \notin Elements(StillToWrite(l) \o buffers_[l])
           /\ \A k \in Loggers \ {l} : /\ currentBuffer_[l] \notin Elements(StillToWrite(k) \o buffers_[k])
                                       /\ currentBuffer_[l] # currentBuffer_[k]
  <1> DEFINE b == currentBuffer_[l]
  <1>1. b \in Buffers /\ b # NULL
    BY DEF TypeOK, Buffers, NULL
  <1>2. \A k \in Loggers : Elements(StillToWrite(k) \o buffers_[k])
                             \subseteq Elements(buffersToWrite_[k]) \cup Elements(buffers_[k])
    <2> TAKE k \in Loggers
    <2>1. StillToWrite(k) \in Seq(Buffers) /\ buffers_[k] \in Seq(Buffers)
      BY StillTypes DEF TypeOK
    <2>2. QED
      BY <2>1, StillTypes, ElementsConcat
  <1>3. b \notin Elements(buffersToWrite_[l]) /\ b \notin Elements(buffers_[l])
    BY DEF NoneShared, OwnApart, Apart
  <1>4. ASSUME NEW k \in Loggers, k # l
        PROVE  b \notin Elements(buffersToWrite_[k]) /\ b \notin Elements(buffers_[k]) /\ b # currentBuffer_[k]
    <2>1. b \in HeldBy(l)
      BY <1>1 DEF HeldBy
    <2>2. b \notin HeldBy(k)
      BY <1>4, <2>1 DEF NoneShared
    <2>3. QED
      BY <1>1, <2>2 DEF HeldBy
  <1>5. QED
    BY <1>2, <1>3, <1>4

LEMMA LinesLogLine ==
    ASSUME IInv, NoneShared, LinesInv, NEW l \in Loggers, NEW len \in Sizes, LogLine(l, len)
    PROVE  LinesInv'
  <1>1. PICK b \in Buffers, used \in Nat :
          /\ currentBuffer_'[l] = b /\ Store(l, b, used, len)
          /\ \/ b = currentBuffer_[l] /\ buffers_'[l] = buffers_[l]
             \/ lines[b] = <<>> /\ buffers_'[l] = Append(buffers_[l], currentBuffer_[l])
          /\ \A k \in Loggers \ {l} : buffers_'[k] = buffers_[k] /\ currentBuffer_'[k] = currentBuffer_[k]
    BY LineGoes DEF LinesInv
  <1>2. /\ TypeOK /\ TypeOK' /\ NoneShared'
        /\ UNCHANGED <<toWrite, position, buffersToWrite_, written>>
    <2>1. IInv'
      BY IInvLogLine
    <2>2. NoneShared'
      BY NoneSharedLogLine
    <2>3. QED
      BY <2>1, <2>2 DEF IInv, LogLine, backendVars
  <1>3. \A k \in Loggers : StillToWrite(k)' = StillToWrite(k)
    BY <1>2 DEF StillToWrite
  <1>4. /\ lines \in [Buffers -> Seq(Nat)] /\ lines' \in [Buffers -> Seq(Nat)]
        /\ accepted \in [Loggers -> Nat] /\ written \in [Loggers -> Seq(Nat)]
        /\ \A k \in Loggers : /\ buffers_[k] \in Seq(Buffers) /\ buffers_'[k] \in Seq(Buffers)
                              /\ currentBuffer_[k] \in Buffers /\ StillToWrite(k) \in Seq(Buffers)
    BY <1>2, StillTypes DEF TypeOK
  <1>5. \/ /\ lines' = [lines EXCEPT ![b] = Append(@, accepted[l] + 1)]
           /\ accepted' = [accepted EXCEPT ![l] = @ + 1]
        \/ lines' = lines /\ accepted' = accepted
    BY <1>1 DEF Store
  <1>6. \A a \in Buffers : a # b => lines'[a] = lines[a]
    BY <1>4, <1>5
  <1>7. Clean'
    <2> SUFFICES ASSUME NEW a \in Buffers, lines'[a] # <<>>
                 PROVE  \E k \in Loggers : \/ a \in Elements(buffersToWrite_[k])'
                                           \/ a \in Elements(buffers_[k])'
                                           \/ a = currentBuffer_'[k]
      BY DEF Clean
    <2>1. CASE a = b
      BY <1>1, <2>1
    <2>2. CASE a # b
      <3>1. PICK k \in Loggers : \/ a \in Elements(buffersToWrite_[k])
                                 \/ a \in Elements(buffers_[k])
                                 \/ a = currentBuffer_[k]
        BY <1>6, <2>2 DEF LinesInv, Clean
      <3>2. CASE a \in Elements(buffersToWrite_[k])
        BY <1>2, <3>2 DEF Elements
      <3>3. CASE k # l
        BY <1>1, <1>2, <3>1, <3>3 DEF Elements
      <3>4. CASE k = l /\ a \notin Elements(buffersToWrite_[k])
        <4>1. a \in Elements(buffers_[l]) \/ a = currentBuffer_[l]
          BY <3>1, <3>4
        <4>2. Elements(Append(buffers_[l], currentBuffer_[l])) = Elements(buffers_[l]) \cup {currentBuffer_[l]}
          <5>1. buffers_[l] \in Seq(Buffers) /\ currentBuffer_[l] \in Buffers
            BY <1>4
          <5>2. QED
            BY <5>1, ElementsAppend
        <4>3. a \in Elements(buffers_'[l])
          BY <1>1, <2>2, <4>1, <4>2
        <4>4. QED
          BY <4>3 DEF Elements
      <3>5. QED
        BY <3>2, <3>3, <3>4
    <2>3. QED
      BY <2>1, <2>2
  <1>8. /\ b \notin Elements(StillToWrite(l) \o buffers_'[l])
        /\ \A k \in Loggers \ {l} : b \notin Elements(StillToWrite(k) \o buffers_'[k]) /\ b # currentBuffer_'[k]
    <2>1. (/\ currentBuffer_[l] \notin Elements(StillToWrite(l) \o buffers_[l])
           /\ \A k \in Loggers \ {l} : /\ currentBuffer_[l] \notin Elements(StillToWrite(k) \o buffers_[k])
                                       /\ currentBuffer_[l] # currentBuffer_[k])'
      BY <1>2, CurrentApart, PTL
    <2>2. ASSUME NEW k \in Loggers
          PROVE  Elements(StillToWrite(k) \o buffers_[k])' = Elements(StillToWrite(k) \o buffers_'[k])
      <3>1. StillToWrite(k)' = StillToWrite(k)
        BY <1>3
      <3>2. QED
        BY <3>1 DEF Elements
    <2>3. QED
      BY <1>1, <2>1, <2>2
  <1>9. ASSUME NEW k \in Loggers
        PROVE  /\ StillToWrite(k) \o buffers_'[k] \in Seq(Buffers)
               /\ Text(lines', StillToWrite(k) \o buffers_'[k]) = Text(lines, StillToWrite(k) \o buffers_'[k])
               /\ Text(lines, StillToWrite(k) \o buffers_'[k]) \in Seq(Nat)
    <2> DEFINE v == StillToWrite(k) \o buffers_'[k]
    <2>1. v \in Seq(Buffers)
      BY <1>4, ElementsConcat
    <2>2. b \notin Elements(v)
      BY <1>8
    <2>3. \A a \in Elements(v) : a \in Buffers
      BY <2>1 DEF Elements
    <2> HIDE DEF v
    <2>4. Text(lines, v) = Text(lines', v)
      BY <1>6, <2>1, <2>2, <2>3, TextSame
    <2>5. Text(lines, v) \in Seq(Nat)
      BY <1>1, <1>4, <2>1, TextAppend
    <2>6. QED
      BY <2>1, <2>4, <2>5 DEF v
  <1>10. ASSUME NEW k \in Loggers \ {l}
         PROVE  InOrder(k)'
    <2>1. Ordered(written[k], Text(lines, StillToWrite(k) \o buffers_[k]), lines[currentBuffer_[k]], accepted[k])
      BY DEF LinesInv, InOrder
    <2>2. buffers_'[k] = buffers_[k] /\ currentBuffer_'[k] = currentBuffer_[k] /\ accepted'[k] = accepted[k]
      BY <1>1, <1>4, <1>5
    <2>3. lines'[currentBuffer_'[k]] = lines[currentBuffer_[k]]
      BY <1>4, <1>6, <1>8, <2>2
    <2>4. Ordered(written'[k], Text(lines', StillToWrite(k) \o buffers_'[k]), lines'[currentBuffer_'[k]], accepted'[k])
      BY <1>2, <1>9, <2>1, <2>2, <2>3
    <2>5. QED
      BY <1>3, <2>4 DEF InOrder, Ordered, Text, Texts
  <1>11. InOrder(l)'
    <2> DEFINE t == Text(lines, StillToWrite(l) \o buffers_'[l])
    <2>1. Ordered(written[l], Text(lines, StillToWrite(l) \o buffers_[l]), lines[currentBuffer_[l]], accepted[l])
      BY DEF LinesInv, InOrder
    <2>2. Ordered(written[l], t, lines[b], accepted[l])
      <3>1. CASE b = currentBuffer_[l] /\ buffers_'[l] = buffers_[l]
        BY <2>1, <3>1
      <3>2. CASE lines[b] = <<>> /\ buffers_'[l] = Append(buffers_[l], currentBuffer_[l])
        <4>1. buffers_[l] \in Seq(Buffers) /\ currentBuffer_[l] \in Buffers /\ StillToWrite(l) \in Seq(Buffers)
          BY <1>4
        <4>2. Ordered(written[l], Text(lines, StillToWrite(l) \o Append(buffers_[l], currentBuffer_[l])),
                      lines[b], accepted[l])
          BY <1>4, <2>1, <3>2, <4>1, OrderedNext
        <4>3. QED
          BY <3>2, <4>2
      <3>3. QED
        BY <1>1, <3>1, <3>2
    <2>3. written[l] \in Seq(Nat) /\ t \in Seq(Nat) /\ lines[b] \in Seq(Nat) /\ accepted[l] \in Nat
      BY <1>4, <1>9
    <2>4. Text(lines', StillToWrite(l) \o buffers_'[l]) = t
      BY <1>9
    <2> HIDE DEF t
    <2>5. Ordered(written[l], t, lines'[b], accepted'[l])
      <3>1. CASE lines' = lines /\ accepted' = accepted
        BY <2>2, <3>1
      <3>2. CASE /\ lines' = [lines EXCEPT ![b] = Append(@, accepted[l] + 1)]
                 /\ accepted' = [accepted EXCEPT ![l] = @ + 1]
        <4>1. lines'[b] = Append(lines[b], accepted[l] + 1) /\ accepted'[l] = accepted[l] + 1
          BY <1>4, <3>2
        <4>2. QED
          BY <2>2, <2>3, <4>1, OrderedLine
      <3>3. QED
        BY <1>5, <3>1, <3>2
    <2>6. Ordered(written'[l], Text(lines', StillToWrite(l) \o buffers_'[l]), lines'[currentBuffer_'[l]], accepted'[l])
      BY <1>1, <1>2, <2>4, <2>5
    <2>7. QED
      BY <1>3, <2>6 DEF InOrder, Ordered, Text, Texts
  <1>12. QED
    BY <1>7, <1>10, <1>11 DEF LinesInv

\* While no batch is being written every logger's is empty; a batch just taken
\* is still to be written as a whole.
LEMMA StillTaken ==
    ASSUME TypeOK', position' = 0, NEW l \in Loggers
    PROVE  StillToWrite(l)' = buffersToWrite_'[l]
  <1> DEFINE v == buffersToWrite_'[l]
  <1>1. v \in Seq(Buffers)
    BY DEF TypeOK
  <1>2. SubSeq(v, 1, Len(v)) = v
    BY <1>1, SubSeqFull
  <1>3. position' + 1 = 1
    OBVIOUS
  <1>4. QED
    BY <1>2, <1>3 DEF StillToWrite

\* A swap moves the full buffers, and the current one if it has lines.
LEMMA LinesTakeLoggers ==
    ASSUME IInv, NoneShared, LinesInv, TakeLoggers
    PROVE  LinesInv'
  <1> DEFINE listed == Elements(asyncLoggers_)
             full(l) == l \in listed /\ cur_[currentBuffer_[l]] > 0
  <1>1. /\ buffersToWrite_' = [l \in Loggers |->
                IF full(l) THEN Append(buffers_[l], currentBuffer_[l])
                ELSE IF l \in listed THEN buffers_[l] ELSE buffersToWrite_[l]]
        /\ buffers_' = [l \in Loggers |->
                IF l \in listed THEN buffersToWrite_[l] ELSE buffers_[l]]
        /\ currentBuffer_' = [l \in Loggers |->
                IF full(l) THEN buffer1_[l] ELSE currentBuffer_[l]]
    BY DEF TakeLoggers, SwapBuffersToWrite
  <1>2. toWrite = <<>> /\ position' = 0 /\ UNCHANGED <<lines, accepted, written>>
    BY DEF TakeLoggers, IInv, BatchWhileWriting, dataVars
  <1>3. TypeOK /\ TypeOK'
    BY IInvTakeLoggers DEF IInv
  <1>4. ASSUME NEW l \in Loggers
        PROVE  /\ buffersToWrite_[l] = <<>> /\ StillToWrite(l) = <<>>
               /\ buffers_[l] \in Seq(Buffers) /\ currentBuffer_[l] \in Buffers
               /\ buffer1_[l] \in Buffers /\ lines[buffer1_[l]] = <<>>
               /\ StillToWrite(l)' = buffersToWrite_'[l]
    <2>1. AtRest(l)
      BY <1>2, ElementsEmpty DEF IInv, RestOutsideBatch
    <2>2. StillToWrite(l) = <<>>
      BY <1>2, <2>1 DEF StillToWrite, AtRest
    <2>3. buffers_[l] \in Seq(Buffers) /\ currentBuffer_[l] \in Buffers /\ buffer1_[l] \in Buffers
      BY <1>3, <2>1 DEF TypeOK, AtRest
    <2>4. lines[buffer1_[l]] = <<>>
      BY <2>3, SparesEmpty DEF LinesInv
    <2>5. QED
      BY <1>2, <1>3, <2>1, <2>2, <2>3, <2>4, StillTaken DEF AtRest
  <1>5. ASSUME NEW l \in Loggers
        PROVE  \/ /\ buffersToWrite_'[l] = <<>> /\ buffers_'[l] = buffers_[l]
                  /\ currentBuffer_'[l] = currentBuffer_[l]
               \/ /\ buffersToWrite_'[l] = buffers_[l] /\ buffers_'[l] = <<>>
                  /\ currentBuffer_'[l] = currentBuffer_[l]
               \/ /\ buffersToWrite_'[l] = Append(buffers_[l], currentBuffer_[l]) /\ buffers_'[l] = <<>>
                  /\ currentBuffer_'[l] = buffer1_[l]
    BY <1>1, <1>4
  <1> HIDE DEF listed, full
  <1>6. Clean'
    <2> SUFFICES ASSUME NEW b \in Buffers, lines'[b] # <<>>
                 PROVE  \E l \in Loggers : \/ b \in Elements(buffersToWrite_[l])'
                                           \/ b \in Elements(buffers_[l])'
                                           \/ b = currentBuffer_'[l]
      BY DEF Clean
    <2>1. PICK l \in Loggers : \/ b \in Elements(buffersToWrite_[l])
                               \/ b \in Elements(buffers_[l])
                               \/ b = currentBuffer_[l]
      BY <1>2 DEF LinesInv, Clean
    <2>2. b \in Elements(buffers_[l]) \/ b = currentBuffer_[l]
      BY <1>4, <2>1, ElementsEmpty
    <2>3. Elements(Append(buffers_[l], currentBuffer_[l])) = Elements(buffers_[l]) \cup {currentBuffer_[l]}
      BY <1>4, ElementsAppend
    <2>4. b \in Elements(buffersToWrite_'[l]) \/ b \in Elements(buffers_'[l]) \/ b = currentBuffer_'[l]
      BY <1>5, <2>2, <2>3
    <2>5. QED
      BY <2>4 DEF Elements
  <1>7. ASSUME NEW l \in Loggers
        PROVE  InOrder(l)'
    <2> DEFINE w == buffers_[l]
               c == currentBuffer_[l]
               Goes(u, d) == Ordered(written[l], Text(lines, u), d, accepted[l])
    <2>1. w \in Seq(Buffers) /\ c \in Buffers /\ <<>> \in Seq(Buffers) /\ lines \in [Buffers -> Seq(Nat)]
      BY <1>3, <1>4 DEF TypeOK
    <2>2. Append(w, c) \in Seq(Buffers)
      BY <2>1, AppendProperties
    <2>3. /\ <<>> \o w = w /\ w \o <<>> = w
          /\ <<>> \o Append(w, c) = Append(w, c) /\ Append(w, c) \o <<>> = Append(w, c)
      BY <2>1, <2>2, ConcatEmptySeq
    <2>4. Goes(<<>> \o w, lines[c])
      BY <1>4 DEF LinesInv, InOrder
    <2>5. Goes(<<>> \o Append(w, c), lines[buffer1_[l]])
      BY <1>4, <2>1, <2>4, OrderedNext
    <2>6. Goes(buffersToWrite_'[l] \o buffers_'[l], lines[currentBuffer_'[l]])
      <3> HIDE DEF Goes
      <3>1. QED
        BY <1>5, <2>3, <2>4, <2>5
    <2>7. Ordered(written'[l], Text(lines', StillToWrite(l)' \o buffers_'[l]), lines'[currentBuffer_'[l]], accepted'[l])
      BY <1>2, <1>4, <2>6
    <2>8. QED
      BY <2>7 DEF InOrder, Ordered, Text, Texts
  <1>8. QED
    BY <1>6, <1>7 DEF LinesInv

LEMMA FrontFirst ==
    ASSUME NEW b \in Buffers, NEW s \in Seq(Buffers), NEW w \in Seq(Buffers)
    PROVE  (<<b>> \o s) \o w = <<b>> \o (s \o w)
  <1> DEFINE one == <<b>>
  <1>1. one \in Seq(Buffers)
    OBVIOUS
  <1> HIDE DEF one
  <1>2. Associates(one, s, w)
    BY <1>1, ConcatAssociates
  <1>3. QED
    BY <1>2 DEF one, Associates

\* A buffer's lines go from the batch to the file.
LEMMA OrderedWritten ==
    ASSUME NEW ls \in [Buffers -> Seq(Nat)], NEW b \in Buffers,
           NEW s \in Seq(Buffers), NEW w \in Seq(Buffers),
           NEW x \in Seq(Nat), NEW c \in Seq(Nat), NEW a
    PROVE  Ordered(x, Text(ls, (<<b>> \o s) \o w), c, a) => Ordered(x \o ls[b], Text(ls, s \o w), c, a)
  <1> DEFINE t == Text(ls, s \o w)
             e == ls[b]
  <1>1. (<<b>> \o s) \o w = <<b>> \o (s \o w)
    BY FrontFirst
  <1>2. s \o w \in Seq(Buffers)
    BY ConcatProperties
  <1>3. t \in Seq(Nat) /\ e \in Seq(Nat) /\ Text(ls, <<b>> \o (s \o w)) = e \o t
    BY <1>2, TextAppend, TextFront
  <1> HIDE DEF t, e
  <1>4. Regrouped(x, e, t, c)
    BY <1>3, FourParts
  <1>5. QED
    BY <1>1, <1>3, <1>4 DEF Ordered, Regrouped, t, e

LEMMA LinesWriteBuffer ==
    ASSUME IInv, LinesInv, WriteBuffer
    PROVE  LinesInv'
  <1> DEFINE l == Head(toWrite)
             v == buffersToWrite_[l]
             b == v[position + 1]
             s == SubSeq(v, position + 2, Len(v))
  <1>1. /\ toWrite # <<>> /\ position < Len(v)
        /\ written' = [written EXCEPT ![l] = @ \o lines[b]]
        /\ position' = position + 1
        /\ UNCHANGED <<toWrite, buffersToWrite_, buffers_, currentBuffer_, lines, accepted>>
    BY DEF WriteBuffer, producerVars, backendVars
  <1>2. l \in Loggers
    BY <1>1, ElementsTail DEF IInv, TypeOK
  <1>3. /\ v \in Seq(Buffers) /\ position \in Nat
        /\ buffers_[l] \in Seq(Buffers) /\ currentBuffer_[l] \in Buffers
        /\ lines \in [Buffers -> Seq(Nat)] /\ written \in [Loggers -> Seq(Nat)]
    BY <1>2 DEF IInv, TypeOK
  <1>4. /\ StillToWrite(l) = <<b>> \o s /\ StillToWrite(l)' = s
        /\ b \in Buffers /\ s \in Seq(Buffers)
    <2> DEFINE m == position + 1
               n == Len(v)
    <2>1. n \in Nat /\ m \in 1..n /\ n \in m..n /\ m + 1 = position + 2 /\ position' + 1 = m + 1
      BY <1>1, <1>3
    <2>2. StillToWrite(l) = SubSeq(v, m, n)
      BY <1>1 DEF StillToWrite
    <2>3. StillToWrite(l)' = SubSeq(v, m + 1, n)
      <3>1. StillToWrite(l)' = SubSeq(v, position' + 1, n)
        BY <1>1 DEF StillToWrite
      <3>2. QED
        BY <2>1, <3>1
    <2>4. SubSeq(v, m, n) = <<v[m]>> \o SubSeq(v, m + 1, n)
      <3> HIDE DEF m
      <3>1. QED
        BY <1>3, <2>1, SubSeqRecursiveFirst
    <2>5. b \in Buffers
      BY <1>3, <2>1
    <2>6. s \in Seq(Buffers)
      <3>1. \A i \in (m + 1)..n : v[i] \in Buffers
        BY <1>3, <2>1
      <3>2. m + 1 \in Int /\ n \in Int
        BY <2>1
      <3> HIDE DEF m, n, v
      <3>3. SubSeq(v, m + 1, n) \in Seq(Buffers)
        BY <3>1, <3>2, SubSeqProperties
      <3>4. QED
        BY <2>1, <3>3 DEF m, n
    <2>7. QED
      BY <2>1, <2>2, <2>3, <2>4, <2>5, <2>6
  <1>5. ASSUME NEW k \in Loggers, k # l
        PROVE  StillToWrite(k)' = StillToWrite(k) /\ written'[k] = written[k]
    BY <1>1, <1>3, <1>5 DEF StillToWrite
  <1> HIDE DEF l, v, b, s
  <1>6. written'[l] = written[l] \o lines[b]
    <2>1. written' = [written EXCEPT ![l] = @ \o lines[b]] /\ l \in DOMAIN written
      BY <1>1, <1>2, <1>3
    <2>2. QED
      BY <2>1
  <1>7. Clean'
    <2>1. Clean
      BY DEF LinesInv
    <2>2. QED
      BY <1>1, <2>1, CleanKept
  <1>8. ASSUME NEW k \in Loggers, k # l
        PROVE  InOrder(k)'
    <2>1. Ordered(written[k], Text(lines, StillToWrite(k) \o buffers_[k]), lines[currentBuffer_[k]], accepted[k])
      BY DEF LinesInv, InOrder
    <2>2. Ordered(written'[k], Text(lines, StillToWrite(k)' \o buffers_[k]), lines[currentBuffer_[k]], accepted[k])
      BY <1>5, <1>8, <2>1
    <2>3. /\ lines' = lines /\ buffers_' = buffers_
          /\ currentBuffer_' = currentBuffer_ /\ accepted' = accepted
      BY <1>1
    <2>4. Ordered(written'[k], Text(lines', StillToWrite(k)' \o buffers_'[k]), lines'[currentBuffer_'[k]], accepted'[k])
      BY <2>2, <2>3
    <2>5. QED
      BY <2>4, Zenon DEF InOrder, Ordered, Text, Texts
  <1>9. ASSUME NEW k \in Loggers, k = l
        PROVE  InOrder(k)'
    <2>1. Ordered(written[l], Text(lines, (<<b>> \o s) \o buffers_[l]), lines[currentBuffer_[l]], accepted[l])
      BY <1>2, <1>4 DEF LinesInv, InOrder
    <2>2. written[l] \in Seq(Nat) /\ lines[currentBuffer_[l]] \in Seq(Nat)
      BY <1>2, <1>3
    <2>3. Ordered(written[l] \o lines[b], Text(lines, s \o buffers_[l]), lines[currentBuffer_[l]], accepted[l])
      BY <1>3, <1>4, <2>1, <2>2, OrderedWritten
    <2>4. Ordered(written'[l], Text(lines, StillToWrite(l)' \o buffers_[l]), lines[currentBuffer_[l]], accepted[l])
      BY <1>4, <1>6, <2>3
    <2>5. StillToWrite(k)' = StillToWrite(l)'
      BY <1>1, <1>9 DEF StillToWrite, l
    <2>6. Ordered(written'[k], Text(lines, StillToWrite(k)' \o buffers_[k]), lines[currentBuffer_[k]], accepted[k])
      BY <1>9, <2>4, <2>5
    <2>7. /\ lines' = lines /\ buffers_' = buffers_
          /\ currentBuffer_' = currentBuffer_ /\ accepted' = accepted
      BY <1>1
    <2>8. Ordered(written'[k], Text(lines', StillToWrite(k)' \o buffers_'[k]), lines'[currentBuffer_'[k]], accepted'[k])
      BY <2>6, <2>7
    <2>9. QED
      BY <2>8, Zenon DEF InOrder, Ordered, Text, Texts
  <1>10. \A k \in Loggers : InOrder(k)'
    BY <1>8, <1>9
  <1>11. QED
    BY <1>7, <1>10 DEF LinesInv

\* A written batch is emptied; nothing of it was to be written still.
LEMMA LinesRecycle ==
    ASSUME IInv, NoneShared, LinesInv, Recycle
    PROVE  LinesInv'
  <1> DEFINE l == Head(toWrite)
             v == buffersToWrite_[l]
  <1>1. /\ toWrite # <<>> /\ toWrite' = Tail(toWrite)
        /\ position = Len(v) /\ position' = 0
        /\ buffersToWrite_' = [buffersToWrite_ EXCEPT ![l] = <<>>]
        /\ lines' = [b \in Buffers |-> IF b \in Elements(v) THEN <<>> ELSE lines[b]]
        /\ UNCHANGED <<buffers_, currentBuffer_, accepted, written>>
    BY DEF Recycle, Empty, producerVars
  <1>2. TypeOK /\ TypeOK'
    BY IInvRecycle DEF IInv
  <1>3. l \in Loggers
    BY <1>1, <1>2, ElementsTail DEF TypeOK
  <1>4. /\ buffersToWrite_ \in [Loggers -> Seq(Buffers)] /\ v \in Seq(Buffers)
        /\ lines \in [Buffers -> Seq(Nat)]
        /\ \A k \in Loggers : buffers_[k] \in Seq(Buffers) /\ currentBuffer_[k] \in Buffers
    BY <1>2, <1>3 DEF TypeOK
  <1>5. \A k \in Loggers : buffersToWrite_'[k] = IF k = l THEN <<>> ELSE buffersToWrite_[k]
    BY <1>1, <1>3, <1>4
  <1>6. ASSUME NEW k \in Loggers
        PROVE  StillToWrite(k)' = StillToWrite(k)
    <2>1. StillToWrite(k)' = buffersToWrite_'[k]
      BY <1>1, <1>2, StillTaken
    <2>2. CASE k = l
      <3>1. StillToWrite(k) = SubSeq(v, Len(v) + 1, Len(v))
        BY <1>1, <2>2 DEF StillToWrite
      <3>2. SubSeq(v, Len(v) + 1, Len(v)) = <<>>
        <4> DEFINE n == Len(v)
        <4>1. n \in Nat
          BY <1>4
        <4> HIDE DEF n
        <4>2. SubSeq(v, n + 1, n) = <<>>
          BY <4>1, SubSeqEmpty
        <4>3. QED
          BY <4>2 DEF n
      <3>3. QED
        BY <1>5, <2>1, <2>2, <3>1, <3>2
    <2>3. CASE k # l
      BY <1>5, <2>1, <2>3 DEF StillToWrite
    <2>4. QED
      BY <2>2, <2>3
  <1>7. ASSUME NEW k \in Loggers
        PROVE  /\ currentBuffer_[k] \notin Elements(v)
               /\ Elements(buffers_[k]) \cap Elements(v) = {}
               /\ k # l => Elements(buffersToWrite_[k]) \cap Elements(v) = {}
    <2>1. NULL \notin Elements(v) /\ currentBuffer_[k] # NULL
      <3>1. NULL \notin Buffers
        BY DEF Buffers, NULL
      <3>2. Elements(v) \subseteq Buffers
        BY <1>4, ElementOfSeq DEF Elements
      <3>3. QED
        BY <1>4, <3>1, <3>2
    <2>2. CASE k = l
      BY <1>3, <2>2 DEF NoneShared, OwnApart, Apart
    <2>3. CASE k # l
      <3>1. HeldBy(k) \cap HeldBy(l) = {}
        BY <1>3, <2>3 DEF NoneShared
      <3>2. Elements(v) \subseteq HeldBy(l)
        BY <1>3 DEF HeldBy
      <3>3. /\ currentBuffer_[k] \in HeldBy(k) /\ Elements(buffers_[k]) \subseteq HeldBy(k)
            /\ Elements(buffersToWrite_[k]) \subseteq HeldBy(k)
        BY <2>1 DEF HeldBy
      <3>4. QED
        BY <3>1, <3>2, <3>3
    <2>4. QED
      BY <2>2, <2>3
  <1>8. \A b \in Buffers : /\ b \notin Elements(v) => lines'[b] = lines[b]
                           /\ b \in Elements(v) => lines'[b] = <<>>
    BY <1>1
  <1> HIDE DEF v
  <1>9. Clean'
    <2> SUFFICES ASSUME NEW b \in Buffers, lines'[b] # <<>>
                 PROVE  \E k \in Loggers : \/ b \in Elements(buffersToWrite_[k])'
                                           \/ b \in Elements(buffers_[k])'
                                           \/ b = currentBuffer_'[k]
      BY DEF Clean
    <2>1. b \notin Elements(v) /\ lines[b] # <<>>
      BY <1>8
    <2>2. PICK k \in Loggers : \/ b \in Elements(buffersToWrite_[k])
                               \/ b \in Elements(buffers_[k])
                               \/ b = currentBuffer_[k]
      BY <2>1 DEF LinesInv, Clean
    <2>3. \/ b \in Elements(buffersToWrite_'[k])
          \/ b \in Elements(buffers_'[k])
          \/ b = currentBuffer_'[k]
      <3>1. k = l => b \notin Elements(buffersToWrite_[k])
        <4>1. buffersToWrite_[l] = v
          BY DEF v
        <4>2. b \notin Elements(buffersToWrite_[l])
          BY <2>1, <4>1, ZenonT(40)
        <4>3. QED
          BY <4>2
      <3>2. QED
        BY <1>1, <1>5, <2>2, <3>1
    <2>4. QED
      BY <2>3 DEF Elements
  <1>10. ASSUME NEW k \in Loggers
         PROVE  InOrder(k)'
    <2> DEFINE u == StillToWrite(k) \o buffers_[k]
    <2>1. StillToWrite(k) \in Seq(Buffers) /\ u \in Seq(Buffers)
      BY <1>2, <1>4, StillTypes, ElementsConcat
    <2>2. Elements(StillToWrite(k)) \cap Elements(v) = {}
      <3>1. CASE k # l
        BY <1>2, <1>7, <3>1, StillTypes
      <3>2. CASE k = l
        BY <1>2, <1>5, <1>6, <3>2, StillTaken, <1>1, ElementsEmpty
      <3>3. QED
        BY <3>1, <3>2
    <2>3. Elements(u) \cap Elements(v) = {}
      <3>1. Elements(u) \subseteq Elements(StillToWrite(k)) \cup Elements(buffers_[k])
        BY <1>4, <2>1, ElementsConcat
      <3>2. QED
        BY <1>7, <2>2, <3>1
    <2>4. \A b \in Elements(u) : b \in Buffers
      BY <2>1 DEF Elements
    <2>5. Ordered(written[k], Text(lines, u), lines[currentBuffer_[k]], accepted[k])
      BY DEF LinesInv, InOrder
    <2> HIDE DEF u
    <2>6. Text(lines, u) = Text(lines', u)
      BY <1>8, <2>1, <2>3, <2>4, TextSame
    <2>7. lines'[currentBuffer_[k]] = lines[currentBuffer_[k]]
      BY <1>4, <1>7, <1>8
    <2>8. Ordered(written[k], Text(lines', u), lines'[currentBuffer_[k]], accepted[k])
      BY <2>5, <2>6, <2>7
    <2>9. /\ buffers_' = buffers_ /\ currentBuffer_' = currentBuffer_
          /\ accepted' = accepted /\ written' = written
      BY <1>1
    <2>10. Ordered(written'[k], Text(lines', StillToWrite(k) \o buffers_'[k]),
                   lines'[currentBuffer_'[k]], accepted'[k])
      BY <2>8, <2>9 DEF u
    <2>11. StillToWrite(k)' = StillToWrite(k)
      BY <1>6
    <2>12. QED
      BY <2>10, <2>11 DEF InOrder, Ordered, Text, Texts
  <1> HIDE DEF l
  <1>11. QED
    BY <1>9, <1>10 DEF LinesInv

LEMMA LinesInit == Init => LinesInv
  <1> SUFFICES ASSUME Init PROVE LinesInv
    OBVIOUS
  <1>1. Clean
    BY DEF Init, Clean
  <1>2. ASSUME NEW l \in Loggers PROVE InOrder(l)
    <2>1. TypeOK
      BY IInvInit DEF IInv
    <2>2. StillToWrite(l) = <<>> /\ buffers_[l] = <<>>
      BY DEF Init, StillToWrite
    <2>3. lines[currentBuffer_[l]] = <<>> /\ written[l] = <<>> /\ accepted[l] = 0
      <3>1. currentBuffer_[l] \in Buffers
        BY <2>1 DEF TypeOK
      <3>2. QED
        BY <3>1 DEF Init
    <2>4. <<>> \o <<>> = <<>>
      OBVIOUS
    <2>5. Text(lines, StillToWrite(l) \o buffers_[l]) = <<>>
      BY <2>2, <2>4, TextNone
    <2>6. <<>> = [n \in 1..0 |-> n]
      OBVIOUS
    <2>7. Ordered(<<>>, <<>>, <<>>, 0)
      BY <2>4, <2>6 DEF Ordered
    <2>8. QED
      BY <2>3, <2>5, <2>7 DEF InOrder
  <1>3. QED
    BY <1>1, <1>2 DEF LinesInv

LEMMA LinesStep == IInv /\ NoneShared /\ LinesInv /\ [Next]_vars => LinesInv'
  <1> SUFFICES ASSUME IInv, NoneShared, LinesInv, [Next]_vars PROVE LinesInv'
    OBVIOUS
  <1>1. CASE TakeLoggers
    BY <1>1, LinesTakeLoggers
  <1>2. CASE Recycle
    BY <1>2, LinesRecycle
  <1>3. CASE WriteBuffer
    BY <1>3, LinesWriteBuffer
  <1>4. ASSUME NEW l \in Loggers, NEW len \in Sizes, LogLine(l, len) PROVE LinesInv'
    BY <1>4, LinesLogLine
  <1>5. CASE \/ Start \/ StopStore \/ StartReturns \/ StopNotify \/ Join \/ SpuriousWakeup
             \/ ThreadStarts \/ CheckRunning \/ Wait \/ BatchDone \/ UNCHANGED vars
    <2>1. UNCHANGED <<toWrite, position, buffersToWrite_, buffers_, currentBuffer_,
                      lines, accepted, written>>
      <3>1. CASE Start \/ StopStore \/ StartReturns \/ StopNotify \/ Join \/ SpuriousWakeup
        BY <3>1 DEF Start, StopStore, StartReturns, StopNotify, Join, SpuriousWakeup,
           batchVars, loggerVars, producerVars, backendVars, dataVars
      <3>2. CASE ThreadStarts \/ CheckRunning \/ Wait \/ BatchDone
        BY <3>2 DEF ThreadStarts, CheckRunning, Wait, BatchDone,
           batchVars, loggerVars, producerVars, backendVars, dataVars
      <3>3. CASE UNCHANGED vars
        <4>1. UNCHANGED batchVars /\ UNCHANGED loggerVars
          BY <3>3, Zenon DEF vars
        <4>2. UNCHANGED producerVars /\ UNCHANGED backendVars /\ UNCHANGED dataVars
          BY <4>1, Zenon DEF loggerVars
        <4>3. QED
          BY <4>1, <4>2 DEF batchVars, producerVars, backendVars, dataVars
      <3>4. QED
        BY <1>5, <3>1, <3>2, <3>3
    <2>2. QED
      BY <2>1, LinesUnchanged
  <1>6. QED
    BY <1>1, <1>2, <1>3, <1>4, <1>5 DEF Next, Owner, BackendStep

\* The text of the full buffers and the current one, as the property puts it.
LEMMA LinesOrdered == IInv /\ LinesInv => LinesOnceInOrder
  <1> SUFFICES ASSUME IInv, LinesInv, NEW l \in Loggers
               PROVE  LET held == StillToWrite(l) \o buffers_[l] \o <<currentBuffer_[l]>>
                      IN  written[l] \o Seqs!FlattenSeq([i \in 1..Len(held) |-> lines[held[i]]])
                            = [n \in 1..accepted[l] |-> n]
    BY DEF LinesOnceInOrder
  <1> DEFINE u == StillToWrite(l) \o buffers_[l]
             c == currentBuffer_[l]
             held == u \o <<c>>
  <1>1. u \in Seq(Buffers) /\ c \in Buffers /\ lines \in [Buffers -> Seq(Nat)]
    BY StillTypes, ElementsConcat DEF IInv, TypeOK
  <1>2. Ordered(written[l], Text(lines, u), lines[c], accepted[l])
    BY DEF LinesInv, InOrder
  <1> HIDE DEF u, c
  <1>3. held = Append(u, c)
    BY <1>1, AppendIsConcat
  <1>4. Text(lines, held) = Text(lines, u) \o lines[c]
    BY <1>1, <1>3, TextAppend
  <1>5. Seqs!FlattenSeq([i \in 1..Len(held) |-> lines[held[i]]]) = Text(lines, held)
    BY DEF Text, Texts, Seqs!FlattenSeq, Lists!FlattenSeq
  <1>6. written[l] \o Seqs!FlattenSeq([i \in 1..Len(held) |-> lines[held[i]]])
          = [n \in 1..accepted[l] |-> n]
    BY <1>2, <1>4, <1>5 DEF Ordered
  <1>7. QED
    BY <1>6, ZenonT(40) DEF u, c
-----------------------------------------------------------------------------

\* A logger is on the list of those to write exactly while it has taken a line
\* since the last swap, and then once: whichever thread appends, and whenever
\* the backend swaps, a line finds its logger listed or lists it
\* (AsyncLogging.cpp:26-34, 49-58).
THEOREM ListedOnce == Spec => []ListedOnceWhileNotEmpty
  <1>1. IInv => ListedOnceWhileNotEmpty
    BY DEF IInv
  <1>2. QED
    BY <1>1, IInvInit, IInvStep, PTL DEF Spec

\* However often the wait returns, and for nothing, the backend never goes to
\* sleep, nor stays asleep, while a logger is listed (AsyncLogging.cpp:26-34,
\* 49-54): a line leaves no window between its push_back and its notify_one.
THEOREM NeverWaitsOnLines == Spec => []NoLineMissesTheWait
  <1>1. IInv => NoLineMissesTheWait
    BY DEF IInv
  <1>2. QED
    BY <1>1, IInvInit, IInvStep, PTL DEF Spec

\* Whatever the lengths of the lines and the sizes of the batches, back() and
\* pop_back() of a recycled batch find the buffers that the swap had taken from
\* the backend (AsyncLogger.cpp:126-139, 157-166).
THEOREM RecycleNeverUnderflows == Spec => []RecycleFindsBuffers
  <1>1. IInv => RecycleFindsBuffers
    BY DEF IInv
  <1>2. QED
    BY <1>1, IInvInit, IInvStep, PTL DEF Spec

\* No buffer is ever reached through two pointers, of one logger or of two,
\* however many loggers, lines and buffers there are: the swap, the recycling
\* and a new buffer hand each on without leaving a copy behind, so that what a
\* producer fills is not what the backend writes or resets
\* (AsyncLogger.cpp:108-139, 157-167).
THEOREM BuffersNeverShared == Spec => []NoSharedBuffer
  <1>1. Init => IInv /\ NoneShared
    BY IInvInit, NoneSharedInit
  <1>2. (IInv /\ NoneShared) /\ [Next]_vars => (IInv /\ NoneShared)'
    BY IInvStep, NoneSharedStep
  <1>3. IInv /\ NoneShared => NoSharedBuffer
    BY NoneSharedPointers
  <1>4. QED
    BY <1>1, <1>2, <1>3, PTL DEF Spec

\* However many threads append, and whenever the backend swaps, writes and
\* recycles, no line that fitted into a buffer is lost, doubled or overtaken on
\* its way to the file, and none is left behind in a buffer that is handed out
\* as empty (AsyncLogger.cpp:108-170).
THEOREM EveryLineOnceInOrder == Spec => []LinesOnceInOrder
  <1>1. Init => IInv /\ NoneShared /\ LinesInv
    BY IInvInit, NoneSharedInit, LinesInit
  <1>2. (IInv /\ NoneShared /\ LinesInv) /\ [Next]_vars => (IInv /\ NoneShared /\ LinesInv)'
    BY IInvStep, NoneSharedStep, LinesStep
  <1>3. IInv /\ NoneShared /\ LinesInv => LinesOnceInOrder
    BY LinesOrdered
  <1>4. QED
    BY <1>1, <1>2, <1>3, PTL DEF Spec
=============================================================================
