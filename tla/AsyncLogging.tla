----------------------------- MODULE AsyncLogging -----------------------------
(***************************************************************************)
(* log/AsyncLogging.{h,cpp} and log/AsyncLogger.{h,cpp}: any thread appends*)
(* a line to one of several loggers; one backend thread takes the loggers  *)
(* that hold lines, and the buffers of each, under mutex_, and writes the  *)
(* buffers to the log files outside it; one owner starts and stops it.     *)
(*                                                                         *)
(* A critical section of mutex_ is one step; cv_.wait ends its section, so *)
(* the section that follows the wait is another step.  A buffer is an      *)
(* identity, so that two of a logger's pointers may hold the same one, and *)
(* a line is its number among the lines of its logger.  The file only      *)
(* grows here: module Logger has its rolling and flushing.                 *)
(***************************************************************************)
EXTENDS Integers, Sequences

CONSTANTS
    LoggerCount,
    kBufferSize,
    Sizes,          \* the lengths a line may have
    MaxLines,       \* bound: how many lines are appended in all
    MaxBuffers,     \* bound: how many buffers are alive at once
    MaxStarts       \* bound: how often start() is called

ASSUME AsyncLoggingAssumption ==
    /\ LoggerCount \in Nat
    /\ kBufferSize \in Nat \ {0}
    /\ Sizes \subseteq Nat \ {0}
    /\ MaxLines \in Nat
    /\ MaxBuffers \in Nat /\ MaxBuffers >= 4 * LoggerCount
    /\ MaxStarts \in Nat

Seqs == INSTANCE SequencesExt

Loggers == 1..LoggerCount
Buffers == 1..MaxBuffers
NULL == 0                       \* an empty BufferPtr

VARIABLES
    main,               \* where the owner is in start() or stop()
    starts,
    thread,             \* where the backend thread is in threadFunc
    running_,
    latch_,             \* the count of the CountDownLatch
    asyncLoggers_,
    toWrite,            \* asyncLoggersToWrite; its head is being written
    position,           \* how many buffers of the head have been written
    notEmpty_,          \* from here to buffer2_: a member of every logger
    currentBuffer_,
    nextBuffer_,
    buffers_,
    buffersToWrite_,
    buffer1_,
    buffer2_,
    cur_,               \* of every buffer, the bytes used
    lines,              \* of every buffer, the lines it holds
    accepted,           \* history: of every logger, how many lines fitted
    appended,           \* of all loggers, how often append was called
    written             \* history: of every logger, the lines written

ownerVars   == <<main, starts>>
threadVars  == <<thread, running_, latch_>>
batchVars   == <<asyncLoggers_, toWrite, position>>
producerVars == <<notEmpty_, currentBuffer_, nextBuffer_, buffers_>>
backendVars == <<buffersToWrite_, buffer1_, buffer2_>>
dataVars    == <<cur_, lines, accepted, appended, written>>
loggerVars  == <<producerVars, backendVars, dataVars>>
vars == <<ownerVars, threadVars, batchVars, loggerVars>>

Init ==
    /\ main = "idle" /\ starts = 0
    /\ thread = "none" /\ running_ = FALSE /\ latch_ = 1
    /\ asyncLoggers_ = <<>> /\ toWrite = <<>> /\ position = 0
    /\ notEmpty_ = [l \in Loggers |-> FALSE]
    /\ currentBuffer_ = [l \in Loggers |-> 4 * l - 3]
    /\ nextBuffer_ = [l \in Loggers |-> 4 * l - 2]
    /\ buffers_ = [l \in Loggers |-> <<>>]
    /\ buffersToWrite_ = [l \in Loggers |-> <<>>]
    /\ buffer1_ = [l \in Loggers |-> 4 * l - 1]
    /\ buffer2_ = [l \in Loggers |-> 4 * l]
    /\ cur_ = [b \in Buffers |-> 0]
    /\ lines = [b \in Buffers |-> <<>>]
    /\ accepted = [l \in Loggers |-> 0]
    /\ appended = 0
    /\ written = [l \in Loggers |-> <<>>]

\* The buffers a vector of buffers points to.
Elements(v) == {v[i] : i \in 1..Len(v)}

\* The buffers of a logger, through whichever pointer.
HeldBy(l) ==
    ({currentBuffer_[l], nextBuffer_[l], buffer1_[l], buffer2_[l]} \ {NULL})
        \cup Elements(buffers_[l]) \cup Elements(buffersToWrite_[l])

Unused == Buffers \ UNION {HeldBy(l) : l \in Loggers}

-----------------------------------------------------------------------------
(* The owner.                                                              *)

\* cv_.notify_one: the backend is the only thread that ever waits on cv_.
Notified == IF thread = "waiting" THEN "woken" ELSE thread

Start ==
    /\ main = "idle" /\ starts < MaxStarts
    /\ starts' = starts + 1
    /\ running_' = TRUE
    /\ thread' = "started"
    /\ main' = "latch"
    /\ UNCHANGED <<latch_, batchVars, loggerVars>>

\* CountDownLatch::wait returns, and CountDownLatch::countDown.
LatchOpen == latch_ <= 0
CountDown == latch_' = latch_ - 1

StartReturns ==
    /\ main = "latch" /\ LatchOpen
    /\ main' = "running"
    /\ UNCHANGED <<starts, threadVars, batchVars, loggerVars>>

\* stop() stores running_ without holding mutex_ ...
StopStore ==
    /\ main = "running"
    /\ running_' = FALSE
    /\ main' = "notify"
    /\ UNCHANGED <<starts, thread, latch_, batchVars, loggerVars>>

\* A stop() without its notify_one.
StopNoNotify ==
    /\ main = "notify"
    /\ main' = "join"
    /\ UNCHANGED <<starts, threadVars, batchVars, loggerVars>>

StopNotify ==
    /\ main = "notify"
    /\ thread' = Notified
    /\ main' = "join"
    /\ UNCHANGED <<starts, running_, latch_, batchVars, loggerVars>>

Join ==
    /\ main = "join" /\ thread = "exited"
    /\ thread' = "none"
    /\ main' = "idle"
    /\ UNCHANGED <<starts, running_, latch_, batchVars, loggerVars>>

-----------------------------------------------------------------------------
(* AsyncLogger::append, from any thread: one section of mutex_.            *)

\* Buffer::append into buffer b, which drops a line that does not fit.
Store(l, b, used, len) ==
    IF kBufferSize - used > len
    THEN /\ cur_' = [cur_ EXCEPT ![b] = used + len]
         /\ lines' = [lines EXCEPT ![b] = Append(@, accepted[l] + 1)]
         /\ accepted' = [accepted EXCEPT ![l] = @ + 1]
    ELSE UNCHANGED <<cur_, lines, accepted>>

\* List the logger again with every line, not only with the first.
ListAlways(l) ==
    /\ notEmpty_' = [notEmpty_ EXCEPT ![l] = TRUE]
    /\ asyncLoggers_' = Append(asyncLoggers_, l)
    /\ thread' = Notified

\* A notification before the logger is on the list, lost to the wait.
ListUnnotified(l) ==
    /\ notEmpty_' = [notEmpty_ EXCEPT ![l] = TRUE]
    /\ asyncLoggers_' = IF notEmpty_[l] THEN asyncLoggers_ ELSE Append(asyncLoggers_, l)
    /\ UNCHANGED thread

\* The first line since the last swap lists the logger and wakes the backend.
ListLogger(l) ==
    /\ notEmpty_' = [notEmpty_ EXCEPT ![l] = TRUE]
    /\ IF notEmpty_[l]
       THEN UNCHANGED <<asyncLoggers_, thread>>
       ELSE asyncLoggers_' = Append(asyncLoggers_, l) /\ thread' = Notified

Fits(l, len) == kBufferSize - cur_[currentBuffer_[l]] > len

\* The line goes to the current buffer ...
KeepCurrent(l, len) ==
    /\ Fits(l, len)
    /\ Store(l, currentBuffer_[l], cur_[currentBuffer_[l]], len)
    /\ UNCHANGED <<currentBuffer_, nextBuffer_, buffers_>>

\* ... or the spare buffer takes over ...
TakeNext(l, len) ==
    /\ ~Fits(l, len) /\ nextBuffer_[l] # NULL
    /\ buffers_' = [buffers_ EXCEPT ![l] = Append(@, currentBuffer_[l])]
    /\ currentBuffer_' = [currentBuffer_ EXCEPT ![l] = nextBuffer_[l]]
    /\ nextBuffer_' = [nextBuffer_ EXCEPT ![l] = NULL]
    /\ Store(l, nextBuffer_[l], cur_[nextBuffer_[l]], len)

\* ... or, with no spare buffer, a new one.
MakeNew(l, len) ==
    /\ ~Fits(l, len) /\ nextBuffer_[l] = NULL
    /\ Unused # {}
    /\ LET b == CHOOSE u \in Unused : TRUE
       IN  /\ buffers_' = [buffers_ EXCEPT ![l] = Append(@, currentBuffer_[l])]
           /\ currentBuffer_' = [currentBuffer_ EXCEPT ![l] = b]
           /\ Store(l, b, 0, len)
    /\ UNCHANGED nextBuffer_

LogLine(l, len) ==
    /\ appended < MaxLines
    /\ appended' = appended + 1
    /\ KeepCurrent(l, len) \/ TakeNext(l, len) \/ MakeNew(l, len)
    /\ ListLogger(l)
    /\ UNCHANGED <<ownerVars, running_, latch_, toWrite, position, backendVars, written>>

-----------------------------------------------------------------------------
(* The backend thread.                                                     *)

\* assert(running_ == true), then latch_.countDown().
ThreadStarts ==
    /\ thread = "started"
    /\ IF running_
       THEN thread' = "check" /\ CountDown
       ELSE thread' = "aborted" /\ UNCHANGED latch_
    /\ UNCHANGED <<ownerVars, running_, batchVars, loggerVars>>

CheckRunning ==
    /\ thread = "check"
    /\ thread' = IF running_ THEN "lock" ELSE "exited"
    /\ UNCHANGED <<ownerVars, running_, latch_, batchVars, loggerVars>>

\* The list is empty: cv_.wait, without a predicate.
Wait ==
    /\ thread = "lock" /\ asyncLoggers_ = <<>>
    /\ thread' = "waiting"
    /\ UNCHANGED <<ownerVars, running_, latch_, batchVars, loggerVars>>

SpuriousWakeup ==
    /\ thread = "waiting"
    /\ thread' = "woken"
    /\ UNCHANGED <<ownerVars, running_, latch_, batchVars, loggerVars>>

\* swapBuffersToWrite_locked with buffer1_ copied, not moved, to currentBuffer_.
SwapCopying(listed) ==
    LET full(l) == l \in listed /\ cur_[currentBuffer_[l]] > 0
        gap(l)  == l \in listed /\ nextBuffer_[l] = NULL
    IN  /\ buffersToWrite_' = [l \in Loggers |->
                IF full(l) THEN Append(buffers_[l], currentBuffer_[l])
                ELSE IF l \in listed THEN buffers_[l] ELSE buffersToWrite_[l]]
        /\ buffers_' = [l \in Loggers |->
                IF l \in listed THEN buffersToWrite_[l] ELSE buffers_[l]]
        /\ currentBuffer_' = [l \in Loggers |->
                IF full(l) THEN buffer1_[l] ELSE currentBuffer_[l]]
        /\ UNCHANGED buffer1_
        /\ nextBuffer_' = [l \in Loggers |-> IF gap(l) THEN buffer2_[l] ELSE nextBuffer_[l]]
        /\ buffer2_' = [l \in Loggers |-> IF gap(l) THEN NULL ELSE buffer2_[l]]
        /\ notEmpty_' = [l \in Loggers |-> notEmpty_[l] /\ l \notin listed]

\* swapBuffersToWrite_locked that always hands buffer1_ over, even to a logger
\* whose current buffer is empty and stays out of the batch.
SwapHandingOver(listed) ==
    LET full(l) == l \in listed /\ cur_[currentBuffer_[l]] > 0
        gap(l)  == l \in listed /\ nextBuffer_[l] = NULL
    IN  /\ buffersToWrite_' = [l \in Loggers |->
                IF full(l) THEN Append(buffers_[l], currentBuffer_[l])
                ELSE IF l \in listed THEN buffers_[l] ELSE buffersToWrite_[l]]
        /\ buffers_' = [l \in Loggers |->
                IF l \in listed THEN buffersToWrite_[l] ELSE buffers_[l]]
        /\ currentBuffer_' = [l \in Loggers |->
                IF full(l) THEN buffer1_[l] ELSE currentBuffer_[l]]
        /\ buffer1_' = [l \in Loggers |-> IF l \in listed THEN NULL ELSE buffer1_[l]]
        /\ nextBuffer_' = [l \in Loggers |-> IF gap(l) THEN buffer2_[l] ELSE nextBuffer_[l]]
        /\ buffer2_' = [l \in Loggers |-> IF gap(l) THEN NULL ELSE buffer2_[l]]
        /\ notEmpty_' = [l \in Loggers |-> notEmpty_[l] /\ l \notin listed]

\* AsyncLogger::swapBuffersToWrite_locked of the loggers listed: a current
\* buffer with lines joins the batch, and buffer1_ and buffer2_ fill the gaps.
SwapBuffersToWrite(listed) ==
    LET full(l) == l \in listed /\ cur_[currentBuffer_[l]] > 0
        gap(l)  == l \in listed /\ nextBuffer_[l] = NULL
    IN  /\ buffersToWrite_' = [l \in Loggers |->
                IF full(l) THEN Append(buffers_[l], currentBuffer_[l])
                ELSE IF l \in listed THEN buffers_[l] ELSE buffersToWrite_[l]]
        /\ buffers_' = [l \in Loggers |->
                IF l \in listed THEN buffersToWrite_[l] ELSE buffers_[l]]
        /\ currentBuffer_' = [l \in Loggers |->
                IF full(l) THEN buffer1_[l] ELSE currentBuffer_[l]]
        /\ buffer1_' = [l \in Loggers |-> IF full(l) THEN NULL ELSE buffer1_[l]]
        /\ nextBuffer_' = [l \in Loggers |-> IF gap(l) THEN buffer2_[l] ELSE nextBuffer_[l]]
        /\ buffer2_' = [l \in Loggers |-> IF gap(l) THEN NULL ELSE buffer2_[l]]
        /\ notEmpty_' = [l \in Loggers |-> notEmpty_[l] /\ l \notin listed]

\* The rest of the section.
TakeLoggers ==
    /\ thread = "woken" \/ (thread = "lock" /\ asyncLoggers_ # <<>>)
    /\ SwapBuffersToWrite(Elements(asyncLoggers_))
    /\ toWrite' = asyncLoggers_
    /\ asyncLoggers_' = <<>>
    /\ position' = 0
    /\ thread' = "write"
    /\ UNCHANGED <<ownerVars, running_, latch_, dataVars>>

\* appendBuffers_unlocked writes the batch of the first logger taken ...
WriteBuffer ==
    /\ thread = "write" /\ toWrite # <<>>
    /\ LET l == Head(toWrite)
       IN  /\ position < Len(buffersToWrite_[l])
           /\ written' = [written EXCEPT ![l] = @ \o lines[buffersToWrite_[l][position + 1]]]
    /\ position' = position + 1
    /\ UNCHANGED <<ownerVars, thread, running_, latch_, toWrite, asyncLoggers_,
                   producerVars, backendVars, cur_, lines, accepted, appended>>

\* An empty buffer1_ takes the last of the batch, an empty buffer2_ the last
\* that is then left.
Refill(l, v) ==
    LET last == IF buffer1_[l] = NULL THEN Len(v) - 1 ELSE Len(v)
    IN  /\ buffer1_' = IF buffer1_[l] = NULL THEN [buffer1_ EXCEPT ![l] = v[Len(v)]] ELSE buffer1_
        /\ buffer2_' = IF buffer2_[l] = NULL THEN [buffer2_ EXCEPT ![l] = v[last]] ELSE buffer2_

\* Recycling without Buffer::reset: the lines stay.
KeepLines(bs) == UNCHANGED <<cur_, lines>>

\* Buffer::reset of the buffers reused; the others are destroyed.
Empty(bs) ==
    /\ cur_' = [b \in Buffers |-> IF b \in bs THEN 0 ELSE cur_[b]]
    /\ lines' = [b \in Buffers |-> IF b \in bs THEN <<>> ELSE lines[b]]

\* ... and when it is written recycles its buffers and goes on to the next.
Recycle ==
    /\ thread = "write" /\ toWrite # <<>>
    /\ LET l == Head(toWrite)
       IN  /\ position = Len(buffersToWrite_[l])
           /\ Refill(l, buffersToWrite_[l])
           /\ Empty(Elements(buffersToWrite_[l]))
           /\ buffersToWrite_' = [buffersToWrite_ EXCEPT ![l] = <<>>]
    /\ toWrite' = Tail(toWrite)
    /\ position' = 0
    /\ UNCHANGED <<ownerVars, threadVars, asyncLoggers_, producerVars,
                   accepted, appended, written>>

BatchDone ==
    /\ thread = "write" /\ toWrite = <<>>
    /\ thread' = "check"
    /\ UNCHANGED <<ownerVars, running_, latch_, batchVars, loggerVars>>

BackendStep ==
    ThreadStarts \/ CheckRunning \/ Wait \/ TakeLoggers \/ WriteBuffer \/ Recycle \/ BatchDone

Owner == StartReturns \/ StopNotify \/ Join

Next ==
    \/ Start \/ StopStore \/ Owner
    \/ SpuriousWakeup \/ BackendStep
    \/ \E l \in Loggers, len \in Sizes : LogLine(l, len)

\* Threads are scheduled.  Spurious wakeups, lines, and the calls of start()
\* and stop() may come or not.
Fairness == WF_vars(Owner) /\ WF_vars(BackendStep)

Spec == Init /\ [][Next]_vars

FairSpec == Spec /\ Fairness

-----------------------------------------------------------------------------

\* Types; a logger's current buffer is never an empty pointer.
TypeOK ==
    /\ main \in {"idle", "latch", "running", "notify", "join"}
    /\ starts \in 0..MaxStarts
    /\ thread \in {"none", "started", "aborted", "check", "lock", "waiting",
                   "woken", "write", "exited"}
    /\ running_ \in BOOLEAN
    /\ latch_ \in Int
    /\ asyncLoggers_ \in Seq(Loggers) /\ toWrite \in Seq(Loggers)
    /\ position \in Nat
    /\ notEmpty_ \in [Loggers -> BOOLEAN]
    /\ currentBuffer_ \in [Loggers -> Buffers]
    /\ nextBuffer_ \in [Loggers -> Buffers \cup {NULL}]
    /\ buffer1_ \in [Loggers -> Buffers \cup {NULL}]
    /\ buffer2_ \in [Loggers -> Buffers \cup {NULL}]
    /\ buffers_ \in [Loggers -> Seq(Buffers)]
    /\ buffersToWrite_ \in [Loggers -> Seq(Buffers)]
    /\ cur_ \in [Buffers -> 0..kBufferSize]
    /\ lines \in [Buffers -> Seq(Nat)]
    /\ accepted \in [Loggers -> Nat]
    /\ appended \in 0..MaxLines
    /\ written \in [Loggers -> Seq(Nat)]

\* A logger is on the list exactly while notEmpty_ is set, and once: a line
\* finds its logger listed or lists it (AsyncLogging.cpp:26-34, 49-58).
ListedOnceWhileNotEmpty ==
    /\ \A l \in Loggers : notEmpty_[l] <=> l \in Elements(asyncLoggers_)
    /\ \A i, j \in 1..Len(asyncLoggers_) : asyncLoggers_[i] = asyncLoggers_[j] => i = j

\* The empty places of the backend's two buffers.
Missing(l) ==
    (IF buffer1_[l] = NULL THEN 1 ELSE 0) + (IF buffer2_[l] = NULL THEN 1 ELSE 0)

\* back() and pop_back() never meet an empty vector: a batch holds as many
\* buffers as the swap took from the backend (AsyncLogger.cpp:126-139, 157-166).
RecycleFindsBuffers ==
    \A l \in Loggers : Missing(l) <= Len(buffersToWrite_[l])

\* All the pointers of a logger to buffers, in the order of the lines.
Pointers(l) ==
    buffersToWrite_[l] \o buffers_[l]
        \o <<currentBuffer_[l], nextBuffer_[l], buffer1_[l], buffer2_[l]>>

\* No buffer is reached through two pointers, of one logger or of two: what a
\* producer fills is not what the backend writes or resets
\* (AsyncLogger.cpp:108-139, 157-167).
NoSharedBuffer ==
    \A k, l \in Loggers : \A i \in 1..Len(Pointers(k)), j \in 1..Len(Pointers(l)) :
        (Pointers(k)[i] = Pointers(l)[j] /\ Pointers(k)[i] # NULL) => (k = l /\ i = j)

\* The buffers of the batch that are still to be written.
StillToWrite(l) ==
    IF toWrite # <<>> /\ l = Head(toWrite)
    THEN SubSeq(buffersToWrite_[l], position + 1, Len(buffersToWrite_[l]))
    ELSE buffersToWrite_[l]

\* The file, the batch, the full buffers and the current one hold every line
\* that fitted into a buffer, once and in order: none is lost, doubled or
\* overtaken on its way from AsyncLogger::append to the file, and no line is
\* left in a spare buffer (AsyncLogger.cpp:108-170).
LinesOnceInOrder ==
    \A l \in Loggers :
        LET held == StillToWrite(l) \o buffers_[l] \o <<currentBuffer_[l]>>
        IN  written[l] \o Seqs!FlattenSeq([i \in 1..Len(held) |-> lines[held[i]]])
                = [n \in 1..accepted[l] |-> n]

\* The backend never sleeps while a logger is listed (AsyncLogging.cpp:30-33,
\* 51-53): it starts to wait with the list empty and the first line wakes it.
NoLineMissesTheWait == thread = "waiting" => asyncLoggers_ = <<>>

\* While the backend is not being stopped, each line that fitted gets written.
LinesEventuallyWritten ==
    \A l \in Loggers : \A n \in 1..MaxLines :
        (n <= accepted[l]) ~> (n <= Len(written[l]) \/ ~running_)

\* stop() returns, unless it stores running_ while the backend is between its
\* test of running_ and cv_.wait, or before the backend of a second start() runs,
\* which does not wait for it, as latch_ is still open: then "assert(running_ ==
\* true)" ends the process (AsyncLogging.h:28-38, AsyncLogging.cpp:37-53).
StopReturnsUnlessRaced ==
    (main = "notify" /\ thread # "lock") ~> (main = "idle" \/ thread = "aborted")

\* "log.stop();" is the last thing the test does (log/tests/AsyncLogger_test.cpp:89):
\* stop() returns.  The flag stored and notified without mutex_ can fall
\* between the backend's test of running_ and its wait, and join() hangs.
StopReturns == (main = "notify") ~> (main = "idle")
=============================================================================
