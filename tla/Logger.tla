---------------------------- MODULE Logger ----------------------------
(***************************************************************************)
(* The log files (log/Logger.cpp, log/LogFile.h, the file side of          *)
(* log/AsyncLogger.cpp) and the messages that reach them                   *)
(* (log/LogMessage.cpp).                                                   *)
(*                                                                         *)
(* Threads make messages: the constructor stamps the message with the      *)
(* second it is made in, the destructor appends the line, and a FATAL      *)
(* message flushes and aborts.  The file is rolled when it is too long or  *)
(* of an earlier period, and flushed now and then.  The wall clock ticks,  *)
(* jumps, and may be set back; the process may be killed and started       *)
(* again.  When `async' holds the files are an AsyncLogger's and what is   *)
(* appended is its buffers: module AsyncLogging models how they fill.      *)
(***************************************************************************)
EXTENDS Integers, Sequences, FiniteSets, Functions, TLC

CONSTANTS
    Threads,          \* threads that make messages
    kCheckTimeRoll_,  \* appends between two looks at the clock
    kRollPerSeconds_, \* length of a period: a day
    rollSize_,        \* a file longer than this is rolled; 0: never
    flushInterval_,   \* seconds between two flushes
    Sizes,            \* lengths of a line, or of a buffer
    RepeatedFrom,     \* the local clock is put back at this second ...
    RepeatedFor,      \* ... by so many: the end of daylight saving time
    MaxClock, MaxLines, MaxSetBacks, MaxRestarts  \* bounds of the model

Symmetry == Permutations(Threads)

ASSUME LoggerAssumption ==
    /\ kCheckTimeRoll_ \in Nat /\ kRollPerSeconds_ \in Nat \ {0}
    /\ rollSize_ \in Nat /\ flushInterval_ \in Nat
    /\ Sizes \subseteq Nat \ {0}
    /\ RepeatedFrom \in Nat /\ RepeatedFor \in 0 .. RepeatedFrom
    /\ MaxClock \in Nat \ {0}

VARIABLES
    clock,       \* the wall clock, in seconds
    async,       \* whether the files belong to an AsyncLogger
    up,          \* the process is running
    log,         \* the fields of the Logger and its LogFile
    files,       \* name of a file -> its lines, the buffered ones included
    t_lastSecond, t_time,   \* per thread: the cached second and its text
    pc, fatal,   \* per thread: where it is, and the number of its FATAL line
    appended,    \* how many lines have been appended
    lost,        \* the lines that died in a stdio buffer
    setBacks, restarts

vars == <<clock, async, up, log, files, t_lastSecond, t_time, pc, fatal,
          appended, lost, setBacks, restarts>>

-----------------------------------------------------------------------------
(* The files.  log holds count_, lastRoll_, lastFlush_, the name of the open
   file, writtenBytes_, and how many of its lines stdio still buffers.
   startOfPeriod_ is always Period(lastRoll_).  stdio's buffer of 64K is never
   full here: it writes lines out at a flush and at fclose, and never sooner.
   A line is kept with its number, its length, the process that wrote it, the
   log's times, and whether it was late (the second of the opening was over) or
   due (the file should have been rolled, or flushed, by then). *)

\* The file name has the local time, which repeats at the end of summer time.
Name(now) == IF now < RepeatedFrom THEN now ELSE now - RepeatedFor

Names == 0 .. MaxClock

Period(now) == now \div kRollPerSeconds_

Fresh == [count_ |-> 0, lastRoll_ |-> 0, lastFlush_ |-> 0, name |-> -1,
          writtenBytes_ |-> 0, buffered |-> 0]

\* LogFile's constructor opens in append mode and counts from zero; closing
\* the old file flushes it.
OpenFile(l, now) ==
    [l EXCEPT !.name = Name(now), !.writtenBytes_ = 0, !.buffered = 0]

RollFile(l, now) ==
    IF now > l.lastRoll_
    THEN [OpenFile(l, now) EXCEPT !.lastRoll_ = now, !.lastFlush_ = now]
    ELSE l

Flush(l) == [l EXCEPT !.buffered = 0]

LogFileAppend(l, len) == [l EXCEPT !.writtenBytes_ = @ + len, !.buffered = @ + 1]

\* A size that is looked at when the clock is.
LoggerAppendSizeSeldom(l, now) ==
    IF l.count_ > kCheckTimeRoll_
    THEN LET c == [l EXCEPT !.count_ = 0]
         IN  IF l.writtenBytes_ > rollSize_ \/ Period(now) # Period(l.lastRoll_)
             THEN RollFile(c, now) ELSE c
    ELSE [l EXCEPT !.count_ = @ + 1]

\* A check that comes one line late.
LoggerAppendOneLate(l, now) ==
    IF rollSize_ > 0 /\ l.writtenBytes_ > rollSize_ THEN RollFile(l, now)
    ELSE IF l.count_ > kCheckTimeRoll_ + 1
         THEN LET c == [l EXCEPT !.count_ = 0]
              IN  IF Period(now) # Period(l.lastRoll_) THEN RollFile(c, now)
                  ELSE Flush([c EXCEPT !.lastFlush_ = now])
         ELSE [l EXCEPT !.count_ = @ + 1]

LoggerAppend(l, now) ==
    IF rollSize_ > 0 /\ l.writtenBytes_ > rollSize_ THEN RollFile(l, now)
    ELSE IF l.count_ > kCheckTimeRoll_
         THEN LET c == [l EXCEPT !.count_ = 0]
              IN  IF Period(now) # Period(l.lastRoll_) THEN RollFile(c, now)
                  ELSE IF now - l.lastFlush_ > flushInterval_
                       THEN Flush([c EXCEPT !.lastFlush_ = now])
                       ELSE c
         ELSE [l EXCEPT !.count_ = @ + 1]

AsyncLoggerAppend(l, now) ==
    IF l.writtenBytes_ > rollSize_ THEN RollFile([l EXCEPT !.count_ = 0], now)
    ELSE IF l.count_ > kCheckTimeRoll_
         THEN LET c == [l EXCEPT !.count_ = 0]
              IN  IF Period(now) # Period(l.lastRoll_) THEN RollFile(c, now) ELSE c
         ELSE [l EXCEPT !.count_ = @ + 1]

Late(l) == clock > l.lastRoll_

Due(l) ==
    /\ Late(l)
    /\ \/ Period(clock) # Period(l.lastRoll_)
       \/ ~async /\ clock - l.lastFlush_ > flushInterval_

\* A LogFile that opens with "we".
AppendTruncating(s, no, len) ==
    LET l == LogFileAppend(s.log, len)
        line == [no |-> no, len |-> len, run |-> restarts, late |-> Late(l),
                 due |-> Due(l), since |-> l.lastRoll_, synced |-> l.lastFlush_]
    IN  [log   |-> LoggerAppend(l, clock),
         files |-> [s.files EXCEPT ![l.name] =
                       Append(IF s.log.writtenBytes_ = 0 THEN << >> ELSE @, line)]]

\* append_unlocked as a step of the state s, of the log and the files.
AppendUnlocked(s, no, len) ==
    LET l == LogFileAppend(s.log, len)
        line == [no |-> no, len |-> len, run |-> restarts, late |-> Late(l),
                 due |-> Due(l), since |-> l.lastRoll_, synced |-> l.lastFlush_]
    IN  [log   |-> IF async THEN AsyncLoggerAppend(l, clock) ELSE LoggerAppend(l, clock),
         files |-> [s.files EXCEPT ![l.name] = Append(@, line)]]

-----------------------------------------------------------------------------
(* The process. *)

\* The threads of a process that starts, or has died.
NoThreads == [t_lastSecond |-> [t \in Threads |-> 0], t_time |-> [t \in Threads |-> -1],
              pc |-> [t \in Threads |-> "idle"], fatal |-> [t \in Threads |-> 0]]

Init ==
    /\ clock = 1
    /\ async \in BOOLEAN
    /\ up = TRUE
    /\ log = RollFile(Fresh, clock)
    /\ files = [n \in Names |-> << >>]
    /\ t_lastSecond = NoThreads.t_lastSecond /\ t_time = NoThreads.t_time
    /\ pc = NoThreads.pc /\ fatal = NoThreads.fatal
    /\ appended = 0 /\ lost = {} /\ setBacks = 0 /\ restarts = 0

\* A text that is made again only when the clock goes on.
MakeMonotonic(t) ==
    /\ up /\ ~async /\ pc[t] = "idle" /\ appended < MaxLines
    /\ t_lastSecond' = [t_lastSecond EXCEPT ![t] = clock]
    /\ t_time' = [t_time EXCEPT ![t] = IF clock > t_lastSecond[t] THEN clock ELSE @]
    /\ pc' = [pc EXCEPT ![t] = "made"]
    /\ UNCHANGED <<clock, async, up, log, files, fatal, appended, lost, setBacks, restarts>>

\* The constructor of a message: the text of the second is made once a second.
Make(t) ==
    /\ up /\ ~async /\ pc[t] = "idle" /\ appended < MaxLines
    /\ t_lastSecond' = [t_lastSecond EXCEPT ![t] = clock]
    /\ t_time' = [t_time EXCEPT ![t] = IF clock # t_lastSecond[t] THEN clock ELSE @]
    /\ pc' = [pc EXCEPT ![t] = "made"]
    /\ UNCHANGED <<clock, async, up, log, files, fatal, appended, lost, setBacks, restarts>>

\* The destructor appends the line under the logger's mutex.
Finish(t) ==
    /\ up /\ pc[t] = "made" /\ appended < MaxLines
    /\ \E len \in Sizes :
          LET s == AppendUnlocked([log |-> log, files |-> files], appended + 1, len)
          IN  log' = s.log /\ files' = s.files
    /\ appended' = appended + 1
    /\ \/ /\ pc' = [pc EXCEPT ![t] = "flush"]   \* level_ is FATAL
          /\ fatal' = [fatal EXCEPT ![t] = appended + 1]
       \/ /\ pc' = [pc EXCEPT ![t] = "idle"]
          /\ fatal' = fatal
    /\ UNCHANGED <<clock, async, up, t_lastSecond, t_time, lost, setBacks, restarts>>

\* A flush() that does nothing, as AsyncLogger's.
FlushNothing(t) ==
    /\ up /\ pc[t] = "flush"
    /\ pc' = [pc EXCEPT ![t] = "abort"]
    /\ UNCHANGED <<clock, async, up, log, files, t_lastSecond, t_time, fatal,
                   appended, lost, setBacks, restarts>>

\* The destructor of a FATAL message flushes, under the mutex again ...
FlushFatal(t) ==
    /\ up /\ pc[t] = "flush"
    /\ log' = Flush(log)
    /\ pc' = [pc EXCEPT ![t] = "abort"]
    /\ UNCHANGED <<clock, async, up, files, t_lastSecond, t_time, fatal,
                   appended, lost, setBacks, restarts>>

\* What a process leaves behind: the files without what stdio still buffered.
Die ==
    LET f == files[log.name]
        n == Len(f) - log.buffered
    IN  /\ files' = [files EXCEPT ![log.name] = SubSeq(f, 1, n)]
        /\ lost' = lost \cup {[no |-> f[i].no, run |-> f[i].run] : i \in n + 1 .. Len(f)}
        /\ log' = Flush(log)
        /\ up' = FALSE
        /\ t_lastSecond' = NoThreads.t_lastSecond /\ t_time' = NoThreads.t_time
        /\ pc' = NoThreads.pc /\ fatal' = NoThreads.fatal

\* ... and aborts the process.
Abort(t) ==
    /\ up /\ pc[t] = "abort"
    /\ Die
    /\ UNCHANGED <<clock, async, appended, setBacks, restarts>>

\* AsyncLogging's thread writes a batch of buffers and flushes.
AppendBuffers ==
    /\ up /\ async
    /\ \E n \in 1 .. 2 : \E lens \in [1 .. n -> Sizes] :
          /\ appended + n <= MaxLines
          /\ LET one == AppendUnlocked([log |-> log, files |-> files], appended + 1, lens[1])
                 s == IF n = 1 THEN one ELSE AppendUnlocked(one, appended + 2, lens[2])
             IN  log' = Flush(s.log) /\ files' = s.files
          /\ appended' = appended + n
    /\ UNCHANGED <<clock, async, up, t_lastSecond, t_time, pc, fatal, lost,
                   setBacks, restarts>>

\* The process is killed, or loses power.
Kill ==
    /\ up /\ restarts < MaxRestarts
    /\ Die
    /\ UNCHANGED <<clock, async, appended, setBacks, restarts>>

\* A new process: a new logger with the old one's base name.
Restart ==
    /\ ~up /\ restarts < MaxRestarts /\ clock > 0
    /\ log' = RollFile(Fresh, clock)
    /\ up' = TRUE /\ restarts' = restarts + 1
    /\ UNCHANGED <<clock, async, files, t_lastSecond, t_time, pc, fatal,
                   appended, lost, setBacks>>

Tick ==
    /\ clock < MaxClock
    /\ clock' = clock + 1
    /\ UNCHANGED <<async, up, log, files, t_lastSecond, t_time, pc, fatal,
                   appended, lost, setBacks, restarts>>

SetBack ==
    /\ setBacks < MaxSetBacks
    /\ \E now \in 0 .. clock - 1 : clock' = now
    /\ setBacks' = setBacks + 1
    /\ UNCHANGED <<async, up, log, files, t_lastSecond, t_time, pc, fatal,
                   appended, lost, restarts>>

Next ==
    \/ \E t \in Threads : Make(t) \/ Finish(t) \/ FlushFatal(t) \/ Abort(t)
    \/ AppendBuffers \/ Kill \/ Restart \/ Tick \/ SetBack

Spec == Init /\ [][Next]_vars

-----------------------------------------------------------------------------
(* Properties. *)

\* Two lines of one opening of a file.
SameOpening(a, b) == a.run = b.run /\ a.since = b.since

\* How many bytes the lines of f up to the i-th have written since its opening:
\* a byte is a place in a line.
WrittenUpTo(f, i) ==
    Cardinality(UNION {{k} \X (1 .. f[k].len) : k \in {m \in 1 .. i : SameOpening(f[m], f[i])}})

\* Every line appended is in exactly one file, in order, or was lost when the
\* process died, and then so was every later line of that process: a file
\* whose name comes back (an hour repeated at the end of summer time, a
\* restart within a second) is appended to (LogFile.h:17), and rolling closes,
\* and so flushes, the old file (LogFile.h:24).
LinesKept ==
    LET Lines(n) == Range(files[n])
        All == UNION {Lines(n) : n \in Names}
    IN  /\ \A n \in Names : \A i, j \in DOMAIN files[n] :
              i < j => files[n][i].no < files[n][j].no
        /\ \A m, n \in Names : \A a \in Lines(m), b \in Lines(n) : a.no = b.no => m = n
        /\ {a.no : a \in All} \cup {a.no : a \in lost} = 1 .. appended
        /\ \A a \in All, b \in lost : a.run = b.run => a.no < b.no

\* The size limit is kept late: rollFile does nothing twice in one second, so a
\* file grows past rollSize_ within the second it was opened in, and one more
\* line takes it past the limit later, which rolls it (Logger.cpp:66, 87).  In
\* no other way does a file that is open grow past the limit, unless the clock
\* is set back.
OversizedOnlyWithinASecond ==
    (rollSize_ > 0 \/ async) =>
        \A n \in Names : \A i, j \in DOMAIN files[n] :
            LET f == files[n] IN
            (i < j /\ SameOpening(f[i], f[j]) /\ f[i].late)
                => WrittenUpTo(f, i) <= rollSize_

\* The clock is looked at every kCheckTimeRoll_ + 2 appends (count_ is compared
\* before it is counted), so no more lines than that go on after each other
\* into a file of an earlier period, or are left unflushed after
\* flushInterval_ (Logger.cpp:69).
LooksAtTheClock ==
    \A n \in Names : \A i \in DOMAIN files[n] :
        LET f == files[n]
            j == i + kCheckTimeRoll_ + 2
        IN  j \in DOMAIN f =>
                \E k \in i .. j : \/ ~f[k].due
                                  \/ ~SameOpening(f[k], f[i])
                                  \/ f[k].synced # f[i].synced

\* When a thread aborts over a FATAL message of a Logger, its line and all the
\* lines before it are out of the stdio buffer, whatever the other threads
\* appended or rolled since (LogMessage.cpp:82-93).
FatalIsWritten ==
    \A t \in Threads : (up /\ pc[t] = "abort") =>
        LET f == files[log.name]
        IN  \A i \in DOMAIN f : f[i].no <= fatal[t] => i <= Len(f) - log.buffered

\* A message is stamped with the second it is made in, although the text of the
\* second is kept from one message of the thread to the next and the clock may
\* go back; except in the second 0, which t_lastSecond starts from
\* (LogMessage.cpp:15, 42).
StampsTrue ==
    [][\A t \in Threads : (pc[t] = "idle" /\ pc'[t] = "made")
                              => t_time'[t] = clock \/ clock = 0]_vars

====
