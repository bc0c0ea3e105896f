--------------------------- MODULE TimeZone ---------------------------
(***************************************************************************)
(* The conversions between a time and the fields of a struct tm, in UTC    *)
(* and in the time of a zone file (base/TimeZone.cpp), and a calendar to   *)
(* hold them against: time goes by, the calendar turns its leaves by the   *)
(* rules of the Gregorian calendar, and whatever the time is the           *)
(* conversions must say what the calendar says, and find their way back.   *)
(***************************************************************************)
EXTENDS Date, Sequences

CONSTANTS
    Spans,  \* days to walk through, and the zone file that is read there
    Stride  \* seconds of a step when the zone's time is about to change

\* A zone file: the times its transitions are at, the type each changes to, the
\* types, and how many of them can be read before the file ends.
ASSUME SpansAssumption ==
    \A s \in Spans :
        /\ s.from \in Nat /\ s.until \in Nat
        /\ Len(s.file.trans) = Len(s.file.idx)
        /\ \A i \in DOMAIN s.file.idx : s.file.idx[i] \in DOMAIN s.file.types
        /\ s.file.read \in 1 .. Len(s.file.types)

\* The numbers of a zone file.
MinInt32 == -2147483647 - 1
MaxInt32 == 2147483647
Int32    == MinInt32 .. MaxInt32

\* The transitions are in order, as std::lower_bound expects them, by gmttime and
\* by localtime too: they are further apart than the offsets of the file differ.
ASSUME ZoneAssumption ==
    \A s \in Spans :
        /\ s.file.trans \in Seq(Int32) /\ s.file.idx \in Seq(Nat)
        /\ s.file.types \in Seq([gmtOffset : Int32, isDst : BOOLEAN])
        /\ \A i, j \in DOMAIN s.file.trans : i < j =>
              \A a, b \in DOMAIN s.file.types :
                  s.file.types[a].gmtOffset - s.file.types[b].gmtOffset
                      < s.file.trans[j] - s.file.trans[i]

kSecondsPerDay == 24 * 60 * 60

\* The steps meet again at midnight.
ASSUME StrideAssumption ==
    Stride \in Nat \ {0} /\ \E n \in 1 .. kSecondsPerDay : n * Stride = kSecondsPerDay

VARIABLES
    span,  \* what is walked through
    day,   \* days, counted as Date does
    sec,   \* seconds of the day
    date   \* the leaf of the calendar

vars == <<span, day, sec, date>>

-----------------------------------------------------------------------------
(* UTC. *)

fillHMS(seconds) ==
    [sec |-> seconds % 60, min |-> (seconds \div 60) % 60, hour |-> seconds \div 3600]

\* / of C++ rounds towards zero, and so % of a negative number is negative.
Quotient(i, n) == IF i < 0 THEN -((-i) \div n) ELSE i \div n

UtcFields(days, seconds) ==
    LET jdn == days + kJulianDayOf1970_01_01
        ymd == getYearMonthDay(jdn)
        hms == fillHMS(seconds)
    IN  [year |-> ymd.year, mon |-> ymd.month, mday |-> ymd.day,
         hour |-> hms.hour, min |-> hms.min, sec |-> hms.sec, wday |-> weekDay(jdn),
         yday |-> jdn - getJulianDayNumber(ymd.year, 1, 1)]

\* A conversion that makes the seconds positive but keeps the day.
ToUtcTimeSameDay(time) ==
    LET days == Quotient(time, kSecondsPerDay)
        seconds == time - days * kSecondsPerDay
    IN  UtcFields(days, IF seconds < 0 THEN seconds + kSecondsPerDay ELSE seconds)

toUtcTime(time) ==
    LET days == Quotient(time, kSecondsPerDay)
        seconds == time - days * kSecondsPerDay
    IN  IF seconds < 0 THEN UtcFields(days - 1, seconds + kSecondsPerDay)
        ELSE UtcFields(days, seconds)

fromUtcTime(tm) ==
    (getJulianDayNumber(tm.year, tm.mon, tm.mday) - kJulianDayOf1970_01_01) * kSecondsPerDay
        + tm.hour * 3600 + tm.min * 60 + tm.sec

-----------------------------------------------------------------------------
(* Local time. *)

\* readTimeZoneFile: a file that ends too soon leaves the types read so far and
\* no transition, and is used all the same.
readTimeZoneFile(file) ==
    [localtimes  |-> SubSeq(file.types, 1, file.read),
     transitions |->
        IF file.read < Len(file.types) THEN << >>
        ELSE [i \in DOMAIN file.trans |->
                 [gmttime |-> file.trans[i],
                  localtime |-> file.trans[i] + file.types[file.idx[i]].gmtOffset,
                  localtimeIdx |-> file.idx[i]]]]

\* std::lower_bound: the first of the sorted keys that is not less.
LowerBound(keys, key) ==
    CHOOSE i \in 1 .. Len(keys) + 1 :
        /\ \A j \in 1 .. i - 1 : keys[j] < key
        /\ i <= Len(keys) => keys[i] >= key

\* keys are the gmttimes or the localtimes of the transitions: the Comp.
findLocaltime(data, keys, key) ==
    LET n == Len(keys)
        i == LowerBound(keys, key)
        found == IF i > n THEN n ELSE IF keys[i] = key THEN i ELSE i - 1
    IN  IF n = 0 \/ key < keys[1] THEN data.localtimes[1]
        ELSE data.localtimes[data.transitions[found].localtimeIdx]

GmtTimes(data) == [i \in DOMAIN data.transitions |-> data.transitions[i].gmttime]
LocalTimes(data) == [i \in DOMAIN data.transitions |-> data.transitions[i].localtime]

\* gmtime_r and timegm convert as toUtcTime and fromUtcTime do.
gmtime_r(time) == toUtcTime(time)
timegm(tm) == fromUtcTime(tm)

toLocalTime(data, seconds) ==
    LET local == findLocaltime(data, GmtTimes(data), seconds)
    IN  [tm |-> gmtime_r(seconds + local.gmtOffset), isdst |-> local.isDst]

\* No second look at the hour that comes twice.
FromLocalTimeOnce(data, localTm) ==
    LET seconds == timegm(localTm.tm)
    IN  seconds - findLocaltime(data, LocalTimes(data), seconds).gmtOffset

fromLocalTime(data, localTm) ==
    LET seconds == timegm(localTm.tm)
        local == findLocaltime(data, LocalTimes(data), seconds)
        tryTm == toLocalTime(data, seconds - local.gmtOffset)
        hack == /\ localTm.isdst
                /\ ~tryTm.isdst
                /\ tryTm.tm.hour = localTm.tm.hour
                /\ tryTm.tm.min = localTm.tm.min
    IN  (IF hack THEN seconds - 3600 ELSE seconds) - local.gmtOffset

-----------------------------------------------------------------------------
(* The calendar, and time going by. *)

IsLeapYear(y) == y % 4 = 0 /\ (y % 100 # 0 \/ y % 400 = 0)

DaysOfMonth(y, m) ==
    CASE m \in {4, 6, 9, 11} -> 30
      [] m = 2 -> IF IsLeapYear(y) THEN 29 ELSE 28
      [] OTHER -> 31

NextLeaf(d) ==
    IF d.day < DaysOfMonth(d.year, d.month) THEN [d EXCEPT !.day = @ + 1]
    ELSE IF d.month < 12 THEN [d EXCEPT !.day = 1, !.month = @ + 1]
    ELSE [year |-> d.year + 1, month |-> 1, day |-> 1]

\* The zone, and the time in seconds where 31 bits hold it.
data == readTimeZoneFile(span.file)
DaysHeld == 24000
HasTime == day - kJulianDayOf1970_01_01 \in -DaysHeld .. DaysHeld
Time == (day - kJulianDayOf1970_01_01) * kSecondsPerDay + sec

\* A transition of the zone file is less than a day away.
AboutToChange ==
    /\ HasTime
    /\ \E i \in DOMAIN span.file.trans :
          span.file.trans[i] - Time \in -kSecondsPerDay .. kSecondsPerDay

\* The walk starts on the first of January of a year, at midnight.
Init ==
    /\ span \in Spans
    /\ date = [year |-> span.from, month |-> 1, day |-> 1]
    /\ day = getJulianDayNumber(span.from, 1, 1)
    /\ sec = 0

Elapse ==
    /\ date.year < span.until
    /\ LET next == sec + IF AboutToChange THEN Stride ELSE kSecondsPerDay
       IN  /\ sec' = next % kSecondsPerDay
           /\ day' = day + next \div kSecondsPerDay
           /\ date' = IF next >= kSecondsPerDay THEN NextLeaf(date) ELSE date
    /\ UNCHANGED span

Spec == Init /\ [][Elapse]_vars

-----------------------------------------------------------------------------
(* Properties. *)

\* The days of the week are counted from 31 December 1899, a Sunday.
KnownSunday == 2415020

\* The date of a day, the day of a date and the day of the week are those of
\* the calendar, over all the years Date is for and every rule for leap years
\* (Date.cpp:10-30, Date.h:59).
CalendarAgrees ==
    /\ getJulianDayNumber(date.year, date.month, date.day) = day
    /\ getYearMonthDay(day) = date
    /\ weekDay(day) = (day - KnownSunday) % 7

\* The first and the last second of a step are converted to the calendar's
\* date and the time of the day, before 1970 too, and back (TimeZone.cpp:
\* 271-307).
UtcAgrees ==
    HasTime => \A s \in {0, Stride - 1} :
        LET tm == toUtcTime(Time + s)
        IN  /\ [year |-> tm.year, month |-> tm.mon, day |-> tm.mday] = date
            /\ tm.hour \in 0 .. 23 /\ tm.min \in 0 .. 59 /\ tm.sec \in 0 .. 59
            /\ tm.hour * 3600 + tm.min * 60 + tm.sec = sec + s
            /\ tm.wday = (day - KnownSunday) % 7
            /\ tm.yday \in 0 .. 365 /\ (tm.yday = 0 <=> date.month = 1 /\ date.day = 1)
            /\ fromUtcTime(tm) = Time + s

\* The time t comes again, on a local clock that transition i sets back.
Repeated(i, t) ==
    LET before == IF i = 1 THEN data.localtimes[1]
                  ELSE data.localtimes[data.transitions[i - 1].localtimeIdx]
        after == data.localtimes[data.transitions[i].localtimeIdx]
        again == before.gmtOffset - after.gmtOffset
    IN  [in |-> t \in data.transitions[i].gmttime - again .. data.transitions[i].gmttime - 1,
         anHourOfSummer |-> again = 3600 /\ before.isDst /\ ~after.isDst]

\* A local time is converted back to the time it was made from, also in the
\* hour that comes twice when summer time ends, which is told apart by isdst
\* and nothing else; only where the clock is set back in some other way, or by
\* something else than an hour (3600 in TimeZone.cpp:265), the time of the
\* first pass is lost.
LocalTimeReturns ==
    HasTime => \A s \in {0, Stride - 1} :
        LET t == Time + s
        IN  \/ fromLocalTime(data, toLocalTime(data, t)) = t
            \/ \E i \in DOMAIN data.transitions :
                  Repeated(i, t).in /\ ~Repeated(i, t).anHourOfSummer
====
