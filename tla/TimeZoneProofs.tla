--------------------------- MODULE TimeZoneProofs ---------------------------
(***************************************************************************)
(* Proofs about Date, and about TimeZone's walk of the calendar and its    *)
(* local times.                                                            *)
(*                                                                         *)
(* The first part is of Date alone.  getYearMonthDay takes a day apart     *)
(* into a century, a day of it, a year of the century, a day of the year   *)
(* and a month, of years that begin in March; getJulianDayNumber counts    *)
(* the days of whole centuries, years and months together.  The first      *)
(* lemmas say what each division gives.                                    *)
(*                                                                         *)
(* The second part proves that Date agrees with the calendar as far as     *)
(* time may go: a leaf turned is a day counted, and the date of a day that *)
(* was counted from a leaf is that leaf; and so do the conversions of      *)
(* TimeZone in UTC.                                                        *)
(*                                                                         *)
(* The third part is of local time: what lower_bound finds, what a zone    *)
(* file is read into, and the way to a local time and back.                *)
(***************************************************************************)
EXTENDS TimeZone, QueueLemmas

CenturyOf(a)    == (4 * a + 3) \div 146097
CenturyStart(b) == (b * 146097) \div 4
YearOf(c)       == (4 * c + 3) \div 1461
YearStart(d)    == (1461 * d) \div 4
MonthOf(e)      == (5 * e + 2) \div 153
MonthStart(m)   == (153 * m + 2) \div 5

DaysOfCentury == {c \in Nat : c <= 36524}
DaysOfYear    == {e \in Nat : e <= 365}
DaysOfAMonth  == {n \in Nat : n <= 30}
Years         == {d \in Nat : d <= 99}
Months        == {m \in Nat : m <= 11}

\* The month m, from March on, of the year d of century b, as the calendar has it.
CalendarMonth(m)      == m + 3 - 12 * (m \div 10)
CalendarYear(b, d, m) == b * 100 + d - 4800 + m \div 10

\* The century of a day, and the day of the century.
LEMMA DayOfCentury ==
    ASSUME NEW a \in Nat
    PROVE  /\ CenturyOf(a) \in Nat /\ CenturyStart(CenturyOf(a)) \in Nat
           /\ a - CenturyStart(CenturyOf(a)) \in DaysOfCentury
<1> DEFINE b == CenturyOf(a)
           q == CenturyStart(b)
<1>1. b \in Nat /\ 146097 * b <= 4 * a + 3 /\ 4 * a + 3 < 146097 * b + 146097
  BY SMT DEF CenturyOf
<1> HIDE DEF b
<1>2. q \in Nat /\ 4 * q <= b * 146097 /\ b * 146097 < 4 * q + 4
  BY <1>1, SMT DEF CenturyStart
<1> HIDE DEF q
<1>3. a - q \in DaysOfCentury
  BY <1>1, <1>2, SMT DEF DaysOfCentury
<1> QED  BY <1>1, <1>2, <1>3 DEF b, q

\* A century has 36524 days, and every fourth one more.
LEMMA CenturyDays ==
    ASSUME NEW b \in Nat
    PROVE  CenturyStart(b) \in Nat /\ CenturyStart(b) = 36524 * b + (b \div 4)
  BY SMT DEF CenturyStart

\* The year of a day of a century, and the day of the year.
LEMMA DayOfYear ==
    ASSUME NEW c \in DaysOfCentury
    PROVE  /\ YearOf(c) \in Years /\ YearStart(YearOf(c)) \in Nat
           /\ c - YearStart(YearOf(c)) \in DaysOfYear
<1> DEFINE d == YearOf(c)
           q == YearStart(d)
<1>0. c \in Nat /\ c <= 36524
  BY DEF DaysOfCentury
<1>1. d \in Nat /\ 1461 * d <= 4 * c + 3 /\ 4 * c + 3 < 1461 * d + 1461
  BY <1>0, SMT DEF YearOf
<1> HIDE DEF d
<1>2. d \in Years
  BY <1>0, <1>1, SMT DEF Years
<1>3. q \in Nat /\ 4 * q <= 1461 * d /\ 1461 * d < 4 * q + 4
  BY <1>1, SMT DEF YearStart
<1> HIDE DEF q
<1>4. c - q \in DaysOfYear
  BY <1>0, <1>1, <1>3, SMT DEF DaysOfYear
<1> QED  BY <1>2, <1>3, <1>4 DEF d, q

\* A year has 365 days, and every fourth one more.
LEMMA YearDays ==
    ASSUME NEW d \in Years
    PROVE  YearStart(d) \in Nat /\ YearStart(d) = 365 * d + (d \div 4)
  BY SMT DEF YearStart, Years

\* The month of a day of the year, and the day of the month.
LEMMA DayOfMonth ==
    ASSUME NEW e \in DaysOfYear
    PROVE  /\ MonthOf(e) \in Months /\ MonthStart(MonthOf(e)) \in Nat
           /\ e - MonthStart(MonthOf(e)) \in DaysOfAMonth
<1> DEFINE m == MonthOf(e)
           q == MonthStart(m)
<1>0. e \in Nat /\ e <= 365
  BY DEF DaysOfYear
<1>1. m \in Months /\ m \in Nat /\ 153 * m <= 5 * e + 2 /\ 5 * e + 2 < 153 * m + 153
  BY <1>0, SMT DEF MonthOf, Months
<1> HIDE DEF m
<1>2. q \in Nat /\ 5 * q <= 153 * m + 2 /\ 153 * m + 2 < 5 * q + 5
  BY <1>1, SMT DEF MonthStart
<1> HIDE DEF q
<1>3. e - q \in DaysOfAMonth
  BY <1>0, <1>1, <1>2, SMT DEF DaysOfAMonth
<1> QED  BY <1>1, <1>2, <1>3 DEF m, q

\* A month counted from March is the month counted from January.
LEMMA MonthFromMarch ==
    ASSUME NEW m \in Months
    PROVE  /\ m \div 10 \in 0 .. 1 /\ CalendarMonth(m) \in 1 .. 12
           /\ (14 - CalendarMonth(m)) \div 12 = m \div 10
           /\ CalendarMonth(m) + 12 * (m \div 10) - 3 = m
           /\ MonthStart(m) \in Nat
  BY SMT DEF CalendarMonth, Months, MonthStart

\* What getJulianDayNumber counts.
LEMMA DayNumber ==
    ASSUME NEW b \in Nat, NEW d \in Years, NEW m \in Months, NEW mday \in Int
    PROVE  getJulianDayNumber(CalendarYear(b, d, m), CalendarMonth(m), mday)
               = mday + MonthStart(m) + YearStart(d) + CenturyStart(b) - 32045
<1> DEFINE y == b * 100 + d
           month == CalendarMonth(m)
           year == CalendarYear(b, d, m)
           a == (14 - month) \div 12
           k == m \div 10
           f == y \div 4
           h == y \div 100
           g == y \div 400
           p == d \div 4
           r == b \div 4
           M == MonthStart(m)
           Y == YearStart(d)
           C == CenturyStart(b)
<1>1. a = k /\ k \in 0 .. 1 /\ month + 12 * k - 3 = m /\ M \in Nat
  BY MonthFromMarch
<1>2. f = 25 * b + p /\ h = b /\ g = r /\ y \in Nat
  BY SMT DEF Years
<1>3. d \in Nat /\ p \in Nat /\ r \in Nat
  BY SMT DEF Years
<1>4. Y = 365 * d + p /\ C = 36524 * b + r
  BY YearDays, CenturyDays
<1>5. year + 4800 - k = y
  BY <1>1, <1>3, SMT DEF CalendarYear
<1>6. M = (153 * m + 2) \div 5
  BY DEF MonthStart
<1>7. getJulianDayNumber(year, month, mday) = mday + M + y * 365 + f - h + g - 32045
  <2> HIDE DEF year, month, M, k
  <2> QED  BY <1>1, <1>5, <1>6 DEF getJulianDayNumber
<1>8. y = b * 100 + d
  OBVIOUS
<1> HIDE DEF y, month, year, a, k, f, h, g, p, r, M, Y, C
<1>9. mday + M + y * 365 + f - h + g - 32045 = mday + M + Y + C - 32045
  BY <1>1, <1>2, <1>3, <1>4, <1>8, SMT
<1>10. getJulianDayNumber(year, month, mday) = mday + M + Y + C - 32045
  BY <1>7, <1>9
<1> QED  BY <1>10 DEF year, month, M, Y, C

\* The day of the date of a day is that day: getJulianDayNumber undoes
\* getYearMonthDay, whose dates have a month and a day that a month can have.
THEOREM DayOfDate ==
    ASSUME NEW j \in Nat
    PROVE  LET ymd == getYearMonthDay(j)
           IN  /\ getJulianDayNumber(ymd.year, ymd.month, ymd.day) = j
               /\ ymd.month \in 1 .. 12 /\ ymd.day \in 1 .. 31
<1> DEFINE ymd == getYearMonthDay(j)
           a == j + 32044
           b == CenturyOf(a)
           c == a - CenturyStart(b)
           d == YearOf(c)
           e == c - YearStart(d)
           m == MonthOf(e)
           n == e - MonthStart(m)
<1>1. ymd = [day |-> n + 1, month |-> CalendarMonth(m), year |-> CalendarYear(b, d, m)]
  BY DEF getYearMonthDay, CenturyOf, CenturyStart, YearOf, YearStart, MonthOf, MonthStart,
         CalendarMonth, CalendarYear
<1> HIDE DEF ymd
<1>2. a \in Nat /\ a = j + 32044
  BY SMT
<1> HIDE DEF a
<1>3. b \in Nat /\ c \in DaysOfCentury /\ CenturyStart(b) \in Nat
  BY <1>2, DayOfCentury
<1>4. c = a - CenturyStart(b)
  OBVIOUS
<1> HIDE DEF b, c
<1>5. d \in Years /\ e \in DaysOfYear /\ YearStart(d) \in Nat
  BY <1>3, DayOfYear
<1>6. e = c - YearStart(d)
  OBVIOUS
<1> HIDE DEF d, e
<1>7. m \in Months /\ n \in DaysOfAMonth /\ MonthStart(m) \in Nat
  BY <1>5, DayOfMonth
<1>8. n = e - MonthStart(m)
  OBVIOUS
<1> HIDE DEF m, n
<1>9. n + 1 \in 1 .. 31 /\ n + 1 \in Int
  BY <1>7, SMT DEF DaysOfAMonth
<1>10. getJulianDayNumber(ymd.year, ymd.month, ymd.day)
           = n + 1 + MonthStart(m) + YearStart(d) + CenturyStart(b) - 32045
  <2>1. getJulianDayNumber(CalendarYear(b, d, m), CalendarMonth(m), n + 1)
            = n + 1 + MonthStart(m) + YearStart(d) + CenturyStart(b) - 32045
    BY <1>3, <1>5, <1>7, <1>9, DayNumber
  <2> QED  BY <2>1, <1>1
<1>11. n + 1 + MonthStart(m) + YearStart(d) + CenturyStart(b) - 32045 = j
  <2> DEFINE M == MonthStart(m)
             Y == YearStart(d)
             C == CenturyStart(b)
  <2>1. /\ M \in Nat /\ Y \in Nat /\ C \in Nat /\ n \in Nat
        /\ a = j + 32044 /\ c = a - C /\ e = c - Y /\ n = e - M
    BY <1>2, <1>3, <1>4, <1>5, <1>6, <1>7, <1>8 DEF DaysOfAMonth
  <2> HIDE DEF M, Y, C
  <2>2. n + 1 + M + Y + C - 32045 = j
    BY <2>1, SMT
  <2> QED  BY <2>2 DEF M, Y, C
<1>12. ymd.month \in 1 .. 12 /\ ymd.day \in 1 .. 31
  BY <1>1, <1>7, <1>9, MonthFromMarch
<1> QED  BY <1>10, <1>11, <1>12 DEF ymd

-----------------------------------------------------------------------------
(* The calendar. *)

\* What the leaves of a calendar are like.
Leaf(d) ==
    /\ d = [year |-> d.year, month |-> d.month, day |-> d.day]
    /\ d.year \in Nat /\ d.month \in 1 .. 12
    /\ d.day \in 1 .. DaysOfMonth(d.year, d.month)

-----------------------------------------------------------------------------
(* A leaf turned is a day counted. *)

\* The month of the code's year that begins in March, and that year.
FromMarch(month) == month + 12 * ((14 - month) \div 12) - 3
MarchYear(year, month) == year + 4800 - ((14 - month) \div 12)

\* The days up to the first of March of a year of the code.
YearDaysOf(y) == y * 365 + y \div 4 - y \div 100 + y \div 400

\* A day counted from the first of March on.
CountedFromMarch(year, month, mday) ==
    mday + MonthStart(FromMarch(month)) + YearDaysOf(MarchYear(year, month)) - 32045

\* What getJulianDayNumber adds up, and that its parts are numbers.
LEMMA DayNumberOf ==
    ASSUME NEW year \in Nat, NEW month \in 1 .. 12, NEW mday \in Int
    PROVE  /\ getJulianDayNumber(year, month, mday) = CountedFromMarch(year, month, mday)
           /\ FromMarch(month) \in Months
           /\ MonthStart(FromMarch(month)) \in Nat
           /\ MarchYear(year, month) \in Nat
           /\ YearDaysOf(MarchYear(year, month)) \in Int
<1>1. FromMarch(month) \in Months /\ MonthStart(FromMarch(month)) \in Nat
  BY SMT DEF FromMarch, Months, MonthStart
<1>2. MarchYear(year, month) \in Nat
  BY SMT DEF MarchYear
<1>3. YearDaysOf(MarchYear(year, month)) \in Int
  BY <1>2, SMT DEF YearDaysOf
<1> DEFINE M == MonthStart(FromMarch(month))
           y == MarchYear(year, month)
           f == y \div 4
           h == y \div 100
           g == y \div 400
<1>4. getJulianDayNumber(year, month, mday) = mday + M + y * 365 + f - h + g - 32045
  <2> HIDE DEF y
  <2>1. y = year + 4800 - ((14 - month) \div 12)
    BY DEF y, MarchYear
  <2> QED  BY <2>1 DEF getJulianDayNumber, MonthStart, FromMarch
<1>5. YearDaysOf(y) = y * 365 + f - h + g
  BY DEF YearDaysOf
<1>6. f \in Nat /\ h \in Nat /\ g \in Nat /\ M \in Nat /\ y \in Nat
  BY <1>1, <1>2, SMT
<1> HIDE DEF f, g, h, y, M
<1>7. getJulianDayNumber(year, month, mday) = mday + M + YearDaysOf(y) - 32045
  BY <1>4, <1>5, <1>6, SMT
<1> QED  BY <1>1, <1>2, <1>3, <1>7 DEF M, y, CountedFromMarch

\* A year of the code is followed by the one that has the next March in it; the
\* leap day comes between, at the end of February.
LEMMA YearLength ==
    ASSUME NEW y \in Nat
    PROVE  YearDaysOf(y + 1) = YearDaysOf(y) + IF IsLeapYear(y + 1) THEN 366 ELSE 365
<1>1. (y + 1) \div 4 = y \div 4 + IF (y + 1) % 4 = 0 THEN 1 ELSE 0
  BY SMT
<1>2. (y + 1) \div 100 = y \div 100 + IF (y + 1) % 100 = 0 THEN 1 ELSE 0
  BY SMT
<1>3. (y + 1) \div 400 = y \div 400 + IF (y + 1) % 400 = 0 THEN 1 ELSE 0
  BY SMT
<1>4. /\ (y + 1) % 400 = 0 => (y + 1) % 100 = 0
      /\ (y + 1) % 100 = 0 => (y + 1) % 4 = 0
  BY SMT
<1> QED  BY <1>1, <1>2, <1>3, <1>4, SMT DEF YearDaysOf, IsLeapYear

\* 4800 years are whole centuries of every kind.
LEMMA SameLeapYears ==
    ASSUME NEW year \in Nat
    PROVE  IsLeapYear(year + 4800) = IsLeapYear(year)
  BY SMT DEF IsLeapYear

\* No month is too short or too long for the code's days of a month.
LEMMA MonthLengths ==
    ASSUME NEW year \in Nat, NEW month \in 1 .. 12
    PROVE  DaysOfMonth(year, month) \in 28 .. 31
  BY SMT DEF DaysOfMonth

\* The first of a month follows the last day of the month before.
LEMMA NextMonth ==
    ASSUME NEW year \in Nat, NEW month \in 1 .. 11
    PROVE  getJulianDayNumber(year, month + 1, 1)
               = getJulianDayNumber(year, month, DaysOfMonth(year, month)) + 1
<1> DEFINE len == DaysOfMonth(year, month)
           y == MarchYear(year, month)
           z == MarchYear(year, month + 1)
           M == MonthStart(FromMarch(month))
           N == MonthStart(FromMarch(month + 1))
           Y == YearDaysOf(y)
           Z == YearDaysOf(z)
<1>1. month \in 1 .. 12 /\ month + 1 \in 1 .. 12 /\ len \in 28 .. 31 /\ len \in Int
  BY MonthLengths, SMT
<1>2. /\ getJulianDayNumber(year, month, len) = len + M + Y - 32045
      /\ M \in Nat /\ Y \in Int /\ y \in Nat
  <2>1. /\ getJulianDayNumber(year, month, len) = CountedFromMarch(year, month, len)
        /\ M \in Nat /\ Y \in Int /\ y \in Nat
    BY <1>1, DayNumberOf
  <2> QED  BY <2>1 DEF CountedFromMarch
<1>3. /\ getJulianDayNumber(year, month + 1, 1) = 1 + N + Z - 32045
      /\ N \in Nat /\ Z \in Int
  <2>1. 1 \in Int
    OBVIOUS
  <2>2. /\ getJulianDayNumber(year, month + 1, 1) = CountedFromMarch(year, month + 1, 1)
        /\ N \in Nat /\ Z \in Int
    BY <1>1, <2>1, DayNumberOf
  <2> QED  BY <2>2 DEF CountedFromMarch
<1>4. N + Z = len + M + Y
  <2>1. CASE month # 2
    <3>1. z = y
      BY <2>1, SMT DEF MarchYear
    <3>2. N - M = len
      BY <1>1, <2>1, SMT DEF MonthStart, FromMarch, DaysOfMonth
    <3> HIDE DEF N, M, len, y, z
    <3> QED  BY <3>1, <3>2, <1>1, <1>2, <1>3, SMT
  <2>2. CASE month = 2
    <3>1. y + 1 = year + 4800 /\ z = y + 1
      BY <2>2, SMT DEF MarchYear
    <3>2. N = 0 /\ M = 337
      BY <2>2, SMT DEF MonthStart, FromMarch
    <3>3. len = IF IsLeapYear(year) THEN 29 ELSE 28
      BY <2>2, SMT DEF DaysOfMonth
    <3>4. IsLeapYear(year) = IsLeapYear(y + 1)
      BY <3>1, SameLeapYears
    <3>5. Z = Y + IF IsLeapYear(y + 1) THEN 366 ELSE 365
      BY <3>1, <1>2, YearLength
    <3> HIDE DEF N, M, len, y, z, Y, Z
    <3> QED  BY <3>2, <3>3, <3>4, <3>5, <1>2, SMT
  <2> QED  BY <2>1, <2>2
<1> HIDE DEF len, M, N, Y, Z
<1>5. getJulianDayNumber(year, month + 1, 1) = getJulianDayNumber(year, month, len) + 1
  BY <1>1, <1>2, <1>3, <1>4, SMT
<1> QED  BY <1>5 DEF len

\* New Year follows the 31st of December.
LEMMA NextYear ==
    ASSUME NEW year \in Nat
    PROVE  getJulianDayNumber(year + 1, 1, 1) = getJulianDayNumber(year, 12, 31) + 1
<1>1. MarchYear(year + 1, 1) = MarchYear(year, 12)
  BY SMT DEF MarchYear
<1>2. MonthStart(FromMarch(1)) = 306 /\ MonthStart(FromMarch(12)) = 275
  BY SMT DEF MonthStart, FromMarch
<1> DEFINE Y == YearDaysOf(MarchYear(year, 12))
<1>3. getJulianDayNumber(year, 12, 31) = 31 + 275 + Y - 32045 /\ Y \in Int
  <2>1. 12 \in 1 .. 12 /\ 31 \in Int
    BY SMT
  <2>2. /\ getJulianDayNumber(year, 12, 31) = CountedFromMarch(year, 12, 31)
        /\ Y \in Int
    BY <2>1, DayNumberOf
  <2> QED  BY <2>2, <1>2 DEF CountedFromMarch
<1>4. getJulianDayNumber(year + 1, 1, 1) = 1 + 306 + Y - 32045
  <2>1. 1 \in 1 .. 12 /\ 1 \in Int /\ year + 1 \in Nat
    BY SMT
  <2>2. getJulianDayNumber(year + 1, 1, 1) = CountedFromMarch(year + 1, 1, 1)
    BY <2>1, DayNumberOf
  <2> QED  BY <2>2, <1>1, <1>2 DEF CountedFromMarch
<1> HIDE DEF Y
<1> QED  BY <1>3, <1>4, SMT

\* A day of a month follows the day before.
LEMMA NextDay ==
    ASSUME NEW year \in Nat, NEW month \in 1 .. 12, NEW mday \in Nat
    PROVE  getJulianDayNumber(year, month, mday + 1) = getJulianDayNumber(year, month, mday) + 1
<1> DEFINE M == MonthStart(FromMarch(month))
           Y == YearDaysOf(MarchYear(year, month))
<1>1. /\ getJulianDayNumber(year, month, mday) = CountedFromMarch(year, month, mday)
      /\ M \in Nat /\ Y \in Int
  <2>1. mday \in Int
    OBVIOUS
  <2> QED  BY <2>1, DayNumberOf
<1>2. getJulianDayNumber(year, month, mday + 1) = CountedFromMarch(year, month, mday + 1)
  <2>1. mday + 1 \in Int
    OBVIOUS
  <2> QED  BY <2>1, DayNumberOf
<1>3. /\ CountedFromMarch(year, month, mday) = mday + M + Y - 32045
      /\ CountedFromMarch(year, month, mday + 1) = mday + 1 + M + Y - 32045
  BY DEF CountedFromMarch
<1> HIDE DEF M, Y
<1> QED  BY <1>1, <1>2, <1>3, SMT

\* The day of a leaf.
DayOf(d) == getJulianDayNumber(d.year, d.month, d.day)

\* The day of a leaf is a number.
LEMMA DayIsInt ==
    ASSUME NEW d, Leaf(d)
    PROVE  DayOf(d) \in Int
<1> DEFINE M == MonthStart(FromMarch(d.month))
           Y == YearDaysOf(MarchYear(d.year, d.month))
<1>1. d.year \in Nat /\ d.month \in 1 .. 12 /\ d.day \in Int
  BY MonthLengths DEF Leaf
<1>2. DayOf(d) = CountedFromMarch(d.year, d.month, d.day) /\ M \in Nat /\ Y \in Int
  BY <1>1, DayNumberOf DEF DayOf
<1>3. CountedFromMarch(d.year, d.month, d.day) = d.day + M + Y - 32045
  BY DEF CountedFromMarch
<1> HIDE DEF M, Y
<1> QED  BY <1>1, <1>2, <1>3, SMT

\* A leaf turned is a day counted.
LEMMA LeafTurned ==
    ASSUME NEW d, Leaf(d)
    PROVE  Leaf(NextLeaf(d)) /\ DayOf(NextLeaf(d)) = DayOf(d) + 1
<1> DEFINE len == DaysOfMonth(d.year, d.month)
<1>1. d.year \in Nat /\ d.month \in 1 .. 12 /\ d.day \in 1 .. len /\ len \in 28 .. 31
  BY MonthLengths DEF Leaf
<1>2. CASE d.day < len
  <2> DEFINE next == [year |-> d.year, month |-> d.month, day |-> d.day + 1]
  <2>1. NextLeaf(d) = next
    BY <1>2 DEF NextLeaf, Leaf
  <2>2. next.day \in 1 .. len
    BY <1>1, <1>2, SMT
  <2>3. d.day \in Nat
    BY <1>1, SMT
  <2>4. Leaf(next)
    BY <1>1, <2>2 DEF Leaf
  <2>5. DayOf(next) = DayOf(d) + 1
    BY <1>1, <2>3, NextDay DEF DayOf
  <2> QED  BY <2>1, <2>4, <2>5
<1>3. CASE d.day = len /\ d.month < 12
  <2> DEFINE next == [year |-> d.year, month |-> d.month + 1, day |-> 1]
  <2>1. NextLeaf(d) = next
    <3>1. ~(d.day < len) /\ d.month < 12
      BY <1>1, <1>3, SMT
    <3>2. d = [year |-> d.year, month |-> d.month, day |-> d.day]
      BY DEF Leaf
    <3> HIDE DEF len
    <3>3. NextLeaf(d) = [d EXCEPT !.day = 1, !.month = @ + 1]
      BY <3>1 DEF NextLeaf, len
    <3> QED  BY <3>2, <3>3
  <2>2. d.month \in 1 .. 11 /\ d.month + 1 \in 1 .. 12
    BY <1>1, <1>3, SMT
  <2>3. 1 \in 1 .. DaysOfMonth(d.year, d.month + 1)
    BY <1>1, <2>2, MonthLengths, SMT
  <2>4. Leaf(next)
    BY <1>1, <2>2, <2>3 DEF Leaf
  <2>5. DayOf(next) = DayOf(d) + 1
    BY <1>1, <1>3, <2>2, NextMonth DEF DayOf
  <2> QED  BY <2>1, <2>4, <2>5
<1>4. CASE d.day = len /\ d.month = 12
  <2> DEFINE next == [year |-> d.year + 1, month |-> 1, day |-> 1]
  <2>1. NextLeaf(d) = next
    BY <1>1, <1>4, SMT DEF NextLeaf, Leaf
  <2>2. d.year + 1 \in Nat /\ 1 \in 1 .. 12
    BY <1>1, SMT
  <2>3. 1 \in 1 .. DaysOfMonth(d.year + 1, 1)
    BY <2>2, MonthLengths, SMT
  <2>4. Leaf(next)
    BY <2>2, <2>3 DEF Leaf
  <2>5. d.day = 31
    BY <1>4, SMT DEF DaysOfMonth
  <2>6. DayOf(next) = DayOf(d) + 1
    BY <1>1, <1>4, <2>5, NextYear DEF DayOf
  <2> QED  BY <2>1, <2>4, <2>6
<1> QED  BY <1>1, <1>2, <1>3, <1>4, SMT

-----------------------------------------------------------------------------
(* The date of a leaf's day is the leaf. *)

\* A day of a month is found in that month.
LEMMA MonthOfDay ==
    ASSUME NEW m \in Months, NEW n \in Nat,
           IF m < 11 THEN n < MonthStart(m + 1) - MonthStart(m) ELSE n <= 28
    PROVE  MonthOf(n + MonthStart(m)) = m
  BY SMT DEF Months, MonthStart, MonthOf

\* The last day of a year of 366 days is in every fourth year.
LEMMA YearOfDay ==
    ASSUME NEW d \in Years, NEW e \in DaysOfYear, e = 365 => d % 4 = 3
    PROVE  YearOf(e + YearStart(d)) = d
<1> DEFINE q == YearStart(d)
           k == d \div 4
           r == d % 4
<1>1. d \in Nat /\ e \in Nat /\ e <= 365
  BY DEF Years, DaysOfYear
<1>2. q \in Nat /\ q = 365 * d + k
  BY YearDays
<1>3. d = 4 * k + r /\ k \in Nat /\ r \in 0 .. 3
  BY <1>1, SMT
<1>4. e = 365 => r = 3
  OBVIOUS
<1> HIDE DEF q, k, r
<1>5. 1461 * d <= 4 * (e + q) + 3 /\ 4 * (e + q) + 3 < 1461 * d + 1461
  BY <1>1, <1>2, <1>3, <1>4, SMT
<1>6. (4 * (e + q) + 3) \div 1461 = d
  BY <1>1, <1>2, <1>5, SMT
<1> QED  BY <1>6 DEF YearOf, q

\* The last day of a century of 36525 days is in every fourth century.
LEMMA CenturyOfDay ==
    ASSUME NEW b \in Nat, NEW c \in DaysOfCentury, c = 36524 => b % 4 = 3
    PROVE  CenturyOf(c + CenturyStart(b)) = b
<1> DEFINE q == CenturyStart(b)
           k == b \div 4
           r == b % 4
<1>1. c \in Nat /\ c <= 36524
  BY DEF DaysOfCentury
<1>2. q \in Nat /\ q = 36524 * b + k
  BY CenturyDays
<1>3. b = 4 * k + r /\ k \in Nat /\ r \in 0 .. 3
  BY SMT
<1>4. c = 36524 => r = 3
  OBVIOUS
<1> HIDE DEF q, k, r
<1>5. 146097 * b <= 4 * (c + q) + 3 /\ 4 * (c + q) + 3 < 146097 * b + 146097
  BY <1>1, <1>2, <1>3, <1>4, SMT
<1>6. (4 * (c + q) + 3) \div 146097 = b
  BY <1>1, <1>2, <1>5, SMT
<1> QED  BY <1>6 DEF CenturyOf, q

\* The days that are left in a month, in a year and in a century.
LEMMA LastDays ==
    ASSUME NEW year \in Nat, NEW month \in 1 .. 12,
           NEW n \in Nat, n < DaysOfMonth(year, month)
    PROVE  LET m == FromMarch(month)
               y == MarchYear(year, month)
               e == n + MonthStart(m)
               c == e + YearStart(y % 100)
           IN  /\ MonthOf(e) = m
               /\ e \in DaysOfYear
               /\ e = 365 => (y % 100) % 4 = 3
               /\ c \in DaysOfCentury
               /\ c = 36524 => (y \div 100) % 4 = 3
<1> DEFINE m == FromMarch(month)
           y == MarchYear(year, month)
           e == n + MonthStart(m)
           d == y % 100
           c == e + YearStart(d)
           len == DaysOfMonth(year, month)
<1>1. /\ m \in Months /\ MonthStart(m) \in Nat /\ y \in Nat
  <2>1. 0 \in Int
    OBVIOUS
  <2> QED  BY <2>1, DayNumberOf
<1>2. month # 2 => m < 11 /\ len = MonthStart(m + 1) - MonthStart(m)
  BY SMT DEF FromMarch, MonthStart, DaysOfMonth
<1>3. month = 2 => m = 11 /\ len = IF IsLeapYear(y + 1) THEN 29 ELSE 28
  <2>1. month = 2 => y + 1 = year + 4800 /\ m = 11
    BY SMT DEF FromMarch, MarchYear
  <2>2. month = 2 => len = IF IsLeapYear(year) THEN 29 ELSE 28
    BY SMT DEF DaysOfMonth
  <2> QED  BY <2>1, <2>2, SameLeapYears
<1>4. MonthOf(e) = m
  <2>1. IF m < 11 THEN n < MonthStart(m + 1) - MonthStart(m) ELSE n <= 28
    <3> HIDE DEF m, y
    <3>1. CASE month # 2
      BY <3>1, <1>2
    <3>2. CASE month = 2
      BY <3>2, <1>3, SMT
    <3> QED  BY <3>1, <3>2
  <2> QED  BY <1>1, <2>1, MonthOfDay
<1>5. /\ e \in Nat /\ e <= 365
      /\ e = 365 => IsLeapYear(y + 1)
  <2>1. CASE month # 2
    <3>1. MonthStart(m + 1) \in Nat /\ MonthStart(m + 1) <= 337
      BY <1>1, <1>2, <2>1, SMT DEF MonthStart, Months
    <3> HIDE DEF m, y
    <3> QED  BY <1>1, <1>2, <2>1, <3>1, SMT
  <2>2. CASE month = 2
    <3>1. MonthStart(m) = 337
      BY <1>3, <2>2, SMT DEF MonthStart
    <3> HIDE DEF m, y
    <3>2. CASE IsLeapYear(y + 1)
      BY <1>3, <2>2, <3>1, <3>2, SMT
    <3>3. CASE ~IsLeapYear(y + 1)
      BY <1>3, <2>2, <3>1, <3>3, SMT
    <3> QED  BY <3>2, <3>3
  <2> QED  BY <2>1, <2>2
<1>6. d \in Years /\ YearStart(d) \in Nat
  <2>1. d \in Years
    BY <1>1, SMT DEF Years
  <2> QED  BY <2>1, YearDays
<1>7. IsLeapYear(y + 1) => d % 4 = 3 /\ (d = 99 => (y \div 100) % 4 = 3)
  <2> HIDE DEF y
  <2> QED  BY <1>1, SMT DEF IsLeapYear
<1>8. e \in DaysOfYear /\ (e = 365 => d % 4 = 3)
  BY <1>5, <1>7 DEF DaysOfYear
<1>9. /\ d \in Nat /\ d <= 99
      /\ YearStart(d) <= 36159 /\ (d # 99 => YearStart(d) <= 35794)
  <2> HIDE DEF y
  <2>1. d \in Nat /\ d <= 99
    BY <1>6 DEF Years
  <2> DEFINE q == YearStart(d)
             k == d \div 4
  <2> HIDE DEF d
  <2>2. q = 365 * d + k
    BY <1>6, YearDays
  <2>3. k \in Nat /\ 4 * k <= d
    BY <2>1, SMT
  <2> HIDE DEF q, k
  <2>4. q <= 36159 /\ (d # 99 => q <= 35794)
    BY <2>1, <2>2, <2>3, SMT
  <2> QED  BY <2>1, <2>4 DEF q
<1>10. /\ c \in Nat /\ c <= 36524
       /\ c = 36524 => d = 99 /\ e = 365
  <2> DEFINE q == YearStart(d)
  <2>1. c = e + q
    OBVIOUS
  <2>2. q \in Nat /\ q <= 36159 /\ (d # 99 => q <= 35794)
    BY <1>6, <1>9
  <2> HIDE DEF m, y, d, e, q, c
  <2> QED  BY <1>5, <2>1, <2>2, SMT
<1>11. c \in DaysOfCentury /\ (c = 36524 => (y \div 100) % 4 = 3)
  BY <1>5, <1>7, <1>10 DEF DaysOfCentury
<1> QED  BY <1>4, <1>8, <1>11

\* getYearMonthDay undoes getJulianDayNumber.
LEMMA DateOfDay ==
    ASSUME NEW year \in Nat, NEW month \in 1 .. 12, NEW mday \in 1 .. DaysOfMonth(year, month)
    PROVE  getYearMonthDay(getJulianDayNumber(year, month, mday))
               = [day |-> mday, month |-> month, year |-> year]
<1> DEFINE j == getJulianDayNumber(year, month, mday)
           a == j + 32044
           n == mday - 1
           m == FromMarch(month)
           y == MarchYear(year, month)
           b == y \div 100
           d == y % 100
           e == n + MonthStart(m)
           c == e + YearStart(d)
<1>1. /\ n \in Nat /\ n < DaysOfMonth(year, month) /\ mday \in Int /\ mday = n + 1
  BY MonthLengths, SMT
<1>2. /\ MonthOf(e) = m
      /\ e \in DaysOfYear /\ (e = 365 => d % 4 = 3)
      /\ c \in DaysOfCentury /\ (c = 36524 => b % 4 = 3)
  BY <1>1, LastDays
<1>3. /\ j = CountedFromMarch(year, month, mday)
      /\ m \in Months /\ MonthStart(m) \in Nat /\ y \in Nat
  BY <1>1, DayNumberOf
<1>4. b \in Nat /\ d \in Years /\ y = b * 100 + d
  <2> HIDE DEF y
  <2> QED  BY <1>3, SMT DEF Years
<1>5. YearOf(c) = d
  BY <1>2, <1>4, YearOfDay
<1>6. CenturyOf(c + CenturyStart(b)) = b
  BY <1>2, <1>4, CenturyOfDay
<1>7. a = c + CenturyStart(b)
  <2> DEFINE M == MonthStart(m)
             Y == YearStart(d)
             C == CenturyStart(b)
             f == y \div 4
             g == y \div 400
             k == d \div 4
             r == b \div 4
  <2>1. j = mday + M + YearDaysOf(y) - 32045
    BY <1>3 DEF CountedFromMarch
  <2>2. YearDaysOf(y) = y * 365 + f - b + g
    BY DEF YearDaysOf
  <2>3. Y = 365 * d + k /\ C = 36524 * b + r
    BY <1>4, YearDays, CenturyDays
  <2>4. d \in Nat
    BY <1>4 DEF Years
  <2>5. f = 25 * b + k /\ g = r /\ k \in Nat /\ r \in Nat
    <3> HIDE DEF y
    <3> QED  BY <1>3, SMT
  <2>6. M \in Nat /\ c = n + M + Y
    BY <1>3
  <2> HIDE DEF y, m, b, d, c, j, n, M, Y, C, f, g, k, r
  <2>7. j + 32044 = c + C
    BY <1>1, <1>4, <2>1, <2>2, <2>3, <2>4, <2>5, <2>6, SMT
  <2> QED  BY <2>7 DEF C
<1>8. c - YearStart(d) = e /\ e - MonthStart(m) = n /\ a - CenturyStart(b) = c
  <2> DEFINE M == MonthStart(m)
             Y == YearStart(d)
             C == CenturyStart(b)
  <2>1. M \in Nat /\ Y \in Nat /\ C \in Nat
    BY <1>3, <1>4, YearDays, CenturyDays
  <2>2. c = e + Y /\ e = n + M
    OBVIOUS
  <2>3. a = c + C
    BY <1>7
  <2> HIDE DEF M, Y, C, e, c, n, m, a
  <2>4. c - Y = e /\ e - M = n /\ a - C = c
    BY <1>1, <2>1, <2>2, <2>3, SMT
  <2> QED  BY <2>4 DEF M, Y, C
<1>9. CalendarMonth(m) = month /\ CalendarYear(b, d, m) = year
  BY <1>4, SMT DEF CalendarMonth, CalendarYear, FromMarch, MarchYear
<1>10. getYearMonthDay(j) = [day |-> n + 1, month |-> CalendarMonth(m),
                             year |-> CalendarYear(b, d, m)]
  <2> DEFINE bb == CenturyOf(a)
             cc == a - CenturyStart(bb)
             dd == YearOf(cc)
             ee == cc - YearStart(dd)
             mm == MonthOf(ee)
  <2>1. getYearMonthDay(j) = [day |-> ee - MonthStart(mm) + 1, month |-> CalendarMonth(mm),
                              year |-> CalendarYear(bb, dd, mm)]
    BY DEF getYearMonthDay, CenturyOf, CenturyStart, YearOf, YearStart, MonthOf, MonthStart,
           CalendarMonth, CalendarYear
  <2> HIDE DEF j, a, n, b, c, d, e, m
  <2>2. bb = b
    BY <1>6, <1>7
  <2>3. cc = c
    BY <1>8, <2>2
  <2>4. dd = d
    BY <1>5, <2>3
  <2>5. ee = e
    BY <1>8, <2>3, <2>4
  <2>6. mm = m
    BY <1>2, <2>5
  <2> HIDE DEF bb, cc, dd, ee, mm
  <2> QED  BY <2>1, <2>2, <2>4, <2>5, <2>6, <1>8
<1> QED  BY <1>1, <1>9, <1>10, SMT

-----------------------------------------------------------------------------
(* Time going by. *)

\* The day is counted as the leaf is turned, and the steps stay in step with it.
IInv ==
    /\ Leaf(date)
    /\ day = DayOf(date)
    /\ sec \in Nat /\ sec < kSecondsPerDay
    /\ \E k \in Nat : sec = k * Stride

\* The seconds of a day.
LEMMA DayLength == kSecondsPerDay \in Nat /\ kSecondsPerDay = 86400
  BY SMT DEF kSecondsPerDay

LEMMA DayIsNat == kSecondsPerDay \in Nat
  BY DayLength

LEMMA StrideIs == Stride \in Nat /\ Stride > 0
<1>1. Stride \in Nat \ {0}
  BY StrideAssumption, Zenon
<1> QED  BY <1>1, SMT

\* The walk starts on a leaf and at midnight.
LEMMA IInvInit == Init => IInv
<1> SUFFICES ASSUME Init PROVE IInv
  OBVIOUS
<1>1. date.year \in Nat /\ date = [year |-> date.year, month |-> 1, day |-> 1]
  BY SpansAssumption DEF Init
<1>2. 1 \in 1 .. DaysOfMonth(date.year, 1) /\ 1 \in 1 .. 12
  BY <1>1, MonthLengths, SMT
<1>3. Leaf(date)
  BY <1>1, <1>2 DEF Leaf
<1>4. day = DayOf(date)
  BY DEF Init, DayOf
<1>5. sec \in Nat /\ sec < kSecondsPerDay
  BY DayLength, SMT DEF Init
<1>6. sec = 0 * Stride
  BY StrideIs, SMT DEF Init
<1> QED  BY <1>3, <1>4, <1>5, <1>6 DEF IInv

\* Whole steps make a day, so that a step never goes past midnight.
LEMMA StepsFit ==
    ASSUME IInv
    PROVE  sec + Stride <= kSecondsPerDay /\ Stride \in Nat /\ Stride > 0
<1>1. Stride \in Nat /\ Stride > 0
  BY StrideIs
<1>2. PICK n \in 1 .. kSecondsPerDay : n * Stride = kSecondsPerDay
  BY StrideAssumption, Zenon
<1>7. n \in Nat
  BY DayIsNat, SMT
<1>3. PICK k \in Nat : sec = k * Stride
  BY DEF IInv
<1>4. k < n
  <2>1. SUFFICES ASSUME n <= k PROVE FALSE
    BY <1>3, <1>7, SMT
  <2>2. n * Stride <= k * Stride
    BY <1>1, <1>3, <1>7, <2>1, SMT
  <2>3. sec < kSecondsPerDay
    BY DEF IInv
  <2> QED  BY <1>1, <1>2, <1>3, <1>7, <2>2, <2>3, DayIsNat, SMT
<1>5. (k + 1) * Stride <= n * Stride
  BY <1>1, <1>3, <1>4, <1>7, SMT
<1>6. (k + 1) * Stride = k * Stride + Stride
  BY <1>1, <1>3, SMT
<1> QED  BY <1>1, <1>2, <1>3, <1>5, <1>6, <1>7, DayIsNat, SMT

\* A step is at most a day, so that at most one leaf is turned, and it is turned
\* exactly when midnight is passed.
LEMMA IInvElapse ==
    ASSUME IInv, Elapse
    PROVE  IInv'
<1> DEFINE step == IF AboutToChange THEN Stride ELSE kSecondsPerDay
           next == sec + step
<1>1. step \in Nat /\ step <= kSecondsPerDay /\ sec \in Nat /\ sec < kSecondsPerDay
  BY StepsFit, DayLength, SMT DEF IInv
<1>2. /\ sec' = next % kSecondsPerDay /\ day' = day + next \div kSecondsPerDay
      /\ date' = IF next >= kSecondsPerDay THEN NextLeaf(date) ELSE date
  BY DEF Elapse
<1>3. sec' \in Nat /\ sec' < kSecondsPerDay
  <2> HIDE DEF step
  <2> QED  BY <1>1, <1>2, DayLength, SMT
<1>8. \E k \in Nat : sec' = k * Stride
  <2>1. PICK k \in Nat : sec = k * Stride
    BY DEF IInv
  <2>2. CASE AboutToChange
    <3>1. sec + Stride <= kSecondsPerDay /\ Stride \in Nat
      BY StepsFit
    <3>2. sec' = IF sec + Stride = kSecondsPerDay THEN 0 ELSE sec + Stride
      BY <1>1, <1>2, <2>2, <3>1, DayLength, SMT
    <3>3. k + 1 \in Nat /\ (k + 1) * Stride = k * Stride + Stride /\ 0 * Stride = 0
      BY <2>1, <3>1, SMT
    <3> QED  BY <2>1, <3>2, <3>3
  <2>3. CASE ~AboutToChange
    <3>1. sec' = sec
      BY <1>1, <1>2, <2>3, DayLength, SMT
    <3> QED  BY <2>1, <3>1
  <2> QED  BY <2>2, <2>3
<1> HIDE DEF step
<1>4. next \div kSecondsPerDay = IF next >= kSecondsPerDay THEN 1 ELSE 0
  BY <1>1, DayLength, SMT
<1> HIDE DEF next
<1>5. Leaf(date) /\ day = DayOf(date) /\ DayOf(date) \in Int
  <2>1. Leaf(date) /\ day = DayOf(date)
    BY DEF IInv
  <2> QED  BY <2>1, DayIsInt
<1>6. CASE next >= kSecondsPerDay
  BY <1>2, <1>3, <1>4, <1>5, <1>6, <1>8, LeafTurned DEF IInv, DayOf
<1>7. CASE ~(next >= kSecondsPerDay)
  BY <1>2, <1>3, <1>4, <1>5, <1>7, <1>8 DEF IInv, DayOf
<1> QED  BY <1>6, <1>7

\* A day that was counted from a leaf has that leaf for its date.
LEMMA IInvAgrees == IInv => CalendarAgrees
<1> SUFFICES ASSUME IInv PROVE CalendarAgrees
  OBVIOUS
<1>1. Leaf(date) /\ day = DayOf(date) /\ day \in Int
  <2>1. Leaf(date) /\ day = DayOf(date)
    BY DEF IInv
  <2> QED  BY <2>1, DayIsInt
<1>2. getYearMonthDay(day) = date
  BY <1>1, DateOfDay DEF Leaf, DayOf
<1>3. weekDay(day) = (day - KnownSunday) % 7
  BY <1>1, SMT DEF weekDay, KnownSunday
<1> QED  BY <1>1, <1>2, <1>3 DEF CalendarAgrees, DayOf

\* The inductive invariant holds of every walk.
THEOREM WalkKeeps == Spec => []IInv
<1>1. Init => IInv
  BY IInvInit
<1>2. IInv /\ [Elapse]_vars => IInv'
  <2> SUFFICES ASSUME IInv, [Elapse]_vars PROVE IInv'
    OBVIOUS
  <2>1. CASE Elapse
    BY <2>1, IInvElapse
  <2>2. CASE UNCHANGED vars
    BY <2>2 DEF IInv, Leaf, DayOf, vars
  <2> QED  BY <2>1, <2>2
<1> QED  BY <1>1, <1>2, PTL DEF Spec

\* Whatever years are walked through, from the year 0 on, the date of a day, the
\* day of a date and the day of the week are those of the calendar.
THEOREM DateIsTheCalendars == Spec => []CalendarAgrees
  BY WalkKeeps, IInvAgrees, PTL

-----------------------------------------------------------------------------
(* The conversions in UTC. *)

\* A time t is d days of P seconds and x seconds.
IsSplit(t, d, x, P) ==
    P = 86400 /\ 0 <= x /\ x < P /\ t = d * 86400 + x

LEMMA Splits ==
    ASSUME NEW d \in Int, NEW x \in Int, 0 <= x, x < kSecondsPerDay
    PROVE  /\ IsSplit(d * kSecondsPerDay + x, d, x, kSecondsPerDay)
           /\ kSecondsPerDay \in Int /\ d * kSecondsPerDay + x \in Int
<1>1. kSecondsPerDay \in Int /\ kSecondsPerDay = 86400
  BY DayLength
<1>2. d * kSecondsPerDay = d * 86400 /\ d * 86400 \in Int
  BY <1>1
<1> DEFINE n == d * kSecondsPerDay
<1>3. n = d * 86400 /\ n \in Int
  BY <1>2
<1> HIDE DEF n
<1>4. n + x = d * 86400 + x /\ n + x \in Int
  BY <1>3, SMT
<1> QED  BY <1>1, <1>4 DEF IsSplit, n

\* A time is divided by the length of a day towards 0, as C++ divides: for a time
\* before 1970 that is inside a day, the quotient is the day after.
LEMMA DayQuotient ==
    ASSUME NEW t \in Int, NEW d \in Int, NEW x \in Int, NEW P \in Int, IsSplit(t, d, x, P)
    PROVE  LET q == Quotient(t, P)
           IN  \/ q = d /\ t - q * P = x /\ ~(x < 0)
               \/ q - 1 = d /\ t - q * P < 0 /\ t - q * P + P = x
<1>1. P = 86400 /\ 0 <= x /\ x < P /\ t = d * 86400 + x
  BY SMT DEF IsSplit
<1> DEFINE q == Quotient(t, P)
<1>2. CASE d >= 0
  <2>1. t >= 0 /\ t \div 86400 = d
    BY <1>1, <1>2, SMT
  <2>2. q = d
    BY <1>1, <2>1, SMT DEF Quotient
  <2>3. q * P = d * 86400
    BY <1>1, <2>2
  <2> DEFINE m == q * P
  <2>4. m = d * 86400
    BY <2>3
  <2> HIDE DEF q, m
  <2>5. q = d /\ t - m = x /\ ~(x < 0)
    BY <1>1, <1>2, <2>2, <2>4, SMT
  <2> QED  BY <2>5, Zenon DEF m, q
<1>3. CASE d < 0 /\ x > 0
  <2>1. t < 0 /\ (-t) \div 86400 = -d - 1
    BY <1>1, <1>3, SMT
  <2>2. q = d + 1
    BY <1>1, <2>1, SMT DEF Quotient
  <2>3. q * P = (d + 1) * 86400
    BY <1>1, <2>2
  <2> DEFINE m == q * P
  <2>4. m = (d + 1) * 86400
    BY <2>3
  <2> HIDE DEF q, m
  <2>5. q - 1 = d /\ t - m < 0 /\ t - m + P = x
    BY <1>1, <1>3, <2>2, <2>4, SMT
  <2> QED  BY <2>5, Zenon DEF m, q
<1>4. CASE d < 0 /\ ~(x > 0)
  <2>1. t < 0 /\ (-t) \div 86400 = -d
    BY <1>1, <1>4, SMT
  <2>2. q = d
    BY <1>1, <2>1, SMT DEF Quotient
  <2>3. q * P = d * 86400
    BY <1>1, <2>2
  <2> DEFINE m == q * P
  <2>4. m = d * 86400
    BY <2>3
  <2> HIDE DEF q, m
  <2>5. q = d /\ t - m = x /\ ~(x < 0)
    BY <1>1, <1>4, <2>2, <2>4, SMT
  <2> QED  BY <2>5, Zenon DEF m, q
<1> HIDE DEF q
<1> QED  BY <1>2, <1>3, <1>4 DEF q

\* A time is converted by its day and its second of the day.
LEMMA UtcTimeIs ==
    ASSUME NEW d \in Int, NEW x \in Int, 0 <= x, x < kSecondsPerDay
    PROVE  toUtcTime(d * kSecondsPerDay + x) = UtcFields(d, x)
<1> DEFINE t == d * kSecondsPerDay + x
           q == Quotient(t, kSecondsPerDay)
           r == t - q * kSecondsPerDay
<1>1. IsSplit(t, d, x, kSecondsPerDay) /\ kSecondsPerDay \in Int /\ t \in Int
  BY Splits
<1>2. toUtcTime(t) = IF r < 0 THEN UtcFields(q - 1, r + kSecondsPerDay) ELSE UtcFields(q, r)
  BY Zenon DEF toUtcTime
<1> HIDE DEF t
<1>3. \/ q = d /\ r = x /\ ~(x < 0)
      \/ q - 1 = d /\ r < 0 /\ r + kSecondsPerDay = x
  BY <1>1, DayQuotient
<1> HIDE DEF q, r
<1>4. toUtcTime(t) = UtcFields(d, x)
  BY <1>2, <1>3, Zenon
<1> QED  BY <1>4, Zenon DEF t

\* Sixty of one are one of the next.
LEMMA Sixty ==
    ASSUME NEW k \in Nat
    PROVE  k \div 60 \in Nat /\ k % 60 \in 0 .. 59 /\ k = (k \div 60) * 60 + (k % 60)
  BY SMT

\* Sixty times sixty.
LEMMA Hours ==
    ASSUME NEW k \in Nat
    PROVE  (k \div 60) \div 60 = k \div 3600
  BY SMT

\* The hours, minutes and seconds of a second of the day.
LEMMA HmsOf ==
    ASSUME NEW x \in Nat, x < kSecondsPerDay
    PROVE  /\ fillHMS(x).hour \in 0 .. 23 /\ fillHMS(x).min \in 0 .. 59 /\ fillHMS(x).sec \in 0 .. 59
           /\ fillHMS(x).hour * 3600 + fillHMS(x).min * 60 + fillHMS(x).sec = x
<1> DEFINE k == x \div 60
           c == x % 60
           h == k \div 60
           m == k % 60
<1>1. fillHMS(x).hour = h /\ fillHMS(x).min = m /\ fillHMS(x).sec = c
  <2>1. /\ fillHMS(x).hour = x \div 3600 /\ fillHMS(x).min = (x \div 60) % 60
        /\ fillHMS(x).sec = x % 60
    BY DEF fillHMS
  <2> QED  BY <2>1, Hours
<1>2. x \in Nat /\ x < 86400
  BY DayLength
<1>3. k \in Nat /\ c \in 0 .. 59 /\ x = k * 60 + c
  BY <1>2, Sixty
<1> HIDE DEF k, c
<1>4. h \in Nat /\ m \in 0 .. 59 /\ k = h * 60 + m
  BY <1>3, Sixty
<1> HIDE DEF h, m
<1>5. h * 3600 + m * 60 + c = x /\ h \in 0 .. 23
  BY <1>2, <1>3, <1>4, SMT
<1> QED  BY <1>1, <1>3, <1>4, <1>5

\* The days since the first of January: none is negative, or more than 365, and
\* none but the first is 0.
LEMMA DayOfTheYear ==
    ASSUME NEW year \in Nat, NEW month \in 1 .. 12, NEW mday \in 1 .. 31
    PROVE  LET n == getJulianDayNumber(year, month, mday) - getJulianDayNumber(year, 1, 1)
           IN  n \in DaysOfYear /\ (n = 0 <=> month = 1 /\ mday = 1)
<1> DEFINE Y == YearDaysOf(year + 4799)
           Z == YearDaysOf(year + 4800)
           M == MonthStart(FromMarch(month))
           j == getJulianDayNumber(year, month, mday)
           i == getJulianDayNumber(year, 1, 1)
<1>1. /\ MarchYear(year, month) = IF month <= 2 THEN year + 4799 ELSE year + 4800
      /\ MarchYear(year, 1) = year + 4799
  BY SMT DEF MarchYear
<1>2. /\ MonthStart(FromMarch(1)) = 306 /\ MonthStart(FromMarch(2)) = 337
      /\ month > 2 => M \in 0 .. 275
  BY SMT DEF MonthStart, FromMarch
<1>3. Y \in Int /\ Z \in Int /\ Z - Y \in 365 .. 366
  <2>1. year + 4799 \in Nat /\ year + 4800 \in Nat /\ year + 4799 + 1 = year + 4800
    BY SMT
  <2>2. Y \in Int /\ Z \in Int
    BY <2>1, SMT DEF YearDaysOf
  <2>3. Z = Y + IF IsLeapYear(year + 4800) THEN 366 ELSE 365
    BY <2>1, YearLength
  <2> HIDE DEF Y, Z
  <2> QED  BY <2>2, <2>3, SMT
<1>4. j = mday + M + (IF month <= 2 THEN Y ELSE Z) - 32045
  <2>1. mday \in Int
    OBVIOUS
  <2>2. j = CountedFromMarch(year, month, mday)
    BY <2>1, DayNumberOf
  <2> QED  BY <1>1, <2>2 DEF CountedFromMarch
<1>5. i = 1 + 306 + Y - 32045
  <2>1. 1 \in 1 .. 12 /\ 1 \in Int
    BY SMT
  <2>2. i = CountedFromMarch(year, 1, 1)
    BY <2>1, DayNumberOf
  <2> QED  BY <1>1, <1>2, <2>2 DEF CountedFromMarch
<1>6. month = 1 => M = 306
  BY <1>2
<1>7. month = 2 => M = 337
  BY <1>2
<1> HIDE DEF Y, Z, M, j, i
<1>8. CASE month = 1
  <2>1. j - i = mday - 1
    BY <1>3, <1>4, <1>5, <1>6, <1>8, SMT
  <2> QED  BY <1>8, <2>1, SMT DEF i, j, DaysOfYear
<1>9. CASE month = 2
  <2>1. j - i = mday + 30
    BY <1>3, <1>4, <1>5, <1>7, <1>9, SMT
  <2> QED  BY <1>9, <2>1, SMT DEF i, j, DaysOfYear
<1>10. CASE month > 2
  <2>1. j - i = mday + M + (Z - Y) - 307
    BY <1>2, <1>3, <1>4, <1>5, <1>10, SMT
  <2>2. j - i \in Int /\ 1 <= j - i /\ j - i <= 365
    BY <1>2, <1>3, <1>10, <2>1, SMT
  <2> QED  BY <1>10, <2>2, SMT DEF i, j, DaysOfYear
<1>11. month = 1 \/ month = 2 \/ month > 2
  BY SMT
<1> QED  BY <1>8, <1>9, <1>10, <1>11 DEF i, j

\* The days of UTC.
UtcDays == day - kJulianDayOf1970_01_01

\* What UtcAgrees says of the fields tm of the second x of the day.
UtcRight(tm, x) ==
    /\ [year |-> tm.year, month |-> tm.mon, day |-> tm.mday] = date
    /\ tm.hour \in 0 .. 23 /\ tm.min \in 0 .. 59 /\ tm.sec \in 0 .. 59
    /\ tm.hour * 3600 + tm.min * 60 + tm.sec = x
    /\ tm.wday = (day - KnownSunday) % 7
    /\ tm.yday \in DaysOfYear /\ (tm.yday = 0 <=> date.month = 1 /\ date.day = 1)
    /\ fromUtcTime(tm) = UtcDays * kSecondsPerDay + x

\* The fields that come of the day.
LEMMA DateFields ==
    ASSUME NEW n, NEW x
    PROVE  LET j == n + kJulianDayOf1970_01_01 IN
           /\ UtcFields(n, x).year = getYearMonthDay(j).year
           /\ UtcFields(n, x).mon = getYearMonthDay(j).month
           /\ UtcFields(n, x).mday = getYearMonthDay(j).day
           /\ UtcFields(n, x).wday = weekDay(j)
           /\ UtcFields(n, x).yday = j - getJulianDayNumber(getYearMonthDay(j).year, 1, 1)
  BY DEF UtcFields

\* The second gives the rest.
LEMMA TimeFields ==
    ASSUME NEW n, NEW x
    PROVE  /\ UtcFields(n, x).hour = fillHMS(x).hour
           /\ UtcFields(n, x).min = fillHMS(x).min
           /\ UtcFields(n, x).sec = fillHMS(x).sec
  BY DEF UtcFields

\* The calendar's day and date are numbers.
LEMMA Numbers ==
    ASSUME IInv
    PROVE  /\ day \in Int /\ kJulianDayOf1970_01_01 \in Int /\ UtcDays \in Int
           /\ UtcDays + kJulianDayOf1970_01_01 = day
           /\ date.year \in Nat /\ date.month \in 1 .. 12 /\ date.day \in 1 .. 31
<1>1. Leaf(date) /\ day = DayOf(date)
  BY DEF IInv
<1>2. day \in Int
  BY <1>1, DayIsInt
<1>3. kJulianDayOf1970_01_01 \in Int
  BY SMT DEF kJulianDayOf1970_01_01, getJulianDayNumber
<1>4. UtcDays \in Int /\ UtcDays + kJulianDayOf1970_01_01 = day
  BY <1>2, <1>3, SMT DEF UtcDays
<1>5. date.year \in Nat /\ date.month \in 1 .. 12 /\ date.day \in 1 .. DaysOfMonth(date.year, date.month)
  BY <1>1, Zenon DEF Leaf
<1> DEFINE m == DaysOfMonth(date.year, date.month)
<1>7. m \in 28 .. 31 /\ date.day \in 1 .. m
  BY <1>5, MonthLengths
<1> HIDE DEF m
<1>8. date.day \in 1 .. 31
  <2>1. m \in Int /\ m <= 31
    BY <1>7
  <2> QED  BY <1>7, <2>1, SMT
<1> QED  BY <1>2, <1>3, <1>4, <1>5, <1>8

\* The conversion of a second of the day, and back.
LEMMA UtcOf ==
    ASSUME IInv, NEW x \in Nat, x < kSecondsPerDay
    PROVE  UtcRight(UtcFields(UtcDays, x), x)
<1> DEFINE tm == UtcFields(UtcDays, x)
           hms == fillHMS(x)
<1>1. getYearMonthDay(day) = date /\ getJulianDayNumber(date.year, date.month, date.day) = day
      /\ weekDay(day) = (day - KnownSunday) % 7
  BY IInvAgrees, Zenon DEF CalendarAgrees
<1>2. /\ tm.year = date.year /\ tm.mon = date.month /\ tm.mday = date.day
      /\ tm.wday = (day - KnownSunday) % 7
      /\ tm.yday = day - getJulianDayNumber(date.year, 1, 1)
  <2>1. UtcDays + kJulianDayOf1970_01_01 = day
    BY Numbers
  <2>2. /\ tm.year = getYearMonthDay(day).year /\ tm.mon = getYearMonthDay(day).month
        /\ tm.mday = getYearMonthDay(day).day /\ tm.wday = weekDay(day)
        /\ tm.yday = day - getJulianDayNumber(getYearMonthDay(day).year, 1, 1)
    BY <2>1, DateFields, Zenon
  <2> HIDE DEF tm
  <2> QED  BY <1>1, <2>2, Zenon
<1>3. tm.hour = hms.hour /\ tm.min = hms.min /\ tm.sec = hms.sec
  BY TimeFields, Zenon
<1>4. /\ hms.hour \in 0 .. 23 /\ hms.min \in 0 .. 59 /\ hms.sec \in 0 .. 59
      /\ hms.hour * 3600 + hms.min * 60 + hms.sec = x
  BY HmsOf
<1> HIDE DEF tm, hms
<1>5. /\ tm.hour \in 0 .. 23 /\ tm.min \in 0 .. 59 /\ tm.sec \in 0 .. 59
      /\ tm.hour * 3600 + tm.min * 60 + tm.sec = x
  BY <1>3, <1>4
<1>6. tm.yday \in DaysOfYear /\ (tm.yday = 0 <=> date.month = 1 /\ date.day = 1)
  <2> DEFINE year == date.year
             month == date.month
             mday == date.day
             n == getJulianDayNumber(year, month, mday) - getJulianDayNumber(year, 1, 1)
  <2>1. year \in Nat /\ month \in 1 .. 12 /\ mday \in 1 .. 31
    BY Numbers
  <2>2. n \in DaysOfYear /\ (n = 0 <=> month = 1 /\ mday = 1)
    <3> HIDE DEF year, month, mday
    <3> QED  BY <2>1, DayOfTheYear
  <2>3. tm.yday = n
    BY <1>1, <1>2, Zenon
  <2> HIDE DEF n
  <2> QED  BY <2>2, <2>3, Zenon
<1>7. fromUtcTime(tm) = UtcDays * kSecondsPerDay + x
  <2> DEFINE D == UtcDays * kSecondsPerDay
             h == tm.hour
             m == tm.min
             c == tm.sec
  <2>1. D \in Int
    BY Numbers, DayLength, SMT
  <2>2. getJulianDayNumber(tm.year, tm.mon, tm.mday) = day
    BY <1>1, <1>2, Zenon
  <2>6. (getJulianDayNumber(tm.year, tm.mon, tm.mday) - kJulianDayOf1970_01_01) * kSecondsPerDay = D
    BY <2>2, Zenon DEF UtcDays
  <2>4. h \in 0 .. 23 /\ m \in 0 .. 59 /\ c \in 0 .. 59 /\ h * 3600 + m * 60 + c = x
    BY <1>5, SMT
  <2> HIDE DEF D
  <2>3. fromUtcTime(tm) = D + h * 3600 + m * 60 + c
    BY <2>6, SMT DEF fromUtcTime
  <2> HIDE DEF h, m, c
  <2>5. D + h * 3600 + m * 60 + c = D + x
    BY <2>1, <2>4, SMT
  <2> QED  BY <2>3, <2>5, SMT DEF D
<1>8. [year |-> tm.year, month |-> tm.mon, day |-> tm.mday] = date
  <2>1. date = [year |-> date.year, month |-> date.month, day |-> date.day]
    BY Zenon DEF IInv, Leaf
  <2> QED  BY <1>2, <2>1, Zenon
<1>9. UtcRight(tm, x)
  BY <1>2, <1>5, <1>6, <1>7, <1>8, SMT DEF UtcRight
<1> QED  BY <1>9, Zenon DEF tm

\* A time of any day is converted to the calendar's date, the time of the day,
\* the day of the week and of the year, before 1970 too, and back
\* (TimeZone.cpp:271-307).
THEOREM UtcIsTheCalendars == Spec => []UtcAgrees
<1>1. ASSUME IInv PROVE UtcAgrees
  <2>1. UtcDays \in Int
    BY <1>1, Numbers
  <2>2. ASSUME NEW s \in {0, Stride - 1}
        PROVE  UtcRight(toUtcTime(Time + s), sec + s) /\ Time + s = UtcDays * kSecondsPerDay + (sec + s)
    <3> DEFINE x == sec + s
    <3>1. s \in 0 .. Stride - 1 /\ sec \in Nat
      BY <1>1, <2>2, StepsFit, SMT DEF IInv
    <3>4. x \in Nat /\ x \in Int /\ 0 <= x /\ x < kSecondsPerDay
      BY <1>1, <3>1, StepsFit, DayLength, SMT
    <3>2. Time = UtcDays * kSecondsPerDay + sec
      BY Zenon DEF Time, UtcDays
    <3>3. Time + s = UtcDays * kSecondsPerDay + x
      BY <1>1, <2>1, <3>1, <3>2, StepsFit, DayLength, SMT
    <3> HIDE DEF x
    <3>5. toUtcTime(UtcDays * kSecondsPerDay + x) = UtcFields(UtcDays, x)
      BY <2>1, <3>4, UtcTimeIs
    <3>6. UtcRight(UtcFields(UtcDays, x), x)
      BY <1>1, <3>4, UtcOf
    <3> QED  BY <3>3, <3>5, <3>6, Zenon DEF x
  <2> QED  BY <2>2, SMTT(30) DEF UtcAgrees, UtcRight, DaysOfYear
<1> QED  BY <1>1, WalkKeeps, PTL
-----------------------------------------------------------------------------
(* The types of a zone file, by its transitions.                           *)

\* The keys up to k are not after key, those behind k are.
Divides(keys, n, k, key) ==
    /\ k \in 0 .. n
    /\ \A i \in 1 .. k : keys[i] <= key
    /\ \A i \in (k + 1) .. n : key < keys[i]

Rising(keys, n) ==
    /\ \A i \in 1 .. n : keys[i] \in Int
    /\ \A i, j \in 1 .. n : i < j => keys[i] < keys[j]

LEMMA DivideExists ==
    ASSUME NEW n \in Nat, NEW keys, Rising(keys, n), NEW key \in Int
    PROVE  \E k \in 0 .. n : Divides(keys, n, k, key)
<1> DEFINE T == {m \in 0 .. n : \E k \in 0 .. m : Divides(keys, m, k, key)}
<1>1. 0 \in T
  <2>1. Divides(keys, 0, 0, key)
    BY SMT DEF Divides
  <2> QED  BY <2>1, SMT
<1>2. ASSUME NEW m \in 0 .. (n - 1), m \in T
      PROVE  m + 1 \in T
  <2>1. PICK k \in 0 .. m : Divides(keys, m, k, key)
    BY <1>2
  <2>2. /\ m + 1 \in 0 .. n /\ m + 1 \in 1 .. n /\ m \in Nat /\ k \in 0 .. (m + 1) /\ m + 1 \in 0 .. (m + 1)
        /\ keys[m + 1] \in Int
    BY SMT DEF Rising
  <2>3. CASE keys[m + 1] <= key
    <3>1. ASSUME NEW i \in 1 .. (m + 1) PROVE keys[i] <= key
      <4>1. CASE i = m + 1
        BY <2>3, <4>1
      <4>2. CASE i # m + 1
        <5>1. i \in 1 .. n /\ i < m + 1 /\ m + 1 \in 1 .. n
          BY <2>2, <4>2, SMT
        <5>2. keys[i] < keys[m + 1] /\ keys[i] \in Int
          BY <5>1, SMT DEF Rising
        <5> QED  BY <2>2, <2>3, <5>2, SMT
      <4> QED  BY <4>1, <4>2
    <3>2. Divides(keys, m + 1, m + 1, key)
      BY <2>2, <3>1, SMT DEF Divides
    <3> QED  BY <2>2, <3>2
  <2>4. CASE key < keys[m + 1]
    <3>1. ASSUME NEW i \in (k + 1) .. (m + 1) PROVE key < keys[i]
      <4>1. i = m + 1 \/ i \in (k + 1) .. m
        BY <2>2, SMT
      <4>2. CASE i \in (k + 1) .. m
        BY <2>1, <4>2 DEF Divides
      <4> QED  BY <2>4, <4>1, <4>2
    <3>2. Divides(keys, m + 1, k, key)
      BY <2>1, <2>2, <3>1, Zenon DEF Divides
    <3> QED  BY <2>2, <3>2
  <2> QED  BY <2>2, <2>3, <2>4, SMT
<1> HIDE DEF T
<1>3. 0 .. n \subseteq T
  BY <1>1, <1>2, InductionUpTo
<1>4. n \in 0 .. n
  BY SMT
<1>5. n \in T
  BY <1>3, <1>4
<1> QED  BY <1>5, Zenon DEF T

\* std::lower_bound finds the place, whatever is there.
LEMMA LowerBoundIs ==
    ASSUME NEW keys, Len(keys) \in Nat, \A i \in 1 .. Len(keys) : keys[i] \in Int, NEW key \in Int,
           NEW p \in 1 .. Len(keys) + 1,
           \A j \in 1 .. p - 1 : keys[j] < key,
           p <= Len(keys) => keys[p] >= key
    PROVE  LowerBound(keys, key) = p
<1> DEFINE n == Len(keys)
           Is(i) == /\ \A j \in 1 .. i - 1 : keys[j] < key
                    /\ i <= n => keys[i] >= key
           q == CHOOSE i \in 1 .. n + 1 : Is(i)
<1>1. LowerBound(keys, key) = q
  BY Zenon DEF LowerBound
<1>2. Is(p) /\ p \in 1 .. n + 1
  OBVIOUS
<1>3. q \in 1 .. n + 1 /\ Is(q)
  BY <1>2, Zenon
<1> HIDE DEF q
<1>4. ASSUME q < p PROVE FALSE
  <2>1. q \in 1 .. p - 1 /\ q \in 1 .. n /\ q <= n
    BY <1>3, <1>4, SMT
  <2>2. keys[q] < key /\ keys[q] >= key /\ keys[q] \in Int
    BY <1>2, <1>3, <2>1
  <2> QED  BY <2>2, SMT
<1>5. ASSUME p < q PROVE FALSE
  <2>1. p \in 1 .. q - 1 /\ p \in 1 .. n /\ p <= n
    BY <1>3, <1>5, SMT
  <2>2. keys[p] < key /\ keys[p] >= key /\ keys[p] \in Int
    BY <1>2, <1>3, <2>1
  <2> QED  BY <2>2, SMT
<1>6. q = p
  <2>1. q \in Int /\ p \in Int
    BY <1>3, SMT
  <2> QED  BY <1>4, <1>5, <2>1, SMT
<1> QED  BY <1>1, <1>6

\* The type of a zone after k of its transitions.
TypeAfter(d, k) ==
    IF k = 0 THEN d.localtimes[1] ELSE d.localtimes[d.transitions[k].localtimeIdx]

\* What is found is the type after the last transition that is not later.
LEMMA FoundIs ==
    ASSUME NEW d, NEW keys, Len(keys) \in Nat, Rising(keys, Len(keys)), NEW key \in Int,
           NEW k, Divides(keys, Len(keys), k, key)
    PROVE  findLocaltime(d, keys, key) = TypeAfter(d, k)
<1> DEFINE n == Len(keys)
           b == LowerBound(keys, key)
           found == IF b > n THEN n ELSE IF keys[b] = key THEN b ELSE b - 1
<1>1. findLocaltime(d, keys, key) =
          IF n = 0 \/ key < keys[1] THEN d.localtimes[1]
          ELSE d.localtimes[d.transitions[found].localtimeIdx]
  BY Zenon DEF findLocaltime
<1>2. /\ n \in Nat /\ k \in 0 .. n
      /\ \A i \in 1 .. n : keys[i] \in Int
      /\ \A i \in 1 .. k : keys[i] <= key
      /\ \A i \in (k + 1) .. n : key < keys[i]
      /\ \A i, j \in 1 .. n : i < j => keys[i] < keys[j]
  BY DEF Rising, Divides
<1>3. CASE k = 0
  <2>1. n = 0 \/ key < keys[1]
    <3>1. n = 0 \/ 1 \in (k + 1) .. n
      BY <1>2, <1>3, SMT
    <3> QED  BY <1>2, <3>1, Zenon
  <2> QED  BY <1>1, <1>3, <2>1, Zenon DEF TypeAfter
<1>4. CASE k # 0
  <2>1. k \in 1 .. n /\ 1 \in 1 .. k /\ k \in Int /\ n \in Int /\ 1 \in 1 .. n
    BY <1>2, <1>4, SMT
  <2>2. ~(n = 0 \/ key < keys[1])
    <3>1. keys[1] <= key /\ keys[1] \in Int
      BY <1>2, <2>1
    <3> QED  BY <2>1, <3>1, SMT
  <2>3. found = k
    <3>1. keys[k] \in Int /\ keys[k] <= key
      <4>1. k \in 1 .. k
        BY <2>1, SMT
      <4> QED  BY <1>2, <2>1, <4>1
    <3>2. CASE keys[k] = key
      <4>1. k \in 1 .. n + 1 /\ (k <= n => keys[k] >= key)
        BY <2>1, <3>1, <3>2, SMT
      <4>2. ASSUME NEW j \in 1 .. k - 1 PROVE keys[j] < key
        <5>1. j \in 1 .. n /\ j < k
          BY <2>1, SMT
        <5> QED  BY <1>2, <2>1, <3>2, <5>1
      <4>3. b = k
        BY <1>2, <4>1, <4>2, LowerBoundIs
      <4> HIDE DEF b
      <4>4. ~(b > n)
        BY <2>1, <4>3, SMT
      <4> QED  BY <3>2, <4>3, <4>4, Zenon
    <3>3. CASE keys[k] # key
      <4>1. k + 1 \in 1 .. n + 1 /\ k + 1 - 1 = k
        BY <2>1, SMT
      <4>2. k + 1 <= n => keys[k + 1] > key /\ keys[k + 1] >= key /\ keys[k + 1] # key
        <5>1. k + 1 <= n => k + 1 \in (k + 1) .. n /\ k + 1 \in 1 .. n
          BY <2>1, SMT
        <5>2. k + 1 <= n => key < keys[k + 1] /\ keys[k + 1] \in Int
          BY <1>2, <5>1, Zenon
        <5> QED  BY <5>2, SMT
      <4>3. ASSUME NEW j \in 1 .. (k + 1) - 1 PROVE keys[j] < key
        <5>1. j \in 1 .. k
          BY <2>1, SMT
        <5>2. keys[j] <= key /\ keys[j] \in Int
          <6>1. j \in 1 .. n
            BY <2>1, <5>1, SMT
          <6> QED  BY <1>2, <5>1, <6>1
        <5>3. CASE j = k
          BY <3>1, <3>3, <5>3, SMT
        <5>4. CASE j # k
          <6>1. j \in 1 .. n /\ j < k
            BY <2>1, <5>1, <5>4, SMT
          <6>2. keys[j] < keys[k]
            BY <1>2, <2>1, <6>1
          <6> QED  BY <3>1, <5>2, <6>2, SMT
        <5> QED  BY <5>3, <5>4
      <4>4. b = k + 1
        BY <1>2, <4>1, <4>2, <4>3, LowerBoundIs
      <4> HIDE DEF b
      <4>5. b > n => k = n
        BY <2>1, <4>4, SMT
      <4>6. ~(b > n) => keys[b] # key /\ b - 1 = k
        <5>1. ~(b > n) => k + 1 <= n
          BY <2>1, <4>4, SMT
        <5>2. ~(b > n) => keys[k + 1] # key
          BY <4>2, <5>1, Zenon
        <5>3. b - 1 = k
          BY <2>1, <4>4, SMT
        <5> QED  BY <4>4, <5>2, <5>3, Zenon
      <4> QED  BY <4>5, <4>6, Zenon
    <3> QED  BY <3>2, <3>3
  <2> HIDE DEF found
  <2> QED  BY <1>1, <1>4, <2>2, <2>3, Zenon DEF TypeAfter
<1> QED  BY <1>3, <1>4

\* The numbers of a zone: their types, and that its transitions are further
\* apart than its offsets.
Changes == Len(data.transitions)
Gmt(i)  == data.transitions[i].gmttime
Offset(k) == TypeAfter(data, k).gmtOffset

ZoneOK ==
    /\ Changes \in Nat /\ DOMAIN data.transitions = 1 .. Changes
    /\ \A k \in 0 .. Changes : Offset(k) \in Int32 /\ TypeAfter(data, k).isDst \in BOOLEAN
    /\ \A i \in 1 .. Changes :
          /\ Gmt(i) \in Int
          /\ data.transitions[i].localtime = Gmt(i) + Offset(i)
    /\ \A i, j \in 1 .. Changes : i < j =>
          \A a, b \in 0 .. Changes : Offset(a) - Offset(b) < Gmt(j) - Gmt(i)

LEMMA Int32Bounds ==
    ASSUME NEW x \in Int32
    PROVE  x \in Int /\ -2147483648 <= x /\ x <= 2147483647
<1>1. MinInt32 = -2147483648 /\ MaxInt32 = 2147483647
  BY SMT DEF MinInt32, MaxInt32
<1>2. MinInt32 \in Int /\ MaxInt32 \in Int
  BY <1>1, SMT
<1>3. x \in Int /\ MinInt32 <= x /\ x <= MaxInt32
  BY <1>2, SMT DEF Int32
<1> QED  BY <1>1, <1>3, SMT

\* A zone file is read into such a zone, the one that ends early too.
LEMMA ZoneIs == span \in Spans => ZoneOK
<1> SUFFICES ASSUME span \in Spans PROVE ZoneOK
  OBVIOUS
<1> DEFINE f == span.file
           t == f.trans
           x == f.idx
           y == f.types
           r == f.read
           TypeSet == [gmtOffset : Int32, isDst : BOOLEAN]
<1>1. /\ t \in Seq(Int32) /\ x \in Seq(Nat) /\ y \in Seq(TypeSet)
      /\ \A i, j \in DOMAIN t : i < j =>
            \A a, b \in DOMAIN y : y[a].gmtOffset - y[b].gmtOffset < t[j] - t[i]
  BY ZoneAssumption
<1>2. /\ Len(t) = Len(x) /\ \A i \in DOMAIN x : x[i] \in DOMAIN y
      /\ r \in 1 .. Len(y)
  BY SpansAssumption
<1>3. /\ data.localtimes = SubSeq(y, 1, r)
      /\ data.transitions = IF r < Len(y) THEN << >>
                            ELSE [i \in DOMAIN t |-> [gmttime |-> t[i], localtime |-> t[i] + y[x[i]].gmtOffset,
                                                      localtimeIdx |-> x[i]]]
  BY DEF data, readTimeZoneFile
<1> HIDE DEF f, TypeSet
<1>4. /\ Len(t) \in Nat /\ DOMAIN t = 1 .. Len(t) /\ DOMAIN x = 1 .. Len(t)
      /\ Len(y) \in Nat /\ DOMAIN y = 1 .. Len(y) /\ r \in Nat /\ 1 <= r /\ r <= Len(y)
      /\ 1 \in 1 .. Len(y)
  BY <1>1, <1>2, SMT
<1>13. \A a \in 1 .. Len(y) : y[a] \in TypeSet
  BY <1>1
<1> DEFINE Y(k) == IF k = 0 THEN y[1] ELSE y[x[k]]
<1>5. \A k \in 1 .. r : data.localtimes[k] = y[k]
  <2> DEFINE l == Len(y)
             z == SubSeq(y, 1, r)
  <2>1. \A k \in 1 .. r : z[k] = y[k]
    BY <1>1, <1>4
  <2> QED  BY <1>3, <2>1
<1> DEFINE n == IF r < Len(y) THEN 0 ELSE Len(t)
<1>6. Changes = n /\ DOMAIN data.transitions = 1 .. n /\ n \in Nat
  <2>1. CASE r < Len(y)
    <3>1. data.transitions = << >> /\ n = 0
      BY <1>3, <2>1
    <3>2. Len(<< >>) = 0 /\ DOMAIN << >> = 1 .. 0
      OBVIOUS
    <3> QED  BY <3>1, <3>2, SMT DEF Changes
  <2>2. CASE ~(r < Len(y))
    <3> DEFINE s == [i \in 1 .. Len(t) |-> [gmttime |-> t[i], localtime |-> t[i] + y[x[i]].gmtOffset,
                                            localtimeIdx |-> x[i]]]
    <3>1. data.transitions = s /\ n = Len(t)
      BY <1>3, <1>4, <2>2
    <3>2. DOMAIN s = 1 .. Len(t) /\ Len(s) = Len(t)
      BY <1>4
    <3> HIDE DEF s
    <3> QED  BY <1>4, <3>1, <3>2 DEF Changes
  <2> QED  BY <2>1, <2>2
<1>7. \A i \in 1 .. n : /\ data.transitions[i].gmttime = t[i]
                        /\ data.transitions[i].localtime = t[i] + y[x[i]].gmtOffset
                        /\ data.transitions[i].localtimeIdx = x[i]
                        /\ x[i] \in 1 .. Len(y) /\ i \in 1 .. Len(t) /\ r = Len(y)
  <2> SUFFICES ASSUME NEW i \in 1 .. n
               PROVE  /\ data.transitions[i].gmttime = t[i]
                      /\ data.transitions[i].localtime = t[i] + y[x[i]].gmtOffset
                      /\ data.transitions[i].localtimeIdx = x[i]
                      /\ x[i] \in 1 .. Len(y) /\ i \in 1 .. Len(t) /\ r = Len(y)
    BY Zenon
  <2>1. ~(r < Len(y)) /\ i \in 1 .. Len(t) /\ r = Len(y)
    BY <1>4, SMT
  <2>2. x[i] \in 1 .. Len(y)
    BY <1>2, <1>4, <2>1
  <2> QED  BY <1>3, <1>4, <2>1, <2>2
<1> HIDE DEF n
<1>8. \A k \in 0 .. n : TypeAfter(data, k) = Y(k) /\ Y(k) \in TypeSet
  <2> SUFFICES ASSUME NEW k \in 0 .. n
               PROVE  TypeAfter(data, k) = Y(k) /\ Y(k) \in TypeSet
    BY Zenon
  <2>1. CASE k = 0
    <3>1. 1 \in 1 .. r /\ 1 \in 1 .. Len(y)
      BY <1>4, SMT
    <3>2. data.localtimes[1] = y[1] /\ y[1] \in TypeSet
      BY <1>5, <1>13, <3>1, Zenon
    <3> QED  BY <2>1, <3>2 DEF TypeAfter
  <2>2. CASE k # 0
    <3>1. k \in 1 .. n
      BY <1>6, <2>2, SMT
    <3>2. data.transitions[k].localtimeIdx = x[k] /\ x[k] \in 1 .. Len(y) /\ x[k] \in 1 .. r
      BY <1>7, <3>1
    <3>3. data.localtimes[x[k]] = y[x[k]] /\ y[x[k]] \in TypeSet
      BY <1>5, <1>13, <3>2, Zenon
    <3> QED  BY <2>2, <3>2, <3>3 DEF TypeAfter
  <2> QED  BY <2>1, <2>2
<1>9. \A k \in 0 .. n : Offset(k) = Y(k).gmtOffset /\ Offset(k) \in Int32
                        /\ TypeAfter(data, k).isDst \in BOOLEAN
  BY <1>8 DEF Offset, TypeSet
<1>10. \A k \in 0 .. n : \E a \in DOMAIN y : Offset(k) = y[a].gmtOffset
  <2> SUFFICES ASSUME NEW k \in 0 .. n PROVE \E a \in DOMAIN y : Offset(k) = y[a].gmtOffset
    BY Zenon
  <2>1. CASE k = 0
    BY <1>4, <1>9, <2>1
  <2>2. CASE k # 0
    <3>1. k \in 1 .. n
      BY <1>6, <2>2, SMT
    <3>2. x[k] \in DOMAIN y
      BY <1>4, <1>7, <3>1
    <3> QED  BY <1>9, <2>2, <3>2
  <2> QED  BY <2>1, <2>2
<1> HIDE DEF Y
<1>11. ASSUME NEW i \in 1 .. n
       PROVE  Gmt(i) = t[i] /\ Gmt(i) \in Int /\ data.transitions[i].localtime = Gmt(i) + Offset(i)
  <2>1. Gmt(i) = t[i] /\ i \in 1 .. Len(t)
    BY <1>7 DEF Gmt
  <2>2. t[i] \in Int32
    BY <1>1, <2>1
  <2>3. t[i] \in Int
    BY <2>2, Int32Bounds
  <2>4. i # 0 /\ i \in 0 .. n
    BY <1>6, SMT
  <2>5. Offset(i) = y[x[i]].gmtOffset
    BY <1>9, <2>4 DEF Y
  <2> QED  BY <1>7, <2>1, <2>3, <2>5
<1>12. ASSUME NEW i \in 1 .. n, NEW j \in 1 .. n, i < j, NEW a \in 0 .. n, NEW b \in 0 .. n
       PROVE  Offset(a) - Offset(b) < Gmt(j) - Gmt(i)
  <2>1. PICK c \in DOMAIN y : Offset(a) = y[c].gmtOffset
    BY <1>10
  <2>2. PICK e \in DOMAIN y : Offset(b) = y[e].gmtOffset
    BY <1>10
  <2>3. i \in DOMAIN t /\ j \in DOMAIN t
    BY <1>4, <1>7
  <2>4. y[c].gmtOffset - y[e].gmtOffset < t[j] - t[i]
    BY <1>1, <1>12, <2>1, <2>2, <2>3, Zenon
  <2> QED  BY <1>11, <2>1, <2>2, <2>4, Zenon
<1> QED  BY <1>6, <1>9, <1>11, <1>12 DEF ZoneOK

\* The times of the transitions, as findLocaltime compares them.
LEMMA KeysAre ==
    ASSUME ZoneOK
    PROVE  /\ Len(GmtTimes(data)) = Changes /\ Rising(GmtTimes(data), Changes)
           /\ \A i \in 1 .. Changes : GmtTimes(data)[i] = Gmt(i)
           /\ Len(LocalTimes(data)) = Changes /\ Rising(LocalTimes(data), Changes)
           /\ \A i \in 1 .. Changes : LocalTimes(data)[i] = Gmt(i) + Offset(i)
<1> DEFINE n == Changes
           g == GmtTimes(data)
           l == LocalTimes(data)
<1>1. /\ n \in Nat /\ DOMAIN data.transitions = 1 .. n
      /\ \A i \in 1 .. n : Gmt(i) \in Int /\ data.transitions[i].localtime = Gmt(i) + Offset(i)
      /\ \A i, j \in 1 .. n : i < j =>
            \A a, b \in 0 .. n : Offset(a) - Offset(b) < Gmt(j) - Gmt(i)
  BY Zenon DEF ZoneOK
<1>2. \A k \in 0 .. n : Offset(k) \in Int
  BY Int32Bounds DEF ZoneOK
<1>3. /\ g = [i \in 1 .. n |-> Gmt(i)]
      /\ l = [i \in 1 .. n |-> Gmt(i) + Offset(i)]
  <2>1. g = [i \in DOMAIN data.transitions |-> Gmt(i)]
    BY Zenon DEF GmtTimes, Gmt
  <2>2. l = [i \in DOMAIN data.transitions |-> data.transitions[i].localtime]
    BY Zenon DEF LocalTimes
  <2>3. l = [i \in 1 .. n |-> data.transitions[i].localtime]
    BY <1>1, <2>2, Zenon
  <2> QED  BY <1>1, <2>1, <2>3
<1> HIDE DEF g, l, n
<1>4. Len(g) = n /\ Len(l) = n
  BY <1>1, <1>3, SMT
<1>5. \A i \in 1 .. n : i \in 0 .. n
  BY <1>1, SMT
<1>6. \A i \in 1 .. n : g[i] = Gmt(i) /\ l[i] = Gmt(i) + Offset(i)
  BY <1>3, Zenon
<1>7. \A i \in 1 .. n : g[i] \in Int /\ l[i] \in Int
  BY <1>1, <1>2, <1>5, <1>6
<1>8. ASSUME NEW i \in 1 .. n, NEW j \in 1 .. n, i < j
      PROVE  g[i] < g[j] /\ l[i] < l[j]
  <2>1. /\ Offset(i) \in Int /\ Offset(j) \in Int /\ Gmt(i) \in Int /\ Gmt(j) \in Int
        /\ i \in 0 .. n /\ j \in 0 .. n
    BY <1>1, <1>2, <1>5
  <2>2. /\ Offset(i) - Offset(j) < Gmt(j) - Gmt(i) /\ Offset(i) - Offset(i) < Gmt(j) - Gmt(i)
    BY <1>1, <1>8, <2>1, Zenon
  <2>3. Gmt(i) < Gmt(j) /\ Gmt(i) + Offset(i) < Gmt(j) + Offset(j)
    BY <2>1, <2>2, SMT
  <2> QED  BY <1>6, <2>3
<1> QED  BY <1>4, <1>6, <1>7, <1>8 DEF Rising, g, l, n

\* A local time is looked up where it was made, or one transition later.
LEMMA LocalDivides ==
    ASSUME ZoneOK, NEW t \in Int, NEW k, Divides(GmtTimes(data), Changes, k, t)
    PROVE  LET L == t + Offset(k) IN
           \/ Divides(LocalTimes(data), Changes, k, L)
           \/ /\ k + 1 \in 1 .. Changes /\ t < Gmt(k + 1) /\ Gmt(k + 1) + Offset(k + 1) <= L
              /\ Divides(LocalTimes(data), Changes, k + 1, L)
<1> DEFINE n == Changes
           l == LocalTimes(data)
           L == t + Offset(k)
<1>1. /\ n \in Nat
      /\ \A i \in 1 .. n : Gmt(i) \in Int
      /\ \A i, j \in 1 .. n : i < j =>
            \A a, b \in 0 .. n : Offset(a) - Offset(b) < Gmt(j) - Gmt(i)
  BY Zenon DEF ZoneOK
<1>2. \A i \in 0 .. n : Offset(i) \in Int
  BY Int32Bounds DEF ZoneOK
<1>3. \A i \in 1 .. n : l[i] = Gmt(i) + Offset(i) /\ GmtTimes(data)[i] = Gmt(i)
  BY KeysAre
<1>4. k \in 0 .. n /\ k \in Int /\ Offset(k) \in Int /\ L \in Int
  BY <1>1, <1>2 DEF Divides
<1>5. /\ \A i \in 1 .. k : GmtTimes(data)[i] <= t
      /\ \A i \in (k + 1) .. n : t < GmtTimes(data)[i]
  BY DEF Divides
<1>6. ASSUME NEW i \in 1 .. k
      PROVE  l[i] <= L
  <2>1. i \in 1 .. n /\ i \in 0 .. n /\ k \in 1 .. n /\ k \in 1 .. k
    BY <1>1, <1>4, SMT
  <2>2. Gmt(i) \in Int /\ Gmt(k) \in Int /\ Offset(i) \in Int /\ Gmt(k) <= t
    BY <1>1, <1>2, <1>3, <1>5, <2>1
  <2>3. CASE i = k
    <3>1. Gmt(k) + Offset(k) <= t + Offset(k)
      BY <1>4, <2>2, SMT
    <3> QED  BY <1>3, <2>1, <2>3, <3>1
  <2>4. CASE i # k
    <3>1. i < k
      BY <1>4, <2>4, SMT
    <3>2. Offset(i) - Offset(k) < Gmt(k) - Gmt(i)
      BY <1>1, <1>4, <2>1, <3>1, Zenon
    <3>3. Gmt(i) + Offset(i) <= t + Offset(k)
      BY <1>4, <2>2, <3>2, SMT
    <3> QED  BY <1>3, <2>1, <3>3
  <2> QED  BY <2>3, <2>4
<1>7. ASSUME NEW i \in (k + 2) .. n
      PROVE  L < l[i]
  <2>1. /\ i \in 1 .. n /\ i \in 0 .. n /\ k + 1 \in 1 .. n /\ k + 1 \in (k + 1) .. n /\ k + 1 < i
    BY <1>1, <1>4, SMT
  <2>2. Gmt(i) \in Int /\ Gmt(k + 1) \in Int /\ Offset(i) \in Int /\ t < Gmt(k + 1)
    BY <1>1, <1>2, <1>3, <1>5, <2>1
  <2>3. Offset(k) - Offset(i) < Gmt(i) - Gmt(k + 1)
    BY <1>1, <1>4, <2>1, Zenon
  <2>4. t + Offset(k) < Gmt(i) + Offset(i)
    BY <1>4, <2>2, <2>3, SMT
  <2> QED  BY <1>3, <2>1, <2>4
<1> HIDE DEF n, l
<1>8. CASE k + 1 \in 1 .. n /\ Gmt(k + 1) + Offset(k + 1) <= L
  <2>1. k + 1 \in (k + 1) .. n /\ k + 1 \in 0 .. n
    BY <1>1, <1>4, <1>8, SMT
  <2>2. t < Gmt(k + 1)
    BY <1>3, <1>5, <1>8, <2>1
  <2>3. \A i \in 1 .. k + 1 : i \in 1 .. k \/ i = k + 1
    BY <1>4, SMT
  <2>4. \A i \in 1 .. k + 1 : l[i] <= L
    BY <1>3, <1>6, <1>8, <2>3, Zenon
  <2>5. (k + 1) + 1 = k + 2
    BY <1>4, SMT
  <2>6. \A i \in (k + 1) + 1 .. n : L < l[i]
    BY <1>7, <2>5
  <2> HIDE DEF L
  <2>7. Divides(l, n, k + 1, L)
    BY <2>1, <2>4, <2>6, Zenon DEF Divides
  <2> QED  BY <1>8, <2>2, <2>7, Zenon DEF n, l, L
<1>9. CASE ~(k + 1 \in 1 .. n /\ Gmt(k + 1) + Offset(k + 1) <= L)
  <2>1. ASSUME NEW i \in k + 1 .. n PROVE L < l[i]
    <3>1. i \in k + 2 .. n \/ i = k + 1
      BY <1>4, SMT
    <3>2. CASE i = k + 1
      <4>1. k + 1 \in 1 .. n /\ k + 1 \in 0 .. n
        BY <1>1, <1>4, <3>2, SMT
      <4>2. l[k + 1] = Gmt(k + 1) + Offset(k + 1) /\ Gmt(k + 1) \in Int /\ Offset(k + 1) \in Int
        BY <1>1, <1>2, <1>3, <4>1
      <4>3. ~(Gmt(k + 1) + Offset(k + 1) <= L)
        BY <1>9, <4>1
      <4>4. L < Gmt(k + 1) + Offset(k + 1)
        BY <1>4, <4>2, <4>3, SMT
      <4> QED  BY <3>2, <4>2, <4>4
    <3> QED  BY <1>7, <3>1, <3>2
  <2> HIDE DEF L
  <2>2. Divides(l, n, k, L)
    BY <1>4, <1>6, <2>1, Zenon DEF Divides
  <2> QED  BY <2>2, Zenon DEF n, l, L
<1> QED  BY <1>8, <1>9

\* A time that is not before the first day that is numbered.
Datable(L) ==
    \E d \in Int, x \in Nat : /\ x < kSecondsPerDay
                              /\ L = d * kSecondsPerDay + x
                              /\ d + kJulianDayOf1970_01_01 \in Nat

\* Such a time is converted and back, whatever the calendar says of it.
LEMMA RoundTrip ==
    ASSUME NEW L, Datable(L)
    PROVE  timegm(gmtime_r(L)) = L
<1>1. PICK d \in Int, x \in Nat : /\ x < kSecondsPerDay
                                  /\ L = d * kSecondsPerDay + x
                                  /\ d + kJulianDayOf1970_01_01 \in Nat
  BY DEF Datable
<1> DEFINE tm == UtcFields(d, x)
           j == d + kJulianDayOf1970_01_01
           ymd == getYearMonthDay(j)
           D == d * kSecondsPerDay
<1>2. toUtcTime(L) = tm
  <2>1. x \in Int /\ 0 <= x
    BY SMT
  <2> QED  BY <1>1, <2>1, UtcTimeIs
<1>3. tm.year = ymd.year /\ tm.mon = ymd.month /\ tm.mday = ymd.day
  BY DateFields, Zenon
<1>4. getJulianDayNumber(ymd.year, ymd.month, ymd.day) = j
  BY <1>1, DayOfDate, Zenon
<1>5. tm.hour = fillHMS(x).hour /\ tm.min = fillHMS(x).min /\ tm.sec = fillHMS(x).sec
  BY TimeFields, Zenon
<1>6. /\ fillHMS(x).hour \in 0 .. 23 /\ fillHMS(x).min \in 0 .. 59 /\ fillHMS(x).sec \in 0 .. 59
      /\ fillHMS(x).hour * 3600 + fillHMS(x).min * 60 + fillHMS(x).sec = x
  BY <1>1, HmsOf
<1> HIDE DEF tm, ymd
<1>7. getJulianDayNumber(tm.year, tm.mon, tm.mday) = j
  BY <1>3, <1>4, Zenon
<1>8. j - kJulianDayOf1970_01_01 = d
  <2>1. kJulianDayOf1970_01_01 \in Int
    BY SMT DEF kJulianDayOf1970_01_01, getJulianDayNumber
  <2> QED  BY <2>1, SMT
<1>9. (getJulianDayNumber(tm.year, tm.mon, tm.mday) - kJulianDayOf1970_01_01) * kSecondsPerDay = D
  BY <1>7, <1>8, Zenon
<1>10. D \in Int
  BY DayLength, SMT
<1> HIDE DEF D, j
<1> DEFINE h == tm.hour
           m == tm.min
           c == tm.sec
<1>11. h \in 0 .. 23 /\ m \in 0 .. 59 /\ c \in 0 .. 59 /\ h * 3600 + m * 60 + c = x
  BY <1>5, <1>6
<1> HIDE DEF h, m, c
<1>12. fromUtcTime(tm) = D + h * 3600 + m * 60 + c
  BY <1>9, SMT DEF fromUtcTime, h, m, c
<1>13. D + h * 3600 + m * 60 + c = D + x
  BY <1>10, <1>11, SMT
<1>14. L = D + x
  BY <1>1, Zenon DEF D
<1>15. fromUtcTime(tm) = L
  BY <1>12, <1>13, <1>14, SMT
<1>16. fromUtcTime(toUtcTime(L)) = L
  BY <1>2, <1>15, Zenon
<1> QED  BY <1>16, Zenon DEF timegm, gmtime_r

\* The local time of a time, by the transitions before it.
LEMMA LocalIs ==
    ASSUME ZoneOK, NEW t \in Int, NEW k, Divides(GmtTimes(data), Changes, k, t)
    PROVE  /\ toLocalTime(data, t).tm = gmtime_r(t + Offset(k))
           /\ toLocalTime(data, t).isdst = TypeAfter(data, k).isDst
<1>1. findLocaltime(data, GmtTimes(data), t) = TypeAfter(data, k)
  <2>1. Len(GmtTimes(data)) = Changes /\ Rising(GmtTimes(data), Changes) /\ Changes \in Nat
    BY KeysAre DEF ZoneOK
  <2> QED  BY <2>1, FoundIs
<1> DEFINE local == findLocaltime(data, GmtTimes(data), t)
<1>2. toLocalTime(data, t) = [tm |-> gmtime_r(t + local.gmtOffset), isdst |-> local.isDst]
  BY Zenon DEF toLocalTime
<1> HIDE DEF local
<1>3. toLocalTime(data, t).tm = gmtime_r(t + local.gmtOffset) /\ toLocalTime(data, t).isdst = local.isDst
  BY <1>2
<1> QED  BY <1>1, <1>3, Zenon DEF local, Offset

\* What fromLocalTime makes of seconds of local time, at an offset o.
Hack(lt, try) == /\ lt.isdst
                 /\ ~try.isdst
                 /\ try.tm.hour = lt.tm.hour
                 /\ try.tm.min = lt.tm.min
Back(lt, L, o) == (IF Hack(lt, toLocalTime(data, L - o)) THEN L - 3600 ELSE L) - o

LEMMA FromIs ==
    ASSUME ZoneOK, NEW lt, NEW L \in Int, timegm(lt.tm) = L,
           NEW j, Divides(LocalTimes(data), Changes, j, L)
    PROVE  fromLocalTime(data, lt) = Back(lt, L, Offset(j))
<1> DEFINE seconds == timegm(lt.tm)
           local == findLocaltime(data, LocalTimes(data), seconds)
<1>1. findLocaltime(data, LocalTimes(data), L) = TypeAfter(data, j)
  <2>1. Len(LocalTimes(data)) = Changes /\ Rising(LocalTimes(data), Changes) /\ Changes \in Nat
    BY KeysAre DEF ZoneOK
  <2> QED  BY <2>1, FoundIs
<1>2. fromLocalTime(data, lt) = Back(lt, seconds, local.gmtOffset)
  BY Zenon DEF fromLocalTime, Back, Hack
<1>3. local.gmtOffset = Offset(j)
  BY <1>1, Zenon DEF Offset
<1>4. seconds = L
  OBVIOUS
<1> HIDE DEF seconds, local
<1> QED  BY <1>2, <1>3, <1>4, Zenon

Summer(L) == L - 3600

LEMMA BackIs ==
    ASSUME NEW lt, NEW L, NEW o
    PROVE  Back(lt, L, o) = (IF Hack(lt, toLocalTime(data, L - o)) THEN Summer(L) ELSE L) - o
  BY SMT DEF Back, Summer

LEMMA BackPlain ==
    ASSUME NEW lt, NEW L, NEW o, ~Hack(lt, toLocalTime(data, L - o))
    PROVE  Back(lt, L, o) = L - o
  BY BackIs, Zenon

LEMMA BackHacked ==
    ASSUME NEW lt, NEW L, NEW o, Hack(lt, toLocalTime(data, L - o))
    PROVE  Back(lt, L, o) = Summer(L) - o
  BY BackIs, Zenon

\* A time t of the k-th type is found again, unless it comes twice and not by an
\* hour of summer time.
LEMMA Returns ==
    ASSUME ZoneOK, NEW t \in Int, \A k \in 0 .. Changes : Datable(t + Offset(k))
    PROVE  \/ fromLocalTime(data, toLocalTime(data, t)) = t
           \/ \E i \in DOMAIN data.transitions :
                 Repeated(i, t).in /\ ~Repeated(i, t).anHourOfSummer
<1> DEFINE n == Changes
           lt == toLocalTime(data, t)
<1>1. /\ n \in Nat /\ DOMAIN data.transitions = 1 .. n
      /\ \A i \in 1 .. n : Gmt(i) \in Int
      /\ \A k \in 0 .. n : TypeAfter(data, k).isDst \in BOOLEAN
      /\ \A i, j \in 1 .. n : i < j =>
            \A a, b \in 0 .. n : Offset(a) - Offset(b) < Gmt(j) - Gmt(i)
  BY Zenon DEF ZoneOK
<1>2. \A i \in 0 .. n : Offset(i) \in Int
  BY Int32Bounds DEF ZoneOK
<1>3. PICK k \in 0 .. n : Divides(GmtTimes(data), n, k, t)
  BY <1>1, KeysAre, DivideExists
<1> DEFINE L == t + Offset(k)
<1>4. Offset(k) \in Int /\ L \in Int /\ k \in Int
  BY <1>1, <1>2
<1>5. lt.tm = gmtime_r(L) /\ lt.isdst = TypeAfter(data, k).isDst
  BY <1>3, LocalIs
<1>6. timegm(lt.tm) = L
  <2>1. timegm(gmtime_r(L)) = L
    BY <1>3, RoundTrip
  <2> QED  BY <1>5, <2>1, Zenon
<1> HIDE DEF lt, n
<1>7. CASE Divides(LocalTimes(data), n, k, L)
  <2>1. L - Offset(k) = t
    BY <1>4, SMT
  <2> DEFINE o == Offset(k)
  <2>2. fromLocalTime(data, lt) = Back(lt, L, o)
    <3> HIDE DEF L
    <3> QED  BY <1>4, <1>6, <1>7, FromIs, Zenon DEF n
  <2>3. L - o = t
    BY <2>1
  <2> HIDE DEF L, o
  <2>4. toLocalTime(data, L - o) = lt
    BY <2>3, Zenon DEF lt
  <2>5. ~Hack(lt, lt)
    BY Zenon DEF Hack
  <2>6. Back(lt, L, o) = L - o
    <3>1. ~Hack(lt, toLocalTime(data, L - o))
      BY <2>4, <2>5, Zenon
    <3> QED  BY <3>1, BackPlain, Zenon
  <2>7. fromLocalTime(data, lt) = t
    BY <2>2, <2>3, <2>6, Zenon
  <2> QED  BY <2>7, Zenon DEF lt
<1>8. CASE /\ k + 1 \in 1 .. n /\ t < Gmt(k + 1) /\ Gmt(k + 1) + Offset(k + 1) <= L
           /\ Divides(LocalTimes(data), n, k + 1, L)
  <2> DEFINE i == k + 1
             again == Offset(k) - Offset(i)
             hour == again = 3600
  <2>1. i \in 1 .. n /\ i \in 0 .. n /\ i - 1 = k /\ (i = 1 <=> k = 0) /\ i \in Int
    BY <1>1, <1>4, <1>8, SMT
  <2>2. Gmt(i) \in Int /\ Offset(i) \in Int /\ again \in Int
    BY <1>1, <1>2, <1>4, <2>1
  <2>3. /\ Repeated(i, t).in <=> t \in Gmt(i) - again .. Gmt(i) - 1
        /\ Repeated(i, t).anHourOfSummer
             <=> hour /\ TypeAfter(data, k).isDst /\ ~TypeAfter(data, i).isDst
    <3> DEFINE before == IF i = 1 THEN data.localtimes[1]
                         ELSE data.localtimes[data.transitions[i - 1].localtimeIdx]
               after == data.localtimes[data.transitions[i].localtimeIdx]
               back == before.gmtOffset - after.gmtOffset
    <3>1. Repeated(i, t) = [in |-> t \in data.transitions[i].gmttime - back .. data.transitions[i].gmttime - 1,
                            anHourOfSummer |-> back = 3600 /\ before.isDst /\ ~after.isDst]
      BY Zenon DEF Repeated
    <3>2. before = TypeAfter(data, k)
      BY <2>1, Zenon DEF TypeAfter
    <3>3. after = TypeAfter(data, i)
      <4>1. i # 0
        BY <2>1, SMT
      <4> QED  BY <4>1, Zenon DEF TypeAfter
    <3> HIDE DEF before, after
    <3>4. back = again
      BY <3>2, <3>3, Zenon DEF Offset
    <3> HIDE DEF back, again, i
    <3> DEFINE within == t \in data.transitions[i].gmttime - back .. data.transitions[i].gmttime - 1
               anHour == back = 3600
               summer == anHour /\ before.isDst /\ ~after.isDst
    <3>5. within <=> t \in Gmt(i) - again .. Gmt(i) - 1
      BY <3>4, Zenon DEF Gmt
    <3>6. summer <=> hour /\ TypeAfter(data, k).isDst /\ ~TypeAfter(data, i).isDst
      <4>1. anHour <=> hour
        BY <3>4, SMT
      <4> HIDE DEF anHour, hour
      <4> QED  BY <3>2, <3>3, <4>1, Zenon
    <3> HIDE DEF anHour, hour
    <3>7. Repeated(i, t) = [in |-> within, anHourOfSummer |-> summer]
      BY <3>1, Zenon DEF anHour
    <3> HIDE DEF within, summer
    <3>8. Repeated(i, t).in = within /\ Repeated(i, t).anHourOfSummer = summer
      BY <3>7
    <3> QED  BY <3>5, <3>6, <3>8, Zenon
  <2>4. Repeated(i, t).in
    <3>1. Gmt(i) - again <= t /\ t <= Gmt(i) - 1
      BY <1>4, <1>8, <2>2, SMT
    <3>2. t \in Gmt(i) - again .. Gmt(i) - 1
      <4> HIDE DEF again, i
      <4> QED  BY <2>2, <3>1, SMT
    <3> QED  BY <2>3, <3>2, Zenon
  <2>5. CASE ~Repeated(i, t).anHourOfSummer
    BY <1>1, <2>1, <2>4, <2>5, Zenon
  <2>6. CASE Repeated(i, t).anHourOfSummer
    <3>11. hour /\ TypeAfter(data, k).isDst /\ ~TypeAfter(data, i).isDst
      <4> HIDE DEF hour
      <4> QED  BY <2>3, <2>6, Zenon
    <3>12. TypeAfter(data, k).isDst /\ ~TypeAfter(data, i).isDst
      <4> HIDE DEF hour
      <4> QED  BY <3>11, Zenon
    <3>1. again = 3600
      BY <3>11
    <3> DEFINE v == L - Offset(i)
    <3>2. v \in Int /\ v = t + 3600 /\ v + Offset(i) = L /\ (L - 3600) - Offset(i) = t /\ Gmt(i) <= v
      BY <1>4, <1>8, <2>2, <3>1, SMT
    <3>13. v \in Int /\ v + Offset(i) = L
      BY <3>2
    <3>3. Divides(GmtTimes(data), n, i, v)
      <4>1. ASSUME NEW a \in 1 .. i PROVE GmtTimes(data)[a] <= v
        <5>1. a \in 1 .. n /\ a \in 0 .. n /\ a \in Int
          BY <1>1, <2>1, SMT
        <5>2. GmtTimes(data)[a] = Gmt(a) /\ Gmt(a) \in Int
          BY <1>1, <5>1, KeysAre DEF n
        <5>3. CASE a = i
          BY <3>2, <5>2, <5>3
        <5>4. CASE a # i
          <6>1. a < i
            BY <2>1, <5>1, <5>4, SMT
          <6>2. Offset(i) - Offset(i) < Gmt(i) - Gmt(a)
            BY <1>1, <2>1, <5>1, <6>1, Zenon
          <6>3. Gmt(a) <= v
            <7> HIDE DEF i, v
            <7> QED  BY <2>2, <3>2, <5>2, <6>2, SMT
          <6> QED  BY <5>2, <6>3
        <5> QED  BY <5>3, <5>4
      <4>2. ASSUME NEW a \in i + 1 .. n PROVE v < GmtTimes(data)[a]
        <5>1. a \in 1 .. n /\ a \in 0 .. n /\ i < a
          BY <1>1, <2>1, SMT
        <5>2. GmtTimes(data)[a] = Gmt(a) /\ Gmt(a) \in Int
          BY <1>1, <5>1, KeysAre DEF n
        <5>3. Offset(k) - Offset(i) < Gmt(a) - Gmt(i)
          BY <1>1, <1>3, <2>1, <5>1, Zenon
        <5>4. v < Gmt(a)
          BY <1>4, <1>8, <2>2, <3>1, <3>2, <5>2, <5>3, SMT
        <5> QED  BY <5>2, <5>4
      <4> HIDE DEF i, v
      <4> QED  BY <2>1, <4>1, <4>2, Zenon DEF Divides
    <3>4. /\ toLocalTime(data, v).tm = lt.tm
          /\ toLocalTime(data, v).isdst = TypeAfter(data, i).isDst
      <4> HIDE DEF i, v, L
      <4>1. /\ toLocalTime(data, v).tm = gmtime_r(v + Offset(i))
            /\ toLocalTime(data, v).isdst = TypeAfter(data, i).isDst
        BY <3>13, <3>3, LocalIs DEF n
      <4> QED  BY <1>5, <3>13, <4>1, Zenon
    <3> DEFINE o == Offset(i)
    <3>5. fromLocalTime(data, lt) = Back(lt, L, o)
      <4>1. Divides(LocalTimes(data), Changes, i, L)
        BY <1>8, Zenon DEF n
      <4> HIDE DEF L, i
      <4> QED  BY <1>4, <1>6, <4>1, FromIs, Zenon
    <3>14. L - o = v
      BY <3>2
    <3>6. (L - 3600) - o = t
      BY <3>2
    <3> HIDE DEF L, o, v
    <3>7. Hack(lt, toLocalTime(data, v))
      <4> HIDE DEF i
      <4> QED  BY <1>5, <3>12, <3>4, Zenon DEF Hack
    <3>8. Back(lt, L, o) = Summer(L) - o
      <4>1. Hack(lt, toLocalTime(data, L - o))
        BY <3>7, <3>14, Zenon
      <4> QED  BY <4>1, BackHacked, Zenon
    <3>9. fromLocalTime(data, lt) = t
      BY <3>5, <3>6, <3>8, SMT DEF Summer
    <3> QED  BY <3>9, Zenon DEF lt
  <2> QED  BY <2>5, <2>6
<1>9. \/ Divides(LocalTimes(data), n, k, L)
      \/ /\ k + 1 \in 1 .. n /\ t < Gmt(k + 1) /\ Gmt(k + 1) + Offset(k + 1) <= L
         /\ Divides(LocalTimes(data), n, k + 1, L)
  BY <1>3, LocalDivides DEF n
<1> QED  BY <1>7, <1>8, <1>9

\* The times of the walk, at any offset of a file, are Datable.
LEMMA TimesDatable ==
    ASSUME IInv, HasTime, NEW s \in {0, Stride - 1}, NEW o \in Int32
    PROVE  Time + s \in Int /\ Datable((Time + s) + o)
<1> DEFINE e == day - kJulianDayOf1970_01_01
           T == sec + s
           E == T + o
<1>1. kJulianDayOf1970_01_01 = 2440588
  BY SMTT(30) DEF kJulianDayOf1970_01_01, getJulianDayNumber
<1>2. e \in Int /\ -24000 <= e /\ e <= 24000
  <2>1. e \in -DaysHeld .. DaysHeld
    BY Zenon DEF HasTime
  <2>2. DaysHeld \in Int /\ DaysHeld = 24000
    BY SMT DEF DaysHeld
  <2> HIDE DEF e
  <2> QED  BY <2>1, <2>2, SMTT(30)
<1>3. kSecondsPerDay \in Nat /\ kSecondsPerDay = 86400
  BY DayLength
<1>4. sec \in Int /\ 0 <= sec /\ s \in Int /\ 0 <= s /\ sec + s < kSecondsPerDay
  <2>1. sec + Stride <= kSecondsPerDay /\ Stride \in Nat /\ Stride > 0
    BY StepsFit, Zenon
  <2>2. sec \in Nat /\ sec < kSecondsPerDay
    BY Zenon DEF IInv
  <2>3. s = 0 \/ s = Stride - 1
    OBVIOUS
  <2> QED  BY <1>3, <2>1, <2>2, <2>3, SMT
<1>5. T \in Int /\ 0 <= T /\ T < 86400
  BY <1>3, <1>4, SMT
<1>6. o \in Int /\ -2147483648 <= o /\ o <= 2147483647
  BY Int32Bounds
<1>7. E \in Int /\ -2147483648 <= E /\ E < 2147700000
  <2> HIDE DEF T
  <2> QED  BY <1>5, <1>6, SMT
<1> DEFINE f == E \div 86400
           x == E % 86400
           d == e + f
<1> HIDE DEF E, T, e
<1>8. f \in Int /\ x \in Nat /\ x < 86400 /\ E = f * 86400 + x
  BY <1>7, SMT
<1>9. -24900 <= f
  <2> HIDE DEF f, x
  <2> QED  BY <1>7, <1>8, SMT
<1>10. (e * 86400 + f * 86400) + x = (e + f) * 86400 + x
  <2> HIDE DEF f, x
  <2> QED  BY <1>2, <1>8, SMT
<1>11. d \in Int /\ d + 2440588 \in Nat
  <2> HIDE DEF f, x
  <2> QED  BY <1>2, <1>8, <1>9, SMT
<1>12. Time = e * 86400 + sec
  BY <1>3, SMT DEF Time, e
<1>13. e * 86400 + sec \in Int /\ (e * 86400 + sec) + s \in Int /\ ((e * 86400 + sec) + s) + o = e * 86400 + E
  BY <1>2, <1>4, <1>6, SMT DEF E, T
<1>14. e * 86400 + E = d * 86400 + x
  <2> HIDE DEF f, x
  <2>1. e * 86400 + E = (e * 86400 + f * 86400) + x
    BY <1>2, <1>8, SMT
  <2> QED  BY <1>10, <2>1
<1> HIDE DEF d, x, f
<1>15. Time + s \in Int /\ (Time + s) + o = d * 86400 + x
  BY <1>12, <1>13, <1>14, SMT
<1>16. /\ x < kSecondsPerDay
       /\ (Time + s) + o = d * kSecondsPerDay + x
       /\ d + kJulianDayOf1970_01_01 \in Nat
  BY <1>1, <1>3, <1>8, <1>11, <1>15, SMT
<1>17. d \in Int /\ x \in Nat /\ Time + s \in Int
  BY <1>8, <1>11, <1>15
<1> QED  BY <1>16, <1>17, Zenon DEF Datable

\* Whatever the time of the walk, it is found again by its local time.
LEMMA IInvReturns ==
    ASSUME IInv, span \in Spans
    PROVE  LocalTimeReturns
<1> SUFFICES ASSUME HasTime, NEW s \in {0, Stride - 1}
             PROVE  \/ fromLocalTime(data, toLocalTime(data, Time + s)) = Time + s
                    \/ \E i \in DOMAIN data.transitions :
                          Repeated(i, Time + s).in /\ ~Repeated(i, Time + s).anHourOfSummer
  BY Zenon DEF LocalTimeReturns
<1>1. ZoneOK
  BY ZoneIs
<1>2. Time + s \in Int
  <2>1. Offset(0) \in Int32
    <3>1. 0 \in 0 .. Changes
      BY <1>1, SMT DEF ZoneOK
    <3> QED  BY <1>1, <3>1, Zenon DEF ZoneOK
  <2> QED  BY <2>1, TimesDatable, Zenon
<1>3. \A k \in 0 .. Changes : Datable((Time + s) + Offset(k))
  <2> TAKE k \in 0 .. Changes
  <2>1. Offset(k) \in Int32
    BY <1>1, Zenon DEF ZoneOK
  <2> QED  BY <2>1, TimesDatable, Zenon
<1> QED  BY <1>1, <1>2, <1>3, Returns, Zenon

\* The walk stays with the span it started with.
LEMMA SpanStays == Spec => [](span \in Spans)
<1>1. Init => span \in Spans
  BY DEF Init
<1>2. span \in Spans /\ [Elapse]_vars => (span \in Spans)'
  BY DEF Elapse, vars
<1> QED  BY <1>1, <1>2, PTL DEF Spec

\* For any zone file whose transitions are in order, whole or cut short, a time
\* within 24000 days of 1970 is found again by its local time, in the hour that
\* comes twice when summer time ends too (fromLocalTime, TimeZone.cpp:251-269): only
\* a clock set back in some other way loses the first pass.
THEOREM LocalTimeComesBack == Spec => []LocalTimeReturns
<1>1. IInv /\ span \in Spans => LocalTimeReturns
  BY IInvReturns
<1> QED  BY <1>1, WalkKeeps, SpanStays, PTL
=============================================================================
