----------------------------- MODULE Date -----------------------------
(***************************************************************************)
(* Dates as numbers of days (base/Date.h, base/Date.cpp).  A Date is its   *)
(* julianDayNumber_.  The divisions of the code are of numbers that are    *)
(* not negative for the years it is for, 1900 to 2500.                     *)
(***************************************************************************)
EXTENDS Integers

getJulianDayNumber(year, month, day) ==
    LET a == (14 - month) \div 12
        y == year + 4800 - a
        m == month + 12 * a - 3
    IN  day + (153 * m + 2) \div 5 + y * 365
            + y \div 4 - y \div 100 + y \div 400 - 32045

\* A century that is counted from its first day on and not from its last.
YearMonthDayOfCentury(julianDayNumber) ==
    LET a == julianDayNumber + 32044
        b == (4 * a) \div 146097
        c == a - (b * 146097) \div 4
        d == (4 * c + 3) \div 1461
        e == c - (1461 * d) \div 4
        m == (5 * e + 2) \div 153
    IN  [day   |-> e - (153 * m + 2) \div 5 + 1,
         month |-> m + 3 - 12 * (m \div 10),
         year  |-> b * 100 + d - 4800 + m \div 10]

getYearMonthDay(julianDayNumber) ==
    LET a == julianDayNumber + 32044
        b == (4 * a + 3) \div 146097
        c == a - (b * 146097) \div 4
        d == (4 * c + 3) \div 1461
        e == c - (1461 * d) \div 4
        m == (5 * e + 2) \div 153
    IN  [day   |-> e - (153 * m + 2) \div 5 + 1,
         month |-> m + 3 - 12 * (m \div 10),
         year  |-> b * 100 + d - 4800 + m \div 10]

\* 0 is Sunday.
weekDay(julianDayNumber) == (julianDayNumber + 1) % 7

kJulianDayOf1970_01_01 == getJulianDayNumber(1970, 1, 1)
====
