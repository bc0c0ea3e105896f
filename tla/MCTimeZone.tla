---------------------------- MODULE MCTimeZone ----------------------------
(***************************************************************************)
(* Instance of TimeZone for TLC: the years of Date.h with a zone that      *)
(* never changes, and some years with the transitions of zone files.       *)
(***************************************************************************)
EXTENDS TimeZone

Type(offset, dst) == [gmtOffset |-> offset, isDst |-> dst]

At(y, m, d, h) == (getJulianDayNumber(y, m, d) - kJulianDayOf1970_01_01) * kSecondsPerDay
                      + h * 3600

\* No transition, east of Greenwich.
Fixed == [trans |-> << >>, idx |-> << >>, types |-> <<Type(28800, FALSE)>>, read |-> 1]

\* Summer time is an hour and ends in autumn: America/New_York.
NewYork == [trans |-> <<At(2006, 4, 2, 7), At(2006, 10, 29, 6), At(2007, 3, 11, 7)>>,
            idx   |-> <<1, 2, 1>>,
            types |-> <<Type(-14400, TRUE), Type(-18000, FALSE)>>, read |-> 2]

\* The same file, ending after its first type.
CutShort == [NewYork EXCEPT !.read = 1]

\* Summer is over the new year: Australia/Sydney.
Sydney == [trans |-> <<At(1969, 10, 25, 16), At(1970, 3, 7, 16), At(1970, 10, 24, 16)>>,
           idx   |-> <<2, 1, 2>>,
           types |-> <<Type(36000, FALSE), Type(39600, TRUE)>>, read |-> 2]

\* Half an hour of summer time, and a standard time that is changed once for
\* all: Australia/Lord_Howe and Europe/Moscow in one.
HalfAnHour == [trans |-> <<At(2010, 4, 3, 15), At(2010, 10, 2, 15), At(2011, 3, 26, 15)>>,
               idx   |-> <<1, 2, 3>>,
               types |-> <<Type(37800, FALSE), Type(39600, TRUE), Type(36000, FALSE)>>,
               read  |-> 3]

\* Winter time is the time that is told to be daylight saving: Europe/Dublin.
Winter == [trans |-> <<At(1971, 3, 14, 2), At(1971, 10, 31, 2)>>,
           idx   |-> <<2, 1>>,
           types |-> <<Type(0, TRUE), Type(3600, FALSE)>>, read |-> 2]

MCSpans ==
    {[from |-> 1900, until |-> 2501, file |-> Fixed],
     [from |-> 2006, until |-> 2008, file |-> NewYork],
     [from |-> 2006, until |-> 2007, file |-> CutShort],
     [from |-> 1969, until |-> 1971, file |-> Sydney],
     [from |-> 2010, until |-> 2012, file |-> HalfAnHour],
     [from |-> 1971, until |-> 1972, file |-> Winter]}

=============================================================================
