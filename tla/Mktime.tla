------------------------------- MODULE Mktime -------------------------------
(***************************************************************************)
(* kernel/mktime.c: a date as the seconds since 1970.                      *)
(*                                                                         *)
(* Dates are records with the fields of struct tm that it reads, without   *)
(* the tm_ prefix; mon counts from 0 and year from 1900.  What the code    *)
(* has to agree with, the calendar with a leap day every fourth year, is   *)
(* defined by the date that follows each date.                             *)
(***************************************************************************)
EXTENDS Integers

MINUTE == 60
HOUR   == 60 * MINUTE
DAY    == 24 * HOUR
YEAR   == 365 * DAY

\* month[]: the seconds before each month, with a February of 29 days.
month == [m \in 0..11 |->
    DAY * CASE m = 0 -> 0    [] m = 1 -> 31   [] m = 2 -> 60   [] m = 3 -> 91
            [] m = 4 -> 121  [] m = 5 -> 152  [] m = 6 -> 182  [] m = 7 -> 213
            [] m = 8 -> 244  [] m = 9 -> 274  [] m = 10 -> 305 [] m = 11 -> 335]

\* A long has 32 bits: what a sum leaves in one.  (TLC's numbers end there too;
\* the theorems go beyond.)
MaxLong == 2147483647
MinLong == -MaxLong - 1
Long(n) == IF n \in MinLong..MaxLong THEN n
           ELSE MinLong + ((n - MinLong) % (2 * (MaxLong + 1)))

\* The conversion to unsigned long.
UnsignedLong(n) == IF n >= 0 THEN n ELSE n + 2 * (MaxLong + 1)

\* (Slip: the magic offset of the leap days is missing.)
kernel_mktimePlain(tm) ==
    LET year == tm.year - 70
        leap == IF tm.mon > 1 /\ (year + 2) % 4 # 0 THEN DAY ELSE 0
    IN  Long(YEAR * year + DAY * (year \div 4) + month[tm.mon] - leap
             + DAY * (tm.mday - 1) + HOUR * tm.hour + MINUTE * tm.min + tm.sec)

\* kernel_mktime(tm) for years from 70: then year+1 is positive and C's
\* division is \div.  It only adds and multiplies, so one Long at the end is
\* what all its sums and products wrap to.
kernel_mktime(tm) ==
    LET year == tm.year - 70
        leap == IF tm.mon > 1 /\ (year + 2) % 4 # 0 THEN DAY ELSE 0
    IN  Long(YEAR * year + DAY * ((year + 1) \div 4) + month[tm.mon] - leap
             + DAY * (tm.mday - 1) + HOUR * tm.hour + MINUTE * tm.min + tm.sec)

\* time.h's rule, for the year itself; it has 1000 where the calendar has 400.
__isleap(year) == year % 4 = 0 /\ (year % 100 # 0 \/ year % 1000 = 0)

-----------------------------------------------------------------------------
MonthDays(mon, year) ==
    IF mon = 1 THEN (IF year % 4 = 0 THEN 29 ELSE 28)
    ELSE IF mon \in {3, 5, 8, 10} THEN 30
    ELSE 31

\* The dates from the start of 1970 to the end of year last.
Date(last) == [sec : 0..59, min : 0..59, hour : 0..23,
               mday : 1..31, mon : 0..11, year : 70..last]

ValidDate(d, last) == d \in Date(last) /\ d.mday <= MonthDays(d.mon, d.year)

Epoch == [sec |-> 0, min |-> 0, hour |-> 0, mday |-> 1, mon |-> 0, year |-> 70]

NewYear(y) == [Epoch EXCEPT !.year = y]

\* The date one month, day, hour, minute, second later.
NextMonth(d) == IF d.mon < 11 THEN [d EXCEPT !.mon = @ + 1]
                ELSE [d EXCEPT !.mon = 0, !.year = @ + 1]
NextDay(d) == IF d.mday < MonthDays(d.mon, d.year) THEN [d EXCEPT !.mday = @ + 1]
              ELSE NextMonth([d EXCEPT !.mday = 1])
NextHour(d) == IF d.hour < 23 THEN [d EXCEPT !.hour = @ + 1]
               ELSE NextDay([d EXCEPT !.hour = 0])
NextMinute(d) == IF d.min < 59 THEN [d EXCEPT !.min = @ + 1]
                 ELSE NextHour([d EXCEPT !.min = 0])
NextSecond(d) == IF d.sec < 59 THEN [d EXCEPT !.sec = @ + 1]
                 ELSE NextMinute([d EXCEPT !.sec = 0])
=============================================================================
