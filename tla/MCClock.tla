------------------------------- MODULE MCClock ------------------------------
EXTENDS Clock

\* A date two seconds before midnight.
Evening(year, mon, mday) ==
    [sec |-> 58, min |-> 59, hour |-> 23, mday |-> mday, mon |-> mon, year |-> year]

\* The last evening of every month of a leap year and of the years around it,
\* the day before a leap day, and the last day that two digits of the year tell.
Evenings ==
    {Evening(y, mon, MonthDays(mon, y)) : y \in {70, 71, 72, 73, 95, 96}, mon \in 0..11}
        \cup {Evening(92, 1, 28), Evening(99, 11, 31)}
=============================================================================
