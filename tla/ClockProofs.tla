----------------------------- MODULE ClockProofs ----------------------------
(***************************************************************************)
(* Theorems about Mktime.tla and Clock.tla: kernel_mktime counts the       *)
(* seconds, and time_init takes a consistent snapshot of the running       *)
(* clock, whatever the date and wherever the ticks fall in the loop.       *)
(***************************************************************************)
EXTENDS Clock, TLAPS

(***************************************************************************)
(* kernel_mktime is 0 at the epoch and one more at each following second,  *)
(* so it is right for every date up to the last second a long can count,   *)
(* on 19 January 2038, and as an unsigned long for every date up to 2098.  *)
(* The proof is about the sum before it is put into a long; it follows the *)
(* carries of NextSecond, on dates written as Rec(...) and with the sum    *)
(* split into the month's part and the rest.                               *)
(***************************************************************************)
Rec(s, mi, h, md, mo, y) ==
    [sec |-> s, min |-> mi, hour |-> h, mday |-> md, mon |-> mo, year |-> y]

\* The seconds before a month, and those of a point of a month that begins at b.
Base(y, mo) ==
    YEAR * (y - 70) + DAY * ((y - 69) \div 4) + month[mo]
    - (IF mo > 1 /\ (y - 68) % 4 # 0 THEN DAY ELSE 0)
Point(b, md, h, mi, s) == b + DAY * (md - 1) + HOUR * h + MINUTE * mi + s
Seconds(d) == Point(Base(d.year, d.mon), d.mday, d.hour, d.min, d.sec)

\* The seconds before a month are a number.
LEMMA BaseIsInt ==
    ASSUME NEW y \in 70..199, NEW mo \in 0..11
    PROVE  Base(y, mo) \in Int
  <1>1. (y - 69) \div 4 \in Int /\ month[mo] \in Int
    BY DEF month, DAY, HOUR, MINUTE
  <1> DEFINE q == (y - 69) \div 4
  <1> HIDE DEF q
  <1>2. YEAR * (y - 70) + DAY * q + month[mo]
          - (IF mo > 1 /\ (y - 68) % 4 # 0 THEN DAY ELSE 0) \in Int
    BY <1>1 DEF YEAR, DAY, HOUR, MINUTE, q
  <1> QED
    BY <1>2 DEF Base, q

\* The first of the next month is MonthDays days after the first of a month.
LEMMA MonthStep ==
    ASSUME NEW y \in 70..199, NEW mo \in 0..10
    PROVE  Base(y, mo + 1) = Base(y, mo) + DAY * MonthDays(mo, y)
  BY DEF Base, month, MonthDays, YEAR, DAY, HOUR, MINUTE

\* The first of January is the length of December after its first.
LEMMA YearStep ==
    ASSUME NEW y \in 70..198
    PROVE  Base(y + 1, 0) = Base(y, 11) + DAY * MonthDays(11, y)
  BY DEF Base, month, MonthDays, YEAR, DAY, HOUR, MINUTE

\* A valid date is the record of its fields, which are in their ranges.
LEMMA DateFields ==
    ASSUME NEW d, ValidDate(d, 199)
    PROVE  /\ d.sec \in 0..59 /\ d.min \in 0..59 /\ d.hour \in 0..23
           /\ d.mday \in 1..31 /\ d.mon \in 0..11 /\ d.year \in 70..199
           /\ d.mday <= MonthDays(d.mon, d.year)
           /\ d = Rec(d.sec, d.min, d.hour, d.mday, d.mon, d.year)
  BY DEF ValidDate, Date, Rec

\* The seconds by the fields.
LEMMA SecondsOf ==
    ASSUME NEW s, NEW mi, NEW h, NEW md, NEW mo, NEW y
    PROVE  Seconds(Rec(s, mi, h, md, mo, y)) = Point(Base(y, mo), md, h, mi, s)
  BY DEF Seconds, Rec

\* kernel_mktime gives what a long holds of the seconds.
LEMMA MktimeOf ==
    ASSUME NEW d, ValidDate(d, 199)
    PROVE  kernel_mktime(d) = Long(Seconds(d))
  <1>1. d.year \in 70..199
    BY DateFields
  <1>2. d.year - 70 + 1 = d.year - 69 /\ d.year - 70 + 2 = d.year - 68
    BY <1>1
  <1> QED
    BY <1>2 DEF kernel_mktime, Seconds, Point, Base

\* The limits of a long, without their digits.
LEMMA LongLimits == MaxLong \in Nat /\ MaxLong > 0 /\ MinLong = -MaxLong - 1
  BY SMT DEF MaxLong, MinLong

\* The seconds of a month fit into an unsigned long up to 2099, and before 2038
\* into a long.
LEMMA BaseRange ==
    ASSUME NEW y \in 70..199, NEW mo \in 0..11
    PROVE  /\ Base(y, mo) \in 0..(YEAR * (y - 70) + DAY * 368)
           /\ YEAR * (y - 70) + DAY * 368 \in Nat
  BY DEF Base, month, YEAR, DAY, HOUR, MINUTE

LEMMA SecondsRange ==
    ASSUME NEW d, ValidDate(d, 199)
    PROVE  /\ Seconds(d) \in 0..(2 * MaxLong)
           /\ d.year <= 137 => Seconds(d) < MaxLong
  <1> DEFINE b == Base(d.year, d.mon)
             s == d.sec   mi == d.min   h == d.hour   md == d.mday   y == d.year
             w == YEAR * (y - 70)
             t == DAY * (md - 1) + HOUR * h + MINUTE * mi + s
  <1>1. /\ s \in 0..59 /\ mi \in 0..59 /\ h \in 0..23
        /\ md \in 1..31 /\ d.mon \in 0..11 /\ y \in 70..199
    BY DateFields
  <1>2. b \in Int /\ b >= 0 /\ b <= w + DAY * 368
    <2> DEFINE top == w + DAY * 368
    <2>1. b \in Int /\ b \in 0..top /\ top \in Nat
      BY <1>1, BaseRange, BaseIsInt
    <2> HIDE DEF top, b
    <2>2. b >= 0 /\ b <= top
      BY <2>1
    <2> QED
      BY <2>1, <2>2 DEF top
  <1>3. Seconds(d) = b + DAY * (md - 1) + HOUR * h + MINUTE * mi + s
    BY DEF Seconds, Point
  <1> HIDE DEF b, s, mi, h, md, y
  <1>4. t \in Int /\ t >= 0 /\ t < DAY * 31
    BY <1>1 DEF DAY, HOUR, MINUTE
  <1>5. Seconds(d) = b + t
    BY <1>1, <1>2, <1>3 DEF DAY, HOUR, MINUTE
  <1>6. w \in Int /\ w <= YEAR * 129 /\ (y <= 137 => w <= YEAR * 67)
    BY <1>1 DEF YEAR, DAY, HOUR, MINUTE
  <1> HIDE DEF t, w
  <1>7. DAY * 368 = 31795200 /\ DAY * 31 = 2678400
    BY DEF DAY, HOUR, MINUTE
  <1>8. YEAR * 129 = 4068144000 /\ YEAR * 67 = 2112912000
    BY SMT DEF YEAR, DAY, HOUR, MINUTE
  <1>9. 4068144000 + 31795200 + 2678400 <= 2 * MaxLong
    BY SMT DEF MaxLong
  <1>10. 2112912000 + 31795200 + 2678400 < MaxLong
    BY SMT DEF MaxLong
  <1>11. Seconds(d) \in Int /\ Seconds(d) >= 0 /\ Seconds(d) <= w + 31795200 + 2678400
    BY <1>2, <1>4, <1>5, <1>6, <1>7, SMT
  <1>12. Seconds(d) <= 2 * MaxLong
    BY <1>6, <1>8, <1>9, <1>11, LongLimits, SMT
  <1>13. y <= 137 => Seconds(d) < MaxLong
    BY <1>6, <1>8, <1>10, <1>11, LongLimits, SMT
  <1> QED
    BY <1>11, <1>12, <1>13, LongLimits DEF y

\* What a long holds of a number that an unsigned long can hold.
LEMMA LongOf ==
    ASSUME NEW n \in 0..(2 * MaxLong)
    PROVE  /\ UnsignedLong(Long(n)) = n
           /\ n <= MaxLong => Long(n) = n
           /\ n > MaxLong => Long(n) = n - 2 * (MaxLong + 1)
           /\ Long(n) = MaxLong => n = MaxLong
  <1>1. n <= MaxLong => Long(n) = n
    BY LongLimits DEF Long
  <1>2. n > MaxLong => Long(n) = n - 2 * (MaxLong + 1)
    <2> SUFFICES ASSUME n > MaxLong PROVE Long(n) = n - 2 * (MaxLong + 1)
      OBVIOUS
    <2> DEFINE W == 2 * (MaxLong + 1)
               k == n - MinLong - W
    <2>1. k \in 0..(W - 1) /\ n - MinLong = k + W /\ W \in Nat \ {0}
      BY LongLimits
    <2>2. n \notin MinLong..MaxLong
      BY LongLimits
    <2>3. Long(n) = MinLong + ((n - MinLong) % W)
      BY <2>2 DEF Long
    <2> HIDE DEF W, k
    <2>4. (k + W) % W = k
      BY <2>1
    <2>5. Long(n) = MinLong + k
      <3>1. Long(n) = MinLong + ((k + W) % W)
        BY <2>1, <2>3
      <3> QED
        BY <3>1, <2>4
    <2>6. n \in Int /\ MinLong \in Int /\ W \in Int
      BY LongLimits DEF W
    <2>7. MinLong + k = n - W
      BY <2>6 DEF k
    <2> QED
      BY <2>5, <2>7 DEF W
  <1> QED
    BY <1>1, <1>2, LongLimits DEF UnsignedLong

\* At the epoch kernel_mktime is 0.
THEOREM EpochIsZero == kernel_mktime(Epoch) = 0
  <1>1. ValidDate(Epoch, 199)
    BY DEF ValidDate, Date, Epoch, MonthDays
  <1>2. Seconds(Epoch) = 0
    BY DEF Seconds, Point, Base, Epoch, month, YEAR, DAY, HOUR, MINUTE
  <1>3. 0 \in 0..(2 * MaxLong) /\ 0 <= MaxLong
    BY LongLimits
  <1> QED
    BY <1>1, <1>2, <1>3, MktimeOf, LongOf

\* One second later the sum is one more: at every second of every month, with or
\* without a leap day, up to the end of 2098.
LEMMA SecondsCount ==
    ASSUME NEW d, ValidDate(d, 198)
    PROVE  /\ ValidDate(NextSecond(d), 199)
           /\ Seconds(NextSecond(d)) = Seconds(d) + 1
  <1> DEFINE s == d.sec   mi == d.min   h == d.hour
             md == d.mday mo == d.mon   y == d.year
  <1>1. ValidDate(d, 199) /\ y \in 70..198 /\ y \in 70..199
    BY DEF ValidDate, Date
  <1>2. /\ s \in 0..59 /\ mi \in 0..59 /\ h \in 0..23 /\ md \in 1..31 /\ mo \in 0..11
        /\ md <= MonthDays(mo, y) /\ d = Rec(s, mi, h, md, mo, y)
    BY <1>1, DateFields
  <1> HIDE DEF s, mi, h, md, mo, y
  <1>3. MonthDays(mo, y) \in 28..31
    BY DEF MonthDays
  <1>4. Base(y, mo) \in Int
    BY <1>1, <1>2, BaseIsInt
  <1>5. Seconds(d) = Point(Base(y, mo), md, h, mi, s)
    BY <1>1, <1>2, SecondsOf
  <1>6. NextSecond(d) = NextSecond(Rec(s, mi, h, md, mo, y))
    BY <1>2
  <1>7. CASE s < 59
    <2>1. s + 1 \in 0..59
      BY <1>1, <1>2, <1>3, <1>7
    <2>2. NextSecond(Rec(s, mi, h, md, mo, y)) = Rec(s + 1, mi, h, md, mo, y)
      BY <1>2, <1>3, <1>7 DEF NextSecond, Rec
    <2>3. NextSecond(d) = Rec(s + 1, mi, h, md, mo, y)
      BY <1>6, <2>2
    <2>4. ValidDate(Rec(s + 1, mi, h, md, mo, y), 199)
      BY <1>1, <1>2, <2>1 DEF ValidDate, Date, Rec
    <2>5. Seconds(Rec(s + 1, mi, h, md, mo, y)) = Point(Base(y, mo), md, h, mi, s + 1)
      BY <1>1, <2>1, SecondsOf
    <2>6. Point(Base(y, mo), md, h, mi, s + 1) = Point(Base(y, mo), md, h, mi, s) + 1
      BY <1>2, <1>4, <1>7 DEF Point, DAY, HOUR, MINUTE
    <2> QED
      BY <2>3, <2>4, <2>5, <2>6, <1>5
  <1>8. CASE s = 59 /\ mi < 59
    <2>1. mi + 1 \in 0..59
      BY <1>1, <1>2, <1>3, <1>8
    <2>2. NextSecond(Rec(s, mi, h, md, mo, y)) = NextMinute(Rec(0, mi, h, md, mo, y))
      BY <1>2, <1>3, <1>8 DEF NextSecond, Rec
    <2>3. NextMinute(Rec(0, mi, h, md, mo, y)) = Rec(0, mi + 1, h, md, mo, y)
      BY <1>2, <1>3, <1>8 DEF NextMinute, Rec
    <2>4. NextSecond(d) = Rec(0, mi + 1, h, md, mo, y)
      BY <1>6, <2>2, <2>3
    <2>5. ValidDate(Rec(0, mi + 1, h, md, mo, y), 199)
      BY <1>1, <1>2, <2>1 DEF ValidDate, Date, Rec
    <2>6. Seconds(Rec(0, mi + 1, h, md, mo, y)) = Point(Base(y, mo), md, h, mi + 1, 0)
      BY <1>1, <2>1, SecondsOf
    <2>7. Point(Base(y, mo), md, h, mi + 1, 0) = Point(Base(y, mo), md, h, mi, s) + 1
      BY <1>2, <1>4, <1>8 DEF Point, DAY, HOUR, MINUTE
    <2> QED
      BY <2>4, <2>5, <2>6, <2>7, <1>5
  <1>9. CASE s = 59 /\ mi = 59 /\ h < 23
    <2>1. h + 1 \in 0..23
      BY <1>1, <1>2, <1>3, <1>9
    <2>2. NextSecond(Rec(s, mi, h, md, mo, y)) = NextMinute(Rec(0, mi, h, md, mo, y))
      BY <1>2, <1>3, <1>9 DEF NextSecond, Rec
    <2>3. NextMinute(Rec(0, mi, h, md, mo, y)) = NextHour(Rec(0, 0, h, md, mo, y))
      BY <1>2, <1>3, <1>9 DEF NextMinute, Rec
    <2>4. NextHour(Rec(0, 0, h, md, mo, y)) = Rec(0, 0, h + 1, md, mo, y)
      BY <1>2, <1>3, <1>9 DEF NextHour, Rec
    <2>5. NextSecond(d) = Rec(0, 0, h + 1, md, mo, y)
      BY <1>6, <2>2, <2>3, <2>4
    <2>6. ValidDate(Rec(0, 0, h + 1, md, mo, y), 199)
      BY <1>1, <1>2, <2>1 DEF ValidDate, Date, Rec
    <2>7. Seconds(Rec(0, 0, h + 1, md, mo, y)) = Point(Base(y, mo), md, h + 1, 0, 0)
      BY <1>1, <2>1, SecondsOf
    <2>8. Point(Base(y, mo), md, h + 1, 0, 0) = Point(Base(y, mo), md, h, mi, s) + 1
      BY <1>2, <1>4, <1>9 DEF Point, DAY, HOUR, MINUTE
    <2> QED
      BY <2>5, <2>6, <2>7, <2>8, <1>5
  <1>10. CASE s = 59 /\ mi = 59 /\ h = 23 /\ md < MonthDays(mo, y)
    <2>1. md + 1 \in 1..31 /\ md + 1 <= MonthDays(mo, y)
      BY <1>1, <1>2, <1>3, <1>10
    <2>2. NextSecond(Rec(s, mi, h, md, mo, y)) = NextMinute(Rec(0, mi, h, md, mo, y))
      BY <1>2, <1>3, <1>10 DEF NextSecond, Rec
    <2>3. NextMinute(Rec(0, mi, h, md, mo, y)) = NextHour(Rec(0, 0, h, md, mo, y))
      BY <1>2, <1>3, <1>10 DEF NextMinute, Rec
    <2>4. NextHour(Rec(0, 0, h, md, mo, y)) = NextDay(Rec(0, 0, 0, md, mo, y))
      BY <1>2, <1>3, <1>10 DEF NextHour, Rec
    <2>5. NextDay(Rec(0, 0, 0, md, mo, y)) = Rec(0, 0, 0, md + 1, mo, y)
      BY <1>2, <1>3, <1>10 DEF NextDay, Rec
    <2>6. NextSecond(d) = Rec(0, 0, 0, md + 1, mo, y)
      BY <1>6, <2>2, <2>3, <2>4, <2>5
    <2>7. ValidDate(Rec(0, 0, 0, md + 1, mo, y), 199)
      BY <1>1, <1>2, <2>1 DEF ValidDate, Date, Rec
    <2>8. Seconds(Rec(0, 0, 0, md + 1, mo, y)) = Point(Base(y, mo), md + 1, 0, 0, 0)
      BY <1>1, <2>1, SecondsOf
    <2>9. Point(Base(y, mo), md + 1, 0, 0, 0) = Point(Base(y, mo), md, h, mi, s) + 1
      BY <1>2, <1>4, <1>10 DEF Point, DAY, HOUR, MINUTE
    <2> QED
      BY <2>6, <2>7, <2>8, <2>9, <1>5
  <1>11. CASE s = 59 /\ mi = 59 /\ h = 23 /\ md = MonthDays(mo, y) /\ mo < 11
    <2>1. mo + 1 \in 0..11 /\ 1 <= MonthDays(mo + 1, y)
      BY <1>1, <1>2, <1>3, <1>11 DEF MonthDays
    <2>2. NextSecond(Rec(s, mi, h, md, mo, y)) = NextMinute(Rec(0, mi, h, md, mo, y))
      BY <1>2, <1>3, <1>11 DEF NextSecond, Rec
    <2>3. NextMinute(Rec(0, mi, h, md, mo, y)) = NextHour(Rec(0, 0, h, md, mo, y))
      BY <1>2, <1>3, <1>11 DEF NextMinute, Rec
    <2>4. NextHour(Rec(0, 0, h, md, mo, y)) = NextDay(Rec(0, 0, 0, md, mo, y))
      BY <1>2, <1>3, <1>11 DEF NextHour, Rec
    <2>5. NextDay(Rec(0, 0, 0, md, mo, y)) = NextMonth(Rec(0, 0, 0, 1, mo, y))
      BY <1>2, <1>3, <1>11 DEF NextDay, Rec
    <2>6. NextMonth(Rec(0, 0, 0, 1, mo, y)) = Rec(0, 0, 0, 1, mo + 1, y)
      BY <1>2, <1>3, <1>11 DEF NextMonth, Rec
    <2>7. NextSecond(d) = Rec(0, 0, 0, 1, mo + 1, y)
      BY <1>6, <2>2, <2>3, <2>4, <2>5, <2>6
    <2>8. ValidDate(Rec(0, 0, 0, 1, mo + 1, y), 199)
      BY <1>1, <1>2, <2>1 DEF ValidDate, Date, Rec
    <2>9. Seconds(Rec(0, 0, 0, 1, mo + 1, y)) = Point(Base(y, mo + 1), 1, 0, 0, 0)
      BY <1>1, <2>1, SecondsOf
    <2>10. Base(y, mo + 1) = Base(y, mo) + DAY * md
      BY <1>1, <1>2, <1>11, MonthStep
    <2>11. Point(Base(y, mo) + DAY * md, 1, 0, 0, 0) = Point(Base(y, mo), md, h, mi, s) + 1
      BY <1>2, <1>4, <1>11 DEF Point, DAY, HOUR, MINUTE
    <2> QED
      BY <2>7, <2>8, <2>9, <2>10, <2>11, <1>5
  <1>12. CASE s = 59 /\ mi = 59 /\ h = 23 /\ md = MonthDays(mo, y) /\ mo = 11
    <2>1. y + 1 \in 70..199 /\ 1 <= MonthDays(0, y + 1)
      BY <1>1, <1>2, <1>3, <1>12 DEF MonthDays
    <2>2. NextSecond(Rec(s, mi, h, md, mo, y)) = NextMinute(Rec(0, mi, h, md, mo, y))
      BY <1>2, <1>3, <1>12 DEF NextSecond, Rec
    <2>3. NextMinute(Rec(0, mi, h, md, mo, y)) = NextHour(Rec(0, 0, h, md, mo, y))
      BY <1>2, <1>3, <1>12 DEF NextMinute, Rec
    <2>4. NextHour(Rec(0, 0, h, md, mo, y)) = NextDay(Rec(0, 0, 0, md, mo, y))
      BY <1>2, <1>3, <1>12 DEF NextHour, Rec
    <2>5. NextDay(Rec(0, 0, 0, md, mo, y)) = NextMonth(Rec(0, 0, 0, 1, mo, y))
      BY <1>2, <1>3, <1>12 DEF NextDay, Rec
    <2>6. NextMonth(Rec(0, 0, 0, 1, mo, y)) = Rec(0, 0, 0, 1, 0, y + 1)
      <3>1. NextMonth(Rec(0, 0, 0, 1, mo, y))
              = [Rec(0, 0, 0, 1, mo, y) EXCEPT !.mon = 0, !.year = @ + 1]
        BY <1>12 DEF NextMonth, Rec
      <3> QED
        BY <3>1 DEF Rec
    <2>7. NextSecond(d) = Rec(0, 0, 0, 1, 0, y + 1)
      BY <1>6, <2>2, <2>3, <2>4, <2>5, <2>6
    <2>8. ValidDate(Rec(0, 0, 0, 1, 0, y + 1), 199)
      BY <1>1, <1>2, <2>1 DEF ValidDate, Date, Rec
    <2>9. Seconds(Rec(0, 0, 0, 1, 0, y + 1)) = Point(Base(y + 1, 0), 1, 0, 0, 0)
      BY <1>1, <2>1, SecondsOf
    <2>10. Base(y + 1, 0) = Base(y, mo) + DAY * md
      BY <1>1, <1>2, <1>12, YearStep
    <2>11. Point(Base(y, mo) + DAY * md, 1, 0, 0, 0) = Point(Base(y, mo), md, h, mi, s) + 1
      BY <1>2, <1>4, <1>12 DEF Point, DAY, HOUR, MINUTE
    <2> QED
      BY <2>7, <2>8, <2>9, <2>10, <2>11, <1>5
  <1>13. md < MonthDays(mo, y) \/ md = MonthDays(mo, y)
    BY <1>2, <1>3
  <1> QED
    BY <1>2, <1>13, <1>7, <1>8, <1>9, <1>10, <1>11, <1>12

\* One second later kernel_mktime is one more, until it is the greatest long; and
\* taken as an unsigned long, as startup_time takes it, it goes on to be one more
\* up to the end of 2098 (kernel_mktime, startup_time).
THEOREM CountsSeconds ==
    ASSUME NEW d, ValidDate(d, 198)
    PROVE  /\ ValidDate(NextSecond(d), 199)
           /\ kernel_mktime(d) # MaxLong =>
                 kernel_mktime(NextSecond(d)) = kernel_mktime(d) + 1
           /\ UnsignedLong(kernel_mktime(NextSecond(d))) =
                 UnsignedLong(kernel_mktime(d)) + 1
  <1> DEFINE n == Seconds(d)
             e == NextSecond(d)
  <1>1. ValidDate(d, 199)
    BY DEF ValidDate, Date
  <1>2. ValidDate(e, 199) /\ Seconds(e) = n + 1
    BY SecondsCount
  <1>3. /\ n \in 0..(2 * MaxLong) /\ n + 1 \in 0..(2 * MaxLong)
        /\ kernel_mktime(d) = Long(n) /\ kernel_mktime(e) = Long(n + 1)
    BY <1>1, <1>2, SecondsRange, MktimeOf
  <1> HIDE DEF n, e
  <1>4. UnsignedLong(kernel_mktime(e)) = UnsignedLong(kernel_mktime(d)) + 1
    BY <1>3, LongOf
  <1>5. kernel_mktime(d) # MaxLong => kernel_mktime(e) = kernel_mktime(d) + 1
    <2>1. CASE n < MaxLong
      BY <1>3, <2>1, LongOf, LongLimits
    <2>2. CASE n = MaxLong
      BY <1>3, <2>2, LongOf, LongLimits
    <2>3. CASE n > MaxLong
      BY <1>3, <2>3, LongOf, LongLimits
    <2> QED
      BY <1>3, <2>1, <2>2, <2>3, LongLimits
  <1> QED
    BY <1>2, <1>4, <1>5 DEF e

\* The last second that a long counts: a second later it is the least long.
LastSecond == Rec(7, 14, 3, 19, 0, 138)

\* kernel_mktime is right before 2038, and from there on until 03:14:07 on 19
\* January; a second later the long wraps (kernel_mktime's res).
THEOREM LongEndsIn2038 ==
    /\ \A d : ValidDate(d, 137) => kernel_mktime(d) \in 0..(MaxLong - 1)
    /\ kernel_mktime(LastSecond) = MaxLong
    /\ kernel_mktime(NextSecond(LastSecond)) = MinLong
  <1>1. ASSUME NEW d, ValidDate(d, 137) PROVE kernel_mktime(d) \in 0..(MaxLong - 1)
    <2>1. ValidDate(d, 199) /\ d.year <= 137
      BY <1>1 DEF ValidDate, Date
    <2>2. Seconds(d) \in 0..(2 * MaxLong) /\ Seconds(d) < MaxLong
      BY <2>1, SecondsRange
    <2> QED
      BY <2>1, <2>2, MktimeOf, LongOf, LongLimits
  <1>2. ValidDate(LastSecond, 198) /\ ValidDate(LastSecond, 199)
    BY DEF LastSecond, Rec, ValidDate, Date, MonthDays
  <1>3. Seconds(LastSecond) = MaxLong
    <2>1. Base(138, 0) = YEAR * 68 + DAY * 17
      BY DEF Base, month, YEAR, DAY, HOUR, MINUTE
    <2>2. Seconds(LastSecond) = Point(Base(138, 0), 19, 3, 14, 7)
      BY SecondsOf DEF LastSecond
    <2> QED
      BY <2>1, <2>2, SMT DEF Point, YEAR, DAY, HOUR, MINUTE, MaxLong
  <1>4. /\ ValidDate(NextSecond(LastSecond), 199)
        /\ Seconds(NextSecond(LastSecond)) = MaxLong + 1
    BY <1>2, <1>3, SecondsCount
  <1>5. /\ kernel_mktime(LastSecond) = Long(MaxLong)
        /\ kernel_mktime(NextSecond(LastSecond)) = Long(MaxLong + 1)
    BY <1>2, <1>3, <1>4, MktimeOf
  <1>6. Long(MaxLong) = MaxLong /\ Long(MaxLong + 1) = MinLong
    BY LongOf, LongLimits
  <1> QED
    BY <1>1, <1>5, <1>6

\* kernel_mktime gives a year 366 days just where __isleap of time.h calls it a
\* leap year, up to 2098: both take 2000 for one, the first as every fourth year,
\* the second as a multiple of 1000.  From 2038 on the times are unsigned longs.
THEOREM LeapYearsAgree ==
    ASSUME NEW y \in 70..198
    PROVE  UnsignedLong(kernel_mktime(NewYear(y + 1)))
             - UnsignedLong(kernel_mktime(NewYear(y)))
             = YEAR + (IF __isleap(1900 + y) THEN DAY ELSE 0)
  <1>1. __isleap(1900 + y) <=> y % 4 = 0
    BY DEF __isleap
  <1>2. ASSUME NEW z \in 70..199
        PROVE  UnsignedLong(kernel_mktime(NewYear(z))) =
                 YEAR * (z - 70) + DAY * ((z - 69) \div 4)
    <2>1. ValidDate(NewYear(z), 199)
      BY DEF ValidDate, Date, NewYear, Epoch, MonthDays
    <2>2. Seconds(NewYear(z)) = Point(Base(z, 0), 1, 0, 0, 0)
      BY DEF Seconds, NewYear, Epoch
    <2>3. Seconds(NewYear(z)) = YEAR * (z - 70) + DAY * ((z - 69) \div 4)
      BY <2>2 DEF Point, Base, month, YEAR, DAY, HOUR, MINUTE
    <2> QED
      BY <2>1, <2>3, SecondsRange, MktimeOf, LongOf
  <1>3. (y - 68) \div 4 = (y - 69) \div 4 + (IF y % 4 = 0 THEN 1 ELSE 0)
    OBVIOUS
  <1>4. /\ UnsignedLong(kernel_mktime(NewYear(y))) = YEAR * (y - 70) + DAY * ((y - 69) \div 4)
        /\ UnsignedLong(kernel_mktime(NewYear(y + 1))) =
              YEAR * (y - 69) + DAY * ((y - 68) \div 4)
    <2>1. y \in 70..199 /\ y + 1 \in 70..199 /\ y + 1 - 70 = y - 69 /\ y + 1 - 69 = y - 68
      OBVIOUS
    <2> QED
      BY <2>1, <1>2
  <1> QED
    BY <1>1, <1>3, <1>4 DEF YEAR, DAY, HOUR, MINUTE

-----------------------------------------------------------------------------
(***************************************************************************)
(* The inductive invariant of time_init: the second that the chip shows is *)
(* ticks after the one begun had, so as long as a pass is shorter than a   *)
(* minute an equal second means that no tick came, and without a tick      *)
(* every field was read from the same date.                                *)
(***************************************************************************)
IInv ==
    /\ ValidDate(rtc, LastYear) /\ ValidDate(begun, LastYear)
    /\ time \in [FieldNames -> 0..255]
    /\ reads \in 0..6
    /\ pc \in {"read", "convert", "done"}
    /\ startup_time \in Nat
    /\ ticks \in 0..MaxTicks
    /\ rtc.sec = (begun.sec + ticks) % 60
    /\ ticks = 0 => rtc = begun
    /\ pc = "read" => /\ reads # 0 => time["sec"] = Register(begun, "sec")
                      /\ ticks = 0 => \A i \in 1..reads :
                                        time[Fields[i]] = Register(begun, Fields[i])
    /\ pc = "convert" => \A f \in FieldNames : time[f] = Register(begun, f)
    /\ pc = "done" => /\ \A f \in FieldNames : time[f] = begun[f]
                      /\ startup_time = kernel_mktime(begun)

\* The names of the fields.
LEMMA Names == FieldNames = {"sec", "min", "hour", "mday", "mon", "year"}
  BY DEF FieldNames, Epoch

\* Every field is read.
LEMMA AllFields == \A f \in FieldNames : \E i \in 1..6 : f = Fields[i]
  BY Names DEF Fields

\* The reading order has six names.
LEMMA FieldsAre == Len(Fields) = 6 /\ \A i \in 1..6 : Fields[i] \in FieldNames
  BY Names DEF Fields

\* BCD_TO_BIN undoes the chip's BCD.
LEMMA BcdInverse ==
    ASSUME NEW n \in 0..99
    PROVE  Bcd(n) \in 0..255 /\ BCD_TO_BIN(Bcd(n)) = n
  BY DEF Bcd, BCD_TO_BIN

\* The fields of a date of this clock, as numbers of two digits.
LEMMA TwoDigitFields ==
    ASSUME NEW d, ValidDate(d, LastYear), NEW f \in FieldNames
    PROVE  d[f] \in 0..99 /\ (f = "mon" => d[f] + 1 \in 0..99)
  BY Names DEF ValidDate, Date, LastYear

\* A register holds a byte, and BCD_TO_BIN gives its field.
LEMMA RegisterGives ==
    ASSUME NEW d, ValidDate(d, LastYear), NEW f \in FieldNames
    PROVE  /\ Register(d, f) \in 0..255
           /\ f # "mon" => BCD_TO_BIN(Register(d, f)) = d[f]
           /\ f = "mon" => BCD_TO_BIN(Register(d, f)) - 1 = d[f]
  <1> DEFINE n == IF f = "mon" THEN d[f] + 1 ELSE d[f]
  <1>1. n \in 0..99 /\ Register(d, f) = Bcd(n)
    BY TwoDigitFields DEF Register
  <1>2. d[f] \in 0..99 /\ (f = "mon" => n - 1 = d[f]) /\ (f # "mon" => n = d[f])
    BY TwoDigitFields
  <1> HIDE DEF n
  <1>3. Bcd(n) \in 0..255 /\ BCD_TO_BIN(Bcd(n)) = n
    BY <1>1, BcdInverse
  <1> QED
    BY <1>1, <1>2, <1>3

\* The next date of this century's clock, and its second.
LEMMA TickDate ==
    ASSUME NEW d, ValidDate(d, LastYear), NextSecond(d).year <= LastYear
    PROVE  ValidDate(NextSecond(d), LastYear) /\ NextSecond(d).sec = (d.sec + 1) % 60
  <1>1. ValidDate(d, 198) /\ d.sec \in 0..59
    BY DEF ValidDate, Date, LastYear
  <1>2. ValidDate(NextSecond(d), 199)
    BY <1>1, CountsSeconds
  <1>3. ValidDate(NextSecond(d), LastYear)
    BY <1>2 DEF ValidDate, Date, LastYear
  <1>4. NextSecond(d).sec = IF d.sec < 59 THEN d.sec + 1 ELSE 0
    BY <1>1 DEF NextSecond, NextMinute, NextHour, NextDay, NextMonth, ValidDate, Date
  <1> QED
    BY <1>1, <1>3, <1>4

\* Two bytes of the same date and field are equal only for equal fields.
LEMMA SecondsDiffer ==
    ASSUME NEW d, NEW e, ValidDate(d, LastYear), ValidDate(e, LastYear),
           Register(d, "sec") = Register(e, "sec")
    PROVE  d.sec = e.sec
  <1>1. "sec" \in FieldNames /\ "sec" # "mon"
    BY Names
  <1>2. BCD_TO_BIN(Register(d, "sec")) = d["sec"] /\ BCD_TO_BIN(Register(e, "sec")) = e["sec"]
    BY <1>1, RegisterGives
  <1> QED
    BY <1>2

\* The conversion gives back the fields of the date.
LEMMA BinaryGives ==
    ASSUME NEW d, ValidDate(d, LastYear), NEW t \in [FieldNames -> 0..255],
           \A f \in FieldNames : t[f] = Register(d, f)
    PROVE  /\ Binary(t) \in [FieldNames -> 0..255]
           /\ \A f \in FieldNames : Binary(t)[f] = d[f]
           /\ kernel_mktime(Binary(t)) = kernel_mktime(d)
  <1>1. ASSUME NEW f \in FieldNames
        PROVE  Binary(t)[f] = d[f] /\ d[f] \in 0..255
    <2>1. Binary(t)[f] = IF f = "mon" THEN BCD_TO_BIN(t[f]) - 1 ELSE BCD_TO_BIN(t[f])
      BY Names DEF Binary
    <2>2. d[f] \in 0..255
      BY TwoDigitFields
    <2> QED
      BY <2>1, <2>2, RegisterGives
  <1>2. Binary(t) = [f \in FieldNames |-> Binary(t)[f]]
    BY DEF Binary
  <1>3. Binary(t) \in [FieldNames -> 0..255]
    BY <1>1, <1>2
  <1>4. /\ Binary(t).sec = d.sec /\ Binary(t).min = d.min /\ Binary(t).hour = d.hour
        /\ Binary(t).mday = d.mday /\ Binary(t).mon = d.mon /\ Binary(t).year = d.year
    BY <1>1, Names
  <1>5. kernel_mktime(Binary(t)) = kernel_mktime(d)
    BY <1>4 DEF kernel_mktime
  <1> QED
    BY <1>1, <1>3, <1>5

\* Before 2000 kernel_mktime fits into a long, and into an unsigned one.
LEMMA MktimeIsNat ==
    ASSUME NEW d, ValidDate(d, LastYear)
    PROVE  /\ kernel_mktime(d) \in Nat
           /\ kernel_mktime(d) # MaxLong
           /\ UnsignedLong(kernel_mktime(d)) = kernel_mktime(d)
  <1>1. ValidDate(d, 137)
    BY DEF ValidDate, Date, LastYear
  <1>2. kernel_mktime(d) \in 0..(MaxLong - 1)
    BY <1>1, LongEndsIn2038
  <1> QED
    BY <1>2, LongLimits DEF UnsignedLong

\* Seconds wrap to themselves only after a minute.
LEMMA Wrapped ==
    ASSUME NEW s \in 0..59, NEW t \in 0..59
    PROVE  (s + t) % 60 = s <=> t = 0
  <1>1. (s + t) % 60 = IF s + t < 60 THEN s + t ELSE s + t - 60
    OBVIOUS
  <1> QED
    BY <1>1

\* One second later is one second more.
LEMMA Later ==
    ASSUME NEW s \in 0..59, NEW t \in 0..59
    PROVE  (((s + t) % 60) + 1) % 60 = (s + (t + 1)) % 60
  OBVIOUS

\* The initial states satisfy the invariant.
LEMMA InitIInv == Init => IInv
  BY StartsAreDates, PassIsShort DEF Init, IInv, ValidDate, Date

\* Every step preserves the invariant.
LEMMA NextIInv == IInv /\ [Next]_vars => IInv'
  <1> SUFFICES ASSUME IInv, [Next]_vars PROVE IInv'
    OBVIOUS
  <1> USE PassIsShort
  <1>0. rtc.sec \in 0..59 /\ begun.sec \in 0..59
    BY DEF IInv, ValidDate, Date
  <1>1. CASE Tick
    <2>1. ValidDate(rtc', LastYear) /\ rtc'.sec = (rtc.sec + 1) % 60
      BY <1>1, TickDate DEF IInv, Tick
    <2>2. ticks \in 0..59 /\ ticks' = ticks + 1 /\ ticks' \in 1..MaxTicks /\ begun' = begun
      BY <1>1 DEF IInv, Tick
    <2>3. rtc.sec = (begun.sec + ticks) % 60
      BY DEF IInv
    <2>4. rtc'.sec = (begun'.sec + ticks') % 60
      BY <1>0, <2>1, <2>2, <2>3, Later
    <2> QED
      BY <1>1, <2>1, <2>2, <2>4 DEF IInv, Tick
  <1>2. CASE ReadField
    <2> DEFINE f == Fields[reads + 1]
    <2>1. reads \in 0..5 /\ reads + 1 \in 1..6 /\ f \in FieldNames /\ pc = "read"
      BY <1>2, FieldsAre DEF IInv, ReadField
    <2>2. /\ ValidDate(begun', LastYear) /\ rtc' = rtc /\ pc' = pc /\ reads' = reads + 1
          /\ startup_time' = startup_time
      BY <1>2 DEF IInv, ReadField
    <2>3. Register(rtc, f) \in 0..255
      BY <2>1, RegisterGives DEF IInv
    <2>4. time' \in [FieldNames -> 0..255] /\ time' = [time EXCEPT ![f] = Register(rtc, f)]
      BY <1>2, <2>1, <2>3 DEF IInv, ReadField, CMOS_READ
    <2>5. rtc'.sec = (begun'.sec + ticks') % 60 /\ ticks' \in 0..MaxTicks
          /\ (ticks' = 0 => rtc' = begun')
      <3>1. CASE reads = 0
        <4>1. rtc' = rtc /\ begun' = rtc /\ ticks' = 0
          BY <1>2, <3>1 DEF ReadField
        <4>2. (rtc.sec + 0) % 60 = rtc.sec
          BY <1>0, Wrapped
        <4> QED
          BY <4>1, <4>2
      <3>2. CASE reads # 0
        BY <1>2, <3>2 DEF IInv, ReadField
      <3> QED
        BY <3>1, <3>2
    <2>6. time'["sec"] = Register(begun', "sec")
      BY <1>2, <2>4, Names DEF IInv, ReadField, Fields
    <2>7. ASSUME ticks' = 0, NEW i \in 1..reads'
          PROVE  time'[Fields[i]] = Register(begun', Fields[i])
      <3>1. CASE i = reads + 1
        <4>1. Fields[i] = f /\ rtc = begun'
          BY <2>2, <2>5, <2>7, <3>1
        <4> QED
          BY <2>1, <2>4, <4>1 DEF IInv
      <3>2. CASE i \in 1..reads
        <4>1. begun' = begun /\ ticks = 0
          BY <1>2, <2>7, <3>2 DEF IInv, ReadField
        <4>2. time[Fields[i]] = Register(begun, Fields[i])
          BY <2>1, <3>2, <4>1 DEF IInv
        <4>3. rtc = begun /\ Fields[i] \in FieldNames
          BY <2>1, <3>2, <4>1, FieldsAre DEF IInv
        <4> HIDE DEF f
        <4>4. time'[Fields[i]] = IF Fields[i] = f THEN Register(rtc, f) ELSE time[Fields[i]]
          BY <2>4, <4>3 DEF IInv
        <4> QED
          BY <4>1, <4>2, <4>3, <4>4
      <3> QED
        BY <2>1, <2>2, <2>7, <3>1, <3>2
    <2>8. /\ ValidDate(rtc', LastYear) /\ reads' \in 0..6 /\ pc' = "read"
          /\ startup_time' \in Nat /\ time' \in [FieldNames -> 0..255]
      BY <2>1, <2>2, <2>4 DEF IInv
    <2> HIDE DEF f
    <2> QED
      BY <2>2, <2>5, <2>6, <2>7, <2>8 DEF IInv
  <1>3. CASE Check
    <2>1. CASE time.sec # CMOS_READ("sec")
      BY <1>3, <2>1 DEF IInv, Check
    <2>2. CASE time.sec = CMOS_READ("sec")
      <3>1. rtc.sec = begun.sec
        BY <1>3, <2>2, SecondsDiffer, FieldsAre DEF IInv, Check, CMOS_READ
      <3>2. ticks = 0
        <4>1. ticks \in 0..59 /\ (begun.sec + ticks) % 60 = begun.sec
          BY <3>1 DEF IInv
        <4> QED
          BY <1>0, <4>1, Wrapped
      <3>3. \A f \in FieldNames : time[f] = Register(begun, f)
        BY <1>3, <3>2, AllFields, FieldsAre DEF IInv, Check
      <3> QED
        BY <1>3, <2>2, <3>3 DEF IInv, Check
    <2> QED
      BY <2>1, <2>2
  <1>4. CASE Convert
    <2>1. /\ time' \in [FieldNames -> 0..255]
          /\ \A f \in FieldNames : time'[f] = begun[f]
          /\ startup_time' = UnsignedLong(kernel_mktime(begun))
      BY <1>4, BinaryGives DEF IInv, Convert
    <2>2. startup_time' = kernel_mktime(begun) /\ startup_time' \in Nat
      BY <2>1, MktimeIsNat DEF IInv
    <2> QED
      BY <1>4, <2>1, <2>2 DEF IInv, Convert
  <1>5. CASE UNCHANGED vars
    BY <1>5 DEF IInv, vars
  <1> QED
    BY <1>1, <1>2, <1>3, <1>4, <1>5 DEF Next

\* The invariant holds always.
LEMMA ClockInvariant == Spec => []IInv
  BY InitIInv, NextIInv, PTL DEF Spec

\* Every reachable state is well typed; at the end time is a valid date.
THEOREM TypeCorrect == Spec => []TypeOK
  <1>1. IInv => TypeOK
    <2> SUFFICES ASSUME IInv PROVE TypeOK
      OBVIOUS
    <2>1. ASSUME pc = "done" PROVE ValidDate(time, LastYear)
      <3>1. /\ time.sec = begun.sec /\ time.min = begun.min /\ time.hour = begun.hour
            /\ time.mday = begun.mday /\ time.mon = begun.mon /\ time.year = begun.year
        BY <2>1, Names DEF IInv
      <3>2. time = [sec |-> time.sec, min |-> time.min, hour |-> time.hour,
                    mday |-> time.mday, mon |-> time.mon, year |-> time.year]
        BY Names DEF IInv
      <3> QED
        BY <3>1, <3>2 DEF IInv, ValidDate, Date
    <2> QED
      BY <2>1 DEF IInv, TypeOK
  <1> QED
    BY <1>1, ClockInvariant, PTL

\* The six fields that leave the loop come from one date.
THEOREM Snapshot == Spec => []SnapshotConsistent
  <1>1. IInv => SnapshotConsistent
    BY DEF IInv, SnapshotConsistent
  <1> QED
    BY <1>1, ClockInvariant, PTL

\* startup_time is the number of seconds of that date.
THEOREM StartupTime == Spec => []StartupTimeRight
  <1>1. IInv => StartupTimeRight
    BY DEF IInv, StartupTimeRight
  <1> QED
    BY <1>1, ClockInvariant, PTL

\* kernel_mktime counts the ticks of the chip, whatever date it starts from.
THEOREM TicksCounted == Spec => EachTickCounts
  <1>1. IInv /\ [Next]_vars =>
          [rtc' # rtc => kernel_mktime(rtc') = kernel_mktime(rtc) + 1]_vars
    <2> SUFFICES ASSUME IInv, [Next]_vars, rtc' # rtc
                 PROVE  kernel_mktime(rtc') = kernel_mktime(rtc) + 1
      BY DEF vars
    <2>1. Tick
      BY DEF Next, ReadField, Check, Convert, vars
    <2>2. ValidDate(rtc, 198)
      BY DEF IInv, ValidDate, Date, LastYear
    <2> QED
      BY <2>1, <2>2, CountsSeconds, MktimeIsNat DEF Tick, IInv
  <1> QED
    BY <1>1, ClockInvariant, PTL DEF Spec, EachTickCounts
=============================================================================
