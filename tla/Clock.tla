------------------------------- MODULE Clock -------------------------------
(***************************************************************************)
(* time_init of init/main.c: it reads the CMOS clock while the clock runs, *)
(* reads again when the second has changed, and sets startup_time.         *)
(*                                                                         *)
(* The clock chip is external.  It gives its registers in BCD, counts the  *)
(* months from 1 and keeps two digits of the year, so the dates end with   *)
(* 1999.  Its registers are taken to change together: time_init does not   *)
(* look at the chip's update-in-progress flag.                             *)
(*                                                                         *)
(* A step of the kernel is one CMOS_READ; the clock may tick before any.   *)
(***************************************************************************)
EXTENDS Mktime, Sequences

CONSTANTS Starts,     \* dates the chip may show when time_init begins
          MaxTicks,   \* bound on the ticks during one pass of the loop
          Horizon     \* bound on the seconds the clock runs

LastYear == 99

ASSUME StartsAreDates == \A d \in Starts : ValidDate(d, LastYear)

\* A pass of the loop, seven port reads, takes less than a minute.
ASSUME PassIsShort == MaxTicks \in 0..59

ASSUME HorizonIsNat == Horizon \in Nat

VARIABLES rtc,           \* the date the chip shows
          time,          \* the struct tm on the stack of time_init
          reads,         \* fields read in this pass of the loop
          pc,
          startup_time,
          begun,         \* history: the date when this pass read the second
          ticks          \* history: ticks since then

vars == <<rtc, time, reads, pc, startup_time, begun, ticks>>

FieldNames == DOMAIN Epoch

\* The order of the reads.
Fields == <<"sec", "min", "hour", "mday", "mon", "year">>

\* The contents of a register of the chip.
Bcd(n) == 16 * (n \div 10) + (n % 10)

\* The register of a field at date d.
Register(d, f) == Bcd(IF f = "mon" THEN d.mon + 1 ELSE d[f])

CMOS_READ(f) == Register(rtc, f)

BCD_TO_BIN(val) == (val % 16) + 10 * (val \div 16)

\* (Slip: the minutes stay in BCD.)
BinaryButMinutes(t) == [[f \in FieldNames |-> IF f = "min" THEN t[f] ELSE BCD_TO_BIN(t[f])]
                          EXCEPT !.mon = @ - 1]

\* The fields in binary, with tm_mon from 0.
Binary(t) == [[f \in FieldNames |-> BCD_TO_BIN(t[f])] EXCEPT !.mon = @ - 1]

-----------------------------------------------------------------------------
\* Types; the chip always shows a valid date, and so does time in the end.
TypeOK ==
    /\ ValidDate(rtc, LastYear) /\ ValidDate(begun, LastYear)
    /\ time \in [FieldNames -> 0..255]
    /\ reads \in 0..6
    /\ pc \in {"read", "convert", "done"}
    /\ pc = "done" => ValidDate(time, LastYear)
    /\ startup_time \in Nat
    /\ ticks \in 0..MaxTicks

\* What time holds on entry is never used.
Init ==
    /\ rtc \in Starts
    /\ begun = rtc
    /\ time = [f \in FieldNames |-> 0]
    /\ reads = 0
    /\ pc = "read"
    /\ startup_time = 0
    /\ ticks = 0

\* The clock goes on to the next second, while it shows a two-digit year
\* of this century.
Tick ==
    /\ ticks < MaxTicks
    /\ \E d \in Starts : kernel_mktime(rtc) - kernel_mktime(d) \in 0..Horizon - 1
    /\ NextSecond(rtc).year <= LastYear
    /\ rtc' = NextSecond(rtc)
    /\ ticks' = ticks + 1
    /\ UNCHANGED <<time, reads, pc, startup_time, begun>>

\* One assignment of the loop's body; the first one begins the pass.
ReadField ==
    /\ pc = "read" /\ reads < Len(Fields)
    /\ time' = [time EXCEPT ![Fields[reads + 1]] = CMOS_READ(Fields[reads + 1])]
    /\ reads' = reads + 1
    /\ IF reads = 0 THEN begun' = rtc /\ ticks' = 0 ELSE UNCHANGED <<begun, ticks>>
    /\ UNCHANGED <<rtc, pc, startup_time>>

\* (Slip: the loop checks the minute.)
CheckMinute ==
    /\ pc = "read" /\ reads = Len(Fields)
    /\ IF time.min # CMOS_READ("min") THEN reads' = 0 /\ UNCHANGED pc
       ELSE pc' = "convert" /\ UNCHANGED reads
    /\ UNCHANGED <<rtc, time, startup_time, begun, ticks>>

\* The loop's condition: the second has not changed.
Check ==
    /\ pc = "read" /\ reads = Len(Fields)
    /\ IF time.sec # CMOS_READ("sec") THEN reads' = 0 /\ UNCHANGED pc
       ELSE pc' = "convert" /\ UNCHANGED reads
    /\ UNCHANGED <<rtc, time, startup_time, begun, ticks>>

\* The rest of time_init; startup_time is an unsigned long.
Convert ==
    /\ pc = "convert"
    /\ time' = Binary(time)
    /\ startup_time' = UnsignedLong(kernel_mktime(Binary(time)))
    /\ pc' = "done"
    /\ UNCHANGED <<rtc, reads, begun, ticks>>

Next == Tick \/ ReadField \/ Check \/ Convert

Spec == Init /\ [][Next]_vars

-----------------------------------------------------------------------------
(***************************************************************************)
(* Properties.                                                             *)
(***************************************************************************)
\* time_init leaves the loop only with six fields that the chip showed
\* together: no carry from one field to the next went on between the reads
\* (the loop of time_init).
SnapshotConsistent ==
    pc = "convert" => \A f \in FieldNames : time[f] = Register(begun, f)

\* startup_time is the number of seconds of the date that the chip showed
\* when the second was last read (time_init as a whole).
StartupTimeRight == pc = "done" => startup_time = kernel_mktime(begun)

\* With every tick of the chip kernel_mktime of the date it shows becomes one
\* more, over the end of every month and over leap days: the two expressions
\* for leap days, before and after February, and the table of months agree.
EachTickCounts ==
    [][rtc' # rtc => kernel_mktime(rtc') = kernel_mktime(rtc) + 1]_vars
=============================================================================
