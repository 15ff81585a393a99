------------------------------- MODULE Clock -------------------------------
(***************************************************************************)
(* The reading of the real-time clock (cmos.c) by the clock program        *)
(* (clock.c) and by system call 11.                                        *)
(*                                                                         *)
(* The chip goes on while read_rtc takes its registers one by one, so an   *)
(* update can fall between any two of them: interrupts delay the clock     *)
(* program, and on the emulated machine nothing bounds the time between    *)
(* two port accesses.  The chip is modelled as the emulator the makefile   *)
(* runs has it: registers change at once at the end of an update.          *)
(***************************************************************************)
EXTENDS Integers, Sequences

CONSTANTS
  Starts,     \* the times at which the chip may be found
  Formats,    \* the settings of status register B: BCD, 24 hours
  MaxTicks    \* bound: seconds that pass

Second == 1
Minute == 2
Hour   == 3
Day    == 4
Month  == 5
Year   == 6
Fields == Second .. Year          \* from the least to the most significant

CURRENT_YEAR == 2023
CENTURY      == (CURRENT_YEAR \div 100) * 100
\* The chip keeps two digits of the year: a window of a hundred years.
Years        == CURRENT_YEAR .. CURRENT_YEAR + 99

-----------------------------------------------------------------------------
(* The calendar the chip follows *)

Leap(y) == y % 4 = 0 /\ (y % 100 # 0 \/ y % 400 = 0)
DaysIn(m, y) ==
  IF m = 2 THEN IF Leap(y) THEN 29 ELSE 28 ELSE IF m \in {4, 6, 9, 11} THEN 30 ELSE 31

First(f)   == IF f \in {Day, Month} THEN 1 ELSE 0
Last(t, f) == <<59, 59, 23, DaysIn(t[Month], t[Year]), 12, CURRENT_YEAR + 100>>[f]

Times == {t \in [Fields -> Nat] :
            /\ \A f \in Second .. Month : t[f] \in First(f) .. Last(t, f)
            /\ t[Year] \in Years}

\* A field moves when all fields below it are at their last value.
Carried(t, f) == \A g \in Second .. f - 1 : t[g] = Last(t, g)
Succ(t) ==
  [f \in Fields |-> IF ~Carried(t, f) THEN t[f]
                    ELSE IF t[f] = Last(t, f) THEN First(f) ELSE t[f] + 1]

ASSUME ClockAssumption ==
  /\ Starts \subseteq Times
  /\ Formats \subseteq [bcd : BOOLEAN, h24 : BOOLEAN]
  /\ MaxTicks \in Nat

VARIABLES
  now,       \* the chip's time
  updating,  \* its update-in-progress flag
  format,    \* its status register B
  ticks,     \* seconds passed
  next,      \* how far read_rtc is: 0 waits for the flag, f reads field f,
             \* 7 reads status register B, 8 has returned
  raw,       \* the bytes read
  reading,   \* what read_rtc returns
  shown,     \* what the clock program printed last
  answer,    \* what system call 11 stored last
  began      \* the chip's time when the wait for the flag ended

chip == <<now, updating, format, ticks>>
vars == <<now, updating, format, ticks, next, raw, reading, shown, answer,
          began>>

Zero == [f \in Fields |-> 0]

Init ==
  /\ now \in Starts /\ updating = FALSE /\ format \in Formats /\ ticks = 0
  /\ next = 0 /\ raw = Zero /\ reading = Zero /\ began = now
  /\ shown = Zero /\ answer = FALSE

-----------------------------------------------------------------------------
(* The chip *)

BeginUpdate ==
  /\ ~updating /\ ticks < MaxTicks /\ Succ(now)[Year] \in Years
  /\ updating' = TRUE
  /\ UNCHANGED <<now, format, ticks, next, raw, reading, shown, answer, began>>

Tick ==
  /\ updating
  /\ now' = Succ(now) /\ updating' = FALSE /\ ticks' = ticks + 1
  /\ UNCHANGED <<format, next, raw, reading, shown, answer, began>>

ToBcd(n) == (n \div 10) * 16 + (n % 10)
Coded(n) == IF format.bcd THEN ToBcd(n) ELSE n
\* Twelve hours: 12, 1, ... 11 and a bit for the afternoon.
TwelveHour(h) == IF h % 12 = 0 THEN 12 ELSE h % 12
Register(t, f) ==
  CASE f = Hour /\ ~format.h24 ->
         Coded(TwelveHour(t[Hour])) + (IF t[Hour] >= 12 THEN 128 ELSE 0)
    [] f = Year -> Coded(t[Year] % 100)
    [] OTHER    -> Coded(t[f])

-----------------------------------------------------------------------------
(* read_rtc *)

\* The wait ends at a moment the flag is clear.
get_update_in_progress_flag ==
  /\ next = 0 /\ ~updating
  /\ next' = Second /\ began' = now
  /\ UNCHANGED <<chip, raw, reading, shown, answer>>

\* Mutants: the registers of a BCD chip are read again and again;
\* the most significant register first.
get_RTC_registerTwice ==
  /\ next \in Fields
  /\ raw' = [raw EXCEPT ![next] = Register(now, next)]
  /\ next' = IF next = Year /\ format.bcd THEN Second ELSE next + 1
  /\ UNCHANGED <<chip, reading, shown, answer, began>>
get_RTC_registerDown ==
  /\ next \in Fields
  /\ raw' = [raw EXCEPT ![7 - next] = Register(now, 7 - next)]
  /\ next' = next + 1
  /\ UNCHANGED <<chip, reading, shown, answer, began>>
get_RTC_register ==
  /\ next \in Fields
  /\ raw' = [raw EXCEPT ![next] = Register(now, next)]
  /\ next' = next + 1
  /\ UNCHANGED <<chip, reading, shown, answer, began>>

FromBcd(n) == (n % 16) + (n \div 16) * 10
\* The afternoon bit of the hour is kept aside.
Binary(r, f) ==
  IF f = Hour THEN (r % 16) + ((r \div 16) % 8) * 10 + (r \div 128) * 128 ELSE FromBcd(r)
\* Mutant: the bit is not looked at.
TwentyFourAlways(h) == h - 128 + 12
TwentyFour(h) == IF h >= 128 THEN (h - 128 + 12) % 24 ELSE h
FullYear(y)   == IF CENTURY + y < CURRENT_YEAR THEN CENTURY + y + 100 ELSE CENTURY + y

\* Mutant: the tens of a BCD byte are taken for sixteens.
ConvertedTens(r) ==
  LET b == [f \in Fields |-> r[f]]
  IN  [b EXCEPT ![Hour] = IF format.h24 THEN @ ELSE TwentyFour(@), ![Year] = FullYear(@)]
Converted(r) ==
  LET b == [f \in Fields |-> IF format.bcd THEN Binary(r[f], f) ELSE r[f]]
  IN  [b EXCEPT ![Hour] = IF format.h24 THEN @ ELSE TwentyFour(@), ![Year] = FullYear(@)]

read_rtc ==
  /\ next = 7
  /\ reading' = Converted(raw)
  /\ next' = 8
  /\ UNCHANGED <<chip, raw, shown, answer, began>>

-----------------------------------------------------------------------------
(* The callers *)

\* The clock program shows the hour of a zone seven hours ahead.
Show ==
  /\ next = 8
  /\ shown' = [reading EXCEPT ![Hour] = @ + 7]
  /\ next' = 0
  /\ UNCHANGED <<chip, raw, reading, answer, began>>

DaysBefore == <<0, 31, 59, 90, 120, 151, 181, 212, 243, 273, 304, 334>>
\* Mutant: February 29 counts from the first of February on.
LeapYearsEarly(t) == (t[Year] - 1969 + (IF t[Month] > 1 THEN 1 ELSE 0)) \div 4
LeapYears(t) == (t[Year] - 1969 + (IF t[Month] > 2 THEN 1 ELSE 0)) \div 4
\* The days since 1970 and the seconds of the day: the number itself goes
\* beyond the integers of the model checker in 2038, those of the code in 2106.
get_timestamp(t) ==
  << (t[Year] - 1970) * 365 + LeapYears(t) + DaysBefore[t[Month]] + t[Day] - 1,
     (t[Hour] * 60 + t[Minute]) * 60 + t[Second] >>

\* System call 11 stores the timestamp as a truth value.
Answer ==
  /\ next = 8
  /\ answer' = (get_timestamp(reading) # <<0, 0>>)
  /\ next' = 0
  /\ UNCHANGED <<chip, raw, reading, shown, began>>

Next ==
  \/ BeginUpdate \/ Tick
  \/ get_update_in_progress_flag \/ get_RTC_register \/ read_rtc \/ Show \/ Answer

Spec == Init /\ [][Next]_vars

\* The callers go on, and an update that began ends.  The flag is set for
\* two thousandths of a second in each second and the wait asks for it all
\* the time, so it meets it clear.
Fairness ==
  /\ SF_vars(get_update_in_progress_flag)
  /\ WF_vars(get_RTC_register) /\ WF_vars(read_rtc) /\ WF_vars(Show \/ Answer)
  /\ WF_vars(Tick)
FairSpec == Spec /\ Fairness

-----------------------------------------------------------------------------
(* Properties *)

AtMost(s, t) ==
  s = t \/ \E f \in Fields : s[f] < t[f] /\ \A g \in f + 1 .. Year : s[g] = t[g]

\* An hour the conversion gets right: noon and midnight of the twelve-hour
\* clock come out exchanged.
HourUnderstood == format.h24 \/ raw[Hour] % 128 # Coded(12)

\* The values the variables take.
TypeOK ==
  /\ now \in Times /\ began \in Times
  /\ updating \in BOOLEAN /\ format \in Formats
  /\ ticks \in 0 .. MaxTicks /\ next \in 0 .. 8
  /\ raw \in [Fields -> 0 .. 255]
  /\ reading \in [Fields -> Nat] /\ shown \in [Fields -> Nat] /\ answer \in BOOLEAN

\* However many updates fall between its register reads, read_rtc never
\* returns a time before the moment it began: the registers are read from
\* the least significant to the most significant one.
NeverBehind == next = 8 /\ HourUnderstood => AtMost(began, reading)

\* As long as no minute ends while it reads, what read_rtc returns is a time
\* between the moment it began and now.
ExactWithinAMinute ==
  next = 8 /\ HourUnderstood /\ (\A f \in Minute .. Year : now[f] = began[f])
  => AtMost(began, reading) /\ AtMost(reading, now)

\* get_timestamp moves by one second when the clock does, over the ends of
\* months and of leap years, before March 2100.
Following(s) == IF s[2] = 86399 THEN <<s[1] + 1, 0>> ELSE <<s[1], s[2] + 1>>
TimestampFollows ==
  [][now' # now /\ now'[Year] < 2100
     => get_timestamp(now') = Following(get_timestamp(now))]_vars

\* The wait for the flag and the reads end, whenever updates begin.
ReadingEnds == next = 0 ~> next = 8
=============================================================================
