------------------------------ MODULE MCClock ------------------------------
(***************************************************************************)
(* The clock around the moments at which its fields carry.                 *)
(***************************************************************************)
EXTENDS Clock

At(y, mo, d, h, mi, s) == <<s, mi, h, d, mo, y>>

\* Shortly before the ends of a minute, an hour, a day, of the days around a
\* leap day, of the months, of years and of the century; noon, midnight and
\* the last second of the window.
McStarts ==
  {At(2023, 5, 17, 10, 41, 57), At(2023, 5, 17, 10, 59, 58),
   At(2023, 5, 17, 11, 59, 58), At(2023, 5, 17, 23, 59, 58),
   At(2023, 2, 28, 23, 59, 58), At(2024, 2, 28, 23, 59, 58),
   At(2024, 2, 29, 23, 59, 58), At(2024, 12, 31, 23, 59, 58),
   At(2099, 12, 31, 23, 59, 58), At(2122, 12, 31, 23, 59, 58),
   At(2031, 2, 28, 23, 59, 59)}
  \union {At(2024, m, DaysIn(m, 2024), 23, 59, 59) : m \in 1 .. 12}

McFormats == [bcd : BOOLEAN, h24 : BOOLEAN]
=============================================================================
