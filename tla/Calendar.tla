-------------------------------- MODULE Calendar --------------------------------
(***************************************************************************)
(* Dates and times of the previous kernel (axon/source_old/system/time.c).   *)
(* A time counts from the beginning of 2000, leap seconds included; a date is *)
(* what a clock shows.  A day has Day seconds, so that many years fit; hours,  *)
(* minutes and nanoseconds are part of the second of the day.                 *)
(***************************************************************************)
EXTENDS Integers, FiniteSetsExt

CONSTANTS
  Day,       \* seconds in a day
  Years,     \* the years of the dates, the first and the last
  Durations  \* what is added to a time and subtracted from it

ASSUME CalendarAssumption ==
  /\ Day \in Nat \ {0} /\ Durations \subseteq Nat
  /\ Years \in Nat \X Nat /\ 2000 <= Years[1] /\ Years[1] <= Years[2]

VARIABLES
  time,   \* an axk_time_t, or NoTime
  date,   \* the axk_date_t that axk_time_to_date makes of it
  before  \* time and date before a duration was added or subtracted

calendarVars == <<time, date, before>>

NoTime == -1
NoDate == [year |-> 0, month |-> 0, day |-> 0, second |-> 0]
Nothing == [time |-> NoTime, date |-> NoDate]

One(p) == IF p THEN 1 ELSE 0

IsLeap(y) == (y - 2000) % 4 = 0

DaysIn(y, m) ==
  IF m = 2 THEN IF IsLeap(y) THEN 29 ELSE 28
  ELSE IF m \in {4, 6, 9, 11} THEN 30 ELSE 31

(* The days from the beginning of a year to a month, and to the year's end.    *)
DaysBefore(y, m) ==
  LET upto[n \in 0 .. m - 1] == IF n = 0 THEN 0 ELSE upto[n - 1] + DaysIn(y, n)
  IN  upto[m - 1]

-----------------------------------------------------------------------------
(* axk_time_to_date takes off whole years, then whole months while they fit;   *)
(* nothing keeps it from taking off the twelfth.                              *)
YearSeconds(y) ==
  (IF IsLeap(y) THEN 366 ELSE 365) * Day + One(y \in {2005, 2008, 2015, 2016})

YearStarts[n \in 0 .. Years[2] - 2000] ==
  IF n = 0 THEN 0 ELSE YearStarts[n - 1] + YearSeconds(2000 + (n - 1))

YearBegins(y) == YearStarts[y - 2000]

MonthBegins(y, m) == DaysBefore(y, m) * Day + One(y \in {2012, 2015} /\ m > 6)

ToDate(t) ==
  LET y == Max({n \in 2000 .. Years[2] : YearBegins(n) <= t})
      m == Max({n \in 1 .. 13 : YearBegins(y) + MonthBegins(y, n) <= t})
      s == t - YearBegins(y) - MonthBegins(y, m)
  IN  [year |-> y, month |-> m, day |-> s \div Day + 1, second |-> s % Day]

(* axk_date_to_time. *)
LeapDays(y) == (y - 2000 + 3) \div 4

(* Mutant: the leap second comes at the beginning of June. *)
LeapSecondsEarly(y, m) ==
  One(y > 2005) + One(y > 2008 \/ (y = 2008 /\ m >= 6))
  + One(y > 2015 \/ (y = 2015 /\ m >= 6)) + One(y > 2016)

LeapSeconds(y, m) ==
  One(y > 2005) + One(y > 2008 \/ (y = 2008 /\ m > 6))
  + One(y > 2015 \/ (y = 2015 /\ m > 6)) + One(y > 2016)

ToTime(d) ==
  ((d.year - 2000) * 365 + LeapDays(d.year) + DaysBefore(d.year, d.month) + d.day - 1) * Day
  + d.second + LeapSeconds(d.year, d.month)

-----------------------------------------------------------------------------
CalendarInit == time = NoTime /\ date = NoDate /\ before = Nothing

Convert ==
  /\ time = NoTime
  /\ \E t \in YearBegins(Years[1]) .. YearBegins(Years[2]) - 1 : time' = t /\ date' = ToDate(t)
  /\ UNCHANGED before

(* axk_time_add_duration and axk_time_subtract_duration, with the date anew;    *)
(* 64 bits of nanoseconds end long after the last year.                       *)
Moved(t) ==
  /\ t < YearBegins(Years[2])
  /\ time' = t /\ date' = ToDate(t) /\ before' = [time |-> time, date |-> date]

Add ==
  /\ time # NoTime /\ before = Nothing
  /\ \E d \in Durations : Moved(time + d)

Subtract ==
  /\ time # NoTime /\ before = Nothing
  /\ \E d \in Durations : d <= time /\ Moved(time - d)

CalendarNext == Convert \/ Add \/ Subtract

CalendarSpec == CalendarInit /\ [][CalendarNext]_calendarVars

-----------------------------------------------------------------------------
(* The leap seconds of 2008 and 2012, on which the two directions disagree.    *)
Disagree(d) == d.year \in {2008, 2012} /\ d.month > 6

(* A time that is made a date and back is the same time, except in two half     *)
(* years.                                                                     *)
RoundTrips == time # NoTime => Disagree(date) \/ ToTime(date) = time

Fields(d) == <<d.year, d.month, d.day, d.second>>

Later(d, e) ==
  \E i \in 1 .. 4 : /\ Fields(d)[i] > Fields(e)[i]
                    /\ \A j \in 1 .. i - 1 : Fields(d)[j] = Fields(e)[j]

(* Of two times the later one has the later date, leap seconds included.       *)
DatesOrdered ==
  before # Nothing => (time > before.time <=> Later(date, before.date))

(* Dates and the times they stand for agree and are in the same order.         *)
DatesSound == RoundTrips /\ DatesOrdered
================================================================================
