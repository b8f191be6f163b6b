-------------------------- MODULE ScheduleCalculator --------------------------
(***************************************************************************)
(* calculate_next_run (schedule_calculator.py): the next instant at which  *)
(* a weekly or monthly schedule is due, in the time zone of the schedule.  *)
(* Instants and wall times are integers in one unit, DayLength of them to  *)
(* a day; dates are day numbers; a zone changes its offset at most once in *)
(* the window that is looked at.                                           *)
(***************************************************************************)
EXTENDS Integers, FiniteSetsExt

CONSTANTS
  DayLength,     \* units of time in a day
  FirstWeekday,  \* the weekday of date 0
  Months,        \* the months of the window, as <<year, month>>
  MonthStart,    \* the date of the first day of each
  MonthLength    \* its number of days: monthrange

ASSUME CalculatorAssumption ==
  /\ DayLength \in Nat \ {0} /\ FirstWeekday \in 0..6
  /\ Months \subseteq Nat \X (1..12)
  /\ MonthStart \in [Months -> Nat] /\ MonthLength \in [Months -> 28..31]

\* A zone: its offset to UTC before and from the instant `change`.
OffsetAt(zone, t) == IF t < zone.change THEN zone.before ELSE zone.after

\* The instant of a wall time, as datetime.astimezone(utc) computes it with
\* fold = 0: a time that occurs twice is the first one, a time that is skipped is
\* read with the offset before the change.  (The code's `normalized` is this same
\* instant, written in the zone.)
LocalizeWallTime(zone, date, time) ==
  LET naive == date * DayLength + time
  IN  IF naive - zone.after >= zone.change /\ naive - zone.before >= zone.change
      THEN naive - zone.after
      ELSE naive - zone.before

LocalDate(zone, t) == (t + OffsetAt(zone, t)) \div DayLength
Weekday(date) == (FirstWeekday + date) % 7
MonthOf(date) ==
  CHOOSE m \in Months : MonthStart[m] <= date /\ date < MonthStart[m] + MonthLength[m]

MonthlyCandidate(zone, m, rec) ==
  LocalizeWallTime(zone, MonthStart[m] + Min({rec.day, MonthLength[m]}) - 1, rec.time)

NextMonth(m) == IF m[2] = 12 THEN <<m[1] + 1, 1>> ELSE <<m[1], m[2] + 1>>

\* A slip to test the property with: `<` for `<=`.
NextWeeklyMayRepeat(zone, rec, reference) ==
  LET date == LocalDate(zone, reference)
      candidate == date + ((rec.day - Weekday(date)) % 7)
  IN  IF LocalizeWallTime(zone, candidate, rec.time) < reference
      THEN LocalizeWallTime(zone, candidate + 7, rec.time)
      ELSE LocalizeWallTime(zone, candidate, rec.time)

NextWeekly(zone, rec, reference) ==
  LET date == LocalDate(zone, reference)
      candidate == date + ((rec.day - Weekday(date)) % 7)
  IN  IF LocalizeWallTime(zone, candidate, rec.time) <= reference
      THEN LocalizeWallTime(zone, candidate + 7, rec.time)
      ELSE LocalizeWallTime(zone, candidate, rec.time)

NextMonthly(zone, rec, reference) ==
  LET month == MonthOf(LocalDate(zone, reference))
  IN  IF MonthlyCandidate(zone, month, rec) <= reference
      THEN MonthlyCandidate(zone, NextMonth(month), rec)
      ELSE MonthlyCandidate(zone, month, rec)

CalculateNextRun(zone, rec, reference) ==
  IF rec.frequency = "weekly" THEN NextWeekly(zone, rec, reference)
                              ELSE NextMonthly(zone, rec, reference)

-----------------------------------------------------------------------------
(* What it promises.                                                       *)

Matches(rec, date) ==
  IF rec.frequency = "weekly" THEN Weekday(date) = rec.day
  ELSE \E m \in Months : date = MonthStart[m] + rec.day - 1

\* The first due instant after the reference, among those of the given dates.
FirstSlotAfter(zone, rec, reference, dates) ==
  Min({t \in {LocalizeWallTime(zone, date, rec.time) : date \in {x \in dates : Matches(rec, x)}} :
         t > reference})
=============================================================================
