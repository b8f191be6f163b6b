----------------------------- MODULE MCSchedules -----------------------------
(* The schedules together with the calculator that says when they are due:  *)
(* a calendar over the turn of a year, on which every schedule is tried     *)
(* with every reference of the first two months.                            *)
EXTENDS MCScheduledScans, ScheduleCalculator

\* Two months around New Year, and the one after them.
SomeMonths == {<<1, 12>>, <<2, 1>>, <<2, 2>>}
Starts == [m \in SomeMonths |-> CASE m = <<1, 12>> -> 0 [] m = <<2, 1>> -> 31 [] m = <<2, 2>> -> 62]
Lengths == [m \in SomeMonths |-> IF m = <<2, 2>> THEN 28 ELSE 31]
AllDates == 0..89

\* Zones east and west of UTC, and a change forward and back by one unit, at a
\* wall time inside the day.
Zone(before, after, change) == [before |-> before, after |-> after, change |-> change]
Zones == {Zone(1, 1, 0), Zone(-1, -1, 0),
          Zone(1, 2, 20 * DayLength), Zone(2, 1, 20 * DayLength), Zone(-1, 0, 34 * DayLength - 1)}

Rules ==
  [frequency : {"weekly"}, day : 0..6, time : 0..DayLength - 1] \union
  [frequency : {"monthly"}, day : 1..28, time : 0..DayLength - 1]

\* calculate_next_run returns the first instant after the reference at which the
\* schedule is due, as ScheduledScans takes NextRun to be: it neither repeats an
\* occurrence nor leaves one out, over the ends of weeks, months and years and
\* over changes of the zone's offset. It is looked at once, at the start: the
\* calendar does not depend on the state.
NextRunIsFirst ==
  Init =>
    \A zone \in Zones, rule \in Rules, reference \in DayLength..61 * DayLength :
      CalculateNextRun(zone, rule, reference) = FirstSlotAfter(zone, rule, reference, AllDates)
=============================================================================
