-------------------------- MODULE MCScheduledScans --------------------------
(* Recurrences, their due instants and the updates of clients, for the     *)
(* runs of ScheduledScans.                                                 *)
EXTENDS ScheduledScans, TLC

\* Recurrences: every instant, every second one, and the instants between.
SomeSlots ==
  [r \in Recurrences |-> CASE r = "each" -> 0..7
                           [] r = "even" -> {0, 2, 4, 6}
                           [] r = "odd" -> {1, 3, 5, 7}]

\* Pause, resume, and set the recurrence.
PauseAndResume == [active : {"on", "off"}, rec : {"keep"}]
SetRecurrence == [active : {"keep"}, rec : Recurrences]
AllChanges == PauseAndResume \union SetRecurrence

\* Ticks, and clients, are interchangeable.
Symmetry == Permutations(Ticks) \union Permutations(Clients)
=============================================================================
