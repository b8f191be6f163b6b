--------------------------- MODULE ScanLifecycle ---------------------------
(***************************************************************************)
(* What a scan promises to a client that polls it: it is queued, it runs,  *)
(* every source reports one outcome, and the scan gets its final status    *)
(* with the last outcome, once, from all outcomes.  After that nothing     *)
(* changes.  Concurrent reports may make the last one go unnoticed: then   *)
(* the scan stays running (the code's weakness that EveryScanConcludes of  *)
(* ScanCallbacks exposes), but no client ever sees a wrong final status.   *)
(***************************************************************************)
EXTENDS ScanSources

VARIABLES
  status,    \* the scan's status
  outcome    \* the outcome of each source, "none" until it reports

vars == <<status, outcome>>

Init ==
  /\ status = "queued"
  /\ outcome = [s \in Sources |-> "none"]

Start ==
  /\ status = "queued"
  /\ status' = "running"
  /\ UNCHANGED outcome

Report(s, result) ==
  /\ status \notin TerminalStatus
  /\ outcome[s] = "none"
  /\ outcome' = [outcome EXCEPT ![s] = result]
  /\ \/ status' = "running"
     \/ AllFinished(outcome') /\ status' = AggregateStatus(outcome')

Next == Start \/ \E s \in Sources, result \in FinishedStatus : Report(s, result)

Spec == Init /\ [][Next]_vars
=============================================================================
