---------------------------- MODULE ScanSources ----------------------------
(***************************************************************************)
(* The vocabulary of a scan and the pure functions the backend applies to  *)
(* the scan_sources rows: which statuses count as finished, the status a   *)
(* scan gets from its rows and the progress it shows                       *)
(* (src/backend/app/repositories/scan_repo.py, models/base.py).            *)
(*                                                                         *)
(* A row's status is "none" as long as the row does not exist.             *)
(***************************************************************************)
EXTENDS Integers, FiniteSets

CONSTANT Sources    \* the sources expected of the scan (SCAN_SOURCES_BY_TYPE)

ASSUME SourcesAssumption == IsFiniteSet(Sources) /\ Sources # {}

ScanStatus == {"queued", "running", "completed", "failed", "partial"}
TerminalStatus == {"completed", "failed", "partial"}

\* The statuses after which the callback handler asks for the report.
ReportableStatus == {"completed", "partial"}

SourceStatus == {"none", "running", "completed", "failed", "skipped", "partial"}
FinishedStatus == {"completed", "failed", "skipped", "partial"}

Rows == [Sources -> SourceStatus]

FinishedSources(rows) == {s \in Sources : rows[s] \in FinishedStatus}
AllFinished(rows) == \A s \in Sources : rows[s] \in FinishedStatus

\* The list the code calls failed_sources: skipped and partial are in it.
NotCompleted(rows) == {s \in Sources : rows[s] # "completed"}

-----------------------------------------------------------------------------
(* Plausible slips stand before the operators they could replace in all    *)
(* modules; they are used to test the properties and model nothing.        *)

\* A slip: a source whose row says running counts as finished.
RunningCountsAsFinished(rows) ==
  IF \A s \in Sources : rows[s] # "none"
  THEN CASE NotCompleted(rows) = {}      -> "completed"
         [] NotCompleted(rows) = Sources -> "failed"
         [] OTHER                        -> "partial"
  ELSE "running"

AggregateStatus(rows) ==
  IF AllFinished(rows)
  THEN CASE NotCompleted(rows) = {}      -> "completed"
         [] NotCompleted(rows) = Sources -> "failed"
         [] OTHER                        -> "partial"
  ELSE "running"

\* A slip: the fraction is rounded up after the division.
ProgressRoundedUp(rows) ==
  (100 * Cardinality(FinishedSources(rows))) \div Cardinality(Sources) + 1

\* Progress of a scan whose running sources report no target counters.
Progress(rows) ==
  (100 * Cardinality(FinishedSources(rows))) \div Cardinality(Sources)
=============================================================================
