--------------------------- MODULE ScanCallbacks ---------------------------
(***************************************************************************)
(* One scan from POST /scans to its last source callback.                  *)
(*                                                                         *)
(* The dispatcher is ScanService.start_scan and the scan.full task.  Each  *)
(* source has one Celery task, which sends two HTTP callbacks to the API:  *)
(* "running" before its work (a failure of it is only logged) and a final  *)
(* one after it (a failure of it kills the task, and nothing retries).     *)
(* The API handles every callback in a coroutine with a database session   *)
(* of its own, at READ COMMITTED and without a lock on the scans row:      *)
(*                                                                         *)
(*   sent --> loaded --> saved --> committed --> reporting --> reported    *)
(*                                     \-----> answered                    *)
(*                                                                         *)
(*   loaded     the route has read the scan; SQLAlchemy keeps that copy    *)
(*              (expire_on_commit=False) and writes a column at commit     *)
(*              only if the value set differs from the copy                *)
(*   saved      the source's row is upserted, its row lock held, and the   *)
(*              statuses of all rows are read: other requests' uncommitted *)
(*              rows are not seen                                          *)
(*   committed  the row and the scan's changed columns are visible         *)
(*   reporting  the refreshed scan is completed or partial, so the handler *)
(*              goes on to queue the PDF report                            *)
(***************************************************************************)
EXTENDS ScanSources, OrmSession

CONSTANTS
  MaxLateStarts,  \* bound: "running" callbacks a task stops waiting for
  MaxFaults       \* bound: lost requests, aborted transactions and crashes

ASSUME BoundsAssumption == MaxLateStarts \in Nat /\ MaxFaults \in Nat

VARIABLES
  scan,        \* the committed scans row: status, progress, completed_at set
  rows,        \* the committed scan_sources rows
  request,     \* the callback requests, by source and kind
  task,        \* the Celery task of each source
  dispatcher,  \* start_scan and the fan-out task
  lateStarts,  \* how many tasks went on while their "running" call was open
  faults,      \* how many faults have happened
  overlapped   \* history: a commit happened inside another save

vars == <<scan, rows, request, task, dispatcher, lateStarts, faults, overlapped>>

Kinds == {"running", "final"}
Requests == Sources \X Kinds

RequestPc == {"unsent", "sent", "loaded", "saved", "committed", "reporting",
              "answered", "reported", "failed", "orphaned", "unreported"}

\* How a request can end, and how it can end with an error for the caller.
ErrorPc  == {"failed", "orphaned", "unreported"}
ClosedPc == {"answered", "reported"} \union ErrorPc
OpenPc   == RequestPc \ (ClosedPc \union {"unsent"})
\* The row of a request in one of these is committed.
DurablePc == {"committed", "reporting", "answered", "reported",
              "orphaned", "unreported"}

TaskPc == {"unsent", "queued", "starting", "working", "finishing", "done", "crashed"}
DispatcherPc == {"created", "fanning_out", "done", "dead"}

ScanRow == [status : ScanStatus, progress : 0..100, stamped : BOOLEAN]
Request == [pc : RequestPc, report : SourceStatus, seen : ScanRow, view : Rows]

NewScan == [status |-> "queued", progress |-> 0, stamped |-> FALSE]
NoRows == [s \in Sources |-> "none"]

TypeOK ==
  /\ scan \in ScanRow
  /\ rows \in Rows
  /\ request \in [Requests -> Request]
  /\ task \in [Sources -> TaskPc]
  /\ dispatcher \in DispatcherPc
  /\ lateStarts \in 0..MaxLateStarts
  /\ faults \in 0..MaxFaults
  /\ overlapped \in BOOLEAN

\* ScanRepository.create_scan has committed the row.
Init ==
  /\ scan = NewScan
  /\ rows = NoRows
  /\ request = [r \in Requests |->
       [pc |-> "unsent", report |-> "none", seen |-> NewScan, view |-> NoRows]]
  /\ task = [s \in Sources |-> "unsent"]
  /\ dispatcher = "created"
  /\ lateStarts = 0
  /\ faults = 0
  /\ overlapped = FALSE

-----------------------------------------------------------------------------
(* The dispatcher: start_scan publishes scan.full, whose task publishes    *)
(* one task per source.                                                    *)

PublishScan ==
  /\ dispatcher = "created"
  /\ dispatcher' = "fanning_out"
  /\ UNCHANGED <<scan, rows, request, task, lateStarts, faults, overlapped>>

\* A slip: the fan-out stops one source early.
FanOutForgetsOne(s) ==
  /\ dispatcher = "fanning_out"
  /\ task[s] = "unsent"
  /\ task' = [task EXCEPT ![s] = "queued"]
  /\ dispatcher' = IF Cardinality({t \in Sources : task'[t] = "unsent"}) <= 1
                   THEN "done" ELSE dispatcher
  /\ UNCHANGED <<scan, rows, request, lateStarts, faults, overlapped>>

FanOut(s) ==
  /\ dispatcher = "fanning_out"
  /\ task[s] = "unsent"
  /\ task' = [task EXCEPT ![s] = "queued"]
  /\ dispatcher' = IF \A t \in Sources : task'[t] # "unsent" THEN "done"
                                                              ELSE dispatcher
  /\ UNCHANGED <<scan, rows, request, lateStarts, faults, overlapped>>

\* The broker refuses a message (503 to the client; the row stays queued), or
\* the fan-out task dies: what is not sent by then is never sent.
DispatcherDies ==
  /\ dispatcher \in {"created", "fanning_out"}
  /\ faults < MaxFaults
  /\ faults' = faults + 1
  /\ dispatcher' = "dead"
  /\ UNCHANGED <<scan, rows, request, task, lateStarts, overlapped>>

-----------------------------------------------------------------------------
(* The Celery task of a source.                                            *)

Send(r, report) ==
  request' = [request EXCEPT ![r].pc = "sent", ![r].report = report]

BeginTask(s) ==
  /\ task[s] = "queued"
  /\ task' = [task EXCEPT ![s] = "starting"]
  /\ Send(<<s, "running">>, "running")
  /\ UNCHANGED <<scan, rows, dispatcher, lateStarts, faults, overlapped>>

\* A slip: the "running" call is sent and not waited for.
StartDoesNotWait(s) ==
  /\ task[s] = "starting"
  /\ task' = [task EXCEPT ![s] = "working"]
  /\ UNCHANGED <<scan, rows, request, dispatcher, lateStarts, faults, overlapped>>

\* The "running" call has ended, well or badly: both are the same to the task.
StartReturns(s) ==
  /\ task[s] = "starting"
  /\ request[<<s, "running">>].pc \in ClosedPc
  /\ task' = [task EXCEPT ![s] = "working"]
  /\ UNCHANGED <<scan, rows, request, dispatcher, lateStarts, faults, overlapped>>

\* The HTTP client gives up after 30 seconds; the API does not know.
StartTimesOut(s) ==
  /\ task[s] = "starting"
  /\ request[<<s, "running">>].pc \in OpenPc
  /\ lateStarts < MaxLateStarts
  /\ lateStarts' = lateStarts + 1
  /\ task' = [task EXCEPT ![s] = "working"]
  /\ UNCHANGED <<scan, rows, request, dispatcher, faults, overlapped>>

\* The work is done, or has failed with an exception the task catches.
SendFinal(s, outcome) ==
  /\ task[s] = "working"
  /\ task' = [task EXCEPT ![s] = "finishing"]
  /\ Send(<<s, "final">>, outcome)
  /\ UNCHANGED <<scan, rows, dispatcher, lateStarts, faults, overlapped>>

\* send_source_callback raises on any error, and the task has no retry.
FinalReturns(s) ==
  /\ task[s] = "finishing"
  /\ request[<<s, "final">>].pc \in ClosedPc
  /\ task' = [task EXCEPT ![s] =
       IF request[<<s, "final">>].pc \in ErrorPc THEN "crashed" ELSE "done"]
  /\ UNCHANGED <<scan, rows, request, dispatcher, lateStarts, faults, overlapped>>

\* The worker process dies, or the client gives up on the final call: Celery
\* has acknowledged the message already and does not deliver it again.
TaskDies(s) ==
  /\ task[s] \in {"starting", "working", "finishing"}
  /\ faults < MaxFaults
  /\ faults' = faults + 1
  /\ task' = [task EXCEPT ![s] = "crashed"]
  /\ UNCHANGED <<scan, rows, request, dispatcher, lateStarts, overlapped>>

-----------------------------------------------------------------------------
(* The API's handler of PATCH /internal/scans/{id}/sources/{name}.         *)

\* The route reads the scan; 404 and 422 cannot happen for these callers.
Load(r) ==
  /\ request[r].pc = "sent"
  /\ request' = [request EXCEPT ![r].pc = "loaded", ![r].seen = scan]
  /\ UNCHANGED <<scan, rows, task, dispatcher, lateStarts, faults, overlapped>>

\* Another transaction holds the lock of the same scan_sources row.
RowLocked(s) == \E k \in Kinds : request[<<s, k>>].pc = "saved"

\* A slip: the rows are read before the upsert.
SaveReadsFirst(r) ==
  /\ request[r].pc = "loaded"
  /\ ~RowLocked(r[1])
  /\ request' = [request EXCEPT ![r].pc = "saved", ![r].view = rows]
  /\ UNCHANGED <<scan, rows, task, dispatcher, lateStarts, faults, overlapped>>

\* save_source_result up to the aggregation: upsert, then read every row.
Save(r) ==
  /\ request[r].pc = "loaded"
  /\ ~RowLocked(r[1])
  /\ request' = [request EXCEPT
       ![r].pc = "saved",
       ![r].view = [rows EXCEPT ![r[1]] = request[r].report]]
  /\ UNCHANGED <<scan, rows, task, dispatcher, lateStarts, faults, overlapped>>

ScanAfter(view, seen) ==
  [status   |-> Written(AggregateStatus(view), seen.status, scan.status),
   progress |-> Written(Progress(view), seen.progress, scan.progress),
   stamped  |-> scan.stamped \/ AllFinished(view)]

\* The aggregation of save_source_result and its commit.
Commit(r) ==
  /\ request[r].pc = "saved"
  /\ rows' = [rows EXCEPT ![r[1]] = request[r].report]
  /\ scan' = ScanAfter(request[r].view, request[r].seen)
  /\ overlapped' = (overlapped \/ \E q \in Requests \ {r} : request[q].pc = "saved")
  /\ request' = [request EXCEPT ![r].pc = "committed"]
  /\ UNCHANGED <<task, dispatcher, lateStarts, faults>>

\* A slip: the copy loaded at the start is tested, without a refresh.
RefreshForgotten(r) ==
  /\ request[r].pc = "committed"
  /\ request' = [request EXCEPT ![r].pc =
       IF request[r].seen.status \in ReportableStatus THEN "reporting" ELSE "answered"]
  /\ UNCHANGED <<scan, rows, task, dispatcher, lateStarts, faults, overlapped>>

\* db.refresh(scan), then the test of the refreshed status.
Refresh(r) ==
  /\ request[r].pc = "committed"
  /\ request' = [request EXCEPT ![r].pc =
       IF scan.status \in ReportableStatus THEN "reporting" ELSE "answered"]
  /\ UNCHANGED <<scan, rows, task, dispatcher, lateStarts, faults, overlapped>>

\* queue_report_generation and the rag.index_scan message went out.
ReportQueued(r) ==
  /\ request[r].pc = "reporting"
  /\ request' = [request EXCEPT ![r].pc = "reported"]
  /\ UNCHANGED <<scan, rows, task, dispatcher, lateStarts, faults, overlapped>>

\* The request does not reach the API, its transaction is rolled back, or the
\* API process dies; after the commit the row stays and the rest is not done.
RequestFails(r) ==
  /\ request[r].pc \in OpenPc
  /\ faults < MaxFaults
  /\ faults' = faults + 1
  /\ request' = [request EXCEPT ![r].pc =
       CASE @ = "committed" -> "orphaned"
         [] @ = "reporting" -> "unreported"
         [] OTHER           -> "failed"]
  /\ UNCHANGED <<scan, rows, task, dispatcher, lateStarts, overlapped>>

-----------------------------------------------------------------------------
Handler(r) == Load(r) \/ Save(r) \/ Commit(r) \/ Refresh(r) \/ ReportQueued(r)

Outcome == {"completed", "failed"}

TaskStep(s) ==
  \/ BeginTask(s)
  \/ StartReturns(s)
  \/ \E outcome \in Outcome : SendFinal(s, outcome)
  \/ FinalReturns(s)

\* Nothing is left to do: only here may the system stop.
Quiet ==
  /\ dispatcher \in {"done", "dead"}
  /\ \A s \in Sources : task[s] \in {"done", "crashed", "unsent"}
  /\ \A r \in Requests : request[r].pc \in ClosedPc \union {"unsent"}

Terminated == Quiet /\ UNCHANGED vars

Next ==
  \/ PublishScan
  \/ DispatcherDies
  \/ \E s \in Sources : FanOut(s) \/ TaskStep(s) \/ StartTimesOut(s) \/ TaskDies(s)
  \/ \E r \in Requests : Handler(r) \/ RequestFails(r)
  \/ Terminated

Spec == Init /\ [][Next]_vars

\* The worker and the API run as long as they do not fail: every step the code
\* takes by itself is weakly fair, no failure and no timeout is.
Fairness ==
  /\ WF_vars(PublishScan)
  /\ \A s \in Sources : WF_vars(FanOut(s)) /\ WF_vars(TaskStep(s))
  /\ \A r \in Requests : WF_vars(Handler(r))

FairSpec == Spec /\ Fairness

-----------------------------------------------------------------------------
(* Properties.                                                             *)

\* Unless a task went on while its "running" call was still open, a scan is
\* shown as completed, partial or failed exactly when its progress is 100, and
\* then every source has a finished row and the status is the one those rows
\* give (save_source_result, lines 550-637, under concurrent callbacks).
TerminalIsSound ==
  lateStarts = 0 =>
    /\ scan.status \in TerminalStatus <=> scan.progress = 100
    /\ scan.status \in TerminalStatus =>
         /\ AllFinished(rows)
         /\ scan.status = AggregateStatus(rows)
         /\ scan.stamped

\* When every source has reported, the scan has its final status, unless two
\* callbacks overlapped: one committed between another's reading of the rows
\* and its commit.  Overlap is the only way this code loses a completion.
OnlyOverlapLosesCompletion ==
  AllFinished(rows) /\ ~overlapped => scan.status \in TerminalStatus

\* A scan that is completed or partial has a handler that goes on to queue its
\* report, or one that died right after its commit (internal.py, 215-229).
ReportIsAsked ==
  scan.status \in ReportableStatus =>
    \E r \in Requests : request[r].pc \in DurablePc \ {"answered"}

\* A source's finished result is never taken back, unless its "running" call
\* was late.
FinishedIsKept ==
  [][lateStarts' = 0 =>
       \A s \in Sources : rows[s] \in FinishedStatus => rows'[s] = rows[s]]_vars

\* No callback moves a scan out of a terminal status or restamps its progress.
TerminalIsFinal ==
  [][lateStarts' = 0 /\ scan.status \in TerminalStatus => scan' = scan]_vars

\* A client that polls the scan sees what ScanLifecycle promises: each source
\* reports once, the final status comes with the last report and stays.
Outcomes == [s \in Sources |-> IF rows[s] \in FinishedStatus THEN rows[s] ELSE "none"]

Lifecycle == INSTANCE ScanLifecycle WITH status <- scan.status, outcome <- Outcomes

\* The refinement holds as long as no "running" call is late (MaxLateStarts = 0).
ImplementsLifecycle == Lifecycle!Spec

\* Without faults every source's result is recorded in the end.
EveryResultIsRecorded == <>[]AllFinished(rows)

\* ... and the scan then has its final status, or two callbacks overlapped.
ConcludesOrOverlaps == <>(scan.status \in TerminalStatus \/ overlapped)

\* What the documents promise of every scan (see the findings in README.md).
EveryScanConcludes == <>(scan.status \in TerminalStatus)
=============================================================================
