--------------------------- MODULE BrandMonitoring ---------------------------
(* Looking for domains that imitate a verified one: the page                  *)
(* BrandMonitoringOverview.tsx and its list of candidates, the backend        *)
(* (brand_intelligence_service.py) and the task of the worker. The page knows *)
(* of the end of a run only from the time of the last run, which it polls.    *)
EXTENDS PageBounds, Sequences

VARIABLES jobs,     \* runs that are queued or on their way: no |-> how far
          started,  \* how many runs were started
          monitor,  \* at the backend: candidate found, decision on it, runs finished
          load,     \* the page is loading, and what was read
          shown,    \* the state of the page
          watch,    \* the loop behind "Run monitoring"
          polls,    \* how often it has asked
          notice,   \* what the page says of the run
          decision, \* the decision on display, of local_candidates
          saving    \* a decision that is being saved

bvars == <<jobs, started, monitor, load, shown, watch, polls, notice, decision, saving, clicks, faults>>
server == <<jobs, started, monitor>>
page   == <<load, shown, watch, polls, notice>>
review == <<decision, saving>>

MaxRuns == 2
Decisions == {"new", "under_review", "resolved"}
Overview == [found : BOOLEAN, decision : Decisions, last : 0..(1 + MaxRuns + MaxFaults)]
Failure == [kind |-> "error"]
Ready(overview) == [kind |-> "ready", overview |-> overview]

TypeOK ==
  /\ \A no \in DOMAIN jobs : jobs[no] \in {"queued", "ingesting", "over"}
  /\ started \in 0..MaxRuns /\ monitor \in Overview
  /\ load \in Overview \union {None}
  /\ shown \in [kind : {"loading", "error"}] \union [kind : {"ready"}, overview : Overview]
  /\ watch.step \in {"idle", "posting", "waiting", "polling"}
  /\ notice \in {"none", "running", "complete", "error", "late"}
  /\ decision \in Decisions /\ polls \in 0..MaxReportChecks

\* A run of an earlier visit may have finished before.
Init ==
  /\ jobs = <<>> /\ started = 0
  /\ monitor \in {[found |-> known, decision |-> "new", last |-> IF known THEN 1 ELSE 0] : known \in BOOLEAN}
  /\ load = monitor /\ shown = [kind |-> "loading"]
  /\ watch = [step |-> "idle", previous |-> 0, before |-> 0, read |-> None]
  /\ polls = 0 /\ notice = "none" /\ decision = "new" /\ saving = None
  /\ clicks = 0 /\ faults = 0

-----------------------------------------------------------------------------
(* The run of the worker, and its results at the backend: first the          *)
(* candidates are committed, then the time of the run.                       *)

upsert_candidates == [monitor EXCEPT !.found = TRUE]

ingest_worker_results(no) ==
  /\ no \in DOMAIN jobs
  /\ \/ jobs[no] = "queued" /\ monitor' = upsert_candidates
        /\ jobs' = [jobs EXCEPT ![no] = "ingesting"]
     \/ jobs[no] = "ingesting" /\ monitor' = [monitor EXCEPT !.last = @ + 1]
        /\ jobs' = [jobs EXCEPT ![no] = "over"]
  /\ UNCHANGED <<started, page, review, clicks, faults>>

\* The worker, or the request with its results, fails, or its answer is lost:
\* the task is tried again, or given up after two retries.
RunFails(no) ==
  /\ no \in DOMAIN jobs
  /\ Fault
  /\ \E step \in {"queued", "over"} : jobs' = [jobs EXCEPT ![no] = step]
  /\ UNCHANGED <<started, monitor, page, review, clicks>>

-----------------------------------------------------------------------------
(* Loading the page.                                                         *)

MonitoringLoaded ==
  /\ load # None
  /\ load' = None /\ shown' = Ready(load) /\ decision' = load.decision
  /\ UNCHANGED <<server, watch, polls, notice, saving, clicks, faults>>

LoadFails ==
  /\ load # None /\ Fault
  /\ load' = None /\ shown' = Failure
  /\ UNCHANGED <<server, watch, polls, notice, review, clicks>>

\* The button of the page waits for a run; "Try again" of the error does not.
Refresh ==
  /\ shown.kind = "error" \/ (shown.kind = "ready" /\ watch.step = "idle")
  /\ Click
  /\ load' = monitor /\ shown' = [kind |-> "loading"]
  /\ UNCHANGED <<server, watch, polls, notice, review, faults>>

-----------------------------------------------------------------------------
(* Running it.                                                               *)

\* What the page takes for the last run: nothing when it shows an error.
LastRunShown == IF shown.kind = "ready" THEN shown.overview.last ELSE 0

handle_trigger_monitoring ==
  /\ shown.kind # "loading" /\ watch.step = "idle" /\ started < MaxRuns /\ Click
  /\ watch' = [step |-> "posting", previous |-> LastRunShown, before |-> 0, read |-> None]
  /\ notice' = "none" /\ polls' = 0
  /\ UNCHANGED <<server, load, shown, review, faults>>

\* The answer says only that the run is queued.
RunQueued ==
  /\ watch.step = "posting"
  /\ started' = started + 1 /\ jobs' = Append(jobs, "queued")
  /\ shown' = Ready(monitor) /\ decision' = monitor.decision
  /\ watch' = [watch EXCEPT !.step = "waiting", !.before = monitor.last] /\ notice' = "running"
  /\ UNCHANGED <<monitor, load, polls, saving, clicks, faults>>

\* The run may have been queued all the same.
TriggerFails ==
  /\ watch.step = "posting" /\ Fault
  /\ \/ started' = started + 1 /\ jobs' = Append(jobs, "queued")
     \/ UNCHANGED <<started, jobs>>
  /\ watch' = [watch EXCEPT !.step = "idle"] /\ notice' = "error"
  /\ UNCHANGED <<monitor, load, shown, polls, review, clicks>>

Poll ==
  /\ watch.step = "waiting" /\ polls < MaxReportChecks
  /\ polls' = polls + 1
  /\ watch' = [watch EXCEPT !.step = "polling", !.read = monitor]
  /\ UNCHANGED <<server, load, shown, notice, review, clicks, faults>>

RunFinished == watch.read.last # 0 /\ watch.read.last # watch.previous

PollArrives ==
  /\ watch.step = "polling"
  /\ shown' = Ready(watch.read) /\ decision' = watch.read.decision
  /\ watch' = [watch EXCEPT !.step = IF RunFinished THEN "idle" ELSE "waiting"]
  /\ notice' = IF RunFinished THEN "complete" ELSE notice
  /\ UNCHANGED <<server, load, polls, saving, clicks, faults>>

\* One lost answer ends the waiting, not the run.
PollFails ==
  /\ watch.step = "polling" /\ Fault
  /\ watch' = [watch EXCEPT !.step = "idle"] /\ notice' = "error"
  /\ UNCHANGED <<server, load, shown, polls, review, clicks>>

\* MONITORING_TIMEOUT_MS.
WaitingTimesOut ==
  /\ watch.step = "waiting" /\ polls = MaxReportChecks
  /\ watch' = [watch EXCEPT !.step = "idle"] /\ notice' = "late"
  /\ UNCHANGED <<server, load, shown, polls, review, clicks, faults>>

-----------------------------------------------------------------------------
(* The decision on a candidate: handle_status_update, BrandCandidateList.    *)

handle_status_update(choice) ==
  /\ shown.kind = "ready" /\ shown.overview.found /\ saving = None /\ choice # decision
  /\ Click
  /\ saving' = [choice |-> choice, served |-> FALSE]
  /\ UNCHANGED <<server, page, decision, faults>>

update_candidate_status ==
  /\ saving # None /\ ~saving.served
  /\ monitor' = [monitor EXCEPT !.decision = saving.choice]
  /\ saving' = [saving EXCEPT !.served = TRUE]
  /\ UNCHANGED <<jobs, started, page, decision, clicks, faults>>

DecisionSaved ==
  /\ saving # None /\ saving.served
  /\ decision' = saving.choice /\ saving' = None
  /\ UNCHANGED <<server, page, clicks, faults>>

DecisionFails ==
  /\ saving # None /\ Fault
  /\ saving' = None
  /\ UNCHANGED <<server, page, decision, clicks>>

Next ==
  \/ \E no \in 1..MaxRuns : ingest_worker_results(no) \/ RunFails(no)
  \/ MonitoringLoaded \/ LoadFails \/ Refresh
  \/ handle_trigger_monitoring \/ RunQueued \/ TriggerFails
  \/ Poll \/ PollArrives \/ PollFails \/ WaitingTimesOut
  \/ \E choice \in Decisions \ {"new"} : handle_status_update(choice)
  \/ update_candidate_status \/ DecisionSaved \/ DecisionFails

\* Requests are answered and the timer of the loop fires; nothing is assumed of
\* the worker.
WaitingGoesOn == RunQueued \/ Poll \/ PollArrives \/ WaitingTimesOut

Fairness == WF_bvars(WaitingGoesOn)

Spec == Init /\ [][Next]_bvars
FairSpec == Spec /\ Fairness

-----------------------------------------------------------------------------
\* A page that shows the time of a run shows its candidates: nobody reads
\* between the two commits what the first has not yet put there.
ResultsAreThere ==
  shown.kind = "ready" /\ shown.overview.last > 0 => shown.overview.found

\* Runs, retried or overlapping, leave the decisions of the analyst alone.
KeepsDecision == monitor.decision # "new" => monitor'.decision # "new"
DecisionIsKept == [][KeepsDecision]_bvars

\* The page does not wait for ever for a run that never finishes.
Waiting == watch.step # "idle"
WaitingEnds == Waiting ~> ~Waiting

\* Why: nothing is saved but a decision, and a run writes the other columns.
IInv ==
  /\ monitor \in [found : BOOLEAN, decision : Decisions, last : Nat]
  /\ saving \in {None} \union [choice : Decisions \ {"new"}, served : BOOLEAN]
=============================================================================
