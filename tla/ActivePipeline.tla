--------------------------- MODULE ActivePipeline ---------------------------
(***************************************************************************)
(* The workers' side of an active (Phase 2) scan: the chain of Celery      *)
(* tasks and the isolated pipeline container.                              *)
(*                                                                         *)
(*   scan.phase2_full --> dns, shodan, hibp                                *)
(*                    \-> crt.sh --> target_resolution --> nmap            *)
(*          nmap runs the container (nmap, http_security, tls,             *)
(*          fingerprint) --> cpe_resolver --> cve                          *)
(*                                                                         *)
(* A task is a script of source callbacks, sent one after the other, and a *)
(* task it publishes at its end.  A hint (the "running" callbacks and the  *)
(* last-resort ones) may fail without consequence; a failed call raises in *)
(* the task.  The backend's handling of one callback is a single step      *)
(* here: what happens when two overlap is the subject of ScanCallbacks.    *)
(***************************************************************************)
EXTENDS ScanSources, Sequences

CONSTANTS
  PipelineRuns,  \* the outcomes of the container's four sources to consider
  MaxFaults      \* bound: failed calls, failed publications, crashes

PipelineSources == {"nmap", "http_security", "tls", "fingerprint"}
ChainSources == {"crt.sh", "target_resolution", "cpe_resolver", "cve"}

\* "skipped" means that a source had no jobs.  The jobs come from the ports nmap
\* found: without a scanned address there are none.
PipelineResult == {"completed", "failed", "partial", "skipped"}
PossibleRuns ==
  {run \in [PipelineSources -> PipelineResult] :
     run["nmap"] \in {"failed", "skipped"} =>
       \A s \in PipelineSources \ {"nmap"} : run[s] = "skipped"}

MaxRetries == 2        \* max_retries of scan.phase2_nmap
Attempts == 1..(MaxRetries + 1)
Container == <<"container_1", "container_2", "container_3">>   \* one per attempt
Containers == {Container[a] : a \in Attempts}

ASSUME ActiveAssumption ==
  /\ PipelineSources \union ChainSources \subseteq Sources
  /\ Sources \intersect (Containers \union {"none"}) = {}
  /\ PipelineRuns \subseteq PossibleRuns
  /\ MaxFaults \in Nat

\* dns, shodan and hibp: one task each, nothing after it.
Leaves == Sources \ (PipelineSources \union ChainSources)

Tasks == Leaves \union ChainSources \union {"nmap"} \union Containers

VARIABLES
  scan,        \* the status column of the scan
  rows,        \* its scan_sources rows
  boot,        \* scan.phase2_full: "queued", "done" or "failed"
  job,         \* the tasks and containers
  attempt,     \* the current attempt of scan.phase2_nmap
  authorised,  \* the backend would still grant a stage of this scan
  abandoned,   \* history: a container goes on although its task stopped waiting
  faults

vars == <<scan, rows, boot, job, attempt, authorised, abandoned, faults>>

JobPc == {"absent", "queued", "active", "waiting", "ended", "crashed"}

\* A callback whose failure raises, and one whose failure is only logged.
Call(source, status) == [source |-> source, status |-> status, strict |-> TRUE]
Hint(source, status) == [source |-> source, status |-> status, strict |-> FALSE]

\* What a task does: its callbacks, the task it publishes, its exit status.
Script(outbox, next) == [outbox |-> outbox, next |-> next, ok |-> TRUE]
FailedScript(outbox) == [outbox |-> outbox, next |-> "none", ok |-> FALSE]

Idle == [pc |-> "absent", script |-> Script(<<>>, "none")]

TypeOK ==
  /\ scan \in ScanStatus
  /\ rows \in Rows
  /\ boot \in {"queued", "done", "failed"}
  /\ DOMAIN job = Tasks
  /\ \A n \in Tasks : job[n].pc \in JobPc /\ job[n].script.next \in Tasks \union {"none"}
  /\ attempt \in Attempts
  /\ authorised \in BOOLEAN
  /\ abandoned \in BOOLEAN
  /\ faults \in 0..MaxFaults

Init ==
  /\ scan = "queued"
  /\ rows = [s \in Sources |-> "none"]
  /\ boot = "queued"
  /\ job = [n \in Tasks |-> Idle]
  /\ attempt = 1
  /\ authorised = TRUE
  /\ abandoned = FALSE
  /\ faults = 0

Fault == faults < MaxFaults /\ faults' = faults + 1

\* Phase2ExecutionService.authorise grants a stage only to a live scan.
Granted == authorised /\ scan \in {"queued", "running"}

\* The client deletes the domain or the schedule, or its DNS record goes.
Revoke ==
  /\ authorised
  /\ authorised' = FALSE
  /\ UNCHANGED <<scan, rows, boot, job, attempt, abandoned, faults>>

-----------------------------------------------------------------------------
(* scan.phase2_full.                                                       *)

Queued(names) == [n \in Tasks |-> IF n \in names THEN [job[n] EXCEPT !.pc = "queued"]
                                                ELSE job[n]]

Bootstrap ==
  /\ boot = "queued"
  /\ Granted
  /\ boot' = "done"
  /\ job' = Queued(Leaves \union {"crt.sh"})
  /\ UNCHANGED <<scan, rows, attempt, authorised, abandoned, faults>>

\* The check was refused or could not be made: send_scan_callback, then raise.
BootstrapRefused ==
  /\ boot = "queued"
  /\ ~Granted
  /\ boot' = "failed"
  /\ scan' = "failed"
  /\ UNCHANGED <<rows, job, attempt, authorised, abandoned, faults>>

\* The task dies on the way: some tasks are never published (crt.sh is last),
\* or the failure callback is lost.
BootstrapDies ==
  /\ boot = "queued"
  /\ Fault
  /\ boot' = "failed"
  /\ \E sent \in SUBSET Leaves : job' = Queued(IF Granted THEN sent ELSE {})
  /\ UNCHANGED <<scan, rows, attempt, authorised, abandoned>>

-----------------------------------------------------------------------------
(* The scripts of the tasks.                                               *)

Outcome == {"completed", "failed"}

LeafScripts(s) == {Script(<<Hint(s, "running"), Call(s, o)>>, "none") : o \in Outcome}

\* continue_phase2 is set: the chain goes on even if crt.sh itself failed.
CrtShScripts == {Script(<<Hint("crt.sh", "running"), Call("crt.sh", o)>>,
                        "target_resolution") : o \in Outcome}

\* A slip: cve is forgotten in the list below.
SkippedWithoutCve == <<"nmap", "http_security", "tls", "fingerprint">>

\* The sources a failed target resolution declares skipped.
SkippedByResolution == <<"nmap", "http_security", "tls", "fingerprint", "cve">>

ResolutionStart == <<Hint("target_resolution", "running")>>

Resolved == Script(ResolutionStart \o <<Call("target_resolution", "completed")>>, "nmap")

\* A slip: the failure branch goes on to publish the nmap task.
ResolutionFailsOpen ==
  Script(ResolutionStart \o <<Call("target_resolution", "failed")>>
           \o [i \in DOMAIN SkippedByResolution |-> Call(SkippedByResolution[i], "skipped")],
         "nmap")

NothingResolved ==
  Script(ResolutionStart \o <<Call("target_resolution", "failed")>>
           \o [i \in DOMAIN SkippedByResolution |-> Call(SkippedByResolution[i], "skipped")],
         "none")

\* Without the grant the resolution ends in its except branch, as failed.
ResolutionScripts == {NothingResolved} \union IF Granted THEN {Resolved} ELSE {}

\* The order of the container's sources in the code.
PipelineOrder == <<"nmap", "http_security", "tls", "fingerprint">>

\* The sources a failed container leaves behind are reported by the nmap task.
AfterFailedContainer ==
  Script([i \in DOMAIN PipelineOrder |-> Call(PipelineOrder[i], "failed")]
           \o <<Call("cve", "skipped")>>, "none")

\* A slip: the announcement uses a status the enum does not have.
AnnounceStarted(source, result) ==
  Call(source, IF result = "skipped" THEN "skipped" ELSE "started")

\* A source is announced; if it has no jobs that is its result.
Announce(source, result) ==
  Call(source, IF result = "skipped" THEN "skipped" ELSE "running")

\* Inside the container nmap comes first, then the other three: announced one
\* after the other, and each reported when its last job has ended.
PipelineScript(run) ==
  LET Announced(s) == <<Announce(s, run[s])>>
      Reported(s) == IF run[s] = "skipped" THEN <<>> ELSE <<Call(s, run[s])>>
  IN Script(Announced("nmap") \o Reported("nmap")
              \o Announced("http_security") \o Announced("tls") \o Announced("fingerprint")
              \o Reported("http_security") \o Reported("tls") \o Reported("fingerprint"),
            "none")

\* The CLI's last resort: four failure hints and exit status 1.
FatalError == FailedScript(
  [i \in DOMAIN PipelineOrder |-> Hint(PipelineOrder[i], "failed")])

ContainerScripts ==
  IF Granted THEN {PipelineScript(run) : run \in PipelineRuns} ELSE {FatalError}

CpeScripts ==
  {Script(<<Hint("cve", "running"), Call("cpe_resolver", "completed")>>, "cve"),
   Script(<<Hint("cve", "running"), Call("cpe_resolver", "failed"),
            Hint("cve", "failed")>>, "none")}

Scripts(n) ==
  CASE n \in Leaves            -> LeafScripts(n)
    [] n = "crt.sh"            -> CrtShScripts
    [] n = "target_resolution" -> ResolutionScripts
    [] n \in Containers        -> ContainerScripts
    [] n = "cpe_resolver"      -> CpeScripts
    [] n = "cve"               -> LeafScripts("cve")

-----------------------------------------------------------------------------
(* Running a task.                                                         *)

\* A task other than nmap starts: what will come of it is chosen here.
Begin(n) ==
  /\ n # "nmap"
  /\ job[n].pc = "queued"
  /\ \E script \in Scripts(n) :
       job' = [job EXCEPT ![n] = [pc |-> "active", script |-> script]]
  /\ UNCHANGED <<scan, rows, boot, attempt, authorised, abandoned, faults>>

\* scan.phase2_nmap starts its container and waits for it.
BeginNmap ==
  /\ job["nmap"].pc = "queued"
  /\ job' = [job EXCEPT !["nmap"].pc = "waiting", ![Container[attempt]].pc = "queued"]
  /\ UNCHANGED <<scan, rows, boot, attempt, authorised, abandoned, faults>>

\* save_source_result: the row and the scan's status.
Record(call) ==
  /\ rows' = [rows EXCEPT ![call.source] = call.status]
  /\ scan' = AggregateStatus(rows')

\* The backend handles the next callback.
Deliver(n) ==
  /\ job[n].pc = "active"
  /\ job[n].script.outbox # <<>>
  /\ Record(Head(job[n].script.outbox))
  /\ job' = [job EXCEPT ![n].script.outbox = Tail(@)]
  /\ UNCHANGED <<boot, attempt, authorised, abandoned, faults>>

\* The script is at its end: the next task is published.
End(n) ==
  /\ job[n].pc = "active"
  /\ job[n].script.outbox = <<>>
  /\ LET next == job[n].script.next IN
       job' = [m \in Tasks |->
         IF m = n THEN [job[n] EXCEPT !.pc = IF job[n].script.ok THEN "ended" ELSE "crashed"]
         ELSE IF m = next THEN [job[m] EXCEPT !.pc = "queued"]
         ELSE job[m]]
  /\ UNCHANGED <<scan, rows, boot, attempt, authorised, abandoned, faults>>

\* A slip: the exit status of the container is not looked at.
ContainerReturnsUnchecked ==
  /\ job["nmap"].pc = "waiting"
  /\ job[Container[attempt]].pc \in {"ended", "crashed"}
  /\ job' = [job EXCEPT !["nmap"] =
       [pc |-> "active", script |-> Script(<<>>, "cpe_resolver")]]
  /\ UNCHANGED <<scan, rows, boot, attempt, authorised, abandoned, faults>>

\* A slip: a container that failed is waited for as if it still ran.
ContainerReturnsIfOk ==
  /\ job["nmap"].pc = "waiting"
  /\ job[Container[attempt]].pc = "ended"
  /\ job' = [job EXCEPT !["nmap"] =
       [pc |-> "active", script |-> Script(<<>>, "cpe_resolver")]]
  /\ UNCHANGED <<scan, rows, boot, attempt, authorised, abandoned, faults>>

\* The container has exited: cpe_resolver is next, or the failure is reported.
ContainerReturns ==
  /\ job["nmap"].pc = "waiting"
  /\ job[Container[attempt]].pc \in {"ended", "crashed"}
  /\ job' = [job EXCEPT !["nmap"] =
       [pc |-> "active",
        script |-> IF job[Container[attempt]].pc = "ended"
                   THEN Script(<<>>, "cpe_resolver") ELSE AfterFailedContainer]]
  /\ UNCHANGED <<scan, rows, boot, attempt, authorised, abandoned, faults>>

-----------------------------------------------------------------------------
(* Faults.                                                                 *)

\* An exception leaves the task: only scan.phase2_nmap retries by itself
\* (autoretry_for), and the container's main reports what it can.
Raised(n) ==
  CASE n \in Containers -> [pc |-> "active", script |-> FatalError]
    [] n = "nmap" /\ attempt <= MaxRetries -> [job[n] EXCEPT !.pc = "queued"]
    [] OTHER -> [job[n] EXCEPT !.pc = "crashed"]

Raise(n) ==
  /\ job' = [job EXCEPT ![n] = Raised(n)]
  /\ attempt' = IF n = "nmap" /\ attempt <= MaxRetries THEN attempt + 1 ELSE attempt

\* A callback is lost or answered with an error, or only its answer is lost.
CallFails(n) ==
  /\ job[n].pc = "active"
  /\ job[n].script.outbox # <<>>
  /\ Fault
  /\ Record(Head(job[n].script.outbox)) \/ UNCHANGED <<scan, rows>>
  /\ IF Head(job[n].script.outbox).strict
     THEN Raise(n)
     ELSE /\ job' = [job EXCEPT ![n].script.outbox = Tail(@)]
          /\ UNCHANGED attempt
  /\ UNCHANGED <<boot, authorised, abandoned>>

\* The broker refuses the next task, or reading the inventory fails.
PublishFails(n) ==
  /\ job[n].pc = "active"
  /\ job[n].script.outbox = <<>>
  /\ job[n].script.next # "none"
  /\ Fault
  /\ Raise(n)
  /\ UNCHANGED <<scan, rows, boot, authorised, abandoned>>

\* A worker process or a container is killed: nothing is delivered again.
Dies(n) ==
  /\ job[n].pc \in {"active", "waiting"}
  /\ Fault
  /\ job' = [job EXCEPT ![n].pc = "crashed"]
  /\ UNCHANGED <<scan, rows, boot, attempt, authorised, abandoned>>

\* The container cannot be started, or the Fargate waiter stops waiting after
\* ten minutes while the container goes on.
DispatchFails ==
  /\ job["nmap"].pc = "waiting"
  /\ Fault
  /\ \/ /\ job[Container[attempt]].pc = "queued"
        /\ job' = [job EXCEPT !["nmap"] = [pc |-> "active", script |-> AfterFailedContainer],
                              ![Container[attempt]].pc = "absent"]
        /\ UNCHANGED abandoned
     \/ /\ job[Container[attempt]].pc = "active"
        /\ job' = [job EXCEPT !["nmap"] = [pc |-> "active", script |-> AfterFailedContainer]]
        /\ abandoned' = TRUE
  /\ UNCHANGED <<scan, rows, boot, attempt, authorised>>

-----------------------------------------------------------------------------
Drained ==
  /\ boot # "queued"
  /\ \A n \in Tasks : job[n].pc \in {"absent", "ended", "crashed"}

Terminated == Drained /\ UNCHANGED vars

TaskStep(n) == Begin(n) \/ Deliver(n) \/ End(n)

Next ==
  \/ Revoke
  \/ Bootstrap \/ BootstrapRefused \/ BootstrapDies
  \/ BeginNmap \/ ContainerReturns \/ DispatchFails
  \/ \E n \in Tasks : TaskStep(n) \/ CallFails(n) \/ PublishFails(n) \/ Dies(n)
  \/ Terminated

Spec == Init /\ [][Next]_vars

\* The workers and the backend make progress; revocations and faults are not fair.
Fairness ==
  /\ WF_vars(Bootstrap) /\ WF_vars(BootstrapRefused)
  /\ WF_vars(BeginNmap) /\ WF_vars(ContainerReturns)
  /\ \A n \in Tasks : WF_vars(TaskStep(n))

FairSpec == Spec /\ Fairness

-----------------------------------------------------------------------------
(* Properties.                                                             *)

Conclusive == {"completed", "partial"}

\* No stage reports a result before the stages it depends on have theirs: a
\* port scan follows a resolution, CPE resolution follows a container that
\* reported all four of its sources, and CVE matching follows CPE resolution.
\* It holds through failed calls and retries, as long as no container outlives
\* the wait for it: the retry would then start a second one beside it.
StagesInOrder ==
  ~abandoned =>
  /\ rows["nmap"] \in {"running"} \union Conclusive => rows["target_resolution"] = "completed"
  /\ rows["cpe_resolver"] # "none" => \A s \in PipelineSources : rows[s] \in FinishedStatus
  /\ rows["cve"] = "completed" => rows["cpe_resolver"] = "completed"

\* A scan that has its final status keeps it and all its rows: no retry and no
\* later stage reports into it.  There are two exceptions.  A container was
\* abandoned, as above; or scan.phase2_nmap was retried although the report of
\* its failure had arrived: the "skipped" it wrote for cve then counts as
\* finished, while cpe_resolver and cve are still to come.
ConcludedIsFinal ==
  [][/\ ~abandoned'
     /\ scan \in TerminalStatus
     /\ attempt > 1 => rows["cve"] # "skipped"
     => UNCHANGED <<scan, rows>>]_vars

\* Without faults, when no task is left, every source has a finished row, with
\* one exception: cpe_resolver, when no target was resolved or the container
\* failed (target_resolution_task.py 139-145 and nmap_task.py 71-92 leave it out).
OnlyCpeResolverIsLeftOut ==
  Drained /\ faults = 0 /\ boot = "done" =>
    \A s \in Sources : rows[s] \notin FinishedStatus =>
      /\ s = "cpe_resolver"
      /\ \/ rows["target_resolution"] = "failed"
         \/ \A p \in PipelineSources : rows[p] = "failed"

\* Every task ends, retries included: the chain cannot wait for itself.
ChainDrains == <>Drained

\* What the requirements promise of an active scan (a finding in README.md).
EveryActiveScanConcludes == <>(scan \in TerminalStatus)
=============================================================================
