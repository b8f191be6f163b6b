-------------------------- MODULE ReportLifecycle --------------------------
(***************************************************************************)
(* The PDF report of one scan.                                             *)
(*                                                                         *)
(* A handler is a source callback that found its scan completed or partial *)
(* (the "reporting" requests of ScanCallbacks).  Nothing keeps two of them *)
(* from generating the report at the same time: the test of the report's   *)
(* status and the write that follows it are separate transactions.         *)
(*                                                                         *)
(*   idle --> checked --> creating --> marking --> loading --> building    *)
(*     \--> done   \---------------------^             --> recording       *)
(*                                                          --> done       *)
(*                                                                         *)
(* Each published task renders the PDF and calls the API back; a callback  *)
(* that fails is logged and forgotten (send_report_callback).  A handler   *)
(* keeps a copy of the report row and writes what differs from the copy    *)
(* (OrmSession).                                                           *)
(***************************************************************************)
EXTENDS Integers, FiniteSets, OrmSession

CONSTANTS
  Handlers,   \* the callbacks that ask for the report
  MaxFaults   \* bound: crashes and lost callbacks

ASSUME ReportAssumption == IsFiniteSet(Handlers) /\ MaxFaults \in Nat

VARIABLES
  report,    \* the committed reports row; status "none": there is no row
  handler,   \* the handlers, each with its copy of the row's status
  render,    \* the scan.render_report task each handler publishes
  faults,
  contended  \* history: a handler went on while a generation was under way

vars == <<report, handler, render, faults, contended>>

ReportStatus == {"none", "pending", "generating", "completed", "failed"}
Settled == {"completed", "failed"}
Report == [status : ReportStatus, pdf : BOOLEAN]

HandlerPc == {"idle", "checked", "creating", "marking", "loading", "building",
              "recording", "done", "error", "dead"}
HandlerOpen == HandlerPc \ {"idle", "done", "error", "dead"}
Handler == [pc : HandlerPc, held : BOOLEAN, copy : ReportStatus]

RenderPc == {"none", "queued", "calling", "loaded", "done"}
RenderOpen == RenderPc \ {"none", "done"}
Render == [pc : RenderPc, target : Settled, copy : Report]

TypeOK ==
  /\ report \in Report
  /\ handler \in [Handlers -> Handler]
  /\ render \in [Handlers -> Render]
  /\ faults \in 0..MaxFaults
  /\ contended \in BOOLEAN

NoReport == [status |-> "none", pdf |-> FALSE]

Init ==
  /\ report = NoReport
  /\ handler = [h \in Handlers |-> [pc |-> "idle", held |-> FALSE, copy |-> "none"]]
  /\ render = [h \in Handlers |-> [pc |-> "none", target |-> "failed", copy |-> NoReport]]
  /\ faults = 0
  /\ contended = FALSE

\* A generation is under way.
Busy == \E h \in Handlers : handler[h].pc \in HandlerOpen \/ render[h].pc \in RenderOpen

-----------------------------------------------------------------------------
(* The handler: internal.py 215-222, then queue_report_generation.         *)

\* A row the route has read stays in its session (held) for the whole request.
Check(h) ==
  /\ handler[h].pc = "idle"
  /\ IF report.status \in {"generating", "completed"}
     THEN /\ handler' = [handler EXCEPT ![h].pc = "done"]
          /\ UNCHANGED contended
     ELSE /\ handler' = [handler EXCEPT ![h] =
               [pc |-> "checked", held |-> report.status # "none", copy |-> report.status]]
          /\ contended' = (contended \/ Busy)
  /\ UNCHANGED <<report, render, faults>>

\* get_or_create_report: the row is read, unless it is held ...
Find(h) ==
  /\ handler[h].pc = "checked"
  /\ handler' = [handler EXCEPT
       ![h].pc = IF report.status = "none" THEN "creating" ELSE "marking",
       ![h].copy = IF handler[h].held THEN @ ELSE report.status]
  /\ UNCHANGED <<report, render, faults, contended>>

\* A slip: the row is inserted with the name of the task's state.
CreateQueued(h) ==
  /\ handler[h].pc = "creating"
  /\ IF report.status = "none"
     THEN /\ report' = [report EXCEPT !.status = "queued"]
          /\ handler' = [handler EXCEPT ![h].pc = "marking", ![h].copy = "pending"]
     ELSE /\ handler' = [handler EXCEPT ![h].pc = "error"]
          /\ UNCHANGED report
  /\ UNCHANGED <<render, faults, contended>>

\* ... or inserted.  scan_id is unique: the second insert is an error, after
\* which the session refuses to mark the report failed; the caller gets a 500.
Create(h) ==
  /\ handler[h].pc = "creating"
  /\ IF report.status = "none"
     THEN /\ report' = [report EXCEPT !.status = "pending"]
          /\ handler' = [handler EXCEPT ![h].pc = "marking", ![h].copy = "pending"]
     ELSE /\ handler' = [handler EXCEPT ![h].pc = "error"]
          /\ UNCHANGED report
  /\ UNCHANGED <<render, faults, contended>>

\* mark_report_generating: set, commit, refresh.
MarkGenerating(h) ==
  /\ handler[h].pc = "marking"
  /\ report' = [report EXCEPT !.status = Written("generating", handler[h].copy, @)]
  /\ handler' = [handler EXCEPT ![h].pc = "loading", ![h].copy = report'.status]
  /\ UNCHANGED <<render, faults, contended>>

\* load_report_data: a row that is not held was dropped from the session after
\* the refresh, and is read again.
LoadData(h) ==
  /\ handler[h].pc = "loading"
  /\ handler' = [handler EXCEPT
       ![h].pc = "building",
       ![h].copy = IF handler[h].held THEN @ ELSE report.status]
  /\ UNCHANGED <<report, render, faults, contended>>

\* The HTML is rendered and send_task has published it.
Publish(h) ==
  /\ handler[h].pc = "building"
  /\ handler' = [handler EXCEPT ![h].pc = "recording"]
  /\ render' = [render EXCEPT ![h].pc = "queued"]
  /\ UNCHANGED <<report, faults, contended>>

\* A slip: the failure is raised and not recorded.
BuildFailsSilently(h) ==
  /\ handler[h].pc = "building"
  /\ handler' = [handler EXCEPT ![h].pc = "error"]
  /\ UNCHANGED <<report, render, faults, contended>>

\* The context, the template or the broker raises: mark_report_failed.
BuildFails(h) ==
  /\ handler[h].pc = "building"
  /\ report' = [report EXCEPT !.status = Written("failed", handler[h].copy, @)]
  /\ handler' = [handler EXCEPT ![h].pc = "error"]
  /\ UNCHANGED <<render, faults, contended>>

\* mark_report_task_queued: the status is set to GENERATING once more.
RecordTask(h) ==
  /\ handler[h].pc = "recording"
  /\ report' = [report EXCEPT !.status = Written("generating", handler[h].copy, @)]
  /\ handler' = [handler EXCEPT ![h].pc = "done"]
  /\ UNCHANGED <<render, faults, contended>>

-----------------------------------------------------------------------------
(* The task scan.render_report and its callback.                           *)

\* The PDF is rendered and stored, or one of the two fails.
RenderPdf(h, target) ==
  /\ render[h].pc = "queued"
  /\ render' = [render EXCEPT ![h].pc = "calling", ![h].target = target]
  /\ UNCHANGED <<report, handler, faults, contended>>

\* update_report_status_callback reads the row.  apply_report_callback changes
\* nothing when the status is the same, and answers 409 unless it is pending or
\* generating; the task takes no notice of either.
CallbackLoads(h) ==
  /\ render[h].pc = "calling"
  /\ render' = [render EXCEPT
       ![h].pc = IF report.status \in {"pending", "generating"} THEN "loaded" ELSE "done",
       ![h].copy = report]
  /\ UNCHANGED <<report, handler, faults, contended>>

\* A slip: the status is taken over and the storage reference is not.
CallbackCommitsStatus(h) ==
  /\ render[h].pc = "loaded"
  /\ report' = [report EXCEPT
       !.status = Written(render[h].target, render[h].copy.status, @)]
  /\ render' = [render EXCEPT ![h].pc = "done"]
  /\ UNCHANGED <<handler, faults, contended>>

\* The storage reference is the same for every rendering of a scan.
CallbackCommits(h) ==
  /\ render[h].pc = "loaded"
  /\ LET target == render[h].target
         copy == render[h].copy
     IN report' = [status |-> Written(target, copy.status, report.status),
                   pdf    |-> Written(target = "completed", copy.pdf, report.pdf)]
  /\ render' = [render EXCEPT ![h].pc = "done"]
  /\ UNCHANGED <<handler, faults, contended>>

-----------------------------------------------------------------------------
(* Faults.                                                                 *)

HandlerDies(h) ==
  /\ handler[h].pc \in HandlerOpen
  /\ faults < MaxFaults
  /\ faults' = faults + 1
  /\ handler' = [handler EXCEPT ![h].pc = "dead"]
  /\ UNCHANGED <<report, render, contended>>

\* The worker dies, or the callback does not get through.
RenderLost(h) ==
  /\ render[h].pc \in RenderOpen
  /\ faults < MaxFaults
  /\ faults' = faults + 1
  /\ render' = [render EXCEPT ![h].pc = "done"]
  /\ UNCHANGED <<report, handler, contended>>

-----------------------------------------------------------------------------
\* The steps of an accepted request; its arrival (Check) is not one of them.
HandlerStep(h) ==
  Find(h) \/ Create(h) \/ MarkGenerating(h) \/ LoadData(h) \/ Publish(h)
    \/ BuildFails(h) \/ RecordTask(h)

RenderStep(h) ==
  (\E target \in Settled : RenderPdf(h, target)) \/ CallbackLoads(h) \/ CallbackCommits(h)

Terminated ==
  /\ ~Busy
  /\ \A h \in Handlers : handler[h].pc # "idle"
  /\ UNCHANGED vars

Next ==
  \/ \E h \in Handlers : Check(h) \/ HandlerStep(h) \/ RenderStep(h)
  \/ \E h \in Handlers : HandlerDies(h) \/ RenderLost(h)
  \/ Terminated

Spec == Init /\ [][Next]_vars

\* A request and a task that have begun are run to their end.
Fairness == \A h \in Handlers : WF_vars(HandlerStep(h)) /\ WF_vars(RenderStep(h))

FairSpec == Spec /\ Fairness

-----------------------------------------------------------------------------
(* Properties.                                                             *)

\* A report shown as generating is being generated: somebody is still going to
\* settle it, unless a crash or a lost callback took that somebody away, or two
\* generations ran at once (report_service.py 63-125 against the callbacks).
GeneratingIsUnderWay ==
  report.status \in {"pending", "generating"} => Busy \/ faults > 0 \/ contended

\* A completed report can be downloaded (require_download wants both columns);
\* with one generation at a time also after failures, retries and crashes.
CompletedHasPdf == report.status = "completed" /\ ~contended => report.pdf

\* A completed report is not taken back, neither by a late failure nor by a
\* handler that records its task after the task has called back.
CompletedIsKept ==
  [][report.status = "completed" /\ ~contended' => report' = report]_vars

\* Without faults a generation that began is settled, or two of them overlapped.
GenerationSettles ==
  report.status \in {"pending", "generating"} ~>
    (report.status \in Settled \/ contended \/ faults > 0)

\* What the documents promise (see the findings in README.md).
EveryReportSettles ==
  report.status \in {"pending", "generating"} ~> report.status \in Settled
=============================================================================
