# Verification of PenFlow in TLA+

PenFlow is a security-assessment platform: a FastAPI backend over PostgreSQL, Celery workers behind
RabbitMQ, isolated scan containers, and a web client in Next.js. This directory holds TLA+ models of its
concurrent core and of the pages of the client with the services behind them, the TLC runs that check
them on small instances, and TLAPS proofs of what matters most for every instance.

All paths below are relative to the repository.

## 1. Inventory

| Component | State | Operations | Talks to | What is hard |
|---|---|---|---|---|
| Scan and source callbacks (`backend/app/repositories/scan_repo.py`, `api/routes/internal.py`, `services/scan_service.py`) | `scans.status`, `progress`, `completed_at`; one `scan_sources` row per source | `start_scan`, `publish_scan_task`, `scan.full`, the source callback, `save_source_result` | Workers call it over HTTP; it asks for the report and for indexing | Callbacks run in concurrent READ COMMITTED transactions without a lock; requests keep stale copies; lost or late calls |
| Active scan pipeline (`workers/app/tasks`, `cli.py`, `utils/job_runner.py`) | Messages in RabbitMQ, the container's exit status | `scan.phase2_full`, `crt_sh`, `target_resolution`, `nmap`, container, `cpe_resolver`, `cve` | Source callbacks, authorisation calls, ECS or Docker | A chain in which every exit must report every remaining source; a task that retries as a whole; authorisation withdrawn on the way |
| Scan report (`services/report_service.py`, `repositories/report_repository.py`, `services/callback_validation.py`, `workers/app/tasks/report_tasks.py`) | `reports.status`, `pdf_path`, `task_id` | `queue_report_generation`, `scan.render_report`, the report callback | Source callbacks start it; the worker calls back | Check-then-act in separate transactions, a callback that overtakes the bookkeeping of its publisher, lost callbacks |
| Scheduled scans (`services/scan_schedule_service.py`, `schedule_calculator.py`) | `scan_schedules.next_run_at`, unique `(schedule_id, scheduled_for)` | create, update, delete, `dispatch_due_schedules` | Domain verification, scan dispatch, every stage of a scheduled scan | Concurrent dispatchers (SKIP LOCKED), requests that write what they read before a DNS lookup, a message that is out before its commit |
| Domain verification and authorisation (`services/domain_service.py`, `phase2_authorisation_service.py`, `phase2_execution_service.py`) | `verified_domains.status`, the authorisation document of a scan or schedule | `add_domain`, `verify_domain`, `issue`, `validate`, `authorise` | DNS, every stage of an active scan | Verification that becomes invalid while a scan runs |
| Engagement workflow (`services/service_delivery_service.py`, `engagement_service.py`) | `engagements.status`, assignment, dates; pentester availability | claim, scope, assign, schedule, start, submit, return, complete, cancel, reassign, reschedule, deactivate | Reports, notifications, audit | Guards read before the write; two users at once; availability derived from several rows |
| Findings and retests (`services/finding_service.py`, `retest_service.py`) | Findings, evidence, `finding_retests.status` | create, update, verify, delete, request and update a retest | Engagement workflow | The last of several retests closes the cycle |
| Engagement reports (`report_service.py` 127-171, `report_access_service.py`, `workers/app/tasks/report_tasks.py` 71-128) | Versioned `reports` rows, one PDF per version, the e-mail | queue, retry, callback, return and complete the review | Worker, engagement workflow | A row that is marked after the submission has committed; a retry beside a generation; a review completed on what was read before |
| Evidence quarantine (`evidence_quarantine_service.py`, `evidence_storage_service.py`, `api/routes/findings.py`) | `quarantine_status`, `scan_attempts`, `next_scan_at`, `sha256`; the objects of the storage | upload, `process_one`, `retry`, download, deletion with the finding | Storage, antivirus | A row and an object that no transaction holds together; several workers; bounded retries |
| Identity administration (`services/service_delivery_service.py`, `keycloak_admin_service.py`) | Profiles in the database, accounts in Keycloak | create, clean up, deactivate | Keycloak over HTTP | Two systems, no transaction around both |
| Audit transaction and e-mail | Audit rows, what is sent after a commit | `audited_operation`, `notify` | Everything that writes | Side effects of transactions that roll back |
| Request guards, realtime stream, RAG index, read models, deployment | - | - | - | See section 7 |

The web client (`frontend/src`) keeps state of its own: what is on display, which requests are under
way, what the user has typed and not yet sent. Its parts do not share state with one another, except for
the cookies, the lock of the browser and the backend:

| Component | State | Operations | What is hard |
|---|---|---|---|
| Messaging (`MessagingWorkspace.tsx`, `inbox.ts`) | Inbox, thread on display, drafts, sends | open, mark as read, send, reload | Answers after a change of thread or account; an answer lost after the message was stored |
| Notifications (`NotificationMenu.tsx`) | List, badge | poll, read one, read all | Unordered polls while the badge is counted locally |
| Page access (`requirePageAccess.ts`, `routeAccess.ts`, `NavBar.tsx`) | Role, current page | navigate, redirect | Menu and guards written twice; accounts that change in another tab |
| Browser session (`authFetch.ts`, `authenticatedBackend.ts`, routes of `api/auth`) | Cookies, the lock between tabs | sign-in, renewal, sign-out | Renewals side by side with a refresh token that is good for one; late `Set-Cookie` |
| New scan and progress (`scan_home.tsx`, `scan_progress.tsx`) | Form, request, polled status | start, poll | Double starts; unordered polls; two ends (scan and index) |
| Last scan of a domain (`DomainLastScanPanel.tsx`) | Selection, cache of numbers | choose, load | Late answers for a scan no longer selected |
| Scan graph (`scan_graph.tsx`) | Graph, folded rows, focus | poll, build rows, trace | Parents that were never found; folding against a link |
| Scan history (`history/page.tsx`) | Paged list, filters, e-mail dialog | load, filter, mail | Offsets while scans start |
| Report page (`report/[scan_id]/page.tsx`) | Status, introduction, mail | check, play, skip, mail | Timers and animation frames against the user |
| Domains page (`domains_home.tsx`) | Paged list, view, verifications | search, page, add, verify, delete | Handlers that load the list for the view they began in |
| Scheduled scans page (`scheduled-scans/page.tsx`) | List, form, dialog | load, save, pause, delete | Loads are not ordered; a form behind a submission |
| Engagement request (`engagement_request.tsx`) | Fields, stage | next, submit | Stages hidden on a phone; midnight |
| Engagement workspace (`service-delivery/engagements/[id]/page.tsx`) | Engagement on display | claim to complete | A colleague does the same on another engagement |
| Pentester console (`PentestDataProvider.tsx`, `NewFindingModal.tsx`) | Cached engagement, forms | start, submit, add, delete, verify | Requests that overlap a submission; a failed background reload |
| Re-tests (`retests/page.tsx`, engagement layout) | Lists, dialogs | request, start, conclude | The last of several closes the cycle |
| Findings page (`findings/page.tsx` of an engagement, `FindingInspectModal.tsx`) | Rows of a filter and page, the panel's copy of the files, retries | filter, page, inspect, download, retry | Loads that nobody cancels; a panel that is older than the files |
| Directory (`service-delivery/pentesters/page.tsx`) | List, dialogs, workload | add, deactivate, count | Late details; failure of one of several steps |
| Brand monitoring (`BrandMonitoringOverview.tsx`) | Overview, watch on a run | run, poll, decide | A result known only by its time; retried runs |
| Assistant (`AskPenFlow.tsx`, `SecurityAnalyst.tsx`) | Conversation | ask, regenerate, stop, copy | An awaited clipboard; history of a regenerated question |

How they interact: the pages call the backend through the routes of `app/api`, which add the access token of
the cookies and renew it when it has expired. A client's `POST /scans` creates the row and publishes
`scan.full` or `scan.phase2_full`; the worker fans out one task per source (passive) or runs the chain
(active); every task reports through `PATCH /internal/scans/{id}/sources/{name}`; the callback that finds
its scan completed or partial queues the report; the render task reports through `PATCH
/internal/reports/{id}/status`. All shared state is in PostgreSQL, and no operation of this path takes a
lock that spans two requests.

## 2. Modules

| Module | Models | Role |
|---|---|---|
| `ScanSources` | `models/base.py`, the aggregation in `save_source_result` | Vocabulary and pure functions: `AggregateStatus`, `Progress` |
| `OrmSession` | `config/database.py` 75-80 | `Written`: what a SQLAlchemy session writes for a column it has read before |
| `ScanLifecycle` | the documents' view of a scan | Abstract specification |
| `ScanCallbacks` | dispatch, source tasks and the callback handler | The detailed specification; implements `ScanLifecycle` |
| `ScanCallbacksInvariant` | - | The inductive strengthening (`MemoryAgrees`), stated for TLC and TLAPS |
| `ScanCallbacks_proofs`, `ActivePipeline_proofs`, `ReportLifecycle_proofs`, `ScheduledScans_proofs` | - | Theorems and proofs about the module named, with its inductive invariant (section 5) |
| `ScanPages_proofs`, `EngagementPages_proofs`, `UserPages_proofs` | - | The same for the pages about scans, about engagements (with `Delivery`, `EvidenceQuarantine`, `EngagementReports`) and about the user's session, messages and accounts |
| `Pages_proofs` | - | The theorems about `MCPages`: what is proved of a page holds of the pages together |
| `ActivePipeline` | the worker chain of an active scan | Tasks as scripts of callbacks, container, retries, faults |
| `ReportLifecycle` | report generation of one scan | Handlers, render tasks, callbacks; its runs need no module of their own |
| `ScheduledScans` | schedules, dispatch ticks, stage checks of scheduled scans | Clients, ticks and workers over shared rows |
| `ScheduleCalculator` | `services/schedule_calculator.py` | Pure functions, checked against their definition |
| `PageBounds` | - | The constants of the pages, `clicks` and `faults` |
| `Messaging`, `Notifications`, `PageAccess`, `BrowserSession`, `ScanProgress`, `LastScanPanel`, `ScanGraph`, `HistoryPage`, `ReportPage`, `DomainsPage`, `SchedulesPage`, `EngagementRequest`, `Delivery`, `PentesterConsole`, `Retests`, `Directory`, `BrandMonitoring`, `Assistant`, `FindingsPage` | one page or part of a page each, with the backend it sees | Section 2.5 |
| `EvidenceStatus` | `quarantine_status` as its readers rely on it | Abstract specification; `FindingsPage` is built on it |
| `EvidenceQuarantine` | uploads, checks, downloads and deletions of evidence | The detailed specification; implements `EvidenceStatus` |
| `EngagementReports` | the report of an engagement, from its submission to the e-mail with it | Section 2.7; built on `OrmSession` |
| `Pages` | - | The variables that the pages share, and an instance of each page over them |
| `MCPages` | - | The pages as one specification, and its properties |
| `MCScanCallbacks`, `MCActivePipeline`, `MCScheduledScans`, `MCSchedules` | - | Instances for TLC |

Some operators are marked "A slip" (`RunningCountsAsFinished`, `SaveReadsFirst`, `SendTwice`, ...). They are
not part of the model: each is a plausible bug of the operator that follows it and serves to show that a
property would notice it (`PROJECT.json`, `mutants`).

### 2.1 `ScanCallbacks`

A callback request is a small process: `sent`, `loaded`, `saved`, `committed`, `reporting`, and an end.
The steps are cut where the code gives up control between database operations whose order matters:

* `Load` - the route reads the scan (`internal.py` 183). The copy stays in the session: the read inside
  `save_source_result` returns the same object, unrefreshed, because the session's factory sets
  `expire_on_commit=False` and `get_scan_by_id` populates an identity that is already there.
* `Save` - upsert of the source's row and the `select` of all rows (`scan_repo.py` 182-565). The upsert
  holds the row's lock (`RowLocked`), and at READ COMMITTED the select sees committed rows and its own.
* `Commit` - aggregation and commit (568-635). A column is written only if the value set differs from the
  copy (`OrmSession!Written`); `completed_at` is a server-side expression and is always written.
* `Refresh`, `ReportQueued` - the rest of the handler (`internal.py` 215-229).

Workers: `BeginTask` sends the hint `running`; `StartReturns` goes on whether or not it succeeded, as the
code's `except` does; `StartTimesOut` is the HTTP client's 30 seconds while the backend is still busy;
`SendFinal` and `FinalReturns` are the final callback, whose failure kills the task. Celery acknowledges
a message before it runs the task, so nothing is delivered twice and nothing is repeated.

The status of a row is `none` while the row does not exist. `pending`, a default no worker ever sends, is
left out, and so are the counters `total_targets`, `completed_targets` and `failed_targets`: they change
`progress` of a running scan only.

### 2.2 `ActivePipeline`

Every task is a script: callbacks in order, then the task it publishes. A `Call` raises when it fails, a
`Hint` does not. The scripts are those of the code (`LeafScripts`, `CrtShScripts`, `ResolutionScripts`,
`PipelineScript`, `AfterFailedContainer`, `FatalError`, `CpeScripts`); what may come out of a stage is
chosen when it begins, with the authorisation of that moment (`Granted`). `scan.phase2_nmap` is the one
task with `autoretry_for`: an exception starts it over, with a new container, up to three attempts.
The backend is one step per callback here, because the interleaving inside it is the subject of
`ScanCallbacks`. Inside the container the order of the three downstream results is fixed: they are
reported by one thread (`as_completed`), and no property distinguishes their order.

### 2.3 `ReportLifecycle`

A handler is a callback that found the scan reportable. It checks the report's status, then creates or
reads the row, marks it, loads the data, builds and publishes, and records the task; each is a
transaction of its own. `held` says whether the session still has the row it read at the check:
SQLAlchemy's identity map holds objects weakly, so a row nobody references is read again.

### 2.4 `ScheduledScans` and `ScheduleCalculator`

Three kinds of processes share the rows of `scan_schedules`, `verified_domains` and `scans`:

* a *request* of a client reads the row without a lock (`BeginCreate`, `BeginPausedUpdate`,
  `BeginActiveUpdate`), waits for the DNS lookup (`Verified`, `NotVerified`) and writes (`Write`,
  `WriteFails`). It computes the next run just before the write, which may then wait for the row's lock;
  it writes the columns it changed (`Merged`, with `OrmSession!Written`). A domain read as verified is not
  written as verified, so a request does not undo another one's `pending`;
* a *tick* takes the earliest due row nobody holds (`NextDue`, FOR UPDATE SKIP LOCKED), and keeps its lock
  from `Take` to `Commit`, `Abort` or a pause. `Dispatch` inserts the scan and publishes its message;
  nobody sees the scan before `Commit`. `Abort` is a failed publication or commit, or a crash: a message
  that is out stays out. One tick's loop over 20 schedules is the repetition of these steps;
* a *task* of the worker asks for permission at every stage of its scan: `NotFound` for the 404 of a scan
  that is not committed, four times; `Load` and `Grant` with the lookup between them; a refusal pauses the
  schedule (`Refuse`, `LookupFails`). Only the first task reports the scan, so only its refusal ends it
  (`Fail`). Refused later, the resolution and the container report their own sources (`FailSources`), without
  `cpe_resolver`, and the scan stays running with nobody at work on it: finding 2 once more. An operation of the
  container that is refused fails on its target, and the container goes on (`FailOperation`). What the sources
  make of a scan in the end (`LastStage`), callbacks that are lost and workers that die are the subject of
  `ActivePipeline`; so is the order in the container, whose operations ask one at a time here.

A domain has one schedule at most, so a schedule is named by its domain, and the id of the row is that of
the first authorisation. Time is a counter; a recurrence is the set of instants at which it is due
(`Slots`), and `NextRun` the first of them after a reference. `ScheduleCalculator` closes that gap: it
translates `calculate_next_run` with its weekday arithmetic, its months and its localisation of wall times
(a skipped time is read with the offset before the change, a repeated one is its first occurrence), and
`NextRunIsFirst` (in `MCSchedules`) equates it with that first instant. Both the run and the theorem (5.4)
are about zones that change their offset inside a day. Where a change skips midnight, or the last hour before
it (`America/Nuuk` since 2024), a skipped time is read as one of the next date; a schedule for such a time that
is created after the change and before the time so read is given the occurrence of a week or month later.

### 2.5 The pages

Every page module has the same shape.

* *State.* A variable for each piece of React state that a property can tell apart (with its name), for
  what the backend holds, and for the requests under way. An array of rows is a sequence or a set of small
  numbers, a text is a number or a flag, an id is a model value.
* *Requests.* A request is sent in one action, served in another and answered in a third
  (`"sent"`, `"served"`, and the action named after the code behind its `await`), so that anything may
  happen in between: other clicks, other answers, other users. A refusal, a lost request and a lost answer
  are actions with `Fault`. Where the code gives an answer up (an `AbortController`, a `cancelled` flag, a
  request number, a key in state), the arrival has that guard and nothing else.
* *Rendering.* What React derives at each render (`visible`, `body`, `reportState`, `buildRows`,
  `NavItems`, ...) is an operator over the state. Effects that run after a render are part of the action
  that changes what they depend on, unless they start a request or a timer.
* *Users.* Every act is guarded by what enables its button (`disabled`, `submitting`, an open dialog) and
  counts against `MaxClicks`. Time is the action of a timer, enabled when the code would set one.
* *Backend.* The pages of the engagement workflow have theirs in detail, in steps as in the service: an
  operation reads, checks and writes later (`Delivery`), and re-tests read, write and commit apart
  (`Retests`); for the others a request is served in one step.

`FindingsPage` does not have its backend step by step: it EXTENDS `EvidenceStatus`, and everything that is
done to a file behind it is one of the actions that this specification allows. Section 2.6 has what stands
behind them.

Some properties have exceptions: a flag remembers that one particular thing happened, and the property
allows only what follows from it. They mark what the code does not prevent:

| Flag | Set when |
|---|---|
| `DomainsPage.strayed` | A handler that began under another tab or search loaded the list last |
| `SchedulesPage.outdated`, `reopened` | The list on display is older than one that was there; a form was opened while a submission or a deletion was under way |
| `ScanProgress.overtaken`, `ScanGraph.overtaken` | A younger answer was read before an older one |
| `HistoryPage.shifted` | A scan was started between two pages of the list |
| `ReportPage.early` | The introduction was skipped between the zeros and the animation that counts them up |
| `BrowserSession.late`, `slept` | A new session was on its way to the browser when it signed out; a renewed access token expired before the third attempt was sent |
| `Retests.crossed`, `overlapped` | Two transactions each ended their re-test without the other's, or one wrote over what another had changed; one committed what another had not read |
| `Delivery.late`, `reopened`, `released` | An operation wrote while another had read and not yet written; an engagement came back from review (which is not checked against other bookings); a pentester was released while he was assigned to an engagement in scoping |
| `PentesterConsole.overlapped` | A change was checked before the submission it follows |
| `Directory.strays`, `locking` | The removal of an account, or the disabling of a login, failed |
| `FindingsPage.crossed`, `pressed` | The answer of a load came before that of an older one; a finding was asked for while another was on its way |
| `Assistant.crossed` | A copy reached the clipboard after its question was asked again |
| `EngagementReports.rushed`, `crossed`, `late`, `lost` | A review was completed before the submission had marked the report; two generations met; a review was completed after another operation; a process died with its report |
| `Messaging.retried` | The user sent a text again after an error |

`MCPages` puts the pages into one specification. They share nothing, so a behaviour is one of the page
that `page` names, chosen in `Init`; the pages take turns on the variables `s1` to `s20`, so the state
space is the sum of theirs and not the product. Its properties are themes. Each is a conjunction of
`page = "..." => ...` over properties that the page modules state and explain:

| Property | Parts |
|---|---|
| `TypeOK` | The type invariant of each page |
| `NothingTwice` | `NoSilentDuplicate` (messages), `OneScanPerStart`, `OneRequestPerPress` (engagement requests), `SavedOnce` (findings), `NoRowTwice` (domains), `OneGeneration` (reports, 2.7) |
| `ShownIsCurrent` | `RowsOfTheView`, `ListIsCurrent`, `NeverStopsEarly` and `DiagramComesToRest` (progress), `OfferedIsThere` (report), `HistoryIsWhole`, `AllCanBeShown` and `NamesTheRecipient` (history), `ShowsTheNamedScan` and `SkeletonIsWaitedFor` (last scan), `AsksUntilTheEnd`, `NothingLooksUnderWay`, `NothingIsLost` and `FindingsAreTraced` (graph), `ListIsOfTheView`, `FilesOfTheFinding` and `VerdictsShownStand` (findings), `ResultsAreThere` (brand), `HistoryComesBefore` and `CopiedIsShown` (assistant) |
| `EvidenceIsChecked` | `EvidenceIsChecked` and, per step, `DecidedOnce` (evidence, 2.6) |
| `WorkflowAgrees` | `CycleCloses`, `CompletedIsDone` (re-tests), `FrozenInReview` (console), `CompletedIsReported` (reports, 2.7) |
| `BookedOnce` | `NoDoubleBooking`, `AtWorkIsEngaged` |
| `SessionIsTheUsers` | `SignedInIsKept`, `SignedOutStays`, `ForgottenStaysForgotten` (messaging after a change of account) |
| `LoginsFollowProfiles` | `NoStrayLogin`, `DeactivatedIsLockedOut`, `DeactivatedWasConfirmed` |
| `NoDeadEnd` | `MenuLeadsToPages`, `NothingMissingBehind` (a stage hidden on a phone), `NeverStuck` (reports, 2.7) |
| `UserIsObeyed` | `StartsWhatItSays`; per step `DraftSurvives`, `KeepsForm` and `DropsForm`, `KeepsFinding`, `KeepsDecision`, `OpensTheRow` |
| `WaitingEnds` | Redirects, the lock of the tokens, the numbers of the last scan, a report in preparation, a verification, a monitoring run, a question, the report of an engagement (`Awaited`) |
| `ShownInTheEnd` | Badges of messages and notifications, the access token, the end of a scan, the numbers under the introduction, an engagement |

### 2.6 `EvidenceQuarantine`

A file of evidence is a row in the database and an object in the storage, and no transaction holds both. The
module has every place that knows of a file, and cuts its steps where one of them is changed without the
others:

* an *upload* reads the finding (`require_evidence_upload_access`), stores the object (`store`), and reads
  the finding again and inserts the row (`register_evidence`); if that fails it deletes the object
  (`UploadFails`), which may fail too or never happen (`CleanupFails`);
* a *deletion* reads the finding with its files, deletes the rows and, after the commit, the objects it had
  read about (`require_editable_finding`, `delete_manual_finding`, `remove_evidence_objects`). The foreign
  key takes along rows that it had not read about;
* a *worker* locks a due row and keeps the lock from `Take` to `process_one`, over the reading and checking
  of the contents (`Check`). The attempt is counted in the same transaction, so a worker that dies
  (`WorkerDies`) counts nothing. That the storage or the antivirus is unavailable is an outcome of every
  `Check`, without a limit;
* a *download* looks at the row and reads the object later (`get_evidence_for_download`, `Delivered`).

`Replaced` is somebody else who overwrites an object. A sum is the contents it belongs to: `storage.read`
compares them (`Readable`). Rows of the time before sums were kept have none, and what the check reads is
what it is then given as its sum. A key is new for every upload (`uuid4` in `store`), so a file is named by its
upload; a rule of the antivirus that changes is left out.

`MCPages` checks the module as one more "page", `evidence`. Its properties: nothing the antivirus rejects is
delivered (`NothingInfectedIsRead`), a file is checked by one worker at a time (`OneCheckAtATime`), not again
by itself after the third failure (`StopsAfterThree`), every row has its object (`RowsHaveObjects`), an object
has its row, is on its way in or out, or is left over by a step that failed or by an upload that was registered
during a deletion (`NoStrayObject`); and every step is one of `EvidenceStatus` (`DecidedOnce`, the step of the
refinement `KeepsPromise`).

### 2.7 `EngagementReports`

An engagement that is submitted for review gets a report, the review is completed when it is there, and the
client is sent it. `submit_for_review` asks for version 1 each time, so a second submission, after
`return_from_review`, uses the row and the name of the PDF again. What tells the reports apart is the edition of
the findings they were made from: `findings`, the copy in each rendering, `file`, and `mail` once it is sent.

* A *generation* runs in the request that asked, after its commit (`after_commit`): it reads the row, marks it
  (`MarkGenerating`), builds the contents and sends the task (`send_task`). Its session never sees what others
  write to a row it has read (`Written`). A new row is pending for a moment, which nobody treats otherwise than
  generating; the module has it generating at once.
* A *rendering* stores the PDF and calls back up to three times, then reports a failure. The callback is a step:
  it tests the row (`Accepts`) and writes it.
* A *retry* reads the engagement, then updates the row only if it says failed (`StillFailed`).
* *Completing* reads the engagement and the report (`get_latest_for_engagement`), and writes later. The task of
  the e-mail reads the PDF when it runs.

Whatever fails is reported as far as there is somebody to do it; a process that dies, or a failure that cannot be
reported either, sets `lost`. `MCPages` checks the module as the "page" `reports`: a completed engagement has the
report, the PDF and the e-mail of its last submission (`CompletedIsReported`); a report under review that nobody
is working on is there or can be retried (`NeverStuck`), and that is where every wait for it ends (`Awaited`); and
retries, however many, generate one report at a time (`OneGeneration`). The flags of 2.5 are the exceptions: the
row is marked after the submission has committed, so the old report may still look completed (`rushed`); and
nothing stops a generation that its engagement has left behind (`crossed`).

## 3. Runs

| Run | Instance | Shows |
|---|---|---|
| `scan_safety` | 2 sources, 1 late start, 1 fault | Final statuses are sound and final; only overlap loses a completion; the report is asked for; the inductive invariant holds |
| `scan_promises` | 2 sources, no fault, fair | `ScanCallbacks` implements `ScanLifecycle`; every result is recorded; the scan concludes or callbacks overlapped |
| `scan_concludes` | 2 sources, fair | Finding 1 |
| `active_chain` | the chain, 2 container outcomes, 3 faults, fair | Stage order, finality, completeness of the reports; the chain comes to an end |
| `active_concludes` | the chain and one leaf, 4 outcomes, no fault, fair | Finding 2 |
| `report_generation` | 3 handlers, 1 fault, fair | A completed report has its file and stays; generating means somebody is at it; a generation settles, or two overlapped, or there was a fault |
| `report_settles` | 2 handlers, fair | Finding 3 |
| `schedule_safety` | 1 domain, 2 ticks, 1 client, 2 scans, 2 authorisations, 1 fault | One scan per occurrence, only of an active schedule; grants only while it stays so |
| `schedule_updates` | 1 domain, 2 recurrences, 1 tick, 2 clients, 1 fault, fair; calculator: 3 months over New Year, 5 zones, all weekly and monthly schedules | Runs go forward unless an update overlapped a dispatch; what is due is dispatched or paused; the next run is the first due instant after the reference |
| `schedule_kept` | 1 domain, pause and resume | Finding 4 |
| `pages_safety` | 19 pages, the evidence and the engagement reports, 2 clicks, 2 texts, 2 sources, 2 notifications, 2 files, 2 workers, 1 finding with evidence, 1 fault | The ten safety properties of 2.5 |
| `pages_settle` | 11 pages and the engagement reports, 1 click, 1 text, 1 source, 1 fault, fair | `WaitingEnds`, `ShownInTheEnd` |

Bounds. Two sources suffice for a lost update, a late `running` callback and every mixture of final
statuses; the proofs, `Refinement` among them, cover any number. Three faults in the chain exhaust the three
attempts of `scan.phase2_nmap`. The container's outcomes include all four results of a source (`FewRuns`);
`SomeRuns` adds the run without any failure and the partial one whose downstream sources had no jobs. Three
handlers let a third overtake two that contend. The sources are symmetric in `ScanCallbacks` (no constant
names one of them); `scan_safety` uses that. In the runs of `ScheduledScans` two ticks contend for a row,
every instant is one of the recurrence, and the clock passes two occurrences and the expiry of an authorisation
(`schedule_safety`: instants 1 and 2, validity 2); two clients and
two recurrences are what it takes to bring an occurrence up a second time (`schedule_updates`). Ticks, and
clients, are symmetric, which `schedule_safety` uses; no run with fairness uses symmetry. In
`ScheduleCalculator` a day has four units, so that a change of the offset by one unit lies inside it; every
reference of two months is tried.

Bounds of the pages. One fault, because the interesting cases are one lost request beside working ones. Two
clicks are two acts at the same time; acts that only open what another act needs take more, so `MCPages`
gives the directory four, brand monitoring three, the console and the assistant five (and, in Messaging,
where typing and sending are bounded by `MaxTexts`, only one). Pages of lists are cut down to a size that a
few rows exceed: 1 instead of 20 (`DomainsPage`), 2 instead of 100 and 30 (`HistoryPage`); a conversation
keeps 2 turns instead of 20 and sends 1 instead of 3 along (`Assistant`); an engagement lasts 1 day at least
instead of 3 (`EngagementRequest`). Requests of one kind under way at once: 4 lists and 2 deletions of
schedules, 2 operations on engagements, 2 requests for re-tests and 2 changes of them, 2 polls of the graph, 2
monitoring runs. Two of each is what an overlap takes. Two threads, two tabs beside the refresher, two
engagements, pentesters and slots, and three domains or pentesters are the smallest worlds in which a late
answer can hit the wrong one. The progress page is checked with two sources, of which one may end before the
other. A graph opened after its scan is any of `Worlds`, with services, addresses and parents missing; one
that grows on display lacks nothing but what its scan has yet to find.

Two files and two workers are what it takes to check one file twice or two at once. One finding is enough for
`EvidenceQuarantine`, where it only ties files to a deletion; `FindingsPage` has two findings of its own, and the
two files belong to either. One fault lets one step fail beside any number of failed checks, which do not count as faults.
The proofs of 5 cover any number of each. The engagement reports have two submissions, with at most one change of
the findings after each, and one fault more than the pages: a completion whose answers are lost and a failure
reported after it take two.

Fairness. Every step that the worker, the backend or the broker takes by itself is weakly fair: a
started coroutine, a delivered message and a running container go on. Nothing that depends on the
environment is fair: no fault, no timeout, no revocation, no arrival of another request.
On the pages the answers to requests, the timers a page sets, and the scan and the indexing that the
progress page watches are weakly fair; nothing a user does is, and no fault. A question to the assistant
has no fair answer, only the timer that aborts it; a monitoring run need not finish, only the number of
polls ends its wait. The request that generates the report of an engagement and its render task go on, unless they die.

Deadlock is checked in every run but the two of the pages, where the user may stop once the answers are
there. In `ScheduledScans` the end of the window is the step `Over`; in the others the one state in which
nothing happens is described (`Terminated`) and requires that all requests and tasks have ended.

## 4. Findings

1. **A scan may stay running after its last source** (`scan_repo.py` 552; run `scan_concludes`). Two
   overlapping callbacks each read the rows without the other's. `OnlyOverlapLosesCompletion` and its
   proof say that this is the only way. `docs/SAS.md` 1423 promises a final status.
2. **An active scan without targets never concludes** (`target_resolution_task.py` 139 and `nmap_task.py`
   71-92 leave out `cpe_resolver`; run `active_concludes`). `docs/SRS.md` 116 promises partial results.
   `OnlyCpeResolverIsLeftOut` says that this is the only source left out.
3. **A finished report may be shown as generating for ever** (`report_repository.py` 51; run
   `report_settles`), when two callbacks generate it at once and the first is rendered before the second
   records its task. `docs/SAS.md` 1438 and `docs/SRS.md` 124.
4. **A resumed schedule is paused by an old scan** (`phase2_execution_service.py` 234; run
   `schedule_kept`). The next stage of a scan that was made with the former authorisation is refused, and
   the refusal pauses the schedule with the new one. `docs/SRS.md` 132.

Observations about the backend. Two are stated as the exceptions of `ConcludedIsFinal`: a container that
outlives the Fargate waiter reports into a concluded scan, and a retry of `scan.phase2_nmap` after its
failure report arrived leaves `cve` counted as skipped while it is still to run. A third is `NotFound` of
`ScheduledScans`: four attempts in six seconds narrow the race that the comment at
`workers/app/utils/phase2_authorisation.py` 125 describes; a commit that comes later leaves a queued scan
without a message, which is an exception of `LastRunWasSentOff`. The other is a scan that was begun: its sources
say how it ends, and after a refusal of its resolution or its container nothing does (finding 2). Finally, an authorisation is good for 30 days
(`phase2_authorisation_service.py` 13) and only a creation or a resume issues one: a monthly schedule whose
next occurrence is 31 days ahead is paused before it ever runs. It may be meant as a safeguard; no
document names the limit.

Observations about the pages. None contradicts a document; each is an exception of a property above or
bounds what it says.

* `PentestDataProvider.tsx`: a background reload that fails puts its error in place of the engagement;
  a form for a new finding goes with it, and as the details are cached nobody asks again (`KeepsFinding`).
* `retest_service.py`, `engagement_repository.py`: two requests that overlap may leave an engagement in
  re-testing with nothing to re-test, or book a pentester twice (`crossed`, `late`).
  `return` puts an engagement back in progress without looking for bookings made meanwhile (`reopened`).
* `service_delivery_service.py`: a deactivation whose last step fails leaves the login enabled, and the
  page shows the profile as inactive and offers no second attempt (`locking`).
* `MessagingWorkspace.tsx`: a message whose answer was lost is shown as unconfirmed; to send it again
  stores it twice (`retried`).
* `scan_progress.tsx`, `scan_graph.tsx`, `scheduled-scans/page.tsx`: answers are not ordered, and an old one
  that comes last stays, on the first two with nobody asking any more (`overtaken`, `outdated`).
* `domains_home.tsx`: the page's button closes the form of an addition that is under way, and its answer closes
  whatever form is on display by then (`CloseForm`, `on_added`). A verification loads the list with the tab and the search it began with, after the
  user may have chosen another (`strayed`); the next page is then cut from the view chosen since, by the
  number of rows of the other, and may repeat a row.
* `DomainLastScanPanel.tsx` 111: when the numbers of the scan before cannot be loaded, the others are kept without
  the comparison and not asked for again (`Load`).
* `authFetch.ts` 38: a renewed session is given up if its token has expired by the third attempt (`slept`).
* `BrandMonitoringOverview.tsx`: one failed poll ends the wait for a run that goes on.
* `evidence_quarantine_service.py` 73: a worker that dies during a check has counted no attempt, so a file
  that makes it die is taken again by the next one (`WorkerDies`).
* `finding_service.py` 382: an upload registered between a deletion's reading of the files and its commit goes
  with the finding, and nobody removes its object (`leftover`).
* `FindingInspectModal.tsx` 40: the panel keeps the files it was mounted with. If two findings are asked for
  before the first is there, the second is shown with the files of the first (`pressed`).
* `findings/page.tsx` 193: "Next" is off on the last page only. If findings are deleted while a later page is
  shown, it leads further away from what there is (`setPage`).
* `service_delivery_service.py` 1355: a review may be completed on the report of the submission before, which is
  marked only after the new submission has committed (`rushed`). `report_service.py` 132: the rendering of a
  submission that was returned goes on, and writes the PDF and the row of the next (`crossed`).
* `report_access_service.py` 186: only a failed report can be retried. One whose process died stays generating,
  and the review can only be returned and submitted again (`lost`). No page calls the retry
  (`serviceDeliveryService.ts` 268).
* `report/[scan_id]/page.tsx`: skipping the introduction in the moment between the zeros and the
  animation leaves the zeros (`early`), and a check that fails is not repeated.

## 5. Proofs

Eight modules hold 49 theorems. Every invariant and every action property that a run finds to hold has a
theorem, which states it under the same name for every value of the constants: any number of sources, handlers, schedules, ticks, clients, files,
workers, findings and faults. (Where a part bounds something in its own text, such as the two re-tests of
`Retests` or the three people of `Directory`, the theorem is about that part as it stands.) Every inductive
invariant was checked by TLC on small instances before it was proved, and each proof that a step keeps it has
one step per action and below it one per conjunct that the action can disturb.

Assumptions. TLC evaluates every one of them in the runs. They are about the constants only:

| Assumption | Says | Used for |
|---|---|---|
| `SourcesAssumption`, `BoundsAssumption` | The sources are finite and there is one; bounds are numbers | `ScanCallbacks_proofs` |
| `ReportAssumption` | Handlers are finite, the bound is a number | `ReportLifecycle_proofs` |
| `ScheduleAssumption` | There is a domain and a recurrence; instants are numbers, and every recurrence has another one later; an authorisation is valid for a while | `ScheduledScans_proofs` |
| `ActiveAssumption` | The sources of the chain are sources; no source has the name of a container; the outcomes of a container are possible ones | `ActivePipeline_proofs` |
| `CalculatorAssumption` | A day has a length, the week seven days, a month 28 to 31 | `ScheduledScans_proofs` |
| `NoneAssumption`, `FaultsAssumption`, `ThreadsAssumption`, `EvidenceAssumption`, `ChecksAssumption` (in `PageBounds`) | "No value" is none of the values; bounds are numbers; sets are finite | the other four |

### 5.1 `ScanCallbacks_proofs`

| Theorem | Statement |
|---|---|
| `TypeCorrect` | `Spec => []TypeOK` |
| `MemorySound` | `Spec => []MemoryAgrees` |
| `FinalStatusSound` | `Spec => []TerminalIsSound` |
| `ReportAsked` | `Spec => []ReportIsAsked` |
| `LossNeedsOverlap` | `Spec => []OnlyOverlapLosesCompletion` |
| `FinishedStays` | `Spec => FinishedIsKept` |
| `TerminalStays` | `Spec => TerminalIsFinal` |
| `Refinement` | with no late start, `Spec => ImplementsLifecycle` |

The inductive invariant is `Inv == TypeOK /\ MemoryAgrees /\ TerminalIsSound`.
`TerminalIsSound` alone is not inductive: a request writes what it remembered, so one has to know that
what requests remember still agrees with the database. `MemoryAgrees` says it in parts:

* `RunningRequest`, `FinalRequest`, `RequestsInOrder`, `ReportsMatchKinds` - a source's final call is
  sent after its running call has ended, unless that was late, and each reports what its kind may;
* `FinishedRowsLanded`, `AllLanded` - a finished row comes from a final request that has committed;
* `ViewsAreBacked`, `TerminalNeedsAll`, `CopiesAreUnfinished` - a view with all sources finished can only
  be that of the last request, and as long as a request is open its copy of the scan is not terminal;
* `QueuedIsUnseen`, `ViewsAreFresh` - without overlap the view of an open request is the current rows.

The refinement maps `Commit` to `Report` or to a stutter, by whether it adds a finished row, and to `Start`
for the first `running` row.

### 5.2 `ActivePipeline_proofs`

`TypeCorrect`, `InOrder` (`StagesInOrder`), `NothingElseIsLeftOut` (`OnlyCpeResolverIsLeftOut`) and
`ConcludedStays` (`ConcludedIsFinal`), from `Sound` (`Spec => []IInv`).

What a task does next is in its script, so the invariant has to say of every task what is left of its script
at each point, and what that leaves in the rows (`Own`, `Follows`, `EndsIn`). `StagesFollow` says which task
has begun when; `SinglesReport`, `ResolutionReports`, `CpeReports` and `CveReports` go through the scripts of
the tasks; `ContainerReports` says that a container that exits with 0 has reported all four sources, and that
only the container of the current attempt is at work - which holds only as long as none was abandoned.
`CveToCome` is what finality rests on: while anybody may still report `cve`, its row is open, or holds the
`skipped` of an attempt that was repeated. `FaultlessIsComplete` is the same account for a scan without
faults, where every task ends.

### 5.3 `ReportLifecycle_proofs`

`TypeCorrect`, `GeneratingIsSomebodys` (`GeneratingIsUnderWay`), `CompletedIsDownloadable`
(`CompletedHasPdf`) and `CompletedStays` (`CompletedIsKept`), from `Sound`.

Nothing prevents two callbacks from generating the report at once, so most of `IInv` is about the time before
that (`~contended`): `OneGeneration`, and `Agrees(h)`, which says at each point of a handler and its task what
the row holds and what the copy does. `CompletedIsKept` needs the copy: a handler that records its task id
assigns `generating` to a row that may be completed by now, and that is no write because its copy says
`generating` too.

### 5.4 `ScheduledScans_proofs`

`TypeCorrect`, `OneScanPerOccurrence` (`OncePerOccurrence`), `LastRunIsAScan` (`LastRunWasSentOff`),
`ScanIsAuthorised` (`NewScanIsAuthorised`), `StageIsAuthorised` (`GrantIsAuthorised`) and `NextRunGoesForward`
(`RunsGoForward`), from `Sound`.

Three kinds of copies have to be accounted for. A tick's copy is the row, because it holds the lock
(`TicksAreSound`); the scan it has made is its own, and there is one for an occurrence (`CommitsAreSound`). A
client's copy is what it read without a lock; what it relies on is that the last run it read is over
(`RunsAreSound`), and that the id of the schedule it creates is nobody else's (`CreationsAreSound`,
`IdsAreSound`). A worker compares the id of an authorisation and not the authorisation; `AuthsAreSound` says
that of all copies anybody has, those with the same id are the same. What `LastRunWasSentOff` says of a scan that
nobody works on rests on `TasksAreSound`: a task beyond the first has a scan that was begun, and one that found no
scan MaxTries times is the first. That recurrences have a first instant
after every reference (`NextRun`) follows
from the well-foundedness of the numbers (`MinOfNaturals`, from the library).

The calculator has three theorems. `CalculatedIsFirst`: for any weekly or monthly recurrence, any reference, any
first weekday and any months that follow one another, `CalculateNextRun` is `FirstSlotAfter`.
`NextRunIsCalculated`: so it is the `NextRun` that the schedules work with. `NextRunHolds` (`NextRunIsFirst`) is
the calendar and the zones of the run, for days of any length from three units on. The code looks at one date and at most
one more, so the argument is about the order of dates and instants when the offset changes in between: what is
due on a date before the reference's is over (`EarlierDates`), what is due on a later one is to come
(`LaterDates`), and the instants of one wall time are in the order of their dates (`DatesInOrder`). The first two
need `ChangesWithinADay`: the change begins and ends on one date, and the last time that it skips, read with
the old offset, still falls on it. With a zone that skips the last hour of a day `EarlierDates` is false,
as section 2.4 says. `WeekdayComes` is the arithmetic modulo seven.

### 5.5 `EngagementPages_proofs`: the evidence

`EvidenceIsSafe` (`EvidenceIsChecked`) and `PromiseKept` (`KeepsPromise`: `EvidenceQuarantine` implements
`EvidenceStatus`), from `EvidenceSound`. No part of `EvidenceIsChecked` is inductive. That nothing infected is
delivered needs to know whose contents a clean verdict is about while the row, the object and the job may each
change without the others, and `EvidenceInv` adds:

* `JobsAreSound` - a file under check is pending, and a verdict is that of the contents read;
* `SumsAreSound` - what was found clean, or let through for a download, has the sum of clean contents;
* `FilesAreSound` - a file is an upload, then a row, then an object to remove, never two of them; a deletion
  knows only files of its finding.

The refinement maps `register_evidence` to `Uploaded`, a check that ends with a verdict or for the third time
in vain to `Decided`, `retry` to `RetryRequested` and `delete_manual_finding` to `Deleted`; every other step is
a stutter. That a decided file is checked no more (`JobsAreSound`) is what makes `process_one` a `Decided`.

### 5.6 `EngagementPages_proofs`: bookings and reports

Bookings: `DeliveryTyped`, `NobodyBookedTwice` (`NoDoubleBooking`) and `EngagedAtWork` (`AtWorkIsEngaged`), from
`DeliverySound`.
An operation writes on the strength of what it read. `ReadIsStillSo` says that this is still so when it
writes, as long as no two operations crossed (`late`); that is not enough for the dates, because a
confirmation needs dates that no operation brought, hence `DatesAreKept`, which holds even when operations
cross.

Reports: `OneAtATime` (`OneGeneration`), `CanBeRetried` (`NeverStuck`) and `ReportIsThere`
(`CompletedIsReported`), from `ReportsSound`. There is one row and one PDF for everything that generates.
`SomebodyConcludes` holds always, unless a process was lost: a report that is generating has a generation or a rendering whose answer
replaces it. Until two of them meet (`crossed`) what generates is `Alone` and the row says how far it is
(`RowFollows`), and with `EditionsAgree` and `CompletedIsSound` what is completed has the findings of the last
submission.

### 5.7 `Pages_proofs`: the properties of `MCPages`

| Theorem | Statement |
|---|---|
| `EvidenceHolds` | `Spec => EvidenceIsChecked` |
| `BookingsHold` | `Spec => []BookedOnce` |
| `LoginsHold` | `Spec => []LoginsFollowProfiles` |
| `NoWayEnds` | `Spec => []NoDeadEnd` |
| `WorkflowHolds` | `Spec => []WorkflowAgrees` |
| `SessionHolds` | `Spec => []SessionIsTheUsers` |
| `DoneOnce` | `Spec => []NothingTwice` |
| `UserObeyed` | `Spec => UserIsObeyed` |
| `ShownHolds` | `Spec => []ShownIsCurrent` |
| `PagesTyped` | `Spec => []TypeOK` |

A step of `MCPages` is one of the page that is shown (`StepOfThePage`), so a behaviour that shows a page is one
of that page's specification (`EvidenceRefines`, `DeliveryRefines`, ...), with the variables `s1`, `s2`, ...
in place of the page's. For `Delivery`, `EvidenceQuarantine` and `EngagementReports` the theorems of 5.5 and
5.6 are used. The others are proved page by page, in `ScanPages_proofs`, `EngagementPages_proofs` and
`UserPages_proofs`:

* `Directory` (`IInv` there): whoever is shown, chosen or about to be deactivated has a profile and keeps it;
  a login without a profile is that of the account being created, or of one whose removal failed (`strays`).
* `PageAccess`: the menu of a role and the guard of a page agree, for every role and page.
* `EngagementRequest`: a press of Submit that does nothing has put the first missing answer, and its message,
  where the user is; the invariant relates what is checked to what is shown in both layouts.
* `PentesterConsole` (`ConsoleTyped`, `NothingPending`): under review no change is between its check and its
  commit, unless it was noted as overlapping the submission.
* `Retests` (`IInv` there): a transaction locks its row from its first write (`RowsAreLocked`). As long as no
  two met (`crossed`), one at a time ends its re-test, and either it is known to be the last or another
  re-test is open (`OneCloses`); as long as none committed on what another had read (`overlapped`), what a
  transaction has read and counted is still so (`AloneSinceRead`).
* `BrowserSession` (`IInv` there): until something ends the session the cookies are those of Keycloak's, and no
  call is on its way that takes them away or brings others (`CallsKeepTheSession`); after a logout none brings
  any back, but for a late one (`CallsBringNothingBack`). A third attempt is refused only if the token renewed
  for it has expired (`slept`). What an answer may carry is a lemma about the four proxies and the refresh route
  (`AnswersAreSound`).
* `Messaging`: a page that has noticed another account has an empty inbox and no thread whose answer it would
  take (`Forgotten`); a message that the backend has taken is in the conversation (`StoredIsThere`), so the
  draft its answer clears is stored.
* `ScanProgress` (`OrdersAgree`), `BrandMonitoring`, `ScanGraph` (`IInv` there): short ones, about the button and
  the domain above it, the decision being saved, and the answers on their way.
* `PentesterConsole` (`ErrorsHideForms`): no form with something in it is behind an error.
* What is done once is counted. A request not yet sent has its press (`PressesCover`); a scan that was started
  has the form that is gone, or a start said to have failed (`StartsCovered`); a finding that was saved, or
  whose request may still save it, has a form of its own, or an answer that was lost (`SavingsCovered`). A text
  stands once in its conversation, and it is not there yet while its first request is under way (`OnceInv`).
* `DomainsPage` (`ListInv`, `OthersTyped`): the youngest request is for the view on display, and one that appends
  starts where the rows end (`PagesFit`); no row is further up than its domain is in the list of the backend
  (`RowsFit`), which only becomes shorter until a domain joins it (`JoinUnheard`). So a page that is appended begins
  below the last row.
* `SchedulesPage` (`IInv` there): unless it was opened while something was under way, the form on display is the
  one that was submitted, and it is for a schedule whose deletion is under way just when the handler took it
  for that (`FormIsFollowed`).

`ShownIsCurrent` is about answers that arrive while something else has been chosen or has changed. Each page
has an invariant about what is on its way to it:

* `DomainsPage` (`ViewFollowed`): the youngest request is for the view on display, and so are the rows once it
  is answered.
* `SchedulesPage` (`LoadsInv`): lists have versions; one of the youngest version is the backend's
  (`VersionsTell`), and somebody - a change that is still to be answered, a load under way - will bring the last
  change to the page, or it has come (`ChangeComes`).
* `ScanProgress` (`WatchInv`): what the backend, the answers on their way and the page say of a scan agrees,
  in that order, unless an answer was overtaken; an answer that says a scan has ended says so of its sources.
* `ReportPage` (`ReportInv`), `LastScanPanel` (`PanelInv`), `HistoryPage` (`HistoryShown`): the page knows what was
  said last, waits for it, or says that it failed; the pages of the history are what a scan started between
  two of them leaves (`PagesCome`).
* `ScanGraph` (`GraphInv`): the page asks as long as the scan on display is under way. That no row is lost
  (`AllAreInRows`) and that a finding is traced to what it was found on are facts about `buildRows` and
  the lineage.
* `FindingsPage` (`FindingsInv`): the youngest load is of the view chosen (`ListFollows`); the panel, its retries
  and downloads have numbers of their own and are about its finding (`InspectFollows`); a verdict that a panel
  or a download knows still stands (`VerdictsStand`), which is what `EvidenceStatus` promises.
* `BrandMonitoring` (`BrandInv`): a run is told only with its candidates (`BackendIsHonest`). The invariant counts
  the runs that have finished against the jobs that are over or were tried again.
* `Assistant` (`AssistantInv`): the conversation is in the order of its questions, each asked with what came
  before it.

Of the type invariants, these need more than the types themselves: the queue for the token lock has whoever
waits for it once, and its holder first (`QueueIsSound`); the requests for re-tests that are accepted still find
room, which needs all of those under way to be counted (`RoomForRetests`); the thread on display is one of the list,
and its messages are its own (`ThreadKnown`); no more is marked read than there is (`CountsKnown`).

The attempt to prove `CycleCloses` first failed, and the model was wrong: `update_retest` decides whether a
re-test has just ended from the status it read and the one it has *after* the flush, and writes the status
only if it differs from what it read (`retest_service.py` 87-129), where the model had it write always and
compare with what was committed. `Updated`, `Ends` and `UpdateWrites` now follow the code, and `crossed` also
covers a transaction that writes over what another has changed.

The attempt to prove `DropsForm` failed as well. The buttons of the deletion dialog wait for `workingId`, and
the end of *any* change clears it (`scheduled-scans/page.tsx` 292, 319): the dialog can be closed, and another
deletion begun, while one is under way. The model had one deletion at a time, and two clicks were too few for
TLC to show the difference. It now has a set of them, each with the `editingId` of the render it was pressed in;
`KeepsForm` and `DropsForm` are stated about the schedule of each deletion, and hold.

The attempt to prove `NoRowTwice` found that it was stated too strongly. A verification, deletion or addition
that ends after the user has changed the view loads the list for the view it began in; the next page is then
cut from the view on display, by the number of rows of the other one, and may repeat a row. It takes more
clicks than the two of the run. The property now has that exception (`strayed`), and section 4 names the cause.
The prover found a second one: a domain that goes to another tab by its verification moves the rows of that
tab as an addition does, until the page has heard of it (`JoinUnheard`).

### 5.8 What is only model-checked

* All liveness (`EveryResultIsRecorded`, `ConcludesOrOverlaps`, `ChainDrains`, `GenerationSettles`,
  `DueIsHandled`, `WaitingEnds`, `ShownInTheEnd`): fairness and `ENABLED` are out of the prover's reach.
* `OwnerDecides` and the properties of the other three runs that expect a violation are false; TLC shows how.
* That the operators marked "A slip" are noticed: each mutant's violation is a behaviour TLC finds.
* Nothing here needs induction over data. The sizes of sets (in `Progress`, in bookings, in the requests under
  way) are handled with the library's facts about finite sets.

## 6. Plan

Done: the scan core, the active chain, the scan report, the scheduled scans, the pages with the engagement
workflow, re-tests and identity administration behind them, the evidence, and the reports of engagements,
each with the proofs of section 5.

Next, in this order:

1. An abstract specification of the engagement (the order of its statuses, one pentester at a time), to
   be implemented by `Delivery`, `PentesterConsole` and `Retests` together.
2. Manually started active scans, composed with `ActivePipeline`'s `Granted`.

## 7. Not modelled

* Request guards: counters in Redis over a time window; a page sees only that its request fails.
* Audit transaction and e-mail: what is sent after a commit. The modelled requests commit first; of the mails
  only the one with an engagement's report is modelled.
* Realtime stream: best effort by design, and no page of the client listens to it.
* RAG index and security intelligence: what is retrieved and generated depends on external models. Its
  status is in `ScanProgress`, because it ends the polls.
* Read models (delta, summary, dashboards) and the pages that load once and display what they got: no
  state changes that another step could cross.
* Deployment.

Of the modelled pages, layout, wording and what is drawn are left out, and each component's note in
`PROJECT.json` names the operations that are. What a source callback stores beyond its status - assets,
services, technologies, findings - does not influence any status and is abstracted; `ScanGraph` takes it
as given. `PROJECT.json` lists every component, and every hazard with the properties that cover it.
