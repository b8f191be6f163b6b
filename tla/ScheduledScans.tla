--------------------------- MODULE ScheduledScans ---------------------------
(***************************************************************************)
(* Recurring active scans: the schedules of the clients, the Celery beat   *)
(* tasks that turn a due occurrence into a scan, and the workers that ask, *)
(* at every stage of such a scan, whether it may go on.                    *)
(*                                                                         *)
(* A tick (schedules.dispatch_due) takes the due schedule that waits the   *)
(* longest, holds its row lock while it re-verifies the domain, inserts    *)
(* the scan, publishes its message and advances the schedule, and commits  *)
(* all of it at the end.  The message is out before the commit: a worker   *)
(* can hold a scan that is not there yet, or never will be.                *)
(*                                                                         *)
(* A domain has at most one schedule (unique on domain and scan type), so  *)
(* a schedule is named by its domain; the id tells a row from the one that *)
(* took its place.                                                         *)
(***************************************************************************)
EXTENDS Naturals, FiniteSetsExt, OrmSession

CONSTANTS
  Domains,       \* the verified domains of the clients
  Recurrences,   \* frequency, day, run time and time zone of a schedule
  Slots,         \* the instants at which a recurrence is due
  Changes,       \* what an update may name: the active flag, the recurrence or both
  Validity,      \* AUTHORISATION_VALIDITY
  Ticks,         \* dispatch tasks that may run at the same time
  Clients,       \* requests of clients that may run at the same time
  MaxScans,      \* bound: scans inserted
  MaxIssues,     \* bound: authorisations issued
  MaxFaults,     \* bound: failed lookups and aborted ticks
  Horizon        \* bound: the clock

ScanIds == 1..MaxScans
Times == 0..Horizon

ASSUME ScheduleAssumption ==
  /\ Domains # {} /\ Recurrences # {}
  /\ MaxScans \in Nat /\ MaxIssues \in Nat /\ MaxFaults \in Nat /\ Horizon \in Nat
  /\ Validity \in Nat \ {0}
  /\ Slots \in [Recurrences -> SUBSET Nat]
  /\ Changes \subseteq [active : {"on", "off", "keep"}, rec : Recurrences \union {"keep"}]
  /\ \A r \in Recurrences, t \in Times : \E x \in Slots[r] : x > t

\* A slip to test the properties with: the reference itself counts.
NextRunAtOrAfter(r, after) == Min({x \in Slots[r] : x >= after})

\* calculate_next_run: the first instant of the recurrence after the reference.
\* ScheduleCalculator shows that the code computes it.
NextRun(r, after) == Min({x \in Slots[r] : x > after})

VARIABLES
  now,         \* the clock
  domain,      \* the status column of a verified domain
  sched,       \* the scan_schedules row of a domain
  tick,        \* the dispatch tasks
  request,     \* the requests of clients
  scans,       \* the committed scans
  published,   \* how many messages a scan was published with
  task,        \* the worker's tasks of a scan
  issued,      \* authorisations issued so far; the last one's id
  wanted,      \* history: the owner's last word on the schedule of a domain
  faults

vars == <<now, domain, sched, tick, request, scans, published, task, issued, wanted, faults>>

SomeDomain == CHOOSE d \in Domains : TRUE
SomeRecurrence == CHOOSE r \in Recurrences : TRUE
NoAuthorisation == [id |-> 0, until |-> 0]
NoRow == [id |-> 0, active |-> FALSE, rec |-> SomeRecurrence, auth |-> NoAuthorisation,
          next |-> 0, last |-> 0]
NoScan == [d |-> SomeDomain, sid |-> 0, for |-> 0, auth |-> NoAuthorisation, status |-> "none"]
IdleTick == [pc |-> "idle", d |-> SomeDomain, row |-> NoRow, at |-> 0, scan |-> 0]
NoTask == [pc |-> "none", stage |-> "bootstrap", tries |-> 0, row |-> NoRow]

IdleRequest == [pc |-> "idle", d |-> SomeDomain, ch |-> [active |-> "on", rec |-> SomeRecurrence],
                loaded |-> NoRow, row |-> NoRow]

MaxTries == 4   \* the attempts of require_phase2_authorisation on a 404

\* Who asks for permission: the task that starts the scan, the one that resolves its
\* targets, the container, and each operation of the container on one target.
Stages == {"bootstrap", "resolve", "pipeline", "operation"}
NextStageOf == [bootstrap |-> "resolve", resolve |-> "pipeline",
                pipeline |-> "operation", operation |-> "operation"]

Authorisation == [id : 0..MaxIssues, until : Nat]
Row == [id : 0..MaxIssues, active : BOOLEAN, rec : Recurrences, auth : Authorisation,
        next : Nat, last : Nat]

Ticking == [pc : {"idle", "checking", "committing"}, d : Domains, row : Row,
            at : Times, scan : 0..MaxScans]
Request == [pc : {"idle", "verifying", "writing"}, d : Domains,
            ch : Changes \union [active : {"on"}, rec : Recurrences], loaded : Row, row : Row]
Scan == [d : Domains, sid : 0..MaxIssues, for : Nat, auth : Authorisation,
         status : {"none", "queued", "running", "ended"}]
Task == [pc : {"none", "queued", "failing", "checking", "refused", "working", "ended"},
         stage : Stages, tries : 0..MaxTries, row : Row]

TypeOK ==
  /\ now \in Times
  /\ domain \in [Domains -> {"verified", "pending"}]
  /\ sched \in [Domains -> Row]
  /\ tick \in [Ticks -> Ticking]
  /\ request \in [Clients -> Request]
  /\ scans \in [ScanIds -> Scan]
  /\ published \in [ScanIds -> 0..2]
  /\ task \in [ScanIds -> Task]
  /\ issued \in 0..MaxIssues
  /\ wanted \in [Domains -> BOOLEAN]
  /\ faults \in 0..MaxFaults

Init ==
  /\ now = 0
  /\ domain = [d \in Domains |-> "verified"]
  /\ sched = [d \in Domains |-> NoRow]
  /\ tick = [k \in Ticks |-> IdleTick]
  /\ request = [c \in Clients |-> IdleRequest]
  /\ scans = [i \in ScanIds |-> NoScan]
  /\ published = [i \in ScanIds |-> 0]
  /\ task = [i \in ScanIds |-> NoTask]
  /\ issued = 0
  /\ wanted = [d \in Domains |-> FALSE]
  /\ faults = 0

Clock ==
  /\ now < Horizon
  /\ now' = now + 1
  /\ UNCHANGED <<domain, sched, tick, request, scans, published, task, issued, wanted, faults>>

Fault == faults < MaxFaults /\ faults' = faults + 1

Exists(d) == sched[d].id # 0
Valid(auth) == now < auth.until

\* A slip: the row is read without FOR UPDATE.
NoLock(d) == TRUE

\* Nobody holds the lock of the row: only ticks hold it, over their transaction.
Unlocked(d) == \A k \in Ticks : tick[k].pc # "idle" => tick[k].d # d

-----------------------------------------------------------------------------
(* Requests of clients: ScanScheduleService.create_schedule,               *)
(* update_schedule and delete_schedule.  A request reads the row without a *)
(* lock, re-verifies the domain, and writes at its end.                    *)

\* The client verifies the domain again (DomainService.verify_domain).
VerifyDomain(d) ==
  /\ domain[d] = "pending"
  /\ domain' = [domain EXCEPT ![d] = "verified"]
  /\ UNCHANGED <<now, sched, tick, request, scans, published, task, issued, wanted, faults>>

Begin(c, pc, d, ch, loaded, row) ==
  /\ request[c].pc = "idle"
  /\ request' = [request EXCEPT ![c] = [pc |-> pc, d |-> d, ch |-> ch,
                                        loaded |-> loaded, row |-> row]]
  /\ UNCHANGED <<now, domain, sched, tick, scans, published, task, issued, wanted, faults>>

Created(r) == [NoRow EXCEPT !.active = TRUE, !.rec = r, !.next = NextRun(r, now)]

\* The columns an update sets.  The next run is computed anew if the recurrence
\* is named or a paused schedule is resumed.
Updated(loaded, ch, auth) ==
  LET active == IF ch.active = "keep" THEN loaded.active ELSE ch.active = "on"
      rec    == IF ch.rec = "keep" THEN loaded.rec ELSE ch.rec
      anew   == ch.rec # "keep" \/ (~loaded.active /\ active)
  IN  [loaded EXCEPT !.active = active, !.rec = rec, !.auth = auth,
                     !.next = IF anew THEN NextRun(rec, now) ELSE @]

StaysPaused(d, ch) == ~Updated(sched[d], ch, sched[d].auth).active

BeginCreate(c, d, r) ==
  /\ domain[d] = "verified"
  /\ Begin(c, "verifying", d, [active |-> "on", rec |-> r], NoRow, Created(r))

\* Pausing, or changing a paused schedule, needs no check of the domain.
BeginPausedUpdate(c, d, ch) ==
  /\ Exists(d)
  /\ StaysPaused(d, ch)
  /\ Begin(c, "writing", d, ch, sched[d], Updated(sched[d], ch, sched[d].auth))

\* A change that leaves the schedule active needs a verified domain, and its
\* authorisation unless it asks for a new one.
BeginActiveUpdate(c, d, ch) ==
  /\ Exists(d)
  /\ ~StaysPaused(d, ch)
  /\ domain[d] = "verified"
  /\ ch.active = "on" \/ Valid(sched[d].auth)
  /\ Begin(c, "verifying", d, ch, sched[d], NoRow)

Issue == [id |-> issued + 1, until |-> now + Validity]

\* The lookup found the record: Phase2AuthorisationService.issue for a creation
\* or a resume.  The domain's status was read as verified and is not rewritten.
Verified(c) ==
  LET q     == request[c]
      fresh == q.ch.active = "on"
      auth  == IF fresh THEN Issue ELSE q.loaded.auth
  IN  /\ q.pc = "verifying"
      /\ fresh => issued < MaxIssues
      /\ issued' = IF fresh THEN issued + 1 ELSE issued
      /\ request' = [request EXCEPT ![c].pc = "writing",
           ![c].row = IF q.loaded.id = 0 THEN [@ EXCEPT !.auth = auth]
                                         ELSE Updated(q.loaded, q.ch, auth)]
      /\ UNCHANGED <<now, domain, sched, tick, scans, published, task, wanted, faults>>

\* It did not, or failed: the domain is committed as pending, the request ends.
NotVerified(c) ==
  /\ request[c].pc = "verifying"
  /\ Fault
  /\ domain' = [domain EXCEPT ![request[c].d] = "pending"]
  /\ request' = [request EXCEPT ![c] = IdleRequest]
  /\ UNCHANGED <<now, sched, tick, scans, published, task, issued, wanted>>

Wanted(ch, before) == IF ch.active = "keep" THEN before ELSE ch.active = "on"

\* The columns that the request changed, the others as they are by now.
Merged(q, current) ==
  [id     |-> current.id,
   active |-> Written(q.row.active, q.loaded.active, current.active),
   rec    |-> Written(q.row.rec, q.loaded.rec, current.rec),
   auth   |-> Written(q.row.auth, q.loaded.auth, current.auth),
   next   |-> Written(q.row.next, q.loaded.next, current.next),
   last   |-> current.last]

\* The INSERT, or the UPDATE once no tick holds the row.
Write(c) ==
  LET q == request[c]
      d == q.d
  IN  /\ q.pc = "writing"
      /\ IF q.loaded.id = 0
         THEN /\ ~Exists(d)
              /\ sched' = [sched EXCEPT ![d] = [q.row EXCEPT !.id = q.row.auth.id]]
         ELSE /\ sched[d].id = q.loaded.id
              /\ Unlocked(d)
              /\ sched' = [sched EXCEPT ![d] = Merged(q, @)]
      /\ wanted' = [wanted EXCEPT ![d] = Wanted(q.ch, @)]
      /\ request' = [request EXCEPT ![c] = IdleRequest]
      /\ UNCHANGED <<now, domain, tick, scans, published, task, issued, faults>>

\* Another request created the domain's schedule first, or deleted this one.
WriteFails(c) ==
  LET q == request[c]
  IN  /\ q.pc = "writing"
      /\ sched[q.d].id # q.loaded.id
      /\ request' = [request EXCEPT ![c] = IdleRequest]
      /\ UNCHANGED <<now, domain, sched, tick, scans, published, task, issued, wanted, faults>>

\* The scans of the schedule stay, without it (ON DELETE SET NULL).
Delete(d) ==
  /\ Exists(d)
  /\ Unlocked(d)
  /\ sched' = [sched EXCEPT ![d] = NoRow]
  /\ wanted' = [wanted EXCEPT ![d] = FALSE]
  /\ UNCHANGED <<now, domain, tick, request, scans, published, task, issued, faults>>

-----------------------------------------------------------------------------
(* A tick: ScanScheduleService.dispatch_due_schedules, one schedule after  *)
(* the other.                                                              *)

\* A slip: the query leaves the active flag out.
DueEvenIfPaused(d) == Exists(d) /\ sched[d].next <= now

Due(d) == Exists(d) /\ sched[d].active /\ sched[d].next <= now

\* A slip: is_active is not reset.
NotPaused(row) == row

Paused(row) == [row EXCEPT !.active = FALSE]

\* get_next_due: FOR UPDATE SKIP LOCKED, the earliest first.
NextDue == {d \in Domains : Due(d) /\ Unlocked(d) /\
              \A e \in Domains : Due(e) /\ Unlocked(e) => sched[d].next <= sched[e].next}

Take(k) ==
  /\ tick[k].pc = "idle"
  /\ \E d \in NextDue :
       /\ domain[d] = "verified"
       /\ Valid(sched[d].auth)
       /\ tick' = [tick EXCEPT ![k] = [pc |-> "checking", d |-> d, row |-> sched[d],
                                       at |-> now, scan |-> 0]]
  /\ UNCHANGED <<now, domain, sched, request, scans, published, task, issued, wanted, faults>>

\* A domain that is not verified, or an expired authorisation, pauses the schedule.
TakeAndPause(k) ==
  /\ tick[k].pc = "idle"
  /\ \E d \in NextDue :
       /\ domain[d] # "verified" \/ ~Valid(sched[d].auth)
       /\ sched' = [sched EXCEPT ![d] = Paused(@)]
  /\ UNCHANGED <<now, domain, tick, request, scans, published, task, issued, wanted, faults>>

\* So does an authorisation that expired during the lookup ...
CheckExpired(k) ==
  /\ tick[k].pc = "checking"
  /\ ~Valid(tick[k].row.auth)
  /\ sched' = [sched EXCEPT ![tick[k].d] = Paused(@)]
  /\ tick' = [tick EXCEPT ![k] = IdleTick]
  /\ UNCHANGED <<now, domain, request, scans, published, task, issued, wanted, faults>>

\* ... and a lookup that did not find the record or failed.
CheckFails(k) ==
  /\ tick[k].pc = "checking"
  /\ Fault
  /\ domain' = [domain EXCEPT ![tick[k].d] = "pending"]
  /\ sched' = [sched EXCEPT ![tick[k].d] = Paused(@)]
  /\ tick' = [tick EXCEPT ![k] = IdleTick]
  /\ UNCHANGED <<now, request, scans, published, task, issued, wanted>>

\* The committed scan of an occurrence, if there is one.
Occurrence(row) == {i \in ScanIds : scans[i].status # "none" /\ scans[i].sid = row.id
                                    /\ scans[i].for = row.next}

Fresh == {i \in ScanIds : published[i] = 0}

\* get_or_create_occurrence: the scan that exists already, which has its task id,
\* or a new one, which publish_scan_task sends off before anything is committed.
Dispatch(k) ==
  LET row == tick[k].row
  IN  /\ tick[k].pc = "checking"
      /\ Valid(row.auth)
      /\ \/ /\ Occurrence(row) # {}
            /\ tick' = [tick EXCEPT ![k].pc = "committing"]
            /\ UNCHANGED <<published, task>>
         \/ /\ Occurrence(row) = {}
            /\ Fresh # {}
            /\ tick' = [tick EXCEPT ![k].pc = "committing", ![k].scan = Min(Fresh)]
            /\ published' = [published EXCEPT ![Min(Fresh)] = 1]
            /\ task' = [task EXCEPT ![Min(Fresh)].pc = "queued"]
      /\ UNCHANGED <<now, domain, sched, request, scans, issued, wanted, faults>>

\* The scan and the schedule's last and next run become visible together.
Commit(k) ==
  LET t   == tick[k]
      row == t.row
  IN  /\ t.pc = "committing"
      /\ scans' = IF t.scan = 0 THEN scans
                  ELSE [scans EXCEPT ![t.scan] =
                    [d |-> t.d, sid |-> row.id, for |-> row.next, auth |-> row.auth,
                     status |-> "queued"]]
      /\ sched' = [sched EXCEPT ![t.d].last = row.next,
                                ![t.d].next = NextRun(row.rec, t.at)]
      /\ tick' = [tick EXCEPT ![k] = IdleTick]
      /\ UNCHANGED <<now, domain, request, published, task, issued, wanted, faults>>

\* A failed publication or commit, or a crash: the transaction is rolled back and
\* the next tick, or the retry of this one, starts again.  A message that is out
\* stays out, its scan never existed.
Abort(k) ==
  /\ tick[k].pc # "idle"
  /\ Fault
  /\ tick' = [tick EXCEPT ![k] = IdleTick]
  /\ UNCHANGED <<now, domain, sched, request, scans, published, task, issued, wanted>>

-----------------------------------------------------------------------------
(* The worker's tasks of a scheduled scan: each asks for permission        *)
(* (Phase2ExecutionService.authorise) before it begins.                    *)

Visible(i) == scans[i].status # "none"
Live(i) == scans[i].status \in {"queued", "running"}

\* The schedule of a scan, unless it was deleted.
ScheduleOf(i) ==
  LET row == sched[scans[i].d] IN IF row.id = scans[i].sid THEN row ELSE NoRow

\* A slip: any authorisation of the schedule will do.
GrantableByAny(i, row) == Valid(scans[i].auth) /\ row.active

\* The scan's authorisation is valid and still that of its active schedule.
Grantable(i, row) ==
  /\ Valid(scans[i].auth)
  /\ row.active
  /\ row.auth.id = scans[i].auth.id

\* A slip: the attempts are not limited.
NotFoundForEver(i) ==
  /\ task[i].pc = "queued"
  /\ ~Visible(i)
  /\ task' = [task EXCEPT ![i].tries = @ + 1]
  /\ UNCHANGED <<now, domain, sched, tick, request, scans, published, issued, wanted, faults>>

\* A slip: the first 404 is the answer.
NotFoundOnce(i) ==
  /\ task[i].pc = "queued"
  /\ ~Visible(i)
  /\ task' = [task EXCEPT ![i].tries = @ + 1, ![i].pc = "failing"]
  /\ UNCHANGED <<now, domain, sched, tick, request, scans, published, issued, wanted, faults>>

\* 404, the scan is not there: again, up to MaxTries times.
NotFound(i) ==
  /\ task[i].pc = "queued"
  /\ ~Visible(i)
  /\ task' = [task EXCEPT ![i].tries = @ + 1,
                          ![i].pc = IF task[i].tries + 1 = MaxTries THEN "failing" ELSE @]
  /\ UNCHANGED <<now, domain, sched, tick, request, scans, published, issued, wanted, faults>>

\* The scan and its schedule are read, and compared.
Load(i) ==
  /\ task[i].pc = "queued"
  /\ Live(i)
  /\ task' = [task EXCEPT ![i] =
       [@ EXCEPT !.pc = IF Grantable(i, ScheduleOf(i)) THEN "checking" ELSE "refused",
                 !.tries = 0, !.row = ScheduleOf(i)]]
  /\ UNCHANGED <<now, domain, sched, tick, request, scans, published, issued, wanted, faults>>

\* The lookup found the record and the authorisation has not expired.
Grant(i) ==
  /\ task[i].pc = "checking"
  /\ Valid(scans[i].auth)
  /\ task' = [task EXCEPT ![i].pc = "working", ![i].row = NoRow]
  /\ UNCHANGED <<now, domain, sched, tick, request, scans, published, issued, wanted, faults>>

\* The authorisation expired during the lookup.
GrantExpired(i) ==
  /\ task[i].pc = "checking"
  /\ ~Valid(scans[i].auth)
  /\ task' = [task EXCEPT ![i].pc = "refused"]
  /\ UNCHANGED <<now, domain, sched, tick, request, scans, published, issued, wanted, faults>>

\* The session writes is_active if it read TRUE, and fails if the row is gone.
PauseLoaded(i) ==
  LET d   == scans[i].d
      row == task[i].row
  IN  /\ row.active => Unlocked(d)
      /\ sched' = IF row.active /\ sched[d].id = row.id
                  THEN [sched EXCEPT ![d] = Paused(@)] ELSE sched

\* Refused: the schedule is paused, the task has the error.
Refuse(i) ==
  /\ task[i].pc = "refused"
  /\ PauseLoaded(i)
  /\ task' = [task EXCEPT ![i].pc = "failing", ![i].row = NoRow]
  /\ UNCHANGED <<now, domain, tick, request, scans, published, issued, wanted, faults>>

LookupFails(i) ==
  /\ task[i].pc = "checking"
  /\ Fault
  /\ PauseLoaded(i)
  /\ domain' = IF sched[scans[i].d].id = task[i].row.id
               THEN [domain EXCEPT ![scans[i].d] = "pending"] ELSE domain
  /\ task' = [task EXCEPT ![i].pc = "failing", ![i].row = NoRow]
  /\ UNCHANGED <<now, tick, request, scans, published, issued, wanted>>

\* The first task alone reports the scan (send_scan_callback): a 404 for one that is
\* not there, whose row stays as it is if it comes later. The attempts that found
\* none are remembered.
Fail(i) ==
  /\ task[i].pc = "failing"
  /\ task[i].stage = "bootstrap"
  /\ scans' = IF Visible(i) THEN [scans EXCEPT ![i].status = "ended"] ELSE scans
  /\ task' = [task EXCEPT ![i].pc = "ended"]
  /\ UNCHANGED <<now, domain, sched, tick, request, published, issued, wanted, faults>>

\* The resolution, or the container, reports its own sources as failed and skipped;
\* one that it does not name (cpe_resolver) keeps the scan running.
FailSources(i) ==
  /\ task[i].pc = "failing"
  /\ task[i].stage \in {"resolve", "pipeline"}
  /\ task' = [task EXCEPT ![i].pc = "ended"]
  /\ UNCHANGED <<now, domain, sched, tick, request, scans, published, issued, wanted, faults>>

\* An operation that is refused fails on its target; the container goes on.
FailOperation(i) ==
  /\ task[i].pc = "failing"
  /\ task[i].stage = "operation"
  /\ task' = [task EXCEPT ![i].pc = "working"]
  /\ UNCHANGED <<now, domain, sched, tick, request, scans, published, issued, wanted, faults>>

\* A task reports its source, which makes the scan "running", and what comes next
\* asks again.
NextStage(i) ==
  /\ task[i].pc = "working"
  /\ scans' = [scans EXCEPT ![i].status = "running"]
  /\ task' = [task EXCEPT ![i].pc = "queued", ![i].stage = NextStageOf[@]]
  /\ UNCHANGED <<now, domain, sched, tick, request, published, issued, wanted, faults>>

\* No target was resolved, the container failed, or it is done: what the sources
\* make of the scan is the subject of ActivePipeline and ScanCallbacks. Before the
\* container there is no way to end it.
LastStage(i) ==
  /\ task[i].pc = "working"
  /\ task[i].stage # "bootstrap"
  /\ \/ UNCHANGED scans
     \/ /\ task[i].stage # "resolve"
        /\ scans' = [scans EXCEPT ![i].status = "ended"]
  /\ task' = [task EXCEPT ![i].pc = "ended"]
  /\ UNCHANGED <<now, domain, sched, tick, request, published, issued, wanted, faults>>

-----------------------------------------------------------------------------
\* The window is over.
Over == now = Horizon /\ UNCHANGED vars

ClientStep(c) ==
  \/ \E d \in Domains, r \in Recurrences : BeginCreate(c, d, r)
  \/ \E d \in Domains, ch \in Changes : BeginPausedUpdate(c, d, ch) \/ BeginActiveUpdate(c, d, ch)
  \/ Verified(c) \/ NotVerified(c) \/ Write(c) \/ WriteFails(c)

TickStep(k) == Take(k) \/ TakeAndPause(k) \/ CheckExpired(k) \/ Dispatch(k) \/ Commit(k)
TaskStep(i) ==
  \/ NotFound(i) \/ Load(i) \/ Grant(i) \/ GrantExpired(i) \/ Refuse(i)
  \/ Fail(i) \/ FailSources(i) \/ FailOperation(i) \/ NextStage(i) \/ LastStage(i)

Next ==
  \/ Clock \/ Over
  \/ \E d \in Domains : VerifyDomain(d) \/ Delete(d)
  \/ \E c \in Clients : ClientStep(c)
  \/ \E k \in Ticks : TickStep(k) \/ CheckFails(k) \/ Abort(k)
  \/ \E i \in ScanIds : TaskStep(i) \/ LookupFails(i)

Spec == Init /\ [][Next]_vars

\* Beat sends a tick every minute; what clients do, failures and the clock are not
\* fair, and nothing depends on the workers.
FairSpec == Spec /\ \A k \in Ticks : WF_vars(TickStep(k))

-----------------------------------------------------------------------------
(* Properties.                                                             *)

\* An occurrence of a schedule makes one scan, published once, however many
\* ticks run, are aborted or retried.
OncePerOccurrence ==
  /\ \A i \in ScanIds : published[i] <= 1
  /\ \A i, j \in ScanIds : Visible(i) /\ Visible(j) /\ i # j =>
       <<scans[i].sid, scans[i].for>> # <<scans[j].sid, scans[j].for>>

\* What a schedule shows as its last run is a scan that was sent off. A scan that
\* nobody works on any more was begun, and its sources say how it ends (README.md,
\* finding 2), or its first task was refused and has ended it: unless it was
\* committed so late that this task, whose message overtook the commit, had asked
\* for it MaxTries times. It then stays queued.
LastRunWasSentOff ==
  /\ \A d \in Domains : sched[d].last # 0 =>
       \E i \in ScanIds : /\ Visible(i) /\ published[i] = 1
                          /\ scans[i].sid = sched[d].id /\ scans[i].for = sched[d].last
  /\ \A i \in ScanIds : Visible(i) /\ task[i].pc = "ended" =>
       \/ scans[i].status = "ended"
       \/ scans[i].status = "running" /\ task[i].stage # "bootstrap"
       \/ scans[i].status = "queued" /\ task[i].tries = MaxTries

\* A schedule's next run lies after its last one, and stays there unless a client's
\* update overlaps the dispatch of an occurrence: it then writes the next run it
\* computed before that dispatch.
Forward(d) == Exists(d) => sched[d].last < sched[d].next
RunsGoForward ==
  [][\A d \in Domains : Forward(d) /\ ~Forward(d)' =>
       \E c \in Clients : /\ request[c].pc = "writing" /\ request'[c].pc = "idle"
                          /\ request[c].d = d
                          /\ request[c].loaded.last # sched[d].last]_vars

\* A paused, deleted or newly authorised schedule makes no scan of before: at the
\* commit of a scan its schedule is there, active and has the scan's authorisation.
NewScanIsAuthorised ==
  [][\A i \in ScanIds : ~Visible(i) /\ Visible(i)' =>
       /\ ScheduleOf(i)'.active
       /\ ScheduleOf(i)'.auth = scans'[i].auth]_vars

\* A stage is granted only to a scan whose schedule is there, active and still has
\* the authorisation the scan was made with, unless the schedule changed while the
\* stage was being checked.
Authorised(i) ==
  LET row == sched[scans[i].d]
  IN  row.id = scans[i].sid /\ row.active /\ row.auth = scans[i].auth /\ now < row.auth.until

GrantIsAuthorised ==
  [][\A i \in ScanIds : task[i].pc = "checking" /\ task'[i].pc = "working" =>
       Authorised(i) \/ sched[scans[i].d] # task[i].row]_vars

\* A schedule that is due does not stay so: it is dispatched, or paused.
DueIsHandled == \A d \in Domains : Due(d) ~> ~Due(d)

\* FR-11.2 (a finding in README.md): a schedule whose owner wants it active, on a
\* domain that always verifies, is active.
OwnerDecides == \A d \in Domains : wanted[d] => sched[d].active
=============================================================================
