----------------------- MODULE ScheduledScans_proofs ------------------------
(* Proofs about recurring scans, for any number of domains, recurrences,     *)
(* ticks, clients and scans. A tick works with the row it read under the     *)
(* lock, a client with a row it read without one, a worker with what it      *)
(* compared: the invariant says what each of these copies may still rely on. *)
(* And about the calculator that says when they are due: for any zone,       *)
(* recurrence, calendar and reference, it gives the first due instant.       *)
EXTENDS MCSchedules, WellFoundedInduction, TLAPS

\* One tick at a time has a schedule, and its copy is the row.
TicksAreSound ==
  /\ \A k, l \in Ticks : tick[k].pc # "idle" /\ tick[l].pc # "idle" /\ tick[k].d = tick[l].d => k = l
  /\ \A k \in Ticks : tick[k].pc # "idle" =>
       /\ tick[k].row = sched[tick[k].d] /\ Exists(tick[k].d) /\ tick[k].row.active
       /\ tick[k].row.next <= tick[k].at /\ tick[k].at <= now

\* What a tick is about to commit is a scan of its own for an occurrence that has
\* none, or that occurrence has one.
CommitsAreSound ==
  /\ \A k \in Ticks : tick[k].pc # "committing" => tick[k].scan = 0
  /\ \A k \in Ticks : tick[k].pc = "committing" =>
       (tick[k].scan = 0 <=> Occurrence(tick[k].row) # {})
  /\ \A k \in Ticks : tick[k].scan # 0 => published[tick[k].scan] = 1 /\ ~Visible(tick[k].scan)
  /\ \A k, l \in Ticks : tick[k].scan # 0 /\ tick[k].scan = tick[l].scan => k = l

\* A scan is published before it is there, and worked on once it is there; a task
\* that has given up on a scan that is not there has asked MaxTries times. Past its
\* first task a scan is running until its last task is over.
TasksAreSound ==
  \A i \in ScanIds :
    /\ published[i] <= 1
    /\ published[i] = 0 => task[i] = NoTask /\ ~Visible(i)
    /\ task[i].tries = MaxTries => task[i].stage = "bootstrap" /\ task[i].pc \in {"failing", "ended"}
    /\ task[i].pc \in {"checking", "refused", "working"} => Visible(i)
    /\ task[i].pc \in {"failing", "ended"} /\ ~Visible(i) => task[i].tries = MaxTries
    /\ task[i].stage # "bootstrap" => \/ scans[i].status = "running"
                                      \/ task[i].pc = "ended" /\ scans[i].status = "ended"
    /\ task[i].pc = "checking" => /\ task[i].row.id = scans[i].sid /\ task[i].row.active
                                  /\ task[i].row.auth = scans[i].auth

\* The ids of schedules are issued, and no two schedules have the same.
IdsAreSound ==
  /\ \A d, e \in Domains : Exists(d) /\ sched[d].id = sched[e].id => d = e
  /\ \A d \in Domains : sched[d].id <= issued
  /\ \A i \in ScanIds : scans[i].sid <= issued

Creates(c) == request[c].pc # "idle" /\ request[c].loaded.id = 0

\* A creation is given an id that no schedule, scan or other creation has.
CreationsAreSound ==
  /\ \A c \in Clients : Creates(c) => /\ request[c].ch.active = "on" /\ request[c].loaded = NoRow
                                      /\ request[c].row.last = 0 /\ request[c].row.next > 0
  /\ \A c \in Clients : Creates(c) /\ request[c].pc = "writing" =>
       LET id == request[c].row.auth.id
       IN  /\ id # 0 /\ id <= issued
           /\ \A d \in Domains : sched[d].id # id
           /\ \A i \in ScanIds : scans[i].sid # id
           /\ \A b \in Clients : b # c /\ Creates(b) /\ request[b].pc = "writing" =>
                request[b].row.auth.id # id

\* The last run of a schedule is over, and an update that sets the next run sets
\* one after the last run it has read.
RunsAreSound ==
  /\ \A d \in Domains : sched[d].last <= now
  /\ \A c \in Clients : request[c].loaded.last <= now
  /\ \A c \in Clients : request[c].pc = "writing" /\ request[c].row.next # request[c].loaded.next =>
       request[c].loaded.last < request[c].row.next

\* The authorisations that anybody has a copy of.
Auths ==
  {NoAuthorisation}
    \union {sched[d].auth : d \in Domains} \union {scans[i].auth : i \in ScanIds}
    \union {request[c].loaded.auth : c \in Clients} \union {request[c].row.auth : c \in Clients}

\* The id of an authorisation tells until when it is valid.
AuthsAreSound ==
  /\ \A a \in Auths : a.id <= issued
  /\ \A a, b \in Auths : a.id = b.id => a = b

\* The two parts of LastRunWasSentOff.
RunsHaveScans ==
  \A d \in Domains : sched[d].last # 0 =>
    \E i \in ScanIds : /\ Visible(i) /\ published[i] = 1
                       /\ scans[i].sid = sched[d].id /\ scans[i].for = sched[d].last
EndedIsOver ==
  \A i \in ScanIds : Visible(i) /\ task[i].pc = "ended" =>
    \/ scans[i].status = "ended"
    \/ scans[i].status = "running" /\ task[i].stage # "bootstrap"
    \/ scans[i].status = "queued" /\ task[i].tries = MaxTries

IInv ==
  /\ TypeOK /\ TicksAreSound /\ CommitsAreSound /\ TasksAreSound /\ IdsAreSound
  /\ CreationsAreSound /\ RunsAreSound /\ AuthsAreSound
  /\ OncePerOccurrence /\ LastRunWasSentOff

-----------------------------------------------------------------------------
(* The first instant of a recurrence, and the first id that is free.         *)

\* The relation of the well-founded order of the naturals is <.
LEMMA LessIsRelated ==
  ASSUME NEW x \in Nat, NEW y \in Nat, y < x
  PROVE  <<y, x>> \in OpToRel(<, Nat)
<1>1. <<y, x>> \in Nat \X Nat /\ <<y, x>>[1] < <<y, x>>[2]
  OBVIOUS
<1> QED BY <1>1, Zenon DEF OpToRel

\* A set of naturals that is not empty has a least member, and Min is that one.
LEMMA MinOfNaturals ==
  ASSUME NEW S \in SUBSET Nat, S # {}
  PROVE  Min(S) \in S /\ \A y \in S : Min(S) <= y
<1>1. PICK x \in S : \A y \in S : ~ (<<y, x>> \in OpToRel(<, Nat))
  BY NatLessThanWellFounded, WFMin
<1>2. ASSUME NEW y \in S PROVE x <= y
  <2>1. ~ (y < x)
    BY <1>1, LessIsRelated, Zenon
  <2> QED BY <2>1
<1> QED BY <1>1, <1>2 DEF Min

\* The next run is an instant after the reference.
LEMMA NextRunIsLater ==
  ASSUME NEW r \in Recurrences, NEW t \in Times
  PROVE  NextRun(r, t) \in Nat /\ NextRun(r, t) > t
<1> DEFINE S == {x \in Slots[r] : x > t}
<1>1. S \in SUBSET Nat /\ S # {}
  BY ScheduleAssumption
<1> HIDE DEF S
<1>2. Min(S) \in S
  BY <1>1, MinOfNaturals
<1> QED BY <1>1, <1>2 DEF NextRun, S

\* The id a new scan is given is no scan yet.
LEMMA FreshIsFree ==
  ASSUME Fresh # {}
  PROVE  Min(Fresh) \in ScanIds /\ published[Min(Fresh)] = 0
<1>1. Fresh \in SUBSET Nat
  BY ScheduleAssumption DEF Fresh, ScanIds
<1>2. Min(Fresh) \in Fresh
  BY <1>1, MinOfNaturals
<1> QED BY <1>2 DEF Fresh

\* What the types need to know of the constants.
LEMMA Bounds ==
  /\ MaxScans \in Nat /\ MaxIssues \in Nat /\ MaxFaults \in Nat /\ Horizon \in Nat
  /\ Validity \in Nat \ {0}
  /\ SomeDomain \in Domains /\ SomeRecurrence \in Recurrences
  /\ Changes \subseteq [active : {"on", "off", "keep"}, rec : Recurrences \union {"keep"}]
BY ScheduleAssumption DEF SomeDomain, SomeRecurrence

\* The values that stand for "nothing" have their types.
LEMMA Constants ==
  /\ NoAuthorisation \in Authorisation /\ NoRow \in Row /\ NoScan \in Scan
  /\ IdleTick \in Ticking /\ NoTask \in Task /\ IdleRequest \in Request
<1>1. NoAuthorisation \in Authorisation
  BY Bounds DEF NoAuthorisation, Authorisation
<1>2. NoRow \in Row
  BY <1>1, Bounds DEF NoRow, Row
<1>3. NoScan \in Scan
  BY <1>1, Bounds DEF NoScan, Scan
<1>4. IdleTick \in Ticking
  BY <1>2, Bounds DEF IdleTick, Ticking, Times
<1>5. NoTask \in Task
  BY <1>2 DEF NoTask, Task, Stages, MaxTries
<1>6. IdleRequest \in Request
  BY <1>2, Bounds DEF IdleRequest, Request
<1> QED BY <1>1, <1>2, <1>3, <1>4, <1>5, <1>6

\* At first there is no schedule, and nothing under way.
LEMMA InitSound == Init => IInv
<1> SUFFICES ASSUME Init PROVE IInv
  OBVIOUS
<1>1. TypeOK
  BY Constants, Bounds DEF Init, TypeOK, Times
<1>2. \A i \in ScanIds : ~Visible(i) /\ task[i] = NoTask /\ published[i] = 0 /\ scans[i].sid = 0
                         /\ scans[i].auth = NoAuthorisation
  BY DEF Init, Visible, NoScan
<1>3. \A d \in Domains : ~Exists(d) /\ sched[d] = NoRow
  BY DEF Init, Exists, NoRow
<1>4. \A k \in Ticks : tick[k].pc = "idle" /\ tick[k].scan = 0
  BY DEF Init, IdleTick
<1>5. \A c \in Clients : request[c] = IdleRequest
  BY DEF Init
<1>6. \A a \in Auths : a = NoAuthorisation
  BY <1>2, <1>3, <1>5 DEF Auths, NoRow, IdleRequest
<1>7. TicksAreSound /\ CommitsAreSound
  BY <1>4 DEF TicksAreSound, CommitsAreSound
<1>8. TasksAreSound
  BY <1>2 DEF TasksAreSound, NoTask, MaxTries
<1>9. IdsAreSound /\ CreationsAreSound /\ RunsAreSound
  BY <1>2, <1>3, <1>5 DEF Init, IdsAreSound, CreationsAreSound, RunsAreSound, Creates, NoRow,
     IdleRequest, Exists
<1>10. AuthsAreSound
  BY <1>6 DEF Init, AuthsAreSound, NoAuthorisation
<1>11. OncePerOccurrence /\ LastRunWasSentOff
  BY <1>2, <1>3 DEF OncePerOccurrence, LastRunWasSentOff, NoRow
<1> QED BY <1>1, <1>7, <1>8, <1>9, <1>10, <1>11 DEF IInv

-----------------------------------------------------------------------------
(* Every step keeps the types.                                               *)

\* A pause changes the flag of a row and nothing else.
LEMMA PausedRow ==
  ASSUME NEW row \in Row
  PROVE  /\ Paused(row) \in Row /\ ~Paused(row).active
         /\ Paused(row).id = row.id /\ Paused(row).rec = row.rec /\ Paused(row).auth = row.auth
         /\ Paused(row).next = row.next /\ Paused(row).last = row.last
BY DEF Row, Paused

\* An update keeps the id and the last run, and sets the next run after now or not
\* at all.
LEMMA UpdatedRow ==
  ASSUME NEW row \in Row, NEW auth \in Authorisation, now \in Times,
         NEW ch \in Changes \union [active : {"on"}, rec : Recurrences]
  PROVE  /\ Updated(row, ch, auth) \in Row
         /\ Updated(row, ch, auth).id = row.id /\ Updated(row, ch, auth).auth = auth
         /\ Updated(row, ch, auth).last = row.last
         /\ \/ Updated(row, ch, auth).next = row.next
            \/ Updated(row, ch, auth).next > now
<1> DEFINE active == IF ch.active = "keep" THEN row.active ELSE ch.active = "on"
           rec == IF ch.rec = "keep" THEN row.rec ELSE ch.rec
           next == IF ch.rec # "keep" \/ (~row.active /\ active) THEN NextRun(rec, now) ELSE row.next
<1>1. ch.active \in {"on", "off", "keep"} /\ ch.rec \in Recurrences \union {"keep"}
  BY Bounds
<1>2. active \in BOOLEAN /\ rec \in Recurrences
  BY <1>1 DEF Row
<1>3. next \in Nat /\ (next = row.next \/ next > now)
  BY <1>2, NextRunIsLater DEF Row
<1>4. Updated(row, ch, auth) =
        [row EXCEPT !.active = active, !.rec = rec, !.auth = auth, !.next = next]
  BY DEF Updated
<1> HIDE DEF active, rec, next
<1> QED BY <1>2, <1>3, <1>4 DEF Row

\* A new row has no last run, and its next run is to come.
LEMMA CreatedRow ==
  ASSUME NEW r \in Recurrences, now \in Times
  PROVE  /\ Created(r) \in Row /\ Created(r).last = 0 /\ Created(r).next > now
         /\ Created(r).auth = NoAuthorisation
BY NextRunIsLater, Constants DEF Created, Row, NoRow

\* What is written of a copy: the columns it changed, the rest as it is in the row.
LEMMA MergedRow ==
  ASSUME NEW q \in Request, NEW row \in Row
  PROVE  /\ Merged(q, row) \in Row
         /\ Merged(q, row).id = row.id /\ Merged(q, row).last = row.last
         /\ Merged(q, row).auth \in {q.row.auth, row.auth}
         /\ Merged(q, row).next = Written(q.row.next, q.loaded.next, row.next)
<1>1. q.row \in Row
  BY DEF Request
<1>2. \/ Written(q.row.active, q.loaded.active, row.active) = q.row.active
      \/ Written(q.row.active, q.loaded.active, row.active) = row.active
  BY DEF Written
<1>3. Written(q.row.active, q.loaded.active, row.active) \in BOOLEAN
  BY <1>1, <1>2 DEF Row
<1>4. /\ Written(q.row.rec, q.loaded.rec, row.rec) \in Recurrences
      /\ Written(q.row.auth, q.loaded.auth, row.auth) \in Authorisation
      /\ Written(q.row.auth, q.loaded.auth, row.auth) \in {q.row.auth, row.auth}
      /\ Written(q.row.next, q.loaded.next, row.next) \in Nat
  BY <1>1 DEF Row, Written
<1> QED BY <1>3, <1>4 DEF Merged, Row

\* Steps of clients keep the types.
LEMMA ClientTypes ==
  ASSUME TypeOK, NEW c \in Clients, ClientStep(c)
  PROVE  TypeOK'
<1> USE DEF TypeOK
<1>0. request[c] \in Request
  OBVIOUS
<1>1. ASSUME NEW d \in Domains, NEW r \in Recurrences, BeginCreate(c, d, r) PROVE TypeOK'
  <2>1. [pc |-> "verifying", d |-> d, ch |-> [active |-> "on", rec |-> r],
         loaded |-> NoRow, row |-> Created(r)] \in Request
    BY CreatedRow, Constants DEF Request
  <2> QED BY <1>1, <2>1 DEF BeginCreate, Begin
<1>2. ASSUME NEW d \in Domains, NEW ch \in Changes, BeginPausedUpdate(c, d, ch) PROVE TypeOK'
  <2>1. sched[d] \in Row /\ sched[d].auth \in Authorisation
    BY DEF Row
  <2>2. Updated(sched[d], ch, sched[d].auth) \in Row
    BY <2>1, UpdatedRow
  <2>3. [pc |-> "writing", d |-> d, ch |-> ch,
         loaded |-> sched[d], row |-> Updated(sched[d], ch, sched[d].auth)] \in Request
    BY <2>1, <2>2 DEF Request
  <2> QED BY <1>2, <2>3 DEF BeginPausedUpdate, Begin
<1>3. ASSUME NEW d \in Domains, NEW ch \in Changes, BeginActiveUpdate(c, d, ch) PROVE TypeOK'
  <2>1. [pc |-> "verifying", d |-> d, ch |-> ch, loaded |-> sched[d], row |-> NoRow] \in Request
    BY Constants DEF Request
  <2> QED BY <1>3, <2>1 DEF BeginActiveUpdate, Begin
<1>4. CASE Verified(c)
  <2> DEFINE q == request[c]
             fresh == q.ch.active = "on"
             auth == IF fresh THEN Issue ELSE q.loaded.auth
             row == IF q.loaded.id = 0 THEN [q.row EXCEPT !.auth = auth] ELSE Updated(q.loaded, q.ch, auth)
  <2>1. fresh => issued < MaxIssues
    BY <1>4 DEF Verified
  <2>2. auth \in Authorisation /\ issued' \in 0..MaxIssues
    BY <1>4, <2>1, Bounds DEF Verified, Issue, Authorisation, Request, Row, Times
  <2>3. row \in Row
    BY <1>0, <2>2, UpdatedRow DEF Request, Row
  <2>4. request' = [request EXCEPT ![c].pc = "writing", ![c].row = row]
    BY <1>4 DEF Verified
  <2> HIDE DEF row, auth
  <2>5. request' \in [Clients -> Request]
    BY <1>0, <2>3, <2>4 DEF Request
  <2> QED BY <1>4, <2>2, <2>5 DEF Verified
<1>5. CASE NotVerified(c)
  BY <1>0, <1>5, Constants, Bounds DEF NotVerified, Fault, Request
<1>6. CASE Write(c)
  <2> DEFINE q == request[c]
  <2>1. q.d \in Domains /\ q.ch \in Changes \union [active : {"on"}, rec : Recurrences] /\ q.row \in Row
    BY <1>0 DEF Request
  <2>2. Wanted(q.ch, wanted[q.d]) \in BOOLEAN
    BY <2>1 DEF Wanted
  <2>3. [q.row EXCEPT !.id = q.row.auth.id] \in Row
    BY <2>1 DEF Row, Authorisation
  <2>4. Merged(q, sched[q.d]) \in Row
    BY <1>0, <2>1, MergedRow
  <2>5. sched' \in [Domains -> Row]
    BY <1>6, <2>1, <2>3, <2>4 DEF Write
  <2>6. wanted' \in [Domains -> BOOLEAN]
    BY <1>6, <2>1, <2>2 DEF Write
  <2> QED BY <1>6, <2>5, <2>6, Constants DEF Write
<1>7. CASE WriteFails(c)
  BY <1>7, Constants DEF WriteFails
<1> QED BY <1>1, <1>2, <1>3, <1>4, <1>5, <1>6, <1>7 DEF ClientStep

\* Steps of ticks keep the types.
LEMMA TickTypes ==
  ASSUME TypeOK, NEW k \in Ticks, TickStep(k) \/ CheckFails(k) \/ Abort(k)
  PROVE  TypeOK'
<1> USE DEF TypeOK
<1>0. tick[k] \in Ticking /\ tick[k].d \in Domains /\ tick[k].row \in Row
  BY DEF Ticking
<1>1. CASE Take(k)
  <2>1. PICK d \in Domains : tick' = [tick EXCEPT ![k] = [pc |-> "checking", d |-> d, row |-> sched[d],
                                                        at |-> now, scan |-> 0]]
    BY <1>1 DEF Take, NextDue
  <2>2. [pc |-> "checking", d |-> d, row |-> sched[d], at |-> now, scan |-> 0] \in Ticking
    BY Bounds DEF Ticking
  <2> QED BY <1>1, <2>1, <2>2 DEF Take
<1>2. CASE TakeAndPause(k)
  <2>1. PICK d \in Domains : sched' = [sched EXCEPT ![d] = Paused(@)]
    BY <1>2 DEF TakeAndPause, NextDue
  <2> QED BY <1>2, <2>1, PausedRow DEF TakeAndPause
<1>3. CASE CheckExpired(k)
  BY <1>0, <1>3, PausedRow, Constants DEF CheckExpired
<1>4. CASE CheckFails(k)
  BY <1>0, <1>4, PausedRow, Constants, Bounds DEF CheckFails, Fault
<1>5. CASE Dispatch(k)
  <2>1. CASE tick' = [tick EXCEPT ![k].pc = "committing"] /\ UNCHANGED <<published, task>>
    BY <1>0, <1>5, <2>1 DEF Dispatch, Ticking
  <2>2. CASE /\ Fresh # {}
             /\ tick' = [tick EXCEPT ![k].pc = "committing", ![k].scan = Min(Fresh)]
             /\ published' = [published EXCEPT ![Min(Fresh)] = 1]
             /\ task' = [task EXCEPT ![Min(Fresh)].pc = "queued"]
    <3>1. Min(Fresh) \in ScanIds /\ Min(Fresh) \in 0..MaxScans
      BY <2>2, FreshIsFree, Bounds DEF ScanIds
    <3>2. task' \in [ScanIds -> Task]
      BY <1>0, <2>2, <3>1 DEF Task
    <3>3. tick' \in [Ticks -> Ticking]
      BY <1>0, <2>2, <3>1 DEF Ticking
    <3> QED BY <1>0, <1>5, <2>2, <3>1, <3>2, <3>3 DEF Dispatch
  <2> QED BY <1>5, <2>1, <2>2 DEF Dispatch
<1>6. CASE Commit(k)
  <2> DEFINE t == tick[k]
             scan == [d |-> t.d, sid |-> t.row.id, for |-> t.row.next, auth |-> t.row.auth,
                      status |-> "queued"]
  <2>1. scan \in Scan
    BY <1>0 DEF Scan, Row
  <2>2. scans' \in [ScanIds -> Scan]
    BY <1>6, <2>1 DEF Commit
  <2>3. NextRun(t.row.rec, t.at) \in Nat
    BY <1>0, NextRunIsLater DEF Ticking, Row
  <2>4. sched' \in [Domains -> Row]
    BY <1>0, <1>6, <2>3 DEF Commit, Row
  <2> QED BY <1>6, <2>2, <2>4, Constants DEF Commit
<1>7. CASE Abort(k)
  BY <1>7, Constants, Bounds DEF Abort, Fault
<1> QED BY <1>1, <1>2, <1>3, <1>4, <1>5, <1>6, <1>7 DEF TickStep

\* A pause by a worker keeps the type of the rows.
LEMMA PauseLoadedTypes ==
  ASSUME TypeOK, NEW i \in ScanIds, PauseLoaded(i)
  PROVE  sched' \in [Domains -> Row]
BY PausedRow DEF TypeOK, PauseLoaded, Scan

\* Steps of the worker keep the types.
LEMMA TaskTypes ==
  ASSUME IInv, NEW i \in ScanIds, TaskStep(i) \/ LookupFails(i)
  PROVE  TypeOK'
<1> USE DEF TypeOK
<1>0. TypeOK /\ scans[i] \in Scan /\ scans[i].d \in Domains /\ task[i] \in Task /\ task[i].tries \in 0..4
  BY DEF IInv, Scan, Task, MaxTries
<1>1. CASE NotFound(i)
  <2>1. task[i].tries + 1 \in 0..4
    BY <1>0, <1>1 DEF NotFound, IInv, TasksAreSound, MaxTries
  <2> QED BY <1>0, <1>1, <2>1 DEF NotFound, Task, MaxTries
<1>2. CASE Load(i)
  <2>1. ScheduleOf(i) \in Row
    BY <1>0, Constants DEF ScheduleOf
  <2>2. [task[i] EXCEPT !.pc = IF Grantable(i, ScheduleOf(i)) THEN "checking" ELSE "refused",
                        !.tries = 0, !.row = ScheduleOf(i)] \in Task
    <3> DEFINE pc == IF Grantable(i, ScheduleOf(i)) THEN "checking" ELSE "refused"
    <3>1. pc \in {"checking", "refused"}
      OBVIOUS
    <3> HIDE DEF pc
    <3>2. task[i].stage \in Stages /\ 0 \in 0..MaxTries
      BY <1>0 DEF Task, MaxTries
    <3>3. [task[i] EXCEPT !.pc = pc, !.tries = 0, !.row = ScheduleOf(i)] \in Task
      BY <1>0, <2>1, <3>1, <3>2 DEF Task
    <3> QED BY <3>3 DEF pc
  <2> QED BY <1>0, <1>2, <2>2 DEF Load
<1>3. CASE Grant(i) \/ GrantExpired(i)
  BY <1>0, <1>3, Constants DEF Grant, GrantExpired, Task
<1>4. CASE Refuse(i)
  BY <1>0, <1>4, Constants, PauseLoadedTypes DEF Refuse, Task
<1>5. CASE LookupFails(i)
  <2>1. task' \in [ScanIds -> Task]
    BY <1>0, <1>5, Constants DEF LookupFails, Task
  <2>2. sched' \in [Domains -> Row]
    BY <1>0, <1>5, PauseLoadedTypes DEF LookupFails
  <2> QED BY <1>0, <1>5, <2>1, <2>2, Bounds DEF LookupFails, Fault
<1>6. CASE Fail(i)
  <2>1. scans' \in [ScanIds -> Scan]
    BY <1>0, <1>6 DEF Fail, Scan
  <2> QED BY <1>0, <1>6, <2>1 DEF Fail, Task
<1>7. CASE FailSources(i) \/ FailOperation(i)
  BY <1>0, <1>7 DEF FailSources, FailOperation, Task
<1>8. CASE NextStage(i) \/ LastStage(i)
  <2>1. NextStageOf[task[i].stage] \in Stages
    BY <1>0 DEF Task, Stages, NextStageOf
  <2>2. task' \in [ScanIds -> Task]
    BY <1>0, <1>8, <2>1 DEF NextStage, LastStage, Task
  <2>3. scans' = scans \/ \E status \in {"running", "ended"} : scans' = [scans EXCEPT ![i].status = status]
    BY <1>8 DEF NextStage, LastStage
  <2>4. scans' \in [ScanIds -> Scan]
    BY <1>0, <2>3 DEF Scan
  <2> QED BY <1>0, <1>8, <2>2, <2>4 DEF NextStage, LastStage
<1> QED BY <1>1, <1>2, <1>3, <1>4, <1>5, <1>6, <1>7, <1>8 DEF TaskStep

\* The clock, verifications and deletions keep the types.
LEMMA OtherTypes ==
  ASSUME TypeOK,
         Clock \/ UNCHANGED vars \/ (\E d \in Domains : VerifyDomain(d) \/ Delete(d))
  PROVE  TypeOK'
<1> USE DEF TypeOK
<1>1. CASE Clock
  BY <1>1, Bounds DEF Clock, Times
<1>2. CASE UNCHANGED vars
  BY <1>2 DEF vars
<1>3. ASSUME NEW d \in Domains, VerifyDomain(d) \/ Delete(d) PROVE TypeOK'
  BY <1>3, Constants DEF VerifyDomain, Delete
<1> QED BY <1>1, <1>2, <1>3

-----------------------------------------------------------------------------
(* The requests of clients.                                                  *)

\* A step gives nobody a new authorisation, or one with the next id.
LEMMA AuthsKept ==
  ASSUME AuthsAreSound, TypeOK, Auths' \subseteq Auths, issued' = issued
  PROVE  AuthsAreSound'
BY DEF AuthsAreSound

\* A new authorisation has an id that no other one has.
LEMMA AuthsIssued ==
  ASSUME AuthsAreSound, TypeOK, Auths' \subseteq Auths \union {Issue}, issued' = issued + 1
  PROVE  AuthsAreSound'
<1>1. \A a \in Auths : a \in Authorisation
  BY Constants DEF Auths, TypeOK, Row, Scan, Request
<1>2. issued \in Nat
  BY DEF TypeOK
<1>3. Issue.id = issued + 1
  BY DEF Issue
<1> QED BY <1>1, <1>2, <1>3 DEF AuthsAreSound, Authorisation

\* What a step that only changes one request must see to.
LEMMA RequestSound ==
  ASSUME IInv, TypeOK', NEW c \in Clients,
         UNCHANGED <<now, sched, tick, scans, published, task>>,
         \A b \in Clients \ {c} : request'[b] = request[b],
         request'[c].loaded.auth \in Auths, request'[c].loaded.last <= now,
         \/ issued' = issued /\ request'[c].row.auth \in Auths
         \/ issued' = issued + 1 /\ request'[c].row.auth = Issue,
         Creates(c)' =>
           /\ request'[c].ch.active = "on" /\ request'[c].loaded = NoRow
           /\ request'[c].row.last = 0 /\ request'[c].row.next > 0
           /\ request'[c].pc = "writing" => issued' = issued + 1,
         request'[c].pc = "writing" /\ request'[c].row.next # request'[c].loaded.next =>
           request'[c].loaded.last < request'[c].row.next
  PROVE  IInv'
<1>1. issued \in Nat /\ issued' \in Nat /\ issued <= issued'
  BY DEF IInv, TypeOK
<1>2. TicksAreSound'
  BY DEF IInv, TicksAreSound, Exists
<1>3. CommitsAreSound' /\ TasksAreSound'
  BY DEF IInv, CommitsAreSound, TasksAreSound, Occurrence, Visible
<1>4. IdsAreSound'
  BY <1>1 DEF IInv, TypeOK, IdsAreSound, Exists, Row, Scan
<1>5. CreationsAreSound'
  <2>1. \A b \in Clients \ {c} : Creates(b)' = Creates(b)
    BY DEF Creates
  <2>2. Creates(c)' /\ request'[c].pc = "writing" => request'[c].row.auth.id = issued + 1
    BY <1>1 DEF Issue
  <2>3. \A b \in Clients : Creates(b) /\ request[b].pc = "writing" => request[b].row.auth.id <= issued
    BY DEF IInv, CreationsAreSound
  <2>4. /\ \A d \in Domains : sched[d].id \in Nat /\ sched[d].id <= issued
        /\ \A i \in ScanIds : scans[i].sid \in Nat /\ scans[i].sid <= issued
        /\ \A b \in Clients : request[b].row.auth.id \in Nat
    BY DEF IInv, TypeOK, IdsAreSound, Row, Scan, Request, Authorisation
  <2> QED BY <1>1, <2>1, <2>2, <2>3, <2>4 DEF IInv, CreationsAreSound
<1>6. RunsAreSound'
  BY DEF IInv, RunsAreSound
<1>7. AuthsAreSound'
  <2>1. CASE issued' = issued /\ request'[c].row.auth \in Auths
    <3>1. Auths' \subseteq Auths
      BY <2>1 DEF Auths
    <3> QED BY <2>1, <3>1, AuthsKept DEF IInv
  <2>2. CASE issued' = issued + 1 /\ request'[c].row.auth = Issue
    <3>1. Auths' \subseteq Auths \union {Issue}
      BY <2>2 DEF Auths
    <3> QED BY <2>2, <3>1, AuthsIssued DEF IInv
  <2> QED BY <2>1, <2>2
<1>8. OncePerOccurrence' /\ LastRunWasSentOff'
  BY DEF IInv, OncePerOccurrence, LastRunWasSentOff, Visible
<1> QED BY <1>2, <1>3, <1>4, <1>5, <1>6, <1>7, <1>8 DEF IInv

\* The steps of a client: it reads a row without a lock, waits, and writes what it
\* changed.
LEMMA ClientSound ==
  ASSUME IInv, NEW c \in Clients, ClientStep(c)
  PROVE  IInv'
<1>0. TypeOK /\ TypeOK' /\ request[c] \in Request /\ now \in Times
  BY ClientTypes DEF IInv, TypeOK
<1>1. /\ \A d \in Domains : sched[d] \in Row /\ sched[d].auth \in Auths /\ sched[d].last <= now
      /\ NoRow.auth \in Auths /\ NoRow.last <= now /\ NoRow.last = 0 /\ NoRow.id = 0
      /\ request[c].loaded \in Row /\ request[c].row \in Row /\ request[c].d \in Domains
      /\ request[c].loaded.auth \in Auths /\ request[c].row.auth \in Auths
      /\ request[c].loaded.last <= now
  BY <1>0 DEF IInv, TypeOK, RunsAreSound, Auths, NoRow, Request, Times
<1>2. ASSUME NEW d \in Domains, NEW r \in Recurrences, BeginCreate(c, d, r) PROVE IInv'
  <2>1. /\ \A b \in Clients \ {c} : request'[b] = request[b]
        /\ request'[c] = [pc |-> "verifying", d |-> d, ch |-> [active |-> "on", rec |-> r],
                          loaded |-> NoRow, row |-> Created(r)]
        /\ UNCHANGED <<now, sched, tick, scans, published, task, issued>>
    BY <1>0, <1>2 DEF BeginCreate, Begin, TypeOK
  <2>2. Created(r).last = 0 /\ Created(r).next > 0 /\ Created(r).auth \in Auths
    BY <1>0, <1>1, CreatedRow DEF Auths, Times, Row
  <2> QED BY <1>0, <1>1, <2>1, <2>2, RequestSound
<1>3. ASSUME NEW d \in Domains, NEW ch \in Changes,
             BeginPausedUpdate(c, d, ch) \/ BeginActiveUpdate(c, d, ch)
      PROVE  IInv'
  <2>1. /\ \A b \in Clients \ {c} : request'[b] = request[b]
        /\ UNCHANGED <<now, sched, tick, scans, published, task, issued>>
        /\ request'[c].loaded = sched[d] /\ sched[d].id # 0
        /\ \/ request'[c].row = NoRow /\ request'[c].pc = "verifying"
           \/ request'[c].row = Updated(sched[d], ch, sched[d].auth)
    BY <1>0, <1>3 DEF BeginPausedUpdate, BeginActiveUpdate, Begin, TypeOK, Exists
  <2>2. ~Creates(c)'
    BY <2>1 DEF Creates
  <2>3. /\ Updated(sched[d], ch, sched[d].auth).auth \in Auths
        /\ \/ Updated(sched[d], ch, sched[d].auth).next = sched[d].next
           \/ Updated(sched[d], ch, sched[d].auth).next > now
        /\ Updated(sched[d], ch, sched[d].auth).next \in Nat /\ sched[d].last \in Nat
    BY <1>0, <1>1, UpdatedRow DEF Row
  <2> QED BY <1>0, <1>1, <2>1, <2>2, <2>3, RequestSound DEF Times
<1>4. CASE Verified(c)
  <2> DEFINE q == request[c]
             auth == IF q.ch.active = "on" THEN Issue ELSE q.loaded.auth
             row == IF q.loaded.id = 0 THEN [q.row EXCEPT !.auth = auth] ELSE Updated(q.loaded, q.ch, auth)
  <2>1. /\ \A b \in Clients \ {c} : request'[b] = request[b]
        /\ UNCHANGED <<now, sched, tick, scans, published, task>>
        /\ request'[c] = [q EXCEPT !.pc = "writing", !.row = row]
        /\ q.pc = "verifying"
    BY <1>0, <1>4 DEF Verified, TypeOK
  <2>2. /\ request'[c].loaded = q.loaded /\ request'[c].ch = q.ch
        /\ request'[c].pc = "writing" /\ request'[c].row = row
    BY <1>0, <2>1 DEF Request
  <2>3. auth \in Authorisation /\ issued' = IF q.ch.active = "on" THEN issued + 1 ELSE issued
    <3>1. q.ch.active = "on" => issued < MaxIssues
      BY <1>4 DEF Verified
    <3> QED BY <1>0, <1>1, <1>4, <3>1, Bounds DEF Verified, Issue, Authorisation, Row, Times, TypeOK
  <2>4. row.auth = auth /\ row \in Row /\ row.next \in Nat
    <3> HIDE DEF auth
    <3>1. [q.row EXCEPT !.auth = auth] \in Row /\ [q.row EXCEPT !.auth = auth].auth = auth
      BY <1>1, <2>3 DEF Row
    <3>2. Updated(q.loaded, q.ch, auth) \in Row /\ Updated(q.loaded, q.ch, auth).auth = auth
      BY <1>0, <1>1, <2>3, UpdatedRow DEF Request
    <3>3. row \in Row /\ row.auth = auth
      BY <3>1, <3>2
    <3> QED BY <3>3 DEF Row
  <2>5. \/ issued' = issued /\ row.auth \in Auths
        \/ issued' = issued + 1 /\ row.auth = Issue
    BY <1>1, <2>3, <2>4
  <2>6. Creates(c)' => /\ q.ch.active = "on" /\ q.loaded = NoRow /\ issued' = issued + 1
                       /\ row.last = 0 /\ row.next > 0
    <3>1. Creates(c)' = Creates(c)
      BY <2>1, <2>2 DEF Creates
    <3>2. Creates(c) => /\ q.ch.active = "on" /\ q.loaded = NoRow
                        /\ q.row.last = 0 /\ q.row.next > 0
      BY DEF IInv, CreationsAreSound
    <3>3. Creates(c) => row.last = q.row.last /\ row.next = q.row.next
      BY <1>1 DEF Creates, Row
    <3> QED BY <2>3, <3>1, <3>2, <3>3
  <2>7. row.next # q.loaded.next => q.loaded.last < row.next
    <3>1. CASE q.loaded.id = 0
      BY <1>1, <2>1, <2>2, <2>6, <3>1 DEF Creates
    <3>2. CASE q.loaded.id # 0
      <4>1. row = Updated(q.loaded, q.ch, auth)
        BY <3>2
      <4> HIDE DEF row, auth
      <4>2. row.next = q.loaded.next \/ row.next > now
        BY <1>0, <1>1, <2>3, <4>1, UpdatedRow DEF Request
      <4>3. q.loaded.last \in Nat /\ now \in Nat
        BY <1>0, <1>1 DEF Row, Times
      <4> QED BY <1>1, <2>4, <4>2, <4>3
    <3> QED BY <3>1, <3>2
  <2> HIDE DEF row, auth
  <2> QED BY <1>0, <1>1, <2>1, <2>2, <2>4, <2>5, <2>6, <2>7, RequestSound
<1>5. CASE NotVerified(c) \/ WriteFails(c)
  <2>1. /\ \A b \in Clients \ {c} : request'[b] = request[b]
        /\ UNCHANGED <<now, sched, tick, scans, published, task, issued>>
        /\ request'[c] = IdleRequest
    BY <1>0, <1>5 DEF NotVerified, WriteFails, TypeOK
  <2> QED BY <1>0, <1>1, <2>1, RequestSound DEF IdleRequest, Creates
<1>6. CASE Write(c)
  <2> DEFINE q == request[c]
             d == q.d
             id == q.row.auth.id
  <2>1. /\ \A b \in Clients \ {c} : request'[b] = request[b]
        /\ request'[c] = IdleRequest
        /\ \A e \in Domains \ {d} : sched'[e] = sched[e]
        /\ UNCHANGED <<now, tick, scans, published, task, issued>>
        /\ q.pc = "writing"
    BY <1>0, <1>6 DEF Write, TypeOK
  <2>2. \/ /\ q.loaded.id = 0 /\ ~Exists(d)
           /\ sched'[d] = [q.row EXCEPT !.id = id]
        \/ /\ q.loaded.id # 0 /\ sched[d].id = q.loaded.id
           /\ Unlocked(d)
           /\ sched'[d] = Merged(q, sched[d])
    BY <1>0, <1>1, <1>6 DEF Write, TypeOK
  <2>3. q.loaded.id = 0 => /\ sched'[d].id = id /\ sched'[d].last = 0 /\ sched'[d].auth = q.row.auth
                           /\ Creates(c)
    BY <1>1, <2>1, <2>2 DEF IInv, CreationsAreSound, Creates, Row
  <2>4. q.loaded.id # 0 => /\ sched'[d].id = sched[d].id /\ sched'[d].last = sched[d].last
                           /\ sched'[d].auth \in {q.row.auth, sched[d].auth}
    BY <1>0, <1>1, <2>2, MergedRow
  <2>5. TicksAreSound'
    <3>1. \A k \in Ticks : tick[k].pc # "idle" => tick[k].d \in Domains /\ tick[k].d # d
      BY <1>0, <2>2 DEF IInv, TypeOK, TicksAreSound, Unlocked, Ticking
    <3> QED BY <2>1, <3>1 DEF IInv, TicksAreSound, Exists
  <2>6. CommitsAreSound' /\ TasksAreSound'
    BY <2>1 DEF IInv, CommitsAreSound, TasksAreSound, Occurrence, Visible
  <2>7. ASSUME q.loaded.id = 0
        PROVE  IdsAreSound' /\ CreationsAreSound' /\ LastRunWasSentOff'
    <3>1. /\ id # 0 /\ id <= issued
          /\ \A e \in Domains : sched[e].id # id
          /\ \A i \in ScanIds : scans[i].sid # id
          /\ \A b \in Clients : b # c /\ Creates(b) /\ request[b].pc = "writing" =>
               request[b].row.auth.id # id
      BY <2>1, <2>3, <2>7 DEF IInv, CreationsAreSound
    <3>2. IdsAreSound'
      BY <1>1, <2>1, <2>3, <2>7, <3>1 DEF IInv, IdsAreSound, Exists
    <3>3. CreationsAreSound'
      BY <1>1, <2>1, <2>3, <2>7, <3>1 DEF IInv, CreationsAreSound, Creates, IdleRequest
    <3>4. LastRunWasSentOff'
      BY <2>1, <2>3, <2>7 DEF IInv, LastRunWasSentOff, Visible
    <3> QED BY <3>2, <3>3, <3>4
  <2>8. ASSUME q.loaded.id # 0
        PROVE  IdsAreSound' /\ CreationsAreSound' /\ LastRunWasSentOff'
    <3>1. IdsAreSound'
      BY <1>1, <2>1, <2>4, <2>8 DEF IInv, IdsAreSound, Exists
    <3>2. CreationsAreSound'
      BY <1>1, <2>1, <2>4, <2>8 DEF IInv, CreationsAreSound, Creates, IdleRequest
    <3>3. LastRunWasSentOff'
      BY <1>1, <2>1, <2>4, <2>8 DEF IInv, LastRunWasSentOff, Visible
    <3> QED BY <3>1, <3>2, <3>3
  <2>9. RunsAreSound'
    <3>1. sched'[d].last <= now
      BY <1>0, <1>1, <2>3, <2>4 DEF Times
    <3> QED BY <1>1, <2>1, <3>1 DEF IInv, RunsAreSound, IdleRequest
  <2>10. AuthsAreSound'
    <3>1. sched'[d].auth \in Auths
      BY <1>1, <2>3, <2>4
    <3>2. Auths' \subseteq Auths
      BY <1>1, <2>1, <3>1 DEF Auths, IdleRequest
    <3> QED BY <1>0, <2>1, <3>2, AuthsKept DEF IInv
  <2>11. OncePerOccurrence'
    BY <2>1 DEF IInv, OncePerOccurrence, Visible
  <2> QED BY <1>0, <2>5, <2>6, <2>7, <2>8, <2>9, <2>10, <2>11 DEF IInv
<1> QED BY <1>2, <1>3, <1>4, <1>5, <1>6 DEF ClientStep

-----------------------------------------------------------------------------
(* The ticks.                                                                *)

\* A step that neither issues nor commits anything, and at most pauses schedules.
RowsKept ==
  /\ UNCHANGED <<request, issued>> /\ now <= now'
  /\ \A d \in Domains : /\ sched'[d].id = sched[d].id /\ sched'[d].auth = sched[d].auth
                        /\ sched'[d].last = sched[d].last
  /\ \A i \in ScanIds : /\ Visible(i)' <=> Visible(i)
                        /\ scans'[i].sid = scans[i].sid /\ scans'[i].for = scans[i].for /\ scans'[i].auth = scans[i].auth
                        /\ published'[i] = published[i] \/ (~Visible(i) /\ published'[i] = 1)

\* Steps that keep ids, authorisations and last runs keep what is said of them.
LEMMA RowsKeptSound ==
  ASSUME IInv, TypeOK', RowsKept
  PROVE  /\ IdsAreSound' /\ CreationsAreSound' /\ RunsAreSound' /\ AuthsAreSound'
         /\ OncePerOccurrence' /\ RunsHaveScans'
<1> USE DEF RowsKept
<1>1. IdsAreSound'
  BY DEF IInv, IdsAreSound, Exists
<1>2. CreationsAreSound'
  BY DEF IInv, CreationsAreSound, Creates
<1>3. RunsAreSound'
  <2>1. /\ now \in Nat /\ now' \in Nat
        /\ \A d \in Domains : sched[d].last \in Nat
        /\ \A c \in Clients : request[c].loaded.last \in Nat
    BY DEF IInv, TypeOK, Times, Row, Request
  <2> QED BY <2>1 DEF IInv, RunsAreSound
<1>4. AuthsAreSound'
  <2>1. Auths' \subseteq Auths
    BY DEF Auths
  <2> QED BY <2>1, AuthsKept DEF IInv
<1>5. OncePerOccurrence'
  BY DEF IInv, OncePerOccurrence
<1>6. RunsHaveScans'
  BY DEF IInv, LastRunWasSentOff, RunsHaveScans
<1> QED BY <1>1, <1>2, <1>3, <1>4, <1>5, <1>6

\* A tick takes a due row that nobody holds, or pauses it.
LEMMA TakeSound ==
  ASSUME IInv, NEW k \in Ticks, Take(k) \/ TakeAndPause(k)
  PROVE  IInv'
<1>0. TypeOK /\ TypeOK' /\ now \in Nat
  BY TickTypes DEF IInv, TypeOK, TickStep, Times
<1>1. PICK d \in NextDue :
        /\ UNCHANGED <<now, request, scans, published, task, issued>>
        /\ \/ /\ tick' = [tick EXCEPT ![k] = [pc |-> "checking", d |-> d, row |-> sched[d],
                                             at |-> now, scan |-> 0]]
              /\ sched' = sched
           \/ sched' = [sched EXCEPT ![d] = Paused(@)] /\ tick' = tick
  BY DEF Take, TakeAndPause
<1>2. d \in Domains /\ Due(d) /\ \A l \in Ticks : tick[l].pc # "idle" => tick[l].d # d
  BY DEF NextDue, Unlocked
<1>3. tick[k].pc = "idle"
  BY DEF Take, TakeAndPause
<1>4. \A e \in Domains : /\ sched'[e].id = sched[e].id /\ sched'[e].auth = sched[e].auth
                         /\ sched'[e].last = sched[e].last /\ (e # d => sched'[e] = sched[e])
  BY <1>0, <1>1, <1>2, PausedRow DEF TypeOK
<1>5. RowsKept
  BY <1>0, <1>1, <1>4 DEF RowsKept, Visible
<1>6. ASSUME tick' = tick
      PROVE  TicksAreSound' /\ CommitsAreSound'
  <2>1. TicksAreSound'
    BY <1>0, <1>1, <1>2, <1>4, <1>6 DEF IInv, TypeOK, TicksAreSound, Exists, Ticking
  <2>2. CommitsAreSound'
    BY <1>1, <1>6 DEF IInv, CommitsAreSound, Occurrence, Visible
  <2> QED BY <2>1, <2>2
<1>7. ASSUME tick' = [tick EXCEPT ![k] = [pc |-> "checking", d |-> d, row |-> sched[d],
                                         at |-> now, scan |-> 0]], sched' = sched
      PROVE  TicksAreSound' /\ CommitsAreSound'
  <2>1. /\ \A l \in Ticks \ {k} : tick'[l] = tick[l]
        /\ tick'[k] = [pc |-> "checking", d |-> d, row |-> sched[d], at |-> now, scan |-> 0]
    BY <1>0, <1>7 DEF TypeOK
  <2>2. TicksAreSound'
    BY <1>0, <1>1, <1>2, <1>7, <2>1 DEF IInv, TicksAreSound, Exists, Due
  <2>3. CommitsAreSound'
    BY <1>1, <2>1 DEF IInv, CommitsAreSound, Occurrence, Visible
  <2> QED BY <2>2, <2>3
<1>8. TicksAreSound' /\ CommitsAreSound'
  BY <1>1, <1>6, <1>7
<1>9. TasksAreSound' /\ EndedIsOver'
  BY <1>1 DEF IInv, TasksAreSound, LastRunWasSentOff, EndedIsOver, Visible
<1> QED BY <1>0, <1>5, <1>8, <1>9, RowsKeptSound DEF IInv, LastRunWasSentOff, RunsHaveScans,
   EndedIsOver

\* A tick that gives up leaves its row paused, or as it was.
LEMMA GiveUpSound ==
  ASSUME IInv, NEW k \in Ticks, CheckExpired(k) \/ CheckFails(k) \/ Abort(k)
  PROVE  IInv'
<1>0. TypeOK /\ TypeOK' /\ tick[k].d \in Domains /\ now \in Nat
  BY TickTypes DEF IInv, TypeOK, TickStep, Ticking, Times
<1> DEFINE d == tick[k].d
<1>1. /\ UNCHANGED <<now, request, scans, published, task, issued>>
      /\ tick[k].pc # "idle" /\ tick' = [tick EXCEPT ![k] = IdleTick]
      /\ sched' = sched \/ sched' = [sched EXCEPT ![d] = Paused(@)]
  BY DEF CheckExpired, CheckFails, Abort
<1>2. \A l \in Ticks \ {k} : tick'[l] = tick[l] /\ (tick[l].pc # "idle" => tick[l].d \in Domains \ {d})
  BY <1>0, <1>1 DEF IInv, TicksAreSound, TypeOK, Ticking
<1>3. tick'[k].pc = "idle" /\ tick'[k].scan = 0
  BY <1>0, <1>1 DEF TypeOK, IdleTick
<1>4. \A e \in Domains : /\ sched'[e].id = sched[e].id /\ sched'[e].auth = sched[e].auth
                         /\ sched'[e].last = sched[e].last /\ (e # d => sched'[e] = sched[e])
  BY <1>0, <1>1, PausedRow DEF TypeOK
<1>5. RowsKept
  BY <1>0, <1>1, <1>4 DEF RowsKept, Visible
<1>6. TicksAreSound'
  BY <1>1, <1>2, <1>3, <1>4 DEF IInv, TicksAreSound, Exists
<1>7. CommitsAreSound'
  BY <1>1, <1>2, <1>3 DEF IInv, CommitsAreSound, Occurrence, Visible
<1>8. TasksAreSound' /\ EndedIsOver'
  BY <1>1 DEF IInv, TasksAreSound, LastRunWasSentOff, EndedIsOver, Visible
<1> QED BY <1>0, <1>5, <1>6, <1>7, <1>8, RowsKeptSound DEF IInv, LastRunWasSentOff, RunsHaveScans,
   EndedIsOver

\* A tick makes a scan for the occurrence, unless there is one, and publishes it.
LEMMA DispatchSound ==
  ASSUME IInv, NEW k \in Ticks, Dispatch(k)
  PROVE  IInv'
<1>0. TypeOK /\ TypeOK' /\ tick[k] \in Ticking /\ now \in Nat
  BY TickTypes DEF IInv, TypeOK, TickStep, Times
<1> DEFINE j == Min(Fresh)
<1>1. /\ UNCHANGED <<now, sched, request, scans, issued>>
      /\ tick[k].pc = "checking" /\ tick[k].scan = 0
      /\ \A l \in Ticks \ {k} : tick'[l] = tick[l]
      /\ tick'[k].pc = "committing" /\ tick'[k].d = tick[k].d /\ tick'[k].row = tick[k].row
      /\ tick'[k].at = tick[k].at
  BY <1>0 DEF Dispatch, IInv, CommitsAreSound, TypeOK, Ticking
<1>2. TicksAreSound'
  BY <1>1 DEF IInv, TicksAreSound, Exists
<1>3. ASSUME Occurrence(tick[k].row) # {}, tick' = [tick EXCEPT ![k].pc = "committing"],
             UNCHANGED <<published, task>>
      PROVE  RowsKept /\ CommitsAreSound' /\ TasksAreSound' /\ EndedIsOver'
  <2>1. tick'[k].scan = 0
    BY <1>0, <1>1, <1>3 DEF TypeOK, Ticking
  <2>2. CommitsAreSound'
    BY <1>1, <1>3, <2>1 DEF IInv, CommitsAreSound, Occurrence, Visible
  <2>3. TasksAreSound' /\ EndedIsOver'
    BY <1>1, <1>3 DEF IInv, TasksAreSound, LastRunWasSentOff, EndedIsOver, Visible
  <2>4. RowsKept
    BY <1>0, <1>1, <1>3 DEF Visible, RowsKept
  <2> QED BY <2>2, <2>3, <2>4
<1>4. ASSUME Occurrence(tick[k].row) = {}, Fresh # {},
             tick' = [tick EXCEPT ![k].pc = "committing", ![k].scan = j],
             published' = [published EXCEPT ![j] = 1],
             task' = [task EXCEPT ![j].pc = "queued"]
      PROVE  RowsKept /\ CommitsAreSound' /\ TasksAreSound' /\ EndedIsOver'
  <2>1. j \in ScanIds /\ published[j] = 0 /\ task[j] = NoTask /\ ~Visible(j) /\ j # 0
    BY <1>4, FreshIsFree DEF IInv, TasksAreSound, ScanIds
  <2> HIDE DEF j
  <2>2. tick'[k].scan = j /\ published'[j] = 1 /\ \A i \in ScanIds \ {j} : published'[i] = published[i]
    BY <1>0, <1>4, <2>1 DEF TypeOK, Ticking
  <2>3. /\ task'[j].pc = "queued" /\ task'[j].tries = 0 /\ task'[j].stage = "bootstrap"
        /\ \A i \in ScanIds \ {j} : task'[i] = task[i]
    BY <1>0, <1>4, <2>1 DEF TypeOK, NoTask
  <2>4. RowsKept
    BY <1>0, <1>1, <2>1, <2>2 DEF RowsKept, Visible
  <2>5. CommitsAreSound'
    <3>1. \A l \in Ticks \ {k} : tick[l].scan # j /\ tick[l].scan \in ScanIds \union {0}
      BY <1>0, <2>1 DEF IInv, CommitsAreSound, TypeOK, Ticking, ScanIds
    <3>2. \A l \in Ticks : Occurrence(tick[l].row)' = Occurrence(tick[l].row)
      BY <1>1 DEF Occurrence, Visible
    <3>3. \A l \in Ticks \ {k} : tick[l].scan # 0 => published'[tick[l].scan] = 1
      BY <1>1, <2>2, <3>1 DEF IInv, CommitsAreSound
    <3>4. \A i \in ScanIds : Visible(i)' <=> Visible(i)
      BY <1>1 DEF Visible
    <3>5. \A l \in Ticks : tick'[l].pc = "committing" =>
            (tick'[l].scan = 0 <=> Occurrence(tick[l].row)' # {})
      BY <1>1, <1>4, <2>1, <2>2, <3>2 DEF IInv, CommitsAreSound
    <3> QED BY <1>1, <2>1, <2>2, <3>1, <3>3, <3>4, <3>5 DEF IInv, CommitsAreSound
  <2>6. TasksAreSound' /\ EndedIsOver'
    BY <1>1, <2>1, <2>2, <2>3 DEF IInv, TasksAreSound, LastRunWasSentOff, EndedIsOver, Visible,
       MaxTries
  <2> QED BY <2>4, <2>5, <2>6
<1>5. RowsKept /\ CommitsAreSound' /\ TasksAreSound' /\ EndedIsOver'
  BY <1>3, <1>4 DEF Dispatch
<1> QED BY <1>0, <1>2, <1>5, RowsKeptSound DEF IInv, LastRunWasSentOff, RunsHaveScans, EndedIsOver

\* A tick commits its scan and the next run.
LEMMA CommitSound ==
  ASSUME IInv, NEW k \in Ticks, Commit(k)
  PROVE  IInv'
<1> DEFINE t == tick[k]
           d == t.d
<1>0. TypeOK /\ TypeOK' /\ t \in Ticking /\ d \in Domains /\ sched[d] \in Row /\ t.at \in Times /\ now \in Nat
  BY TickTypes DEF IInv, TypeOK, TickStep, Ticking, Times
<1>1. /\ UNCHANGED <<now, request, published, task, issued>> /\ t.pc = "committing"
      /\ tick'[k] = IdleTick /\ \A l \in Ticks \ {k} : tick'[l] = tick[l]
  BY <1>0 DEF Commit, TypeOK
<1>2. t.row = sched[d] /\ Exists(d) /\ t.row.next <= t.at /\ t.at <= now
  BY <1>1 DEF IInv, TicksAreSound
<1>3. /\ \A e \in Domains \ {d} : sched'[e] = sched[e]
      /\ sched'[d].id = sched[d].id /\ sched'[d].auth = sched[d].auth
      /\ sched'[d].last = sched[d].next
  BY <1>0, <1>2 DEF Commit, TypeOK, Row
<1>4. \A l \in Ticks \ {k} : tick[l].pc # "idle" =>
        /\ tick[l].d \in Domains \ {d} /\ tick[l].row = sched[tick[l].d]
        /\ tick[l].row.id # sched[d].id
  BY <1>0, <1>1, <1>2 DEF IInv, TicksAreSound, IdsAreSound, TypeOK, Ticking, Exists
<1>5. \A i \in ScanIds : Visible(i) => published[i] = 1
  BY <1>0 DEF IInv, TasksAreSound, TypeOK
<1>6. TicksAreSound'
  BY <1>1, <1>3, <1>4 DEF IInv, TicksAreSound, Exists, IdleTick
<1>7. RunsAreSound'
  BY <1>0, <1>1, <1>2, <1>3 DEF IInv, RunsAreSound, Times, Row
<1>8. CASE t.scan = 0
  <2>1. scans' = scans /\ Occurrence(sched[d]) # {}
    BY <1>1, <1>2, <1>8 DEF Commit, IInv, CommitsAreSound
  <2>2. CommitsAreSound'
    BY <1>1, <2>1 DEF IInv, CommitsAreSound, Occurrence, Visible, IdleTick
  <2>3. TasksAreSound' /\ IdsAreSound' /\ CreationsAreSound' /\ OncePerOccurrence'
    BY <1>1, <1>3, <2>1 DEF IInv, TasksAreSound, IdsAreSound, CreationsAreSound,
       OncePerOccurrence, Exists, Visible, Creates
  <2>4. AuthsAreSound'
    <3>1. Auths' \subseteq Auths
      BY <1>1, <1>3, <2>1 DEF Auths
    <3> QED BY <1>0, <1>1, <3>1, AuthsKept DEF IInv
  <2>5. LastRunWasSentOff'
    BY <1>1, <1>3, <1>5, <2>1 DEF IInv, LastRunWasSentOff, Occurrence, Visible
  <2> QED BY <1>0, <1>6, <1>7, <2>2, <2>3, <2>4, <2>5 DEF IInv
<1>9. CASE t.scan # 0
  <2>0. PICK j \in ScanIds : j = t.scan
    BY <1>0, <1>9 DEF Ticking, ScanIds
  <2>1. ~Visible(j) /\ published[j] = 1 /\ Occurrence(sched[d]) = {}
    BY <1>1, <1>2, <1>9, <2>0 DEF IInv, CommitsAreSound
  <2>2. /\ scans'[j] = [d |-> d, sid |-> sched[d].id, for |-> sched[d].next, auth |-> sched[d].auth,
                        status |-> "queued"]
        /\ \A i \in ScanIds \ {j} : scans'[i] = scans[i]
    BY <1>0, <1>2, <1>9, <2>0 DEF Commit, TypeOK
  <2>3. Visible(j)' /\ \A i \in ScanIds \ {j} : Visible(i)' <=> Visible(i)
    BY <2>2 DEF Visible
  <2>4. CommitsAreSound'
    <3>1. \A l \in Ticks \ {k} : tick[l].scan # j
      BY <1>9, <2>0 DEF IInv, CommitsAreSound
    <3>2. \A l \in Ticks \ {k} : tick[l].pc = "committing" =>
            Occurrence(tick[l].row)' = Occurrence(tick[l].row)
      BY <1>1, <1>4, <2>1, <2>2, <2>3 DEF Occurrence, Visible
    <3>3. \A l \in Ticks : tick[l].scan \in ScanIds \union {0}
      BY <1>0 DEF TypeOK, Ticking, ScanIds
    <3> QED BY <1>1, <2>3, <3>1, <3>2, <3>3 DEF IInv, CommitsAreSound, IdleTick
  <2>5. TasksAreSound' /\ EndedIsOver'
    <3>1. task[j].stage = "bootstrap"
      BY <2>1 DEF IInv, TasksAreSound, Visible
    <3>2. scans'[j].status = "queued"
      BY <2>2
    <3> QED BY <1>1, <2>1, <2>2, <2>3, <3>1, <3>2
      DEF IInv, TasksAreSound, LastRunWasSentOff, EndedIsOver
  <2>6. IdsAreSound' /\ CreationsAreSound'
    <3>1. IdsAreSound'
      BY <1>0, <1>1, <1>3, <2>2 DEF IInv, IdsAreSound, Exists
    <3>2. CreationsAreSound'
      BY <1>0, <1>1, <1>3, <2>2 DEF IInv, CreationsAreSound, Creates
    <3> QED BY <3>1, <3>2
  <2>7. AuthsAreSound'
    <3>1. Auths' \subseteq Auths
      BY <1>0, <1>1, <1>3, <2>2 DEF Auths
    <3> QED BY <1>0, <1>1, <3>1, AuthsKept DEF IInv
  <2>8. OncePerOccurrence'
    BY <1>1, <2>1, <2>2, <2>3 DEF IInv, OncePerOccurrence, Occurrence, Visible
  <2>9. RunsHaveScans'
    BY <1>1, <1>3, <2>1, <2>2, <2>3 DEF IInv, LastRunWasSentOff, RunsHaveScans
  <2> QED BY <1>0, <1>6, <1>7, <2>4, <2>5, <2>6, <2>7, <2>8, <2>9
       DEF IInv, LastRunWasSentOff, RunsHaveScans, EndedIsOver
<1> QED BY <1>8, <1>9

-----------------------------------------------------------------------------
(* The worker's tasks, the owners of the domains, and the clock.             *)

\* The steps of the worker: it asks, compares, is granted or refused.
LEMMA TaskSound ==
  ASSUME IInv, NEW i \in ScanIds, TaskStep(i) \/ LookupFails(i)
  PROVE  IInv'
<1>0. TypeOK /\ TypeOK' /\ scans[i] \in Scan /\ scans[i].d \in Domains /\ task[i] \in Task /\ now \in Nat
  BY TaskTypes DEF IInv, TypeOK, Scan, Times
<1>1. UNCHANGED <<now, tick, request, published, issued>>
  BY DEF TaskStep, NotFound, Load, Grant, GrantExpired, Refuse, LookupFails, Fail, FailSources,
     FailOperation, NextStage, LastStage
<1>2. sched' = sched \/ (sched' = [sched EXCEPT ![scans[i].d] = Paused(@)] /\ Unlocked(scans[i].d))
  BY DEF TaskStep, NotFound, Load, Grant, GrantExpired, Refuse, LookupFails, Fail, FailSources,
     FailOperation, NextStage, LastStage, PauseLoaded
<1>3. \A e \in Domains : /\ sched'[e].id = sched[e].id /\ sched'[e].auth = sched[e].auth
                         /\ sched'[e].last = sched[e].last /\ (~Unlocked(e) => sched'[e] = sched[e])
  BY <1>0, <1>2, PausedRow DEF TypeOK
<1>4. \A j \in ScanIds \ {i} : task'[j] = task[j] /\ scans'[j] = scans[j]
  BY <1>0 DEF TaskStep, NotFound, Load, Grant, GrantExpired, Refuse, LookupFails, Fail, FailSources,
     FailOperation, NextStage, LastStage, TypeOK
<1>5. scans' = scans \/ ( /\ Visible(i)
                         /\ \E status \in {"running", "ended"} : scans' = [scans EXCEPT ![i].status = status] )
  BY DEF TaskStep, NotFound, Load, Grant, GrantExpired, Refuse, LookupFails, Fail, FailSources,
     FailOperation, NextStage, LastStage, IInv, TasksAreSound
<1>6. /\ Visible(i)' <=> Visible(i)
      /\ scans'[i].sid = scans[i].sid /\ scans'[i].for = scans[i].for /\ scans'[i].auth = scans[i].auth
  BY <1>0, <1>5 DEF Visible, TypeOK, Scan
<1>7. RowsKept
  BY <1>0, <1>1, <1>3, <1>4, <1>6 DEF RowsKept, Visible
<1>8. TicksAreSound'
  <2>1. \A k \in Ticks : tick[k].pc # "idle" => tick[k].d \in Domains /\ ~Unlocked(tick[k].d)
    BY <1>0 DEF Unlocked, TypeOK, Ticking
  <2> QED BY <1>1, <1>3, <2>1 DEF IInv, TicksAreSound, Exists
<1>9. CommitsAreSound'
  <2>1. \A k \in Ticks : Occurrence(tick[k].row)' = Occurrence(tick[k].row)
    BY <1>1, <1>4, <1>6 DEF Occurrence, Visible
  <2>2. \A j \in ScanIds : Visible(j)' <=> Visible(j)
    BY <1>4, <1>6 DEF Visible
  <2>3. \A k \in Ticks : tick[k].scan \in ScanIds \union {0}
    BY <1>0 DEF TypeOK, Ticking, ScanIds
  <2> QED BY <1>1, <2>1, <2>2, <2>3 DEF IInv, CommitsAreSound
<1> DEFINE Kept ==
      /\ published[i] = 0 => task'[i] = NoTask /\ ~Visible(i)
      /\ task'[i].tries = MaxTries => task'[i].stage = "bootstrap" /\ task'[i].pc \in {"failing", "ended"}
      /\ task'[i].pc \in {"checking", "refused", "working"} => Visible(i)
      /\ task'[i].pc \in {"failing", "ended"} /\ ~Visible(i) => task'[i].tries = MaxTries
      /\ task'[i].stage # "bootstrap" => \/ scans'[i].status = "running"
                                         \/ task'[i].pc = "ended" /\ scans'[i].status = "ended"
      /\ task'[i].pc = "checking" => /\ task'[i].row.id = scans[i].sid /\ task'[i].row.active
                                     /\ task'[i].row.auth = scans[i].auth
      /\ task'[i].pc = "ended" /\ Visible(i) =>
           \/ scans'[i].status = "ended"
           \/ scans'[i].status = "running" /\ task'[i].stage # "bootstrap"
           \/ scans'[i].status = "queued" /\ task'[i].tries = MaxTries
<1>10. Kept
  <2> USE <1>0 DEF IInv, TasksAreSound, Task, TypeOK
  <2>0. published[i] # 0
    BY DEF TaskStep, NotFound, Load, Grant, GrantExpired, Refuse, LookupFails, Fail, FailSources,
       FailOperation, NextStage, LastStage, NoTask
  <2>1. CASE NotFound(i)
    <3>1. task[i].stage = "bootstrap"
      BY <2>1 DEF NotFound, Visible
    <3> QED BY <2>0, <2>1, <3>1 DEF NotFound, MaxTries
  <2>2. CASE Load(i)
    <3>1. Visible(i) /\ task'[i].row = ScheduleOf(i) /\ task'[i].tries = 0 /\ task'[i].stage = task[i].stage
          /\ task'[i].pc = IF Grantable(i, ScheduleOf(i)) THEN "checking" ELSE "refused"
      BY <2>2 DEF Load, Live, Visible
    <3>2. ASSUME Grantable(i, ScheduleOf(i))
          PROVE  /\ ScheduleOf(i).id = scans[i].sid /\ ScheduleOf(i).active
                 /\ ScheduleOf(i).auth = scans[i].auth
      <4>1. ScheduleOf(i) = sched[scans[i].d] /\ ScheduleOf(i).id = scans[i].sid /\ ScheduleOf(i).active
        BY <3>2 DEF Grantable, ScheduleOf, NoRow
      <4>2. ScheduleOf(i).auth \in Auths /\ scans[i].auth \in Auths
        BY <4>1 DEF Auths
      <4>3. ScheduleOf(i).auth.id = scans[i].auth.id
        BY <3>2 DEF Grantable
      <4> QED BY <4>1, <4>2, <4>3 DEF AuthsAreSound
    <3>3. scans' = scans /\ task[i].pc = "queued"
      BY <2>2 DEF Load
    <3> QED BY <2>0, <3>1, <3>2, <3>3
  <2>3. CASE Grant(i) \/ GrantExpired(i)
    BY <2>0, <2>3 DEF Grant, GrantExpired
  <2>4. CASE Refuse(i) \/ LookupFails(i)
    BY <2>0, <2>4 DEF Refuse, LookupFails
  <2>5. CASE Fail(i)
    <3>1. task'[i].pc = "ended" /\ task'[i].tries = task[i].tries /\ task'[i].stage = "bootstrap"
      BY <2>5 DEF Fail
    <3>2. Visible(i) => scans'[i].status = "ended"
      BY <2>5 DEF Fail
    <3>3. ~Visible(i) => task[i].tries = MaxTries
      BY <2>5 DEF Fail
    <3> QED BY <2>0, <3>1, <3>2, <3>3
  <2>6. CASE FailSources(i) \/ FailOperation(i)
    <3>1. scans[i].status = "running" /\ scans' = scans /\ task'[i].stage = task[i].stage
          /\ task[i].stage # "bootstrap" /\ task'[i].pc \in {"working", "ended"}
          /\ task'[i].tries # MaxTries
      BY <2>6 DEF FailSources, FailOperation
    <3>2. Visible(i)
      BY <3>1 DEF Visible
    <3> QED BY <2>0, <3>1, <3>2
  <2>7. CASE NextStage(i)
    <3>1. Visible(i) /\ scans'[i].status = "running" /\ task'[i].pc = "queued"
      BY <2>7 DEF NextStage
    <3>2. task'[i].tries # MaxTries
      BY <2>7 DEF NextStage
    <3> HIDE <1>0 DEF IInv, TasksAreSound, Task, TypeOK
    <3> QED BY <2>0, <3>1, <3>2
  <2>8. CASE LastStage(i)
    <3>1. Visible(i) /\ scans[i].status = "running" /\ task'[i].pc = "ended"
          /\ task'[i].stage # "bootstrap" /\ task'[i].tries # MaxTries
      BY <2>8 DEF LastStage
    <3>2. scans' = scans \/ scans' = [scans EXCEPT ![i].status = "ended"]
      BY <2>8 DEF LastStage
    <3>3. scans'[i].status \in {"running", "ended"}
      <4>1. CASE scans' = scans
        BY <3>1, <4>1
      <4>2. CASE scans' = [scans EXCEPT ![i].status = "ended"]
        BY <1>0, <4>2 DEF TypeOK
      <4> QED BY <3>2, <4>1, <4>2
    <3> HIDE <1>0 DEF IInv, TasksAreSound, Task, TypeOK
    <3> QED BY <2>0, <3>1, <3>3
  <2> QED BY <2>1, <2>2, <2>3, <2>4, <2>5, <2>6, <2>7, <2>8 DEF TaskStep
<1>11. TasksAreSound' /\ EndedIsOver'
  <2>1. \A j \in ScanIds \ {i} : Visible(j)' <=> Visible(j)
    BY <1>4 DEF Visible
  <2>2. TasksAreSound'
    BY <1>1, <1>4, <1>6, <1>10, <2>1 DEF IInv, TasksAreSound
  <2>3. EndedIsOver'
    BY <1>4, <1>6, <1>10, <2>1 DEF IInv, LastRunWasSentOff, EndedIsOver
  <2> QED BY <2>2, <2>3
<1> QED BY <1>0, <1>7, <1>8, <1>9, <1>11, RowsKeptSound DEF IInv, LastRunWasSentOff,
   RunsHaveScans, EndedIsOver

\* A schedule is deleted: nobody holds it.
LEMMA DeleteSound ==
  ASSUME IInv, NEW d \in Domains, Delete(d)
  PROVE  IInv'
<1>0. TypeOK /\ TypeOK' /\ now \in Nat /\ issued \in Nat
  BY OtherTypes DEF IInv, TypeOK, Times
<1>1. /\ UNCHANGED <<now, tick, request, scans, published, task, issued>>
      /\ sched'[d] = NoRow /\ \A e \in Domains \ {d} : sched'[e] = sched[e]
      /\ \A k \in Ticks : tick[k].pc # "idle" => tick[k].d \in Domains \ {d}
  BY <1>0 DEF Delete, Unlocked, TypeOK, Ticking
<1>2. TicksAreSound'
  BY <1>1 DEF IInv, TicksAreSound, Exists
<1>3. CommitsAreSound' /\ TasksAreSound'
  BY <1>1 DEF IInv, CommitsAreSound, TasksAreSound, Occurrence, Visible
<1>4. IdsAreSound' /\ RunsAreSound'
  BY <1>0, <1>1 DEF IInv, IdsAreSound, RunsAreSound, Exists, NoRow
<1>5. CreationsAreSound'
  <2>1. sched'[d].id = 0 /\ \A e \in Domains \ {d} : sched'[e] = sched[e]
    BY <1>1 DEF NoRow
  <2>2. \A c \in Clients : Creates(c)' <=> Creates(c)
    BY <1>1 DEF Creates
  <2> QED BY <1>1, <2>1, <2>2 DEF IInv, CreationsAreSound
<1>6. AuthsAreSound'
  <2>1. Auths' \subseteq Auths
    BY <1>1 DEF Auths, NoRow
  <2> QED BY <1>0, <1>1, <2>1, AuthsKept DEF IInv
<1>7. OncePerOccurrence' /\ LastRunWasSentOff'
  BY <1>1 DEF IInv, OncePerOccurrence, LastRunWasSentOff, Visible, NoRow
<1> QED BY <1>0, <1>2, <1>3, <1>4, <1>5, <1>6, <1>7 DEF IInv

\* Time passes, or a domain is verified.
LEMMA OtherSound ==
  ASSUME IInv, Clock \/ UNCHANGED vars \/ (\E d \in Domains : VerifyDomain(d))
  PROVE  IInv'
<1>0. TypeOK /\ TypeOK' /\ now \in Nat /\ now' \in Nat
  BY OtherTypes DEF IInv, TypeOK, Times
<1>1. UNCHANGED <<sched, tick, request, scans, published, task, issued>> /\ now <= now'
  BY <1>0 DEF Clock, vars, VerifyDomain
<1>2. RowsKept
  BY <1>1 DEF RowsKept, Visible
<1>3. TicksAreSound'
  BY <1>0, <1>1 DEF IInv, TicksAreSound, Exists, TypeOK, Ticking, Times
<1>4. CommitsAreSound' /\ TasksAreSound'
  BY <1>1 DEF IInv, CommitsAreSound, TasksAreSound, Occurrence, Visible
<1>5. EndedIsOver'
  BY <1>1 DEF IInv, LastRunWasSentOff, EndedIsOver, Visible
<1> QED BY <1>0, <1>2, <1>3, <1>4, <1>5, RowsKeptSound DEF IInv, LastRunWasSentOff, RunsHaveScans,
   EndedIsOver

\* The invariant holds in every reachable state.
THEOREM Sound == Spec => []IInv
<1>1. ASSUME IInv, NEW k \in Ticks, TickStep(k) \/ CheckFails(k) \/ Abort(k) PROVE IInv'
  BY <1>1, TakeSound, GiveUpSound, DispatchSound, CommitSound DEF TickStep
<1>2. IInv /\ [Next]_vars => IInv'
  BY <1>1, ClientSound, TaskSound, DeleteSound, OtherSound DEF Next, Over
<1> QED BY <1>2, InitSound, PTL DEF Spec

-----------------------------------------------------------------------------
\* Rows, requests, ticks, scans and tasks stay within their types.
THEOREM TypeCorrect == Spec => []TypeOK
<1>1. IInv => TypeOK
  BY DEF IInv
<1> QED BY <1>1, Sound, PTL

\* An occurrence makes one scan, published once, whatever the number of ticks that
\* run, abort and are retried, and whatever the clients do meanwhile.
THEOREM OneScanPerOccurrence == Spec => []OncePerOccurrence
<1>1. IInv => OncePerOccurrence
  BY DEF IInv
<1> QED BY <1>1, Sound, PTL

\* The last run a schedule shows has its scan, which was sent off; a scan that is
\* there and that nobody works on any more was begun, was ended by its first task,
\* or was committed too late.
THEOREM LastRunIsAScan == Spec => []LastRunWasSentOff
<1>1. IInv => LastRunWasSentOff
  BY DEF IInv
<1> QED BY <1>1, Sound, PTL

\* A scan becomes visible while its schedule is there, active and has the scan's
\* authorisation: the tick has held the row since it compared them.
THEOREM ScanIsAuthorised == Spec => NewScanIsAuthorised
<1>1. ASSUME IInv, [Next]_vars, NEW i \in ScanIds, ~Visible(i), Visible(i)'
      PROVE  ScheduleOf(i)'.active /\ ScheduleOf(i)'.auth = scans'[i].auth
  <2>1. PICK k \in Ticks : Commit(k)
    <3>1. ASSUME NEW j \in ScanIds, TaskStep(j) \/ LookupFails(j) PROVE Visible(i)' <=> Visible(i)
      BY <1>1, <3>1 DEF IInv, TasksAreSound, Visible, TypeOK, TaskStep, NotFound, Load, Grant,
         GrantExpired, Refuse, LookupFails, Fail, FailSources, FailOperation, NextStage, LastStage
    <3>2. ASSUME NEW k \in Ticks, TickStep(k) \/ CheckFails(k) \/ Abort(k), ~Commit(k)
          PROVE  scans' = scans
      BY <3>2 DEF TickStep, Take, TakeAndPause, CheckExpired, Dispatch, CheckFails, Abort
    <3>3. ASSUME NEW c \in Clients, ClientStep(c) PROVE scans' = scans
      BY <3>3 DEF ClientStep, BeginCreate, BeginPausedUpdate, BeginActiveUpdate, Begin, Verified,
         NotVerified, Write, WriteFails
    <3>4. Clock \/ Over \/ UNCHANGED vars \/ (\E d \in Domains : VerifyDomain(d) \/ Delete(d)) => scans' = scans
      BY DEF Clock, Over, vars, VerifyDomain, Delete
    <3> QED BY <1>1, <3>1, <3>2, <3>3, <3>4 DEF Next, Visible
  <2> DEFINE t == tick[k]
  <2>2. /\ t.row = sched[t.d] /\ t.row \in Row /\ t.row.active /\ t.d \in Domains
    BY <1>1, <2>1 DEF IInv, TicksAreSound, TypeOK, Ticking, Commit
  <2>3. scans'[i] = [d |-> t.d, sid |-> t.row.id, for |-> t.row.next, auth |-> t.row.auth,
                     status |-> "queued"]
    BY <1>1, <2>1 DEF Commit, IInv, TypeOK, Visible
  <2>4. sched'[t.d].id = t.row.id /\ sched'[t.d].active /\ sched'[t.d].auth = t.row.auth
    BY <1>1, <2>1, <2>2 DEF Commit, IInv, TypeOK, Row
  <2>5. ScheduleOf(i)' = sched'[t.d]
    BY <2>3, <2>4 DEF ScheduleOf
  <2> QED BY <2>2, <2>3, <2>4, <2>5
<1>2. IInv /\ [Next]_vars =>
        [\A i \in ScanIds : ~Visible(i) /\ Visible(i)' =>
           /\ ScheduleOf(i)'.active
           /\ ScheduleOf(i)'.auth = scans'[i].auth]_vars
  BY <1>1
<1> QED BY <1>2, Sound, PTL DEF Spec, NewScanIsAuthorised

\* A stage is granted under the authorisation the scan was made with, unless its
\* schedule has changed since the worker read it: what was compared were ids, and
\* an id tells the whole authorisation.
THEOREM StageIsAuthorised == Spec => GrantIsAuthorised
<1>1. ASSUME IInv, [Next]_vars, NEW i \in ScanIds, task[i].pc = "checking", task'[i].pc = "working",
             sched[scans[i].d] = task[i].row
      PROVE  Authorised(i)
  <2>1. Grant(i)
    <3>1. ASSUME NEW j \in ScanIds, TaskStep(j) \/ LookupFails(j) PROVE Grant(i)
      <4>1. j = i
        BY <1>1, <3>1 DEF IInv, TypeOK, TaskStep, NotFound, Load, Grant, GrantExpired, Refuse,
           LookupFails, Fail, FailSources, FailOperation, NextStage, LastStage
      <4> QED
        BY <1>1, <3>1, <4>1 DEF IInv, TypeOK, Task, NoTask, TaskStep, NotFound, Load,
           GrantExpired, Refuse, LookupFails, Fail, FailSources, FailOperation, NextStage, LastStage
    <3>2. ASSUME NEW k \in Ticks, TickStep(k) \/ CheckFails(k) \/ Abort(k)
          PROVE task'[i].pc # "working"
      <4>1. task'[i] = task[i] \/ (task' = [task EXCEPT ![Min(Fresh)].pc = "queued"])
        BY <3>2 DEF TickStep, Take, TakeAndPause, CheckExpired, Dispatch, Commit, CheckFails, Abort
      <4> QED BY <1>1, <4>1 DEF IInv, TypeOK, Task
    <3>3. ASSUME NEW c \in Clients, ClientStep(c) PROVE task' = task
      BY <3>3 DEF ClientStep, BeginCreate, BeginPausedUpdate, BeginActiveUpdate, Begin, Verified,
         NotVerified, Write, WriteFails
    <3>4. Clock \/ Over \/ UNCHANGED vars \/ (\E d \in Domains : VerifyDomain(d) \/ Delete(d)) => task' = task
      BY DEF Clock, Over, vars, VerifyDomain, Delete
    <3> QED BY <1>1, <3>1, <3>2, <3>3, <3>4 DEF Next
  <2>2. /\ task[i].row.id = scans[i].sid /\ task[i].row.active /\ task[i].row.auth = scans[i].auth
    BY <1>1 DEF IInv, TasksAreSound
  <2>3. now < scans[i].auth.until
    BY <2>1 DEF Grant, Valid
  <2> QED BY <1>1, <2>2, <2>3 DEF Authorised
<1>2. IInv /\ [Next]_vars =>
        [\A i \in ScanIds : task[i].pc = "checking" /\ task'[i].pc = "working" =>
           Authorised(i) \/ sched[scans[i].d] # task[i].row]_vars
  BY <1>1
<1> QED BY <1>2, Sound, PTL DEF Spec, GrantIsAuthorised

\* A dispatch sets the next run after the last one; only the write of an update
\* that read the schedule before that dispatch can put it back.
THEOREM NextRunGoesForward == Spec => RunsGoForward
<1> DEFINE Late(d) == \E c \in Clients : /\ request[c].pc = "writing" /\ request'[c].pc = "idle"
                                         /\ request[c].d = d
                                         /\ request[c].loaded.last # sched[d].last
<1>1. ASSUME IInv, [Next]_vars, NEW d \in Domains, Forward(d), ~Late(d)
      PROVE  Forward(d)'
  <2>0. TypeOK /\ sched[d] \in Row /\ now \in Nat
    BY <1>1 DEF IInv, TypeOK, Times
  <2>1. ASSUME sched'[d].id = sched[d].id, sched'[d].last = sched[d].last, sched'[d].next = sched[d].next
        PROVE  Forward(d)'
    BY <1>1, <2>1 DEF Forward, Exists
  <2>2. ASSUME NEW c \in Clients, Write(c) PROVE Forward(d)'
    <3> DEFINE q == request[c]
    <3>0. q \in Request /\ q.loaded \in Row /\ q.row \in Row /\ q.pc = "writing" /\ request'[c].pc = "idle"
      BY <2>0, <2>2 DEF Write, TypeOK, Request, IdleRequest
    <3>1. CASE q.d # d
      BY <2>0, <2>1, <2>2, <3>1 DEF Write, TypeOK
    <3>2. CASE q.d = d /\ q.loaded.id = 0
      <4>1. q.row.last = 0 /\ q.row.next > 0
        BY <1>1, <3>0, <3>2 DEF IInv, CreationsAreSound, Creates
      <4>2. sched'[d].last = 0 /\ sched'[d].next = q.row.next
        BY <2>0, <2>2, <3>0, <3>2, <4>1 DEF Write, TypeOK, Row
      <4> QED BY <4>1, <4>2, <3>0 DEF Forward, Row
    <3>3. CASE q.d = d /\ q.loaded.id # 0
      <4>1. sched'[d] = Merged(q, sched[d]) /\ Exists(d)
        BY <2>0, <2>2, <3>0, <3>3 DEF Write, TypeOK, Exists
      <4>2. /\ sched'[d].id = sched[d].id /\ sched'[d].last = sched[d].last
            /\ sched'[d].next = Written(q.row.next, q.loaded.next, sched[d].next)
        BY <2>0, <3>0, <4>1, MergedRow
      <4>3. q.loaded.last = sched[d].last
        BY <1>1, <3>0, <3>3
      <4>4. q.row.next # q.loaded.next => q.loaded.last < q.row.next
        BY <1>1, <3>0 DEF IInv, RunsAreSound
      <4> QED BY <1>1, <4>1, <4>2, <4>3, <4>4 DEF Forward, Written, Exists
    <3> QED BY <3>1, <3>2, <3>3
  <2>3. ASSUME NEW c \in Clients, ClientStep(c), ~Write(c) PROVE sched' = sched
    BY <2>3 DEF ClientStep, BeginCreate, BeginPausedUpdate, BeginActiveUpdate, Begin, Verified,
       NotVerified, WriteFails
  <2>4. ASSUME NEW k \in Ticks, Commit(k) PROVE Forward(d)'
    <3> DEFINE t == tick[k]
    <3>1. /\ t.row \in Row /\ t.at \in Times /\ t.d \in Domains /\ t.row.next <= t.at
      BY <1>1, <2>0, <2>4 DEF IInv, TicksAreSound, TypeOK, Ticking, Commit
    <3>2. CASE t.d # d
      BY <2>0, <2>1, <2>4, <3>2 DEF Commit, TypeOK
    <3>3. CASE t.d = d
      <4>1. sched'[d].last = t.row.next /\ sched'[d].next = NextRun(t.row.rec, t.at)
        BY <2>0, <2>4, <3>3 DEF Commit, TypeOK, Row
      <4>2. NextRun(t.row.rec, t.at) \in Nat /\ NextRun(t.row.rec, t.at) > t.at
        BY <3>1, NextRunIsLater DEF Row
      <4> QED BY <3>1, <4>1, <4>2 DEF Forward, Row, Times
    <3> QED BY <3>2, <3>3
  <2>5. ASSUME NEW k \in Ticks, TickStep(k) \/ CheckFails(k) \/ Abort(k), ~Commit(k)
        PROVE  sched' = sched \/ \E e \in Domains : sched' = [sched EXCEPT ![e] = Paused(@)]
    BY <2>0, <2>5 DEF TickStep, Take, TakeAndPause, CheckExpired, Dispatch, CheckFails, Abort,
       NextDue, TypeOK, Ticking
  <2>6. ASSUME NEW i \in ScanIds, TaskStep(i) \/ LookupFails(i)
        PROVE  sched' = sched \/ \E e \in Domains : sched' = [sched EXCEPT ![e] = Paused(@)]
    BY <2>0, <2>6 DEF TaskStep, NotFound, Load, Grant, GrantExpired, Refuse, LookupFails, Fail,
       FailSources, FailOperation, NextStage, LastStage, PauseLoaded, TypeOK, Scan
  <2>7. ASSUME sched' = sched \/ \E e \in Domains : sched' = [sched EXCEPT ![e] = Paused(@)]
        PROVE  Forward(d)'
    BY <2>0, <2>1, <2>7, PausedRow DEF TypeOK
  <2>8. ASSUME NEW e \in Domains, Delete(e) PROVE Forward(d)'
    BY <1>1, <2>0, <2>8 DEF Delete, TypeOK, Forward, Exists, NoRow
  <2>9. Clock \/ Over \/ UNCHANGED vars \/ (\E e \in Domains : VerifyDomain(e)) => sched' = sched
    BY DEF Clock, Over, vars, VerifyDomain
  <2> QED BY <1>1, <2>2, <2>3, <2>4, <2>5, <2>6, <2>7, <2>8, <2>9 DEF Next
<1>2. IInv /\ [Next]_vars => [\A d \in Domains : Forward(d) /\ ~Forward(d)' => Late(d)]_vars
  BY <1>1
<1> QED BY <1>2, Sound, PTL DEF Spec, RunsGoForward

-----------------------------------------------------------------------------
(* calculate_next_run. An instant has a date in a zone; what is due on an    *)
(* earlier date is over by then, what is due on a later one is still to come *)
(* (EarlierDates, LaterDates), and the instants of a wall time are in the    *)
(* order of their dates (DatesInOrder). So only the first date that matches  *)
(* from the reference's on, and the one after it, can be the next run.       *)

\* The zone's offset changes inside a day: the wall times at which it does, before
\* and after, are of one date, and the last skipped time, read with the offset
\* before, is not past its end.
ChangesWithinADay(zone) ==
  /\ zone.before \in Int /\ zone.after \in Int /\ zone.change \in Int
  /\ \E d \in Int :
       /\ \A wall \in {zone.change + zone.before, zone.change + zone.after} :
            d * DayLength <= wall /\ wall <= (d + 1) * DayLength
       /\ zone.change + 2 * zone.after - zone.before - 1 <= (d + 1) * DayLength

\* A recurrence as validate_schedule accepts it.
IsRule(rec) ==
  /\ rec.frequency \in {"weekly", "monthly"}
  /\ rec.time \in 0..DayLength - 1
  /\ rec.frequency = "weekly" => rec.day \in 0..6
  /\ rec.frequency = "monthly" => rec.day \in 1..28

\* The dates of one day are before those of the next.
LEMMA DaysFollow ==
  ASSUME NEW a \in Int, NEW b \in Int, a < b
  PROVE  /\ a * DayLength \in Int /\ b * DayLength \in Int
         /\ a * DayLength + DayLength <= b * DayLength
<1>1. b - a >= 1 /\ b - a \in Nat
  OBVIOUS
<1>2. b * DayLength = a * DayLength + (b - a) * DayLength
  BY CalculatorAssumption
<1>3. (b - a) * DayLength >= DayLength
  BY CalculatorAssumption, <1>1
<1> QED BY CalculatorAssumption, <1>2, <1>3

\* The date of an instant, and the times of that date.
LEMMA DateOfInstant ==
  ASSUME NEW zone, ChangesWithinADay(zone), NEW t \in Int
  PROVE  LET date == LocalDate(zone, t)
         IN  /\ date \in Int
             /\ date * DayLength <= t + OffsetAt(zone, t)
             /\ t + OffsetAt(zone, t) < date * DayLength + DayLength
<1> DEFINE x == t + OffsetAt(zone, t)
<1>1. x \in Int
  BY DEF ChangesWithinADay, OffsetAt
<1> HIDE DEF x
<1>2. x \div DayLength \in Int /\ (x \div DayLength) * DayLength <= x
      /\ x < (x \div DayLength) * DayLength + DayLength
  BY <1>1, CalculatorAssumption
<1> QED BY <1>2 DEF x, LocalDate

\* The instant of a wall time, over the first time a of its date.
LEMMA InstantOfWallTime ==
  ASSUME NEW zone, ChangesWithinADay(zone), NEW date \in Int, NEW time \in Int,
         NEW a \in Int, a = date * DayLength
  PROVE  LocalizeWallTime(zone, date, time) =
           IF a + time - zone.after >= zone.change /\ a + time - zone.before >= zone.change
           THEN a + time - zone.after ELSE a + time - zone.before
<1>1. zone.before \in Int /\ zone.after \in Int /\ zone.change \in Int
  BY DEF ChangesWithinADay
<1> QED BY <1>1, SMT DEF LocalizeWallTime

\* The instants of a wall time on two dates are in the order of the dates, and those
\* of a wall time before, or after, the date of an instant are before, or after, it.
LEMMA DatesInOrder ==
  ASSUME NEW zone, ChangesWithinADay(zone), NEW time \in 0..DayLength - 1,
         NEW a \in Int, NEW b \in Int, a < b
  PROVE  /\ LocalizeWallTime(zone, a, time) \in Int
         /\ LocalizeWallTime(zone, b, time) \in Int
         /\ LocalizeWallTime(zone, a, time) <= LocalizeWallTime(zone, b, time)
<1> DEFINE A == a * DayLength
           B == b * DayLength
<1>1. A \in Int /\ B \in Int /\ A + DayLength <= B
  BY DaysFollow
<1>2. time \in Int /\ DayLength \in Int /\ DayLength > 0
  BY CalculatorAssumption
<1>3. /\ zone.before \in Int /\ zone.after \in Int /\ zone.change \in Int
      /\ zone.before - zone.after <= DayLength /\ zone.after - zone.before <= DayLength
  <2>1. PICK d \in Int :
          \A wall \in {zone.change + zone.before, zone.change + zone.after} :
            d * DayLength <= wall /\ wall <= (d + 1) * DayLength
    BY DEF ChangesWithinADay
  <2>2. (d + 1) * DayLength = d * DayLength + DayLength /\ d * DayLength \in Int
    BY <2>1, <1>2
  <2> DEFINE D == d * DayLength
  <2>3. /\ D <= zone.change + zone.before /\ zone.change + zone.before <= D + DayLength
        /\ D <= zone.change + zone.after /\ zone.change + zone.after <= D + DayLength
    BY <2>1, <2>2
  <2>4. D \in Int
    BY <2>2
  <2> HIDE DEF D
  <2> QED BY <2>3, <2>4, <1>2 DEF ChangesWithinADay
<1> HIDE DEF A, B
<1>4. /\ LocalizeWallTime(zone, a, time) =
           IF A + time - zone.after >= zone.change /\ A + time - zone.before >= zone.change
           THEN A + time - zone.after ELSE A + time - zone.before
      /\ LocalizeWallTime(zone, b, time) =
           IF B + time - zone.after >= zone.change /\ B + time - zone.before >= zone.change
           THEN B + time - zone.after ELSE B + time - zone.before
  BY <1>1, <1>2, InstantOfWallTime DEF A, B
<1> QED BY <1>1, <1>2, <1>3, <1>4

\* A schedule is due on an earlier date before an instant ...
LEMMA EarlierDates ==
  ASSUME NEW zone, ChangesWithinADay(zone), NEW time \in 0..DayLength - 1, NEW t \in Int,
         NEW date \in Int, date < LocalDate(zone, t)
  PROVE  LocalizeWallTime(zone, date, time) <= t
<1> DEFINE L == LocalDate(zone, t)
           A == date * DayLength
           B == L * DayLength
<1>1. L \in Int /\ B <= t + OffsetAt(zone, t) /\ t + OffsetAt(zone, t) < B + DayLength
  BY DateOfInstant
<1>2. A \in Int /\ B \in Int /\ A + DayLength <= B
  BY DaysFollow, <1>1
<1>3. time \in Int /\ 0 <= time /\ time < DayLength /\ DayLength \in Int
  BY CalculatorAssumption
<1>4. PICK d \in Int :
        /\ \A wall \in {zone.change + zone.before, zone.change + zone.after} :
             d * DayLength <= wall /\ wall <= (d + 1) * DayLength
        /\ zone.change + 2 * zone.after - zone.before - 1 <= (d + 1) * DayLength
  BY DEF ChangesWithinADay
<1> DEFINE D == d * DayLength
<1>5. D \in Int /\ (d + 1) * DayLength = D + DayLength
  BY <1>3
<1>6. /\ zone.before \in Int /\ zone.after \in Int /\ zone.change \in Int
      /\ D <= zone.change + zone.before /\ zone.change + zone.before <= D + DayLength
      /\ D <= zone.change + zone.after /\ zone.change + zone.after <= D + DayLength
      /\ zone.change + 2 * zone.after - zone.before - 1 <= D + DayLength
  BY <1>4, <1>5 DEF ChangesWithinADay
<1>7. LocalizeWallTime(zone, date, time) =
        IF A + time - zone.after >= zone.change /\ A + time - zone.before >= zone.change
        THEN A + time - zone.after ELSE A + time - zone.before
  BY <1>2, <1>3, InstantOfWallTime
\* The day of the change is this date, an earlier or a later one.
<1>8. D = A \/ D + DayLength <= A \/ A + DayLength <= D
  <2>1. d = date \/ d < date \/ date < d
    OBVIOUS
  <2> QED BY <2>1, DaysFollow
<1> HIDE DEF L, A, B, D
<1>9. CASE t < zone.change
  <2>1. B <= t + zone.before
    BY <1>1, <1>9 DEF OffsetAt
  <2> QED BY <2>1, <1>2, <1>3, <1>6, <1>7, <1>9
<1>10. CASE t >= zone.change
  <2>1. B <= t + zone.after
    BY <1>1, <1>10, <1>6 DEF OffsetAt
  <2> QED BY <2>1, <1>2, <1>3, <1>5, <1>6, <1>7, <1>8, <1>10
<1> QED BY <1>6, <1>9, <1>10

\* ... and on a later date after it.
LEMMA LaterDates ==
  ASSUME NEW zone, ChangesWithinADay(zone), NEW time \in 0..DayLength - 1, NEW t \in Int,
         NEW date \in Int, LocalDate(zone, t) < date
  PROVE  t < LocalizeWallTime(zone, date, time)
<1> DEFINE L == LocalDate(zone, t)
           A == date * DayLength
           B == L * DayLength
<1>1. L \in Int /\ B <= t + OffsetAt(zone, t) /\ t + OffsetAt(zone, t) < B + DayLength
  BY DateOfInstant
<1>2. A \in Int /\ B \in Int /\ B + DayLength <= A
  BY DaysFollow, <1>1
<1>3. time \in Int /\ 0 <= time /\ time < DayLength /\ DayLength \in Int
  BY CalculatorAssumption
<1>4. PICK d \in Int :
        \A wall \in {zone.change + zone.before, zone.change + zone.after} :
          d * DayLength <= wall /\ wall <= (d + 1) * DayLength
  BY DEF ChangesWithinADay
<1> DEFINE D == d * DayLength
<1>5. D \in Int /\ (d + 1) * DayLength = D + DayLength
  BY <1>3
<1>6. /\ zone.before \in Int /\ zone.after \in Int /\ zone.change \in Int
      /\ D <= zone.change + zone.before /\ zone.change + zone.before <= D + DayLength
      /\ D <= zone.change + zone.after /\ zone.change + zone.after <= D + DayLength
  BY <1>4, <1>5 DEF ChangesWithinADay
<1>7. LocalizeWallTime(zone, date, time) =
        IF A + time - zone.after >= zone.change /\ A + time - zone.before >= zone.change
        THEN A + time - zone.after ELSE A + time - zone.before
  BY <1>2, <1>3, InstantOfWallTime
<1>8. D = B \/ D + DayLength <= B \/ B + DayLength <= D
  <2>1. d = L \/ d < L \/ L < d
    BY <1>1
  <2> QED BY <2>1, <1>1, DaysFollow
<1> HIDE DEF L, A, B, D
<1>9. CASE t < zone.change
  <2>1. t + zone.before < B + DayLength
    BY <1>1, <1>9 DEF OffsetAt
  <2> QED BY <2>1, <1>2, <1>3, <1>6, <1>7, <1>9
<1>10. CASE t >= zone.change
  <2>1. t + zone.after < B + DayLength
    BY <1>1, <1>10, <1>6 DEF OffsetAt
  <2> QED BY <2>1, <1>2, <1>3, <1>5, <1>6, <1>7, <1>8, <1>10
<1> QED BY <1>6, <1>9, <1>10

\* The weekday asked for comes within the six days after a date, and not again for
\* seven.
LEMMA WeekdayComes ==
  ASSUME NEW date \in Int, NEW day \in 0..6
  PROVE  LET next == date + ((day - Weekday(date)) % 7)
         IN  /\ next \in Int /\ date <= next /\ next < date + 7
             /\ Weekday(next) = day
             /\ \A x \in Int : Weekday(x) = day /\ date <= x => x = next \/ next + 7 <= x
<1> DEFINE next == date + ((day - Weekday(date)) % 7)
<1>1. FirstWeekday \in Int
  BY CalculatorAssumption
<1>2. next \in Int /\ date <= next /\ next < date + 7 /\ Weekday(next) = day
  BY <1>1 DEF Weekday
<1>3. \A x, y \in Int : Weekday(x) = Weekday(y) /\ x < y => x + 7 <= y
  BY <1>1 DEF Weekday
<1> HIDE DEF next
<1>4. ASSUME NEW x \in Int, Weekday(x) = day, date <= x
      PROVE  x = next \/ next + 7 <= x
  <2>1. CASE x < next
    BY <2>1, <1>2, <1>3, <1>4
  <2>2. CASE next < x
    BY <2>2, <1>2, <1>3, <1>4
  <2> QED BY <2>1, <2>2, <1>2
<1> QED BY <1>2, <1>4 DEF next

\* The first due instant after a reference, once it is known to be due and after it.
LEMMA FirstIsKnown ==
  ASSUME NEW zone, NEW rec, NEW reference, NEW dates, NEW first \in Int,
         \A x \in dates : LocalizeWallTime(zone, x, rec.time) \in Int,
         reference < first,
         \E x \in dates : Matches(rec, x) /\ first = LocalizeWallTime(zone, x, rec.time),
         \A x \in dates : Matches(rec, x) /\ reference < LocalizeWallTime(zone, x, rec.time) =>
           first <= LocalizeWallTime(zone, x, rec.time)
  PROVE  FirstSlotAfter(zone, rec, reference, dates) = first
<1> DEFINE S == {t \in {LocalizeWallTime(zone, date, rec.time) :
                         date \in {x \in dates : Matches(rec, x)}} : t > reference}
<1>1. first \in S /\ \A t \in S : t \in Int /\ first <= t
  OBVIOUS
<1> HIDE DEF S
<1>2. \A t \in S : (\A u \in S : t <= u) => t = first
  BY <1>1
<1>3. Min(S) = first
  BY <1>1, <1>2 DEF Min
<1> QED BY <1>3 DEF S, FirstSlotAfter

\* The weekly schedule.
LEMMA NextWeeklyIsFirst ==
  ASSUME NEW zone, ChangesWithinADay(zone), NEW rec, IsRule(rec), rec.frequency = "weekly",
         NEW reference \in Int, NEW dates \in SUBSET Int,
         LocalDate(zone, reference)..LocalDate(zone, reference) + 13 \subseteq dates
  PROVE  NextWeekly(zone, rec, reference) = FirstSlotAfter(zone, rec, reference, dates)
<1> DEFINE date == LocalDate(zone, reference)
           next == date + ((rec.day - Weekday(date)) % 7)
           At(x) == LocalizeWallTime(zone, x, rec.time)
<1>1. date \in Int /\ rec.time \in 0..DayLength - 1 /\ rec.day \in 0..6
  BY DateOfInstant DEF IsRule
<1>2. /\ next \in Int /\ date <= next /\ next < date + 7 /\ Weekday(next) = rec.day
      /\ \A x \in Int : Weekday(x) = rec.day /\ date <= x => x = next \/ next + 7 <= x
  BY <1>1, WeekdayComes
<1>3. Weekday(next + 7) = rec.day
  <2>1. FirstWeekday \in Int
    BY CalculatorAssumption
  <2> HIDE DEF next
  <2> QED BY <1>2, <2>1 DEF Weekday
<1>4. next \in dates /\ next + 7 \in dates
  <2> HIDE DEF date, next
  <2>1. date..date + 13 \subseteq dates
    BY DEF date
  <2> QED BY <2>1, <1>1, <1>2
<1>5. \A x \in Int : Matches(rec, x) <=> Weekday(x) = rec.day
  BY DEF Matches
<1>6. NextWeekly(zone, rec, reference) = IF At(next) <= reference THEN At(next + 7) ELSE At(next)
  BY DEF NextWeekly
<1>7. \A x \in Int : x < date => At(x) <= reference
  BY <1>1, EarlierDates
<1>8. \A x \in Int : date < x => reference < At(x)
  BY <1>1, LaterDates
<1>9. \A x, y \in Int : x < y => At(x) \in Int /\ At(x) <= At(y)
  BY <1>1, DatesInOrder
<1>10. \A x \in Int : At(x) \in Int
  BY <1>9, \A x \in Int : x < x + 1 /\ x + 1 \in Int
<1> HIDE DEF date, next
<1>11. CASE At(next) <= reference
  <2>1. ASSUME NEW x \in dates, Matches(rec, x), reference < At(x)
        PROVE  At(next + 7) <= At(x)
    <3>1. x \in Int /\ At(x) \in Int /\ At(next) \in Int
      BY <1>2, <1>10
    <3>2. ~(x < date) /\ x # next
      BY <2>1, <3>1, <1>7, <1>11
    <3>3. next + 7 = x \/ next + 7 < x
      BY <2>1, <3>1, <3>2, <1>1, <1>2, <1>5
    <3>4. CASE next + 7 = x
      BY <3>1, <3>4
    <3>5. CASE next + 7 < x
      BY <3>1, <3>5, <1>2, <1>9
    <3> QED BY <3>3, <3>4, <3>5
  <2>2. next + 7 \in Int /\ reference < At(next + 7) /\ Matches(rec, next + 7)
    BY <1>1, <1>2, <1>3, <1>5, <1>8
  <2>3. At(next + 7) \in Int
    BY <2>2, <1>10
  <2> HIDE DEF At
  <2>4. NextWeekly(zone, rec, reference) = At(next + 7)
    BY <1>6, <1>11
  <2> QED BY <2>1, <2>2, <2>3, <2>4, <1>4, <1>10, FirstIsKnown DEF At
<1>12. CASE ~(At(next) <= reference)
  <2>1. ASSUME NEW x \in dates, Matches(rec, x), reference < At(x)
        PROVE  At(next) <= At(x)
    <3>1. x \in Int /\ At(x) \in Int
      BY <1>10
    <3>2. ~(x < date)
      BY <2>1, <3>1, <1>7
    <3>3. next = x \/ next < x
      BY <2>1, <3>1, <3>2, <1>1, <1>2, <1>5
    <3>4. CASE next = x
      BY <3>1, <3>4
    <3>5. CASE next < x
      BY <3>1, <3>5, <1>2, <1>9
    <3> QED BY <3>3, <3>4, <3>5
  <2>2. At(next) \in Int
    BY <1>2, <1>10
  <2>3. reference < At(next) /\ Matches(rec, next)
    BY <2>2, <1>12, <1>2, <1>5
  <2> HIDE DEF At
  <2>4. NextWeekly(zone, rec, reference) = At(next)
    BY <1>6, <1>12
  <2> QED BY <2>1, <2>2, <2>3, <2>4, <1>4, <1>10, FirstIsKnown DEF At
<1> QED BY <1>11, <1>12

\* The months of the window do not overlap, and one is followed by the next.
CalendarIsSound ==
  /\ \A m, n \in Months : \/ m = n
                          \/ MonthStart[m] + MonthLength[m] <= MonthStart[n]
                          \/ MonthStart[n] + MonthLength[n] <= MonthStart[m]
  /\ \A m \in Months : NextMonth(m) \in Months =>
       MonthStart[NextMonth(m)] = MonthStart[m] + MonthLength[m]

\* The monthly schedule.
LEMMA NextMonthlyIsFirst ==
  ASSUME NEW zone, ChangesWithinADay(zone), NEW rec, IsRule(rec), rec.frequency = "monthly",
         NEW reference \in Int, NEW dates \in SUBSET Int, CalendarIsSound,
         NEW month \in Months, NextMonth(month) \in Months,
         LocalDate(zone, reference) \in MonthStart[month]..MonthStart[NextMonth(month)] - 1,
         MonthStart[month]..MonthStart[NextMonth(month)] + 27 \subseteq dates
  PROVE  NextMonthly(zone, rec, reference) = FirstSlotAfter(zone, rec, reference, dates)
<1> DEFINE date == LocalDate(zone, reference)
           Day(m) == MonthStart[m] + rec.day - 1
           this == Day(month)
           next == Day(NextMonth(month))
           At(x) == LocalizeWallTime(zone, x, rec.time)
<1>1. date \in Int /\ rec.time \in 0..DayLength - 1 /\ rec.day \in 1..28
  BY DateOfInstant DEF IsRule
<1>2. \A m \in Months : MonthStart[m] \in Nat /\ MonthLength[m] \in 28..31
  BY CalculatorAssumption
<1>3. \A m \in Months : MonthlyCandidate(zone, m, rec) = At(Day(m)) /\ Day(m) \in Int
  <2> TAKE m \in Months
  <2>1. rec.day \in Int /\ MonthLength[m] \in Int /\ rec.day <= MonthLength[m]
    BY <1>1, <1>2
  <2>2. Min({rec.day, MonthLength[m]}) = rec.day
    <3>1. \A x \in {rec.day, MonthLength[m]} : rec.day <= x
      BY <2>1
    <3>2. \A x \in {rec.day, MonthLength[m]} :
            (\A y \in {rec.day, MonthLength[m]} : x <= y) => x = rec.day
      BY <2>1
    <3> QED BY <3>1, <3>2 DEF Min
  <2>3. Day(m) \in Int
    BY <2>1, <1>2
  <2> QED BY <2>2, <2>3 DEF MonthlyCandidate
<1>4. MonthOf(date) = month
  <2>1. MonthStart[NextMonth(month)] = MonthStart[month] + MonthLength[month]
    BY DEF CalendarIsSound
  <2>2. MonthStart[month] <= date /\ date < MonthStart[month] + MonthLength[month]
    BY <2>1, <1>1, <1>2
  <2>3. ASSUME NEW m \in Months, MonthStart[m] <= date /\ date < MonthStart[m] + MonthLength[m]
        PROVE  m = month
    BY <2>2, <2>3, <1>1, <1>2 DEF CalendarIsSound
  <2> HIDE DEF date
  <2> QED BY <2>2, <2>3 DEF MonthOf
<1>5. NextMonthly(zone, rec, reference) = IF At(this) <= reference THEN At(next) ELSE At(this)
  BY <1>3, <1>4 DEF NextMonthly
<1>6. Matches(rec, this) /\ Matches(rec, next)
  BY DEF Matches
<1>7. this \in dates /\ next \in dates /\ date < next /\ this < next
  <2>1. MonthStart[NextMonth(month)] = MonthStart[month] + MonthLength[month]
    BY DEF CalendarIsSound
  <2> QED BY <2>1, <1>1, <1>2
<1>8. ASSUME NEW x \in Int, Matches(rec, x), ~(x < date)
      PROVE  x = this \/ next <= x
  <2>1. PICK m \in Months : x = Day(m)
    BY <1>8 DEF Matches
  <2>2. MonthStart[NextMonth(month)] = MonthStart[month] + MonthLength[month]
    BY DEF CalendarIsSound
  <2>3. \/ m = month
        \/ MonthStart[month] + MonthLength[month] <= MonthStart[m]
        \/ MonthStart[m] + MonthLength[m] <= MonthStart[month]
    BY DEF CalendarIsSound
  <2>4. CASE m = month
    BY <2>1, <2>4
  <2>5. CASE MonthStart[month] + MonthLength[month] <= MonthStart[m]
    BY <2>1, <2>2, <2>5, <1>1, <1>2
  <2>6. CASE MonthStart[m] + MonthLength[m] <= MonthStart[month]
    BY <2>1, <2>6, <1>1, <1>2, <1>8
  <2> QED BY <2>3, <2>4, <2>5, <2>6
<1>9. \A x \in Int : x < date => At(x) <= reference
  BY <1>1, EarlierDates
<1>10. \A x \in Int : date < x => reference < At(x)
  BY <1>1, LaterDates
<1>11. \A x, y \in Int : x < y => At(x) \in Int /\ At(x) <= At(y)
  BY <1>1, DatesInOrder
<1>12. \A x \in Int : At(x) \in Int
  BY <1>11, \A x \in Int : x < x + 1 /\ x + 1 \in Int
<1>13. this \in Int /\ next \in Int
  BY <1>7
<1> HIDE DEF date, this, next
<1>14. CASE At(this) <= reference
  <2>1. ASSUME NEW x \in dates, Matches(rec, x), reference < At(x)
        PROVE  At(next) <= At(x)
    <3>1. x \in Int /\ At(x) \in Int /\ At(this) \in Int
      BY <1>12, <1>13
    <3>2. ~(x < date) /\ x # this
      BY <2>1, <3>1, <1>9, <1>14
    <3>3. next <= x
      BY <2>1, <3>1, <3>2, <1>8
    <3>4. CASE next = x
      BY <3>1, <3>4
    <3>5. CASE next < x
      BY <3>1, <3>5, <1>13, <1>11
    <3> QED BY <3>1, <3>3, <3>4, <3>5, <1>13
  <2>2. reference < At(next) /\ At(next) \in Int
    BY <1>7, <1>10, <1>12, <1>13
  <2> HIDE DEF At
  <2>3. NextMonthly(zone, rec, reference) = At(next)
    BY <1>5, <1>14
  <2> QED BY <2>1, <2>2, <2>3, <1>6, <1>7, <1>12, FirstIsKnown DEF At
<1>15. CASE ~(At(this) <= reference)
  <2>1. ASSUME NEW x \in dates, Matches(rec, x), reference < At(x)
        PROVE  At(this) <= At(x)
    <3>1. x \in Int /\ At(x) \in Int
      BY <1>12
    <3>2. ~(x < date)
      BY <2>1, <3>1, <1>9
    <3>3. this = x \/ this < x
      BY <2>1, <3>1, <3>2, <1>7, <1>8, <1>13
    <3>4. CASE this = x
      BY <3>1, <3>4
    <3>5. CASE this < x
      BY <3>1, <3>5, <1>13, <1>11
    <3> QED BY <3>3, <3>4, <3>5
  <2>2. reference < At(this) /\ At(this) \in Int
    BY <1>15, <1>12, <1>13
  <2> HIDE DEF At
  <2>3. NextMonthly(zone, rec, reference) = At(this)
    BY <1>5, <1>15
  <2> QED BY <2>1, <2>2, <2>3, <1>6, <1>7, <1>12, FirstIsKnown DEF At
<1> QED BY <1>14, <1>15

\* calculate_next_run gives the first due instant after any reference, for any
\* calendar, zone and recurrence.
THEOREM CalculatedIsFirst ==
  ASSUME NEW zone, ChangesWithinADay(zone), NEW rec, IsRule(rec),
         NEW reference \in Int, NEW dates \in SUBSET Int,
         rec.frequency = "weekly" =>
           LocalDate(zone, reference)..LocalDate(zone, reference) + 13 \subseteq dates,
         rec.frequency = "monthly" =>
           /\ CalendarIsSound
           /\ \E m \in Months :
                /\ NextMonth(m) \in Months
                /\ LocalDate(zone, reference) \in MonthStart[m]..MonthStart[NextMonth(m)] - 1
                /\ MonthStart[m]..MonthStart[NextMonth(m)] + 27 \subseteq dates
  PROVE  CalculateNextRun(zone, rec, reference) = FirstSlotAfter(zone, rec, reference, dates)
<1>1. CASE rec.frequency = "weekly"
  BY <1>1, NextWeeklyIsFirst DEF CalculateNextRun
<1>2. CASE rec.frequency = "monthly"
  BY <1>2, NextMonthlyIsFirst DEF CalculateNextRun
<1> QED BY <1>1, <1>2 DEF IsRule

\* And so it gives what the clients and ticks take the next run to be, if the instants
\* of a recurrence are those of the matching dates, of which those about the
\* reference are there.
THEOREM NextRunIsCalculated ==
  ASSUME NEW zone, ChangesWithinADay(zone), NEW rec, IsRule(rec),
         NEW reference \in Int, NEW dates \in SUBSET Int,
         rec.frequency = "weekly" =>
           LocalDate(zone, reference)..LocalDate(zone, reference) + 13 \subseteq dates,
         rec.frequency = "monthly" =>
           /\ CalendarIsSound
           /\ \E m \in Months :
                /\ NextMonth(m) \in Months
                /\ LocalDate(zone, reference) \in MonthStart[m]..MonthStart[NextMonth(m)] - 1
                /\ MonthStart[m]..MonthStart[NextMonth(m)] + 27 \subseteq dates,
         NEW r \in Recurrences,
         Slots[r] = {LocalizeWallTime(zone, date, rec.time) :
                     date \in {x \in dates : Matches(rec, x)}}
  PROVE  CalculateNextRun(zone, rec, reference) = NextRun(r, reference)
<1>1. FirstSlotAfter(zone, rec, reference, dates) = NextRun(r, reference)
  BY DEF FirstSlotAfter, NextRun
<1>2. CalculateNextRun(zone, rec, reference) = FirstSlotAfter(zone, rec, reference, dates)
  BY CalculatedIsFirst
<1> QED BY <1>1, <1>2

\* The calendar over the turn of a year.
LEMMA SomeCalendar ==
  ASSUME Months = SomeMonths, MonthStart = Starts, MonthLength = Lengths
  PROVE  /\ CalendarIsSound
         /\ <<1, 12>> \in Months /\ NextMonth(<<1, 12>>) = <<2, 1>>
         /\ <<2, 1>> \in Months /\ NextMonth(<<2, 1>>) = <<2, 2>> /\ <<2, 2>> \in Months
         /\ MonthStart[<<1, 12>>] = 0 /\ MonthStart[<<2, 1>>] = 31 /\ MonthStart[<<2, 2>>] = 62
<1>1. /\ MonthStart[<<1, 12>>] = 0 /\ MonthStart[<<2, 1>>] = 31 /\ MonthStart[<<2, 2>>] = 62
      /\ MonthLength[<<1, 12>>] = 31 /\ MonthLength[<<2, 1>>] = 31 /\ MonthLength[<<2, 2>>] = 28
  BY DEF SomeMonths, Starts, Lengths
<1>2. NextMonth(<<1, 12>>) = <<2, 1>> /\ NextMonth(<<2, 1>>) = <<2, 2>>
      /\ NextMonth(<<2, 2>>) = <<2, 3>>
  BY DEF NextMonth
<1>3. \A m : m \in Months <=> m = <<1, 12>> \/ m = <<2, 1>> \/ m = <<2, 2>>
  BY DEF SomeMonths
<1>4. <<2, 3>> \notin Months
  BY <1>3
<1>5. \A m, n \in Months : \/ m = n
                           \/ MonthStart[m] + MonthLength[m] <= MonthStart[n]
                           \/ MonthStart[n] + MonthLength[n] <= MonthStart[m]
  BY <1>1, <1>3
<1>6. \A m \in Months : NextMonth(m) \in Months =>
        MonthStart[NextMonth(m)] = MonthStart[m] + MonthLength[m]
  BY <1>1, <1>2, <1>3, <1>4
<1> QED BY <1>1, <1>2, <1>3, <1>5, <1>6 DEF CalendarIsSound

\* The zones change their offset inside a day, by which an instant of the window has
\* its date in the window.
LEMMA SomeZones ==
  ASSUME DayLength >= 3, NEW zone \in Zones
  PROVE  ChangesWithinADay(zone) /\ zone.before \in -1..2 /\ zone.after \in -1..2
<1>1. DayLength \in Int
  BY CalculatorAssumption
<1>2. 21 * DayLength = 20 * DayLength + DayLength 
      /\ 34 * DayLength = 33 * DayLength + DayLength
  BY <1>1
<1>3. CASE zone = Zone(1, 1, 0)
  <2>1. zone.before = 1 /\ zone.after = 1 /\ zone.change = 0
    BY <1>3 DEF Zone
  <2>2. 0 * DayLength = 0 /\ (0 + 1) * DayLength = DayLength /\ 0 \in Int
    BY <1>1
  <2> QED BY <2>1, <2>2, <1>1 DEF ChangesWithinADay
<1>4. CASE zone = Zone(-1, -1, 0)
  <2>1. zone.before = -1 /\ zone.after = -1 /\ zone.change = 0
    BY <1>4 DEF Zone
  <2>2. (-1) * DayLength = -DayLength /\ (-1 + 1) * DayLength = 0 /\ -1 \in Int
    BY <1>1
  <2> QED BY <2>1, <2>2, <1>1 DEF ChangesWithinADay
<1>5. CASE zone = Zone(1, 2, 20 * DayLength)
  <2>1. zone.before = 1 /\ zone.after = 2 /\ zone.change = 20 * DayLength
    BY <1>5 DEF Zone
  <2>2. 20 \in Int /\ (20 + 1) * DayLength = 20 * DayLength + DayLength
    BY <1>1
  <2> QED BY <2>1, <2>2, <1>1, <1>2 DEF ChangesWithinADay
<1>6. CASE zone = Zone(2, 1, 20 * DayLength)
  <2>1. zone.before = 2 /\ zone.after = 1 /\ zone.change = 20 * DayLength
    BY <1>6 DEF Zone
  <2>2. 20 \in Int /\ (20 + 1) * DayLength = 20 * DayLength + DayLength
    BY <1>1
  <2> QED BY <2>1, <2>2, <1>1, <1>2 DEF ChangesWithinADay
<1>7. CASE zone = Zone(-1, 0, 34 * DayLength - 1)
  <2>1. zone.before = -1 /\ zone.after = 0 /\ zone.change = 34 * DayLength - 1
    BY <1>7 DEF Zone
  <2>2. 33 \in Int /\ (33 + 1) * DayLength = 33 * DayLength + DayLength
    BY <1>1
  <2> QED BY <2>1, <2>2, <1>1, <1>2 DEF ChangesWithinADay
<1>8. \/ zone = Zone(1, 1, 0) \/ zone = Zone(-1, -1, 0) \/ zone = Zone(1, 2, 20 * DayLength)
      \/ zone = Zone(2, 1, 20 * DayLength) \/ zone = Zone(-1, 0, 34 * DayLength - 1)
  BY Zenon DEF Zones
<1> QED BY <1>3, <1>4, <1>5, <1>6, <1>7, <1>8

\* The date of a reference of the window is one of its first two months.
LEMMA ReferencesInWindow ==
  ASSUME DayLength >= 3, NEW zone \in Zones, NEW reference \in DayLength..61 * DayLength
  PROVE  reference \in Int /\ LocalDate(zone, reference) \in 0..61
<1> DEFINE date == LocalDate(zone, reference)
           B == date * DayLength
           t == reference + OffsetAt(zone, reference)
<1>1. DayLength \in Int /\ 61 * DayLength \in Int /\ 0 * DayLength = 0
  BY CalculatorAssumption
<1>2. reference \in Int /\ DayLength <= reference /\ reference <= 61 * DayLength
  BY <1>1
<1>3. ChangesWithinADay(zone) /\ OffsetAt(zone, reference) \in -1..2
  BY SomeZones DEF OffsetAt
<1>4. date \in Int /\ B <= t /\ t < B + DayLength
  BY <1>2, <1>3, DateOfInstant
<1>5. date < 0 => B + DayLength <= 0
  BY <1>1, <1>4, DaysFollow, 0 \in Int
<1>6. 61 < date => 61 * DayLength + DayLength <= B
  BY <1>4, DaysFollow, 61 \in Int
<1>7. DayLength - 1 <= t /\ t <= 61 * DayLength + 2 /\ t \in Int
  BY <1>1, <1>2, <1>3
<1>8. B \in Int
  BY <1>1, <1>4
<1> HIDE DEF date, B, t
<1>9. ~(date < 0) /\ ~(61 < date)
  BY <1>1, <1>4, <1>5, <1>6, <1>7, <1>8
<1> QED BY <1>2, <1>4, <1>9 DEF date

\* What a run checks at days of four units, for days of any length: over the turn of
\* the year and the changes of the zones, the next run is the first one due.
THEOREM NextRunHolds ==
  ASSUME DayLength >= 3,
         Months = SomeMonths, MonthStart = Starts, MonthLength = Lengths
  PROVE  Spec => []NextRunIsFirst
<1>1. ASSUME NEW zone \in Zones, NEW rule \in Rules,
             NEW reference \in DayLength..61 * DayLength
      PROVE  CalculateNextRun(zone, rule, reference) =
               FirstSlotAfter(zone, rule, reference, AllDates)
  <2> DEFINE date == LocalDate(zone, reference)
  <2>1. reference \in Int /\ date \in 0..61
    BY ReferencesInWindow
  <2>2. ChangesWithinADay(zone)
    BY SomeZones
  <2>3. IsRule(rule)
    <3>1. CASE rule \in [frequency : {"weekly"}, day : 0..6, time : 0..DayLength - 1]
      <4>1. rule.frequency = "weekly" /\ rule.day \in 0..6 /\ rule.time \in 0..DayLength - 1
        BY <3>1
      <4> QED BY <4>1 DEF IsRule
    <3>2. CASE rule \in [frequency : {"monthly"}, day : 1..28, time : 0..DayLength - 1]
      <4>1. rule.frequency = "monthly" /\ rule.day \in 1..28 /\ rule.time \in 0..DayLength - 1
        BY <3>2
      <4> QED BY <4>1 DEF IsRule
    <3> QED BY <3>1, <3>2 DEF Rules
  <2> HIDE DEF date
  <2>4. date..date + 13 \subseteq AllDates
    BY <2>1 DEF AllDates
  <2>5. \E m \in Months :
          /\ NextMonth(m) \in Months
          /\ date \in MonthStart[m]..MonthStart[NextMonth(m)] - 1
          /\ MonthStart[m]..MonthStart[NextMonth(m)] + 27 \subseteq AllDates
    <3>1. CASE date < 31
      <4>1. date \in 0..31 - 1 /\ 0..31 + 27 \subseteq AllDates
        BY <2>1, <3>1 DEF AllDates
      <4> QED BY <4>1, SomeCalendar
    <3>2. CASE ~(date < 31)
      <4>1. date \in 31..62 - 1 /\ 31..62 + 27 \subseteq AllDates
        BY <2>1, <3>2 DEF AllDates
      <4> QED BY <4>1, SomeCalendar
    <3> QED BY <3>1, <3>2
  <2>6. AllDates \in SUBSET Int /\ CalendarIsSound
    BY SomeCalendar DEF AllDates
  <2> QED BY <2>1, <2>2, <2>3, <2>4, <2>5, <2>6, CalculatedIsFirst DEF date
<1>2. NextRunIsFirst
  BY <1>1 DEF NextRunIsFirst
<1> QED BY <1>2, PTL
=============================================================================
