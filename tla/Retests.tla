------------------------------ MODULE Retests ------------------------------
(* Re-tests of findings: the client asks for them on the page of a completed *)
(* engagement (pentesting/engagement/[id]/layout.tsx), a pentester starts    *)
(* and concludes them (my-engagements/[id]/retests/page.tsx). The service    *)
(* behind them works in transactions that read, write and commit apart.      *)
EXTENDS PageBounds, OrmSession, Sequences

VARIABLES engagement, \* at the backend: "completed" or "retesting"
          retests,    \* at the backend: [of, status], oldest first
          window,     \* of re-tests: "open", "passed" or "noticed" by the pages
          asks,       \* requests of the client under way
          clientStatus, eligible, modal, askFailed, \* the client's page
          list,       \* the pentester's page: the re-tests as last loaded
          openId, confirming, saving, uploading, \* RetestWorkspace
          patches,    \* changes of re-tests under way
          crossed,    \* two transactions overlapped, each the end of its re-test, or a
                      \* transaction wrote over what another had changed
          overlapped  \* a transaction committed what another had not read

client == <<clientStatus, eligible, modal, askFailed>>
workspace == <<openId, confirming, saving, uploading>>
tester == <<list, workspace>>
service == <<engagement, retests>>
flags == <<crossed, overlapped>>
rvars == <<service, window, asks, client, tester, patches, flags, clicks, faults>>

Findings == {1, 2}
MaxRetests == 2  \* re-tests ever asked for
MaxAsks == 2     \* requests of the client under way
MaxPatches == 2  \* requests of the pentester under way
MaxLeaves == 1   \* times a page, a dialog or a panel is left early
Leaves == clicks < MaxLeaves /\ clicks' = clicks + 1

OPEN_RETEST_STATUSES == {"requested", "in_progress"}
COMPLETED_STATUSES == {"resolved", "still_vulnerable"}
Open(rs) == {r \in DOMAIN rs : rs[r].status \in OPEN_RETEST_STATUSES}

TypeOK ==
  /\ engagement \in {"completed", "retesting"}
  /\ Len(retests) <= 2 * MaxRetests /\ Len(list) <= Len(retests)
  /\ \A r \in DOMAIN retests : retests[r].of \in Findings
  /\ openId # None => openId \in DOMAIN retests
  /\ eligible \subseteq Findings /\ confirming \in COMPLETED_STATUSES \union {None}
  /\ \A p \in patches : p.id \in DOMAIN retests

Init ==
  /\ engagement = "completed" /\ retests = <<>> /\ window = "open" /\ asks = {}
  /\ clientStatus = "completed" /\ eligible = {} /\ modal = FALSE /\ askFailed = FALSE
  /\ list = <<>> /\ openId = None /\ confirming = None /\ saving = FALSE
  /\ uploading = FALSE /\ patches = {}
  /\ crossed = FALSE /\ overlapped = FALSE
  /\ clicks = 0 /\ faults = 0

-----------------------------------------------------------------------------
(* The window for re-tests ends at midnight; useRetestWindow looks at the    *)
(* clock every 30 seconds. The pages differ within these only.               *)

WindowEnds ==
  /\ window = "open" /\ window' = "passed"
  /\ UNCHANGED <<service, asks, client, tester, patches, flags, clicks, faults>>

useRetestWindow ==
  /\ window = "passed" /\ window' = "noticed"
  /\ UNCHANGED <<service, asks, client, tester, patches, flags, clicks, faults>>

\* A transaction commits next to these.
Overlaps(requests, changes) ==
  overlapped' = (overlapped \/ (\E a \in requests : a.phase = "read")
                            \/ (\E p \in changes : p.phase \in {"read", "written"}))

-----------------------------------------------------------------------------
(* The client.                                                               *)

\* list_eligible_findings: resolved once is resolved for good.
eligible_findings ==
  {f \in Findings : \A r \in DOMAIN retests :
     retests[r].of = f => retests[r].status = "still_vulnerable"}

\* The page is opened, or opened again. What its own requests bring is not
\* ordered with anything, so they are answered at once.
Visit ==
  /\ Leaves
  /\ clientStatus' = engagement /\ eligible' = {} /\ modal' = FALSE /\ askFailed' = FALSE
  /\ asks' = {[a EXCEPT !.own = FALSE] : a \in asks}
  /\ UNCHANGED <<service, window, tester, patches, flags, faults>>

EligibleArrives ==
  /\ clientStatus = "completed" /\ eligible = {} /\ ~modal
  /\ eligible' = eligible_findings
  /\ UNCHANGED <<service, window, asks, clientStatus, modal, askFailed, tester,
                 patches, flags, clicks, faults>>

ShowModal ==
  /\ clientStatus = "completed" /\ eligible # {} /\ window # "noticed" /\ ~modal
  /\ modal' = TRUE /\ askFailed' = FALSE
  /\ UNCHANGED <<service, window, asks, clientStatus, eligible, tester, patches, flags,
                 clicks, faults>>

\* The cross and the backdrop close it while it is submitting, too.
CloseModal ==
  /\ modal
  /\ Leaves
  /\ modal' = FALSE /\ askFailed' = FALSE
  /\ asks' = {[a EXCEPT !.own = FALSE] : a \in asks}
  /\ UNCHANGED <<service, window, clientStatus, eligible, tester, patches, flags, faults>>

\* All eligible findings are selected in a new dialog; some may be taken out.
Selections == (SUBSET eligible) \ {{}}

handleSubmit ==
  /\ modal /\ window # "noticed" /\ Cardinality(asks) < MaxAsks /\ ~\E a \in asks : a.own
  /\ \E selected \in Selections :
       asks' = asks \union {[findings |-> selected, phase |-> "sent", own |-> TRUE]}
  /\ askFailed' = FALSE
  /\ UNCHANGED <<service, window, clientStatus, eligible, modal, tester, patches, flags, clicks, faults>>

\* request_retest up to its writes.
RequestRead(a) ==
  /\ a \in asks /\ a.phase = "sent" /\ Len(retests) + Cardinality(a.findings) <= MaxRetests
  /\ asks' = (asks \ {a}) \union
       {[a EXCEPT !.phase = IF engagement = "completed" /\ window = "open" /\ a.findings \subseteq eligible_findings
                              THEN "read" ELSE "refused"]}
  /\ UNCHANGED <<service, window, client, tester, patches, flags, clicks, faults>>

Requested(findings) ==
  IF Cardinality(findings) = 2 THEN <<[of |-> 1, status |-> "requested"], [of |-> 2, status |-> "requested"]>>
  ELSE <<[of |-> CHOOSE f \in findings : TRUE, status |-> "requested"]>>

RequestCommits(a) ==
  /\ a \in asks /\ a.phase = "read"
  /\ asks' = (asks \ {a}) \union {[a EXCEPT !.phase = "done"]}
  /\ retests' = retests \o Requested(a.findings) /\ engagement' = "retesting"
  /\ Overlaps(asks \ {a}, patches)
  /\ UNCHANGED <<window, client, tester, patches, crossed, clicks, faults>>

\* Whichever dialog is open by now goes.
handleRetestRequested(a) ==
  /\ a \in asks /\ a.phase = "done"
  /\ asks' = {[b EXCEPT !.own = FALSE] : b \in asks \ {a}}
  /\ clientStatus' = "retesting" /\ eligible' = {} /\ modal' = FALSE
  /\ UNCHANGED <<service, window, askFailed, tester, patches, flags, clicks, faults>>

RequestFails(a) ==
  /\ a \in asks
  /\ IF a.phase = "refused" THEN UNCHANGED faults ELSE Fault
  /\ asks' = asks \ {a}
  /\ askFailed' = IF a.own THEN TRUE ELSE askFailed
  /\ UNCHANGED <<service, window, clientStatus, eligible, modal, tester,
                 patches, flags, clicks>>

-----------------------------------------------------------------------------
(* The pentester: cards of the list open a workspace, which starts afresh.   *)

OpenPanel(r) ==
  /\ openId' = r
  /\ confirming' = None /\ saving' = FALSE /\ uploading' = FALSE
  /\ patches' = {[p EXCEPT !.own = FALSE] : p \in patches}

\* The page is opened, or opened again.
VisitRetests ==
  /\ IF list = <<>> THEN UNCHANGED clicks ELSE Leaves
  /\ list' = retests /\ list' # list
  /\ OpenPanel(None)
  /\ UNCHANGED <<service, window, asks, client, flags, faults>>

RetestCard(r) ==
  /\ openId = None /\ r \in DOMAIN list
  /\ OpenPanel(r)
  /\ UNCHANGED <<service, window, asks, client, list, flags, clicks, faults>>

ClosePanel ==
  /\ openId # None
  /\ Leaves
  /\ OpenPanel(None)
  /\ UNCHANGED <<service, window, asks, client, list, flags, faults>>

Shown == IF openId # None /\ openId \in DOMAIN list THEN list[openId].status ELSE None

\* Refused while a file is under way or once the window has passed.
patch(to) ==
  /\ ~uploading /\ window # "noticed"
  /\ Cardinality(patches) < MaxPatches
  /\ patches' = patches \union
       {[id |-> openId, to |-> to, phase |-> "sent", before |-> None, last |-> FALSE, own |-> TRUE]}
  /\ saving' = TRUE
  /\ UNCHANGED <<service, window, asks, client, list, openId, confirming, uploading,
                 flags, clicks, faults>>

StartRetest == Shown = "requested" /\ ~saving /\ patch("in_progress")

OutcomeForm == Shown = "in_progress" /\ window # "noticed"

\* An outcome is chosen and saved, which asks for a confirmation.
ChooseOutcome(o) ==
  /\ OutcomeForm /\ confirming = None
  /\ confirming' = o
  /\ UNCHANGED <<service, window, asks, client, list, openId, saving, uploading, patches, flags, clicks,
                 faults>>

CancelOutcome ==
  /\ OutcomeForm /\ confirming # None
  /\ confirming' = None
  /\ UNCHANGED <<service, window, asks, client, list, openId, saving, uploading, patches, flags, clicks,
                 faults>>

saveOutcome == Shown = "in_progress" /\ confirming # None /\ ~saving /\ patch(confirming)

\* Evidence: attached while no outcome is being confirmed.
handleFile ==
  /\ OutcomeForm /\ confirming = None /\ ~uploading /\ ~saving
  /\ uploading' = TRUE
  /\ UNCHANGED <<service, window, asks, client, list, openId, confirming, saving,
                 patches, flags, clicks, faults>>

UploadEnds ==
  /\ uploading
  /\ uploading' = FALSE
  /\ UNCHANGED <<service, window, asks, client, list, openId, confirming, saving,
                 patches, flags, clicks, faults>>

-----------------------------------------------------------------------------
(* update_retest: what it read, its writes and its commit.                   *)

Becomes(p, q) == patches' = (patches \ {p}) \union {q}

UpdateRead(p) ==
  /\ p \in patches /\ p.phase = "sent"
  /\ IF engagement = "retesting" /\ window = "open"
       THEN Becomes(p, [p EXCEPT !.phase = "read", !.before = retests[p.id].status])
       ELSE Becomes(p, [p EXCEPT !.phase = "refused"])
  /\ UNCHANGED <<service, window, asks, client, tester, flags, clicks, faults>>

\* The status is not written if it is the one that was read.
Updated(p) == [retests EXCEPT ![p.id].status = Written(p.to, p.before, @)]
Ends(p) == p.before \notin COMPLETED_STATUSES /\ Updated(p)[p.id].status \in COMPLETED_STATUSES

\* A slip: the re-tests are counted before this one is written.
CountsItself(p) == Open(retests) = {}

LastOpen(p) == Open(Updated(p)) = {}

\* The row is locked from here to the commit; the others are counted, as they were
\* committed, when this one was open as it was read, and is no longer.
UpdateWrites(p) ==
  /\ p \in patches /\ p.phase = "read"
  /\ \A q \in patches : q.phase = "written" => q.id # p.id
  /\ Becomes(p, [p EXCEPT !.phase = "written", !.last = Ends(p) /\ LastOpen(p)])
  /\ crossed' = (crossed \/ (p.to # p.before /\ p.before # retests[p.id].status)
                         \/ (Ends(p) /\ \E q \in patches : q.phase = "written" /\ Ends(q)))
  /\ UNCHANGED <<service, window, asks, client, tester, overlapped, clicks, faults>>

UpdateCommits(p) ==
  /\ p \in patches /\ p.phase = "written"
  /\ Becomes(p, [p EXCEPT !.phase = "done", !.before = None, !.last = FALSE])
  /\ retests' = Updated(p)
  /\ engagement' = IF p.last THEN "completed" ELSE engagement
  /\ Overlaps(asks, patches \ {p})
  /\ UNCHANGED <<window, asks, client, tester, crossed, clicks, faults>>

\* Lists are taken as they come, the workspace may have gone.
PatchEnds(p) ==
  /\ patches' = patches \ {p}
  /\ saving' = IF p.own THEN FALSE ELSE saving
  /\ confirming' = IF p.own THEN None ELSE confirming
  /\ UNCHANGED <<service, window, asks, client, uploading, flags, clicks>>

ListArrives(p) ==
  /\ p \in patches /\ p.phase = "done"
  /\ list' = retests
  /\ openId' = openId
  /\ PatchEnds(p) /\ UNCHANGED faults

PatchFails(p) ==
  /\ p \in patches
  /\ p.phase \in {"sent", "refused", "done"}
  /\ IF p.phase = "refused" THEN UNCHANGED faults ELSE Fault
  /\ PatchEnds(p) /\ UNCHANGED <<list, openId>>

Next ==
  \/ WindowEnds \/ useRetestWindow
  \/ Visit \/ EligibleArrives \/ ShowModal \/ CloseModal
  \/ handleSubmit
  \/ \E a \in asks : RequestRead(a) \/ RequestCommits(a) \/ handleRetestRequested(a) \/ RequestFails(a)
  \/ VisitRetests \/ ClosePanel \/ \E r \in DOMAIN list : RetestCard(r)
  \/ StartRetest \/ \E o \in COMPLETED_STATUSES : ChooseOutcome(o)
  \/ CancelOutcome
  \/ saveOutcome \/ handleFile \/ UploadEnds
  \/ \E p \in patches : UpdateRead(p) \/ UpdateWrites(p) \/ UpdateCommits(p) \/ ListArrives(p)
                        \/ PatchFails(p)

Spec == Init /\ [][Next]_rvars

-----------------------------------------------------------------------------
\* A cycle of re-tests closes with its last one: an engagement is not left in
\* re-testing with nothing to re-test, except where two transactions each
\* counted the re-test of the other as open, or one wrote over the other.
CycleCloses == engagement = "retesting" => Open(retests) # {} \/ crossed

\* A completed engagement has no open re-test, except where a transaction was
\* decided on what another then changed: a start that ends after the re-test
\* did, an outcome saved twice across a new request, two requests at once.
CompletedIsDone == engagement = "completed" => Open(retests) = {} \/ overlapped

-----------------------------------------------------------------------------
(* The inductive invariant: what is true of the re-tests and of the changes   *)
(* under way in every reachable state, as long as no two of them met.         *)
Statuses == OPEN_RETEST_STATUSES \union COMPLETED_STATUSES
Rows == [of : Findings, status : Statuses]
Asks == [findings : (SUBSET Findings) \ {{}}, phase : {"sent", "read", "refused", "done"},
         own : BOOLEAN]
Patches == [id : Nat, to : {"in_progress"} \union COMPLETED_STATUSES,
            phase : {"sent", "read", "refused", "written", "done"},
            before : Statuses \union {None}, last : BOOLEAN, own : BOOLEAN]

Typed ==
  /\ engagement \in {"completed", "retesting"}
  /\ retests \in Seq(Rows) /\ list \in Seq(Rows) /\ Len(list) <= Len(retests)
  /\ asks \subseteq Asks /\ eligible \subseteq Findings
  /\ patches \subseteq Patches /\ \A p \in patches : p.id \in DOMAIN retests
  /\ confirming \in COMPLETED_STATUSES \union {None}
  /\ crossed \in BOOLEAN /\ overlapped \in BOOLEAN

Held(p) == p.phase \in {"read", "written"}
RowsAreLocked ==
  /\ \A p \in patches : Held(p) => p.before \in Statuses
  /\ \A p, q \in patches : p.phase = "written" /\ q.phase = "written" /\ p.id = q.id => p = q

\* The transaction ends its re-test.
Closes(p) ==
  p.phase = "written" /\ p.before \in OPEN_RETEST_STATUSES /\ p.to \in COMPLETED_STATUSES

\* One transaction at a time ends its re-test, and knows whether it is the last.
OneCloses ==
  /\ \A p \in patches : p.phase = "written" /\ p.to # p.before => retests[p.id].status = p.before
  /\ \A p, q \in patches : Closes(p) /\ Closes(q) => p = q
  /\ \A p \in patches : Closes(p) /\ ~p.last => \E r \in Open(retests) : r # p.id
  /\ CycleCloses

\* What a transaction has read and counted is still so.
AloneSinceRead ==
  /\ \A p \in patches : Held(p) => engagement = "retesting" /\ retests[p.id].status = p.before
  /\ \A p \in patches : p.phase = "written" /\ p.last => Open(Updated(p)) = {}
  /\ CompletedIsDone

IInv == /\ Typed /\ RowsAreLocked
        /\ ~crossed => OneCloses
        /\ ~overlapped => AloneSinceRead
=============================================================================
