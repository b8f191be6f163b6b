---------------------------- MODULE SchedulesPage ----------------------------
(* The page of the scheduled scans (scheduled-scans/page.tsx): a list that    *)
(* every change loads again, a form and a dialog for deletion. Answers are    *)
(* taken as they come, and workingId knows one schedule only.                 *)
EXTENDS PageBounds

VARIABLES schedules, \* at the backend: "absent", "active" or "paused"
          version,   \* at the backend: how often a schedule was changed
          table,     \* the list on display
          tableVersion, \* the youngest list that ever was
          loads,     \* requests for the list under way, with the list they found
          loading,   \* cleared by the first request to end
          domainsKnown, \* the verified domains are loaded
          pageError,
          workingId,
          toggles,   \* changes of a schedule under way: [id, to, served]
          showForm,  \* what the form is for: New, a schedule, None if it is hidden
          submission, \* "none", "sent", "served" or "loading"
          submitted, \* what the submission is for
          formError,
          reopened,  \* a form was opened while a submission or a deletion was under way
          deleteTarget,
          deletions, \* under way: of what, whether the form was for it, and served or not
          deleteError,
          outdated   \* the list on display is older than that

svars == <<schedules, version, table, tableVersion, loads, loading, domainsKnown, pageError, workingId,
           toggles, showForm, submission, submitted, formError, reopened, deleteTarget, deletions,
           deleteError, outdated, clicks, faults>>
backend == <<schedules, version>>
listing == <<table, tableVersion, loads, loading, domainsKnown, outdated>>
editor  == <<showForm, submission, submitted, formError, reopened>>
dialog  == <<deleteTarget, deletions, deleteError>>

Ids == 1..3     \* the third one does not exist at the start
New == 0
MaxLoads == 4   \* requests for the list under way at once
MaxDeletions == 2   \* deletions under way at once
Deletions == [no : 1..MaxDeletions, id : Ids, editing : BOOLEAN, served : BOOLEAN]
FirstFree(n, taken) == n \notin taken /\ 1..(n - 1) \subseteq taken
Existing(list) == {s \in Ids : list[s] # "absent"}

TypeOK ==
  /\ schedules \in [Ids -> {"absent", "active", "paused"}]
  /\ table \in [Ids -> {"absent", "active", "paused"}] /\ tableVersion <= version
  /\ workingId \in Ids \union {None} /\ deleteTarget \in Ids \union {None}
  /\ showForm \in Ids \union {New, None}
  /\ deletions \subseteq Deletions
  /\ \A t \in toggles : t.to # t.from

Init ==
  /\ schedules = [s \in Ids |-> IF s = 3 THEN "absent" ELSE "active"] /\ version = 0
  /\ table = [s \in Ids |-> "absent"] /\ tableVersion = 0
  /\ loads = {[id |-> 1, after |-> "page", found |-> None, version |-> 0]} /\ loading = TRUE
  /\ domainsKnown = FALSE
  /\ pageError = FALSE /\ workingId = None /\ toggles = {}
  /\ showForm = None /\ submission = "none" /\ submitted = None /\ formError = FALSE
  /\ reopened = FALSE
  /\ deleteTarget = None /\ deletions = {} /\ deleteError = FALSE
  /\ outdated = FALSE /\ clicks = 0 /\ faults = 0

-----------------------------------------------------------------------------
(* The list.                                                                 *)

\* One more request; what was loaded stays on display. The handler that asked
\* waits for it.
loadData(after) ==
  /\ \E n \in 1..MaxLoads :
       /\ FirstFree(n, {l.id : l \in loads})
       /\ loads' = loads \union {[id |-> n, after |-> after, found |-> None, version |-> 0]}
  /\ loading' = TRUE /\ pageError' = FALSE
  /\ UNCHANGED <<table, tableVersion, domainsKnown, outdated>>

LoadServed(l) ==
  /\ l \in loads /\ l.found = None
  /\ loads' = (loads \ {l}) \union {[l EXCEPT !.found = schedules, !.version = version]}
  /\ UNCHANGED <<backend, table, tableVersion, loading, domainsKnown, outdated, pageError, workingId, toggles,
                 editor, dialog, clicks, faults>>

\* The end of the handler that asked, however its list came.
Finally(l) ==
  /\ loading' = FALSE
  /\ workingId' = IF l.after \in {"toggle", "delete"} THEN None ELSE workingId
  /\ submission' = IF l.after = "submit" THEN "none" ELSE submission

LoadArrives(l) ==
  /\ l \in loads /\ l.found # None
  /\ loads' = loads \ {l}
  /\ table' = l.found /\ domainsKnown' = TRUE
  /\ outdated' = (l.version < tableVersion)
  /\ tableVersion' = IF l.version < tableVersion THEN tableVersion ELSE l.version
  /\ Finally(l)
  /\ UNCHANGED <<backend, pageError, toggles, showForm, submitted, formError, reopened, dialog,
                 clicks, faults>>

LoadFails(l) ==
  /\ l \in loads
  /\ Fault
  /\ loads' = loads \ {l} /\ pageError' = TRUE
  /\ Finally(l)
  /\ UNCHANGED <<backend, table, tableVersion, domainsKnown, outdated, toggles, showForm, submitted,
                 formError, reopened, dialog, clicks>>

Refresh ==
  /\ ~loading /\ deleteTarget = None
  /\ Click
  /\ loadData("page")
  /\ UNCHANGED <<backend, workingId, toggles, editor, dialog, faults>>

-----------------------------------------------------------------------------
(* Pause and resume: the row says which. The buttons of a row are disabled    *)
(* while workingId names it.                                                 *)

Reachable(s) == s \in Existing(table) /\ workingId # s /\ deleteTarget = None

toggleSchedule(s) ==
  /\ Reachable(s)
  /\ Click
  /\ workingId' = s /\ pageError' = FALSE
  /\ toggles' = toggles \union
       {[id |-> s, from |-> table[s], served |-> FALSE,
         to |-> IF table[s] = "active" THEN "paused" ELSE "active"]}
  /\ UNCHANGED <<backend, listing, editor, dialog, faults>>

ToggleServed(t) ==
  /\ t \in toggles /\ ~t.served /\ schedules[t.id] # "absent"
  /\ toggles' = (toggles \ {t}) \union {[t EXCEPT !.served = TRUE]}
  /\ schedules' = [schedules EXCEPT ![t.id] = t.to] /\ version' = version + 1
  /\ UNCHANGED <<listing, pageError, workingId, editor, dialog, clicks, faults>>

ToggleAnswered(t) ==
  /\ t \in toggles /\ t.served
  /\ toggles' = toggles \ {t}
  /\ loadData("toggle")
  /\ UNCHANGED <<backend, workingId, editor, dialog, clicks, faults>>

ToggleFails(t) ==
  /\ t \in toggles
  /\ IF ~t.served /\ schedules[t.id] = "absent" THEN UNCHANGED faults ELSE Fault
  /\ toggles' = toggles \ {t}
  /\ pageError' = TRUE /\ workingId' = None
  /\ UNCHANGED <<backend, listing, editor, dialog, clicks>>

-----------------------------------------------------------------------------
(* The form.                                                                 *)

NewScheduleButton == domainsKnown /\ deleteTarget = None

Reopens == reopened' = (submission \in {"sent", "served"} \/ deletions # {})

openCreateForm ==
  /\ NewScheduleButton
  /\ Click
  /\ showForm' = New /\ formError' = FALSE
  /\ Reopens
  /\ UNCHANGED <<backend, listing, pageError, workingId, toggles, submission, submitted, dialog, faults>>

openEditForm(s) ==
  /\ Reachable(s)
  /\ Click
  /\ showForm' = s /\ formError' = FALSE
  /\ Reopens
  /\ UNCHANGED <<backend, listing, pageError, workingId, toggles, submission, submitted, dialog, faults>>

FormShown == showForm # None /\ deleteTarget = None

\* The cross and the backdrop work during a submission, the Cancel button not.
closeForm ==
  /\ FormShown
  /\ Click
  /\ showForm' = None /\ formError' = FALSE
  /\ UNCHANGED <<backend, listing, pageError, workingId, toggles, submission, submitted, reopened,
                 dialog, faults>>

handleSubmit ==
  /\ FormShown /\ submission = "none"
  /\ submission' = "sent" /\ submitted' = showForm /\ formError' = FALSE
  /\ reopened' = (reopened /\ deletions # {})
  /\ UNCHANGED <<backend, listing, pageError, workingId, toggles, showForm, dialog, clicks, faults>>

SubmissionServed ==
  /\ submission = "sent"
  /\ IF submitted = New THEN schedules' = [schedules EXCEPT ![3] = "active"]
     ELSE schedules[submitted] # "absent" /\ UNCHANGED schedules
  /\ submission' = "served" /\ version' = version + 1
  /\ UNCHANGED <<listing, pageError, workingId, toggles, showForm, submitted, formError, reopened,
                 dialog, clicks, faults>>

\* Whichever form is shown by now is closed.
SubmissionAnswered ==
  /\ submission = "served"
  /\ submission' = "loading" /\ submitted' = None
  /\ showForm' = None /\ formError' = FALSE
  /\ loadData("submit")
  /\ UNCHANGED <<backend, workingId, toggles, reopened, dialog, clicks, faults>>

SubmissionFails ==
  /\ submission \in {"sent", "served"}
  /\ IF submission = "sent" /\ submitted \in Ids /\ schedules[submitted] = "absent"
       THEN UNCHANGED faults ELSE Fault
  /\ submission' = "none" /\ submitted' = None /\ formError' = TRUE
  /\ UNCHANGED <<backend, listing, pageError, workingId, toggles, showForm, reopened, dialog, clicks>>

-----------------------------------------------------------------------------
(* Deletion, in a modal dialog. Its buttons wait for workingId, which the end *)
(* of a change of another schedule clears as well.                            *)

AskToDelete(s) ==
  /\ Reachable(s) /\ workingId = None
  /\ deleteTarget' = s /\ deleteError' = FALSE
  /\ UNCHANGED <<backend, listing, pageError, workingId, toggles, editor, deletions, clicks, faults>>

DialogButtons == deleteTarget # None /\ workingId = None

KeepSchedule ==
  /\ DialogButtons
  /\ deleteTarget' = None /\ deleteError' = FALSE
  /\ UNCHANGED <<backend, listing, pageError, workingId, toggles, editor, deletions, clicks, faults>>

\* The handler goes on with the editingId of the render it was pressed in.
removeSchedule ==
  /\ DialogButtons
  /\ \E n \in 1..MaxDeletions :
       /\ FirstFree(n, {d.no : d \in deletions})
       /\ deletions' = deletions \union
            {[no |-> n, id |-> deleteTarget, editing |-> showForm = deleteTarget, served |-> FALSE]}
  /\ workingId' = deleteTarget /\ deleteError' = FALSE /\ pageError' = FALSE
  /\ UNCHANGED <<backend, listing, toggles, editor, deleteTarget, clicks, faults>>

DeletionServed(d) ==
  /\ d \in deletions /\ ~d.served /\ schedules[d.id] # "absent"
  /\ deletions' = (deletions \ {d}) \union {[d EXCEPT !.served = TRUE]}
  /\ schedules' = [schedules EXCEPT ![d.id] = "absent"] /\ version' = version + 1
  /\ UNCHANGED <<listing, pageError, workingId, toggles, editor, deleteTarget, deleteError, clicks, faults>>

\* Whatever is shown by now: the dialog is closed, and the form, if it was for what is
\* deleted when the button was pressed.
DeletionAnswered(d) ==
  /\ d \in deletions /\ d.served
  /\ deletions' = deletions \ {d} /\ deleteTarget' = None
  /\ IF d.editing THEN showForm' = None /\ formError' = FALSE ELSE UNCHANGED <<showForm, formError>>
  /\ loadData("delete")
  /\ UNCHANGED <<backend, workingId, toggles, submission, submitted, reopened, deleteError, clicks, faults>>

DeletionFails(d) ==
  /\ d \in deletions
  /\ IF ~d.served /\ schedules[d.id] = "absent" THEN UNCHANGED faults ELSE Fault
  /\ deletions' = deletions \ {d} /\ deleteError' = TRUE /\ workingId' = None
  /\ UNCHANGED <<backend, listing, pageError, toggles, editor, deleteTarget, clicks>>

Next ==
  \/ \E l \in loads : LoadServed(l) \/ LoadArrives(l) \/ LoadFails(l)
  \/ Refresh
  \/ \E s \in Ids : toggleSchedule(s) \/ openEditForm(s) \/ AskToDelete(s)
  \/ \E t \in toggles : ToggleServed(t) \/ ToggleAnswered(t) \/ ToggleFails(t)
  \/ openCreateForm \/ closeForm \/ handleSubmit
  \/ SubmissionServed \/ SubmissionAnswered \/ SubmissionFails
  \/ KeepSchedule \/ removeSchedule
  \/ \E d \in deletions : DeletionServed(d) \/ DeletionAnswered(d) \/ DeletionFails(d)

Spec == Init /\ [][Next]_svars

-----------------------------------------------------------------------------
AtRest == loads = {} /\ toggles = {} /\ submission = "none" /\ deletions = {}

\* When nothing is under way and nothing failed, the list is the backend's,
\* unless the answer of an older request came after that of a younger one:
\* nothing orders them.
ListIsCurrent == AtRest /\ faults = 0 => table = schedules \/ outdated

\* The page takes a form away only once it was saved or its schedule deleted, unless it
\* was opened while a submission or a deletion was under way: then the end of that closes it.
KeepsForm ==
  showForm # None /\ showForm' = None =>
    \/ clicks' # clicks
    \/ submission = "served" /\ (submitted = showForm \/ reopened)
    \/ \E d \in deletions : d.served /\ (d.id = showForm \/ reopened)
FormIsSavedOrKept == [][KeepsForm]_svars

\* A form that is shown is not the form of a schedule whose deletion has just been
\* answered, unless it was opened meanwhile.
DropsForm ==
  ~deleteError' /\ ~reopened =>
    \A d \in deletions \ deletions' : d.served => showForm' # d.id
NoFormOfTheDeleted == [][DropsForm]_svars

\* Why: unless it was opened meanwhile, the form on display is the one that was submitted, and
\* it is for what is deleted just when the handler took it for that.
FormIsFollowed ==
  ~reopened =>
    /\ submission \in {"sent", "served"} => showForm \in {None, submitted}
    /\ \A d \in deletions : /\ d.editing => showForm \in {None, d.id}
                            /\ showForm = d.id => d.editing

IInv ==
  /\ clicks \in Nat /\ deleteTarget \in Ids \union {None} /\ deletions \subseteq Deletions
  /\ reopened \in BOOLEAN /\ FormIsFollowed
=============================================================================
