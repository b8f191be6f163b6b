-------------------------- MODULE PentesterConsole --------------------------
(* A pentester at work on one engagement: PentestDataProvider.tsx, the layout *)
(* of the engagement, the form for a new finding and the panel of a finding.  *)
(* No button of the layout or of the panel waits for an answer, so requests   *)
(* overlap, and the backend reads and checks in one step and commits later.   *)
EXTENDS PageBounds, Sequences

VARIABLES stage,      \* at the backend: the status of the engagement
          drafts,     \* at the backend: findings saved from the form
          kept,       \* at the backend: an older finding written by hand is there
          scanned,    \* at the backend: a finding of the scan, verified or refuted
          atReview,   \* the findings as they were when submitted
          ops,        \* requests that change something
          cached,     \* the status in engagementDetails, None before the first answer
          failed,     \* the last answer was an error: the page shows nothing else
          loads,      \* answers of fetchEngagementDetail, oldest first
          visited,    \* the engagement is open
          form,       \* NewFindingModal, None when closed
          opened,     \* how many forms were opened
          overlapped, \* a change was checked before the submission it follows
          panel,      \* the finding whose panel is open, None when closed
          confirming  \* "Delete this finding?" is asked

pcvars == <<stage, drafts, kept, scanned, atReview, ops, cached, failed, loads, visited, form, opened,
            overlapped, panel, confirming, clicks, faults>>
detail   == <<cached, failed, loads>>
findings == <<drafts, kept, scanned>>
record   == <<stage, findings, atReview, overlapped>>
dialogs  == <<form, opened, panel, confirming>>

Stages == {"scheduled", "in_progress", "review"}
Kinds  == {"start", "submit", "add", "delete", "confirm", "refute"}
Ops    == [kind : Kinds, no : Nat, phase : {"sent", "checked", "served", "refused"}]
EmptyForm == [no |-> opened + 1, dirty |-> FALSE, discard |-> FALSE, saving |-> FALSE]

TypeOK ==
  /\ stage \in Stages /\ drafts \in Nat /\ kept \in BOOLEAN /\ opened \in Nat
  /\ scanned \in [verified : BOOLEAN, refuted : BOOLEAN]
  /\ ops \subseteq Ops /\ cached \in Stages \union {None}
  /\ \A i \in 1..Len(loads) : loads[i] \in Stages
  /\ form \in [no : Nat, dirty : BOOLEAN, discard : BOOLEAN, saving : BOOLEAN] \union {None}
  /\ panel \in {"manual", "scan", None} /\ confirming \in BOOLEAN

Init ==
  /\ stage \in {"scheduled", "in_progress"} /\ drafts = 0 /\ kept = TRUE
  /\ scanned = [verified |-> FALSE, refuted |-> FALSE]
  /\ atReview = None /\ ops = {} /\ cached = None /\ failed = FALSE /\ loads = <<>>
  /\ visited = FALSE
  /\ form = None /\ opened = 0 /\ overlapped = FALSE
  /\ panel = None /\ confirming = FALSE /\ clicks = 0 /\ faults = 0

Sent(kind, no) == [kind |-> kind, no |-> no, phase |-> "sent"]
Becomes(op, phase) == ops' = (ops \ {op}) \union {[op EXCEPT !.phase = phase]}

-----------------------------------------------------------------------------
(* The backend: a request is checked against the rows it reads, and commits  *)
(* later. A column it has not changed is not written.                        *)

Allowed(kind) ==
  \/ kind = "start" /\ stage = "scheduled"
  \/ kind \in {"submit", "add"} /\ stage = "in_progress"
  \/ kind = "delete" /\ stage = "in_progress" /\ kept
  \/ kind = "confirm" /\ stage = "in_progress" /\ ~scanned.verified /\ ~scanned.refuted
  \/ kind = "refute" /\ stage = "in_progress" /\ ~scanned.verified

Check(op) ==
  /\ op \in ops /\ op.phase = "sent"
  /\ Becomes(op, IF Allowed(op.kind) THEN "checked" ELSE "refused")
  /\ UNCHANGED <<record, detail, visited, dialogs, clicks, faults>>

Commit(op) ==
  /\ op \in ops /\ op.phase = "checked"
  /\ Becomes(op, "served")
  /\ stage' = CASE op.kind = "start" -> "in_progress"
                [] op.kind = "submit" -> "review"
                [] OTHER -> stage
  /\ drafts' = IF op.kind = "add" THEN drafts + 1 ELSE drafts
  /\ kept' = (kept /\ op.kind # "delete")
  /\ scanned' = CASE op.kind = "confirm" -> [scanned EXCEPT !.verified = TRUE]
                  [] op.kind = "refute" -> [scanned EXCEPT !.refuted = TRUE]
                  [] OTHER -> scanned
  /\ atReview' = IF op.kind = "submit" THEN findings ELSE atReview
  /\ overlapped' = (overlapped \/ (op.kind = "submit" /\ \E other \in ops \ {op} : other.phase = "checked"))
  /\ UNCHANGED <<detail, visited, dialogs, clicks, faults>>

-----------------------------------------------------------------------------
(* The data of the console.                                                  *)

Loading == loads # <<>>

\* Every render of a page without its engagement asks for it, also the render
\* that shows the error of the last request.
getEngagement ==
  /\ visited /\ cached = None /\ ~Loading
  /\ loads' = <<stage>>
  /\ UNCHANGED <<record, ops, cached, failed, visited, dialogs, clicks, faults>>

VisitEngagement ==
  /\ ~visited /\ Click
  /\ visited' = TRUE
  /\ UNCHANGED <<record, ops, detail, dialogs, faults>>

Others(i) == SubSeq(loads, 1, i - 1) \o SubSeq(loads, i + 1, Len(loads))

fetchEngagementDetail(i) ==
  /\ i \in 1..Len(loads)
  /\ cached' = loads[i] /\ failed' = FALSE /\ loads' = Others(i)
  /\ UNCHANGED <<record, ops, visited, dialogs, clicks, faults>>

\* An error stands in the place of the whole engagement, the form with what was
\* written in it included. What is there already is not asked for again.
ShowError ==
  /\ failed' = TRUE
  /\ panel' = None /\ confirming' = FALSE
  /\ form' = IF form = None THEN None ELSE EmptyForm
  /\ opened' = IF form = None THEN opened ELSE opened + 1

DetailFails(i) ==
  /\ i \in 1..Len(loads)
  /\ Fault
  /\ loads' = Others(i) /\ ShowError
  /\ UNCHANGED <<record, ops, cached, visited, clicks>>

-----------------------------------------------------------------------------
(* The header of the engagement; the window of the engagement is open.       *)

InFront == visited /\ cached # None /\ ~failed /\ form = None /\ panel = None

\* The buttons of the header are those of the status on display.
HeaderButtons(status) == InFront /\ cached = status

startEngagement ==
  /\ HeaderButtons("scheduled") /\ Click
  /\ ops' = ops \union {Sent("start", 0)}
  /\ UNCHANGED <<record, detail, visited, dialogs, faults>>

submitEngagementForReview ==
  /\ HeaderButtons("in_progress") /\ Click
  /\ ops' = ops \union {Sent("submit", 0)}
  /\ UNCHANGED <<record, detail, visited, dialogs, faults>>

\* The answer carries the new status; it is written over the one on display.
StatusAnswered(op) ==
  /\ op \in ops /\ op.kind \in {"start", "submit"} /\ op.phase = "served"
  /\ ops' = ops \ {op}
  /\ cached' = IF op.kind = "start" THEN "in_progress" ELSE "review"
  /\ UNCHANGED <<record, failed, loads, visited, dialogs, clicks, faults>>

\* A refusal, and a lost answer: a toast, and nothing else.
Refused(op) ==
  /\ op \in ops /\ op.kind # "add"
  /\ op.phase = "refused" \/ op.phase = "served"
  /\ IF op.phase = "served" THEN Fault ELSE UNCHANGED faults
  /\ ops' = ops \ {op}
  /\ UNCHANGED <<record, detail, visited, dialogs, clicks>>

-----------------------------------------------------------------------------
(* The panel of a finding.                                                   *)

OpenPanel(kind) ==
  /\ InFront /\ Click
  /\ panel' = kind /\ confirming' = FALSE
  /\ UNCHANGED <<record, ops, detail, visited, form, opened, faults>>

ClosePanel ==
  /\ panel # None
  /\ panel' = None /\ confirming' = FALSE
  /\ UNCHANGED <<record, ops, detail, visited, form, opened, clicks, faults>>

canDelete  == panel = "manual" /\ cached = "in_progress"
canConfirm == panel = "scan" /\ cached = "in_progress"

AskToDelete ==
  /\ canDelete /\ ~confirming
  /\ confirming' = TRUE
  /\ UNCHANGED <<record, ops, detail, visited, form, opened, panel, clicks, faults>>

KeepFinding ==
  /\ confirming /\ canDelete
  /\ confirming' = FALSE
  /\ UNCHANGED <<record, ops, detail, visited, form, opened, panel, clicks, faults>>

\* The panel closes at once, whatever the answer will be.
deleteFinding ==
  /\ confirming /\ canDelete /\ Click
  /\ ops' = ops \union {Sent("delete", 0)}
  /\ panel' = None /\ confirming' = FALSE
  /\ UNCHANGED <<record, detail, visited, form, opened, faults>>

\* The panel shows the detail it has loaded: the buttons stay after the answer.
Judge(kind) ==
  /\ canConfirm /\ Click
  /\ ops' = ops \union {Sent(kind, 0)}
  /\ UNCHANGED <<record, detail, visited, dialogs, faults>>

\* The engagement is loaded again; the list of findings and the panel are not.
ChangeAnswered(op) ==
  /\ op \in ops /\ op.kind \in {"delete", "confirm", "refute"} /\ op.phase = "served"
  /\ ops' = ops \ {op}
  /\ Len(loads) < 2 /\ loads' = Append(loads, stage)
  /\ UNCHANGED <<record, cached, failed, visited, dialogs, clicks, faults>>

-----------------------------------------------------------------------------
(* NewFindingModal.                                                          *)

OpenForm ==
  /\ HeaderButtons("in_progress") /\ Click
  /\ form' = EmptyForm /\ opened' = opened + 1
  /\ UNCHANGED <<record, ops, detail, visited, panel, confirming, faults>>

Writing == form # None /\ ~failed

Write ==
  /\ Writing /\ ~form.dirty
  /\ form' = [form EXCEPT !.dirty = TRUE]
  /\ UNCHANGED <<record, ops, detail, visited, opened, panel, confirming, clicks, faults>>

requestClose ==
  /\ Writing /\ ~form.saving /\ ~form.discard
  /\ form' = IF form.dirty THEN [form EXCEPT !.discard = TRUE] ELSE None
  /\ UNCHANGED <<record, ops, detail, visited, opened, panel, confirming, clicks, faults>>

KeepEditing ==
  /\ Writing /\ form.discard
  /\ form' = [form EXCEPT !.discard = FALSE]
  /\ UNCHANGED <<record, ops, detail, visited, opened, panel, confirming, clicks, faults>>

\* The button closes the form even when Ctrl+Enter has begun to save it.
Discard ==
  /\ Writing /\ form.discard
  /\ form' = None
  /\ UNCHANGED <<record, ops, detail, visited, opened, panel, confirming, clicks, faults>>

\* By the button, by Enter or by Ctrl+Enter, with a title and valid scores.
canSave == Writing /\ form.dirty /\ ~form.saving

save ==
  /\ canSave /\ Click
  /\ ops' = ops \union {Sent("add", form.no)}
  /\ form' = [form EXCEPT !.saving = TRUE]
  /\ UNCHANGED <<record, detail, visited, opened, panel, confirming, faults>>

\* Saved, and the engagement loaded again or not: onClose closes the form that
\* is open by then.
addFinding(op) ==
  /\ op \in ops /\ op.kind = "add" /\ op.phase = "served"
  /\ ops' = ops \ {op}
  /\ form' = None
  /\ \/ /\ cached' = stage /\ failed' = FALSE
        /\ UNCHANGED <<panel, confirming, faults>>
     \/ /\ Fault /\ failed' = TRUE
        /\ panel' = None /\ confirming' = FALSE /\ UNCHANGED cached
  /\ UNCHANGED <<record, loads, visited, opened, clicks>>

\* The error is shown in the form, which keeps what was written.
SaveFails(op) ==
  /\ op \in ops /\ op.kind = "add" /\ op.phase \in {"refused", "served"}
  /\ IF op.phase = "served" THEN Fault ELSE UNCHANGED faults
  /\ ops' = ops \ {op}
  /\ form' = IF form = None \/ form.no # op.no THEN form ELSE [form EXCEPT !.saving = FALSE]
  /\ UNCHANGED <<record, detail, visited, opened, panel, confirming, clicks>>

-----------------------------------------------------------------------------
Next ==
  \/ \E op \in ops : Check(op) \/ Commit(op) \/ StatusAnswered(op) \/ Refused(op)
                     \/ ChangeAnswered(op) \/ addFinding(op) \/ SaveFails(op)
  \/ VisitEngagement \/ getEngagement
  \/ \E i \in 1..2 : fetchEngagementDetail(i) \/ DetailFails(i)
  \/ startEngagement \/ submitEngagementForReview
  \/ \E kind \in {"manual", "scan"} : OpenPanel(kind)
  \/ ClosePanel \/ AskToDelete \/ KeepFinding \/ deleteFinding
  \/ \E kind \in {"confirm", "refute"} : Judge(kind)
  \/ OpenForm \/ Write \/ requestClose \/ KeepEditing \/ Discard \/ save

\* Rendering, and answers that arrive.
Fairness == WF_pcvars(getEngagement) /\ WF_pcvars(fetchEngagementDetail(1))

Spec == Init /\ [][Next]_pcvars
FairSpec == Spec /\ Fairness

-----------------------------------------------------------------------------
\* What is under review stays as it was submitted: a page that still shows the
\* engagement in progress changes nothing. Only a change the backend has
\* checked while the submission was being committed gets through.
FrozenInReview == stage = "review" => findings = atReview \/ overlapped

\* A form saves one finding, unless an answer was lost and it was saved again.
SavedOnce == drafts <= opened + faults

\* What was written into the form is lost by discarding it, at the end of a save,
\* be it the save of a form that was discarded before, or when the engagement
\* behind it can not be loaded again: with nothing else the user does.
KeepsFinding ==
  form # None /\ form.dirty /\ (form' = None \/ form'.no # form.no) =>
    \/ form.discard
    \/ failed' /\ ~failed
    \/ \E op \in ops : op.kind = "add" /\ op.phase = "served"
FindingIsKept == [][KeepsFinding]_pcvars

\* An engagement that was opened is loaded, however often a request fails.
Visited == visited
Cached == cached # None
EngagementIsShown == Visited ~> Cached
=============================================================================
