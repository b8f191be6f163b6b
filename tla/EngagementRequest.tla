-------------------------- MODULE EngagementRequest --------------------------
(* The form that requests a penetration test (engagement_request.tsx). On a   *)
(* phone it shows one stage at a time; the errors are worked out again at     *)
(* every rendering, and so is today's date.                                   *)
EXTENDS PageBounds

VARIABLES phone,     \* only the current stage is shown
          stage,     \* 0, 1 or 2
          engagementType, assessmentType, objective,  \* filled in or not
          contact,   \* the address given is one, or there is none
          startDate, endDate,  \* days; 0 if empty
          assets,    \* the assets declared
          today,     \* the calendar
          rendered,  \* minDate: the day of the last rendering
          submitting, \* "none", "sent" or "served"
          submitError,
          submitted, \* the confirmation is shown
          requests,  \* at the backend: how many requests there are
          presses    \* presses of the button of a form at rest that was complete

evars == <<phone, stage, engagementType, assessmentType, objective, contact, startDate, endDate,
           assets, today, rendered, submitting, submitError, submitted, requests, presses,
           clicks, faults>>
fields == <<engagementType, assessmentType, objective, contact, startDate, endDate, assets>>
sending == <<submitting, submitError, submitted, requests, presses>>

MIN_ENGAGEMENT_DAYS == 1   \* 3 in the code
Days == 1..3
LastDay == 3 + MIN_ENGAGEMENT_DAYS
Assets == {"domain", "address"}  \* one the user has verified, one typed

FieldKey == {"type", "assessment", "objective", "dates", "contact", "assets"}
STAGES == <<{"type"}, {"assessment", "objective", "dates", "contact"}, {"assets"}>>
stageOf(field) == (CHOOSE i \in DOMAIN STAGES : field \in STAGES[i]) - 1

TypeOK ==
  /\ stage \in 0..2 /\ contact \in BOOLEAN /\ assets \subseteq Assets
  /\ engagementType \in BOOLEAN /\ assessmentType \in BOOLEAN /\ objective \in BOOLEAN
  /\ startDate \in {0} \union Days /\ endDate \in 0..LastDay
  /\ submitting \in {"none", "sent", "served"} /\ (submitting # "none" => ~submitted)

Init ==
  /\ phone \in BOOLEAN
  /\ stage = 0 /\ engagementType = FALSE /\ assessmentType = FALSE /\ objective = FALSE
  /\ contact = TRUE /\ startDate = 0 /\ endDate = 0 /\ assets = {}
  /\ today = 1 /\ rendered = 1
  /\ submitting = "none" /\ submitError = FALSE /\ submitted = FALSE
  /\ requests = 0 /\ presses = 0
  /\ clicks = 0 /\ faults = 0

-----------------------------------------------------------------------------
(* What is wrong with the fields.                                            *)

startDateValid == startDate = 0 \/ startDate >= rendered
durationValid == startDate # 0 /\ endDate # 0 /\ endDate - startDate >= MIN_ENGAGEMENT_DAYS

missing ==
  {f \in FieldKey :
     \/ f = "type" /\ ~engagementType
     \/ f = "assessment" /\ ~assessmentType
     \/ f = "objective" /\ ~objective
     \/ f = "dates" /\ (startDate = 0 \/ ~startDateValid \/ ~durationValid)
     \/ f = "contact" /\ ~contact
     \/ f = "assets" /\ assets = {}}

canSubmit == missing = {}
stageDone(i) == STAGES[i + 1] \intersect missing = {}

\* The first missing one, in the order of the form.
FirstOf(set) == CHOOSE f \in set : \A g \in set : stageOf(f) <= stageOf(g)

\* A stage of the form can be worked on: always on a desktop.
Confirmed == submitted   \* the confirmation replaces the form
Reachable(i) == ~Confirmed /\ (phone => stage = i)
AssetDeclaration == Reachable(2)
Rerender == rendered' = today

\* Midnight passes with the form open.
NextDay ==
  /\ today < 2
  /\ today' = today + 1
  /\ UNCHANGED <<phone, stage, fields, rendered, sending, clicks, faults>>

-----------------------------------------------------------------------------
(* The fields.                                                               *)

ChooseType ==
  /\ Reachable(0)
  /\ engagementType' = TRUE
  /\ Rerender
  /\ UNCHANGED <<phone, stage, assessmentType, objective, contact, startDate, endDate, assets, today,
                 sending, clicks, faults>>

AnswerQuestions ==
  /\ Reachable(1)
  /\ \/ assessmentType' = TRUE /\ UNCHANGED <<objective, contact>>
     \/ objective' \in BOOLEAN /\ UNCHANGED <<assessmentType, contact>>
     \/ contact' \in BOOLEAN /\ UNCHANGED <<assessmentType, objective>>
  /\ Rerender
  /\ UNCHANGED <<phone, stage, engagementType, startDate, endDate, assets, today, sending, clicks,
                 faults>>

\* The end follows a start that comes too close to it.
handleStartDateChange ==
  /\ Reachable(1)
  /\ startDate' \in {0} \union Days
  /\ endDate' = IF startDate' # 0 /\ (endDate = 0 \/ endDate - startDate' < MIN_ENGAGEMENT_DAYS)
                  THEN startDate' + MIN_ENGAGEMENT_DAYS ELSE endDate
  /\ Rerender
  /\ UNCHANGED <<phone, stage, engagementType, assessmentType, objective, contact, assets, today,
                 sending, clicks, faults>>

EndDateChange ==
  /\ Reachable(1)
  /\ endDate' \in 0..LastDay
  /\ Rerender
  /\ UNCHANGED <<phone, stage, engagementType, assessmentType, objective, contact, startDate, assets,
                 today, sending, clicks, faults>>

\* handleAddAsset refuses an asset twice; the verified domains in scope are no
\* longer suggested.
handleAddAsset(a) ==
  /\ AssetDeclaration /\ a \notin assets
  /\ assets' = assets \union {a}
  /\ Rerender
  /\ UNCHANGED <<phone, stage, engagementType, assessmentType, objective, contact, startDate, endDate,
                 today, sending, clicks, faults>>

handleRemoveAsset(a) ==
  /\ AssetDeclaration /\ a \in assets
  /\ assets' = assets \ {a}
  /\ Rerender
  /\ UNCHANGED <<phone, stage, engagementType, assessmentType, objective, contact, startDate, endDate,
                 today, sending, clicks, faults>>

-----------------------------------------------------------------------------
(* Stages.                                                                   *)

\* On a phone one stage is shown, with the buttons that lead to the others.
StageButtons == phone /\ ~Confirmed

\* A slip: the next stage, whatever is missing.
handleNextAlways ==
  /\ StageButtons /\ stage < 2
  /\ stage' = stage + 1
  /\ Rerender
  /\ UNCHANGED <<phone, fields, today, sending, clicks, faults>>

handleNext ==
  /\ StageButtons /\ stage < 2
  /\ stage' = IF stageDone(stage) THEN stage + 1 ELSE stage
  /\ Rerender
  /\ UNCHANGED <<phone, fields, today, sending, clicks, faults>>

Back ==
  /\ StageButtons /\ stage > 0
  /\ stage' = stage - 1
  /\ Rerender
  /\ UNCHANGED <<phone, fields, today, sending, clicks, faults>>

\* The checklist under the last stage, with the button that submits.
Checklist == missing \ {"contact"}
LastStageShown == Reachable(2)

jumpTo(field) ==
  /\ LastStageShown
  /\ field \in Checklist
  /\ stage' = stageOf(field)
  /\ Rerender
  /\ UNCHANGED <<phone, fields, today, sending, clicks, faults>>

-----------------------------------------------------------------------------
(* Submission.                                                               *)

\* The answer of canSubmit is that of the last rendering, its date included.
handleSubmitClick ==
  /\ LastStageShown /\ submitting = "none"
  /\ Click
  /\ Rerender
  /\ IF canSubmit
       THEN /\ submitting' = "sent" /\ submitError' = FALSE /\ presses' = presses + 1
            /\ UNCHANGED stage
       ELSE stage' = stageOf(FirstOf(missing)) /\ UNCHANGED <<submitting, submitError, presses>>
  /\ UNCHANGED <<phone, fields, today, submitted, requests, faults>>

SubmissionServed ==
  /\ submitting = "sent"
  /\ submitting' = "served" /\ requests' = requests + 1
  /\ UNCHANGED <<phone, stage, fields, today, rendered, submitError, submitted, presses,
                 clicks, faults>>

SubmissionAnswered ==
  /\ submitting = "served"
  /\ submitting' = "none" /\ submitted' = TRUE
  /\ Rerender
  /\ UNCHANGED <<phone, stage, fields, today, submitError, requests, presses, clicks, faults>>

\* Refused, or the answer is lost: the form stays as it is.
SubmissionFails ==
  /\ submitting # "none"
  /\ Fault
  /\ submitting' = "none" /\ submitError' = TRUE
  /\ Rerender
  /\ UNCHANGED <<phone, stage, fields, today, submitted, requests, presses, clicks>>

resetForm ==
  /\ Confirmed
  /\ submitted' = FALSE /\ submitError' = FALSE /\ stage' = 0
  /\ engagementType' = FALSE /\ assessmentType' = FALSE /\ objective' = FALSE
  /\ contact' = TRUE /\ startDate' = 0 /\ endDate' = 0 /\ assets' = {}
  /\ Rerender
  /\ UNCHANGED <<phone, today, submitting, requests, presses, clicks, faults>>

Next ==
  \/ NextDay \/ ChooseType \/ AnswerQuestions \/ handleStartDateChange \/ EndDateChange
  \/ \E a \in Assets : handleAddAsset(a) \/ handleRemoveAsset(a)
  \/ handleNext \/ Back \/ \E f \in FieldKey : jumpTo(f)
  \/ handleSubmitClick \/ SubmissionServed \/ SubmissionAnswered \/ SubmissionFails \/ resetForm

Spec == Init /\ [][Next]_evars

-----------------------------------------------------------------------------
\* A phone hides what lies before the current stage, so nothing there may be
\* missing: a request that cannot be sent always says why in sight of the user.
\* Only midnight makes the dates wrong behind his back.
NothingMissingBehind ==
  phone /\ ~submitted => \A i \in 0..stage - 1 : stageDone(i) \/ (today = 2 /\ ~startDateValid)

\* A press sends one request, and no other is sent until its end is on display.
OneRequestPerPress == requests <= presses
=============================================================================
