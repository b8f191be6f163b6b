-------------------------- MODULE ScanPages_proofs --------------------------
(* Proofs about the pages of what is scanned, page by page: s1, s2, ... stand *)
(* for the variables of the page, in the order of its instance in Pages.      *)
EXTENDS Pages, FiniteSetTheorems, SequenceTheorems, TLAPS

-----------------------------------------------------------------------------
(* Starting a scan: s5 is the form, s7 the order that is sent, s8 the button   *)
(* that was pressed.                                                           *)

\* The form has its values, and what is ordered is what the button said.
OrdersAgree ==
  /\ s5 \in Pro!Forms
  /\ Pro!StartsWhatItSays

\* A form that was just opened.
LEMMA EmptyFormIsOne == Pro!EmptyForm \in Pro!Forms
BY DEF Pro!EmptyForm, Pro!Forms, Pro!ScanMode

\* Nothing is ordered at first.
LEMMA ProgressInit == Pro!Init => OrdersAgree
BY EmptyFormIsOne DEF Pro!Init, OrdersAgree, Pro!StartsWhatItSays

\* An order is made of what is on display when the button is pressed.
LEMMA OrdersStay == OrdersAgree /\ [Pro!Next]_Pro!wvars => OrdersAgree'
<1> SUFFICES ASSUME OrdersAgree, [Pro!Next]_Pro!wvars PROVE OrdersAgree'
  OBVIOUS
<1> USE DEF Pro!start
<1>1. ASSUME UNCHANGED <<s7, s8>>, s5' \in Pro!Forms PROVE OrdersAgree'
  BY <1>1 DEF OrdersAgree, Pro!StartsWhatItSays
<1>2. CASE \/ Pro!ScanRuns \/ Pro!IndexRuns \/ Pro!PostServed \/ Pro!Tick \/ UNCHANGED Pro!wvars
           \/ \E i \in 1..2 : Pro!poll(i) \/ Pro!PollFails(i)
  BY <1>1, <1>2 DEF Pro!ScanRuns, Pro!IndexRuns, Pro!PostServed, Pro!Tick, Pro!poll,
     Pro!PollFails, Pro!wvars, OrdersAgree
<1>3. CASE Pro!ScanModeCards
  BY <1>1, <1>3 DEF Pro!ScanModeCards, OrdersAgree, Pro!Forms
<1>4. CASE Pro!ChooseDomain
  BY <1>1, <1>4 DEF Pro!ChooseDomain, OrdersAgree, Pro!Forms, Pro!ScanMode
<1>5. CASE Pro!SwitchPanel
  BY <1>1, <1>5 DEF Pro!SwitchPanel, OrdersAgree, Pro!Forms
<1>6. CASE Pro!TypeDomain
  BY <1>1, <1>6 DEF Pro!TypeDomain, OrdersAgree, Pro!Forms
<1>7. CASE Pro!handleStart
  <2>1. PICK forMode \in Pro!StartButtons :
          /\ Pro!Target(forMode) # None
          /\ s7' = Pro!Order(forMode)
          /\ s8' = [mode |-> forMode, domain |-> IF s5.mode = "active" THEN s5.activeDomain
                                                ELSE "typed"]
    BY <1>7 DEF Pro!handleStart
  <2>2. s5' = s5
    BY <1>7 DEF Pro!handleStart
  <2>3. s5.mode \in Pro!ScanMode /\ forMode \in Pro!ScanMode
    BY DEF OrdersAgree, Pro!Forms, Pro!StartButtons, Pro!ScanMode
  <2>4. CASE s5.mode = "passive"
    <3>1. forMode = "passive" /\ Pro!Target(forMode) = "typed"
      BY <2>1, <2>4 DEF Pro!StartButtons, Pro!Target, Pro!domain
    <3> QED BY <2>1, <2>2, <2>4, <3>1 DEF OrdersAgree, Pro!StartsWhatItSays, Pro!Order
  <2>5. CASE s5.mode = "active"
    <3>1. Pro!Target(forMode) = s5.activeDomain
      BY <2>5 DEF Pro!Target, Pro!domain
    <3> QED BY <2>1, <2>2, <2>5, <3>1 DEF OrdersAgree, Pro!StartsWhatItSays, Pro!Order
  <2> QED BY <2>3, <2>4, <2>5 DEF Pro!ScanMode
<1>8. CASE Pro!PostAnswered \/ Pro!StartFails
  BY <1>8, EmptyFormIsOne DEF Pro!PostAnswered, Pro!StartFails, OrdersAgree, Pro!StartsWhatItSays
<1>9. CASE Pro!OpenRunning
  BY <1>1, <1>9, EmptyFormIsOne DEF Pro!OpenRunning
<1> QED
  BY <1>2, <1>3, <1>4, <1>5, <1>6, <1>7, <1>8, <1>9 DEF Pro!Next

\* A form that has started a scan is not there to start another, and a start that has
\* failed is counted.
StartsCovered ==
  /\ s1 \in Nat /\ s9 \in Nat
  /\ s6 \in {"none", "sent", "served"}
  /\ s11 => s6 = "none"
  /\ s1 <= s9 + 1
  /\ ~s11 /\ s6 # "served" => s1 <= s9

\* Nothing is started at first.
LEMMA StartsInit == Pro!Init => StartsCovered
BY DEF Pro!Init, StartsCovered

\* Every step keeps the count.
LEMMA StartsStep == StartsCovered /\ [Pro!Next]_Pro!wvars => StartsCovered'
<1> SUFFICES ASSUME StartsCovered, [Pro!Next]_Pro!wvars PROVE StartsCovered'
  OBVIOUS
<1> USE DEF StartsCovered, Pro!server, Pro!start, Pro!page
<1>1. ASSUME UNCHANGED <<s1, s9, s11, s6>> PROVE StartsCovered'
  BY <1>1
<1>2. CASE \/ Pro!ScanRuns \/ Pro!IndexRuns \/ Pro!Tick \/ UNCHANGED Pro!wvars
           \/ Pro!ScanModeCards \/ Pro!ChooseDomain \/ Pro!SwitchPanel \/ Pro!TypeDomain
  BY <1>1, <1>2 DEF Pro!ScanRuns, Pro!IndexRuns, Pro!Tick, Pro!ScanModeCards, Pro!ChooseDomain,
     Pro!SwitchPanel, Pro!TypeDomain, Pro!wvars
<1>3. CASE Pro!handleStart
  BY <1>3 DEF Pro!handleStart
<1>4. CASE Pro!PostServed \/ Pro!PostAnswered \/ Pro!OpenRunning
  BY <1>4 DEF Pro!PostServed, Pro!PostAnswered, Pro!OpenRunning
<1>5. CASE Pro!StartFails
  BY <1>5 DEF Pro!StartFails
<1>6. ASSUME NEW i \in 1..2, Pro!poll(i) \/ Pro!PollFails(i) PROVE StartsCovered'
  BY <1>1, <1>6 DEF Pro!poll, Pro!PollFails
<1> QED BY <1>1, <1>2, <1>3, <1>4, <1>5, <1>6 DEF Pro!Next

\* That is what OneScanPerStart says.
LEMMA StartsPromise == StartsCovered => Pro!OneScanPerStart
BY DEF StartsCovered, Pro!OneScanPerStart

\* One scan is started, and one more for each start that is said to have failed.
LEMMA StartedOnce == Pro!Spec => []Pro!OneScanPerStart
<1> QED BY StartsInit, StartsStep, StartsPromise, PTL DEF Pro!Spec

-----------------------------------------------------------------------------
(* Scheduled scans: s9 is the schedule whose buttons are off, s11 the form,    *)
(* s12 and s13 what is being submitted, s15 whether the form was opened while  *)
(* something was under way, s16 and s17 the dialog and the deletions.          *)

\* No form is open and nothing is deleted at first.
LEMMA SchedulesInit == Sch!Init => Sch!IInv
<1> SUFFICES ASSUME Sch!Init PROVE Sch!IInv
  OBVIOUS
<1>1. clicks = 0 /\ s16 = None /\ s17 = {} /\ s15 = FALSE /\ s12 = "none"
  BY DEF Sch!Init
<1> QED BY <1>1 DEF Sch!IInv, Sch!FormIsFollowed

\* What is deleted is a schedule; no form is for none.
LEMMA DeletionsAreOfIds == Sch!IInv => None # Sch!New /\ \A d \in s17 : d.id # None
BY NoneAssumption DEF Sch!IInv, Sch!Deletions, Sch!Ids, Sch!New

\* Every step keeps the invariant of SchedulesPage.
LEMMA SchedulesStepSound == ASSUME Sch!IInv, [Sch!Next]_Sch!svars PROVE Sch!IInv'
<1> USE DEF Sch!IInv, Sch!FormIsFollowed
<1>1. CASE UNCHANGED Sch!svars
  BY <1>1 DEF Sch!svars
<1>2. ASSUME NEW l \in s5, Sch!LoadServed(l) \/ Sch!LoadArrives(l) \/ Sch!LoadFails(l)
      PROVE Sch!IInv'
  BY <1>2 DEF Sch!LoadServed, Sch!LoadArrives, Sch!LoadFails, Sch!Finally, Sch!editor, Sch!dialog
<1>3. ASSUME \/ Sch!Refresh \/ (\E s \in Sch!Ids : Sch!toggleSchedule(s) \/ Sch!AskToDelete(s))
             \/ (\E t \in s10 : Sch!ToggleServed(t) \/ Sch!ToggleAnswered(t) \/ Sch!ToggleFails(t))
             \/ Sch!KeepSchedule
      PROVE Sch!IInv'
  <2>1. /\ UNCHANGED <<Sch!editor, s17>> /\ clicks' \in {clicks, clicks + 1}
        /\ s16' \in Sch!Ids \union {None}
    BY <1>3 DEF Sch!Refresh, Sch!toggleSchedule, Sch!AskToDelete, Sch!ToggleServed,
       Sch!ToggleAnswered, Sch!ToggleFails, Sch!KeepSchedule, Sch!Click, Sch!editor, Sch!dialog
  <2> QED BY <2>1 DEF Sch!editor
<1>4. CASE Sch!openCreateForm \/ \E s \in Sch!Ids : Sch!openEditForm(s)
  <2>1. /\ clicks' = clicks + 1 /\ UNCHANGED <<s12, s17, s16>>
        /\ s15' = (s12 \in {"sent", "served"} \/ s17 # {})
    BY <1>4 DEF Sch!openCreateForm, Sch!openEditForm, Sch!Reopens, Sch!Click, Sch!dialog
  <2>2. s15' \in BOOLEAN
    BY <2>1
  <2>3. ~s15' => s12 \notin {"sent", "served"} /\ s17 = {}
    BY <2>1
  <2> QED BY <2>1, <2>2, <2>3
<1>5. CASE Sch!closeForm
  <2>1. /\ clicks' = clicks + 1 /\ s11' = None
        /\ UNCHANGED <<s12, s13, s15, s17, s16>>
    BY <1>5 DEF Sch!closeForm, Sch!Click, Sch!dialog
  <2> QED BY <2>1, DeletionsAreOfIds
<1>6. CASE Sch!handleSubmit
  <2>1. /\ s13' = s11 /\ UNCHANGED <<s11, s17, s16, clicks>>
        /\ s15' = (s15 /\ s17 # {})
    BY <1>6 DEF Sch!handleSubmit, Sch!dialog
  <2>2. s15' \in BOOLEAN
    BY <2>1
  <2>3. ~s15' => ~s15 \/ s17 = {}
    BY <2>1
  <2> QED BY <2>1, <2>2, <2>3
<1>7. CASE Sch!SubmissionServed \/ Sch!SubmissionAnswered \/ Sch!SubmissionFails
  <2>1. /\ UNCHANGED <<s15, s17, s16, clicks>>
        /\ \/ s11' = s11 /\ s13' = s13 /\ s12 \in {"sent", "served"}
           \/ s11' \in {None, s11} /\ s12' \notin {"sent", "served"}
    BY <1>7 DEF Sch!SubmissionServed, Sch!SubmissionAnswered, Sch!SubmissionFails, Sch!dialog
  <2> QED BY <2>1, DeletionsAreOfIds
<1>8. CASE Sch!removeSchedule
  <2>1. PICK n \in 1..Sch!MaxDeletions :
          s17' = s17 \union
            {[no |-> n, id |-> s16, editing |-> s11 = s16, served |-> FALSE]}
    BY <1>8 DEF Sch!removeSchedule
  <2> DEFINE e == [no |-> n, id |-> s16, editing |-> s11 = s16, served |-> FALSE]
  <2>2. e \in Sch!Deletions /\ (e.editing <=> s11 = e.id)
    BY <1>8 DEF Sch!removeSchedule, Sch!DialogButtons, Sch!Deletions
  <2>3. s17' = s17 \union {e}
    BY <2>1
  <2>4. UNCHANGED <<Sch!editor, s16, clicks>>
    BY <1>8 DEF Sch!removeSchedule
  <2> HIDE DEF e
  <2> QED BY <2>2, <2>3, <2>4 DEF Sch!editor
<1>9. ASSUME NEW d \in s17, Sch!DeletionServed(d) PROVE Sch!IInv'
  <2> DEFINE e == [d EXCEPT !.served = TRUE]
  <2>1. e \in Sch!Deletions /\ e.id = d.id /\ e.editing = d.editing
    BY DEF Sch!Deletions
  <2>2. s17' = (s17 \ {d}) \union {e} /\ UNCHANGED <<Sch!editor, s16, clicks>>
    BY <1>9 DEF Sch!DeletionServed
  <2> HIDE DEF e
  <2> QED BY <2>1, <2>2 DEF Sch!editor
<1>10. ASSUME NEW d \in s17, Sch!DeletionAnswered(d) PROVE Sch!IInv'
  <2>1. /\ s17' = s17 \ {d} /\ s16' = None /\ s11' \in {None, s11}
        /\ UNCHANGED <<s12, s13, s15, clicks>>
    BY <1>10 DEF Sch!DeletionAnswered
  <2>2. \A e \in s17 : e.id \in Sch!Ids
    BY DEF Sch!Deletions
  <2> QED BY <2>1, <2>2, NoneAssumption DEF Sch!Ids
<1>11. ASSUME NEW d \in s17, Sch!DeletionFails(d) PROVE Sch!IInv'
  <2>1. s17' = s17 \ {d} /\ UNCHANGED <<Sch!editor, s16, clicks>>
    BY <1>11 DEF Sch!DeletionFails
  <2> QED BY <2>1 DEF Sch!editor
<1> QED BY <1>1, <1>2, <1>3, <1>4, <1>5, <1>6, <1>7, <1>8, <1>9, <1>10, <1>11 DEF Sch!Next

\* A form goes by a click, with its submission or with the deletion of its schedule.
LEMMA FormKept == ASSUME Sch!IInv, [Sch!Next]_Sch!svars PROVE Sch!KeepsForm
<1> SUFFICES ASSUME s11 # None, s11' = None, clicks' = clicks PROVE Sch!KeepsForm
  BY DEF Sch!KeepsForm
<1>1. CASE Sch!SubmissionAnswered
  BY <1>1 DEF Sch!SubmissionAnswered, Sch!IInv, Sch!FormIsFollowed, Sch!KeepsForm
<1>2. ASSUME NEW d \in s17, Sch!DeletionAnswered(d) PROVE Sch!KeepsForm
  <2>1. d.served /\ d.editing
    BY <1>2 DEF Sch!DeletionAnswered
  <2> QED BY <1>2, <2>1 DEF Sch!IInv, Sch!FormIsFollowed, Sch!KeepsForm
<1>3. ASSUME \/ UNCHANGED Sch!svars
             \/ \E l \in s5 : Sch!LoadServed(l) \/ Sch!LoadArrives(l) \/ Sch!LoadFails(l)
             \/ Sch!Refresh
             \/ \E s \in Sch!Ids :
                  Sch!toggleSchedule(s) \/ Sch!openEditForm(s) \/ Sch!AskToDelete(s)
             \/ \E t \in s10 : Sch!ToggleServed(t) \/ Sch!ToggleAnswered(t) \/ Sch!ToggleFails(t)
             \/ Sch!openCreateForm \/ Sch!closeForm \/ Sch!handleSubmit
             \/ Sch!SubmissionServed \/ Sch!SubmissionFails
             \/ Sch!KeepSchedule \/ Sch!removeSchedule
             \/ \E d \in s17 : Sch!DeletionServed(d) \/ Sch!DeletionFails(d)
      PROVE  s11' = s11 \/ clicks' = clicks + 1
  BY <1>3 DEF Sch!svars, Sch!LoadServed, Sch!LoadArrives, Sch!LoadFails, Sch!Refresh,
     Sch!toggleSchedule, Sch!openEditForm, Sch!AskToDelete, Sch!ToggleServed, Sch!ToggleAnswered,
     Sch!ToggleFails, Sch!openCreateForm, Sch!closeForm, Sch!handleSubmit, Sch!SubmissionServed,
     Sch!SubmissionFails, Sch!KeepSchedule, Sch!removeSchedule, Sch!DeletionServed,
     Sch!DeletionFails, Sch!editor, Sch!Click
<1>4. clicks' # clicks + 1
  BY DEF Sch!IInv
<1> QED BY <1>1, <1>2, <1>3, <1>4 DEF Sch!Next

\* The form of a schedule goes when its deletion is answered.
LEMMA FormDropped == ASSUME Sch!IInv, [Sch!Next]_Sch!svars PROVE Sch!DropsForm
<1> SUFFICES ASSUME ~s18', ~s15, NEW d \in s17, d \notin s17', d.served
             PROVE  s11' # d.id
  BY DEF Sch!DropsForm
<1>1. d.id \in Sch!Ids
  BY DEF Sch!IInv, Sch!Deletions
<1>2. ASSUME NEW e \in s17, Sch!DeletionAnswered(e) PROVE s11' # d.id
  <2>1. e = d
    BY <1>2 DEF Sch!DeletionAnswered
  <2>2. CASE d.editing
    BY <1>1, <1>2, <2>1, <2>2, NoneAssumption DEF Sch!DeletionAnswered, Sch!Ids
  <2>3. CASE ~d.editing
    BY <1>2, <2>1, <2>3 DEF Sch!DeletionAnswered, Sch!IInv, Sch!FormIsFollowed
  <2> QED BY <2>2, <2>3
<1>3. ASSUME NEW e \in s17, Sch!DeletionServed(e) \/ Sch!DeletionFails(e) PROVE FALSE
  BY <1>3 DEF Sch!DeletionServed, Sch!DeletionFails
<1>4. ASSUME \/ UNCHANGED Sch!svars
             \/ \E l \in s5 : Sch!LoadServed(l) \/ Sch!LoadArrives(l) \/ Sch!LoadFails(l)
             \/ Sch!Refresh
             \/ \E s \in Sch!Ids :
                  Sch!toggleSchedule(s) \/ Sch!openEditForm(s) \/ Sch!AskToDelete(s)
             \/ \E t \in s10 : Sch!ToggleServed(t) \/ Sch!ToggleAnswered(t) \/ Sch!ToggleFails(t)
             \/ Sch!openCreateForm \/ Sch!closeForm \/ Sch!handleSubmit
             \/ Sch!SubmissionServed \/ Sch!SubmissionAnswered \/ Sch!SubmissionFails
             \/ Sch!KeepSchedule \/ Sch!removeSchedule
      PROVE  s17 \subseteq s17'
  BY <1>4 DEF Sch!svars, Sch!LoadServed, Sch!LoadArrives, Sch!LoadFails, Sch!Refresh,
     Sch!toggleSchedule, Sch!openEditForm, Sch!AskToDelete, Sch!ToggleServed, Sch!ToggleAnswered,
     Sch!ToggleFails, Sch!openCreateForm, Sch!closeForm, Sch!handleSubmit, Sch!SubmissionServed,
     Sch!SubmissionAnswered, Sch!SubmissionFails, Sch!KeepSchedule, Sch!removeSchedule, Sch!dialog
<1> QED BY <1>2, <1>3, <1>4 DEF Sch!Next

-----------------------------------------------------------------------------
(* Brand monitoring: s3 is the candidate at the backend, s10 the decision that *)
(* is being saved.                                                             *)

\* No candidate is decided at first.
LEMMA BrandInit == Bra!Init => Bra!IInv
<1> SUFFICES ASSUME Bra!Init PROVE Bra!IInv
  OBVIOUS
<1>1. PICK known \in BOOLEAN :
        s3 = [found |-> known, decision |-> "new", last |-> IF known THEN 1 ELSE 0]
  BY DEF Bra!Init
<1>2. s10 = None
  BY DEF Bra!Init
<1> QED BY <1>1, <1>2 DEF Bra!IInv, Bra!Decisions

\* What a step makes of the candidate: a run leaves the decision as it is.
LEMMA DecisionStep ==
  ASSUME Bra!IInv, [Bra!Next]_Bra!bvars
  PROVE  /\ s3' \in [found : BOOLEAN, decision : Bra!Decisions, last : Nat]
         /\ \/ s3'.decision = s3.decision
            \/ s10 # None /\ s3'.decision = s10.choice
<1>1. ASSUME NEW no \in 1..Bra!MaxRuns, Bra!ingest_worker_results(no)
      PROVE  /\ s3' \in [found : BOOLEAN, decision : Bra!Decisions, last : Nat]
             /\ s3'.decision = s3.decision
  <2>1. s3 \in [found : BOOLEAN, decision : Bra!Decisions, last : Nat]
    BY DEF Bra!IInv
  <2>2. CASE s3' = [s3 EXCEPT !.found = TRUE]
    BY <2>1, <2>2
  <2>3. CASE s3' = [s3 EXCEPT !.last = @ + 1]
    BY <2>1, <2>3
  <2> QED BY <1>1, <2>2, <2>3 DEF Bra!ingest_worker_results, Bra!upsert_candidates
<1>2. CASE Bra!update_candidate_status
  <2>1. s3' = [s3 EXCEPT !.decision = s10.choice] /\ s10 # None
    BY <1>2 DEF Bra!update_candidate_status
  <2>2. s10.choice \in Bra!Decisions
    BY <2>1 DEF Bra!IInv
  <2>3. s3 \in [found : BOOLEAN, decision : Bra!Decisions, last : Nat]
    BY DEF Bra!IInv
  <2> QED BY <2>1, <2>2, <2>3
<1>3. CASE \/ UNCHANGED Bra!bvars \/ \E no \in 1..Bra!MaxRuns : Bra!RunFails(no)
           \/ Bra!MonitoringLoaded \/ Bra!LoadFails \/ Bra!Refresh
           \/ Bra!handle_trigger_monitoring \/ Bra!RunQueued \/ Bra!TriggerFails
           \/ Bra!Poll \/ Bra!PollArrives \/ Bra!PollFails \/ Bra!WaitingTimesOut
           \/ \E choice \in Bra!Decisions \ {"new"} : Bra!handle_status_update(choice)
           \/ Bra!DecisionSaved \/ Bra!DecisionFails
  <2>1. s3' = s3
    BY <1>3 DEF Bra!bvars, Bra!server, Bra!RunFails, Bra!MonitoringLoaded, Bra!LoadFails,
       Bra!Refresh, Bra!handle_trigger_monitoring, Bra!RunQueued, Bra!TriggerFails, Bra!Poll,
       Bra!PollArrives, Bra!PollFails, Bra!WaitingTimesOut, Bra!handle_status_update,
       Bra!DecisionSaved, Bra!DecisionFails
  <2> QED BY <2>1 DEF Bra!IInv
<1> QED BY <1>1, <1>2, <1>3 DEF Bra!Next

\* Every step keeps the invariant of BrandMonitoring.
LEMMA BrandStepSound == ASSUME Bra!IInv, [Bra!Next]_Bra!bvars PROVE Bra!IInv'
<1> DEFINE Savings == {None} \union [choice : Bra!Decisions \ {"new"}, served : BOOLEAN]
<1> SUFFICES s10' \in Savings
  BY DecisionStep DEF Bra!IInv
<1>1. CASE Bra!update_candidate_status
  <2>1. s10 \in [choice : Bra!Decisions \ {"new"}, served : BOOLEAN]
    BY <1>1 DEF Bra!update_candidate_status, Bra!IInv
  <2>2. s10' = [s10 EXCEPT !.served = TRUE]
    BY <1>1 DEF Bra!update_candidate_status
  <2> QED BY <2>1, <2>2
<1>2. CASE Bra!DecisionSaved \/ Bra!DecisionFails
  BY <1>2 DEF Bra!DecisionSaved, Bra!DecisionFails
<1>3. ASSUME NEW choice \in Bra!Decisions \ {"new"}, Bra!handle_status_update(choice)
      PROVE s10' \in Savings
  BY <1>3 DEF Bra!handle_status_update
<1>4. CASE \/ UNCHANGED Bra!bvars
           \/ \E no \in 1..Bra!MaxRuns : Bra!ingest_worker_results(no) \/ Bra!RunFails(no)
           \/ Bra!MonitoringLoaded \/ Bra!LoadFails \/ Bra!Refresh
           \/ Bra!handle_trigger_monitoring \/ Bra!RunQueued \/ Bra!TriggerFails
           \/ Bra!Poll \/ Bra!PollArrives \/ Bra!PollFails \/ Bra!WaitingTimesOut
  <2>1. s10' = s10
    BY <1>4 DEF Bra!bvars, Bra!review, Bra!page, Bra!server, Bra!ingest_worker_results,
       Bra!RunFails, Bra!MonitoringLoaded, Bra!LoadFails, Bra!Refresh,
       Bra!handle_trigger_monitoring, Bra!RunQueued, Bra!TriggerFails, Bra!Poll, Bra!PollArrives,
       Bra!PollFails, Bra!WaitingTimesOut
  <2> QED BY <2>1 DEF Bra!IInv
<1> QED BY <1>1, <1>2, <1>3, <1>4 DEF Bra!Next

\* A decision is changed by the user only.
LEMMA DecisionKept == ASSUME Bra!IInv, [Bra!Next]_Bra!bvars PROVE Bra!KeepsDecision
BY DecisionStep DEF Bra!IInv, Bra!KeepsDecision

-----------------------------------------------------------------------------
(* The graph of a scan: s2 is how far the scan is, s4 the polls, s7 the nodes  *)
(* on display, s9 the rows that are folded, s11 and s12 the node of the link.  *)

\* A function on 1..n is a sequence.
LEMMA FunctionsAreSequences == \A S, n : n \in Nat => [1..n -> S] \subseteq Seq(S)
OBVIOUS

\* Every node is one.
LEMMA NodesAreKnown == ASSUME NEW n \in 0..Gra!Last PROVE None \notin Gra!Known(n)
<1>1. \A i \in 1..n : None \notin Gra!Brings[i]
  BY NoneAssumption DEF Gra!Last, Gra!Brings
<1> QED BY <1>1, NoneAssumption DEF Gra!Known, Gra!Domain, Gra!Subdomain

\* At first nobody asks.
LEMMA GraphInit == Gra!Init => Gra!IInv
BY DEF Gra!Init, Gra!IInv, Gra!Last, Gra!Brings

\* Every step keeps the invariant of ScanGraph.
LEMMA GraphStepSound == ASSUME Gra!IInv, [Gra!Next]_Gra!gvars PROVE Gra!IInv'
<1> DEFINE Poll == [status : {None} \union 0..Gra!Last, graph : {None} \union 0..Gra!Last]
<1>0. Gra!Last = 2 /\ s2 \in 0..Gra!Last /\ s4 \in Seq(Poll)
  BY DEF Gra!Last, Gra!Brings, Gra!IInv
<1>1. CASE Gra!ScanGoesOn
  BY <1>0, <1>1 DEF Gra!ScanGoesOn, Gra!Running, Gra!IInv
<1>2. CASE Gra!poll
  <2>1. [status |-> None, graph |-> None] \in Poll
    OBVIOUS
  <2>2. s2' = s2 /\ s4' = Append(s4, [status |-> None, graph |-> None])
    BY <1>2 DEF Gra!poll, Gra!rest
  <2> HIDE DEF Poll
  <2>3. s4' \in Seq(Poll)
    BY <1>0, <2>1, <2>2
  <2> QED BY <1>0, <2>2, <2>3 DEF Gra!IInv, Poll
<1>3. CASE Gra!Served
  <2>1. PICK i \in 1..Len(s4), part \in {"status", "graph"} :
          s4' = [s4 EXCEPT ![i][part] = s2]
    BY <1>3 DEF Gra!Served
  <2> HIDE DEF Poll
  <2>2. s4[i] \in Poll
    BY <1>0
  <2> USE DEF Poll
  <2>3. [s4[i] EXCEPT ![part] = s2] \in Poll
    BY <1>0, <2>2
  <2>4. s4' = [s4 EXCEPT ![i] = [s4[i] EXCEPT ![part] = s2]]
    BY <2>1
  <2>5. s2' = s2
    BY <1>3 DEF Gra!Served, Gra!rest
  <2> HIDE DEF Poll
  <2>6. s4' \in Seq(Poll)
    BY <1>0, <2>3, <2>4
  <2> QED BY <1>0, <2>5, <2>6 DEF Gra!IInv, Poll
<1>4. ASSUME NEW i \in 1..Len(s4), s4' = Gra!Without(i), s2' = s2 PROVE Gra!IInv'
  <2> HIDE DEF Poll
  <2>1. Gra!Without(i) \in Seq(Poll)
    <3>1. Gra!Without(i) \in [1..(Len(s4) - 1) -> Poll]
      BY <1>0 DEF Gra!Without
    <3>2. Len(s4) - 1 \in Nat
      BY <1>0
    <3> QED BY <3>1, <3>2, FunctionsAreSequences
  <2> QED BY <1>0, <1>4, <2>1 DEF Gra!IInv, Poll
<1>5. CASE Gra!PollArrives \/ Gra!PollFails
  BY <1>4, <1>5 DEF Gra!PollArrives, Gra!PollFails, Gra!rest
<1>6. CASE \/ UNCHANGED Gra!gvars \/ Gra!toggleRow \/ Gra!ToggleAll \/ Gra!OpenPanel
           \/ Gra!ClosePanel \/ Gra!ShowOnGraph \/ Gra!HotSpotPills
  BY <1>6 DEF Gra!gvars, Gra!rest, Gra!toggleRow, Gra!ToggleAll, Gra!OpenPanel, Gra!ClosePanel,
     Gra!ShowOnGraph, Gra!HotSpotPills, Gra!IInv
<1> QED BY <1>1, <1>2, <1>3, <1>5, <1>6 DEF Gra!Next

\* The answer with the node of the link opens its row.
LEMMA RowIsOpened == ASSUME Gra!IInv, [Gra!Next]_Gra!gvars PROVE Gra!OpensTheRow
<1> SUFFICES ASSUME s12', ~s12 PROVE Gra!RowOf(s11, s7') \intersect s9' = {}
  BY DEF Gra!OpensTheRow
<1>1. CASE Gra!PollArrives
  <2>1. PICK i \in 1..Len(s4) :
          LET p == s4[i]
              nodes == Gra!Known(p.graph)
              over == Gra!Terminal(p.status)
              folded == IF over /\ ~s10 THEN Gra!WithoutFindings(nodes) ELSE s9
          IN /\ None \notin {p.status, p.graph}
             /\ s7' = nodes /\ s9' = Gra!Followed(folded, nodes)
             /\ s12' = (s12 \/ s11 \in nodes)
    BY <1>1 DEF Gra!PollArrives
  <2> DEFINE nodes == Gra!Known(s4[i].graph)
             folded == IF Gra!Terminal(s4[i].status) /\ ~s10 THEN Gra!WithoutFindings(nodes)
                       ELSE s9
  <2>2. s7' = nodes /\ s9' = Gra!Followed(folded, nodes) /\ s11 \in nodes
    BY <2>1
  <2>3. s4[i].graph \in 0..Gra!Last
    <3> DEFINE Poll == [status : {None} \union 0..Gra!Last, graph : {None} \union 0..Gra!Last]
    <3>1. s4 \in Seq(Poll)
      BY DEF Gra!IInv
    <3> HIDE DEF Poll
    <3>2. s4[i] \in Poll
      BY <3>1
    <3> QED BY <2>1, <3>2 DEF Poll
  <2>4. s11 # None
    BY <2>2, <2>3, NodesAreKnown
  <2> HIDE DEF nodes, folded
  <2> QED BY <2>2, <2>4 DEF Gra!Followed
<1>2. ASSUME \/ UNCHANGED Gra!gvars \/ Gra!ScanGoesOn \/ Gra!poll \/ Gra!Served \/ Gra!PollFails
             \/ Gra!toggleRow \/ Gra!ToggleAll \/ Gra!OpenPanel \/ Gra!ClosePanel
             \/ Gra!ShowOnGraph \/ Gra!HotSpotPills
      PROVE s12' = s12
  BY <1>2 DEF Gra!gvars, Gra!ScanGoesOn, Gra!poll, Gra!Served, Gra!PollFails, Gra!toggleRow,
     Gra!ToggleAll, Gra!OpenPanel, Gra!ClosePanel, Gra!ShowOnGraph, Gra!HotSpotPills
<1> QED BY <1>1, <1>2 DEF Gra!Next

-----------------------------------------------------------------------------
(* The list of the domains: s1 is what the backend knows of them, s2 to s4 the *)
(* view, s5 the rows on display, s7 and s8 the requests for them, s9 whether   *)
(* one is under way, s11 the view of the rows, s13, s16 and s18 what else is   *)
(* under way, s20 whether a handler has loaded the list for another view.      *)

\* The place of a domain in the list of a view: how many of the list are as young.
Place(v, n) == Dom!Cardinality({e \in Dom!Names : Dom!Matches(e, v) /\ e >= n})

\* The rows are of the list of v, in its order, none further up than it is there.
RowsFit(v) ==
  /\ \A i \in 1..Len(s5) : Place(v, s5[i].name) <= i
  /\ \A i, j \in 1..Len(s5) : i < j => s5[j].name < s5[i].name

\* A view, a row and the youngest request.
DomainViews == [tab : Dom!Tabs, search : BOOLEAN]
ListRows == [name : Dom!Names, status : Dom!Statuses]
Requested(f) == f.id = s8

\* What is on its way, of which the youngest counts.
ListTyped ==
  /\ s8 \in Nat /\ faults \in Nat /\ s5 \in Seq(ListRows)
  /\ s1 \in [Dom!Names -> Dom!Statuses \union {"absent"}]
  /\ Dom!View \in DomainViews /\ s3 \in BOOLEAN
  /\ \A f \in s7 : f.id \in Nat /\ f.id <= s8 /\ f.view \in DomainViews /\ f.offset \in Nat
                        /\ (~f.append => f.offset = 0)
  /\ \A f, g \in s7 : f.id = g.id => f = g
  /\ s9 <=> \E f \in s7 : Requested(f)

\* Neither a handler of another view, an addition, a verification nor a fault has come in
\* between.
Undisturbed == ~s20 /\ ~Dom!JoinUnheard /\ faults = 0

\* The youngest request is for the view on display, and one that appends starts where
\* the rows end.
PagesFit ==
  Undisturbed =>
    /\ ~s9 => s11 = Dom!View /\ RowsFit(Dom!View)
    /\ \A f \in s7 : Requested(f) =>
         /\ f.view = Dom!View
         /\ f.append => f.offset = Len(s5) /\ s11 = Dom!View /\ RowsFit(Dom!View)

ListInv == ListTyped /\ PagesFit

\* How many of three there are.
LEMMA CountOfNames ==
  ASSUME NEW set \in SUBSET Dom!Names
  PROVE  Dom!Cardinality(set) = (IF 1 \in set THEN 1 ELSE 0) + (IF 2 \in set THEN 1 ELSE 0)
                            + (IF 3 \in set THEN 1 ELSE 0)
<1> DEFINE one == set \intersect {1}
           two == set \intersect {1, 2}
<1>0. \A x \in set : x \in {1, 2, 3}
  BY DEF Dom!Names
<1>1. IsFiniteSet(one) /\ Cardinality(one) = IF 1 \in set THEN 1 ELSE 0
  <2>1. CASE 1 \in set
    <3>1. one = {1}
      BY <2>1
    <3> QED BY <2>1, <3>1, FS_Singleton
  <2>2. CASE 1 \notin set
    <3>1. one = {}
      BY <2>2
    <3> QED BY <2>2, <3>1, FS_EmptySet
  <2> QED BY <2>1, <2>2
<1>2. IsFiniteSet(two) /\ Cardinality(two) = Cardinality(one) + IF 2 \in set THEN 1 ELSE 0
  <2>1. CASE 2 \in set
    <3>1. two = one \union {2} /\ 2 \notin one
      BY <2>1
    <3> HIDE DEF one, two
    <3> QED BY <1>1, <2>1, <3>1, FS_AddElement
  <2>2. CASE 2 \notin set
    <3>1. two = one
      BY <2>2
    <3>2. Cardinality(one) \in Nat
      BY <1>1
    <3> HIDE DEF one, two
    <3> QED BY <1>1, <2>2, <3>1, <3>2
  <2> QED BY <2>1, <2>2
<1>3. IsFiniteSet(set) /\ Cardinality(set) = Cardinality(two) + IF 3 \in set THEN 1 ELSE 0
  <2>1. CASE 3 \in set
    <3>1. set = two \union {3} /\ 3 \notin two
      BY <1>0, <2>1
    <3> HIDE DEF one, two
    <3> QED BY <1>2, <2>1, <3>1, FS_AddElement
  <2>2. CASE 3 \notin set
    <3>1. set = two
      BY <1>0, <2>2
    <3>2. Cardinality(two) \in Nat
      BY <1>1, <1>2
    <3> HIDE DEF one, two
    <3> QED BY <1>2, <2>2, <3>1, <3>2
  <2> QED BY <2>1, <2>2
<1> HIDE DEF one, two
<1>4. Dom!Cardinality(set) = Cardinality(set)
  BY DEF Cardinality, Dom!Cardinality
<1> QED BY <1>1, <1>2, <1>3, <1>4

\* So the place of a domain is a number, of those of the list that are not older.
LEMMA PlaceIs ==
  ASSUME NEW v, NEW n \in Dom!Names
  PROVE  /\ Place(v, n) = (IF Dom!Matches(1, v) /\ n <= 1 THEN 1 ELSE 0)
                          + (IF Dom!Matches(2, v) /\ n <= 2 THEN 1 ELSE 0)
                          + (IF Dom!Matches(3, v) /\ n <= 3 THEN 1 ELSE 0)
         /\ Place(v, n) \in Nat
<1> DEFINE set == {e \in Dom!Names : Dom!Matches(e, v) /\ e >= n}
<1>1. set \in SUBSET Dom!Names
  OBVIOUS
<1>2. /\ 1 \in set <=> Dom!Matches(1, v) /\ n <= 1
      /\ 2 \in set <=> Dom!Matches(2, v) /\ n <= 2
      /\ 3 \in set <=> Dom!Matches(3, v) /\ n <= 3
  BY DEF Dom!Names
<1> HIDE DEF set
<1>3. Dom!Cardinality(set) = (IF 1 \in set THEN 1 ELSE 0) + (IF 2 \in set THEN 1 ELSE 0)
                         + (IF 3 \in set THEN 1 ELSE 0)
  BY <1>1, CountOfNames
<1>4. Place(v, n) = Dom!Cardinality(set)
  BY DEF Place, set
<1> QED BY <1>2, <1>3, <1>4

\* Who stands further down has at least as high a place.
LEMMA PlacesDescend ==
  ASSUME NEW v, NEW n \in Dom!Names, NEW m \in Dom!Names, n >= m PROVE Place(v, n) <= Place(v, m)
<1>1. n \in {1, 2, 3} /\ m \in {1, 2, 3}
  BY DEF Dom!Names
<1> QED BY <1>1, PlaceIs

\* The list of a view has every domain at its place.
LEMMA ListedAtPlace ==
  ASSUME NEW v, s1 \in [Dom!Names -> Dom!Statuses \union {"absent"}]
  PROVE  /\ Dom!Listed(v) \in Seq(ListRows)
         /\ \A i \in 1..Len(Dom!Listed(v)) : Place(v, Dom!Listed(v)[i].name) = i
<1> DEFINE wanted == {d \in Dom!Names : Dom!Matches(d, v)}
           Older(d) == {e \in wanted : e > d}
           Rank(d) == Dom!Cardinality(Older(d)) + 1
           has(i) == CHOOSE d \in wanted : Rank(d) = i
<1>1. Dom!Listed(v) = [i \in 1..Dom!Cardinality(wanted) |->
                         [name |-> has(i), status |-> s1[has(i)]]]
  BY DEF Dom!Listed
<1>2. Dom!Cardinality(wanted) = (IF Dom!Matches(1, v) THEN 1 ELSE 0)
                                + (IF Dom!Matches(2, v) THEN 1 ELSE 0)
                            + (IF Dom!Matches(3, v) THEN 1 ELSE 0)
  <2>1. wanted \in SUBSET Dom!Names
    OBVIOUS
  <2>2. (1 \in wanted <=> Dom!Matches(1, v)) /\ (2 \in wanted <=> Dom!Matches(2, v))
        /\ (3 \in wanted <=> Dom!Matches(3, v))
    BY DEF Dom!Names
  <2> HIDE DEF wanted
  <2> QED BY <2>1, <2>2, CountOfNames
<1>3. ASSUME NEW d \in Dom!Names
      PROVE  Rank(d) = (IF Dom!Matches(1, v) /\ d < 1 THEN 1 ELSE 0)
                       + (IF Dom!Matches(2, v) /\ d < 2 THEN 1 ELSE 0)
                       + (IF Dom!Matches(3, v) /\ d < 3 THEN 1 ELSE 0) + 1
  <2>1. Older(d) \in SUBSET Dom!Names
    OBVIOUS
  <2>2. /\ 1 \in Older(d) <=> Dom!Matches(1, v) /\ d < 1
        /\ 2 \in Older(d) <=> Dom!Matches(2, v) /\ d < 2
        /\ 3 \in Older(d) <=> Dom!Matches(3, v) /\ d < 3
    BY DEF Dom!Names
  <2> DEFINE set == Older(d)
  <2>3. Dom!Cardinality(set) = (IF 1 \in set THEN 1 ELSE 0) + (IF 2 \in set THEN 1 ELSE 0)
                           + (IF 3 \in set THEN 1 ELSE 0)
    BY <2>1, CountOfNames
  <2> QED BY <2>2, <2>3
<1>4. ASSUME NEW i \in 1..Dom!Cardinality(wanted) PROVE has(i) \in wanted /\ Rank(has(i)) = i
  <2>1. \E d \in wanted : Rank(d) = i
    <3> HIDE DEF Rank
    <3>1. /\ Rank(1) = (IF Dom!Matches(2, v) THEN 1 ELSE 0)
                       + (IF Dom!Matches(3, v) THEN 1 ELSE 0) + 1
          /\ Rank(2) = (IF Dom!Matches(3, v) THEN 1 ELSE 0) + 1
          /\ Rank(3) = 1
      BY <1>3 DEF Dom!Names
    <3>2. i \in {1, 2, 3} /\ i <= Dom!Cardinality(wanted)
      BY <1>2
    <3>3. (1 \in wanted <=> Dom!Matches(1, v)) /\ (2 \in wanted <=> Dom!Matches(2, v))
          /\ (3 \in wanted <=> Dom!Matches(3, v))
      BY DEF Dom!Names
    <3> HIDE DEF wanted
    <3> QED BY <1>2, <3>1, <3>2, <3>3
  <2> HIDE DEF Rank, wanted
  <2> QED BY <2>1
<1>5. ASSUME NEW d \in wanted PROVE Place(v, d) = Rank(d)
  <2>1. d \in {1, 2, 3} /\ Dom!Matches(d, v)
    BY DEF Dom!Names
  <2> HIDE DEF Rank
  <2> QED BY <1>3, <2>1, PlaceIs DEF Dom!Names
<1>6. Dom!Cardinality(wanted) \in Nat
  BY <1>2
<1>7. \A i \in 1..Dom!Cardinality(wanted) :
        has(i) \in Dom!Names /\ s1[has(i)] # "absent" /\ Place(v, has(i)) = i
  BY <1>4, <1>5 DEF Dom!Matches
<1> HIDE DEF wanted, has
<1>8. /\ Len(Dom!Listed(v)) = Dom!Cardinality(wanted)
      /\ \A i \in 1..Dom!Cardinality(wanted) : Dom!Listed(v)[i].name = has(i)
  BY <1>1, <1>6
<1>9. Dom!Listed(v) \in Seq(ListRows)
  <2> DEFINE row(i) == [name |-> has(i), status |-> s1[has(i)]]
  <2>1. \A i \in 1..Dom!Cardinality(wanted) : row(i) \in ListRows
    BY <1>7 DEF ListRows
  <2>2. Dom!Listed(v) = [i \in 1..Dom!Cardinality(wanted) |-> row(i)]
    BY <1>1
  <2> HIDE DEF row
  <2> QED BY <1>6, <2>1, <2>2
<1> QED BY <1>7, <1>8, <1>9

\* A page has the row that stands behind the offset, or none.
LEMMA PageIs ==
  ASSUME NEW v, NEW offset \in Nat, s1 \in [Dom!Names -> Dom!Statuses \union {"absent"}]
  PROVE  /\ Dom!Page(v, offset) \in Seq(ListRows)
         /\ Len(Dom!Page(v, offset)) <= 1
         /\ Len(Dom!Page(v, offset)) = 1 => Place(v, Dom!Page(v, offset)[1].name) = offset + 1
<1> DEFINE listed == Dom!Listed(v)
<1>1. listed \in Seq(ListRows) /\ Len(listed) \in Nat
      /\ \A i \in 1..Len(listed) : Place(v, listed[i].name) = i
  BY ListedAtPlace
<1> HIDE DEF listed
<1>2. CASE Len(listed) < offset + 1
  <2>1. Dom!Page(v, offset) = SubSeq(listed, offset + 1, Len(listed))
    BY <1>2 DEF Dom!Page, Dom!PAGE_SIZE, listed
  <2> QED BY <1>1, <1>2, <2>1
<1>3. CASE Len(listed) >= offset + 1
  <2>1. Dom!Page(v, offset) = SubSeq(listed, offset + 1, offset + 1)
    BY <1>1, <1>3 DEF Dom!Page, Dom!PAGE_SIZE, listed
  <2>2. /\ Dom!Page(v, offset) \in Seq(ListRows) /\ Len(Dom!Page(v, offset)) = 1
        /\ Dom!Page(v, offset)[1] = listed[offset + 1]
    BY <1>1, <1>3, <2>1
  <2> QED BY <1>1, <1>3, <2>2
<1> QED BY <1>1, <1>2, <1>3

\* While the domains of a list become fewer, those that stay move up.
LEMMA PlacesMoveUp ==
  ASSUME NEW v, \A e \in Dom!Names : Dom!Matches(e, v)' => Dom!Matches(e, v)
  PROVE  \A n \in Dom!Names : Place(v, n)' \in Nat /\ Place(v, n)' <= Place(v, n)
<1>1. TAKE n \in Dom!Names
<1>2. Place(v, n)' = (IF Dom!Matches(1, v)' /\ n <= 1 THEN 1 ELSE 0)
                     + (IF Dom!Matches(2, v)' /\ n <= 2 THEN 1 ELSE 0)
                     + (IF Dom!Matches(3, v)' /\ n <= 3 THEN 1 ELSE 0)
  <2> DEFINE set == {e \in Dom!Names : Dom!Matches(e, v)' /\ e >= n}
  <2>1. set \in SUBSET Dom!Names
    OBVIOUS
  <2>2. /\ 1 \in set <=> Dom!Matches(1, v)' /\ n <= 1
        /\ 2 \in set <=> Dom!Matches(2, v)' /\ n <= 2
        /\ 3 \in set <=> Dom!Matches(3, v)' /\ n <= 3
    BY DEF Dom!Names
  <2>3. Place(v, n)' = Dom!Cardinality(set)
    BY DEF Place, Dom!Names
  <2> HIDE DEF set
  <2>4. Dom!Cardinality(set) = (IF 1 \in set THEN 1 ELSE 0) + (IF 2 \in set THEN 1 ELSE 0)
                           + (IF 3 \in set THEN 1 ELSE 0)
    BY <2>1, CountOfNames
  <2> QED BY <2>2, <2>3, <2>4
<1> QED BY <1>2, PlaceIs DEF Dom!Names

\* What a domain that is deleted leaves of a list.
LEMMA FewerMatch ==
  ASSUME ListTyped, NEW v \in DomainViews, NEW d \in Dom!Names,
         s1' = [s1 EXCEPT ![d] = "absent"]
  PROVE  \A n \in Dom!Names : Place(v, n)' \in Nat /\ Place(v, n)' <= Place(v, n)
<1>1. \A e \in Dom!Names : Dom!Matches(e, v)' => Dom!Matches(e, v)
  BY DEF Dom!Matches, ListTyped, DomainViews, Dom!Tabs
<1> QED BY <1>1, PlacesMoveUp

\* The list is empty and on its way at first.
LEMMA ListInit == Dom!Init => ListInv
<1> SUFFICES ASSUME Dom!Init PROVE ListInv
  OBVIOUS
<1> DEFINE first == [id |-> 1, view |-> [tab |-> "all", search |-> FALSE], offset |-> 0,
                     append |-> FALSE]
<1>1. /\ s8 = 1 /\ faults = 0 /\ s5 = <<>> /\ s9 = TRUE /\ s3 = FALSE
      /\ s7 = {first} /\ Dom!View = first.view
      /\ s1 = [d \in Dom!Names |-> IF d < 3 THEN "pending" ELSE "absent"]
  BY DEF Dom!Init, Dom!View
<1>2. first.id = 1 /\ first.view \in DomainViews /\ first.offset = 0 /\ ~first.append
  BY DEF DomainViews, Dom!Tabs
<1> HIDE DEF first
<1>3. ListTyped
  <2>1. \A f \in s7 : f = first
    BY <1>1
  <2>2. s9 <=> \E f \in s7 : Requested(f)
    BY <1>1, <1>2 DEF Requested
  <2>3. s1 \in [Dom!Names -> Dom!Statuses \union {"absent"}] /\ s5 \in Seq(ListRows)
    BY <1>1 DEF Dom!Statuses
  <2>4. \A f \in s7 : f.id \in Nat /\ f.id <= s8 /\ f.view \in DomainViews /\ f.offset \in Nat
                            /\ (~f.append => f.offset = 0)
    BY <1>1, <1>2, <2>1
  <2>5. Dom!View \in DomainViews /\ s3 \in BOOLEAN /\ s8 \in Nat /\ faults \in Nat
    BY <1>1, <1>2
  <2> QED BY <2>1, <2>2, <2>3, <2>4, <2>5 DEF ListTyped
<1>4. PagesFit
  BY <1>1, <1>2 DEF PagesFit, Requested
<1> QED BY <1>3, <1>4 DEF ListInv

\* What leaves the list, the view and the domains alone.
LEMMA ListStays ==
  ASSUME ListInv, UNCHANGED <<s1, s2, s4, s5, s7, s8, s9, s11>>,
         s3' \in BOOLEAN, faults' \in {faults, faults + 1}, Undisturbed' => Undisturbed
  PROVE  ListInv'
<1>1. Dom!View' = Dom!View
  BY DEF Dom!View
<1>2. ListTyped'
  BY <1>1 DEF ListInv, ListTyped, Requested
<1>3. PagesFit'
  BY <1>1 DEF ListInv, PagesFit, Requested, RowsFit, Place, Dom!Matches
<1> QED BY <1>2, <1>3 DEF ListInv

\* What takes a domain away.
LEMMA ListThins ==
  ASSUME ListInv, UNCHANGED <<s2, s3, s4, s5, s7, s8, s9, s11,
                              s13, s20, s18, faults>>,
         NEW d \in Dom!Names, s1' = [s1 EXCEPT ![d] = "absent"]
  PROVE  ListInv'
<1>1. Dom!View' = Dom!View /\ Dom!View \in DomainViews
  BY DEF Dom!View, ListInv, ListTyped
<1>2. ListTyped'
  BY <1>1 DEF ListInv, ListTyped, Requested, Dom!Statuses
<1>3. \A v \in DomainViews, n \in Dom!Names :
             /\ Place(v, n) \in Nat /\ Place(v, n)' \in Nat /\ Place(v, n)' <= Place(v, n)
  BY FewerMatch, PlaceIs DEF ListInv
<1>4. RowsFit(Dom!View) => RowsFit(Dom!View)'
  <2> SUFFICES ASSUME RowsFit(Dom!View) PROVE RowsFit(Dom!View)'
    OBVIOUS
  <2>1. PICK w \in DomainViews : w = Dom!View
    BY <1>1
  <2>2. Dom!View' = w
    BY <1>1, <2>1
  <2>3. s5' = s5 /\ \A i \in 1..Len(s5) : s5[i].name \in Dom!Names
    <3>1. s5 \in Seq(ListRows)
      BY DEF ListInv, ListTyped
    <3>2. \A i \in 1..Len(s5) : s5[i] \in ListRows
      BY <3>1
    <3>3. \A row \in ListRows : row.name \in Dom!Names
      BY DEF ListRows
    <3> QED BY <3>2, <3>3
  <2>4. \A n \in Dom!Names : Place(Dom!View, n)' = Place(w, n)' /\ Place(Dom!View, n) = Place(w, n)
    BY <2>1, <2>2 DEF Place, Dom!Matches
  <2>5. \A i \in 1..Len(s5) : Place(Dom!View, s5[i].name)' <= i
    <3>1. TAKE i \in 1..Len(s5)
    <3>2. PICK n \in Dom!Names : n = s5[i].name
      BY <2>3
    <3>3. Place(w, n)' <= Place(w, n) /\ Place(w, n) <= i /\ Place(w, n) \in Nat
          /\ Place(w, n)' \in Nat /\ Place(w, n)' = Place(Dom!View, n)'
      BY <1>3, <2>1, <2>4, <3>2 DEF RowsFit
    <3>4. Place(Dom!View, s5[i].name)' = Place(Dom!View, n)'
      BY <2>3, <3>2
    <3>5. i \in Nat
      OBVIOUS
    <3> QED BY <3>3, <3>4, <3>5
  <2> QED BY <2>3, <2>5 DEF RowsFit
<1>5. PagesFit'
  BY <1>1, <1>4 DEF ListInv, PagesFit, Requested, Undisturbed, Dom!JoinUnheard
<1> QED BY <1>2, <1>5 DEF ListInv

\* What moves a domain to another list, and the page hears of it later.
LEMMA ListMoves ==
  ASSUME ListInv, UNCHANGED <<s2, s3, s4, s5, s7, s8, s9, s11, faults>>,
         NEW d \in Dom!Names, NEW s \in Dom!Statuses, s1' = [s1 EXCEPT ![d] = s],
         ~Undisturbed'
  PROVE  ListInv'
<1>1. Dom!View' = Dom!View
  BY DEF Dom!View
<1>2. s1' \in [Dom!Names -> Dom!Statuses \union {"absent"}]
  BY DEF ListInv, ListTyped
<1>3. ListTyped'
  BY <1>1, <1>2 DEF ListInv, ListTyped, Requested
<1> QED BY <1>3 DEF ListInv, PagesFit

\* Every load of the list takes the place of what was on its way.
LEMMA ListLoads ==
  ASSUME ListInv, UNCHANGED <<s1, faults>>, Dom!View' \in DomainViews, s3' \in BOOLEAN,
         NEW v \in DomainViews, NEW offset \in Nat, NEW append \in BOOLEAN,
         Dom!load_domains(v, offset, append), ~append => offset = 0,
         Undisturbed' => v = Dom!View',
         Undisturbed' /\ append =>
           offset = Len(s5) /\ s11 = Dom!View' /\ RowsFit(Dom!View)'
  PROVE  ListInv'
<1> DEFINE asked == [id |-> s8 + 1, view |-> v, offset |-> offset, append |-> append]
<1>1. /\ s8' = s8 + 1 /\ s7' = s7 \union {asked} /\ s9' = TRUE
      /\ UNCHANGED <<s5, s11>>
  BY DEF Dom!load_domains
<1>2. /\ asked.id = s8 + 1 /\ asked.view = v /\ asked.offset = offset
      /\ (asked.append <=> append)
  OBVIOUS
<1> HIDE DEF asked
<1>3. s8 \in Nat /\ \A f \in s7 : f.id \in Nat /\ f.id <= s8
  BY DEF ListInv, ListTyped
<1>4. \A f \in s7' : Requested(f)' <=> f = asked
  BY <1>1, <1>2, <1>3 DEF Requested
<1>5. ListTyped'
  <2>1. \A f \in s7' : f.id \in Nat /\ f.id <= s8' /\ f.view \in DomainViews /\ f.offset \in Nat
                            /\ (~f.append => f.offset = 0)
    BY <1>1, <1>2, <1>3 DEF ListInv, ListTyped
  <2>2. \A f, g \in s7' : f.id = g.id => f = g
    BY <1>1, <1>2, <1>3 DEF ListInv, ListTyped
  <2>3. s9' <=> \E f \in s7' : Requested(f)'
    BY <1>1, <1>4
  <2> QED BY <1>1, <1>3, <2>1, <2>2, <2>3 DEF ListInv, ListTyped
<1>6. PagesFit'
  BY <1>1, <1>2, <1>4 DEF PagesFit
<1> QED BY <1>5, <1>6 DEF ListInv

\* A list that is continued by one row.
LEMMA OneMore ==
  ASSUME NEW S, NEW s \in Seq(S), NEW t \in Seq(S), Len(t) = 1
  PROVE  /\ Len(s \o t) = Len(s) + 1 /\ (s \o t)[Len(s) + 1] = t[1]
         /\ \A i \in 1..Len(s) : (s \o t)[i] = s[i]
<1>1. /\ Len(s \o t) = Len(s) + Len(t)
      /\ \A i \in 1..Len(s) + Len(t) : (s \o t)[i] = IF i <= Len(s) THEN s[i] ELSE t[i - Len(s)]
  BY ConcatProperties
<1>2. Len(s) \in Nat
  OBVIOUS
<1> QED BY <1>1, <1>2

\* The answer to the youngest request is the list, or continues it.
LEMMA ListArrives == ASSUME ListInv, NEW f \in s7, Dom!FetchArrives(f) PROVE ListInv'
<1>0. /\ UNCHANGED <<s1, s2, s3, s4, s8, s20, s13, s18, faults>>
      /\ s7' = s7 \ {f}
  BY DEF Dom!FetchArrives, Dom!view, Dom!rest, Dom!check
<1>1. Dom!View' = Dom!View /\ Dom!View \in DomainViews
  BY <1>0 DEF Dom!View, ListInv, ListTyped
<1>2. CASE f.id # s8
  <2>1. UNCHANGED <<s5, s11, s9>>
    BY <1>2 DEF Dom!FetchArrives
  <2>2. \A g : Requested(g)' <=> Requested(g)
    BY <1>0 DEF Requested
  <2>3. ~Requested(f)
    BY <1>2 DEF Requested
  <2>4. ListTyped'
    BY <1>0, <1>1, <2>1, <2>2, <2>3 DEF ListInv, ListTyped
  <2>5. RowsFit(Dom!View) => RowsFit(Dom!View)'
    BY <1>0, <1>1, <2>1 DEF RowsFit, Place, Dom!Matches
  <2>6. PagesFit'
    BY <1>0, <1>1, <2>1, <2>2, <2>5 DEF ListInv, PagesFit, Undisturbed, Dom!JoinUnheard
  <2> QED BY <2>4, <2>6 DEF ListInv
<1>3. CASE f.id = s8
  <2> DEFINE part == Dom!Page(f.view, f.offset)
  <2>1. /\ s5' = IF f.append THEN s5 \o part ELSE part
        /\ s11' = f.view /\ s9' = FALSE
    BY <1>3 DEF Dom!FetchArrives
  <2>2. Requested(f) /\ f.view \in DomainViews /\ f.offset \in Nat /\ (~f.append => f.offset = 0)
        /\ s5 \in Seq(ListRows)
    BY <1>3 DEF Requested, ListInv, ListTyped
  <2>3. /\ part \in Seq(ListRows) /\ Len(part) <= 1 /\ Len(part) \in Nat
        /\ Len(part) = 1 => Place(f.view, part[1].name) = f.offset + 1
    BY <2>2, PageIs DEF ListInv, ListTyped
  <2> HIDE DEF part
  <2>4. \A g \in s7' : ~Requested(g)'
    BY <1>0, <1>3 DEF Requested, ListInv, ListTyped
  <2>5. s5' \in Seq(ListRows)
    BY <2>1, <2>2, <2>3
  <2>6. ListTyped'
    BY <1>0, <1>1, <2>1, <2>4, <2>5 DEF ListInv, ListTyped
  <2>7. ASSUME Undisturbed' PROVE s11' = Dom!View' /\ RowsFit(Dom!View)'
    <3>1. Undisturbed
      BY <1>0, <2>7 DEF Undisturbed, Dom!JoinUnheard
    <3>2. f.view = Dom!View /\ (f.append => f.offset = Len(s5) /\ RowsFit(Dom!View))
      BY <2>2, <3>1 DEF ListInv, PagesFit
    <3>0. s11' = Dom!View'
      BY <1>1, <2>1, <3>2
    <3>3. PICK w \in DomainViews : w = Dom!View
      BY <1>1
    <3>4. \A n \in Dom!Names : Place(Dom!View, n)' = Place(w, n) /\ Place(Dom!View, n) = Place(w, n)
                           /\ Place(w, n) \in Nat
      BY <1>0, <1>1, <3>3, PlaceIs DEF Place, Dom!Matches
    <3>5. \A row \in ListRows : row.name \in Dom!Names
      BY DEF ListRows
    <3>6. \A i \in 1..Len(s5') : s5'[i].name \in Dom!Names
      <4>1. \A i \in 1..Len(s5') : s5'[i] \in ListRows
        BY <2>5
      <4> QED BY <3>5, <4>1
    <3>7. CASE Len(part) = 0
      <4>1. s5' = IF f.append THEN s5 ELSE <<>>
        BY <2>1, <2>2, <2>3, <3>7
      <4>2. CASE f.append
        <5>1. s5' = s5 /\ RowsFit(Dom!View)
          BY <3>2, <4>1, <4>2
        <5>2. \A i \in 1..Len(s5) : Place(w, s5[i].name) <= i
          BY <3>3, <5>1 DEF RowsFit
        <5>3. \A i \in 1..Len(s5') : Place(Dom!View, s5[i].name)' <= i
          BY <3>4, <3>6, <5>1, <5>2
        <5> QED BY <1>1, <2>1, <3>2, <5>1, <5>3 DEF RowsFit
      <4>3. CASE ~f.append
        BY <1>1, <2>1, <3>2, <4>1, <4>3 DEF RowsFit
      <4> QED BY <4>2, <4>3
    <3>8. CASE Len(part) = 1
      <4>1. part[1] \in ListRows /\ part[1].name \in Dom!Names
        BY <2>3, <3>5, <3>8
      <4>2. PICK n \in Dom!Names : n = part[1].name
        BY <4>1
      <4>3. Place(w, n) = f.offset + 1
        BY <2>3, <3>2, <3>3, <3>8, <4>2
      <4>4. CASE ~f.append
        <5>1. s5' = part /\ Len(s5') = 1
          BY <2>1, <3>8, <4>4
        <5>2. \A i \in 1..Len(s5') : i = 1 /\ s5'[i].name = n
          BY <4>2, <5>1
        <5>3. Place(Dom!View, s5[1].name)' <= 1
          BY <2>2, <3>4, <4>2, <4>3, <4>4, <5>1
        <5> QED BY <1>1, <2>1, <3>2, <5>2, <5>3 DEF RowsFit
      <4>5. CASE f.append
        <5>1. f.offset = Len(s5) /\ Len(s5) \in Nat
          BY <2>2, <3>2, <4>5
        <5>2. /\ Len(s5') = Len(s5) + 1 /\ s5'[Len(s5) + 1].name = n
              /\ \A i \in 1..Len(s5) : s5'[i] = s5[i]
          <6>1. s5' = s5 \o part /\ s5 \in Seq(ListRows) /\ part \in Seq(ListRows)
            BY <2>1, <2>2, <2>3, <4>5
          <6>2. /\ Len(s5 \o part) = Len(s5) + 1 /\ (s5 \o part)[Len(s5) + 1] = part[1]
                /\ \A i \in 1..Len(s5) : (s5 \o part)[i] = s5[i]
            BY <3>8, <6>1, OneMore
          <6> QED BY <4>2, <6>1, <6>2
        <5>3. \A i \in 1..Len(s5) : s5[i].name \in Dom!Names /\ Place(w, s5[i].name) <= i
          BY <3>2, <3>3, <3>6, <4>5, <5>1, <5>2 DEF RowsFit
        <5>4. \A i \in 1..Len(s5') : Place(w, s5'[i].name) <= i
          BY <4>3, <5>1, <5>2, <5>3
        <5>5. \A i \in 1..Len(s5) : n < s5[i].name
          <6>1. TAKE i \in 1..Len(s5)
          <6>2. PICK m \in Dom!Names : m = s5[i].name
            BY <5>3
          <6>3. Place(w, m) <= i /\ Place(w, n) = Len(s5) + 1 /\ Place(w, m) \in Nat
            BY <3>4, <4>3, <5>1, <5>3, <6>2
          <6>4. n >= m => Place(w, n) <= Place(w, m)
            BY PlacesDescend
          <6> QED BY <5>1, <6>2, <6>3, <6>4 DEF Dom!Names
        <5>6. \A i, j \in 1..Len(s5') : i < j => s5'[j].name < s5'[i].name
          <6>1. \A i, j \in 1..Len(s5) : i < j => s5[j].name < s5[i].name
            BY <3>2, <4>5 DEF RowsFit
          <6> QED BY <5>1, <5>2, <5>5, <6>1
        <5>7. \A i \in 1..Len(s5') : Place(Dom!View, s5[i].name)' <= i
          BY <3>4, <3>6, <5>4
        <5>8. RowsFit(Dom!View)'
          BY <5>6, <5>7 DEF RowsFit
        <5> QED BY <3>0, <5>8
      <4> QED BY <4>4, <4>5
    <3>9. Len(part) = 0 \/ Len(part) = 1
      <4> DEFINE n == Len(part)
      <4>1. n \in Nat /\ n <= 1
        BY <2>3
      <4> HIDE DEF n
      <4>2. n = 0 \/ n = 1
        BY <4>1
      <4> QED BY <4>2 DEF n
    <3> QED BY <3>7, <3>8, <3>9
  <2>8. PagesFit'
    BY <2>1, <2>4, <2>7 DEF PagesFit
  <2> QED BY <2>6, <2>8 DEF ListInv
<1> QED BY <1>2, <1>3

\* A verification, a deletion and an addition under way.
DomainChecks == [name : Dom!Names, view : DomainViews,
                 result : {"sent", "verified", "failed", "error"}]
DomainDeletions == [name : Dom!Names, view : DomainViews, served : BOOLEAN]
DomainAdditions == [click : Nat, view : DomainViews, served : BOOLEAN, shown : BOOLEAN]

\* What else is under way began in some view.
OthersTyped ==
  /\ s13 \in Seq(DomainChecks) /\ s16 \subseteq DomainDeletions
  /\ s18 \subseteq DomainAdditions /\ clicks \in Nat

\* Nothing else is under way at first.
LEMMA OthersInit == Dom!Init => OthersTyped
BY DEF Dom!Init, OthersTyped

\* A verification, a deletion and an addition keep the view they begin in.
LEMMA OthersStep ==
  ASSUME ListInv, OthersTyped, [Dom!Next]_Dom!dvars PROVE OthersTyped'
<1> USE DEF Dom!view, Dom!list, Dom!check, Dom!rest
<1>0. Dom!View \in DomainViews
  BY DEF ListInv, ListTyped
<1>1. CASE UNCHANGED <<s13, s16, s18>> /\ clicks' \in {clicks, clicks + 1}
  BY <1>1 DEF OthersTyped
<1>2. CASE \/ \E f \in s7 : Dom!FetchArrives(f) \/ Dom!FetchFails(f)
           \/ Dom!handle_load_more \/ Dom!set_search \/ Dom!Debounce \/ UNCHANGED Dom!dvars
           \/ \E t \in Dom!Tabs : Dom!set_active_tab(t)
           \/ \E d \in Dom!Names : Dom!select(d) \/ Dom!GlowEnds(d)
  BY <1>1, <1>2 DEF Dom!FetchArrives, Dom!FetchFails, Dom!handle_load_more, Dom!set_search,
     Dom!Debounce, Dom!dvars, Dom!set_active_tab, Dom!select, Dom!GlowEnds, Dom!Click
<1>3. ASSUME NEW d \in Dom!Names, Dom!handle_verify(d) PROVE OthersTyped'
  <2> DEFINE sent == [name |-> d, view |-> Dom!View, result |-> "sent"]
  <2>1. /\ s13' = Append(s13, sent) /\ UNCHANGED <<s16, s18>>
        /\ clicks' = clicks + 1
    BY <1>3 DEF Dom!handle_verify, Dom!Click
  <2>2. sent \in DomainChecks
    BY <1>0 DEF DomainChecks
  <2> HIDE DEF sent
  <2>3. s13' \in Seq(DomainChecks)
    BY <2>1, <2>2 DEF OthersTyped
  <2>4. s16' \subseteq DomainDeletions /\ s18' \subseteq DomainAdditions /\ clicks' \in Nat
    BY <2>1 DEF OthersTyped
  <2> QED BY <2>3, <2>4 DEF OthersTyped
<1>4. ASSUME NEW i \in 1..MaxClicks, Dom!VerifyServed(i) \/ Dom!VerifyLost(i) \/ Dom!verify(i)
      PROVE OthersTyped'
  <2>1. i \in DOMAIN s13 /\ UNCHANGED <<s16, s18, clicks>>
    BY <1>4 DEF Dom!VerifyServed, Dom!VerifyLost, Dom!verify
  <2>2. i \in 1..Len(s13) /\ s13 \in Seq(DomainChecks)
    BY <2>1 DEF OthersTyped
  <2>3. CASE Dom!VerifyServed(i) \/ Dom!VerifyLost(i)
    <3>1. \E s \in {"verified", "failed", "error"} :
            s13' = [s13 EXCEPT ![i].result = s]
      BY <2>3 DEF Dom!VerifyServed, Dom!VerifyLost
    <3>2. PICK s \in {"verified", "failed", "error"} :
               s13' = [s13 EXCEPT ![i].result = s]
      BY <3>1
    <3>3. s13[i] \in DomainChecks
      BY <2>2
    <3>5. \A c \in DomainChecks : [c EXCEPT !.result = s] \in DomainChecks
      BY DEF DomainChecks
    <3>4. s13' \in Seq(DomainChecks)
      BY <2>2, <3>2, <3>3, <3>5
    <3> QED BY <2>1, <3>4 DEF OthersTyped
  <2>4. CASE Dom!verify(i)
    <3>1. s13' = SubSeq(s13, 1, i - 1)
                           \o SubSeq(s13, i + 1, Len(s13))
      BY <2>4 DEF Dom!verify, Dom!Without
    <3>2. s13' \in Seq(DomainChecks)
      BY <2>2, <3>1
    <3> QED BY <2>1, <3>2 DEF OthersTyped
  <2> QED BY <1>4, <2>3, <2>4
<1>5. ASSUME NEW d \in Dom!Names, Dom!handle_delete(d) PROVE OthersTyped'
  <2> DEFINE sent == [name |-> d, view |-> Dom!View, served |-> FALSE]
  <2>1. /\ s16' = s16 \union {sent}
        /\ UNCHANGED <<s13, s18>> /\ clicks' = clicks + 1
    BY <1>5 DEF Dom!handle_delete, Dom!Click
  <2>2. sent \in DomainDeletions
    BY <1>0 DEF DomainDeletions
  <2> HIDE DEF sent
  <2>3. s16' \subseteq DomainDeletions
    BY <2>1, <2>2 DEF OthersTyped
  <2> QED BY <2>1, <2>3 DEF OthersTyped
<1>6. ASSUME NEW r \in s16, Dom!DeleteServed(r) \/ Dom!remove(r) \/ Dom!RemoveFails(r)
      PROVE OthersTyped'
  <2>1. \/ s16' = s16 \ {r}
        \/ s16' = (s16 \ {r}) \union {[r EXCEPT !.served = TRUE]}
    BY <1>6 DEF Dom!DeleteServed, Dom!remove, Dom!RemoveFails
  <2>2. UNCHANGED <<s13, s18, clicks>>
    BY <1>6 DEF Dom!DeleteServed, Dom!remove, Dom!RemoveFails
  <2>3. [r EXCEPT !.served = TRUE] \in DomainDeletions
    BY DEF OthersTyped, DomainDeletions
  <2> QED BY <2>1, <2>2, <2>3 DEF OthersTyped
<1>7. CASE Dom!OpenForm \/ Dom!CloseForm
  <2>1. /\ UNCHANGED <<s13, s16, clicks>>
        /\ s18' = s18 \/ s18' = {[a EXCEPT !.shown = FALSE] : a \in s18}
    BY <1>7 DEF Dom!OpenForm, Dom!CloseForm
  <2>2. \A a \in DomainAdditions : [a EXCEPT !.shown = FALSE] \in DomainAdditions
    BY DEF DomainAdditions
  <2> HIDE DEF DomainAdditions
  <2> QED BY <2>1, <2>2 DEF OthersTyped
<1>8. CASE Dom!handle_add
  <2> DEFINE sent == [click |-> clicks, view |-> Dom!View, served |-> FALSE, shown |-> TRUE]
  <2>1. s18' = s18 \union {sent} /\ UNCHANGED <<s13, s16>> /\ clicks' = clicks + 1
    BY <1>8 DEF Dom!handle_add, Dom!Click
  <2>2. sent \in DomainAdditions
    BY <1>0 DEF DomainAdditions, OthersTyped
  <2> HIDE DEF sent
  <2> QED BY <2>1, <2>2 DEF OthersTyped
<1>9. ASSUME NEW a \in s18, Dom!AddServed(a) \/ Dom!on_added(a) \/ Dom!AddFails(a)
      PROVE OthersTyped'
  <2>1. UNCHANGED <<s13, s16, clicks>>
    BY <1>9 DEF Dom!AddServed, Dom!on_added, Dom!AddFails
  <2>2. \/ s18' = s18 \ {a}
        \/ s18' = (s18 \ {a}) \union {[a EXCEPT !.served = TRUE]}
        \/ s18' = {[b EXCEPT !.shown = FALSE] : b \in s18 \ {a}}
    BY <1>9 DEF Dom!AddServed, Dom!on_added, Dom!AddFails
  <2>3. \A b \in DomainAdditions : /\ [b EXCEPT !.shown = FALSE] \in DomainAdditions
                                   /\ [b EXCEPT !.served = TRUE] \in DomainAdditions
    BY DEF DomainAdditions
  <2> HIDE DEF DomainAdditions
  <2>4. \A b \in s18 : b \in DomainAdditions
    BY DEF OthersTyped
  <2>5. s18' \subseteq DomainAdditions
    <3>1. CASE s18' = s18 \ {a}
      BY <2>4, <3>1
    <3>2. CASE s18' = (s18 \ {a}) \union {[a EXCEPT !.served = TRUE]}
      BY <2>3, <2>4, <3>2
    <3>3. CASE s18' = {[b EXCEPT !.shown = FALSE] : b \in s18 \ {a}}
      BY <2>3, <2>4, <3>3
    <3> QED BY <2>2, <3>1, <3>2, <3>3
  <2> QED BY <2>1, <2>5 DEF OthersTyped
<1> QED BY <1>2, <1>3, <1>4, <1>5, <1>6, <1>7, <1>8, <1>9 DEF Dom!Next

\* Every step keeps the rows in their places.
LEMMA ListStep ==
  ASSUME ListInv, OthersTyped, [Dom!Next]_Dom!dvars PROVE ListInv'
<1> USE DEF Dom!view, Dom!list, Dom!check, Dom!rest
<1>0. /\ Dom!View \in DomainViews /\ faults \in Nat
      /\ s3 \in BOOLEAN /\ s4 \in BOOLEAN /\ s2 \in Dom!Tabs
      /\ Len(s5) \in Nat
  BY DEF ListInv, ListTyped, Dom!View, DomainViews
<1>1. ASSUME NEW f \in s7, Dom!FetchArrives(f) PROVE ListInv'
  BY <1>1, ListArrives
<1>2. ASSUME NEW f \in s7, Dom!FetchFails(f) PROVE ListInv'
  <2>1. /\ UNCHANGED <<s1, s2, s3, s4, s5, s8>> /\ faults' = faults + 1
        /\ s7' = s7 \ {f}
    BY <1>2 DEF Dom!FetchFails, Dom!Fault
  <2>2. IF f.id # s8 THEN s9' = s9 ELSE s9' = FALSE
    BY <1>2 DEF Dom!FetchFails
  <2>3. s9' <=> \E g \in s7' : Requested(g)'
    BY <2>1, <2>2 DEF ListInv, ListTyped, Requested
  <2>4. Dom!View' = Dom!View
    BY <2>1 DEF Dom!View
  <2>5. ListTyped'
    BY <1>0, <2>1, <2>3, <2>4 DEF ListInv, ListTyped
  <2>6. ~Undisturbed'
    BY <1>0, <2>1 DEF Undisturbed
  <2> QED BY <2>5, <2>6 DEF ListInv, PagesFit
<1>3. CASE Dom!handle_load_more
  <2>1. /\ ~s9 /\ Dom!load_domains(Dom!View, Len(s5), TRUE)
        /\ UNCHANGED <<s1, s2, s3, s4, s20, s13, s18, faults, s5>>
    BY <1>3 DEF Dom!handle_load_more, Dom!LoadMoreButton, Dom!load_domains
  <2>2. Dom!View' = Dom!View /\ (Undisturbed' => Undisturbed)
    BY <2>1 DEF Dom!View, Undisturbed, Dom!JoinUnheard
  <2>3. Undisturbed => s11 = Dom!View /\ RowsFit(Dom!View)
    BY <2>1 DEF ListInv, PagesFit
  <2>4. RowsFit(Dom!View) => RowsFit(Dom!View)'
    BY <2>1, <2>2 DEF RowsFit, Place, Dom!Matches
  <2> QED BY <1>0, <2>1, <2>2, <2>3, <2>4, ListLoads
<1>4. ASSUME NEW t \in Dom!Tabs, Dom!set_active_tab(t) PROVE ListInv'
  <2>1. /\ Dom!load_domains([tab |-> t, search |-> s4], 0, FALSE)
        /\ UNCHANGED <<s1, s3, faults>>
    BY <1>4 DEF Dom!set_active_tab, Dom!refetch
  <2>2. Dom!View' = [tab |-> t, search |-> s4]
    BY <1>4 DEF Dom!set_active_tab, Dom!View
  <2>3. Dom!View' \in DomainViews
    BY <1>0, <2>2 DEF DomainViews
  <2> QED BY <1>0, <2>1, <2>2, <2>3, ListLoads
<1>5. CASE Dom!Debounce
  <2>1. /\ Dom!load_domains([tab |-> s2, search |-> s3], 0, FALSE)
        /\ UNCHANGED <<s1, s3, faults>>
    BY <1>5 DEF Dom!Debounce, Dom!refetch
  <2>2. Dom!View' = [tab |-> s2, search |-> s3]
    BY <1>5 DEF Dom!Debounce, Dom!View
  <2>3. Dom!View' \in DomainViews
    BY <1>0, <2>2 DEF DomainViews
  <2> QED BY <1>0, <2>1, <2>2, <2>3, ListLoads
<1>6. CASE \/ Dom!set_search \/ UNCHANGED Dom!dvars
           \/ \E d \in Dom!Names : Dom!select(d) \/ Dom!GlowEnds(d) \/ Dom!handle_delete(d)
  <2>1. /\ UNCHANGED <<s1, s2, s4, s5, s7, s8, s9, s11, s20,
                       s13, s18, faults>>
        /\ s3' = s3 \/ s3' = ~s3
    BY <1>6 DEF Dom!set_search, Dom!dvars, Dom!select, Dom!GlowEnds, Dom!handle_delete
  <2>2. s3' \in BOOLEAN
    BY <1>0, <2>1
  <2> QED BY <1>0, <2>1, <2>2, ListStays DEF Undisturbed, Dom!JoinUnheard
<1>17. ASSUME NEW d \in Dom!Names, Dom!handle_verify(d) PROVE ListInv'
  <2> DEFINE sent == [name |-> d, view |-> Dom!View, result |-> "sent"]
  <2>1. /\ UNCHANGED <<s1, s2, s3, s4, s5, s7, s8, s9, s11, s20, s18, faults>>
        /\ s13' = Append(s13, sent)
    BY <1>17 DEF Dom!handle_verify
  <2>2. sent \in DomainChecks /\ s13 \in Seq(DomainChecks)
    BY <1>0 DEF DomainChecks, OthersTyped
  <2> HIDE DEF sent
  <2>3. \A i \in DOMAIN s13 : i \in DOMAIN s13' /\ s13'[i] = s13[i]
    BY <2>1, <2>2, AppendProperties
  <2>4. Dom!JoinUnheard => Dom!JoinUnheard'
    BY <2>1, <2>3 DEF Dom!JoinUnheard
  <2> QED BY <1>0, <2>1, <2>4, ListStays DEF Undisturbed
<1>7. ASSUME NEW i \in 1..MaxClicks, Dom!VerifyServed(i) PROVE ListInv'
  <2>1. /\ i \in DOMAIN s13 /\ s13 \in Seq(DomainChecks) /\ s13[i].result = "sent"
        /\ UNCHANGED <<s2, s3, s4, s5, s7, s8, s9, s11, s20, s18, faults>>
    BY <1>7 DEF Dom!VerifyServed, OthersTyped
  <2>2. s13[i] \in DomainChecks
    BY <2>1
  <2>3. PICK d \in Dom!Names : d = s13[i].name
    BY <2>2 DEF DomainChecks
  <2>4. CASE s1[d] = "absent"
    <3>1. s1' = s1 /\ s13' = [s13 EXCEPT ![i].result = "error"]
      BY <1>7, <2>3, <2>4 DEF Dom!VerifyServed
    <3>2. \A k \in DOMAIN s13 : k # i => k \in DOMAIN s13' /\ s13'[k] = s13[k]
      BY <3>1
    <3>3. Dom!JoinUnheard => Dom!JoinUnheard'
      BY <2>1, <3>2 DEF Dom!JoinUnheard
    <3> QED BY <1>0, <2>1, <3>1, <3>3, ListStays DEF Undisturbed
  <2>5. CASE s1[d] # "absent"
    <3>1. \E s \in {"verified", "failed"} :
            s13' = [s13 EXCEPT ![i].result = s] /\ s1' = [s1 EXCEPT ![d] = s]
      BY <1>7, <2>3, <2>5 DEF Dom!VerifyServed
    <3>2. PICK s \in {"verified", "failed"} :
            s13' = [s13 EXCEPT ![i].result = s] /\ s1' = [s1 EXCEPT ![d] = s]
      BY <3>1
    <3>3. i \in DOMAIN s13' /\ s13'[i] = [s13[i] EXCEPT !.result = s]
      BY <2>1, <3>2
    <3>4. s13'[i].result = s
      BY <2>2, <3>3 DEF DomainChecks
    <3>5. ~Undisturbed'
      BY <3>3, <3>4 DEF Undisturbed, Dom!JoinUnheard
    <3>6. s \in Dom!Statuses
      BY DEF Dom!Statuses
    <3> QED BY <2>1, <3>2, <3>5, <3>6, ListMoves
  <2> QED BY <2>4, <2>5
<1>8. ASSUME NEW i \in 1..MaxClicks, Dom!VerifyLost(i) PROVE ListInv'
  BY <1>0, <1>8, ListStays DEF Dom!VerifyLost, Dom!Fault, Undisturbed
<1>9. ASSUME NEW i \in 1..MaxClicks, Dom!verify(i) PROVE ListInv'
  <2>1. i \in 1..Len(s13) /\ s13 \in Seq(DomainChecks)
    BY <1>9 DEF Dom!verify, OthersTyped
  <2>6. s13[i] \in DomainChecks
    BY <2>1
  <2>2. PICK v \in DomainViews : v = s13[i].view
    BY <2>6 DEF DomainChecks
  <2>3. Dom!load_domains(v, 0, FALSE) /\ (~s20' => v = Dom!View)
    BY <1>9, <2>2 DEF Dom!verify, Dom!LateRefetch
  <2>4. UNCHANGED <<s1, s2, s3, s4, faults>>
    BY <1>9 DEF Dom!verify
  <2>5. Dom!View' = Dom!View
    BY <2>4 DEF Dom!View
  <2> QED BY <1>0, <2>3, <2>4, <2>5, ListLoads DEF Undisturbed
<1>10. ASSUME NEW r \in s16, Dom!DeleteServed(r) PROVE ListInv'
  <2>1. r.name \in Dom!Names
    BY DEF OthersTyped, DomainDeletions
  <2>2. /\ UNCHANGED <<s2, s3, s4, s5, s7, s8, s9, s11, s20,
                       s13, s18, faults>>
        /\ s1' = [s1 EXCEPT ![r.name] = "absent"]
    BY <1>10 DEF Dom!DeleteServed
  <2> QED BY <2>1, <2>2, ListThins
<1>11. ASSUME NEW r \in s16, Dom!remove(r) PROVE ListInv'
  <2>1. r.view \in DomainViews
    BY DEF OthersTyped, DomainDeletions
  <2>2. Dom!load_domains(r.view, 0, FALSE) /\ (~s20' => r.view = Dom!View)
    BY <1>11 DEF Dom!remove, Dom!LateRefetch
  <2>3. UNCHANGED <<s1, s2, s3, s4, faults>>
    BY <1>11 DEF Dom!remove
  <2>4. Dom!View' = Dom!View
    BY <2>3 DEF Dom!View
  <2> QED BY <1>0, <2>1, <2>2, <2>3, <2>4, ListLoads DEF Undisturbed
<1>12. ASSUME NEW r \in s16, Dom!RemoveFails(r) PROVE ListInv'
  <2>1. /\ UNCHANGED <<s1, s2, s3, s4, s5, s7, s8, s9, s11,
                       s20, s13, s18>>
        /\ faults' \in {faults, faults + 1}
    BY <1>12 DEF Dom!RemoveFails, Dom!Fault
  <2> QED BY <1>0, <2>1, ListStays DEF Undisturbed, Dom!JoinUnheard
<1>13. CASE Dom!OpenForm \/ Dom!CloseForm \/ Dom!handle_add
  <2>1. UNCHANGED <<s1, s2, s3, s4, s5, s7, s8, s9, s11, s13, s20, faults>>
    BY <1>13 DEF Dom!OpenForm, Dom!CloseForm, Dom!handle_add
  <2>2. \A a \in DomainAdditions : [a EXCEPT !.shown = FALSE].served <=> a.served
    BY DEF DomainAdditions
  <2>3. \A a \in s18 : a \in DomainAdditions
    BY DEF OthersTyped
  <2>4. ASSUME NEW a \in s18, a.served PROVE \E b \in s18' : b.served
    <3>1. CASE s18 \subseteq s18'
      BY <2>4, <3>1
    <3>2. CASE s18' = {[b EXCEPT !.shown = FALSE] : b \in s18}
      <4>1. [a EXCEPT !.shown = FALSE] \in s18' /\ [a EXCEPT !.shown = FALSE].served
        BY <2>2, <2>3, <2>4, <3>2
      <4> QED BY <4>1
    <3> QED BY <1>13, <3>1, <3>2 DEF Dom!OpenForm, Dom!CloseForm, Dom!handle_add
  <2>5. Undisturbed' => Undisturbed
    BY <2>1, <2>4 DEF Undisturbed, Dom!JoinUnheard
  <2> QED BY <1>0, <2>1, <2>5, ListStays
<1>14. ASSUME NEW a \in s18, Dom!AddServed(a) PROVE ListInv'
  <2>1. /\ UNCHANGED <<s2, s3, s4, s5, s7, s8, s9, s11, faults>>
        /\ s1' = [s1 EXCEPT ![3] = "pending"]
        /\ [a EXCEPT !.served = TRUE] \in s18'
    BY <1>14 DEF Dom!AddServed
  <2>2. [a EXCEPT !.served = TRUE].served
    BY DEF OthersTyped, DomainAdditions
  <2>3. ~Undisturbed'
    BY <2>1, <2>2 DEF Undisturbed, Dom!JoinUnheard
  <2>4. 3 \in Dom!Names /\ "pending" \in Dom!Statuses
    BY DEF Dom!Names, Dom!Statuses
  <2> QED BY <2>1, <2>3, <2>4, ListMoves
<1>15. ASSUME NEW a \in s18, Dom!AddFails(a) PROVE ListInv'
  <2>1. /\ UNCHANGED <<s1, s2, s3, s4, s5, s7, s8, s9, s11, s13, s20>>
        /\ s18' = s18 \ {a} /\ faults' \in {faults, faults + 1}
        /\ ~a.served \/ faults' = faults + 1
    BY <1>15 DEF Dom!AddFails, Dom!Fault
  <2>2. Undisturbed' => Undisturbed
    BY <1>0, <2>1 DEF Undisturbed, Dom!JoinUnheard
  <2> QED BY <1>0, <2>1, <2>2, ListStays
<1>16. ASSUME NEW a \in s18, Dom!on_added(a) PROVE ListInv'
  <2>1. a.view \in DomainViews /\ s3' = FALSE /\ UNCHANGED <<s1, s4, faults>>
    BY <1>16 DEF Dom!on_added, OthersTyped, DomainAdditions
  <2>2. CASE a.view.tab \in {"all", "pending"} \/ s2 = "all"
    <3>1. /\ Dom!load_domains(a.view, 0, FALSE) /\ (~s20' => a.view = Dom!View)
          /\ s2' = s2
      BY <1>16, <2>2 DEF Dom!on_added, Dom!LateRefetch
    <3>2. Dom!View' = Dom!View
      BY <2>1, <3>1 DEF Dom!View
    <3> QED BY <1>0, <2>1, <3>1, <3>2, ListLoads DEF Undisturbed
  <2>3. CASE ~(a.view.tab \in {"all", "pending"} \/ s2 = "all")
    <3> DEFINE former == [id |-> s8 + 1, view |-> a.view, offset |-> 0, append |-> FALSE]
               asked == [id |-> s8 + 2, view |-> [tab |-> "all", search |-> s4],
                         offset |-> 0, append |-> FALSE]
    <3>1. /\ s2' = "all" /\ s8' = s8 + 2 /\ s9' = TRUE /\ UNCHANGED s5
          /\ s7' = s7 \union {former, asked}
      BY <1>16, <2>3 DEF Dom!on_added
    <3>2. Dom!View' = [tab |-> "all", search |-> s4]
      BY <2>1, <3>1 DEF Dom!View
    <3>3. Dom!View' \in DomainViews
      BY <1>0, <3>2 DEF DomainViews, Dom!Tabs
    <3>4. /\ former.id = s8 + 1 /\ former.view \in DomainViews /\ former.offset = 0
          /\ asked.id = s8 + 2 /\ asked.view = Dom!View' /\ asked.offset = 0
          /\ ~asked.append
      BY <2>1, <3>2
    <3> HIDE DEF former, asked
    <3>5. s8 \in Nat /\ \A f \in s7 : f.id \in Nat /\ f.id <= s8
      BY DEF ListInv, ListTyped
    <3>6. \A f \in s7' : Requested(f)' <=> f = asked
      BY <3>1, <3>4, <3>5 DEF Requested
    <3>7. ListTyped'
      <4>1. \A f \in s7' : f.id \in Nat /\ f.id <= s8' /\ f.view \in DomainViews
                              /\ f.offset \in Nat /\ (~f.append => f.offset = 0)
        BY <3>1, <3>3, <3>4, <3>5 DEF ListInv, ListTyped
      <4>2. \A f, g \in s7' : f.id = g.id => f = g
        BY <3>1, <3>4, <3>5 DEF ListInv, ListTyped
      <4>3. s9' <=> \E f \in s7' : Requested(f)'
        BY <3>1, <3>6
      <4>4. s8' \in Nat /\ faults' \in Nat
        BY <1>0, <2>1, <3>1, <3>5
      <4>6. s3' \in BOOLEAN
        BY <2>1
      <4>5. /\ s5' \in Seq(ListRows)
            /\ s1' \in [Dom!Names -> Dom!Statuses \union {"absent"}]
        BY <2>1, <3>1 DEF ListInv, ListTyped
      <4> QED BY <3>3, <4>1, <4>2, <4>3, <4>4, <4>5, <4>6 DEF ListTyped
    <3>8. PagesFit'
      BY <3>1, <3>4, <3>6 DEF PagesFit
    <3> QED BY <3>7, <3>8 DEF ListInv
  <2> QED BY <2>2, <2>3
<1> QED
  BY <1>1, <1>2, <1>3, <1>4, <1>5, <1>6, <1>7, <1>8, <1>9, <1>10, <1>11, <1>12, <1>13, <1>14,
     <1>15, <1>16, <1>17 DEF Dom!Next

\* Rows in descending places are different ones.
LEMMA RowsOnce == ListInv => Dom!NoRowTwice
<1> SUFFICES ASSUME ListInv, Undisturbed, ~s9, NEW i \in DOMAIN s5, NEW j \in DOMAIN s5,
                    s5[i].name = s5[j].name
             PROVE  i = j
  BY DEF Dom!NoRowTwice, Undisturbed
<1>1. s5 \in Seq(ListRows) /\ i \in 1..Len(s5) /\ j \in 1..Len(s5)
  BY DEF ListInv, ListTyped
<1>2. \A k, m \in 1..Len(s5) : k < m => s5[m].name < s5[k].name
  BY DEF ListInv, PagesFit, RowsFit
<1>3. s5[i].name \in Int
  <2>1. s5[i] \in ListRows
    BY <1>1
  <2> QED BY <2>1 DEF ListRows, Dom!Names
<1>4. ~(s5[i].name < s5[i].name)
  BY <1>3
<1> QED BY <1>1, <1>2, <1>4

\* Undisturbed, no domain is listed twice.
LEMMA DomainsOnce == Dom!Spec => []Dom!NoRowTwice
<1>1. ListInv /\ OthersTyped /\ [Dom!Next]_Dom!dvars => ListInv' /\ OthersTyped'
  BY ListStep, OthersStep
<1> QED BY <1>1, ListInit, OthersInit, RowsOnce, PTL DEF Dom!Spec


\* The youngest request is for the view on display, and so are the rows once it is answered.
ViewFollowed ==
  /\ \A f \in s7 : Requested(f) => s20 \/ f.view = Dom!View
  /\ ~s9 /\ ~s10 => s20 \/ s11 = Dom!View

\* The first request is for the first view.
LEMMA ViewInit == Dom!Init => ViewFollowed
<1> SUFFICES ASSUME Dom!Init PROVE ViewFollowed
  OBVIOUS
<1> DEFINE first == [id |-> 1, view |-> [tab |-> "all", search |-> FALSE], offset |-> 0,
                     append |-> FALSE]
<1>1. s9 = TRUE /\ s7 = {first} /\ Dom!View = first.view
  BY DEF Dom!Init, Dom!View
<1> HIDE DEF first
<1> QED BY <1>1 DEF ViewFollowed

\* A handler that loads the list for another view than the user's is noted.
LEMMA ViewLoads ==
  ASSUME ListTyped, NEW v, NEW offset, NEW append, Dom!load_domains(v, offset, append),
         s20' \/ v = Dom!View'
  PROVE  ViewFollowed'
<1> DEFINE asked == [id |-> s8 + 1, view |-> v, offset |-> offset, append |-> append]
<1>1. s8' = s8 + 1 /\ s7' = s7 \union {asked} /\ s9' = TRUE
  BY DEF Dom!load_domains
<1>2. asked.view = v
  OBVIOUS
<1> HIDE DEF asked
<1>3. s8 \in Nat /\ \A f \in s7 : f.id \in Nat /\ f.id <= s8
  BY DEF ListTyped
<1>4. \A f \in s7' : Requested(f)' => f = asked
  BY <1>1, <1>3 DEF Requested
<1> QED BY <1>1, <1>2, <1>4 DEF ViewFollowed

\* Every step follows the view.
LEMMA ViewStep ==
  ASSUME ListInv, ViewFollowed, [Dom!Next]_Dom!dvars PROVE ViewFollowed'
<1> USE DEF Dom!view, Dom!list, Dom!check, Dom!rest
<1>0. ListTyped
  BY DEF ListInv
<1>1. ASSUME NEW f \in s7, Dom!FetchArrives(f) PROVE ViewFollowed'
  <2>1. Dom!View' = Dom!View /\ s7' = s7 \ {f} /\ UNCHANGED <<s8, s10, s20>>
    BY <1>1 DEF Dom!FetchArrives, Dom!View
  <2>2. CASE f.id # s8
    BY <1>1, <2>1, <2>2 DEF Dom!FetchArrives, ViewFollowed, Requested
  <2>3. CASE f.id = s8
    BY <1>1, <2>1, <2>3 DEF Dom!FetchArrives, ViewFollowed, Requested
  <2> QED BY <2>2, <2>3
<1>2. ASSUME NEW f \in s7, Dom!FetchFails(f) PROVE ViewFollowed'
  <2>1. Dom!View' = Dom!View /\ s7' = s7 \ {f} /\ UNCHANGED <<s8, s11, s20>>
    BY <1>2 DEF Dom!FetchFails, Dom!View
  <2>2. CASE f.id # s8
    BY <1>2, <2>1, <2>2 DEF Dom!FetchFails, ViewFollowed, Requested
  <2>3. CASE f.id = s8
    BY <1>2, <2>1, <2>3 DEF Dom!FetchFails, ViewFollowed, Requested
  <2> QED BY <2>2, <2>3
<1>3. CASE Dom!handle_load_more
  BY <1>0, <1>3, ViewLoads DEF Dom!handle_load_more, Dom!View
<1>4. ASSUME NEW t \in Dom!Tabs, Dom!set_active_tab(t) PROVE ViewFollowed'
  BY <1>0, <1>4, ViewLoads DEF Dom!set_active_tab, Dom!refetch, Dom!View
<1>5. CASE Dom!Debounce
  BY <1>0, <1>5, ViewLoads DEF Dom!Debounce, Dom!refetch, Dom!View
<1>6. ASSUME NEW i \in 1..MaxClicks, Dom!verify(i) PROVE ViewFollowed'
  BY <1>0, <1>6, ViewLoads DEF Dom!verify, Dom!LateRefetch, Dom!View
<1>7. ASSUME NEW r \in s16, Dom!remove(r) PROVE ViewFollowed'
  BY <1>0, <1>7, ViewLoads DEF Dom!remove, Dom!LateRefetch, Dom!View
<1>8. ASSUME NEW a \in s18, Dom!on_added(a) PROVE ViewFollowed'
  <2>1. CASE a.view.tab \in {"all", "pending"} \/ s2 = "all"
    BY <1>0, <1>8, <2>1, ViewLoads DEF Dom!on_added, Dom!LateRefetch, Dom!View
  <2>2. CASE ~(a.view.tab \in {"all", "pending"} \/ s2 = "all")
    <3> DEFINE former == [id |-> s8 + 1, view |-> a.view, offset |-> 0, append |-> FALSE]
               asked == [id |-> s8 + 2, view |-> [tab |-> "all", search |-> s4],
                         offset |-> 0, append |-> FALSE]
    <3>1. /\ Dom!View' = [tab |-> "all", search |-> s4] /\ s8' = s8 + 2 /\ s9' = TRUE
          /\ s7' = s7 \union {former, asked}
      BY <1>8, <2>2 DEF Dom!on_added, Dom!View
    <3>2. former.id = s8 + 1 /\ asked.view = Dom!View'
      BY <3>1
    <3> HIDE DEF former, asked
    <3>3. s8 \in Nat /\ \A f \in s7 : f.id \in Nat /\ f.id <= s8
      BY <1>0 DEF ListTyped
    <3>4. \A f \in s7' : Requested(f)' => f = asked
      BY <3>1, <3>2, <3>3 DEF Requested
    <3> QED BY <3>1, <3>2, <3>4 DEF ViewFollowed
  <2> QED BY <2>1, <2>2
<1>9. ASSUME UNCHANGED <<s2, s4, s7, s8, s9, s11, s20>>, s10' = s10 \/ s10' = TRUE
      PROVE  ViewFollowed'
  BY <1>9 DEF ViewFollowed, Requested, Dom!View
<1>10. CASE \/ Dom!set_search \/ UNCHANGED Dom!dvars
            \/ \E d \in Dom!Names : \/ Dom!select(d) \/ Dom!handle_verify(d)
                                    \/ Dom!GlowEnds(d) \/ Dom!handle_delete(d)
  BY <1>9, <1>10 DEF Dom!set_search, Dom!dvars, Dom!select, Dom!handle_verify, Dom!GlowEnds,
     Dom!handle_delete
<1>11. CASE \E i \in 1..MaxClicks : Dom!VerifyServed(i) \/ Dom!VerifyLost(i)
  BY <1>9, <1>11 DEF Dom!VerifyServed, Dom!VerifyLost
<1>12. CASE \E r \in s16 : Dom!DeleteServed(r) \/ Dom!RemoveFails(r)
  BY <1>9, <1>12 DEF Dom!DeleteServed, Dom!RemoveFails
<1>13. CASE \/ Dom!OpenForm \/ Dom!CloseForm \/ Dom!handle_add
            \/ \E a \in s18 : Dom!AddServed(a) \/ Dom!AddFails(a)
  BY <1>9, <1>13 DEF Dom!OpenForm, Dom!CloseForm, Dom!handle_add, Dom!AddServed, Dom!AddFails
<1> QED
  BY <1>1, <1>2, <1>3, <1>4, <1>5, <1>6, <1>7, <1>8, <1>10, <1>11, <1>12, <1>13 DEF Dom!Next

\* At rest the rows are those of the view.
LEMMA RowsFollowView == Dom!Spec => []Dom!RowsOfTheView
<1>1. ListInv /\ OthersTyped /\ [Dom!Next]_Dom!dvars => ListInv' /\ OthersTyped'
  BY ListStep, OthersStep
<1>2. ListInv /\ ViewFollowed /\ [Dom!Next]_Dom!dvars => ViewFollowed'
  BY ViewStep
<1>3. ViewFollowed => Dom!RowsOfTheView
  BY DEF ViewFollowed, Dom!RowsOfTheView
<1> QED BY <1>1, <1>2, <1>3, ListInit, OthersInit, ViewInit, PTL DEF Dom!Spec

\* What the page shows of one domain is about a domain.
SelectionTyped ==
  /\ s9 \in BOOLEAN
  /\ s12 \in Dom!Names \union {None} /\ s19 \in Dom!Names \union {None}
  /\ s14 \in [Dom!Names -> {"none", "checking", "success", "failed"}]

\* The values of the page stay in their types.
LEMMA DomainsTyped == Dom!Spec => []Dom!TypeOK
<1>1. ListInv /\ OthersTyped /\ [Dom!Next]_Dom!dvars => ListInv' /\ OthersTyped'
  BY ListStep, OthersStep
<1>2. Dom!Init => SelectionTyped
  BY DEF Dom!Init, SelectionTyped
<1>3. SelectionTyped /\ [Dom!Next]_Dom!dvars => SelectionTyped'
  <2> SUFFICES ASSUME SelectionTyped, [Dom!Next]_Dom!dvars PROVE SelectionTyped'
    OBVIOUS
  <2> USE DEF Dom!view, Dom!list, Dom!check, Dom!rest
  <2>1. CASE \/ \E f \in s7 : Dom!FetchArrives(f) \/ Dom!FetchFails(f)
             \/ Dom!handle_load_more \/ Dom!set_search \/ Dom!Debounce \/ UNCHANGED Dom!dvars
             \/ \E t \in Dom!Tabs : Dom!set_active_tab(t)
    BY <2>1 DEF Dom!FetchArrives, Dom!FetchFails, Dom!handle_load_more, Dom!set_search,
       Dom!Debounce, Dom!dvars, Dom!set_active_tab, SelectionTyped, Dom!load_domains, Dom!refetch
  <2>2. CASE \E d \in Dom!Names : \/ Dom!select(d) \/ Dom!handle_verify(d)
                                    \/ Dom!GlowEnds(d) \/ Dom!handle_delete(d)
    BY <2>2 DEF Dom!select, Dom!handle_verify, Dom!GlowEnds, Dom!handle_delete, SelectionTyped
  <2>3. CASE \E i \in 1..MaxClicks : Dom!VerifyServed(i) \/ Dom!VerifyLost(i) \/ Dom!verify(i)
    BY <2>3 DEF Dom!VerifyServed, Dom!VerifyLost, Dom!verify, SelectionTyped,
       Dom!load_domains, Dom!LateRefetch
  <2>4. CASE \E r \in s16 : Dom!DeleteServed(r) \/ Dom!remove(r) \/ Dom!RemoveFails(r)
    BY <2>4 DEF Dom!DeleteServed, Dom!remove, Dom!RemoveFails, SelectionTyped,
       Dom!load_domains, Dom!LateRefetch
  <2>5. CASE \/ Dom!OpenForm \/ Dom!CloseForm \/ Dom!handle_add
             \/ \E a \in s18 : Dom!AddServed(a) \/ Dom!AddFails(a)
    BY <2>5 DEF Dom!OpenForm, Dom!CloseForm, Dom!handle_add, Dom!AddServed,
       Dom!AddFails, SelectionTyped
  <2>6. CASE \E a \in s18 : Dom!on_added(a)
    <3>1. s19' = 3 /\ s9' = TRUE /\ s12' = s12 /\ s14' = s14
      BY <2>6 DEF Dom!on_added, Dom!LateRefetch, Dom!load_domains
    <3> QED BY <3>1 DEF SelectionTyped, Dom!Names
  <2> QED BY <2>1, <2>2, <2>3, <2>4, <2>5, <2>6 DEF Dom!Next
<1>4. ListInv /\ SelectionTyped => Dom!TypeOK
  <2> SUFFICES ASSUME ListInv, SelectionTyped PROVE Dom!TypeOK
    OBVIOUS
  <2>1. s2 \in Dom!Tabs /\ s4 \in BOOLEAN
    BY DEF ListInv, ListTyped, Dom!View, DomainViews
  <2>2. \A i \in DOMAIN s5 : s5[i] \in [name : Dom!Names, status : Dom!Statuses]
    <3>1. s5 \in Seq(ListRows)
      BY DEF ListInv, ListTyped
    <3>2. \A i \in DOMAIN s5 : s5[i] \in ListRows
      BY <3>1
    <3> QED BY <3>2 DEF ListRows
  <2>3. s9 = \E f \in s7 : f.id = s8
    BY DEF ListInv, ListTyped, Requested, SelectionTyped
  <2> QED BY <2>1, <2>2, <2>3 DEF ListInv, ListTyped, SelectionTyped, Dom!TypeOK
<1> QED BY <1>1, <1>2, <1>3, <1>4, ListInit, OthersInit, PTL DEF Dom!Spec

\* The states of the schedules, and the requests for them.
ScheduleLists == [Sch!Ids -> {"absent", "active", "paused"}]
ScheduleLoads == [id : 1..Sch!MaxLoads, after : {"page", "toggle", "submit", "delete"},
                  found : ScheduleLists \union {None}, version : Nat]
ScheduleToggles == [id : Sch!Ids, from : {"absent", "active", "paused"}, served : BOOLEAN,
                    to : {"active", "paused"}]

\* What is on its way to the page, and what is on it. One handler waits for the list after
\* a submission, and nothing else ends the submission.
LoadsTyped ==
  /\ s2 \in Nat /\ s4 \in Nat /\ s4 <= s2 /\ faults \in Nat
  /\ s1 \in ScheduleLists /\ s3 \in ScheduleLists
  /\ s5 \subseteq ScheduleLoads /\ s10 \subseteq ScheduleToggles
  /\ \A l \in s5 : /\ l.version \in Nat /\ l.version <= s2
                   /\ l.after = "submit" => s12 = "loading"
  /\ \A l, m \in s5 : l.after = "submit" /\ m.after = "submit" => l = m
  /\ \A t \in s10 : t.to # t.from
  /\ s9 \in Sch!Ids \union {None} /\ s11 \in Sch!Ids \union {Sch!New, None}

\* A list of the youngest version is the backend's.
VersionsTell ==
  /\ \A l \in s5 : l.found # None /\ l.version = s2 => l.found = s1
  /\ s7 /\ ~s19 /\ s4 = s2 => s3 = s1

\* Somebody will bring the last change to the page, or it has come.
ChangeComes ==
  \/ faults > 0
  \/ s7 /\ s4 = s2
  \/ \E l \in s5 : l.found = None \/ l.version = s2
  \/ \E t \in s10 : t.served
  \/ s12 = "served"
  \/ \E d \in s17 : d.served

\* What is loaded follows what is stored.
LoadsInv == LoadsTyped /\ VersionsTell /\ ChangeComes

\* The list is asked for at first.
LEMMA LoadsInit == Sch!Init => LoadsInv
<1> SUFFICES ASSUME Sch!Init PROVE LoadsInv
  OBVIOUS
<1> DEFINE first == [id |-> 1, after |-> "page", found |-> None, version |-> 0]
<1>1. s5 = {first} /\ first.found = None /\ first.version = 0 /\ first.after = "page"
      /\ first \in ScheduleLoads
  BY DEF Sch!Init, ScheduleLoads, Sch!MaxLoads
<1> HIDE DEF first
<1>2. LoadsTyped
  BY <1>1 DEF Sch!Init, LoadsTyped, ScheduleLists
<1>3. VersionsTell /\ ChangeComes
  BY <1>1 DEF Sch!Init, VersionsTell, ChangeComes
<1> QED BY <1>2, <1>3 DEF LoadsInv

\* Another request for the list will bring the last change.
LEMMA LoadsAgain ==
  ASSUME LoadsInv, NEW after \in {"page", "toggle", "submit", "delete"}, Sch!loadData(after),
         UNCHANGED <<s1, s2>>,
         after = "submit" => s12 = "served" /\ s12' = "loading",
         after # "submit" => s12' = s12,
         faults' \in Nat, \A t \in s10' : t \in s10,
         s9' \in Sch!Ids \union {None}, s11' \in Sch!Ids \union {Sch!New, None}
  PROVE  LoadsInv'
<1>1. PICK n \in 1..Sch!MaxLoads :
        s5' = s5 \union {[id |-> n, after |-> after, found |-> None, version |-> 0]}
  BY DEF Sch!loadData
<1> DEFINE asked == [id |-> n, after |-> after, found |-> None, version |-> 0]
<1>2. /\ s5' = s5 \union {asked} /\ asked.found = None /\ asked.version = 0
      /\ asked.after = after /\ asked \in ScheduleLoads
  BY <1>1 DEF ScheduleLoads
<1>3. UNCHANGED <<s3, s4, s7, s19>>
  BY DEF Sch!loadData
<1> HIDE DEF asked
<1>4. LoadsTyped'
  BY <1>2, <1>3 DEF LoadsInv, LoadsTyped
<1>5. VersionsTell'
  BY <1>2, <1>3 DEF LoadsInv, VersionsTell
<1>6. ChangeComes'
  BY <1>2 DEF ChangeComes
<1> QED BY <1>4, <1>5, <1>6 DEF LoadsInv

\* A change is stored, and its handler goes on to load the list.
LEMMA ChangeStored ==
  ASSUME LoadsInv, s1' \in ScheduleLists, s2' = s2 + 1,
         UNCHANGED <<s3, s4, s5, s7, s9, s11, s19, faults>>,
         s12' = s12 \/ s12 = "sent",
         \/ \E t \in s10' : t.served
         \/ s12' = "served"
         \/ \E d \in s17' : d.served,
         s10' \subseteq ScheduleToggles, \A t \in s10' : t.to # t.from
  PROVE  LoadsInv'
<1>1. LoadsTyped'
  BY DEF LoadsInv, LoadsTyped
<1>2. VersionsTell'
  BY DEF LoadsInv, LoadsTyped, VersionsTell
<1>3. ChangeComes'
  BY DEF ChangeComes
<1> QED BY <1>1, <1>2, <1>3 DEF LoadsInv

\* What leaves the lists alone, and all that brings the last change.
LEMMA LoadsStay ==
  ASSUME LoadsInv, UNCHANGED <<s1, s2, s3, s4, s5, s7, s19>>,
         s9' \in Sch!Ids \union {None}, s11' \in Sch!Ids \union {Sch!New, None},
         faults' \in Nat, faults' >= faults,
         s12 = "loading" => s12' = "loading",
         s10' \subseteq ScheduleToggles, \A t \in s10' : t.to # t.from,
         faults' = 0 => /\ \A t \in s10 : t.served => t \in s10'
                        /\ s12 = "served" => s12' = "served"
                        /\ \A d \in s17 : d.served => d \in s17'
  PROVE  LoadsInv'
<1>1. LoadsTyped'
  BY DEF LoadsInv, LoadsTyped
<1>2. VersionsTell'
  BY DEF LoadsInv, VersionsTell
<1>3. ChangeComes'
  BY DEF LoadsInv, LoadsTyped, ChangeComes
<1> QED BY <1>1, <1>2, <1>3 DEF LoadsInv

\* Every step of the page keeps that.
LEMMA LoadsStep == ASSUME LoadsInv, Sch!IInv, [Sch!Next]_Sch!svars PROVE LoadsInv'
<1> USE DEF Sch!backend, Sch!listing, Sch!editor, Sch!dialog
<1>0. /\ faults \in Nat /\ s9 \in Sch!Ids \union {None}
      /\ s11 \in Sch!Ids \union {Sch!New, None} /\ s1 \in ScheduleLists /\ s3 \in ScheduleLists
      /\ s10 \subseteq ScheduleToggles /\ \A t \in s10 : t.to # t.from
      /\ s16 \in Sch!Ids \union {None} /\ s17 \subseteq Sch!Deletions
  BY DEF LoadsInv, LoadsTyped, Sch!IInv
<1>1. ASSUME NEW l \in s5, Sch!LoadServed(l) PROVE LoadsInv'
  <2> DEFINE served == [l EXCEPT !.found = s1, !.version = s2]
  <2>1. /\ s5' = (s5 \ {l}) \union {served} /\ UNCHANGED <<s1, s2, s3, s4, s7, s9, s10>>
        /\ UNCHANGED <<s11, s12, s17, s19, faults>>
    BY <1>1 DEF Sch!LoadServed
  <2>2. l \in ScheduleLoads
    BY DEF LoadsInv, LoadsTyped
  <2>3. /\ served \in ScheduleLoads /\ served.found = s1 /\ served.version = s2
        /\ served.after = l.after
    BY <1>0, <2>2 DEF ScheduleLoads, LoadsInv, LoadsTyped
  <2> HIDE DEF served
  <2>4. LoadsTyped'
    BY <2>1, <2>3 DEF LoadsInv, LoadsTyped
  <2>5. VersionsTell'
    BY <2>1, <2>3 DEF LoadsInv, VersionsTell
  <2>6. ChangeComes'
    BY <2>1, <2>3 DEF ChangeComes
  <2> QED BY <2>4, <2>5, <2>6 DEF LoadsInv
<1>2. ASSUME NEW l \in s5, Sch!LoadArrives(l) PROVE LoadsInv'
  <2>1. /\ s5' = s5 \ {l} /\ s3' = l.found /\ s7' = TRUE /\ s19' = (l.version < s4)
        /\ s4' = IF l.version < s4 THEN s4 ELSE l.version
        /\ UNCHANGED <<s1, s2, s10, s11, s17, faults>>
        /\ s9' \in {None, s9} /\ s12' = IF l.after = "submit" THEN "none" ELSE s12
        /\ l.found # None
    BY <1>2 DEF Sch!LoadArrives, Sch!Finally
  <2>2. /\ s5 \subseteq ScheduleLoads /\ l \in ScheduleLoads
        /\ l.version \in Nat /\ l.version <= s2 /\ s4 \in Nat
    BY DEF LoadsInv, LoadsTyped
  <2>3. l.found \in ScheduleLists
    BY <2>1, <2>2 DEF ScheduleLoads
  <2>4. LoadsTyped'
    <3>1. \A m \in s5' : m \in s5 /\ (m.after = "submit" => l.after # "submit")
      BY <2>1 DEF LoadsInv, LoadsTyped
    <3>2. s9' \in Sch!Ids \union {None}
      BY <1>0, <2>1
    <3>3. s4' \in Nat /\ s4' <= s2
      BY <2>1, <2>2 DEF LoadsInv, LoadsTyped
    <3> HIDE DEF ScheduleLists
    <3>4. \A m \in s5' : m.after = "submit" => s12' = "loading"
      BY <2>1, <3>1 DEF LoadsInv, LoadsTyped
    <3> QED BY <2>1, <2>2, <2>3, <3>1, <3>2, <3>3, <3>4 DEF LoadsInv, LoadsTyped
  <2>5. VersionsTell'
    BY <2>1, <2>2 DEF LoadsInv, LoadsTyped, VersionsTell
  <2>6. ChangeComes'
    BY <2>1, <2>2 DEF LoadsInv, LoadsTyped, ChangeComes
  <2> QED BY <2>4, <2>5, <2>6 DEF LoadsInv
<1>3. ASSUME NEW l \in s5, Sch!LoadFails(l) PROVE LoadsInv'
  <2>1. /\ s5' = s5 \ {l} /\ UNCHANGED <<s1, s2, s3, s4, s7, s10, s11, s17, s19>>
        /\ s9' \in {None, s9} /\ s12' = IF l.after = "submit" THEN "none" ELSE s12
        /\ faults' = faults + 1
    BY <1>3 DEF Sch!LoadFails, Sch!Finally, Sch!Fault
  <2>2. LoadsTyped'
    BY <2>1 DEF LoadsInv, LoadsTyped
  <2>3. VersionsTell'
    BY <2>1 DEF LoadsInv, VersionsTell
  <2>4. ChangeComes'
    BY <1>0, <2>1 DEF ChangeComes
  <2> QED BY <2>2, <2>3, <2>4 DEF LoadsInv
<1>4. CASE Sch!Refresh
  BY <1>0, <1>4, LoadsAgain DEF Sch!Refresh
<1>5. ASSUME NEW s \in Sch!Ids, Sch!toggleSchedule(s) PROVE LoadsInv'
  <2> DEFINE new == [id |-> s, from |-> s3[s], served |-> FALSE,
                     to |-> IF s3[s] = "active" THEN "paused" ELSE "active"]
  <2>1. s10' = s10 \union {new} /\ s9' = s
        /\ UNCHANGED <<s1, s2, s3, s4, s5, s7, s11, s12, s17, s19, faults>>
    BY <1>5 DEF Sch!toggleSchedule
  <2>2. new \in ScheduleToggles /\ new.to # new.from
    BY <1>0 DEF ScheduleToggles, ScheduleLists
  <2> HIDE DEF new
  <2> QED BY <1>0, <2>1, <2>2, LoadsStay
<1>6. CASE \/ \E s \in Sch!Ids : Sch!openEditForm(s) \/ Sch!AskToDelete(s)
           \/ Sch!openCreateForm \/ Sch!closeForm \/ Sch!handleSubmit \/ Sch!KeepSchedule
           \/ UNCHANGED Sch!svars
  <2>1. /\ UNCHANGED <<s1, s2, s3, s4, s5, s7, s9, s10, s17, s19, faults>>
        /\ s11' \in Sch!Ids \union {Sch!New, None}
        /\ s12' = s12 \/ s12 \notin {"loading", "served"}
    BY <1>0, <1>6 DEF Sch!openEditForm, Sch!AskToDelete, Sch!openCreateForm, Sch!closeForm,
       Sch!handleSubmit, Sch!KeepSchedule, Sch!svars
  <2> QED BY <1>0, <2>1, LoadsStay
<1>7. ASSUME NEW t \in s10, Sch!ToggleServed(t) PROVE LoadsInv'
  <2> DEFINE served == [t EXCEPT !.served = TRUE]
  <2>1. /\ s10' = (s10 \ {t}) \union {served} /\ s2' = s2 + 1 /\ s1' = [s1 EXCEPT ![t.id] = t.to]
        /\ UNCHANGED <<s3, s4, s5, s7, s9, s11, s12, s17, s19, faults>>
    BY <1>7 DEF Sch!ToggleServed
  <2>2. t \in ScheduleToggles /\ t.to # t.from
    BY DEF LoadsInv, LoadsTyped
  <2>3. /\ served \in ScheduleToggles /\ served.served /\ served.to = t.to
        /\ served.from = t.from
    BY <2>2 DEF ScheduleToggles
  <2>4. s1' \in ScheduleLists
    BY <1>0, <2>1, <2>2 DEF ScheduleLists, ScheduleToggles
  <2> HIDE DEF served
  <2>5. s10' \subseteq ScheduleToggles /\ \A u \in s10' : u.to # u.from
    BY <1>0, <2>1, <2>2, <2>3
  <2> QED BY <1>0, <2>1, <2>3, <2>4, <2>5, ChangeStored
<1>8. ASSUME NEW t \in s10, Sch!ToggleAnswered(t) PROVE LoadsInv'
  BY <1>0, <1>8, LoadsAgain DEF Sch!ToggleAnswered
<1>9. ASSUME NEW t \in s10, Sch!ToggleFails(t) PROVE LoadsInv'
  <2>1. /\ s10' = s10 \ {t} /\ s9' = None
        /\ UNCHANGED <<s1, s2, s3, s4, s5, s7, s11, s12, s17, s19>>
        /\ (~t.served /\ faults' = faults) \/ faults' = faults + 1
    BY <1>9 DEF Sch!ToggleFails, Sch!Fault
  <2> QED BY <1>0, <2>1, LoadsStay
<1>10. CASE Sch!SubmissionServed
  <2>1. /\ s12 = "sent" /\ s12' = "served" /\ s2' = s2 + 1
        /\ s1' \in {s1, [s1 EXCEPT ![3] = "active"]}
        /\ UNCHANGED <<s3, s4, s5, s7, s9, s10, s11, s17, s19, faults>>
    BY <1>10 DEF Sch!SubmissionServed
  <2>2. s1' \in ScheduleLists
    BY <1>0, <2>1 DEF ScheduleLists
  <2> QED BY <1>0, <2>1, <2>2, ChangeStored
<1>11. CASE Sch!SubmissionAnswered
  BY <1>0, <1>11, LoadsAgain DEF Sch!SubmissionAnswered
<1>12. CASE Sch!SubmissionFails
  <2>1. /\ s12 \in {"sent", "served"} /\ s12' = "none"
        /\ UNCHANGED <<s1, s2, s3, s4, s5, s7, s9, s10, s11, s17, s19>>
        /\ (s12 # "served" /\ faults' = faults) \/ faults' = faults + 1
    BY <1>12 DEF Sch!SubmissionFails, Sch!Fault
  <2> QED BY <1>0, <2>1, LoadsStay
<1>13. CASE Sch!removeSchedule
  <2>1. PICK n \in 1..Sch!MaxDeletions :
          s17' = s17 \union {[no |-> n, id |-> s16, editing |-> s11 = s16, served |-> FALSE]}
    BY <1>13 DEF Sch!removeSchedule
  <2>2. /\ s9' = s16 /\ s16 \in Sch!Ids
        /\ UNCHANGED <<s1, s2, s3, s4, s5, s7, s10, s11, s12, s19, faults>>
    BY <1>0, <1>13 DEF Sch!removeSchedule, Sch!DialogButtons
  <2> QED BY <1>0, <2>1, <2>2, LoadsStay
<1>14. ASSUME NEW d \in s17, Sch!DeletionServed(d) PROVE LoadsInv'
  <2>1. /\ s17' = (s17 \ {d}) \union {[d EXCEPT !.served = TRUE]} /\ s2' = s2 + 1
        /\ s1' = [s1 EXCEPT ![d.id] = "absent"] /\ d \in Sch!Deletions
        /\ UNCHANGED <<s3, s4, s5, s7, s9, s10, s11, s12, s19, faults>>
    BY <1>0, <1>14 DEF Sch!DeletionServed
  <2>2. [d EXCEPT !.served = TRUE].served
    BY <2>1 DEF Sch!Deletions
  <2>3. s1' \in ScheduleLists
    BY <1>0, <2>1 DEF ScheduleLists
  <2> QED BY <1>0, <2>1, <2>2, <2>3, ChangeStored
<1>15. ASSUME NEW d \in s17, Sch!DeletionAnswered(d) PROVE LoadsInv'
  BY <1>0, <1>15, LoadsAgain DEF Sch!DeletionAnswered
<1>16. ASSUME NEW d \in s17, Sch!DeletionFails(d) PROVE LoadsInv'
  <2>1. /\ s17' = s17 \ {d} /\ s9' = None
        /\ UNCHANGED <<s1, s2, s3, s4, s5, s7, s10, s11, s12, s19>>
        /\ (~d.served /\ faults' = faults) \/ faults' = faults + 1
    BY <1>16 DEF Sch!DeletionFails, Sch!Fault
  <2> QED BY <1>0, <2>1, LoadsStay
<1> QED
  BY <1>1, <1>2, <1>3, <1>4, <1>5, <1>6, <1>7, <1>8, <1>9, <1>10, <1>11, <1>12, <1>13, <1>14,
     <1>15, <1>16 DEF Sch!Next

\* At rest, without a fault, the page shows the schedules as they are.
LEMMA ListFollowsStore == Sch!Spec => [](Sch!ListIsCurrent /\ Sch!TypeOK)
<1>1. Sch!IInv /\ [Sch!Next]_Sch!svars => Sch!IInv'
  BY SchedulesStepSound
<1>2. LoadsInv /\ Sch!IInv /\ [Sch!Next]_Sch!svars => LoadsInv'
  BY LoadsStep
<1>3. LoadsInv => Sch!ListIsCurrent
  BY DEF LoadsInv, LoadsTyped, VersionsTell, ChangeComes, Sch!ListIsCurrent, Sch!AtRest
<1>4. LoadsInv /\ Sch!IInv => Sch!TypeOK
  BY DEF LoadsInv, LoadsTyped, ScheduleLists, Sch!IInv, Sch!TypeOK
<1> QED BY <1>1, <1>2, <1>3, <1>4, LoadsInit, SchedulesInit, PTL DEF Sch!Spec

\* An answer about the scan: when the scan has ended, so have its sources.
EndedTogether(a) ==
  a.status \in Pro!TerminalScanStatuses =>
    \A i \in Pro!Sources : a.sources[i] \in Pro!TerminalSourceStatuses

\* What the backend, the answers on their way and the page say of the scan. They arrive in
\* their order or one was overtaken, and what was finished once stays so.
WatchInv ==
  /\ Pro!fetchScanStatus \in Pro!Answers /\ EndedTogether(Pro!fetchScanStatus)
  /\ s14 \in Seq(Pro!Answers)
  /\ \A i \in DOMAIN s14 : EndedTogether(s14[i])
  /\ s12 \in Pro!Answers \union {None} /\ (s12 # None => EndedTogether(s12))
  /\ s6 # "none" => ~s11
  /\ ~s11 => s12 = None /\ s14 = <<>> /\ ~s13 /\ ~s16
  /\ s11 /\ ~s13 => s16 \/ (s12 # None /\ Pro!Finished(s12))
  /\ \A i \in DOMAIN s14 :
       Pro!Finished(s14[i]) =>
         /\ Pro!Finished(Pro!fetchScanStatus)
         /\ \A j \in DOMAIN s14 : i <= j => Pro!Finished(s14[j])
  /\ ~s16 /\ s12 # None /\ Pro!Finished(s12) =>
       /\ Pro!Finished(Pro!fetchScanStatus)
       /\ \A j \in DOMAIN s14 : Pro!Finished(s14[j])

\* No value is not an answer.
LEMMA AnswersAreSome == None \notin Pro!Answers
<1>1. /\ Pro!Statuses = {"queued", "running", "completed", "failed", "partial"}
      /\ Pro!SourceStatuses = {"preparing", "pending", "running", "completed", "failed", "partial",
                               "skipped"}
  BY DEF Pro!Statuses, Pro!TerminalScanStatuses, Pro!SourceStatuses, Pro!TerminalSourceStatuses
<1> QED BY <1>1, NoneAssumption, Zenon DEF Pro!Answers, Pro!IndexStatuses, Pro!Sources

\* A sequence without one of its elements.
Dropped(q, i) == SubSeq(q, 1, i - 1) \o SubSeq(q, i + 1, Len(q))

\* The answers that remain keep their order.
LEMMA RemainingAnswers ==
  ASSUME NEW S, NEW q \in Seq(S), NEW i \in 1..Len(q), NEW r, r = Dropped(q, i)
  PROVE  /\ r \in Seq(S) /\ Len(r) = Len(q) - 1
         /\ \A k \in DOMAIN r : \/ k < i /\ k \in DOMAIN q /\ r[k] = q[k]
                                \/ k >= i /\ k + 1 \in DOMAIN q /\ r[k] = q[k + 1]
<1>1. /\ SubSeq(q, 1, i - 1) \in Seq(S) /\ Len(SubSeq(q, 1, i - 1)) = i - 1
      /\ \A k \in 1..(i - 1) : SubSeq(q, 1, i - 1)[k] = q[k]
  OBVIOUS
<1>2. /\ SubSeq(q, i + 1, Len(q)) \in Seq(S) /\ Len(SubSeq(q, i + 1, Len(q))) = Len(q) - i
      /\ \A k \in 1..(Len(q) - i) : SubSeq(q, i + 1, Len(q))[k] = q[k + i]
  OBVIOUS
<1> DEFINE a == SubSeq(q, 1, i - 1)
           b == SubSeq(q, i + 1, Len(q))
<1> HIDE DEF a, b
<1>3. a \in Seq(S) /\ b \in Seq(S) /\ Len(a) = i - 1 /\ Len(b) = Len(q) - i /\ r = a \o b
      /\ (\A k \in 1..(i - 1) : a[k] = q[k]) /\ \A k \in 1..(Len(q) - i) : b[k] = q[k + i]
  BY <1>1, <1>2 DEF a, b, Dropped
<1>4. /\ Len(r) = Len(a) + Len(b) /\ r \in Seq(S)
      /\ \A k \in 1..(Len(a) + Len(b)) : r[k] = IF k <= Len(a) THEN a[k] ELSE b[k - Len(a)]
  <2>1. a \in Seq(S) /\ b \in Seq(S) /\ r = a \o b
    BY <1>3
  <2> QED BY <2>1, ConcatProperties, Zenon
<1>6. Len(q) \in Nat /\ DOMAIN r = 1..Len(r) /\ DOMAIN q = 1..Len(q) /\ i \in Int
  BY <1>4
<1>7. Len(r) = Len(q) - 1
  <2>1. Len(a) = i - 1 /\ Len(b) = Len(q) - i /\ Len(r) = Len(a) + Len(b)
    BY <1>3, <1>4
  <2>2. \A n, m, u, v, w :
          n \in Nat /\ m \in Int /\ u = m - 1 /\ v = n - m /\ w = u + v => w = n - 1
    OBVIOUS
  <2> QED BY <1>6, <2>1, <2>2
<1>5. ASSUME NEW k \in DOMAIN r
      PROVE  \/ k < i /\ k \in DOMAIN q /\ r[k] = q[k]
             \/ k >= i /\ k + 1 \in DOMAIN q /\ r[k] = q[k + 1]
  <2>1. /\ k \in 1..(Len(q) - 1) /\ DOMAIN q = 1..Len(q)
        /\ r[k] = IF k <= Len(a) THEN a[k] ELSE b[k - Len(a)]
    BY <1>3, <1>4, <1>6, <1>7
  <2>2. CASE k < i
    BY <2>1, <2>2, <1>3
  <2>3. CASE k >= i
    <3>1. k - Len(a) \in 1..(Len(q) - i) /\ (k - Len(a)) + i = k + 1
      BY <2>1, <2>3, <1>3, <1>6
    <3>2. r[k] = b[k - Len(a)]
      BY <2>1, <2>3, <1>3
    <3>3. b[k - Len(a)] = q[k + 1]
      BY <3>1, <1>3
    <3>4. k + 1 \in DOMAIN q
      BY <2>1, <1>6
    <3> QED BY <2>3, <3>2, <3>3, <3>4
  <2> QED BY <2>1, <2>2, <2>3
<1> QED BY <1>4, <1>5, <1>7

\* Nothing is watched at first.
LEMMA WatchInit == Pro!Init => WatchInv
BY DEF Pro!Init, WatchInv, EndedTogether, Pro!fetchScanStatus, Pro!Answers, Pro!Statuses,
   Pro!TerminalScanStatuses, Pro!IndexStatuses, Pro!Sources, Pro!SourceStatuses

\* The end of a scan is the end of its sources, and nothing changes after it.
LEMMA ServerGoesOn ==
  ASSUME WatchInv, Pro!ScanRuns \/ Pro!IndexRuns
  PROVE  /\ Pro!fetchScanStatus' \in Pro!Answers /\ EndedTogether(Pro!fetchScanStatus')
         /\ ~Pro!Finished(Pro!fetchScanStatus)
<1>1. /\ s2 \in Pro!Statuses /\ s4 \in Pro!IndexStatuses
      /\ s3 \in [Pro!Sources -> Pro!SourceStatuses]
      /\ s2 \in Pro!TerminalScanStatuses =>
           \A i \in Pro!Sources : s3[i] \in Pro!TerminalSourceStatuses
  BY DEF WatchInv, Pro!fetchScanStatus, Pro!Answers, EndedTogether
<1>2. /\ s2' \in Pro!Statuses /\ s4' \in Pro!IndexStatuses
      /\ s3' \in [Pro!Sources -> Pro!SourceStatuses]
      /\ s2' \in Pro!TerminalScanStatuses =>
           \A i \in Pro!Sources : s3'[i] \in Pro!TerminalSourceStatuses
      /\ s2 \notin Pro!TerminalScanStatuses \/ (s2 # "failed" /\ s4 \notin {"ready", "failed"})
  <2>1. CASE Pro!IndexRuns
    BY <1>1, <2>1 DEF Pro!IndexRuns, Pro!IndexStatuses
  <2>2. CASE Pro!ScanRuns
    <3>1. CASE s2 = "queued" /\ s2' = "running" /\ UNCHANGED <<s3, s4>>
      BY <1>1, <3>1 DEF Pro!Statuses, Pro!TerminalScanStatuses
    <3>2. CASE s2 = "running" /\ UNCHANGED <<s2, s4>>
               /\ \E i \in Pro!Sources, next \in Pro!SourceStatuses : s3' = [s3 EXCEPT ![i] = next]
      BY <1>1, <3>2 DEF Pro!Statuses, Pro!TerminalScanStatuses
    <3>3. CASE s2 = "running" /\ (\A i \in Pro!Sources : s3[i] \in Pro!TerminalSourceStatuses)
               /\ s2' = Pro!Concluded /\ UNCHANGED <<s3, s4>>
      BY <1>1, <3>3 DEF Pro!Statuses, Pro!TerminalScanStatuses, Pro!Concluded
    <3>4. ASSUME s2 = "running", UNCHANGED <<s2, s4>>, NEW i \in Pro!Sources,
                 NEW next \in CASE s3[i] = "pending" -> {"running"}
                              [] s3[i] = "running" -> {"completed", "failed"}
                              [] OTHER -> {},
                 s3' = [s3 EXCEPT ![i] = next]
          PROVE  \E j \in Pro!Sources, n \in Pro!SourceStatuses : s3' = [s3 EXCEPT ![j] = n]
      <4>1. next \in Pro!SourceStatuses
        BY <3>4 DEF Pro!SourceStatuses, Pro!TerminalSourceStatuses
      <4> QED BY <3>4, <4>1
    <3> QED BY <2>2, <3>1, <3>2, <3>3, <3>4 DEF Pro!ScanRuns
  <2> QED BY <2>1, <2>2
<1>3. Pro!fetchScanStatus' = [status |-> s2', index |-> s4', sources |-> s3']
      /\ Pro!fetchScanStatus = [status |-> s2, index |-> s4, sources |-> s3]
  BY DEF Pro!fetchScanStatus
<1>4. Pro!fetchScanStatus' \in Pro!Answers /\ EndedTogether(Pro!fetchScanStatus')
  BY <1>2, <1>3 DEF Pro!Answers, EndedTogether
<1>5. ~Pro!Finished(Pro!fetchScanStatus)
  BY <1>2, <1>3 DEF Pro!Finished, Pro!IndexFinished
<1> QED BY <1>4, <1>5

\* Every step keeps what is said of the scan in order.
LEMMA WatchStep == ASSUME WatchInv, [Pro!Next]_Pro!wvars PROVE WatchInv'
<1> USE DEF Pro!server, Pro!start, Pro!page
<1> DEFINE now == Pro!fetchScanStatus
           Served == now' = now
<1>1. CASE Pro!ScanRuns \/ Pro!IndexRuns
  <2>1. UNCHANGED <<s6, s11, s12, s13, s14, s16>>
    BY <1>1 DEF Pro!ScanRuns, Pro!IndexRuns
  <2>2. now' \in Pro!Answers /\ EndedTogether(now') /\ ~Pro!Finished(now)
    BY <1>1, ServerGoesOn
  <2> HIDE DEF now
  <2> QED BY <2>1, <2>2 DEF WatchInv, now
<1>2. CASE \/ Pro!ScanModeCards \/ Pro!ChooseDomain \/ Pro!SwitchPanel \/ Pro!TypeDomain
           \/ Pro!handleStart \/ Pro!PostServed \/ Pro!StartFails \/ UNCHANGED Pro!wvars
  <2>1. UNCHANGED <<s11, s12, s13, s14, s16>> /\ (s6' # "none" => s6 # "none" \/ ~s11)
    BY <1>2 DEF Pro!ScanModeCards, Pro!ChooseDomain, Pro!SwitchPanel, Pro!TypeDomain,
       Pro!handleStart, Pro!PostServed, Pro!StartFails, Pro!wvars
  <2>2. now' = now
    BY <1>2 DEF Pro!ScanModeCards, Pro!ChooseDomain, Pro!SwitchPanel, Pro!TypeDomain,
       Pro!handleStart, Pro!PostServed, Pro!StartFails, Pro!wvars, Pro!fetchScanStatus
  <2> HIDE DEF now
  <2> QED BY <2>1, <2>2 DEF WatchInv, now
<1>3. CASE Pro!PostAnswered \/ Pro!OpenRunning
  <2>1. /\ ~s11 /\ s11' /\ s13' /\ s14' = <<now>> /\ UNCHANGED <<s12, s16>> /\ s6' = "none"
    BY <1>3 DEF Pro!PostAnswered, Pro!OpenRunning, WatchInv
  <2>2. now' = now
    BY <1>3 DEF Pro!PostAnswered, Pro!OpenRunning, Pro!fetchScanStatus
  <2>3. now \in Pro!Answers /\ EndedTogether(now) /\ s12 = None
    BY <2>1 DEF WatchInv
  <2> HIDE DEF now
  <2>4. s14' \in Seq(Pro!Answers) /\ Len(s14') = 1 /\ DOMAIN s14' = {1} /\ s14'[1] = now
    BY <2>1, <2>3
  <2> QED BY <2>1, <2>2, <2>3, <2>4 DEF WatchInv, now
<1>4. CASE Pro!Tick
  <2>1. s13 /\ s14' = Append(s14, now) /\ UNCHANGED <<s6, s11, s12, s13, s16>>
    BY <1>4 DEF Pro!Tick
  <2>2. now' = now
    BY <1>4 DEF Pro!Tick, Pro!fetchScanStatus
  <2>3. now \in Pro!Answers /\ EndedTogether(now) /\ s14 \in Seq(Pro!Answers)
    BY DEF WatchInv
  <2> HIDE DEF now
  <2>4. /\ s14' \in Seq(Pro!Answers) /\ DOMAIN s14' = 1..(Len(s14) + 1) /\ DOMAIN s14 = 1..Len(s14)
        /\ s14'[Len(s14) + 1] = now /\ \A i \in DOMAIN s14 : s14'[i] = s14[i]
    BY <2>1, <2>3
  <2>5. \A i \in DOMAIN s14' :
          i \in DOMAIN s14 \/ (s14'[i] = now /\ \A j \in DOMAIN s14' : i <= j => j = i)
    BY <2>3, <2>4
  <2> QED BY <2>1, <2>2, <2>3, <2>4, <2>5 DEF WatchInv, now
<1>5. ASSUME NEW i \in 1..2, Pro!poll(i) \/ Pro!PollFails(i) PROVE WatchInv'
  <2>1. /\ i \in 1..Len(s14) /\ s14' = SubSeq(s14, 1, i - 1) \o SubSeq(s14, i + 1, Len(s14))
        /\ UNCHANGED <<s6, s11>>
    BY <1>5 DEF Pro!poll, Pro!PollFails, Pro!Remaining
  <2>2. now' = now
    BY <1>5 DEF Pro!poll, Pro!PollFails, Pro!fetchScanStatus
  <2>3. s14 \in Seq(Pro!Answers)
    BY DEF WatchInv
  <2>4. /\ s14' \in Seq(Pro!Answers)
        /\ \A k \in DOMAIN s14' : \/ k < i /\ k \in DOMAIN s14 /\ s14'[k] = s14[k]
                                  \/ k >= i /\ k + 1 \in DOMAIN s14 /\ s14'[k] = s14[k + 1]
    <3>1. PICK r : r = s14'
      OBVIOUS
    <3>2. r = Dropped(s14, i) /\ i \in 1..Len(s14)
      BY <2>1, <3>1 DEF Dropped
    <3>3. /\ r \in Seq(Pro!Answers)
          /\ \A k \in DOMAIN r : \/ k < i /\ k \in DOMAIN s14 /\ r[k] = s14[k]
                                 \/ k >= i /\ k + 1 \in DOMAIN s14 /\ r[k] = s14[k + 1]
      BY <2>3, <3>2, RemainingAnswers
    <3> QED BY <3>1, <3>3
  <2>5. i \in DOMAIN s14 /\ s14[i] \in Pro!Answers /\ EndedTogether(s14[i]) /\ s14[i] # None
        /\ s11
    <3>1. i \in DOMAIN s14 /\ s14[i] \in Pro!Answers
      BY <2>1, <2>3
    <3>2. s11
      BY <3>1 DEF WatchInv
    <3> QED BY <3>1, <3>2, AnswersAreSome DEF WatchInv
  <2>6. \A k \in DOMAIN s14' : k \in Nat
    BY <2>4
  <2> HIDE DEF now
  <2>7. /\ \A k \in DOMAIN s14' : EndedTogether(s14'[k])
        /\ \A k \in DOMAIN s14' : Pro!Finished(s14'[k]) =>
             /\ Pro!Finished(now)
             /\ \A j \in DOMAIN s14' : k <= j => Pro!Finished(s14'[j])
    <3>1. \A k \in DOMAIN s14' : EndedTogether(s14'[k])
      BY <2>4 DEF WatchInv
    <3>2. \A k \in DOMAIN s14' : Pro!Finished(s14'[k]) => Pro!Finished(now)
      BY <2>4 DEF WatchInv, now
    <3>3. ASSUME NEW k \in DOMAIN s14', NEW j \in DOMAIN s14', k <= j, Pro!Finished(s14'[k])
          PROVE  Pro!Finished(s14'[j])
      BY <2>4, <2>6, <3>3 DEF WatchInv
    <3> QED BY <3>1, <3>2, <3>3
  <2>8. CASE Pro!PollFails(i)
    <3>1. UNCHANGED <<s12, s13, s16>>
      BY <2>8 DEF Pro!PollFails
    <3>2. ~s16 /\ s12 # None /\ Pro!Finished(s12) => \A k \in DOMAIN s14' : Pro!Finished(s14'[k])
      BY <2>4 DEF WatchInv
    <3> QED BY <2>1, <2>2, <2>4, <2>5, <2>7, <3>1, <3>2 DEF WatchInv, now
  <2>9. CASE Pro!poll(i)
    <3>1. /\ s12' = s14[i] /\ (s13' <=> s13 /\ ~Pro!Finished(s14[i])) /\ (s16' <=> s16 \/ i > 1)
      BY <2>9 DEF Pro!poll
    <3>2. ~s16' => i = 1 /\ ~s16
      BY <3>1
    <3>3. ~s16' /\ Pro!Finished(s12') => \A k \in DOMAIN s14' : Pro!Finished(s14'[k])
      BY <2>4, <2>5, <2>6, <3>1, <3>2 DEF WatchInv
    <3>4. ~s13' => s16' \/ Pro!Finished(s12')
      BY <2>5, <3>1 DEF WatchInv
    <3>5. Pro!Finished(s12') => Pro!Finished(now)
      BY <2>5, <3>1 DEF WatchInv, now
    <3> QED BY <2>1, <2>2, <2>4, <2>5, <2>7, <3>1, <3>3, <3>4, <3>5 DEF WatchInv, now
  <2> QED BY <1>5, <2>8, <2>9
<1> QED BY <1>1, <1>2, <1>3, <1>4, <1>5 DEF Pro!Next

\* A page that has stopped asking shows the end, and nothing in it looks alive.
LEMMA ComesToRest == ASSUME WatchInv PROVE Pro!NeverStopsEarly /\ Pro!DiagramComesToRest
<1>1. Pro!NeverStopsEarly
  BY DEF WatchInv, Pro!NeverStopsEarly
<1>2. ASSUME s12 # None, ~s16, ~s13
      PROVE  /\ ~Pro!ScanNetworkDiagram.turning /\ "View Results" \in Pro!LinksOnward
             /\ \A i \in Pro!Sources : Pro!ScanNetworkDiagram.cards[i] \in {"success", "alert"}
             /\ Pro!ScanNetworkDiagram.lines = Pro!Sources
             /\ Pro!ScanDetailsBar.completed = Pro!Cardinality(Pro!Sources)
  <2>1. s12.status \in Pro!TerminalScanStatuses
    BY <1>2 DEF WatchInv, Pro!Finished
  <2>2. \A i \in Pro!Sources : s12.sources[i] \in Pro!TerminalSourceStatuses
    BY <1>2, <2>1 DEF WatchInv, EndedTogether
  <2>3. Pro!isComplete /\ Pro!Preparing = {}
    BY <2>1 DEF Pro!isComplete, Pro!Preparing
  <2>4. \A i \in Pro!Sources : Pro!scanActivity[i] \in Pro!TerminalSourceStatuses
    BY <2>2, <2>3 DEF Pro!scanActivity
  <2>5. \A s \in Pro!TerminalSourceStatuses :
          Pro!sourcePhase(s) = "done" /\ Pro!SourceCard(s) \in {"success", "alert"}
    BY DEF Pro!TerminalSourceStatuses, Pro!sourcePhase, Pro!SourceCard
  <2>6. ~Pro!ScanNetworkDiagram.turning /\ "View Results" \in Pro!LinksOnward
    BY <2>3 DEF Pro!ScanNetworkDiagram, Pro!LinksOnward
  <2>7. \A i \in Pro!Sources : Pro!ScanNetworkDiagram.cards[i] \in {"success", "alert"}
    BY <2>4, <2>5 DEF Pro!ScanNetworkDiagram
  <2>8. Pro!ScanNetworkDiagram.lines = Pro!Sources
    BY <2>4, <2>5 DEF Pro!ScanNetworkDiagram, Pro!FanColumn
  <2>9. Pro!Terminal(s12.sources) = Pro!Sources
    BY <2>2 DEF Pro!Terminal
  <2>10. Pro!ScanDetailsBar.completed = Pro!Cardinality(Pro!Sources)
    BY <2>9 DEF Pro!ScanDetailsBar
  <2> QED BY <2>6, <2>7, <2>8, <2>10
<1>3. ASSUME ~Pro!isComplete PROVE Pro!ActivityMessage # "none"
  BY <1>3 DEF Pro!ActivityMessage
<1>4. Pro!ScanMobileOverview.doneCount = Pro!ScanDetailsBar.completed
  <2>1. \A i \in Pro!Preparing : s12.sources[i] = "pending"
    BY DEF Pro!Preparing
  <2>2. Pro!Terminal(Pro!scanActivity) = Pro!Terminal(s12.sources)
    <3>1. \A i \in Pro!Sources : Pro!scanActivity[i] \in Pro!TerminalSourceStatuses <=>
                                   s12.sources[i] \in Pro!TerminalSourceStatuses
      BY <2>1 DEF Pro!scanActivity, Pro!TerminalSourceStatuses
    <3> QED BY <3>1 DEF Pro!Terminal
  <2> QED BY <2>2 DEF Pro!ScanMobileOverview, Pro!ScanDetailsBar
<1>5. Pro!DiagramComesToRest
  BY <1>2, <1>3, <1>4 DEF Pro!DiagramComesToRest
<1> QED BY <1>1, <1>5

\* So it is, always: the page of the progress asks until the end and comes to rest, and its
\* values stay in their types.
LEMMA EndIsKnown == Pro!Spec => [](Pro!NeverStopsEarly /\ Pro!DiagramComesToRest /\ Pro!TypeOK)
<1>1. WatchInv /\ OrdersAgree /\ [Pro!Next]_Pro!wvars => WatchInv' /\ OrdersAgree'
  BY WatchStep, OrdersStay
<1>2. WatchInv /\ OrdersAgree => Pro!NeverStopsEarly /\ Pro!DiagramComesToRest /\ Pro!TypeOK
  <2> SUFFICES ASSUME WatchInv, OrdersAgree PROVE Pro!TypeOK
    BY ComesToRest
  <2>1. s2 \in Pro!Statuses /\ s4 \in Pro!IndexStatuses
    BY DEF WatchInv, Pro!fetchScanStatus, Pro!Answers
  <2>2. \A i \in 1..Len(s14) : s14[i] \in Pro!Answers
    BY DEF WatchInv
  <2> QED BY <2>1, <2>2 DEF WatchInv, OrdersAgree, Pro!TypeOK
<1> QED BY <1>1, <1>2, WatchInit, ProgressInit, PTL DEF Pro!Spec

\* The page knows of the PDF what the backend said last; it asks as long as nothing else
\* was said, or has given up; and a report was mailed only when there was one.
ReportInv ==
  /\ Rep!TypeOK
  /\ s3 # "none" => s4 <= MaxReportChecks
  /\ s3 = "none" /\ ~s6 => s2 \in {"completed", "failed"} \/ s5
  /\ s15 # {} => s1 = "completed"
  /\ s11 = "sent" => s14 \in s15

\* Nothing is known at first.
LEMMA ReportPageInit == Rep!Init => ReportInv
BY ChecksAssumption DEF Rep!Init, ReportInv, Rep!TypeOK

\* Every step keeps that.
LEMMA ReportPageStep == ASSUME ReportInv, [Rep!Next]_Rep!rvars PROVE ReportInv'
<1> USE DEF Rep!load, Rep!show, Rep!email
<1>1. CASE Rep!Generated
  BY <1>1 DEF Rep!Generated, ReportInv, Rep!TypeOK
<1>2. CASE Rep!SummaryArrives
  <2>1. /\ s3 = "sent" /\ s2' = s1 /\ UNCHANGED <<s1, s6, s7, s8, s11, s14, s15>>
        /\ \/ /\ s1 = "generating" /\ s4' = s4 + 1
              /\ \/ s4' > MaxReportChecks /\ s3' = "none" /\ s5'
                 \/ ~(s4' > MaxReportChecks) /\ s3' = "timer" /\ ~s5'
           \/ s1 # "generating" /\ s3' = "none" /\ s4' = s4
    BY <1>2 DEF Rep!SummaryArrives, Rep!AfterCheck
  <2>2. s4 \in 0..MaxReportChecks /\ MaxReportChecks \in Nat /\ s4 + 1 \in 0..MaxReportChecks + 1
    BY <2>1, ChecksAssumption DEF ReportInv, Rep!TypeOK
  <2>3. Rep!TypeOK'
    BY <2>1, <2>2 DEF ReportInv, Rep!TypeOK
  <2> QED BY <2>1, <2>2, <2>3 DEF ReportInv, Rep!TypeOK
<1>3. CASE Rep!SummaryFails \/ Rep!TimerFires
  BY <1>3 DEF Rep!SummaryFails, Rep!TimerFires, ReportInv, Rep!TypeOK
<1>4. CASE \/ Rep!IntroDecided \/ Rep!IntroStarts \/ Rep!TimelineBuilt \/ Rep!IntroEnds \/ Rep!Skip
  BY <1>4 DEF Rep!IntroDecided, Rep!IntroStarts, Rep!TimelineBuilt, Rep!IntroEnds, Rep!Skip,
     Rep!Finish, ReportInv, Rep!TypeOK
<1>5. CASE \/ Rep!TypeAddress \/ Rep!handleSendReport \/ Rep!MailServed \/ Rep!MailRefused
           \/ Rep!MailAnswered \/ Rep!MailFails \/ UNCHANGED Rep!rvars
  BY <1>5 DEF Rep!TypeAddress, Rep!handleSendReport, Rep!MailServed, Rep!MailRefused,
     Rep!MailAnswered, Rep!MailFails, Rep!rvars, ReportInv, Rep!TypeOK
<1> QED BY <1>1, <1>2, <1>3, <1>4, <1>5 DEF Rep!Next

\* What the page of a report offers is there.
LEMMA OfferedReports == Rep!Spec => [](Rep!OfferedIsThere /\ Rep!TypeOK)
<1>1. ReportInv => Rep!OfferedIsThere /\ Rep!TypeOK
  <2> SUFFICES ASSUME ReportInv PROVE Rep!OfferedIsThere
    BY DEF ReportInv
  <2>1. Rep!downloadButton = "Download PDF" => s1 = "completed"
    <3>1. Rep!downloadButton = "Download PDF" => s2 = "completed"
      BY DEF Rep!downloadButton, Rep!reportState
    <3> QED BY <3>1, NoneAssumption DEF ReportInv, Rep!TypeOK
  <2>2. Rep!downloadButton = "Preparing PDF..." /\ ~s6 => s3 # "none"
    BY DEF Rep!downloadButton, Rep!reportState, ReportInv
  <2> QED BY <2>1, <2>2 DEF ReportInv, Rep!OfferedIsThere
<1> QED BY <1>1, ReportPageInit, ReportPageStep, PTL DEF Rep!Spec

\* The scans of a list, newest first.
ScansAre2(q, a, b) == q \in Seq(His!Scans) /\ Len(q) = 2 /\ q[1] = a /\ q[2] = b
ScansAre3(q, a, b, c) ==
  q \in Seq(His!Scans) /\ Len(q) = 3 /\ q[1] = a /\ q[2] = b /\ q[3] = c
ScansAre4(q, a, b, c, d) ==
  q \in Seq(His!Scans) /\ Len(q) = 4 /\ q[1] = a /\ q[2] = b /\ q[3] = c /\ q[4] = d

\* The pages of the history, as they come when a scan is started before, between and
\* after them.
PagesCome ==
  /\ s2 \in {3, 4} /\ s3 \in {0, 1, 2} \union {None}
  /\ s3 = 0 => s4 = <<>>
  /\ s3 = 1 => \/ ScansAre2(s4, 3, 2) /\ (s2 = 4 => s7)
               \/ ScansAre2(s4, 4, 3) /\ s2 = 4
  /\ s3 = 2 => s2 = 4 /\ ((ScansAre4(s4, 3, 2, 2, 1) /\ s7) \/ ScansAre4(s4, 4, 3, 2, 1))
  /\ s3 # None => s5 = None
  /\ s5 # None => \/ ScansAre3(s5, 3, 2, 1)
                  \/ ScansAre4(s5, 3, 2, 2, 1) /\ s7
                  \/ ScansAre4(s5, 4, 3, 2, 1) /\ s2 = 4

HistoryDialogs == [scan : His!Scans, email : His!Addresses \union {None},
                   to : His!Addresses \union {None},
                   state : {"form", "sending", "served", "sent", "error"}]

\* What is shown of the history, and the mail under way.
HistoryShown ==
  /\ s1 \in His!Worlds /\ s10 \in Nat
  /\ s8 \in His!Types \union {"all"} /\ s9 \in His!Domains \union {None}
  /\ s11 # None =>
       /\ s11 \in HistoryDialogs
       /\ s11.state \in {"sending", "served", "sent"} =>
            s11.to \in His!Addresses /\ s11.to = s11.email
       /\ s11.state \in {"served", "sent"} => <<s11.scan, s11.to>> \in s12
  /\ s12 \subseteq His!Scans \X His!Addresses

\* No list has come at first.
LEMMA HistoryInit == His!Init => PagesCome /\ HistoryShown
BY NoneAssumption DEF His!Init, PagesCome, HistoryShown, His!Existing, His!PAGE_SIZE

\* A page of the history has the scans from its offset on.
LEMMA HistoryPageIs ==
  ASSUME s2 \in {3, 4}, NEW n \in {0, 1, 2}
  PROVE  /\ s2 = 3 /\ n = 0 => ScansAre2(His!Page(n), 3, 2)
         /\ s2 = 4 /\ n = 0 => ScansAre2(His!Page(n), 4, 3)
         /\ s2 = 3 /\ n = 1 =>
               His!Page(n) \in Seq(His!Scans) /\ Len(His!Page(n)) = 1 /\ His!Page(n)[1] = 1
         /\ s2 = 4 /\ n = 1 => ScansAre2(His!Page(n), 2, 1)
         /\ s2 = 4 /\ n = 2 => His!Page(n) = <<>> /\ Len(His!Page(n)) = 0
<1> USE DEF His!Page, His!SCAN_HISTORY_PAGE, His!Scans, His!Existing
<1>1. CASE s2 = 3 /\ n = 0
  <2>1. His!Page(n) = [i \in 1..2 |-> 3 - 0 - i + 1]
    BY <1>1
  <2> QED BY <1>1, <2>1 DEF ScansAre2
<1>2. CASE s2 = 4 /\ n = 0
  <2>1. His!Page(n) = [i \in 1..2 |-> 4 - 0 - i + 1]
    BY <1>2
  <2> QED BY <1>2, <2>1 DEF ScansAre2
<1>3. CASE s2 = 3 /\ n = 1
  <2>1. His!Page(n) = [i \in 1..1 |-> 3 - 2 - i + 1]
    BY <1>3
  <2> QED BY <1>3, <2>1
<1>4. CASE s2 = 4 /\ n = 1
  <2>1. His!Page(n) = [i \in 1..2 |-> 4 - 2 - i + 1]
    BY <1>4
  <2> QED BY <1>4, <2>1 DEF ScansAre2
<1>5. CASE s2 = 4 /\ n = 2
  <2>1. His!Page(n) = [i \in 1..0 |-> 4 - 4 - i + 1]
    BY <1>5
  <2> QED BY <1>5, <2>1
<1> QED BY <1>1, <1>2, <1>3, <1>4, <1>5

\* One list after another.
LEMMA ListsJoined ==
  ASSUME NEW q \in Seq(His!Scans), NEW p \in Seq(His!Scans), NEW r, r = q \o p
  PROVE  /\ r \in Seq(His!Scans) /\ Len(r) = Len(q) + Len(p)
         /\ \A i \in 1..Len(q) : r[i] = q[i]
         /\ \A i \in 1..Len(p) : r[Len(q) + i] = p[i]
<1>1. /\ r \in Seq(His!Scans) /\ Len(r) = Len(q) + Len(p)
      /\ \A i \in 1..(Len(q) + Len(p)) : r[i] = IF i <= Len(q) THEN q[i] ELSE p[i - Len(q)]
  BY ConcatProperties
<1>2. Len(q) \in Nat /\ Len(p) \in Nat
  OBVIOUS
<1>3. \A i \in 1..Len(q) : r[i] = q[i]
  BY <1>1, <1>2
<1>4. ASSUME NEW i \in 1..Len(p) PROVE r[Len(q) + i] = p[i]
  <2> DEFINE k == Len(q) + i
  <2>1. k \in 1..(Len(q) + Len(p)) /\ ~(k <= Len(q)) /\ k - Len(q) = i
    BY <1>2
  <2> HIDE DEF k
  <2>2. r[k] = p[k - Len(q)]
    BY <1>1, <2>1
  <2> QED BY <2>1, <2>2 DEF k
<1> QED BY <1>1, <1>3, <1>4

\* Every step keeps the pages in order.
LEMMA PagesStep == ASSUME PagesCome, [His!Next]_His!hvars PROVE PagesCome'
<1> USE DEF His!list, His!filter, His!mail
<1>0. None # 0 /\ None # 1 /\ None # 2
  BY NoneAssumption
<1>1. CASE His!ScanStarted
  <2>1. /\ s2 = 3 /\ s2' = 4 /\ UNCHANGED <<s3, s4, s5>> /\ (s7 => s7')
        /\ (s3 # None /\ s4 # <<>> => s7')
    <3>1. s7' <=> s7 \/ (s3 # None /\ s4 # <<>>)
      BY <1>1, Zenon DEF His!ScanStarted
    <3>2. s2 = 3 /\ s2' = 4 /\ UNCHANGED <<s3, s4, s5>>
      BY <1>1 DEF His!ScanStarted, His!Existing
    <3> QED BY <3>1, <3>2
  <2>2. s3 = 1 => s4 # <<>> /\ s3 # None
    BY <1>0 DEF PagesCome, ScansAre2
  <2> QED BY <2>1, <2>2 DEF PagesCome
<1>2. CASE His!fetchScanHistory
  <2>1. /\ s3 # None /\ s4' = s4 \o His!Page(s3) /\ UNCHANGED <<s2, s7>> /\ s5 = None
        /\ s3' = (IF Len(His!Page(s3)) < 2 THEN None ELSE s3 + 1)
        /\ s5' = (IF s3' = None THEN s4' ELSE s5)
    BY <1>2 DEF His!fetchScanHistory, His!NextPage, His!SCAN_HISTORY_PAGE, PagesCome
  <2>2. s3 \in {0, 1, 2} /\ s2 \in {3, 4}
    BY <2>1 DEF PagesCome
  <2> DEFINE p == His!Page(s3)
  <2>3. CASE s3 = 0
    <3>1. s4' = s4 \o p /\ s4 = <<>>
      BY <2>1, <2>3 DEF PagesCome
    <3>2. (ScansAre2(p, 3, 2) /\ s2 = 3) \/ (ScansAre2(p, 4, 3) /\ s2 = 4)
      <4>1. CASE s2 = 3
        BY <4>1, <2>3, HistoryPageIs
      <4>2. CASE s2 = 4
        BY <4>2, <2>3, HistoryPageIs
      <4> QED BY <2>2, <4>1, <4>2
    <3>3. p \in Seq(His!Scans) /\ Len(p) = 2
      BY <3>2 DEF ScansAre2
    <3> HIDE DEF p
    <3>4. s4' = p
      BY <3>1, <3>3
    <3>5. s3' = 1 /\ s5' = None
      <4>1. ~(Len(His!Page(s3)) < 2) /\ s3 + 1 = 1 /\ 1 # None
        BY <1>0, <2>3, <3>3 DEF p
      <4> QED BY <2>1, <4>1
    <3> QED BY <1>0, <2>1, <3>2, <3>4, <3>5 DEF PagesCome
  <2>4. CASE s3 = 1 /\ s2 = 3
    <3>1. p \in Seq(His!Scans) /\ Len(p) = 1 /\ p[1] = 1 /\ ScansAre2(s4, 3, 2)
      BY <2>2, <2>4, HistoryPageIs DEF PagesCome
    <3>2. s4' = s4 \o p /\ s3' = None /\ s5' = s4'
      BY <2>1, <3>1
    <3> HIDE DEF p
    <3>3. s4 \in Seq(His!Scans) /\ Len(s4) = 2 /\ s4[1] = 3 /\ s4[2] = 2
      BY <3>1 DEF ScansAre2
    <3>4. PICK r : r = s4'
      OBVIOUS
    <3>5. /\ r \in Seq(His!Scans) /\ Len(r) = Len(s4) + Len(p)
          /\ \A i \in 1..Len(s4) : r[i] = s4[i]
          /\ \A i \in 1..Len(p) : r[Len(s4) + i] = p[i]
      BY <3>1, <3>2, <3>3, <3>4, ListsJoined
    <3>6. ScansAre3(r, 3, 2, 1)
      BY <3>1, <3>3, <3>5 DEF ScansAre3
    <3> QED BY <1>0, <2>1, <2>4, <3>2, <3>4, <3>6 DEF PagesCome
  <2>5. CASE s3 = 1 /\ s2 = 4
    <3>1. ScansAre2(p, 2, 1) /\ ((ScansAre2(s4, 3, 2) /\ s7) \/ ScansAre2(s4, 4, 3))
      BY <2>2, <2>5, HistoryPageIs DEF PagesCome
    <3>2. p \in Seq(His!Scans) /\ Len(p) = 2 /\ p[1] = 2 /\ p[2] = 1
      BY <3>1 DEF ScansAre2
    <3>3. s4 \in Seq(His!Scans) /\ Len(s4) = 2
      BY <3>1 DEF ScansAre2
    <3>4. s4' = s4 \o p /\ s3' = 2 /\ s5' = None
      BY <1>0, <2>1, <2>5, <3>2
    <3> HIDE DEF p
    <3>5. PICK r, q, t : r = s4' /\ q = s4 /\ t = p
      OBVIOUS
    <3>6. /\ r \in Seq(His!Scans) /\ Len(r) = Len(q) + Len(t)
          /\ \A i \in 1..Len(q) : r[i] = q[i]
          /\ \A i \in 1..Len(t) : r[Len(q) + i] = t[i]
      <4>1. q \in Seq(His!Scans) /\ t \in Seq(His!Scans) /\ r = q \o t
        BY <3>2, <3>3, <3>4, <3>5
      <4> QED BY <4>1, ListsJoined
    <3>7. Len(r) = 4 /\ r[1] = q[1] /\ r[2] = q[2] /\ r[3] = 2 /\ r[4] = 1
      <4>1. Len(q) = 2 /\ Len(t) = 2 /\ t[1] = 2 /\ t[2] = 1
        BY <3>2, <3>3, <3>5
      <4> QED BY <3>6, <4>1
    <3>8. (ScansAre4(r, 3, 2, 2, 1) /\ s7) \/ ScansAre4(r, 4, 3, 2, 1)
      BY <3>1, <3>5, <3>6, <3>7 DEF ScansAre2, ScansAre4
    <3>9. (ScansAre4(s4', 3, 2, 2, 1) /\ s7') \/ ScansAre4(s4', 4, 3, 2, 1)
      BY <2>1, <3>5, <3>8
    <3>10. s2' = 4 /\ s3' = 2 /\ s5' = None
      BY <2>1, <2>5, <3>4
    <3> QED BY <1>0, <3>9, <3>10 DEF PagesCome
<2>6. CASE s3 = 2
    <3>1. s2 = 4 /\ p = <<>> /\ Len(p) = 0
      BY <2>2, <2>6, HistoryPageIs DEF PagesCome
    <3>2. (ScansAre4(s4, 3, 2, 2, 1) /\ s7) \/ ScansAre4(s4, 4, 3, 2, 1)
      BY <2>6 DEF PagesCome
    <3>3. s4' = s4 /\ s3' = None /\ s5' = s4'
      BY <2>1, <3>1, <3>2 DEF ScansAre4
    <3> QED BY <1>0, <2>1, <3>1, <3>2, <3>3 DEF PagesCome
  <2> QED BY <2>2, <2>3, <2>4, <2>5, <2>6
<1>3. CASE His!HistoryFails
  BY <1>0, <1>3 DEF His!HistoryFails, PagesCome
<1>4. CASE \/ His!setTypeFilter \/ His!setDomainFilter \/ His!ShowAll \/ His!ShowMore
           \/ His!OpenDialog \/ His!TypeEmail \/ His!handleSubmit \/ His!sendReportEmail
           \/ His!MailAnswered \/ His!MailFails \/ His!CloseDialog \/ UNCHANGED His!hvars
  <2>1. UNCHANGED <<s2, s3, s4, s5, s7>>
    BY <1>4 DEF His!setTypeFilter, His!setDomainFilter, His!ShowAll, His!ShowMore, His!OpenDialog,
       His!TypeEmail, His!handleSubmit, His!sendReportEmail, His!MailAnswered, His!MailFails,
       His!CloseDialog, His!hvars
  <2> QED BY <2>1 DEF PagesCome
<1> QED BY <1>1, <1>2, <1>3, <1>4 DEF His!Next

\* What is listed is there.
LEMMA ListedAreScans == ASSUME PagesCome PROVE His!Listed \subseteq 1..s2
<1>1. CASE s5 = None
  BY <1>1 DEF His!Listed
<1>2. CASE s5 # None
  <2>1. s5 \in Seq(His!Scans) /\ Len(s5) \in {3, 4} /\ s2 \in {3, 4} /\ His!Scans = 1..4
    BY <1>2 DEF PagesCome, ScansAre3, ScansAre4, His!Scans, His!Existing
  <2>2. s2 = 3 => \A i \in 1..Len(s5) : s5[i] \in 1..3
    BY <1>2 DEF PagesCome, ScansAre3, ScansAre4
  <2>3. \A i \in 1..Len(s5) : s5[i] \in 1..s2
    BY <2>1, <2>2
  <2> QED BY <1>2, <2>3 DEF His!Listed
<1> QED BY <1>1, <1>2

\* Every step keeps what is shown, and the mail, in order.
LEMMA ShownStep == ASSUME PagesCome, HistoryShown, [His!Next]_His!hvars PROVE HistoryShown'
<1> USE DEF His!list, His!filter, His!mail
<1>1. CASE \/ His!ScanStarted \/ His!fetchScanHistory \/ His!HistoryFails \/ UNCHANGED His!hvars
  <2>1. UNCHANGED <<s1, s8, s9, s10, s11, s12>>
    BY <1>1 DEF His!ScanStarted, His!fetchScanHistory, His!HistoryFails, His!hvars
  <2> QED BY <2>1 DEF HistoryShown
<1>2. CASE His!setTypeFilter \/ His!setDomainFilter \/ His!ShowAll \/ His!ShowMore
  <2>1. UNCHANGED <<s1, s11, s12>> /\ s10' \in {2, s10 + 2}
    BY <1>2 DEF His!setTypeFilter, His!setDomainFilter, His!ShowAll, His!ShowMore, His!PAGE_SIZE
  <2>2. s8' \in His!Types \union {"all"}
    BY <1>2 DEF His!setTypeFilter, His!setDomainFilter, His!ShowAll, His!ShowMore, HistoryShown
  <2>3. s9' \in His!Domains \union {None}
    <3>1. DOMAIN His!DomainPicker = {s1.domain[s] : s \in His!Listed}
      BY DEF His!DomainPicker
    <3>2. s1.domain \in [His!Scans -> His!Domains] /\ His!Listed \subseteq His!Scans
      BY ListedAreScans DEF HistoryShown, His!Worlds, PagesCome, His!Scans, His!Existing
    <3>3. DOMAIN His!DomainPicker \subseteq His!Domains
      BY <3>1, <3>2
    <3> QED BY <1>2, <3>3 DEF His!setTypeFilter, His!setDomainFilter, His!ShowAll, His!ShowMore,
       HistoryShown
  <2> QED BY <2>1, <2>2, <2>3 DEF HistoryShown
<1>3. CASE His!OpenDialog
  <2>1. PICK s \in His!visible :
          s11' = [scan |-> s, email |-> None, to |-> None, state |-> "form"]
    BY <1>3 DEF His!OpenDialog
  <2>2. s \in His!Scans
    BY ListedAreScans DEF His!visible, His!filtered, His!inDomain, PagesCome,
        His!Scans, His!Existing
  <2>3. s11' \in HistoryDialogs /\ s11'.state = "form"
    BY <2>1, <2>2 DEF HistoryDialogs
  <2>4. UNCHANGED <<s1, s8, s9, s10, s12>>
    BY <1>3 DEF His!OpenDialog
  <2> QED BY <2>3, <2>4 DEF HistoryShown
<1>4. CASE His!CloseDialog
  <2>1. UNCHANGED <<s1, s8, s9, s10>> /\ s11' = None /\ s12' = {}
    BY <1>4 DEF His!CloseDialog
  <2> QED BY <2>1 DEF HistoryShown
<1>5. CASE \/ His!TypeEmail \/ His!handleSubmit \/ His!sendReportEmail \/ His!MailAnswered
           \/ His!MailFails
  <2>1. s11 # None /\ UNCHANGED <<s1, s8, s9, s10>>
    BY <1>5 DEF His!TypeEmail, His!handleSubmit, His!sendReportEmail, His!MailAnswered,
       His!MailFails, His!FieldEnabled, His!Sending
  <2>2. /\ s11 \in HistoryDialogs
        /\ s11.state \in {"sending", "served", "sent"} =>
             s11.to \in His!Addresses /\ s11.to = s11.email
        /\ s11.state \in {"served", "sent"} => <<s11.scan, s11.to>> \in s12
        /\ s12 \subseteq His!Scans \X His!Addresses
    BY <2>1 DEF HistoryShown
  <2>3. CASE His!TypeEmail
    <3>1. PICK a \in His!Addresses :
            s11' = [s11 EXCEPT !.email = a, !.state = IF His!Sending THEN @ ELSE "form"]
      BY <2>3 DEF His!TypeEmail
    <3>2. ~His!Sending /\ s12' = s12
      BY <2>3 DEF His!TypeEmail, His!FieldEnabled
    <3>3. s11' = [s11 EXCEPT !.email = a, !.state = "form"]
      BY <2>2, <3>1, <3>2 DEF HistoryDialogs
    <3>4. s11' \in HistoryDialogs /\ s11'.state = "form"
      BY <2>2, <3>3 DEF HistoryDialogs
    <3> QED BY <2>1, <2>2, <3>2, <3>4 DEF HistoryShown
  <2>4. CASE His!handleSubmit
    <3>1. /\ s11' = [s11 EXCEPT !.to = s11.email, !.state = "sending"] /\ s11.email # None
          /\ s12' = s12
      BY <2>4 DEF His!handleSubmit
    <3>2. /\ s11' \in HistoryDialogs /\ s11'.state = "sending" /\ s11'.to = s11.email
          /\ s11'.email = s11.email /\ s11.email \in His!Addresses
      BY <2>2, <3>1 DEF HistoryDialogs
    <3> QED BY <2>1, <2>2, <3>1, <3>2 DEF HistoryShown
  <2>5. CASE His!sendReportEmail
    <3>1. /\ s11' = [s11 EXCEPT !.state = "served"] /\ s11.state = "sending"
          /\ s12' = s12 \union {<<s11.scan, s11.to>>}
      BY <2>5 DEF His!sendReportEmail
    <3>2. /\ s11' \in HistoryDialogs /\ s11'.state = "served" /\ s11'.to = s11.to
          /\ s11'.email = s11.email /\ s11'.scan = s11.scan /\ s11.scan \in His!Scans
      BY <2>2, <3>1 DEF HistoryDialogs
    <3>3. s12' \subseteq His!Scans \X His!Addresses
      BY <2>2, <3>1, <3>2
    <3> QED BY <2>1, <2>2, <3>1, <3>2, <3>3 DEF HistoryShown
  <2>6. CASE His!MailAnswered
    <3>1. s11' = [s11 EXCEPT !.state = "sent"] /\ s11.state = "served" /\ s12' = s12
      BY <2>6 DEF His!MailAnswered
    <3>2. /\ s11' \in HistoryDialogs /\ s11'.state = "sent" /\ s11'.to = s11.to
          /\ s11'.email = s11.email /\ s11'.scan = s11.scan
      BY <2>2, <3>1 DEF HistoryDialogs
    <3> QED BY <2>1, <2>2, <3>1, <3>2 DEF HistoryShown
  <2>7. CASE His!MailFails
    <3>1. s11' = [s11 EXCEPT !.state = "error"] /\ s12' = s12
      BY <2>7 DEF His!MailFails
    <3>2. s11' \in HistoryDialogs /\ s11'.state = "error"
      BY <2>2, <3>1 DEF HistoryDialogs
    <3> QED BY <2>1, <2>2, <3>1, <3>2 DEF HistoryShown
  <2> QED BY <1>5, <2>3, <2>4, <2>5, <2>6, <2>7
<1> QED BY <1>1, <1>2, <1>3, <1>4, <1>5 DEF His!Next

\* Of some scans one is the last.
LEMMA LastScanIs ==
  ASSUME NEW S \in SUBSET (1..4), S # {} PROVE \E t \in S : \A u \in S : u <= t
<1>1. \A t \in S : t \in {1, 2, 3, 4}
  OBVIOUS
<1>2. CASE 4 \in S
  BY <1>1, <1>2
<1>3. CASE 4 \notin S /\ 3 \in S
  BY <1>1, <1>3
<1>4. CASE 4 \notin S /\ 3 \notin S /\ 2 \in S
  BY <1>1, <1>4
<1>5. CASE S = {1}
  BY <1>5
<1> QED BY <1>1, <1>2, <1>3, <1>4, <1>5

\* The list that is complete has the scans there were, each of them once if none was
\* started in between.
LEMMA WholeHistory == ASSUME PagesCome, HistoryShown PROVE His!HistoryIsWhole
<1> SUFFICES ASSUME s5 # None
             PROVE  /\ 1..His!Existing \subseteq His!Listed
                    /\ ~s7 => \A s \in His!Listed : His!Times(s) = 1 /\ His!riskDeltas(s) # s
  BY DEF His!HistoryIsWhole
<1>1. His!Listed = {s5[i] : i \in 1..Len(s5)}
  BY DEF His!Listed
<1>2. 1..His!Existing \subseteq His!Listed
  <2>1. \A n \in {1, 2, 3} : \E i \in 1..Len(s5) : s5[i] = n
    <3>1. CASE ScansAre3(s5, 3, 2, 1)
      BY <3>1 DEF ScansAre3
    <3>2. CASE ScansAre4(s5, 3, 2, 2, 1)
      BY <3>2 DEF ScansAre4
    <3>3. CASE ScansAre4(s5, 4, 3, 2, 1)
      BY <3>3 DEF ScansAre4
    <3> QED BY <3>1, <3>2, <3>3 DEF PagesCome
  <2>2. 1..His!Existing = {1, 2, 3}
    BY DEF His!Existing
  <2> QED BY <1>1, <2>1, <2>2
<1>3. ASSUME ~s7, NEW s \in His!Listed PROVE His!Times(s) = 1 /\ His!riskDeltas(s) # s
  <2>1. \A i, j \in 1..Len(s5) : s5[i] = s5[j] => i = j
    <3>1. CASE ScansAre3(s5, 3, 2, 1)
      BY <3>1 DEF ScansAre3
    <3>2. CASE ScansAre4(s5, 4, 3, 2, 1)
      BY <3>2 DEF ScansAre4
    <3> QED BY <1>3, <3>1, <3>2 DEF PagesCome
  <2>2. PICK i \in 1..Len(s5) : s5[i] = s
    BY <1>1
  <2>3. {j \in 1..Len(s5) : s5[j] = s} = {i}
    BY <2>1, <2>2
  <2>4. His!Times(s) = 1
    <3>1. His!Cardinality({i}) = Cardinality({i})
      BY DEF Cardinality, His!Cardinality
    <3> QED BY <2>3, <3>1, FS_Singleton DEF His!Times
  <2>5. His!riskDeltas(s) # s
    <3> DEFINE same == {t \in His!Listed : /\ His!Finished(t) /\ s1.domain[t] = s1.domain[s]
                                           /\ s1.type[t] = s1.type[s]}
               before == {t \in same : t < s} \union (IF His!Times(s) > 1 THEN {s} ELSE {})
    <3>1. His!riskDeltas(s) = IF ~His!Finished(s) \/ before = {} THEN None
                              ELSE CHOOSE t \in before : \A u \in before : u <= t
      BY DEF His!riskDeltas
    <3>2. \A t \in before : t < s /\ t \in His!Listed
      BY <2>4
    <3> HIDE DEF before
    <3>3. His!Listed \subseteq 1..4
      BY ListedAreScans DEF PagesCome
    <3>4. before \in SUBSET (1..4) /\ s \in Int /\ s # None
      <4>1. s \in 1..4 /\ before \in SUBSET (1..4)
        BY <3>2, <3>3
      <4> QED BY <4>1, NoneAssumption
    <3>5. CASE before = {}
      BY <3>1, <3>4, <3>5
    <3>6. CASE before # {}
      <4>1. \E t \in before : \A u \in before : u <= t
        BY <3>4, <3>6, LastScanIs
      <4>2. (CHOOSE t \in before : \A u \in before : u <= t) \in before
        BY <4>1
      <4> DEFINE last == CHOOSE t \in before : \A u \in before : u <= t
      <4>3. last \in before /\ (His!riskDeltas(s) = None \/ His!riskDeltas(s) = last)
        BY <3>1, <4>2
      <4> HIDE DEF last
      <4>4. last < s /\ last \in Int
        BY <3>2, <3>4, <4>3
      <4> QED BY <3>4, <4>3, <4>4
    <3> QED BY <3>5, <3>6
  <2> QED BY <2>4, <2>5
<1> QED BY <1>2, <1>3

\* As long as a row is held back there are more rows than are shown.
LEMMA NoneHeldBack == ASSUME PagesCome, HistoryShown PROVE His!AllCanBeShown
<1> SUFFICES ASSUME s5 # None
             PROVE  /\ His!visible # His!filtered => His!HeldBack
                    /\ His!typeCounts(s8) = His!Cardinality(His!filtered)
  BY DEF His!AllCanBeShown
<1>1. His!typeCounts(s8) = His!Cardinality(His!filtered)
  BY DEF His!typeCounts, His!filtered
<1>2. ASSUME His!visible # His!filtered PROVE His!HeldBack
  <2> DEFINE all == His!filtered
  <2>1. all \subseteq 1..4
    BY ListedAreScans DEF His!filtered, His!inDomain, PagesCome
  <2>2. IsFiniteSet(all)
    <3>1. 1 \in Int /\ 4 \in Int
      OBVIOUS
    <3>2. IsFiniteSet(1..4)
      BY <3>1, FS_Interval, Zenon
    <3>3. all \in SUBSET (1..4)
      BY <2>1
    <3> HIDE DEF all
    <3> QED BY <3>2, <3>3, FS_Subset, Zenon
  <2>3. PICK s \in all : ~(His!Cardinality({t \in all : t > s}) < s10)
    BY <1>2 DEF His!visible
  <2> DEFINE above == {t \in all : t > s}
  <2>4. above \in SUBSET all /\ s \in all /\ s \notin above
    BY <2>1
  <2>5. His!Cardinality(above) = Cardinality(above) /\ His!Cardinality(all) = Cardinality(all)
    BY DEF Cardinality, His!Cardinality
  <2>6. ~(His!Cardinality(above) < s10)
    BY <2>3
  <2> HIDE DEF above
  <2>7. Cardinality(above) <= Cardinality(all) /\ Cardinality(above) # Cardinality(all)
    BY <2>2, <2>4, FS_Subset
  <2>8. IsFiniteSet(above)
    BY <2>2, <2>4, FS_Subset
  <2>9. Cardinality(above) \in Nat /\ Cardinality(all) \in Nat
    BY <2>2, <2>8, FS_CardinalityType
  <2>10. His!Cardinality(all) > s10
    <3> DEFINE m == Cardinality(above)
               n == Cardinality(all)
    <3>1. ~(m < s10) /\ m <= n /\ m # n /\ m \in Nat /\ n \in Nat /\ s10 \in Nat
      BY <2>5, <2>6, <2>7, <2>9 DEF HistoryShown
    <3> HIDE DEF m, n
    <3>2. n > s10
      BY <3>1
    <3> QED BY <2>5, <3>2 DEF n
  <2> QED BY <2>10 DEF His!HeldBack
<1> QED BY <1>1, <1>2

\* The history is whole, can be brought on display, and its dialog names the recipient.
LEMMA HistoryTold ==
  His!Spec => [](His!HistoryIsWhole /\ His!AllCanBeShown /\ His!NamesTheRecipient /\ His!TypeOK)
<1>1. PagesCome /\ HistoryShown => His!HistoryIsWhole /\ His!AllCanBeShown
  BY WholeHistory, NoneHeldBack
<1>2. PagesCome /\ HistoryShown => His!NamesTheRecipient
  BY DEF HistoryShown, His!NamesTheRecipient
<1>3. PagesCome /\ HistoryShown => His!TypeOK
  <2> SUFFICES ASSUME PagesCome, HistoryShown PROVE His!TypeOK
    OBVIOUS
  <2>1. s2 \in His!Scans /\ s3 \in 0..His!Existing \union {None}
    BY DEF PagesCome, His!Scans, His!Existing
  <2>2. His!visible \subseteq His!filtered
    BY DEF His!visible
  <2> QED BY <2>1, <2>2, ListedAreScans DEF HistoryShown, His!TypeOK
<1>4. PagesCome /\ HistoryShown /\ [His!Next]_His!hvars => PagesCome' /\ HistoryShown'
  BY PagesStep, ShownStep
<1> QED BY <1>1, <1>2, <1>3, <1>4, HistoryInit, PTL DEF His!Spec

\* The newest of some scans is one of them.
LEMMA NewestIsOne ==
  ASSUME NEW S \in SUBSET Las!Scans
  PROVE  Las!Newest(S) \in Las!Scans \union {None} /\ (S # {} => Las!Newest(S) \in S)
<1>1. CASE S = {}
  BY <1>1 DEF Las!Newest
<1>2. CASE S # {}
  <2>1. \E s \in S : \A other \in S : other <= s
    <3>1. S \in SUBSET (1..4)
      BY DEF Las!Scans
    <3> QED BY <1>2, <3>1, LastScanIs
  <2>2. (CHOOSE s \in S : \A other \in S : other <= s) \in S
    BY <2>1
  <2> QED BY <1>2, <2>2 DEF Las!Newest
<1> QED BY <1>1, <1>2

\* The key is one, as long as there is a scan to show.
KeyIsOne ==
  /\ Las!cacheKey \in Las!Keys \union {None}
  /\ Las!cacheKey = None <=> Las!latest = None

\* It is, in every state.
LEMMA KeyOfTheScan == []KeyIsOne
<1>1. KeyIsOne
  <2>1. Las!finished \in SUBSET Las!Scans /\ Las!chartScans \in SUBSET Las!Scans
    BY DEF Las!finished, Las!finishedAll, Las!chartScans, Las!forDomain
  <2>2. Las!newest \in Las!Scans \union {None}
    BY <2>1, NewestIsOne DEF Las!newest
  <2>3. Las!selected \in Las!Scans \union {None}
    BY <2>1 DEF Las!selected
  <2>4. Las!latest \in Las!Scans \union {None}
    BY <2>2, <2>3 DEF Las!latest
  <2>5. Las!previousScan \in Las!Scans \union {None}
    <3>1. {s \in Las!finished : s < Las!latest} \in SUBSET Las!Scans
      BY <2>1
    <3>2. Las!Newest({s \in Las!finished : s < Las!latest}) \in Las!Scans \union {None}
      BY <3>1, NewestIsOne
    <3> QED BY <3>2 DEF Las!previousScan
  <2>6. CASE Las!latest = None
    BY <2>6 DEF Las!cacheKey, KeyIsOne
  <2>7. CASE Las!latest # None
    <3>1. Las!cacheKey = <<Las!latest, Las!previousScan>> /\ Las!cacheKey \in Las!Keys
      BY <2>4, <2>5, <2>7 DEF Las!cacheKey, Las!Keys
    <3>2. Las!cacheKey # None
      BY <3>1, NoneAssumption DEF Las!Keys, Las!Scans
    <3> QED BY <2>7, <3>1, <3>2 DEF KeyIsOne
  <2> QED BY <2>6, <2>7
<1> QED BY <1>1, PTL

\* Numbers that are there are compared if they can be, until a load fails.
Whole(key, numbers) == key[2] # None /\ faults = 0 => numbers = "compared"

\* The panel waits for the numbers of the scan it shows, has them, or says that there is
\* an error.
PanelInv ==
  /\ Las!TypeOK /\ faults \in Nat
  /\ s8 \in {None, Las!cacheKey}
  /\ Las!latest # None => /\ s6 # None => s6.key = Las!cacheKey
                          /\ s6 = None /\ ~s7 => s8 = Las!cacheKey
  /\ \A key \in Las!Keys : s5[key] # "nothing" => Whole(key, s5[key])
  /\ s6 # None => Whole(s6.key, s6.numbers)

\* What is on display comes with the key it was asked for.
PanelNumbers == [key : Las!Keys, numbers : Las!Numbers]

\* Nothing is shown before the list has come.
LEMMA PanelInit == Las!Init => PanelInv
<1> SUFFICES ASSUME Las!Init PROVE PanelInv
  OBVIOUS
<1>1. /\ s2 = FALSE /\ s3 = "active" /\ s4 = None /\ s6 = None /\ s8 = None /\ s9 = {}
      /\ s5 = [key \in Las!Keys |-> "nothing"] /\ faults = 0
  BY DEF Las!Init
<1>2. Las!finished = {} /\ Las!latest = None
  BY <1>1 DEF Las!finished, Las!finishedAll, Las!forDomain, Las!latest, Las!selected, Las!newest,
     Las!Newest
<1>3. Las!TypeOK
  BY <1>1 DEF Las!TypeOK, Las!ScanView, Las!SCAN_TYPE_OF
<1> QED BY <1>1, <1>2, <1>3 DEF PanelInv

\* What the map holds for the key is shown, or it is asked for.
LEMMA PanelTakes ==
  ASSUME PanelInv, KeyIsOne', UNCHANGED <<s5, faults>>, s3' \in Las!ScanView,
         s4' # None => s4'.view \in Las!ScanView /\ s4'.scan \in Las!Scans,
         s9' = s9 \union ({s8} \ {None}), Las!Ask,
         \/ s6' = IF Las!Held THEN Las!HeldNumbers ELSE None
         \/ Las!cacheKey' = None /\ s6' = s6
  PROVE  PanelInv'
<1> DEFINE key == Las!cacheKey
<1>1. /\ s5 \in [Las!Keys -> Las!Numbers \union {"nothing"}] /\ s9 \subseteq Las!Keys
      /\ s8 \in Las!Keys \union {None} /\ s6 \in PanelNumbers \union {None}
  BY DEF PanelInv, Las!TypeOK, PanelNumbers
<1>2. key' \in Las!Keys \union {None} /\ (key' = None <=> Las!latest' = None)
  BY DEF KeyIsOne
<1>3. /\ Las!Held <=> key' # None /\ s5[key'] # "nothing"
      /\ Las!HeldNumbers = [key |-> key', numbers |-> s5[key']]
      /\ s8' = IF key' = None \/ Las!Held THEN None ELSE key'
  BY DEF Las!Held, Las!HeldNumbers, Las!Ask
<1> HIDE DEF key
<1>4. Las!Held => /\ Las!HeldNumbers \in PanelNumbers /\ Las!HeldNumbers.key = key'
                  /\ Whole(Las!HeldNumbers.key, Las!HeldNumbers.numbers)
  <2> SUFFICES ASSUME Las!Held
               PROVE  /\ Las!HeldNumbers \in PanelNumbers /\ Las!HeldNumbers.key = key'
                      /\ Whole(Las!HeldNumbers.key, Las!HeldNumbers.numbers)
    OBVIOUS
  <2>1. key' \in Las!Keys /\ s5[key'] # "nothing" /\ s5[key'] \in Las!Numbers
    BY <1>1, <1>2, <1>3
  <2>2. Whole(key', s5[key'])
    BY <2>1 DEF PanelInv
  <2>3. Las!HeldNumbers.key = key' /\ Las!HeldNumbers.numbers = s5[key']
    BY <1>3
  <2> QED BY <1>3, <2>1, <2>2, <2>3 DEF PanelNumbers
<1>5. \/ s6' = IF Las!Held THEN Las!HeldNumbers ELSE None
      \/ key' = None /\ s6' = s6
  BY DEF key
<1>7. Las!Held => Las!HeldNumbers # None
  BY <1>4, NoneAssumption DEF PanelNumbers, Las!Keys, Las!Scans, Las!Numbers
<1>11. /\ s6' \in PanelNumbers \union {None}
       /\ s6' # None => Whole(s6'.key, s6'.numbers)
       /\ key' # None => /\ s6' # None => s6'.key = key'
                         /\ s6' = None => ~Las!Held
  <2>1. CASE Las!Held /\ s6' = Las!HeldNumbers
    BY <1>4, <1>7, <2>1
  <2>2. CASE ~Las!Held /\ s6' = None
    BY <2>2
  <2>3. CASE key' = None /\ s6' = s6
    BY <1>1, <2>3 DEF PanelInv
  <2> QED BY <1>5, <2>1, <2>2, <2>3
<1>6. Las!TypeOK'
  BY <1>1, <1>2, <1>3, <1>11 DEF Las!TypeOK, PanelNumbers
<1>8. /\ s8' \in {None, key'}
      /\ Las!latest' # None => /\ s6' # None => s6'.key = key'
                               /\ s6' = None => s8' = key'
  BY <1>2, <1>3, <1>11
<1>9. \A k \in Las!Keys : s5'[k] # "nothing" => Whole(k, s5[k])'
  BY DEF PanelInv, Whole
<1>10. s6' # None => Whole(s6.key, s6.numbers)'
  BY <1>11 DEF Whole
<1>12. faults' \in Nat
  BY DEF PanelInv
<1> QED BY <1>6, <1>8, <1>9, <1>10, <1>12 DEF PanelInv, key

\* The effect brings the panel to the scan that is now shown.
LEMMA EffectFollows ==
  ASSUME PanelInv, KeyIsOne, KeyIsOne', Las!Effect, UNCHANGED <<s5, faults>>,
         s3' \in Las!ScanView,
         s4' # None => s4'.view \in Las!ScanView /\ s4'.scan \in Las!Scans
  PROVE  PanelInv'
<1> DEFINE key == Las!cacheKey
<1>1. CASE key' = key
  <2>1. UNCHANGED <<s6, s7, s8, s9>>
    BY <1>1 DEF Las!Effect
  <2> HIDE DEF key
  <2>2. Las!TypeOK'
    BY <2>1 DEF PanelInv, Las!TypeOK
  <2> QED BY <1>1, <2>1, <2>2 DEF PanelInv, KeyIsOne, key, Whole
<1>2. CASE key' # key
  <2>1. /\ s9' = s9 \union ({s8} \ {None}) /\ Las!Ask
        /\ s6' = CASE key' = None -> s6 [] Las!Held -> Las!HeldNumbers [] OTHER -> None
    BY <1>2 DEF Las!Effect
  <2>2. Las!Held => key' # None
    BY DEF Las!Held
  <2>3. CASE key' = None
    BY <2>1, <2>3, PanelTakes
  <2>4. CASE key' # None
    BY <2>1, <2>4, PanelTakes
  <2> QED BY <2>3, <2>4
<1> QED BY <1>1, <1>2

\* Every step keeps that.
LEMMA PanelFollows ==
  ASSUME PanelInv, KeyIsOne, KeyIsOne', [Las!Next]_Las!lvars PROVE PanelInv'
<1>1. /\ s3 \in Las!ScanView /\ (s4 # None => s4.view \in Las!ScanView /\ s4.scan \in Las!Scans)
      /\ s5 \in [Las!Keys -> Las!Numbers \union {"nothing"}] /\ s9 \subseteq Las!Keys
      /\ s8 \in Las!Keys \union {None} /\ faults \in Nat
  BY DEF PanelInv, Las!TypeOK
<1>2. CASE Las!HistoryArrives \/ Las!viewSwitch \/ Las!ShowLatest
  <2>1. /\ Las!Effect /\ UNCHANGED <<s5, faults>> /\ s3' \in Las!ScanView
        /\ s4' = s4 \/ s4' = None
    BY <1>1, <1>2 DEF Las!HistoryArrives, Las!viewSwitch, Las!ShowLatest
  <2> QED BY <1>1, <2>1, EffectFollows
<1>3. CASE Las!SelectInChart
  <2>1. PICK s \in Las!chartScans : s4' = [view |-> s3, scan |-> s]
    BY <1>3 DEF Las!SelectInChart
  <2>2. Las!Effect /\ UNCHANGED <<s5, faults, s3>>
    BY <1>3 DEF Las!SelectInChart
  <2>3. s \in Las!Scans
    BY DEF Las!chartScans, Las!forDomain
  <2>4. s4'.view \in Las!ScanView /\ s4'.scan \in Las!Scans
    BY <1>1, <2>1, <2>3
  <2> QED BY <1>1, <2>2, <2>4, EffectFollows
<1>4. CASE Las!Remount
  <2>1. /\ s3' = "active" /\ s4' = None /\ UNCHANGED <<s5, faults>>
        /\ s6' = IF Las!Held THEN Las!HeldNumbers ELSE None
        /\ s9' = s9 \union ({s8} \ {None}) /\ Las!Ask
    BY <1>4 DEF Las!Remount
  <2>2. "active" \in Las!ScanView
    BY DEF Las!ScanView, Las!SCAN_TYPE_OF
  <2> QED BY <2>1, <2>2, PanelTakes
<1>5. CASE \/ \E key \in Las!Keys, numbers \in Las!Numbers :
                Las!Arrives(key, numbers) \/ Las!ArrivesLate(key, numbers)
           \/ \E key \in Las!Keys : Las!LoadFails(key)
           \/ UNCHANGED Las!lvars
  <2>1. UNCHANGED <<s1, s2, s3, s4>>
    BY <1>5 DEF Las!Arrives, Las!ArrivesLate, Las!LoadFails, Las!lvars
  <2>2. Las!cacheKey' = Las!cacheKey /\ Las!latest' = Las!latest
    BY <2>1 DEF Las!cacheKey, Las!latest, Las!previousScan, Las!finished, Las!finishedAll,
       Las!forDomain, Las!selected, Las!chartScans, Las!newest
  <2>3. ASSUME NEW key \in Las!Keys, NEW numbers \in Las!Numbers, Las!Load(key, numbers)
        PROVE  /\ Whole(key, numbers)' /\ faults' \in {faults, faults + 1}
               /\ s5' = [s5 EXCEPT ![key] = numbers]
    BY <1>1, <2>3 DEF Las!Load, Las!Fault, Whole, Las!Numbers
  <2>4. ASSUME NEW key \in Las!Keys, NEW numbers \in Las!Numbers, Las!Load(key, numbers)
        PROVE  /\ faults' \in Nat /\ (faults' = 0 => faults = 0)
               /\ s5' \in [Las!Keys -> Las!Numbers \union {"nothing"}]
               /\ \A k \in Las!Keys : s5'[k] # "nothing" => Whole(k, s5[k])'
    <3>1. /\ Whole(key, numbers)' /\ faults' \in {faults, faults + 1}
          /\ s5' = [s5 EXCEPT ![key] = numbers]
      BY <2>3, <2>4
    <3>2. faults' \in Nat /\ (faults' = 0 => faults = 0)
      BY <1>1, <3>1
    <3>3. s5' \in [Las!Keys -> Las!Numbers \union {"nothing"}]
      BY <1>1, <3>1
    <3>4. ASSUME NEW k \in Las!Keys, s5'[k] # "nothing" PROVE Whole(k, s5[k])'
      <4>1. CASE k = key
        BY <1>1, <3>1, <4>1
      <4>2. CASE k # key
        <5>1. s5'[k] = s5[k] /\ Whole(k, s5[k])
          BY <1>1, <3>1, <3>4, <4>2 DEF PanelInv
        <5> QED BY <3>2, <5>1 DEF Whole
      <4> QED BY <4>1, <4>2
    <3> QED BY <3>2, <3>3, <3>4
  <2>5. ASSUME NEW key \in Las!Keys, NEW numbers \in Las!Numbers, Las!Arrives(key, numbers)
        PROVE  PanelInv'
    <3> DEFINE shown == [key |-> key, numbers |-> numbers]
    <3>1. /\ Las!Load(key, numbers) /\ s8 = key /\ s8' = None /\ s6' = shown
          /\ UNCHANGED <<s7, s9>>
      BY <2>5 DEF Las!Arrives
    <3>2. /\ shown \in PanelNumbers /\ shown # None
          /\ shown.key = key /\ shown.numbers = numbers
      BY NoneAssumption DEF PanelNumbers, Las!Keys, Las!Scans, Las!Numbers
    <3> HIDE DEF shown
    <3>3. Las!TypeOK'
      BY <1>1, <2>1, <2>4, <3>1, <3>2 DEF Las!TypeOK, PanelNumbers
    <3>4. key # None
      BY NoneAssumption DEF Las!Keys, Las!Scans
    <3>5. key = Las!cacheKey'
      BY <2>2, <3>1, <3>4 DEF PanelInv
    <3>6. Whole(s6.key, s6.numbers)'
      BY <2>3, <3>1, <3>2 DEF Whole
    <3> QED BY <2>4, <3>1, <3>2, <3>3, <3>5, <3>6 DEF PanelInv
  <2>6. ASSUME NEW key \in Las!Keys, NEW numbers \in Las!Numbers, Las!ArrivesLate(key, numbers)
        PROVE  PanelInv'
    <3>1. /\ Las!Load(key, numbers) /\ s9' = s9 \ {key} /\ UNCHANGED <<s6, s7, s8>>
      BY <2>6 DEF Las!ArrivesLate
    <3>2. Las!TypeOK'
      BY <1>1, <2>1, <2>4, <3>1 DEF PanelInv, Las!TypeOK
    <3>3. s6' # None => Whole(s6.key, s6.numbers)'
      BY <2>4, <3>1 DEF PanelInv, Whole
    <3> QED BY <2>2, <2>4, <3>1, <3>2, <3>3 DEF PanelInv
  <2>7. ASSUME NEW key \in Las!Keys, Las!LoadFails(key) PROVE PanelInv'
    <3>1. /\ UNCHANGED <<s5, s6>> /\ faults' = faults + 1 /\ s9' \in {s9, s9 \ {key}}
          /\ \/ s7' = TRUE /\ s8' = None
             \/ UNCHANGED <<s7, s8>>
      BY <2>7 DEF Las!LoadFails, Las!Fault
    <3>2. Las!TypeOK'
      BY <1>1, <2>1, <3>1 DEF PanelInv, Las!TypeOK
    <3>3. faults' \in Nat /\ faults' # 0
      BY <1>1, <3>1
    <3>4. /\ s8' \in {None, Las!cacheKey'}
          /\ Las!latest' # None => /\ s6' # None => s6'.key = Las!cacheKey'
                                   /\ s6' = None /\ ~s7' => s8' = Las!cacheKey'
      BY <2>2, <3>1 DEF PanelInv
    <3> QED BY <3>2, <3>3, <3>4 DEF PanelInv, Whole
  <2>8. CASE UNCHANGED Las!lvars
    <3>1. UNCHANGED <<s3, s4, s5, s6, s7, s8, s9, faults>>
      BY <2>8 DEF Las!lvars
    <3> QED BY <2>2, <3>1 DEF PanelInv, Las!TypeOK, Whole
  <2> QED BY <1>5, <2>5, <2>6, <2>7, <2>8
<1> QED BY <1>2, <1>3, <1>4, <1>5 DEF Las!Next

\* The numbers on display are those of the scan that is named, or are waited for.
LEMMA NumbersAreNamed ==
  Las!Spec => [](Las!ShowsTheNamedScan /\ Las!SkeletonIsWaitedFor /\ Las!TypeOK)
<1>1. PanelInv => Las!ShowsTheNamedScan /\ Las!SkeletonIsWaitedFor /\ Las!TypeOK
  <2> SUFFICES ASSUME PanelInv PROVE Las!ShowsTheNamedScan /\ Las!SkeletonIsWaitedFor
    BY DEF PanelInv
  <2>1. Las!body = "numbers" => Las!latest # None /\ s6 # None
    BY DEF Las!body
  <2>2. Las!body = "loading" => Las!latest # None /\ ~s7 /\ s6 = None
    BY DEF Las!body
  <2> QED BY <2>1, <2>2 DEF PanelInv, Whole, Las!ShowsTheNamedScan, Las!SkeletonIsWaitedFor
<1>2. PanelInv /\ KeyIsOne /\ KeyIsOne' /\ [Las!Next]_Las!lvars => PanelInv'
  BY PanelFollows
<1> QED BY <1>1, <1>2, PanelInit, KeyOfTheScan, PTL DEF Las!Spec

\* The page asks for the scan as long as the one on display is under way, if its answers came
\* in their order.
GraphInv ==
  /\ Gra!IInv
  /\ s1 \in Gra!Worlds /\ Len(s4) <= 2
  /\ s6 \in 0..Gra!Last \union {None}
  /\ s6 = None => s5
  /\ s6 # None /\ ~s14 => (s5 <=> Gra!Running(s6))
  /\ s7 = {} \/ (Gra!Domain \in s7 /\ s7 \subseteq Gra!Nodes)
  /\ s9 \subseteq {Gra!Domain, Gra!Subdomain}
  /\ s12 => s11 # None

\* What a step of the scan brings are nodes, and the domain is always one of them.
LEMMA KnownAreNodes ==
  ASSUME NEW n \in 0..Gra!Last, s1 \in Gra!Worlds
  PROVE  Gra!Domain \in Gra!Known(n) /\ Gra!Known(n) \subseteq Gra!Nodes
<1>1. s1.missing \in {{}, {"address"}}
  BY DEF Gra!Worlds
<1>2. \A i \in 1..n : Gra!Brings[i] \subseteq Gra!Nodes
  BY DEF Gra!Last, Gra!Brings, Gra!Nodes, Gra!Findings
<1> QED BY <1>1, <1>2 DEF Gra!Known, Gra!Nodes, Gra!Findings, Gra!Domain, Gra!Subdomain

\* The rows are those of the domain and of the subdomain.
LEMMA RowsAreTwo ==
  \A nodes : DOMAIN Gra!buildRows(nodes) = nodes \intersect {Gra!Domain, Gra!Subdomain}
BY DEF Gra!buildRows

\* A scan has ended when its last step is over.
LEMMA EndsAtLast == \A n : Gra!Terminal(n) <=> ~Gra!Running(n)
BY DEF Gra!Terminal, Gra!StatusAt, Gra!TERMINAL_SCAN_STATUSES

\* Nothing is shown at first.
LEMMA GraphShownInit == Gra!Init => GraphInv
<1> SUFFICES ASSUME Gra!Init PROVE GraphInv
  OBVIOUS
<1>1. s1 \in Gra!Worlds /\ s4 = <<>> /\ s5 /\ s6 = None /\ s7 = {} /\ s9 = {} /\ ~s12
  BY DEF Gra!Init
<1>2. Len(s4) = 0
  BY <1>1
<1> QED BY <1>1, <1>2, GraphInit DEF GraphInv

\* Every step keeps that.
LEMMA GraphShownStep == ASSUME GraphInv, [Gra!Next]_Gra!gvars PROVE GraphInv'
<1> USE DEF Gra!rest
<1>1. Gra!IInv'
  BY GraphStepSound DEF GraphInv
<1>2. CASE Gra!PollArrives
  <2>1. PICK i \in 1..Len(s4) :
          LET p == s4[i]
              nodes == Gra!Known(p.graph)
              over == Gra!Terminal(p.status)
              folded == IF over /\ ~s10 THEN Gra!WithoutFindings(nodes) ELSE s9
          IN /\ None \notin {p.status, p.graph}
             /\ s4' = Gra!Without(i)
             /\ s6' = p.status /\ s7' = nodes
             /\ (s5' <=> s5 /\ ~over)
             /\ s9' = Gra!Followed(folded, nodes)
             /\ (s12' <=> s12 \/ s11 \in nodes)
             /\ (s14' <=> s14 \/ (s6 # None /\ p.status < s6))
             /\ s1' = s1 /\ s11' = s11
    BY <1>2 DEF Gra!PollArrives
  <2> DEFINE Poll == [status : {None} \union 0..Gra!Last, graph : {None} \union 0..Gra!Last]
             status == s4[i].status
             nodes == Gra!Known(s4[i].graph)
             folded == IF Gra!Terminal(status) /\ ~s10 THEN Gra!WithoutFindings(nodes) ELSE s9
  <2>2. status \in 0..Gra!Last /\ s4[i].graph \in 0..Gra!Last
    <3>1. s4 \in Seq(Poll)
      BY DEF GraphInv, Gra!IInv
    <3> HIDE DEF Poll
    <3>2. s4[i] \in Poll
      BY <3>1
    <3> QED BY <2>1, <3>2 DEF Poll
  <2>3. Gra!Domain \in nodes /\ nodes \subseteq Gra!Nodes /\ None \notin nodes
    BY <2>2, KnownAreNodes, NodesAreKnown DEF GraphInv
  <2>4. s6' = status /\ s7' = nodes /\ s1' = s1 /\ s11' = s11
        /\ (s5' <=> s5 /\ ~Gra!Terminal(status)) /\ (s12' <=> s12 \/ s11 \in nodes)
        /\ (s14' <=> s14 \/ (s6 # None /\ status < s6)) /\ s9' = Gra!Followed(folded, nodes)
    BY <2>1
  <2>5. Len(s4') <= 2
    <3>1. s4' = [j \in 1..(Len(s4) - 1) |-> IF j < i THEN s4[j] ELSE s4[j + 1]]
      BY <2>1 DEF Gra!Without
    <3>2. Len(s4) - 1 \in Nat /\ Len(s4) <= 2
      <4>1. s4 \in Seq(Poll)
        BY DEF GraphInv, Gra!IInv
      <4> QED BY <4>1 DEF GraphInv
    <3> QED BY <3>1, <3>2
  <2>6. folded \subseteq {Gra!Domain, Gra!Subdomain}
    BY RowsAreTwo DEF Gra!WithoutFindings, GraphInv
  <2> HIDE DEF status, nodes, folded
  <2>7. s9' \subseteq {Gra!Domain, Gra!Subdomain}
    BY <2>4, <2>6 DEF Gra!Followed
  <2>8. s6' # None /\ ~s14' => (s5' <=> Gra!Running(s6'))
    <3>1. status \in Int /\ (s6 # None => s6 \in Int) /\ Gra!Last \in Int
      BY <2>2 DEF GraphInv, Gra!Last, Gra!Brings
    <3>2. s6 # None /\ ~(status < s6) /\ Gra!Running(status) => Gra!Running(s6)
      BY <3>1 DEF Gra!Running
    <3> QED BY <2>4, <3>2, EndsAtLast DEF GraphInv
  <2>9. s6' # None
    BY <2>2, <2>4, NoneAssumption
  <2> QED BY <1>1, <2>2, <2>3, <2>4, <2>5, <2>7, <2>8, <2>9 DEF GraphInv
<1>3. CASE Gra!poll \/ Gra!Served \/ Gra!PollFails
  <2>1. UNCHANGED <<s1, s5, s6, s7, s9, s11, s12, s14>>
    BY <1>3 DEF Gra!poll, Gra!Served, Gra!PollFails
  <2>2. Len(s4') <= 2
    <3> DEFINE Poll == [status : {None} \union 0..Gra!Last, graph : {None} \union 0..Gra!Last]
    <3>1. s4 \in Seq(Poll) /\ Len(s4) <= 2 /\ Len(s4) \in Nat
      BY DEF GraphInv, Gra!IInv
    <3> HIDE DEF Poll
    <3>2. CASE Gra!poll
      <4>1. s4' = Append(s4, [status |-> None, graph |-> None]) /\ Len(s4) < 2
        BY <3>1, <3>2 DEF Gra!poll, Gra!MaxPolls
      <4> QED BY <3>1, <4>1
    <3>3. CASE Gra!Served
      <4>1. PICK i \in 1..Len(s4), part \in {"status", "graph"} :
              s4' = [s4 EXCEPT ![i][part] = s2]
        BY <3>3 DEF Gra!Served
      <4> QED BY <3>1, <4>1
    <3>4. CASE Gra!PollFails
      <4>1. PICK i \in 1..Len(s4) :
              s4' = [j \in 1..(Len(s4) - 1) |-> IF j < i THEN s4[j] ELSE s4[j + 1]]
        BY <3>4 DEF Gra!PollFails, Gra!Without
      <4>2. Len(s4) - 1 \in Nat
        BY <3>1
      <4> QED BY <3>1, <4>1, <4>2
    <3> QED BY <1>3, <3>2, <3>3, <3>4
  <2> QED BY <1>1, <2>1, <2>2 DEF GraphInv
<1>4. CASE \/ UNCHANGED Gra!gvars \/ Gra!ScanGoesOn \/ Gra!toggleRow \/ Gra!ToggleAll
           \/ Gra!OpenPanel \/ Gra!ClosePanel \/ Gra!ShowOnGraph \/ Gra!HotSpotPills
  <2>1. UNCHANGED <<s1, s4, s5, s6, s7, s11, s12, s14>>
    BY <1>4 DEF Gra!gvars, Gra!ScanGoesOn, Gra!toggleRow, Gra!ToggleAll, Gra!OpenPanel,
       Gra!ClosePanel, Gra!ShowOnGraph, Gra!HotSpotPills
  <2>2. s9' \subseteq s9 \union DOMAIN Gra!buildRows(s7)
    BY <1>4 DEF Gra!gvars, Gra!ScanGoesOn, Gra!toggleRow, Gra!ToggleAll, Gra!OpenPanel,
       Gra!ClosePanel, Gra!ShowOnGraph, Gra!HotSpotPills
  <2>3. s9' \subseteq {Gra!Domain, Gra!Subdomain}
    BY <2>2, RowsAreTwo DEF GraphInv
  <2> QED BY <1>1, <2>1, <2>3 DEF GraphInv
<1> QED BY <1>2, <1>3, <1>4 DEF Gra!Next

\* After the last step every step of a row is over or has failed.
LEMMA AllStepsOver == \A row : Gra!RowStatusCard(row, Gra!Last) = "complete"
<1> SUFFICES ASSUME NEW row PROVE Gra!RowStatusCard(row, Gra!Last) = "complete"
  OBVIOUS
<1> DEFINE stages == {Gra!rowStages(row, Gra!Last)[step] : step \in 1..Gra!Last}
<1>1. ASSUME NEW step \in 1..Gra!Last
      PROVE  Gra!rowStages(row, Gra!Last)[step] \in {"done", "failed"}
  <2>1. Gra!SourceStatus(step, Gra!Last) \in {"completed", "failed"}
    <3>1. step <= Gra!Last
      BY DEF Gra!Last, Gra!Brings
    <3>2. step # Gra!Last + 1
      BY DEF Gra!Last, Gra!Brings
    <3> QED BY <3>1, <3>2 DEF Gra!SourceStatus
  <2> DEFINE later == \E l \in step..Gra!Last : Gra!Brings[l] \intersect row # {}
             status == Gra!SourceStatus(step, Gra!Last)
  <2>2. Gra!rowStages(row, Gra!Last)[step] =
          CASE later -> "done" [] status = "failed" -> "failed" [] status = "completed" -> "done"
            [] OTHER -> status
    BY DEF Gra!rowStages
  <2> HIDE DEF later, status
  <2>3. status \in {"completed", "failed"}
    BY <2>1 DEF status
  <2>4. CASE later /\ status = "completed"
    BY <2>2, <2>4
  <2>5. CASE later /\ status = "failed"
    BY <2>2, <2>5
  <2>6. CASE ~later
    BY <2>2, <2>3, <2>6
  <2> QED BY <2>3, <2>4, <2>5, <2>6
<1>2. stages \subseteq {"done", "failed"} /\ "running" \notin stages
  BY <1>1
<1>3. Gra!RowStatusCard(row, Gra!Last) =
        CASE "running" \in stages -> "running" [] stages \subseteq {"done", "failed"} -> "complete"
          [] OTHER -> "queued"
  BY DEF Gra!RowStatusCard
<1> HIDE DEF stages
<1> QED BY <1>2, <1>3

\* What is reached from a root are nodes.
LEMMA ReachIsInside ==
  ASSUME NEW nodes, NEW root \in nodes, NEW stop
  PROVE  Gra!Reach(root, nodes, stop) \subseteq nodes
<1> DEFINE further(seen) ==
             seen \union {n \in nodes : /\ ~(stop /\ n = Gra!Subdomain)
                                        /\ Gra!Parents(n, nodes) \intersect seen # {}}
<1>1. Gra!Reach(root, nodes, stop) = further(further(further(further({root}))))
  BY DEF Gra!Reach
<1>2. \A seen \in SUBSET nodes : further(seen) \in SUBSET nodes
  OBVIOUS
<1>3. {root} \in SUBSET nodes
  OBVIOUS
<1> HIDE DEF further
<1>4. further(further(further(further({root})))) \in SUBSET nodes
  BY <1>2, <1>3
<1> QED BY <1>1, <1>4

\* Every node is in a row: the row of the domain has those that no other has.
LEMMA AllAreInRows == ASSUME GraphInv PROVE Gra!NothingIsLost
<1> DEFINE rows == Gra!buildRows(s7)
           connected(root) == Gra!Reach(root, s7, root = Gra!Domain)
           roots == s7 \intersect {Gra!Domain, Gra!Subdomain}
           placed == UNION {connected(root) : root \in roots}
<1>1. rows = [root \in roots |-> connected(root) \union IF root = Gra!Domain THEN s7 \ placed
                                                       ELSE {}]
  BY DEF Gra!buildRows
<1>2. \A root \in roots : connected(root) \subseteq s7
  BY ReachIsInside
<1> HIDE DEF rows, connected
<1>3. DOMAIN rows = roots /\ \A root \in roots : rows[root] \subseteq s7
  BY <1>1, <1>2
<1>4. CASE s7 = {}
  BY <1>3, <1>4 DEF Gra!NothingIsLost, rows
<1>5. CASE Gra!Domain \in s7
  <2>1. ASSUME NEW n \in s7 PROVE \E root \in roots : n \in rows[root]
    <3>1. CASE n \in placed
      BY <1>1, <3>1
    <3>2. CASE n \notin placed
      BY <1>1, <1>5, <3>2
    <3> QED BY <3>1, <3>2
  <2>2. s7 = UNION {rows[root] : root \in DOMAIN rows}
    BY <1>3, <2>1
  <2> QED BY <2>2 DEF Gra!NothingIsLost, rows
<1> QED BY <1>4, <1>5 DEF GraphInv

\* A way of at most three links back is found.
LEMMA WaysBack ==
  ASSUME NEW links, NEW c, NEW u, NEW h, NEW root,
         \/ <<root, c>> \in links
         \/ <<root, h>> \in links /\ <<h, c>> \in links
         \/ <<root, h>> \in links /\ <<h, u>> \in links /\ <<u, c>> \in links
  PROVE  root \in Gra!TracedFrom(c, links)
<1> DEFINE back(seen) == seen \union {l[1] : l \in {l \in links : l[2] \in seen}}
<1>1. Gra!TracedFrom(c, links) = back(back(back(back({c}))))
  BY DEF Gra!TracedFrom
<1>2. \A seen : seen \subseteq back(seen)
  OBVIOUS
<1>3. \A seen, a, b : <<a, b>> \in links /\ b \in seen => a \in back(seen)
  <2> SUFFICES ASSUME NEW seen, NEW a, NEW b, <<a, b>> \in links, b \in seen PROVE a \in back(seen)
    OBVIOUS
  <2>1. <<a, b>> \in {l \in links : l[2] \in seen} /\ <<a, b>>[1] = a
    OBVIOUS
  <2> QED BY <2>1
<1> HIDE DEF back
<1> DEFINE b1 == back({c})
           b2 == back(b1)
           b3 == back(b2)
           b4 == back(b3)
<1>4. c \in {c} /\ {c} \subseteq b1 /\ b1 \subseteq b2 /\ b2 \subseteq b3 /\ b3 \subseteq b4
  BY <1>2
<1>5. /\ \A a, b : <<a, b>> \in links /\ b \in {c} => a \in b1
      /\ \A a, b : <<a, b>> \in links /\ b \in b1 => a \in b2
      /\ \A a, b : <<a, b>> \in links /\ b \in b2 => a \in b3
  BY <1>3
<1>6. Gra!TracedFrom(c, links) = b4
  BY <1>1
<1> HIDE DEF b1, b2, b3, b4
<1>7. root \in b4
  BY <1>4, <1>5
<1> QED BY <1>6, <1>7

\* The host of a node of a row is one of the row's hosts.
LEMMA HostsAreLinked ==
  ASSUME NEW root, NEW row, NEW n, NEW h \in Gra!HostOf(n, root, row)
  PROVE  h \in Gra!Hosts(root, row)
<1>1. CASE n \in Gra!Hosts(root, row)
  BY <1>1 DEF Gra!HostOf
<1>2. CASE n \notin Gra!Hosts(root, row)
  <2>1. n = "service" /\ n \in row
        /\ h = IF "address" \in Gra!Parents(n, row) THEN "address" ELSE Gra!RootHost
    BY <1>2 DEF Gra!HostOf
  <2>2. CASE "address" \in Gra!Parents(n, row)
    BY <2>1, <2>2 DEF Gra!Hosts, Gra!Parents
  <2>3. CASE "address" \notin Gra!Parents(n, row)
    BY <2>1, <2>3 DEF Gra!Hosts
  <2> QED BY <2>2, <2>3
<1> QED BY <1>1, <1>2

\* From every chip of a row a way leads back to its root.
LEMMA ChipsAreTraced ==
  ASSUME NEW root, NEW row, NEW c \in Gra!Chips(row)
  PROVE  root \in Gra!TracedFrom(c, Gra!Links(root, row))
<1> DEFINE links == Gra!Links(root, row)
           services == Gra!ChipServices(c, root, row)
           hosts == Gra!ChipHosts(c, root, row)
<1>1. \A h \in Gra!Hosts(root, row) : <<root, h>> \in links
  BY DEF Gra!Links
<1>2. \A u \in Gra!Upstream(c, root, row) : <<u, c>> \in links
  <2> SUFFICES ASSUME NEW u \in Gra!Upstream(c, root, row) PROVE <<u, c>> \in links
    OBVIOUS
  <2> DEFINE toChip(d) == {<<v, d>> : v \in Gra!Upstream(d, root, row)}
  <2>1. <<u, c>> \in toChip(c)
    OBVIOUS
  <2>2. toChip(c) \in {toChip(d) : d \in Gra!Chips(row)}
    OBVIOUS
  <2>3. <<u, c>> \in UNION {toChip(d) : d \in Gra!Chips(row)}
    BY <2>1, <2>2, Zenon
  <2> QED BY <2>3, Zenon DEF Gra!Links
<1>3. CASE services # {}
  <2>1. PICK u \in services : TRUE
    BY <1>3
  <2>2. <<u, c>> \in links
    BY <1>2, <1>3 DEF Gra!Upstream
  <2>3. u = "service" /\ u \in row
    BY DEF Gra!ChipServices, Gra!Parents
  <2>4. u \notin Gra!Hosts(root, row)
    BY <2>3 DEF Gra!Hosts, Gra!RootHost
  <2> DEFINE h == IF "address" \in Gra!Parents(u, row) THEN "address" ELSE Gra!RootHost
  <2>5. h \in Gra!HostOf(u, root, row)
    BY <2>3, <2>4 DEF Gra!HostOf
  <2> HIDE DEF h
  <2>6. h \in Gra!Hosts(root, row)
    BY <2>5, HostsAreLinked
  <2>7. <<h, u>> \in links
    <3>1. <<h, u>> \in Gra!Hosts(root, row) \X ({"service"} \intersect row)
      BY <2>3, <2>6
    <3>2. <<h, u>>[1] \in Gra!HostOf(<<h, u>>[2], root, row)
      BY <2>5
    <3> QED BY <3>1, <3>2 DEF Gra!Links
  <2> HIDE DEF links
  <2>8. <<root, h>> \in links /\ <<h, u>> \in links /\ <<u, c>> \in links
    BY <1>1, <2>2, <2>6, <2>7
  <2>9. root \in Gra!TracedFrom(c, links)
    BY <2>8, WaysBack
  <2> QED BY <2>9 DEF links
<1>4. CASE services = {} /\ hosts # {}
  <2>1. PICK h \in hosts : TRUE
    BY <1>4
  <2>2. h \in Gra!Upstream(c, root, row)
    BY <1>4 DEF Gra!Upstream
  <2>3. PICK n : h \in Gra!HostOf(n, root, row)
    BY DEF Gra!ChipHosts
  <2>4. h \in Gra!Hosts(root, row)
    BY <2>3, HostsAreLinked
  <2> HIDE DEF links
  <2>5. <<root, h>> \in links /\ <<h, c>> \in links
    BY <1>1, <1>2, <2>2, <2>4
  <2>6. root \in Gra!TracedFrom(c, links)
    BY <2>5, WaysBack
  <2> QED BY <2>6 DEF links
<1>5. CASE services = {} /\ hosts = {}
  <2>1. root \in Gra!Upstream(c, root, row)
    BY <1>5 DEF Gra!Upstream
  <2> HIDE DEF links
  <2>2. <<root, c>> \in links
    BY <1>2, <2>1
  <2>3. root \in Gra!TracedFrom(c, links)
    BY <2>2, WaysBack
  <2> QED BY <2>3 DEF links
<1> QED BY <1>3, <1>4, <1>5

\* The graph is asked for until the end, loses nothing, and every finding of it is traced.
LEMMA GraphIsWhole ==
  Gra!Spec => [](/\ Gra!AsksUntilTheEnd /\ Gra!NothingLooksUnderWay
                 /\ Gra!NothingIsLost /\ Gra!FindingsAreTraced /\ Gra!TypeOK)
<1>1. GraphInv => Gra!AsksUntilTheEnd /\ Gra!NothingLooksUnderWay
  <2> SUFFICES ASSUME GraphInv PROVE Gra!AsksUntilTheEnd /\ Gra!NothingLooksUnderWay
    OBVIOUS
  <2>1. Gra!AsksUntilTheEnd
    BY DEF GraphInv, Gra!AsksUntilTheEnd
  <2>2. ASSUME s6 # None, ~s5, ~s14 PROVE \A row : Gra!RowStatusCard(row, s6) = "complete"
    <3>1. ~(s6 < Gra!Last) /\ s6 \in 0..Gra!Last /\ Gra!Last = 2
      BY <2>2 DEF GraphInv, Gra!Running, Gra!Last, Gra!Brings
    <3>2. s6 = Gra!Last
      BY <3>1
    <3> QED BY <3>2, AllStepsOver
  <2> QED BY <2>1, <2>2 DEF Gra!NothingLooksUnderWay
<1>2. GraphInv => Gra!NothingIsLost
  BY AllAreInRows
<1>3. Gra!FindingsAreTraced
  BY ChipsAreTraced DEF Gra!FindingsAreTraced
<1>4. GraphInv => Gra!TypeOK
  BY DEF GraphInv, Gra!IInv, Gra!TypeOK, Gra!Nodes
<1> QED BY <1>1, <1>2, <1>3, <1>4, GraphShownInit, GraphShownStep, PTL DEF Gra!Spec

\* What the backend can be read to say: a run is told only with its candidates.
Honest == {o \in Bra!Overview : o.last > 0 => o.found}

\* Whether a run is over, as a number.
IsOver(no) == IF no \in 1..s2 /\ s1[no] = "over" THEN 1 ELSE 0

\* A run has finished once for every job that is over and every one that was tried again; one
\* that is ingesting has committed its candidates; and what the page read was said.
BrandInv ==
  /\ Bra!IInv
  /\ faults \in 0..MaxFaults
  /\ s2 \in 0..2 /\ s1 \in [1..s2 -> {"queued", "ingesting", "over"}]
  /\ s3.last <= 1 + IsOver(1) + IsOver(2) + faults
  /\ s3.last > 0 => s3.found
  /\ (\E no \in 1..s2 : s1[no] = "ingesting") => s3.found
  /\ s4 \in Honest \union {None}
  /\ s5 \in [kind : {"loading", "error"}] \union [kind : {"ready"}, overview : Honest]
  /\ s6 \in [step : {"idle", "posting", "waiting", "polling"}, previous : Nat, before : Nat,
             read : Honest \union {None}]
  /\ s6.step = "polling" => s6.read \in Honest
  /\ s6.step = "posting" => s2 < 2
  /\ s7 \in 0..MaxReportChecks
  /\ s8 \in {"none", "running", "complete", "error", "late"}
  /\ s9 \in Bra!Decisions

\* What the backend says is what it can be read to say.
LEMMA BackendIsHonest == ASSUME BrandInv PROVE s3 \in Honest
<1>1. s3 \in [found : BOOLEAN, decision : Bra!Decisions, last : Nat] /\ (s3.last > 0 => s3.found)
  BY DEF BrandInv, Bra!IInv
<1>2. IsOver(1) \in 0..1 /\ IsOver(2) \in 0..1
  BY DEF IsOver
<1>3. s3.last \in 0..(1 + 2 + MaxFaults)
  BY <1>1, <1>2, FaultsAssumption DEF BrandInv
<1>4. s3 \in [found : BOOLEAN, decision : Bra!Decisions, last : 0..(1 + 2 + MaxFaults)]
  BY <1>1, <1>3
<1> QED BY <1>1, <1>4 DEF Honest, Bra!Overview, Bra!MaxRuns

\* At first a run of an earlier visit may be known.
LEMMA BrandPageInit == Bra!Init => BrandInv
<1> SUFFICES ASSUME Bra!Init PROVE BrandInv
  OBVIOUS
<1>1. PICK known \in BOOLEAN :
        s3 = [found |-> known, decision |-> "new", last |-> IF known THEN 1 ELSE 0]
  BY DEF Bra!Init
<1>2. /\ s3 \in [found : BOOLEAN, decision : Bra!Decisions, last : 0..(1 + 2 + MaxFaults)]
      /\ s3.last <= 1 /\ (s3.last > 0 => s3.found)
  BY <1>1, FaultsAssumption DEF Bra!Decisions
<1>3. s3 \in Honest
  BY <1>2 DEF Honest, Bra!Overview, Bra!MaxRuns
<1>4. /\ s1 = <<>> /\ s2 = 0 /\ s4 = s3 /\ s5 = [kind |-> "loading"] /\ s7 = 0 /\ s8 = "none"
      /\ s6 = [step |-> "idle", previous |-> 0, before |-> 0, read |-> None]
      /\ s9 = "new" /\ faults = 0
  BY DEF Bra!Init
<1>5. IsOver(1) = 0 /\ IsOver(2) = 0
  BY <1>4 DEF IsOver
<1>6. s1 \in [1..s2 -> {"queued", "ingesting", "over"}] /\ s9 \in Bra!Decisions
  BY <1>4 DEF Bra!Decisions
<1> QED BY <1>2, <1>3, <1>4, <1>5, <1>6, BrandInit, FaultsAssumption, ChecksAssumption DEF BrandInv

\* What a step does to the runs.
LEMMA RunsGoOn ==
  ASSUME BrandInv, [Bra!Next]_Bra!bvars
  PROVE  /\ s2' \in 0..2 /\ s1' \in [1..s2' -> {"queued", "ingesting", "over"}]
         /\ faults' \in 0..MaxFaults
         /\ s3'.last <= 1 + IsOver(1)' + IsOver(2)' + faults'
         /\ s3'.last > 0 => s3'.found
         /\ (\E no \in 1..s2' : s1'[no] = "ingesting") => s3'.found
         /\ s6'.step = "posting" => s2' < 2
<1> DEFINE Runs == {"queued", "ingesting", "over"}
<1>1. /\ faults \in Nat /\ MaxFaults \in Nat /\ faults \in 0..MaxFaults
      /\ s2 \in 0..2 /\ s1 \in [1..s2 -> Runs]
      /\ s3 \in [found : BOOLEAN, decision : Bra!Decisions, last : Nat]
      /\ IsOver(1) \in 0..1 /\ IsOver(2) \in 0..1
  BY FaultsAssumption DEF BrandInv, Bra!IInv, IsOver
<1>2. ASSUME NEW no \in 1..Bra!MaxRuns, Bra!ingest_worker_results(no)
      PROVE  /\ s1' \in [1..s2' -> Runs] /\ s2' = s2 /\ faults' = faults /\ s6' = s6
             /\ s3'.last <= 1 + IsOver(1)' + IsOver(2)' + faults'
             /\ s3'.found
  <2>1. no \in 1..s2 /\ UNCHANGED <<s2, faults, s6>> /\ no \in 1..2
    BY <1>1, <1>2 DEF Bra!ingest_worker_results, Bra!page, Bra!MaxRuns
  <2>2. CASE /\ s1[no] = "queued" /\ s3' = [s3 EXCEPT !.found = TRUE]
             /\ s1' = [s1 EXCEPT ![no] = "ingesting"]
    <3>1. s3'.last = s3.last /\ s3'.found
      BY <1>1, <2>2
    <3>2. s1' \in [1..s2 -> Runs]
      BY <1>1, <2>1, <2>2
    <3>3. \A m \in 1..2 : IsOver(m)' = IsOver(m)
      BY <1>1, <2>1, <2>2 DEF IsOver
    <3>4. IsOver(1)' = IsOver(1) /\ IsOver(2)' = IsOver(2)
      BY <3>3
    <3> QED BY <2>1, <3>1, <3>2, <3>4 DEF BrandInv
  <2>3. CASE /\ s1[no] = "ingesting" /\ s3' = [s3 EXCEPT !.last = @ + 1]
             /\ s1' = [s1 EXCEPT ![no] = "over"]
    <3>1. s3'.last = s3.last + 1 /\ s3'.found
      BY <1>1, <2>1, <2>3 DEF BrandInv
    <3>2. s1' \in [1..s2 -> Runs]
      BY <1>1, <2>1, <2>3
    <3>3. IsOver(no) = 0 /\ IsOver(no)' = 1
      BY <1>1, <2>1, <2>3 DEF IsOver
    <3>4. \A m \in 1..2 : m # no => IsOver(m)' = IsOver(m)
      BY <1>1, <2>1, <2>3 DEF IsOver
    <3>5. no = 1 \/ no = 2
      BY <2>1
    <3>6. IsOver(1)' + IsOver(2)' = IsOver(1) + IsOver(2) + 1
      BY <1>1, <3>3, <3>4, <3>5
    <3>7. s3.last <= 1 + IsOver(1) + IsOver(2) + faults /\ s3.last \in Nat
      BY <1>1 DEF BrandInv
    <3>8. IsOver(1)' \in 0..1 /\ IsOver(2)' \in 0..1
      BY DEF IsOver
    <3>9. s3'.last <= 1 + IsOver(1)' + IsOver(2)' + faults'
      BY <1>1, <2>1, <3>1, <3>6, <3>7, <3>8
    <3> QED BY <2>1, <3>1, <3>2, <3>9
  <2> QED BY <1>2, <2>1, <2>2, <2>3 DEF Bra!ingest_worker_results, Bra!upsert_candidates
<1>3. ASSUME NEW no \in 1..Bra!MaxRuns, Bra!RunFails(no)
      PROVE  /\ s1' \in [1..s2' -> Runs] /\ s2' = s2 /\ s3' = s3 /\ s6' = s6
             /\ faults' \in 0..MaxFaults
             /\ s3'.last <= 1 + IsOver(1)' + IsOver(2)' + faults'
             /\ \A m \in 1..s2 : s1'[m] = "ingesting" => s1[m] = "ingesting"
  <2>1. /\ no \in 1..s2 /\ UNCHANGED <<s2, s3, s6>> /\ no \in 1..2
        /\ faults < MaxFaults /\ faults' = faults + 1
    BY <1>1, <1>3 DEF Bra!RunFails, Bra!page, Bra!MaxRuns, Bra!Fault
  <2>2. PICK step \in {"queued", "over"} : s1' = [s1 EXCEPT ![no] = step]
    BY <1>3 DEF Bra!RunFails
  <2>3. s1' \in [1..s2 -> Runs] /\ \A m \in 1..s2 : s1'[m] = "ingesting" => s1[m] = "ingesting"
    BY <1>1, <2>1, <2>2
  <2>4. \A m \in 1..2 : m # no => IsOver(m)' = IsOver(m)
    <3>1. \A m \in 1..s2 : m # no => s1'[m] = s1[m]
      BY <1>1, <2>1, <2>2
    <3> QED BY <2>1, <3>1 DEF IsOver
  <2>5. IsOver(1)' \in 0..1 /\ IsOver(2)' \in 0..1 /\ (no = 1 \/ no = 2)
    BY <2>1 DEF IsOver
  <2>6. IsOver(1) + IsOver(2) <= IsOver(1)' + IsOver(2)' + 1
    BY <1>1, <2>4, <2>5
  <2> HIDE DEF Runs
  <2> QED BY <1>1, <2>1, <2>3, <2>5, <2>6 DEF BrandInv
<1>4. CASE s2' = s2 + 1 /\ s1' = Append(s1, "queued") /\ s6.step = "posting"
           /\ s3' = s3 /\ s6'.step # "posting" /\ faults' \in faults..MaxFaults
  <2>1. s2 < 2 /\ s2' \in 0..2
    BY <1>1, <1>4 DEF BrandInv
  <2>2. s1 \in Seq(Runs) /\ Len(s1) = s2
    <3>1. s1 \in Seq(Runs) /\ DOMAIN s1 = 1..s2 /\ s2 \in Nat
      BY <1>1, FunctionsAreSequences
    <3>2. DOMAIN s1 = 1..Len(s1) /\ Len(s1) \in Nat
      BY <3>1, LenProperties
    <3>3. \A n, m \in Nat : 1..n = 1..m => n = m
      OBVIOUS
    <3>4. Len(s1) = s2
      BY <3>1, <3>2, <3>3
    <3> QED BY <3>1, <3>4
  <2>3. s1' \in [1..s2' -> Runs] /\ \A m \in 1..s2 : s1'[m] = s1[m]
    <3>1. Append(s1, "queued") \in Seq(Runs) /\ Len(Append(s1, "queued")) = s2 + 1
      BY <2>2, AppendProperties
    <3>2. Append(s1, "queued") \in [1..s2 + 1 -> Runs]
      BY <3>1, LenProperties
    <3>3. \A m \in 1..s2 : Append(s1, "queued")[m] = s1[m]
      BY <2>2, AppendProperties
    <3> QED BY <1>4, <3>2, <3>3
  <2>4. s1'[s2 + 1] = "queued"
    BY <1>4, <2>2, AppendProperties
  <2>5. \A m \in 1..2 : IsOver(m)' = IsOver(m)
    BY <1>1, <1>4, <2>3, <2>4 DEF IsOver
  <2>6. IsOver(1)' = IsOver(1) /\ IsOver(2)' = IsOver(2)
    BY <2>5
  <2>7. \A m \in 1..s2' : s1'[m] = "ingesting" => m \in 1..s2 /\ s1[m] = "ingesting"
    BY <1>1, <1>4, <2>3, <2>4
  <2>8. s3'.last <= 1 + IsOver(1)' + IsOver(2)' + faults' /\ faults' \in 0..MaxFaults
    BY <1>1, <1>4, <2>6 DEF BrandInv
  <2> HIDE DEF Runs
  <2> QED BY <1>4, <2>1, <2>3, <2>7, <2>8 DEF BrandInv, Runs
<1>5. CASE UNCHANGED <<s1, s2, s3>> /\ (s6'.step = "posting" => s2 < 2)
           /\ faults' \in faults..MaxFaults
  <2>1. IsOver(1)' = IsOver(1) /\ IsOver(2)' = IsOver(2)
    BY <1>5 DEF IsOver
  <2> QED BY <1>1, <1>5, <2>1 DEF BrandInv
<1>6. CASE Bra!update_candidate_status
  <2>1. UNCHANGED <<s1, s2, s6, faults>> /\ s3' = [s3 EXCEPT !.decision = s10.choice]
    BY <1>6 DEF Bra!update_candidate_status, Bra!page
  <2>2. s3'.last = s3.last /\ s3'.found = s3.found
    BY <1>1, <2>1
  <2>3. IsOver(1)' = IsOver(1) /\ IsOver(2)' = IsOver(2)
    BY <2>1 DEF IsOver
  <2> QED BY <1>1, <2>1, <2>2, <2>3 DEF BrandInv
<1>7. faults \in faults..MaxFaults /\ (faults < MaxFaults => faults + 1 \in faults..MaxFaults)
  BY <1>1
<1>8. CASE Bra!RunQueued \/ Bra!TriggerFails
  <2>1. s6.step = "posting" /\ s3' = s3 /\ faults' \in faults..MaxFaults
        /\ ((s2' = s2 + 1 /\ s1' = Append(s1, "queued")) \/ UNCHANGED <<s1, s2>>)
        /\ \E step \in {"waiting", "idle"} : s6' = [s6 EXCEPT !.step = step]
                                          \/ s6' = [s6 EXCEPT !.step = step, !.before = s3.last]
    BY <1>7, <1>8 DEF Bra!RunQueued, Bra!TriggerFails, Bra!Fault
  <2>2. s6'.step # "posting"
    BY <2>1 DEF BrandInv
  <2> QED BY <1>4, <1>5, <2>1, <2>2
<1>9. CASE Bra!handle_trigger_monitoring
  <2>1. UNCHANGED <<s1, s2, s3, faults>> /\ s2 < 2
    BY <1>9 DEF Bra!handle_trigger_monitoring, Bra!server, Bra!MaxRuns
  <2> QED BY <1>5, <1>7, <2>1
<1>10. CASE Bra!Poll \/ Bra!PollArrives \/ Bra!PollFails \/ Bra!WaitingTimesOut
  <2>1. UNCHANGED <<s1, s2, s3>> /\ faults' \in faults..MaxFaults
        /\ s6'.step # "posting"
    BY <1>7, <1>10 DEF Bra!Poll, Bra!PollArrives, Bra!PollFails, Bra!WaitingTimesOut, Bra!server,
       Bra!Fault, BrandInv
  <2> QED BY <1>5, <2>1
<1>11. CASE \/ UNCHANGED Bra!bvars
            \/ Bra!MonitoringLoaded \/ Bra!LoadFails \/ Bra!Refresh
            \/ \E choice \in Bra!Decisions \ {"new"} : Bra!handle_status_update(choice)
            \/ Bra!DecisionSaved \/ Bra!DecisionFails
  <2>1. UNCHANGED <<s1, s2, s3, s6>> /\ faults' \in faults..MaxFaults
    BY <1>7, <1>11 DEF Bra!bvars, Bra!server, Bra!page, Bra!MonitoringLoaded, Bra!LoadFails,
       Bra!Refresh, Bra!handle_status_update, Bra!DecisionSaved, Bra!DecisionFails, Bra!Fault
  <2> QED BY <1>5, <2>1 DEF BrandInv
<1>12. ASSUME NEW no \in 1..Bra!MaxRuns, Bra!ingest_worker_results(no) \/ Bra!RunFails(no)
       PROVE  /\ s2' \in 0..2 /\ s1' \in [1..s2' -> Runs]
              /\ faults' \in 0..MaxFaults
              /\ s3'.last <= 1 + IsOver(1)' + IsOver(2)' + faults'
              /\ s3'.last > 0 => s3'.found
              /\ (\E m \in 1..s2' : s1'[m] = "ingesting") => s3'.found
              /\ s6'.step = "posting" => s2' < 2
  BY <1>1, <1>2, <1>3, <1>12 DEF BrandInv
<1> QED BY <1>6, <1>8, <1>9, <1>10, <1>11, <1>12 DEF Bra!Next

\* What a step does to the page.
LEMMA PageIsRead ==
  ASSUME BrandInv, [Bra!Next]_Bra!bvars
  PROVE  /\ s4' \in Honest \union {None}
         /\ s5' \in [kind : {"loading", "error"}] \union [kind : {"ready"}, overview : Honest]
         /\ s7' \in 0..MaxReportChecks
         /\ s8' \in {"none", "running", "complete", "error", "late"}
         /\ s9' \in Bra!Decisions
<1>1. s3 \in Honest /\ \A o \in Honest : o.decision \in Bra!Decisions
  BY BackendIsHonest DEF Honest, Bra!Overview
<1> DEFINE Loads == Honest \union {None}
           Shown == [kind : {"loading", "error"}] \union [kind : {"ready"}, overview : Honest]
<1>2. [kind |-> "loading"] \in Shown /\ [kind |-> "error"] \in Shown
      /\ \A o \in Honest : [kind |-> "ready", overview |-> o] \in Shown
  OBVIOUS
<1>3. s4 \in Loads /\ s5 \in Shown /\ s7 \in 0..MaxReportChecks /\ s9 \in Bra!Decisions
      /\ s8 \in {"none", "running", "complete", "error", "late"}
      /\ (s6.step = "polling" => s6.read \in Honest) /\ MaxReportChecks \in Nat
  BY ChecksAssumption DEF BrandInv
<1>4. s10 # None => s10.choice \in Bra!Decisions
  BY DEF BrandInv, Bra!IInv
<1> HIDE DEF Shown
<1> USE DEF Bra!server, Bra!page, Bra!review
<1>5. CASE Bra!MonitoringLoaded \/ Bra!LoadFails \/ Bra!Refresh
  BY <1>1, <1>2, <1>3, <1>5 DEF Bra!MonitoringLoaded, Bra!LoadFails, Bra!Refresh, Bra!Ready,
     Bra!Failure, Shown
<1>6. CASE Bra!handle_trigger_monitoring \/ Bra!RunQueued \/ Bra!TriggerFails
  BY <1>1, <1>2, <1>3, <1>6 DEF Bra!handle_trigger_monitoring, Bra!RunQueued, Bra!TriggerFails,
     Bra!Ready, Shown
<1>7. CASE Bra!Poll \/ Bra!PollArrives \/ Bra!PollFails \/ Bra!WaitingTimesOut
  <2>1. s7 < MaxReportChecks => s7 + 1 \in 0..MaxReportChecks
    BY <1>3
  <2> QED BY <1>1, <1>2, <1>3, <1>7, <2>1 DEF Bra!Poll, Bra!PollArrives, Bra!PollFails,
        Bra!WaitingTimesOut, Bra!Ready, Shown
<1>8. CASE \/ UNCHANGED Bra!bvars
           \/ \E no \in 1..Bra!MaxRuns : Bra!ingest_worker_results(no) \/ Bra!RunFails(no)
           \/ \E choice \in Bra!Decisions \ {"new"} : Bra!handle_status_update(choice)
           \/ Bra!update_candidate_status \/ Bra!DecisionSaved \/ Bra!DecisionFails
  BY <1>3, <1>4, <1>8 DEF Bra!bvars, Bra!ingest_worker_results, Bra!RunFails, Shown,
     Bra!handle_status_update, Bra!update_candidate_status, Bra!DecisionSaved, Bra!DecisionFails
<1> QED BY <1>5, <1>6, <1>7, <1>8 DEF Bra!Next, Shown

\* What a step does to the loop behind "Run monitoring".
LEMMA WatchIsRead ==
  ASSUME BrandInv, [Bra!Next]_Bra!bvars
  PROVE  /\ s6' \in [step : {"idle", "posting", "waiting", "polling"}, previous : Nat,
                     before : Nat, read : Honest \union {None}]
         /\ s6'.step = "polling" => s6'.read \in Honest
<1> DEFINE Reads == Honest \union {None}
           Loop == [step : {"idle", "posting", "waiting", "polling"}, previous : Nat,
                    before : Nat, read : Reads]
<1>1. s3 \in Honest /\ \A o \in Honest : o.last \in Nat
  BY BackendIsHonest, FaultsAssumption DEF Honest, Bra!Overview, Bra!MaxRuns
<1>2. s6 \in Loop /\ (s6.step = "polling" => s6.read \in Honest)
  BY DEF BrandInv
<1>3. Honest \subseteq Reads /\ None \in Reads
  OBVIOUS
<1> HIDE DEF Reads
<1>4. CASE Bra!handle_trigger_monitoring
  <2>1. Bra!LastRunShown \in Nat
    BY <1>1 DEF Bra!LastRunShown, BrandInv
  <2>2. s6' = [step |-> "posting", previous |-> Bra!LastRunShown, before |-> 0, read |-> None]
    BY <1>4 DEF Bra!handle_trigger_monitoring
  <2> QED BY <1>3, <2>1, <2>2 DEF Reads
<1>5. CASE Bra!RunQueued
  <2>1. s6' = [s6 EXCEPT !.step = "waiting", !.before = s3.last]
    BY <1>5 DEF Bra!RunQueued
  <2>2. s3.last \in Nat
    BY <1>1
  <2> QED BY <1>2, <2>1, <2>2 DEF Reads
<1>6. CASE Bra!Poll
  <2>1. s6' = [s6 EXCEPT !.step = "polling", !.read = s3]
    BY <1>6 DEF Bra!Poll
  <2> QED BY <1>1, <1>2, <1>3, <2>1 DEF Reads
<1>7. CASE Bra!TriggerFails \/ Bra!PollArrives \/ Bra!PollFails \/ Bra!WaitingTimesOut
  <2>1. PICK step \in {"idle", "waiting"} : s6' = [s6 EXCEPT !.step = step]
    BY <1>7 DEF Bra!TriggerFails, Bra!PollArrives, Bra!PollFails, Bra!WaitingTimesOut
  <2> QED BY <1>2, <2>1 DEF Reads
<1>8. CASE \/ UNCHANGED Bra!bvars
           \/ \E no \in 1..Bra!MaxRuns : Bra!ingest_worker_results(no) \/ Bra!RunFails(no)
           \/ Bra!MonitoringLoaded \/ Bra!LoadFails \/ Bra!Refresh
           \/ \E choice \in Bra!Decisions \ {"new"} : Bra!handle_status_update(choice)
           \/ Bra!update_candidate_status \/ Bra!DecisionSaved \/ Bra!DecisionFails
  <2>1. s6' = s6
    BY <1>8 DEF Bra!bvars, Bra!ingest_worker_results, Bra!RunFails, Bra!MonitoringLoaded,
       Bra!LoadFails, Bra!Refresh, Bra!handle_status_update, Bra!update_candidate_status,
       Bra!DecisionSaved, Bra!DecisionFails, Bra!page
  <2> QED BY <1>2, <2>1 DEF Reads
<1> QED BY <1>4, <1>5, <1>6, <1>7, <1>8 DEF Bra!Next

\* The page of brand monitoring shows no run without its candidates, and is typed.
LEMMA ResultsAreTold == Bra!Spec => [](Bra!ResultsAreThere /\ Bra!TypeOK)
<1>1. BrandInv => Bra!ResultsAreThere /\ Bra!TypeOK
  <2> SUFFICES ASSUME BrandInv PROVE Bra!ResultsAreThere /\ Bra!TypeOK
    OBVIOUS
  <2>1. Bra!ResultsAreThere
    BY DEF BrandInv, Bra!ResultsAreThere, Honest
  <2>2. s3 \in Bra!Overview /\ Honest \subseteq Bra!Overview
    BY BackendIsHonest DEF Honest
  <2>3. s5 \in [kind : {"loading", "error"}] \union [kind : {"ready"}, overview : Bra!Overview]
    BY <2>2 DEF BrandInv
  <2>4. /\ \A no \in DOMAIN s1 : s1[no] \in {"queued", "ingesting", "over"}
        /\ s2 \in 0..2 /\ s4 \in Bra!Overview \union {None}
        /\ s6.step \in {"idle", "posting", "waiting", "polling"}
        /\ s8 \in {"none", "running", "complete", "error", "late"}
        /\ s9 \in Bra!Decisions /\ s7 \in 0..MaxReportChecks
    BY <2>2 DEF BrandInv
  <2> QED BY <2>1, <2>2, <2>3, <2>4 DEF Bra!TypeOK, Bra!MaxRuns
<1>2. BrandInv /\ [Bra!Next]_Bra!bvars => BrandInv'
  <2> SUFFICES ASSUME BrandInv, [Bra!Next]_Bra!bvars PROVE BrandInv'
    OBVIOUS
  <2>1. Bra!IInv'
    BY BrandStepSound DEF BrandInv
  <2> QED BY <2>1, RunsGoOn, PageIsRead, WatchIsRead DEF BrandInv
<1> QED BY <1>1, <1>2, BrandPageInit, PTL DEF Bra!Spec
====
