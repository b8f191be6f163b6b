----------------------- MODULE EngagementPages_proofs -----------------------
(* Proofs about the pages of an engagement and the tasks behind them, page by *)
(* page: s1, s2, ... stand for the variables of the page, in the order of its *)
(* instance in Pages.                                                         *)
EXTENDS Pages, FiniteSetTheorems, SequenceTheorems, TLAPS

-----------------------------------------------------------------------------
(* The form of a request: s1 is a phone, s2 the stage, s3 to s6 are answers,   *)
(* s7 and s8 the days, s9 the assets, s10 the calendar, s11 the day of the     *)
(* last rendering, s12 what is being sent, s14 the confirmation.               *)

\* The questions are answered, or midnight has made the dates wrong.
RequestAnswered == Req!stageDone(1) \/ (s10 = 2 /\ ~Req!startDateValid)

\* What a phone hides is done.
NothingHidden ==
  s1 /\ ~s14 =>
    /\ s2 >= 1 => s3
    /\ s2 = 2 => RequestAnswered

RequestInv ==
  /\ Req!TypeOK /\ s1 \in BOOLEAN /\ s10 \in 1..2 /\ s11 \in 1..s10
  /\ NothingHidden

\* The answers that are given or not.
RequestFlags ==
  /\ s6 \in BOOLEAN /\ s3 \in BOOLEAN /\ s4 \in BOOLEAN
  /\ s5 \in BOOLEAN

\* Which stage asks for a field.
LEMMA StagesOfFields ==
  /\ Req!stageOf("type") = 0 /\ Req!stageOf("assets") = 2
  /\ \A f \in {"assessment", "objective", "dates", "contact"} : Req!stageOf(f) = 1
<1>1. ASSUME NEW f, NEW i \in DOMAIN Req!STAGES, f \in Req!STAGES[i],
             \A j \in DOMAIN Req!STAGES : f \in Req!STAGES[j] => j = i
      PROVE  Req!stageOf(f) = i - 1
  BY <1>1 DEF Req!stageOf
<1>2. DOMAIN Req!STAGES = 1..3 /\ Req!STAGES[1] = {"type"} /\ Req!STAGES[3] = {"assets"}
      /\ Req!STAGES[2] = {"assessment", "objective", "dates", "contact"}
  BY DEF Req!STAGES
<1> QED BY <1>1, <1>2

\* A stage is done when it asks for nothing that is missing.
LEMMA DoneStages ==
  /\ Req!stageDone(0) <=> s3
  /\ Req!stageDone(1) <=> ~(Req!missing \intersect {"assessment", "objective", "dates", "contact"} #
     {})
BY DEF Req!stageDone, Req!STAGES, Req!missing, Req!FieldKey

\* The field that the form jumps to is the first that is missing.
LEMMA FirstMissing ==
  ASSUME Req!missing # {}
  PROVE  /\ Req!FirstOf(Req!missing) \in Req!missing
         /\ \A g \in Req!missing : Req!stageOf(Req!FirstOf(Req!missing)) <= Req!stageOf(g)
         /\ Req!stageOf(Req!FirstOf(Req!missing)) \in 0..2
<1>1. \E f \in Req!missing : \A g \in Req!missing : Req!stageOf(f) <= Req!stageOf(g)
  <2>1. Req!missing \subseteq Req!FieldKey
    BY DEF Req!missing
  <2>2. CASE "type" \in Req!missing
    BY <2>1, <2>2, StagesOfFields DEF Req!FieldKey
  <2>3. CASE "type" \notin Req!missing /\ Req!missing \intersect {"assessment", "objective",
     "dates", "contact"} # {}
    BY <2>1, <2>3, StagesOfFields DEF Req!FieldKey
  <2>4. CASE Req!missing = {"assets"}
    BY <2>4, StagesOfFields
  <2> QED BY <2>1, <2>2, <2>3, <2>4 DEF Req!FieldKey
<1>2. Req!missing \subseteq Req!FieldKey
  BY DEF Req!missing
<1>3. /\ Req!FirstOf(Req!missing) \in Req!missing
      /\ \A g \in Req!missing : Req!stageOf(Req!FirstOf(Req!missing)) <= Req!stageOf(g)
  BY <1>1 DEF Req!FirstOf
<1>4. \A f \in Req!FieldKey : Req!stageOf(f) \in 0..2
  BY StagesOfFields DEF Req!FieldKey
<1> QED BY <1>2, <1>3, <1>4

\* Nothing that a rendering does makes an answer missing but midnight.
LEMMA RenderingKeeps ==
  ASSUME RequestInv, RequestAnswered, s10' \in 1..2, s10 <= s10',
         s11' = s11 \/ s11' = s10',
         UNCHANGED <<s4, s5, s6, s7, s8>>
  PROVE  RequestAnswered'
<1>1. CASE s10 = 2 /\ ~Req!startDateValid
  BY <1>1 DEF RequestAnswered, RequestInv, Req!startDateValid, Req!TypeOK, Req!Days
<1>2. CASE Req!stageDone(1)
  <2>1. Req!missing \intersect {"assessment", "objective", "dates", "contact"} = {}
    BY <1>2, DoneStages
  <2>2. /\ s4 /\ s5 /\ s6 /\ s7 # 0
        /\ Req!startDateValid /\ Req!durationValid
    BY <2>1 DEF Req!missing, Req!FieldKey
  <2>3. Req!durationValid'
    BY <2>2 DEF Req!durationValid
  <2>4. Req!startDateValid' \/ (s10' = 2 /\ ~Req!startDateValid')
    BY DEF RequestInv, Req!startDateValid, Req!TypeOK, Req!Days
  <2>5. Req!startDateValid' => Req!stageDone(1)'
    BY <2>2, <2>3 DEF Req!stageDone, Req!STAGES, Req!missing, Req!FieldKey
  <2> QED BY <2>4, <2>5 DEF RequestAnswered
<1> QED BY <1>1, <1>2 DEF RequestAnswered

\* A form that is opened hides nothing.
LEMMA RequestInit == Req!Init => RequestInv
<1> SUFFICES ASSUME Req!Init PROVE RequestInv
  OBVIOUS
<1>1. RequestFlags /\ ~s14
  BY DEF Req!Init, RequestFlags
<1>2. /\ s9 \subseteq Req!Assets /\ s7 \in {0} \union Req!Days /\ s8 \in 0..Req!LastDay
      /\ s12 \in {"none", "sent", "served"}
  BY DEF Req!Init, Req!LastDay, Req!MIN_ENGAGEMENT_DAYS
<1>3. s1 \in BOOLEAN /\ s10 \in 1..2 /\ s11 \in 1..s10 /\ s2 = 0
  BY DEF Req!Init
<1>4. s12 = "none"
  BY DEF Req!Init
<1>5. Req!TypeOK
  BY <1>1, <1>2, <1>3, <1>4 DEF Req!TypeOK, RequestFlags
<1> QED BY <1>3, <1>5 DEF RequestInv, NothingHidden

\* Every field keeps to its values, and a rendering takes the date of the day.
LEMMA RequestTyped ==
  ASSUME RequestInv, [Req!Next]_Req!evars
  PROVE  /\ Req!TypeOK' /\ s1' = s1 /\ s10' \in 1..2 /\ s10 <= s10'
         /\ s11' = s11 \/ s11' = s10'
<1> USE DEF Req!fields, Req!sending, RequestInv, Req!Rerender, Req!TypeOK, Req!Days, Req!LastDay,
   Req!MIN_ENGAGEMENT_DAYS,
        Req!Reachable, Req!Confirmed, Req!LastStageShown, Req!StageButtons, Req!AssetDeclaration,
           Req!Checklist
<1> DEFINE Rest == /\ s2' \in 0..2 /\ s9' \subseteq Req!Assets
                   /\ s7' \in {0} \union Req!Days /\ s8' \in 0..Req!LastDay
                   /\ s12' \in {"none", "sent", "served"} 
                   /\ s1' = s1 /\ s10' \in 1..2 /\ s10 <= s10'
                   /\ s11' = s11 \/ s11' = s10'
<1>1. ASSUME RequestFlags', s12' # "none" => ~s14', Rest
      PROVE  /\ Req!TypeOK' /\ s1' = s1 /\ s10' \in 1..2 /\ s10 <= s10'
             /\ s11' = s11 \/ s11' = s10'
  BY <1>1 DEF RequestFlags
<1>2. RequestFlags
  BY DEF RequestFlags
<1>3. CASE Req!NextDay
  BY <1>1, <1>2, <1>3 DEF Req!NextDay, RequestFlags
<1>4. CASE Req!ChooseType \/ Req!AnswerQuestions
  <2>1. RequestFlags'
    BY <1>4 DEF Req!ChooseType, Req!AnswerQuestions, RequestFlags
  <2>2. Rest /\ UNCHANGED <<s12, s14>>
    BY <1>4 DEF Req!ChooseType, Req!AnswerQuestions
  <2> QED BY <1>1, <2>1, <2>2
<1>5. CASE Req!handleStartDateChange
  <2>1. RequestFlags' /\ UNCHANGED <<s12, s14>>
    BY <1>5 DEF Req!handleStartDateChange, RequestFlags
  <2>2. /\ s7' \in {0} \union Req!Days
        /\ s8' = s8 \/ (s7' # 0 /\ s8' = s7' + Req!MIN_ENGAGEMENT_DAYS)
    BY <1>5 DEF Req!handleStartDateChange
  <2>3. s8' \in 0..Req!LastDay
    BY <2>2
  <2>4. /\ UNCHANGED <<s1, s2, s9, s10, s12>> /\ s11' = s10'
    BY <1>5 DEF Req!handleStartDateChange
  <2>5. Rest
    BY <2>2, <2>3, <2>4
  <2> QED BY <1>1, <2>1, <2>5
<1>6. CASE Req!EndDateChange
  BY <1>1, <1>2, <1>6 DEF Req!EndDateChange, RequestFlags
<1>7. ASSUME NEW a \in Req!Assets, Req!handleAddAsset(a) \/ Req!handleRemoveAsset(a)
      PROVE  RequestFlags' /\ Rest /\ UNCHANGED <<s12, s14>>
  BY <1>2, <1>7 DEF Req!handleAddAsset, Req!handleRemoveAsset, RequestFlags
<1>8. CASE Req!handleNext \/ Req!Back
  BY <1>1, <1>2, <1>8 DEF Req!handleNext, Req!Back, RequestFlags
<1>9. ASSUME NEW f \in Req!FieldKey, Req!jumpTo(f)
      PROVE  RequestFlags' /\ Rest /\ UNCHANGED <<s12, s14>>
  <2>1. Req!stageOf(f) \in 0..2
    BY StagesOfFields DEF Req!FieldKey
  <2> QED BY <1>2, <1>9, <2>1 DEF Req!jumpTo, RequestFlags
<1>10. CASE Req!handleSubmitClick
  <2>1. ~Req!canSubmit => Req!stageOf(Req!FirstOf(Req!missing)) \in 0..2
    BY FirstMissing DEF Req!canSubmit
  <2>2. RequestFlags' /\ ~s14'
    BY <1>2, <1>10 DEF Req!handleSubmitClick, RequestFlags
  <2>3. Rest
    BY <1>10, <2>1 DEF Req!handleSubmitClick, Req!Click
  <2> QED BY <1>1, <2>2, <2>3
<1>11. CASE Req!SubmissionServed \/ Req!SubmissionAnswered \/ Req!SubmissionFails
  BY <1>1, <1>2, <1>11 DEF Req!SubmissionServed, Req!SubmissionAnswered, Req!SubmissionFails,
     RequestFlags
<1>12. CASE Req!resetForm
  <2>1. RequestFlags' /\ ~s14'
    BY <1>12 DEF Req!resetForm, RequestFlags
  <2>2. Rest
    BY <1>12 DEF Req!resetForm
  <2> QED BY <1>1, <2>1, <2>2
<1>13. CASE UNCHANGED Req!evars
  BY <1>1, <1>2, <1>13 DEF Req!evars, RequestFlags
<1> QED BY <1>1, <1>3, <1>4, <1>5, <1>6, <1>7, <1>8, <1>9, <1>10, <1>11, <1>12, <1>13 DEF Req!Next

\* A phone leaves a stage forwards when it is done, and jumps back to what is missing.
LEMMA RequestStepSound == RequestInv /\ [Req!Next]_Req!evars => RequestInv'
<1> SUFFICES ASSUME RequestInv, [Req!Next]_Req!evars PROVE RequestInv'
  OBVIOUS
<1>1. /\ Req!TypeOK' /\ s1' = s1 /\ s10' \in 1..2 /\ s10 <= s10'
      /\ s11' = s11 \/ s11' = s10'
  BY RequestTyped
<1>2. s11' \in 1..s10' /\ s2 \in 0..2 /\ s2' \in 0..2
  BY <1>1 DEF RequestInv, Req!TypeOK
<1> SUFFICES NothingHidden'
  BY <1>1, <1>2 DEF RequestInv
<1>3. ASSUME UNCHANGED <<s3, s4, s5, s6, s7, s8,
                         s14>>,
             s2' <= s2
      PROVE  NothingHidden'
  BY <1>1, <1>2, <1>3, RenderingKeeps DEF RequestInv, NothingHidden
<1>4. ASSUME s2' = s2, s1 => s2 <= 1, s3 => s3', UNCHANGED s14
      PROVE  NothingHidden'
  BY <1>1, <1>2, <1>4 DEF RequestInv, NothingHidden
<1>5. CASE Req!NextDay
  BY <1>2, <1>3, <1>5 DEF Req!NextDay, Req!fields, Req!sending
<1>6. CASE Req!ChooseType \/ Req!AnswerQuestions \/ Req!handleStartDateChange \/ Req!EndDateChange
  BY <1>4, <1>6 DEF Req!ChooseType, Req!AnswerQuestions, Req!handleStartDateChange,
     Req!EndDateChange, Req!Reachable,
                    Req!sending
<1>7. ASSUME NEW a \in Req!Assets, Req!handleAddAsset(a) \/ Req!handleRemoveAsset(a) PROVE
   NothingHidden'
  BY <1>2, <1>3, <1>7 DEF Req!handleAddAsset, Req!handleRemoveAsset, Req!sending
<1>8. CASE Req!handleNext
  <2>1. CASE Req!stageDone(s2)
    <3>1. s2' = s2 + 1 /\ UNCHANGED <<Req!fields, Req!sending, s1>> /\ s2 < 2
      BY <1>8, <2>1 DEF Req!handleNext
    <3>2. CASE s2 = 0
      BY <1>2, <2>1, <3>1, <3>2, DoneStages DEF NothingHidden, Req!fields
    <3>3. CASE s2 = 1
      <4>1. RequestAnswered'
        BY <1>1, <2>1, <3>1, <3>3, RenderingKeeps DEF RequestAnswered, Req!fields
      <4> QED BY <1>1, <3>1, <3>3, <4>1 DEF NothingHidden, RequestInv, Req!fields, Req!sending
    <3> QED BY <1>2, <3>1, <3>2, <3>3
  <2>2. CASE ~Req!stageDone(s2)
    BY <1>2, <1>3, <1>8, <2>2 DEF Req!handleNext, Req!fields, Req!sending
  <2> QED BY <2>1, <2>2
<1>9. CASE Req!Back
  BY <1>2, <1>3, <1>9 DEF Req!Back, Req!fields, Req!sending
<1>10. ASSUME NEW f \in Req!FieldKey, Req!jumpTo(f) PROVE NothingHidden'
  <2>1. ~s1 \/ s2 = 2
    BY <1>10 DEF Req!jumpTo, Req!LastStageShown, Req!Reachable
  <2>2. CASE s2 = 2
    BY <1>2, <1>3, <1>10, <2>2 DEF Req!jumpTo, Req!fields, Req!sending
  <2>3. CASE ~s1
    BY <1>1, <2>3 DEF NothingHidden
  <2> QED BY <2>1, <2>2, <2>3
<1>11. CASE Req!handleSubmitClick
  <2>1. ~s1 \/ s2 = 2
    BY <1>11 DEF Req!handleSubmitClick, Req!LastStageShown, Req!Reachable
  <2>2. CASE s2 = 2
    BY <1>2, <1>3, <1>11, <2>2 DEF Req!handleSubmitClick, Req!fields
  <2>3. CASE ~s1
    BY <1>1, <2>3 DEF NothingHidden
  <2> QED BY <2>1, <2>2, <2>3
<1>12. CASE Req!SubmissionServed \/ Req!SubmissionFails
  BY <1>2, <1>3, <1>12 DEF Req!SubmissionServed, Req!SubmissionFails, Req!fields
<1>13. CASE Req!SubmissionAnswered
  BY <1>13 DEF Req!SubmissionAnswered, NothingHidden
<1>14. CASE Req!resetForm
  BY <1>14 DEF Req!resetForm, NothingHidden
<1>15. CASE UNCHANGED Req!evars
  BY <1>2, <1>3, <1>15 DEF Req!evars
<1> QED
  BY <1>5, <1>6, <1>7, <1>8, <1>9, <1>10, <1>11, <1>12, <1>13, <1>14, <1>15 DEF Req!Next

\* What a phone hides is not missing.
LEMMA RequestShowsAll == RequestInv => Req!NothingMissingBehind
<1> SUFFICES ASSUME RequestInv, s1, ~s14, NEW i \in 0..s2 - 1
             PROVE Req!stageDone(i) \/ (s10 = 2 /\ ~Req!startDateValid)
  BY DEF Req!NothingMissingBehind
<1>1. s2 \in 0..2 /\ (s2 >= 1 => s3) /\ (s2 = 2 => RequestAnswered)
  BY DEF RequestInv, NothingHidden, Req!TypeOK
<1>2. (i = 0 /\ s2 >= 1) \/ (i = 1 /\ s2 = 2)
  BY <1>1
<1> QED BY <1>1, <1>2, DoneStages DEF RequestAnswered

\* A request that cannot be sent says why in sight of the user.
LEMMA NothingMissing == Req!Spec => []Req!NothingMissingBehind
<1> QED BY RequestInit, RequestStepSound, RequestShowsAll, PTL DEF Req!Spec

\* A request that has been sent has its press.
PressesCover ==
  /\ s15 \in Nat /\ s16 \in Nat
  /\ s15 + (IF s12 = "sent" THEN 1 ELSE 0) <= s16

\* Nothing is requested at first.
LEMMA PressesInit == Req!Init => PressesCover
BY DEF Req!Init, PressesCover

\* Every step keeps the count.
LEMMA PressesStep == PressesCover /\ [Req!Next]_Req!evars => PressesCover'
<1> SUFFICES ASSUME PressesCover, [Req!Next]_Req!evars PROVE PressesCover'
  OBVIOUS
<1> USE DEF PressesCover, Req!sending
<1>1. CASE \/ Req!NextDay \/ Req!ChooseType \/ Req!AnswerQuestions \/ Req!handleStartDateChange
           \/ Req!EndDateChange
           \/ \E a \in Req!Assets : Req!handleAddAsset(a) \/ Req!handleRemoveAsset(a)
           \/ Req!handleNext \/ Req!Back \/ \E f \in Req!FieldKey : Req!jumpTo(f)
           \/ UNCHANGED Req!evars
  BY <1>1 DEF Req!NextDay, Req!ChooseType, Req!AnswerQuestions, Req!handleStartDateChange,
     Req!EndDateChange, Req!handleAddAsset, Req!handleRemoveAsset, Req!handleNext, Req!Back,
     Req!jumpTo, Req!evars
<1>2. CASE Req!handleSubmitClick
  BY <1>2 DEF Req!handleSubmitClick
<1>3. CASE Req!SubmissionServed \/ Req!SubmissionAnswered \/ Req!SubmissionFails \/ Req!resetForm
  BY <1>3 DEF Req!SubmissionServed, Req!SubmissionAnswered, Req!SubmissionFails, Req!resetForm
<1> QED BY <1>1, <1>2, <1>3 DEF Req!Next

\* That is what OneRequestPerPress says.
LEMMA PressesPromise == PressesCover => Req!OneRequestPerPress
BY DEF PressesCover, Req!OneRequestPerPress

\* A press makes one request at most.
LEMMA RequestedOnce == Req!Spec => []Req!OneRequestPerPress
<1> QED BY PressesInit, PressesStep, PressesPromise, PTL DEF Req!Spec

-----------------------------------------------------------------------------
(* The console of a pentester: s1 is the stage of the engagement, s2 to s5     *)
(* what is stored of its findings and their report, s6 the requests under way, *)
(* s7 to s10 what the page has loaded, s11 to s15 its forms and dialogs.       *)

ConsoleForms == [no : Nat, dirty : BOOLEAN, discard : BOOLEAN, saving : BOOLEAN]

\* The requests and the form have their values.
ConsoleTyped ==
  /\ s6 \subseteq Con!Ops /\ s3 \in BOOLEAN /\ s12 \in Nat
  /\ s11 \in ConsoleForms \union {None}

\* Under review nothing that was checked before is still to be committed.
NothingPending ==
  s1 = "review" /\ ~s13 =>
    /\ Con!findings = s5
    /\ \A op \in s6 : op.phase # "checked"

\* The console before anything is done.
LEMMA ConsoleInit == Con!Init => ConsoleTyped /\ NothingPending
<1> SUFFICES ASSUME Con!Init PROVE ConsoleTyped /\ NothingPending
  OBVIOUS
<1>1. s6 = {} /\ s3 = TRUE /\ s12 = 0 /\ s11 = None /\ s1 # "review"
  BY DEF Con!Init
<1> QED BY <1>1 DEF ConsoleTyped, NothingPending

\* What is sent, and what an answer makes of it.
LEMMA ConsoleRequestsAre ==
  /\ \A kind \in Con!Kinds, no \in Nat : Con!Sent(kind, no) \in Con!Ops /\ Con!Sent(kind, no).phase
     = "sent"
  /\ \A op \in Con!Ops : \A phase \in {"sent", "checked", "served", "refused"} :
       [op EXCEPT !.phase = phase] \in Con!Ops /\ [op EXCEPT !.phase = phase].phase = phase
BY DEF Con!Sent, Con!Ops

\* What the pages do leaves the findings alone, and sends only what was not checked.
LEMMA ConsolePagesKeep ==
  ASSUME ConsoleTyped, NothingPending, UNCHANGED Con!record,
         \/ s6' \subseteq s6
         \/ \E kind \in Con!Kinds, no \in Nat : s6' = s6 \union {Con!Sent(kind, no)},
         \/ UNCHANGED <<s11, s12>>
         \/ s11' = None /\ UNCHANGED s12
         \/ s11' = Con!EmptyForm /\ s12' = s12 + 1
         \/ s11 # None /\ UNCHANGED s12
            /\ \/ s11' = [s11 EXCEPT !.dirty = TRUE]
               \/ s11' = [s11 EXCEPT !.discard = TRUE]
               \/ s11' = [s11 EXCEPT !.discard = FALSE]
               \/ s11' = [s11 EXCEPT !.saving = TRUE]
               \/ s11' = [s11 EXCEPT !.saving = FALSE]
  PROVE  ConsoleTyped' /\ NothingPending'
<1>1. s6' \subseteq Con!Ops
  BY ConsoleRequestsAre DEF ConsoleTyped
<1>2. s3' \in BOOLEAN /\ s12' \in Nat
  BY DEF ConsoleTyped, Con!record, Con!findings, Con!EmptyForm
<1>3. s11' \in ConsoleForms \union {None}
  <2>1. Con!EmptyForm \in ConsoleForms
    BY DEF ConsoleTyped, Con!EmptyForm, ConsoleForms
  <2>2. \A f \in ConsoleForms : /\ [f EXCEPT !.dirty = TRUE] \in ConsoleForms
                          /\ [f EXCEPT !.discard = TRUE] \in ConsoleForms
                          /\ [f EXCEPT !.discard = FALSE] \in ConsoleForms
                          /\ [f EXCEPT !.saving = TRUE] \in ConsoleForms
                          /\ [f EXCEPT !.saving = FALSE] \in ConsoleForms
    BY DEF ConsoleForms
  <2> QED BY <2>1, <2>2 DEF ConsoleTyped
<1>4. \A op \in s6' : op.phase = "checked" => op \in s6
  BY ConsoleRequestsAre DEF ConsoleTyped
<1>5. NothingPending'
  BY <1>4 DEF NothingPending, Con!record, Con!findings
<1> QED BY <1>1, <1>2, <1>3, <1>5 DEF ConsoleTyped

\* Under review a check refuses; a submission, which makes the review, leaves nothing checked
\* behind it that would still change a finding, or is noted as overlapping.
LEMMA ConsoleCommitKeeps ==
  ASSUME ConsoleTyped, NothingPending, NEW op \in s6, Con!Check(op) \/ Con!Commit(op)
  PROVE  ConsoleTyped' /\ NothingPending'
<1>1. s6' \subseteq Con!Ops
  <2>1. \E phase \in {"checked", "served", "refused"} :
          s6' = (s6 \ {op}) \union {[op EXCEPT !.phase = phase]}
    BY DEF Con!Check, Con!Commit, Con!Becomes
  <2>2. PICK phase \in {"checked", "served", "refused"} :
               s6' = (s6 \ {op}) \union {[op EXCEPT !.phase = phase]}
    BY <2>1
  <2>3. [op EXCEPT !.phase = phase] \in Con!Ops
    BY ConsoleRequestsAre DEF ConsoleTyped
  <2> QED BY <2>2, <2>3 DEF ConsoleTyped
<1>2. UNCHANGED <<s11, s12>>
  BY DEF Con!Check, Con!Commit, Con!dialogs
<1>3. s3' \in BOOLEAN
  BY DEF ConsoleTyped, Con!Check, Con!Commit, Con!record, Con!findings
<1>4. CASE Con!Check(op)
  <2>1. UNCHANGED Con!record /\ op \in Con!Ops
    BY <1>4 DEF Con!Check, ConsoleTyped
  <2>2. ASSUME s1 = "review" PROVE \A o \in s6' : o.phase = "checked" => o \in s6
    <3>1. ~Con!Allowed(op.kind)
      BY <2>2 DEF Con!Allowed
    <3>2. s6' = (s6 \ {op}) \union {[op EXCEPT !.phase = "refused"]}
      BY <1>4, <3>1 DEF Con!Check, Con!Becomes
    <3> QED BY <2>1, <3>2, ConsoleRequestsAre
  <2>3. NothingPending'
    BY <2>1, <2>2 DEF NothingPending, Con!record, Con!findings
  <2> QED BY <1>1, <1>2, <1>3, <2>3 DEF ConsoleTyped
<1>5. CASE Con!Commit(op)
  <2>1. op \in Con!Ops /\ op.phase = "checked"
    BY <1>5 DEF Con!Commit, ConsoleTyped
  <2>2. CASE op.kind = "submit"
    <3>1. UNCHANGED <<s2, s4>> /\ s5' = Con!findings
      BY <1>5, <2>2 DEF Con!Commit
    <3>2. s3' = s3
      BY <1>5, <2>2 DEF Con!Commit, ConsoleTyped
    <3>3. ~s13' => \A o \in s6 \ {op} : o.phase # "checked"
      BY <1>5, <2>2 DEF Con!Commit
    <3>4. s6' = (s6 \ {op}) \union {[op EXCEPT !.phase = "served"]}
      BY <1>5 DEF Con!Commit, Con!Becomes
    <3>5. ~s13' => \A o \in s6' : o.phase # "checked"
      BY <2>1, <3>3, <3>4, ConsoleRequestsAre
    <3>6. NothingPending'
      BY <3>1, <3>2, <3>5 DEF NothingPending, Con!findings
    <3> QED BY <1>1, <1>2, <1>3, <3>6 DEF ConsoleTyped
  <2>3. CASE op.kind # "submit"
    <3>1. s13' <=> s13
      BY <1>5, <2>3 DEF Con!Commit
    <3>2. s1' = "review" => s1 = "review"
      BY <1>5, <2>3 DEF Con!Commit
    <3>3. NothingPending'
      BY <2>1, <3>1, <3>2 DEF NothingPending
    <3> QED BY <1>1, <1>2, <1>3, <3>3 DEF ConsoleTyped
  <2> QED BY <2>2, <2>3
<1> QED BY <1>4, <1>5

\* Every step of the pages and of the requests keeps both.
LEMMA ConsoleStepSound ==
  ConsoleTyped /\ NothingPending /\ [Con!Next]_Con!pcvars => ConsoleTyped' /\ NothingPending'
<1> SUFFICES ASSUME ConsoleTyped, NothingPending, [Con!Next]_Con!pcvars
             PROVE  ConsoleTyped' /\ NothingPending'
  OBVIOUS
<1> USE DEF Con!dialogs
<1>1. ASSUME NEW op \in s6, Con!Check(op) \/ Con!Commit(op) PROVE ConsoleTyped' /\ NothingPending'
  BY <1>1, ConsoleCommitKeeps
<1>2. ASSUME NEW op \in s6, Con!StatusAnswered(op) \/ Con!Refused(op) \/ Con!ChangeAnswered(op) \/
   Con!addFinding(op)
      PROVE  ConsoleTyped' /\ NothingPending'
  BY <1>2, ConsolePagesKeep DEF Con!StatusAnswered, Con!Refused, Con!ChangeAnswered, Con!addFinding
<1>3. ASSUME NEW op \in s6, Con!SaveFails(op) PROVE ConsoleTyped' /\ NothingPending'
  BY <1>3, ConsolePagesKeep DEF Con!SaveFails
<1>4. CASE Con!VisitEngagement \/ Con!getEngagement
  BY <1>4, ConsolePagesKeep DEF Con!VisitEngagement, Con!getEngagement
<1>5. ASSUME NEW i \in 1..2, Con!fetchEngagementDetail(i) PROVE ConsoleTyped' /\ NothingPending'
  BY <1>5, ConsolePagesKeep DEF Con!fetchEngagementDetail
<1>6. ASSUME NEW i \in 1..2, Con!DetailFails(i) PROVE ConsoleTyped' /\ NothingPending'
  BY <1>6, ConsolePagesKeep DEF Con!DetailFails, Con!ShowError
<1>7. CASE Con!startEngagement \/ Con!submitEngagementForReview \/ Con!deleteFinding
  <2>1. /\ UNCHANGED <<Con!record, s11, s12>>
        /\ \E kind \in {"start", "submit", "delete"} : s6' = s6 \union {Con!Sent(kind, 0)}
    BY <1>7 DEF Con!startEngagement, Con!submitEngagementForReview, Con!deleteFinding
  <2> QED BY <2>1, ConsolePagesKeep DEF Con!Kinds
<1>8. ASSUME NEW kind \in {"manual", "scan"}, Con!OpenPanel(kind) PROVE ConsoleTyped' /\
   NothingPending'
  BY <1>8, ConsolePagesKeep DEF Con!OpenPanel
<1>9. CASE Con!ClosePanel \/ Con!AskToDelete \/ Con!KeepFinding
  BY <1>9, ConsolePagesKeep DEF Con!ClosePanel, Con!AskToDelete, Con!KeepFinding
<1>10. ASSUME NEW kind \in {"confirm", "refute"}, Con!Judge(kind) PROVE ConsoleTyped' /\
   NothingPending'
  <2>1. UNCHANGED <<Con!record, s11, s12>> /\ s6' = s6 \union {Con!Sent(kind, 0)}
    BY <1>10 DEF Con!Judge
  <2> QED BY <2>1, ConsolePagesKeep DEF Con!Kinds
<1>11. CASE Con!OpenForm \/ Con!Discard
  BY <1>11, ConsolePagesKeep DEF Con!OpenForm, Con!Discard
<1>12. CASE Con!Write
  BY <1>12, ConsolePagesKeep DEF Con!Write, Con!Writing
<1>13. CASE Con!requestClose
  BY <1>13, ConsolePagesKeep DEF Con!requestClose, Con!Writing
<1>14. CASE Con!KeepEditing
  BY <1>14, ConsolePagesKeep DEF Con!KeepEditing, Con!Writing
<1>15. CASE Con!save
  <2>1. s11 # None /\ s11.no \in Nat /\ "add" \in Con!Kinds
    BY <1>15 DEF Con!save, Con!canSave, Con!Writing, ConsoleTyped, ConsoleForms, Con!Kinds
  <2>2. /\ UNCHANGED <<Con!record, s12>> /\ s11' = [s11 EXCEPT !.saving = TRUE]
        /\ s6' = s6 \union {Con!Sent("add", s11.no)}
    BY <1>15 DEF Con!save
  <2> QED BY <2>1, <2>2, ConsolePagesKeep
<1>16. CASE UNCHANGED Con!pcvars
  BY <1>16, ConsolePagesKeep DEF Con!pcvars, Con!record, Con!findings
<1> QED BY <1>1, <1>2, <1>3, <1>4, <1>5, <1>6, <1>7, <1>8, <1>9, <1>10, <1>11, <1>12, <1>13, <1>14,
           <1>15, <1>16 DEF Con!Next

\* So the findings under review are those that were submitted.
LEMMA ConsoleHolds == NothingPending => Con!FrozenInReview
BY DEF NothingPending, Con!FrozenInReview

\* Under review the findings are as they were submitted, except where a request met the
\* submission.
LEMMA FrozenWhileReviewed == Con!Spec => []Con!FrozenInReview
<1> QED BY ConsoleInit, ConsoleStepSound, ConsoleHolds, PTL DEF Con!Spec

\* A page that shows an error shows nothing that was written.
ErrorsHideForms ==
  /\ s12 \in Nat
  /\ s11 # None => s11 \in ConsoleForms
  /\ s8 => s11 = None \/ ~s11.dirty

\* No form is open at first.
LEMMA ConsoleFormInit == Con!Init => ErrorsHideForms
BY DEF Con!Init, ErrorsHideForms

\* What is written goes by discarding it, with a save or with an error.
LEMMA ConsoleFormStep ==
  ASSUME ErrorsHideForms, [Con!Next]_Con!pcvars
  PROVE  ErrorsHideForms' /\ Con!KeepsFinding
<1> USE DEF Con!dialogs, Con!detail
<1>0. None \notin ConsoleForms
  BY NoneAssumption DEF ConsoleForms
<1>1. Con!EmptyForm \in ConsoleForms /\ ~Con!EmptyForm.dirty
  BY DEF ErrorsHideForms, Con!EmptyForm, ConsoleForms
<1>2. ASSUME UNCHANGED <<s8, s11, s12>> PROVE ErrorsHideForms' /\ Con!KeepsFinding
  BY <1>2 DEF ErrorsHideForms, Con!KeepsFinding
<1>3. ASSUME NEW op \in s6,
        \/ Con!Check(op) \/ Con!Commit(op) \/ Con!StatusAnswered(op) \/ Con!Refused(op)
        \/ Con!ChangeAnswered(op)
      PROVE ErrorsHideForms' /\ Con!KeepsFinding
  BY <1>2, <1>3 DEF Con!Check, Con!Commit, Con!StatusAnswered, Con!Refused, Con!ChangeAnswered
<1>4. ASSUME NEW op \in s6, Con!addFinding(op) PROVE ErrorsHideForms' /\ Con!KeepsFinding
  <2>1. s11' = None /\ s12' = s12
    BY <1>4 DEF Con!addFinding
  <2>2. op.kind = "add" /\ op.phase = "served"
    BY <1>4 DEF Con!addFinding
  <2> QED BY <2>1, <2>2 DEF ErrorsHideForms, Con!KeepsFinding
<1>5. ASSUME NEW op \in s6, Con!SaveFails(op) PROVE ErrorsHideForms' /\ Con!KeepsFinding
  BY <1>0, <1>5 DEF Con!SaveFails, ErrorsHideForms, Con!KeepsFinding, ConsoleForms
<1>6. CASE \/ Con!VisitEngagement \/ Con!getEngagement \/ Con!startEngagement
           \/ Con!submitEngagementForReview
           \/ Con!ClosePanel \/ Con!AskToDelete \/ Con!KeepFinding \/ Con!deleteFinding
           \/ UNCHANGED Con!pcvars
  BY <1>2, <1>6 DEF Con!VisitEngagement, Con!getEngagement, Con!startEngagement,
     Con!submitEngagementForReview, Con!ClosePanel, Con!AskToDelete, Con!KeepFinding,
     Con!deleteFinding, Con!pcvars
<1>7. ASSUME NEW kind, Con!OpenPanel(kind) \/ Con!Judge(kind)
      PROVE ErrorsHideForms' /\ Con!KeepsFinding
  BY <1>2, <1>7 DEF Con!OpenPanel, Con!Judge
<1>8. ASSUME NEW i \in 1..2, Con!fetchEngagementDetail(i) PROVE ErrorsHideForms' /\ Con!KeepsFinding
  BY <1>8 DEF Con!fetchEngagementDetail, ErrorsHideForms, Con!KeepsFinding
<1>9. ASSUME NEW i \in 1..2, Con!DetailFails(i) PROVE ErrorsHideForms' /\ Con!KeepsFinding
  BY <1>1, <1>9 DEF Con!DetailFails, Con!ShowError, ErrorsHideForms, Con!KeepsFinding
<1>10. CASE Con!OpenForm
  <2>1. s11 = None /\ s11' = Con!EmptyForm /\ s12' = s12 + 1
    BY <1>10 DEF Con!OpenForm, Con!HeaderButtons, Con!InFront
  <2> HIDE DEF Con!EmptyForm
  <2> QED BY <1>1, <2>1 DEF ErrorsHideForms, Con!KeepsFinding
<1>11. CASE Con!Write
  BY <1>11 DEF Con!Write, Con!Writing, ErrorsHideForms, Con!KeepsFinding, ConsoleForms
<1>14. CASE Con!requestClose
  <2>1. s11 # None /\ ~s8 /\ s12' = s12 /\ ~s8'
    BY <1>14 DEF Con!requestClose, Con!Writing
  <2>2. CASE s11.dirty
    BY <1>0, <1>14, <2>1, <2>2 DEF Con!requestClose, ErrorsHideForms, Con!KeepsFinding, ConsoleForms
  <2>3. CASE ~s11.dirty
    BY <1>14, <2>1, <2>3 DEF Con!requestClose, ErrorsHideForms, Con!KeepsFinding
  <2> QED BY <2>2, <2>3
<1>15. CASE Con!KeepEditing
  BY <1>15 DEF Con!KeepEditing, Con!Writing, ErrorsHideForms, Con!KeepsFinding, ConsoleForms
<1>12. CASE Con!Discard
  <2>1. s11' = None /\ s12' = s12 /\ s11.discard
    BY <1>12 DEF Con!Discard, Con!Writing
  <2> QED BY <2>1 DEF ErrorsHideForms, Con!KeepsFinding
<1>13. CASE Con!save
  <2>1. s11 # None /\ s11.dirty /\ ~s8 /\ s12' = s12 /\ ~s8'
    BY <1>13 DEF Con!save, Con!canSave, Con!Writing
  <2>2. s11' = [s11 EXCEPT !.saving = TRUE]
    BY <1>13 DEF Con!save
  <2>3. s11' \in ConsoleForms /\ s11'.no = s11.no
    BY <2>1, <2>2 DEF ErrorsHideForms, ConsoleForms
  <2> QED BY <1>0, <2>1, <2>3 DEF ErrorsHideForms, Con!KeepsFinding
<1> QED
  BY <1>3, <1>4, <1>5, <1>6, <1>7, <1>8, <1>9, <1>10, <1>11, <1>12, <1>13, <1>14,
     <1>15 DEF Con!Next

\* The savings that may still become a finding, and the form that may send one.
Unserved(set) == {op \in set : op.kind = "add" /\ op.phase # "served"}
MaySave == s11 # None /\ ~s11.saving

\* Each has a form, or an answer that was lost, of its own.
SavingsCovered ==
  /\ s2 \in Nat /\ s12 \in Nat /\ faults \in Nat /\ IsFiniteSet(s6) /\ s6 \subseteq Con!Ops
  /\ s11 \in ConsoleForms \union {None}
  /\ s2 + Cardinality(Unserved(s6)) + (IF MaySave THEN 1 ELSE 0) <= s12 + faults

\* No form was opened at first.
LEMMA SavingsInit == Con!Init => SavingsCovered
<1> SUFFICES ASSUME Con!Init PROVE SavingsCovered
  OBVIOUS
<1>1. s6 = {} /\ Unserved(s6) = {} /\ ~MaySave
  BY DEF Con!Init, Unserved, MaySave
<1>2. IsFiniteSet({}) /\ Cardinality({}) = 0
  BY FS_EmptySet
<1>3. s2 = 0 /\ s12 = 0 /\ faults = 0 /\ s11 = None
  BY DEF Con!Init
<1>4. s2 + Cardinality(Unserved(s6)) + (IF MaySave THEN 1 ELSE 0) <= s12 + faults
  BY <1>1, <1>2, <1>3
<1> QED BY <1>1, <1>2, <1>3, <1>4 DEF SavingsCovered

\* What becomes of the number of savings when requests come and go.
LEMMA UnservedCounts ==
  ASSUME IsFiniteSet(s6)
  PROVE  /\ IsFiniteSet(Unserved(s6)) /\ Cardinality(Unserved(s6)) \in Nat
         /\ \A set : set \subseteq s6 =>
              /\ IsFiniteSet(set) /\ Cardinality(Unserved(set)) \in Nat
              /\ Cardinality(Unserved(set)) <= Cardinality(Unserved(s6))
         /\ \A op \in s6 : op.kind = "add" /\ op.phase # "served" =>
              Cardinality(Unserved(s6 \ {op})) = Cardinality(Unserved(s6)) - 1
<1>1. \A set : set \subseteq s6 =>
        Unserved(set) \subseteq set /\ Unserved(set) \subseteq Unserved(s6)
  BY DEF Unserved
<1>2. IsFiniteSet(Unserved(s6))
  BY <1>1, FS_Subset
<1>3. Cardinality(Unserved(s6)) \in Nat
  BY <1>2, FS_CardinalityType
<1>4. ASSUME NEW set, set \subseteq s6
      PROVE  /\ IsFiniteSet(set) /\ Cardinality(Unserved(set)) \in Nat
             /\ Cardinality(Unserved(set)) <= Cardinality(Unserved(s6))
  <2>1. IsFiniteSet(set)
    BY <1>4, FS_Subset
  <2>2. IsFiniteSet(Unserved(set)) /\ Cardinality(Unserved(set)) <= Cardinality(Unserved(s6))
    BY <1>1, <1>2, <1>4, FS_Subset
  <2> QED BY <2>1, <2>2, FS_CardinalityType
<1>5. ASSUME NEW op \in s6, op.kind = "add", op.phase # "served"
      PROVE  Cardinality(Unserved(s6 \ {op})) = Cardinality(Unserved(s6)) - 1
  <2>1. Unserved(s6 \ {op}) = Unserved(s6) \ {op} /\ op \in Unserved(s6)
    BY <1>5 DEF Unserved
  <2> QED BY <1>2, <2>1, FS_RemoveElement
<1> QED BY <1>2, <1>3, <1>4, <1>5

\* One request more counts as one more saving at most.
LEMMA UnservedGrows ==
  ASSUME NEW set, IsFiniteSet(set), NEW op
  PROVE  /\ IsFiniteSet(set \union {op})
         /\ Cardinality(Unserved(set)) \in Nat /\ Cardinality(Unserved(set \union {op})) \in Nat
         /\ Cardinality(Unserved(set \union {op})) <= Cardinality(Unserved(set)) + 1
         /\ op.kind # "add" \/ op.phase = "served" => Unserved(set \union {op}) = Unserved(set)
<1>1. Unserved(set) \subseteq set
  BY DEF Unserved
<1>2. IsFiniteSet(Unserved(set))
  BY <1>1, FS_Subset
<1>3. IsFiniteSet(set \union {op})
  BY FS_AddElement
<1>4. CASE op.kind # "add" \/ op.phase = "served"
  <2>1. Unserved(set \union {op}) = Unserved(set)
    BY <1>4 DEF Unserved
  <2>2. Cardinality(Unserved(set)) \in Nat
    BY <1>2, FS_CardinalityType
  <2>3. Cardinality(Unserved(set)) <= Cardinality(Unserved(set)) + 1
    BY <2>2
  <2> QED BY <1>3, <2>1, <2>2, <2>3
<1>5. CASE ~(op.kind # "add" \/ op.phase = "served")
  <2>1. Unserved(set \union {op}) = Unserved(set) \union {op}
    BY <1>5 DEF Unserved
  <2> DEFINE m == Cardinality(Unserved(set))
             n == Cardinality(Unserved(set \union {op}))
  <2>2. n = m \/ n = m + 1
    <3>1. Cardinality(Unserved(set) \union {op})
            = IF op \in Unserved(set) THEN m ELSE m + 1
      BY <1>2, FS_AddElement
    <3> QED BY <2>1, <3>1
  <2>3. m \in Nat
    BY <1>2, FS_CardinalityType
  <2>4. n \in Nat /\ n <= m + 1
    <3> HIDE DEF m, n
    <3> QED BY <2>2, <2>3
  <2> QED BY <1>3, <1>5, <2>3, <2>4
<1> QED BY <1>4, <1>5

\* Every step keeps that: a saving takes the place of its form, and gives it back with an
\* error, which is a fault of the network if the finding is stored.
LEMMA SavingsStep == ASSUME SavingsCovered, [Con!Next]_Con!pcvars PROVE SavingsCovered'
<1> USE DEF Con!dialogs, Con!detail, Con!record, Con!findings
<1> DEFINE count(set) == Cardinality(Unserved(set))
<1>0. /\ s2 \in Nat /\ s12 \in Nat /\ faults \in Nat /\ IsFiniteSet(s6) /\ s6 \subseteq Con!Ops
      /\ s11 \in ConsoleForms \union {None} /\ None \notin ConsoleForms /\ count(s6) \in Nat
      /\ s2 + count(s6) + (IF MaySave THEN 1 ELSE 0) <= s12 + faults
  BY UnservedCounts, NoneAssumption DEF SavingsCovered, ConsoleForms
<1>1. ASSUME UNCHANGED <<s2, s12>>, faults' \in {faults, faults + 1}, s6' \subseteq s6,
             s11' \in ConsoleForms \union {None}, MaySave' => MaySave
      PROVE  SavingsCovered'
  <2>1. IsFiniteSet(s6') /\ count(s6') \in Nat /\ count(s6') <= count(s6)
    BY <1>0, <1>1, UnservedCounts
  <2> HIDE DEF count
  <2>2. s2' + count(s6') + (IF MaySave' THEN 1 ELSE 0) <= s12' + faults'
    BY <1>0, <1>1, <2>1
  <2> QED BY <1>0, <1>1, <2>1, <2>2 DEF SavingsCovered, count
<1>2. ASSUME UNCHANGED <<s2, s12, faults, s11>>,
             NEW kind \in Con!Kinds \ {"add"}, s6' = s6 \union {Con!Sent(kind, 0)}
      PROVE  SavingsCovered'
  <2>1. Con!Sent(kind, 0) \in Con!Ops /\ Con!Sent(kind, 0).kind # "add"
    BY DEF Con!Sent, Con!Ops
  <2>2. IsFiniteSet(s6') /\ count(s6') = count(s6)
    BY <1>0, <1>2, <2>1, UnservedGrows
  <2>3. MaySave' <=> MaySave
    BY <1>2 DEF MaySave
  <2> HIDE DEF count
  <2>4. s2' + count(s6') + (IF MaySave' THEN 1 ELSE 0) <= s12' + faults'
    BY <1>0, <1>2, <2>2, <2>3
  <2> QED BY <1>0, <1>2, <2>1, <2>2, <2>4 DEF SavingsCovered, count
<1>3. ASSUME UNCHANGED <<s2, s6>>, faults' \in {faults, faults + 1},
             s12' = s12 + 1, s11' = Con!EmptyForm
      PROVE  SavingsCovered'
  <2>1. Con!EmptyForm \in ConsoleForms
    BY <1>0 DEF Con!EmptyForm, ConsoleForms
  <2>2. s2' + count(s6') + (IF MaySave' THEN 1 ELSE 0) <= s12' + faults'
    <3> HIDE DEF count
    <3>1. count(s6') = count(s6)
      BY <1>3
    <3>2. (IF MaySave' THEN 1 ELSE 0) <= 1 /\ 0 <= (IF MaySave THEN 1 ELSE 0)
      OBVIOUS
    <3> QED BY <1>0, <1>3, <3>1, <3>2
  <2> QED BY <1>0, <1>3, <2>1, <2>2 DEF SavingsCovered
<1>4. CASE \/ \E op \in s6 : Con!StatusAnswered(op) \/ Con!Refused(op) \/ Con!ChangeAnswered(op)
           \/ Con!VisitEngagement \/ Con!getEngagement
            \/ \E i \in 1..2 : Con!fetchEngagementDetail(i)
           \/ UNCHANGED Con!pcvars
  <2>1. UNCHANGED <<s2, s12, s11>> /\ faults' \in {faults, faults + 1} /\ s6' \subseteq s6
    BY <1>4 DEF Con!StatusAnswered, Con!Refused, Con!ChangeAnswered, Con!VisitEngagement,
       Con!getEngagement, Con!fetchEngagementDetail, Con!pcvars, Con!Fault
  <2>2. MaySave' => MaySave
    BY <2>1 DEF MaySave
  <2> QED BY <1>0, <1>1, <2>1, <2>2
<1>5. CASE \E kind \in {"manual", "scan"} : Con!OpenPanel(kind)
  BY <1>0, <1>1, <1>5 DEF Con!OpenPanel, MaySave
<1>6. CASE Con!ClosePanel \/ Con!AskToDelete \/ Con!KeepFinding
  BY <1>0, <1>1, <1>6 DEF Con!ClosePanel, Con!AskToDelete, Con!KeepFinding, MaySave
<1>7. CASE \/ Con!startEngagement \/ Con!submitEngagementForReview \/ Con!deleteFinding
           \/ \E kind \in {"confirm", "refute"} : Con!Judge(kind)
  <2>1. /\ UNCHANGED <<s2, s12, faults, s11>>
        /\ \E kind \in {"start", "submit", "delete", "confirm", "refute"} :
             s6' = s6 \union {Con!Sent(kind, 0)}
    BY <1>7 DEF Con!startEngagement, Con!submitEngagementForReview, Con!deleteFinding, Con!Judge
  <2> QED BY <1>2, <2>1 DEF Con!Kinds
<1>8. ASSUME NEW i \in 1..2, Con!DetailFails(i) PROVE SavingsCovered'
  <2>1. UNCHANGED <<s2, s6>> /\ faults' = faults + 1
    BY <1>8 DEF Con!DetailFails, Con!Fault
  <2>2. \/ s11 = None /\ s11' = None /\ s12' = s12
        \/ s11' = Con!EmptyForm /\ s12' = s12 + 1
    BY <1>8 DEF Con!DetailFails, Con!ShowError
  <2> QED BY <1>1, <1>3, <2>1, <2>2 DEF MaySave
<1>9. CASE Con!OpenForm
  BY <1>3, <1>9 DEF Con!OpenForm
<1>10. CASE Con!Write \/ Con!requestClose \/ Con!KeepEditing \/ Con!Discard
  <2>1. UNCHANGED <<s2, s12, faults, s6>> /\ s11 # None
    BY <1>10 DEF Con!Write, Con!requestClose, Con!KeepEditing, Con!Discard, Con!Writing
  <2>2. \/ s11' = None \/ s11' = [s11 EXCEPT !.dirty = TRUE]
        \/ s11' = [s11 EXCEPT !.discard = TRUE] \/ s11' = [s11 EXCEPT !.discard = FALSE]
    BY <1>10 DEF Con!Write, Con!requestClose, Con!KeepEditing, Con!Discard
  <2>3. s11' \in ConsoleForms \union {None} /\ (s11' # None => (s11'.saving <=> s11.saving))
    BY <1>0, <2>1, <2>2 DEF ConsoleForms
  <2> QED BY <1>1, <2>1, <2>3 DEF MaySave
<1>11. ASSUME NEW op \in s6, Con!addFinding(op) PROVE SavingsCovered'
  <2>1. /\ UNCHANGED <<s2, s12>> /\ faults' \in {faults, faults + 1} /\ s6' \subseteq s6
        /\ s11' = None
    BY <1>11 DEF Con!addFinding, Con!Fault
  <2> QED BY <1>1, <2>1 DEF MaySave
<1>12. ASSUME NEW op \in s6, NEW phase \in {"checked", "refused", "served"}, op.phase # "served",
              Con!Becomes(op, phase), UNCHANGED <<s12, faults, s11>>,
              s2' = IF phase = "served" /\ op.kind = "add" THEN s2 + 1 ELSE s2
       PROVE  SavingsCovered'
  <2> DEFINE next == [op EXCEPT !.phase = phase]
  <2>1. next \in Con!Ops /\ next.kind = op.kind /\ next.phase = phase
    BY <1>0 DEF Con!Ops
  <2>2. s6' = (s6 \ {op}) \union {next}
    BY <1>12 DEF Con!Becomes
  <2> HIDE DEF next
  <2>3. IsFiniteSet(s6 \ {op}) /\ count(s6 \ {op}) \in Nat /\ count(s6 \ {op}) <= count(s6)
    BY <1>0, UnservedCounts
  <2>4. op.kind = "add" => count(s6 \ {op}) = count(s6) - 1
    BY <1>0, <1>12, UnservedCounts
  <2>5. /\ IsFiniteSet(s6') /\ count(s6') \in Nat /\ count(s6') <= count(s6 \ {op}) + 1
        /\ op.kind # "add" \/ phase = "served" => count(s6') = count(s6 \ {op})
    BY <2>1, <2>2, <2>3, UnservedGrows
  <2>6. MaySave' <=> MaySave
    BY <1>12 DEF MaySave
  <2> HIDE DEF count
  <2>7. s2' \in Nat /\ s2' + count(s6') <= s2 + count(s6)
    <3>1. CASE op.kind = "add" /\ phase = "served"
      BY <1>0, <1>12, <2>3, <2>4, <2>5, <3>1
    <3>2. CASE op.kind = "add" /\ phase # "served"
      BY <1>0, <1>12, <2>3, <2>4, <2>5, <3>2
    <3>3. CASE op.kind # "add"
      BY <1>0, <1>12, <2>3, <2>5, <3>3
    <3> QED BY <3>1, <3>2, <3>3
  <2>8. s2' + count(s6') + (IF MaySave' THEN 1 ELSE 0) <= s12' + faults'
    <3>1. /\ (IF MaySave' THEN 1 ELSE 0) = (IF MaySave THEN 1 ELSE 0)
          /\ (IF MaySave THEN 1 ELSE 0) \in Nat
      BY <2>6
    <3> QED BY <1>0, <1>12, <2>5, <2>7, <3>1
  <2>9. s6' \subseteq Con!Ops
    BY <1>0, <2>1, <2>2
  <2> QED BY <1>0, <1>12, <2>5, <2>7, <2>8, <2>9 DEF SavingsCovered, count
<1>13. ASSUME NEW op \in s6, Con!Check(op) PROVE SavingsCovered'
  <2>1. \E phase \in {"checked", "refused"} : Con!Becomes(op, phase)
    BY <1>13 DEF Con!Check
  <2>2. op.phase # "served" /\ UNCHANGED <<s2, s12, faults, s11>>
    BY <1>13 DEF Con!Check
  <2> QED BY <1>12, <2>1, <2>2
<1>14. ASSUME NEW op \in s6, Con!Commit(op) PROVE SavingsCovered'
  <2>1. op.phase # "served" /\ Con!Becomes(op, "served") /\ UNCHANGED <<s12, faults, s11>>
    BY <1>14 DEF Con!Commit
  <2>2. s2' = IF op.kind = "add" THEN s2 + 1 ELSE s2
    BY <1>14 DEF Con!Commit
  <2> QED BY <1>12, <2>1, <2>2
<1>15. CASE Con!save
  <2>1. /\ MaySave /\ UNCHANGED <<s2, s12, faults>> /\ s11 \in ConsoleForms
        /\ s6' = s6 \union {Con!Sent("add", s11.no)} /\ s11' = [s11 EXCEPT !.saving = TRUE]
    BY <1>0, <1>15 DEF Con!save, Con!canSave, Con!Writing, MaySave
  <2>2. s11' \in ConsoleForms /\ ~MaySave' /\ Con!Sent("add", s11.no) \in Con!Ops
    BY <2>1 DEF MaySave, ConsoleForms, Con!Sent, Con!Ops, Con!Kinds
  <2>3. IsFiniteSet(s6') /\ count(s6') \in Nat /\ count(s6') <= count(s6) + 1
    BY <1>0, <2>1, UnservedGrows
  <2> HIDE DEF count
  <2>4. s2' + count(s6') + (IF MaySave' THEN 1 ELSE 0) <= s12' + faults'
    BY <1>0, <2>1, <2>2, <2>3
  <2> QED BY <1>0, <2>1, <2>2, <2>3, <2>4 DEF SavingsCovered, count
<1>16. ASSUME NEW op \in s6, Con!SaveFails(op) PROVE SavingsCovered'
  <2>1. /\ op.kind = "add" /\ UNCHANGED <<s2, s12>> /\ s6' = s6 \ {op}
        /\ faults' = IF op.phase = "served" THEN faults + 1 ELSE faults
    BY <1>16 DEF Con!SaveFails, Con!Fault
  <2>2. s11' \in ConsoleForms \union {None}
    BY <1>0, <1>16 DEF Con!SaveFails, ConsoleForms
  <2>3. IsFiniteSet(s6') /\ count(s6') \in Nat /\ count(s6') <= count(s6) /\ s6' \subseteq Con!Ops
    BY <1>0, <2>1, UnservedCounts
  <2>4. op.phase # "served" => count(s6') = count(s6) - 1
    BY <1>0, <2>1, UnservedCounts
  <2> HIDE DEF count
  <2>5. s2' + count(s6') + (IF MaySave' THEN 1 ELSE 0) <= s12' + faults'
    <3>1. (IF MaySave' THEN 1 ELSE 0) <= 1 /\ (IF MaySave' THEN 1 ELSE 0) \in Nat
          /\ (IF MaySave THEN 1 ELSE 0) \in Nat
      OBVIOUS
    <3>2. CASE op.phase = "served"
      BY <1>0, <2>1, <2>3, <3>1, <3>2
    <3>3. CASE op.phase # "served"
      BY <1>0, <2>1, <2>3, <2>4, <3>1, <3>3
    <3> QED BY <3>2, <3>3
  <2>6. faults' \in Nat
    BY <1>0, <2>1
  <2> QED BY <1>0, <2>1, <2>2, <2>3, <2>5, <2>6 DEF SavingsCovered, count
<1> QED
  BY <1>4, <1>5, <1>6, <1>7, <1>8, <1>9, <1>10, <1>11, <1>13, <1>14, <1>15, <1>16 DEF Con!Next

\* So a form saves one finding at most, but for the answers that were lost.
LEMMA SavedAsPromised == SavingsCovered => Con!SavedOnce
<1> SUFFICES ASSUME SavingsCovered PROVE Con!SavedOnce
  OBVIOUS
<1>1. Cardinality(Unserved(s6)) \in Nat
  BY UnservedCounts DEF SavingsCovered
<1> QED BY <1>1 DEF SavingsCovered, Con!SavedOnce

\* A form saves one finding, and one more for each answer that was lost.
LEMMA FindingsSavedOnce == Con!Spec => []Con!SavedOnce
<1>1. SavingsCovered /\ [Con!Next]_Con!pcvars => SavingsCovered'
  BY SavingsStep
<1> QED BY <1>1, SavingsInit, SavedAsPromised, PTL DEF Con!Spec

-----------------------------------------------------------------------------
(* Re-tests: s1 is the status of the engagement, s2 the re-tests, s3 the       *)
(* window, s4 to s8 the client's page and its requests, s9 to s13 the          *)
(* pentester's, s14 the changes under way, s15 and s16 say whether two met.    *)

\* The re-tests before anybody asks for one.
LEMMA RetestsInit == Ret!Init => Ret!IInv
<1> SUFFICES ASSUME Ret!Init PROVE Ret!IInv
  OBVIOUS
<1> USE DEF Ret!Init
<1>1. Ret!Typed
  <2>1. s2 \in Seq(Ret!Rows) /\ s9 \in Seq(Ret!Rows) /\ Len(s9) <= Len(s2)
    OBVIOUS
  <2>2. s4 \subseteq Ret!Asks /\ s6 \subseteq Ret!Findings /\ s14 \subseteq Ret!Patches
    OBVIOUS
  <2> QED BY <2>1, <2>2 DEF Ret!Typed
<1>2. Ret!RowsAreLocked /\ Ret!OneCloses /\ Ret!AloneSinceRead
  BY DEF Ret!RowsAreLocked, Ret!OneCloses, Ret!AloneSinceRead, Ret!CycleCloses, Ret!CompletedIsDone,
     Ret!Open
<1> QED BY <1>1, <1>2 DEF Ret!IInv

\* What a transaction makes of the re-tests: one row, and its status only.
LEMMA UpdatedIs ==
  ASSUME Ret!Typed, NEW p \in s14
  PROVE  /\ Ret!Updated(p) \in Seq(Ret!Rows)
         /\ DOMAIN Ret!Updated(p) = DOMAIN s2 /\ Len(Ret!Updated(p)) = Len(s2)
         /\ \A r \in DOMAIN s2 : r # p.id => Ret!Updated(p)[r] = s2[r]
         /\ p.to = p.before => Ret!Updated(p)[p.id].status = s2[p.id].status
         /\ p.to # p.before => Ret!Updated(p)[p.id].status = p.to
<1> DEFINE row == [s2[p.id] EXCEPT !.status = Ret!Written(p.to, p.before, @)]
<1>1. p \in Ret!Patches /\ p.id \in DOMAIN s2 /\ s2 \in Seq(Ret!Rows)
  BY DEF Ret!Typed
<1>2. s2[p.id] \in Ret!Rows
  BY <1>1
<1>3. Ret!Written(p.to, p.before, s2[p.id].status) \in Ret!Statuses
  BY <1>1, <1>2 DEF Ret!Written, Ret!Patches, Ret!Rows, Ret!Statuses, Ret!OPEN_RETEST_STATUSES,
                       Ret!COMPLETED_STATUSES
<1>4. row \in Ret!Rows /\ row.status = Ret!Written(p.to, p.before, s2[p.id].status)
  BY <1>2, <1>3 DEF Ret!Rows
<1>5. Ret!Updated(p) = [s2 EXCEPT ![p.id] = row]
  BY DEF Ret!Updated
<1> HIDE DEF row
<1>6. Ret!Updated(p)[p.id] = row
  BY <1>1, <1>5
<1> QED BY <1>1, <1>4, <1>5, <1>6 DEF Ret!Written

\* Steps of the pages: nothing is committed, and no change under way gets further than
\* being sent, refused or done.
LEMMA RetestPagesKeep ==
  ASSUME Ret!IInv, Ret!Typed', UNCHANGED <<Ret!service, Ret!flags>>,
         \A p \in s14' : p \in s14 \/ ~Ret!Held(p)
  PROVE  Ret!IInv'
<1> USE DEF Ret!service, Ret!flags
<1>2. Ret!RowsAreLocked'
  BY DEF Ret!IInv, Ret!RowsAreLocked, Ret!Held
<1>3. ASSUME ~s15' PROVE Ret!OneCloses'
  BY <1>3 DEF Ret!IInv, Ret!OneCloses, Ret!Held, Ret!Closes, Ret!CycleCloses, Ret!Open
<1>4. ASSUME ~s16' PROVE Ret!AloneSinceRead'
  BY <1>4 DEF Ret!IInv, Ret!AloneSinceRead, Ret!Held, Ret!Updated, Ret!CompletedIsDone, Ret!Open
<1> QED BY <1>2, <1>3, <1>4 DEF Ret!IInv

\* A panel that is left takes no notice of what its changes become.
LEMMA RetestPanelKeeps ==
  ASSUME Ret!IInv, Ret!Typed', UNCHANGED <<Ret!service, Ret!flags>>,
         s14' = {[p EXCEPT !.own = FALSE] : p \in s14}
  PROVE  Ret!IInv'
<1> USE DEF Ret!service, Ret!flags
<1>0. s14 \subseteq Ret!Patches
  BY DEF Ret!IInv, Ret!Typed
<1>1. ASSUME NEW p \in s14'
      PROVE  \E a \in s14 :
               /\ p = [a EXCEPT !.own = FALSE]
               /\ p.id = a.id /\ p.to = a.to /\ p.phase = a.phase /\ p.before = a.before
               /\ (p.last <=> a.last)
  BY <1>0 DEF Ret!Patches
<1>2. Ret!RowsAreLocked'
  <2>1. Ret!RowsAreLocked
    BY DEF Ret!IInv
  <2>2. \A p \in s14' : Ret!Held(p) => p.before \in Ret!Statuses
    BY <1>1, <2>1 DEF Ret!RowsAreLocked, Ret!Held
  <2>3. ASSUME NEW p \in s14', NEW q \in s14', p.phase = "written", q.phase = "written",
               p.id = q.id
        PROVE  p = q
    <3>1. PICK a \in s14 : p = [a EXCEPT !.own = FALSE] /\ p.id = a.id /\ p.phase = a.phase
      BY <1>1
    <3>2. PICK b \in s14 : q = [b EXCEPT !.own = FALSE] /\ q.id = b.id /\ q.phase = b.phase
      BY <1>1
    <3> QED BY <2>1, <2>3, <3>1, <3>2 DEF Ret!RowsAreLocked
  <2> QED BY <2>2, <2>3 DEF Ret!RowsAreLocked, Ret!Held
<1>3. ASSUME ~s15' PROVE Ret!OneCloses'
  <2>1. Ret!OneCloses
    BY <1>3 DEF Ret!IInv
  <2>2. \A p \in s14' : p.phase = "written" /\ p.to # p.before =>
                             s2[p.id].status = p.before
    BY <1>1, <2>1 DEF Ret!OneCloses
  <2>3. ASSUME NEW p \in s14', NEW q \in s14', Ret!Closes(p), Ret!Closes(q)
        PROVE  p = q
    <3>1. PICK a \in s14 : p = [a EXCEPT !.own = FALSE] /\ p.to = a.to /\ p.phase = a.phase
                               /\ p.before = a.before
      BY <1>1
    <3>2. PICK b \in s14 : q = [b EXCEPT !.own = FALSE] /\ q.to = b.to /\ q.phase = b.phase
                               /\ q.before = b.before
      BY <1>1
    <3> QED BY <2>1, <2>3, <3>1, <3>2 DEF Ret!OneCloses, Ret!Closes
  <2>4. ASSUME NEW p \in s14', Ret!Closes(p), ~p.last
        PROVE  \E r \in Ret!Open(s2) : r # p.id
    BY <1>1, <2>1, <2>4 DEF Ret!OneCloses, Ret!Closes
  <2> QED BY <2>1, <2>2, <2>3, <2>4 DEF Ret!OneCloses, Ret!Closes, Ret!CycleCloses, Ret!Open
<1>4. ASSUME ~s16' PROVE Ret!AloneSinceRead'
  <2>1. Ret!AloneSinceRead
    BY <1>4 DEF Ret!IInv
  <2>2. \A p, a : p.id = a.id /\ p.to = a.to /\ p.before = a.before => Ret!Updated(p) =
     Ret!Updated(a)
    BY DEF Ret!Updated
  <2>3. \A p : Ret!Updated(p)' = Ret!Updated(p)
    BY DEF Ret!Updated
  <2>4. \A p \in s14' : Ret!Held(p) => s1 = "retesting" /\ s2[p.id].status = p.before
    BY <1>1, <2>1 DEF Ret!AloneSinceRead, Ret!Held
  <2>5. \A p \in s14' : p.phase = "written" /\ p.last => Ret!Open(Ret!Updated(p)) = {}
    BY <1>1, <2>1, <2>2 DEF Ret!AloneSinceRead
  <2> QED BY <2>1, <2>3, <2>4, <2>5 DEF Ret!AloneSinceRead, Ret!Held, Ret!CompletedIsDone, Ret!Open
<1> QED BY <1>2, <1>3, <1>4 DEF Ret!IInv

\* update_retest reads its row.
LEMMA RetestReadKeeps ==
  ASSUME Ret!IInv, NEW p \in s14, Ret!UpdateRead(p)
  PROVE  Ret!IInv'
<1> USE DEF Ret!service, Ret!flags, Ret!tester, Ret!workspace, Ret!client
<1> DEFINE q == [p EXCEPT !.phase = "read", !.before = s2[p.id].status]
<1>1. p \in Ret!Patches /\ p.id \in DOMAIN s2 /\ s2 \in Seq(Ret!Rows) /\ Ret!Typed
  BY DEF Ret!IInv, Ret!Typed
<1>2. s2[p.id].status \in Ret!Statuses
  <2>1. s2[p.id] \in Ret!Rows
    BY <1>1
  <2> QED BY <2>1 DEF Ret!Rows
<1>3. /\ q \in Ret!Patches /\ q.phase = "read" /\ q.id = p.id /\ q.before = s2[p.id].status
      /\ [p EXCEPT !.phase = "refused"] \in Ret!Patches
      /\ [p EXCEPT !.phase = "refused"].phase = "refused"
      /\ [p EXCEPT !.phase = "refused"].id = p.id
  BY <1>1, <1>2 DEF Ret!Patches
<1> HIDE DEF q
<1>4. CASE s1 = "retesting" /\ s3 = "open"
  <2>1. s14' = (s14 \ {p}) \union {q} /\ UNCHANGED <<Ret!service, s4, Ret!client, Ret!tester,
     Ret!flags>>
    BY <1>4 DEF Ret!UpdateRead, Ret!Becomes, q
  <2>2. Ret!Typed'
    BY <1>1, <1>3, <2>1 DEF Ret!Typed
  <2>3. Ret!RowsAreLocked'
    BY <1>2, <1>3, <2>1 DEF Ret!IInv, Ret!RowsAreLocked, Ret!Held
  <2>4. ASSUME ~s15' PROVE Ret!OneCloses'
    BY <1>3, <2>1, <2>4 DEF Ret!IInv, Ret!OneCloses, Ret!Closes, Ret!CycleCloses, Ret!Open
  <2>5. ASSUME ~s16' PROVE Ret!AloneSinceRead'
    BY <1>3, <1>4, <2>1, <2>5 DEF Ret!IInv, Ret!AloneSinceRead, Ret!Held, Ret!Updated,
       Ret!CompletedIsDone, Ret!Open
  <2> QED BY <2>2, <2>3, <2>4, <2>5 DEF Ret!IInv
<1>5. CASE ~(s1 = "retesting" /\ s3 = "open")
  <2>1. /\ s14' = (s14 \ {p}) \union {[p EXCEPT !.phase = "refused"]}
        /\ UNCHANGED <<Ret!service, s4, Ret!client, Ret!tester, Ret!flags>>
    BY <1>5 DEF Ret!UpdateRead, Ret!Becomes
  <2>2. Ret!Typed'
    BY <1>1, <1>3, <2>1 DEF Ret!Typed
  <2>3. \A x \in s14' : x \in s14 \/ ~Ret!Held(x)
    BY <1>3, <2>1 DEF Ret!Held
  <2> QED BY <2>1, <2>2, <2>3, RetestPagesKeep
<1> QED BY <1>4, <1>5

\* A transaction that ends its re-test sets its status.
LEMMA ClosesEnds ==
  ASSUME Ret!Typed, NEW p \in s14, p.phase \in {"read", "written"}, p.before \in Ret!Statuses,
         p.before \in Ret!OPEN_RETEST_STATUSES, p.to \in Ret!COMPLETED_STATUSES
  PROVE  /\ Ret!Ends(p) /\ p.to # p.before /\ Ret!Updated(p)[p.id].status = p.to
         /\ p.id \notin Ret!Open(Ret!Updated(p))
<1>1. p.to # p.before
  BY DEF Ret!OPEN_RETEST_STATUSES, Ret!COMPLETED_STATUSES
<1>2. Ret!Updated(p)[p.id].status = p.to
  BY <1>1, UpdatedIs
<1> QED BY <1>1, <1>2 DEF Ret!Ends, Ret!Open, Ret!OPEN_RETEST_STATUSES, Ret!COMPLETED_STATUSES

\* update_retest flushes its row, which is locked from here, and counts the others.
LEMMA RetestWritesKeep ==
  ASSUME Ret!IInv, NEW p \in s14, Ret!UpdateWrites(p)
  PROVE  Ret!IInv'
<1> USE DEF Ret!service, Ret!flags, Ret!tester, Ret!workspace, Ret!client
<1> DEFINE q == [p EXCEPT !.phase = "written", !.last = Ret!Ends(p) /\ Ret!LastOpen(p)]
<1>1. p \in Ret!Patches /\ p.id \in DOMAIN s2 /\ s2 \in Seq(Ret!Rows) /\ Ret!Typed
  BY DEF Ret!IInv, Ret!Typed
<1>2. /\ q \in Ret!Patches /\ q.phase = "written" /\ q.id = p.id /\ q.before = p.before
      /\ q.to = p.to /\ (q.last <=> (Ret!Ends(p) /\ Ret!LastOpen(p)))
  BY <1>1 DEF Ret!Patches
<1> HIDE DEF q
<1>3. /\ s14' = (s14 \ {p}) \union {q}
      /\ UNCHANGED <<Ret!service, s4, Ret!client, Ret!tester, s16>>
      /\ p.phase = "read"
      /\ \A x \in s14 : x.phase = "written" => x.id # p.id
  BY DEF Ret!UpdateWrites, Ret!Becomes, q
<1>4. s15' <=>
        \/ s15
        \/ p.to # p.before /\ p.before # s2[p.id].status
        \/ Ret!Ends(p) /\ \E x \in s14 : x.phase = "written" /\ Ret!Ends(x)
  BY DEF Ret!UpdateWrites
<1>5. p.before \in Ret!Statuses
  BY <1>3 DEF Ret!IInv, Ret!RowsAreLocked, Ret!Held
<1>6. Ret!Typed'
  BY <1>1, <1>2, <1>3 DEF Ret!UpdateWrites, Ret!Typed
<1>7. Ret!RowsAreLocked'
  BY <1>2, <1>3, <1>5 DEF Ret!IInv, Ret!RowsAreLocked, Ret!Held
<1>8. ASSUME ~s15' PROVE Ret!OneCloses'
  <2>1. Ret!OneCloses /\ (p.to # p.before => p.before = s2[p.id].status)
    BY <1>4, <1>8 DEF Ret!IInv
  <2>2. Ret!Closes(q) => Ret!Ends(p) /\ p.id \notin Ret!Open(Ret!Updated(p)) /\ p.to # p.before
    BY <1>1, <1>2, <1>3, <1>5, ClosesEnds DEF Ret!Closes
  <2>3. \A x \in s14 : Ret!Closes(x) => Ret!Ends(x) /\ x.phase = "written"
    BY <1>1, ClosesEnds DEF Ret!Closes, Ret!IInv, Ret!RowsAreLocked, Ret!Held
  <2>4. \A x \in s14' : x.phase = "written" /\ x.to # x.before =>
                             s2[x.id].status = x.before
    BY <1>2, <1>3, <2>1 DEF Ret!OneCloses
  <2>5. \A x, y \in s14' : Ret!Closes(x) /\ Ret!Closes(y) => x = y
    BY <1>3, <1>4, <1>8, <2>1, <2>2, <2>3 DEF Ret!OneCloses
  <2>6. Ret!Closes(q) /\ ~q.last => \E r \in Ret!Open(s2) : r # q.id
    BY <1>1, <1>2, <2>2, UpdatedIs DEF Ret!LastOpen, Ret!Open
  <2>7. \A x \in s14' : Ret!Closes(x) /\ ~x.last => \E r \in Ret!Open(s2) : r # x.id
    BY <1>3, <2>1, <2>6 DEF Ret!OneCloses
  <2> QED BY <1>3, <2>1, <2>4, <2>5, <2>7, <1>4, <1>8 DEF Ret!OneCloses, Ret!Closes,
     Ret!CycleCloses, Ret!Open
<1>9. ASSUME ~s16' PROVE Ret!AloneSinceRead'
  <2>1. Ret!AloneSinceRead
    BY <1>3, <1>9 DEF Ret!IInv
  <2>2. \A x : Ret!Updated(x)' = Ret!Updated(x)
    BY <1>3 DEF Ret!Updated
  <2>3. Ret!Updated(q) = Ret!Updated(p)
    BY <1>2 DEF Ret!Updated
  <2>4. \A x \in s14' : Ret!Held(x) => s1 = "retesting" /\ s2[x.id].status = x.before
    BY <1>2, <1>3, <2>1 DEF Ret!AloneSinceRead, Ret!Held
  <2>5. \A x \in s14' : x.phase = "written" /\ x.last => Ret!Open(Ret!Updated(x)) = {}
    BY <1>2, <1>3, <2>1, <2>3 DEF Ret!AloneSinceRead, Ret!LastOpen
  <2> QED BY <1>3, <2>1, <2>2, <2>4, <2>5 DEF Ret!AloneSinceRead, Ret!Held, Ret!CompletedIsDone,
     Ret!Open
<1> QED BY <1>6, <1>7, <1>8, <1>9 DEF Ret!IInv

\* update_retest commits: its row changes, and the engagement if it was the last.
LEMMA RetestCommitsKeep ==
  ASSUME Ret!IInv, NEW p \in s14, Ret!UpdateCommits(p)
  PROVE  Ret!IInv'
<1> USE DEF Ret!service, Ret!flags, Ret!tester, Ret!workspace, Ret!client
<1> DEFINE q == [p EXCEPT !.phase = "done", !.before = None, !.last = FALSE]
<1>1. p \in Ret!Patches /\ p.id \in DOMAIN s2 /\ s2 \in Seq(Ret!Rows) /\ Ret!Typed
  BY DEF Ret!IInv, Ret!Typed
<1>2. q \in Ret!Patches /\ q.phase = "done" /\ q.id = p.id
  BY <1>1 DEF Ret!Patches
<1> HIDE DEF q
<1>3. /\ s14' = (s14 \ {p}) \union {q} /\ p.phase = "written"
      /\ s2' = Ret!Updated(p) /\ UNCHANGED <<s4, Ret!client, Ret!tester, s15>>
      /\ s1' = IF p.last THEN "completed" ELSE s1
  BY DEF Ret!UpdateCommits, Ret!Becomes, q
<1>4. s16' <=>
        \/ s16
        \/ \E a \in s4 : a.phase = "read"
        \/ \E x \in s14 \ {p} : Ret!Held(x)
  BY DEF Ret!UpdateCommits, Ret!Overlaps, Ret!Held
<1>5. /\ s2' \in Seq(Ret!Rows) /\ DOMAIN s2' = DOMAIN s2 /\ Len(s2') = Len(s2)
      /\ \A r \in DOMAIN s2 : r # p.id => s2'[r] = s2[r]
      /\ p.to = p.before => s2'[p.id].status = s2[p.id].status
      /\ p.to # p.before => s2'[p.id].status = p.to
  BY <1>1, <1>3, UpdatedIs
<1>6. Ret!Typed'
  <2>1. /\ s1' \in {"completed", "retesting"} /\ s14' \subseteq Ret!Patches
        /\ \A x \in s14' : x.id \in DOMAIN s2'
        /\ s16' \in BOOLEAN
    BY <1>1, <1>2, <1>3, <1>5 DEF Ret!Typed, Ret!UpdateCommits, Ret!Overlaps
  <2> QED BY <1>1, <1>3, <1>5, <2>1 DEF Ret!Typed
<1>7. Ret!RowsAreLocked'
  BY <1>2, <1>3 DEF Ret!IInv, Ret!RowsAreLocked, Ret!Held
<1>8. p.to \in {"in_progress"} \union Ret!COMPLETED_STATUSES
  BY <1>1 DEF Ret!Patches
<1>9. ASSUME ~s15' PROVE Ret!OneCloses'
  <2>1. Ret!OneCloses
    BY <1>3, <1>9 DEF Ret!IInv
  <2>2. ASSUME NEW x \in s14', x.phase = "written"
        PROVE  x \in s14 /\ x # p /\ x.id # p.id
    BY <1>2, <1>3, <2>2 DEF Ret!IInv, Ret!RowsAreLocked
  <2>3. ASSUME p.id \in Ret!Open(s2) PROVE p.id \in Ret!Open(s2') \/ Ret!Closes(p)
    BY <1>3, <1>5, <1>8, <2>1, <2>3 DEF Ret!OneCloses, Ret!Open, Ret!Closes,
       Ret!OPEN_RETEST_STATUSES
  <2>4. \A r \in Ret!Open(s2) : r # p.id => r \in Ret!Open(s2')
    BY <1>5 DEF Ret!Open
  <2>5. \A x \in s14' : x.phase = "written" /\ x.to # x.before =>
                             s2'[x.id].status = x.before
    <3> SUFFICES ASSUME NEW x \in s14', x.phase = "written", x.to # x.before
                 PROVE  s2'[x.id].status = x.before
      OBVIOUS
    <3>1. x \in s14 /\ x.id # p.id /\ x.id \in DOMAIN s2
      BY <1>1, <2>2 DEF Ret!Typed
    <3> QED BY <1>5, <2>1, <3>1 DEF Ret!OneCloses
  <2>6. \A x, y \in s14' : Ret!Closes(x) /\ Ret!Closes(y) => x = y
    BY <2>1, <2>2 DEF Ret!OneCloses, Ret!Closes
  <2>7. ASSUME NEW x \in s14', Ret!Closes(x), ~x.last
        PROVE  \E r \in Ret!Open(s2') : r # x.id
    <3>1. x \in s14 /\ x # p
      BY <2>2, <2>7 DEF Ret!Closes
    <3>2. PICK r \in Ret!Open(s2) : r # x.id
      BY <2>1, <2>7, <3>1 DEF Ret!OneCloses
    <3>3. ~Ret!Closes(p)
      BY <2>1, <2>7, <3>1 DEF Ret!OneCloses
    <3> QED BY <2>3, <2>4, <3>2, <3>3
  <2>8. ASSUME s1' = "retesting" PROVE Ret!Open(s2') # {}
    <3>1. ~p.last /\ s1 = "retesting"
      BY <1>3, <2>8
    <3>2. Ret!Open(s2) # {} /\ (Ret!Closes(p) => \E r \in Ret!Open(s2) : r # p.id)
      BY <1>3, <1>9, <2>1, <3>1 DEF Ret!OneCloses, Ret!CycleCloses
    <3> QED BY <2>3, <2>4, <3>2
  <2> QED BY <2>5, <2>6, <2>7, <2>8 DEF Ret!OneCloses, Ret!Closes, Ret!CycleCloses
<1>10. ASSUME ~s16' PROVE Ret!AloneSinceRead'
  <2>1. Ret!AloneSinceRead /\ \A x \in s14' : ~Ret!Held(x)
    BY <1>2, <1>3, <1>4, <1>10 DEF Ret!IInv, Ret!Held
  <2>2. p.last => Ret!Open(s2') = {}
    BY <1>3, <2>1 DEF Ret!AloneSinceRead
  <2>3. s1 = "retesting"
    BY <1>3, <2>1 DEF Ret!AloneSinceRead, Ret!Held
  <2>4. Ret!CompletedIsDone'
    BY <1>3, <2>2, <2>3 DEF Ret!CompletedIsDone
  <2> QED BY <2>1, <2>4 DEF Ret!AloneSinceRead, Ret!Held
<1> QED BY <1>6, <1>7, <1>9, <1>10 DEF Ret!IInv

\* What request_retest adds: open re-tests.
LEMMA RequestedIs ==
  ASSUME NEW findings \in (SUBSET Ret!Findings) \ {{}}
  PROVE  /\ Ret!Requested(findings) \in Seq(Ret!Rows) /\ 1 \in DOMAIN Ret!Requested(findings)
         /\ \A r \in DOMAIN Ret!Requested(findings) :
              Ret!Requested(findings)[r].status = "requested"
<1> DEFINE row(f) == [of |-> f, status |-> "requested"]
<1> DEFINE f0 == CHOOSE f \in findings : TRUE
<1>1. f0 \in Ret!Findings
  <2>1. \E f : f \in findings
    <3>1. findings # {}
      OBVIOUS
    <3> QED BY <3>1
  <2>2. f0 \in findings
    BY <2>1, Zenon
  <2> QED BY <2>2
<1>2. \A f \in Ret!Findings : row(f) \in Ret!Rows /\ row(f).status = "requested"
  BY DEF Ret!Rows, Ret!Statuses, Ret!OPEN_RETEST_STATUSES
<1>3. Ret!Requested(findings) = <<row(1), row(2)>> \/ Ret!Requested(findings) = <<row(f0)>>
  BY DEF Ret!Requested
<1>4. 1 \in Ret!Findings /\ 2 \in Ret!Findings
  BY DEF Ret!Findings
<1> HIDE DEF row, f0
<1>5. CASE Ret!Requested(findings) = <<row(1), row(2)>>
  BY <1>2, <1>4, <1>5
<1>6. CASE Ret!Requested(findings) = <<row(f0)>>
  BY <1>1, <1>2, <1>6
<1> QED BY <1>3, <1>5, <1>6

\* request_retest commits: re-tests are added and the engagement is in re-testing.
LEMMA RetestRequestKeeps ==
  ASSUME Ret!IInv, NEW a \in s4, Ret!RequestCommits(a)
  PROVE  Ret!IInv'
<1> USE DEF Ret!service, Ret!flags, Ret!tester, Ret!workspace, Ret!client
<1> DEFINE new == Ret!Requested(a.findings)
<1>1. /\ a \in Ret!Asks /\ a.findings \in (SUBSET Ret!Findings) \ {{}}
      /\ s2 \in Seq(Ret!Rows) /\ Ret!Typed
  BY DEF Ret!IInv, Ret!Typed, Ret!Asks
<1>2. new \in Seq(Ret!Rows) /\ 1 \in DOMAIN new /\ \A r \in DOMAIN new : new[r].status = "requested"
  BY <1>1, RequestedIs
<1> HIDE DEF new
<1>3. /\ s2' = s2 \o new /\ s1' = "retesting"
      /\ s4' = (s4 \ {a}) \union {[a EXCEPT !.phase = "done"]}
      /\ UNCHANGED <<Ret!client, Ret!tester, s14, s15>>
  BY DEF Ret!RequestCommits, new
<1>4. s16' <=>
        \/ s16
        \/ \E b \in s4 \ {a} : b.phase = "read"
        \/ \E x \in s14 : Ret!Held(x)
  BY DEF Ret!RequestCommits, Ret!Overlaps, Ret!Held
<1>5. /\ s2' \in Seq(Ret!Rows) /\ Len(s2') >= Len(s2)
      /\ \A r \in DOMAIN s2 : r \in DOMAIN s2' /\ s2'[r] = s2[r]
      /\ Len(s2) + 1 \in Ret!Open(s2')
  <2>1. s2' \in Seq(Ret!Rows) /\ Len(s2') = Len(s2) + Len(new) /\ Len(new) >= 1
    BY <1>1, <1>2, <1>3
  <2>2. \A r \in DOMAIN s2 : r \in DOMAIN s2' /\ s2'[r] = s2[r]
    BY <1>1, <1>2, <1>3
  <2>3. Len(s2) + 1 \in DOMAIN s2' /\ s2'[Len(s2) + 1] = new[1]
    BY <1>1, <1>2, <1>3
  <2> QED BY <1>2, <2>1, <2>2, <2>3 DEF Ret!Open, Ret!OPEN_RETEST_STATUSES
<1>6. Ret!Typed'
  <2>1. [a EXCEPT !.phase = "done"] \in Ret!Asks
    BY <1>1 DEF Ret!Asks
  <2>2. \A x \in s14' : x.id \in DOMAIN s2'
    BY <1>1, <1>3, <1>5 DEF Ret!Typed
  <2>3. s16' \in BOOLEAN
    BY DEF Ret!RequestCommits, Ret!Overlaps
  <2>4. s9' \in Seq(Ret!Rows) /\ Len(s9') <= Len(s2')
    BY <1>1, <1>3, <1>5 DEF Ret!Typed
  <2> QED BY <1>1, <1>3, <1>5, <2>1, <2>2, <2>3, <2>4 DEF Ret!Typed
<1>7. Ret!RowsAreLocked'
  BY <1>3 DEF Ret!IInv, Ret!RowsAreLocked, Ret!Held
<1>8. ASSUME ~s15' PROVE Ret!OneCloses'
  <2>1. Ret!OneCloses /\ \A x \in s14 : x.id \in DOMAIN s2
    BY <1>1, <1>3, <1>8 DEF Ret!IInv, Ret!Typed
  <2>2. \A r \in Ret!Open(s2) : r \in Ret!Open(s2')
    BY <1>5 DEF Ret!Open
  <2> QED BY <1>3, <1>5, <2>1, <2>2 DEF Ret!OneCloses, Ret!Closes, Ret!CycleCloses
<1>9. ASSUME ~s16' PROVE Ret!AloneSinceRead'
  BY <1>3, <1>4, <1>9 DEF Ret!AloneSinceRead, Ret!Held, Ret!CompletedIsDone
<1> QED BY <1>6, <1>7, <1>8, <1>9 DEF Ret!IInv

\* The remaining steps are those of the pages.
LEMMA RetestsStepSound == Ret!IInv /\ [Ret!Next]_Ret!rvars => Ret!IInv'
<1> SUFFICES ASSUME Ret!IInv, [Ret!Next]_Ret!rvars PROVE Ret!IInv'
  OBVIOUS
<1> USE DEF Ret!service, Ret!flags, Ret!tester, Ret!workspace, Ret!client
<1>0. Ret!Typed
  BY DEF Ret!IInv
<1>1. CASE UNCHANGED Ret!rvars
  <2>1. Ret!Typed'
    BY <1>0, <1>1 DEF Ret!rvars, Ret!Typed
  <2> QED BY <1>1, <2>1, RetestPagesKeep DEF Ret!rvars
<1>2. ASSUME \/ Ret!WindowEnds \/ Ret!useRetestWindow \/ Ret!EligibleArrives \/ Ret!ShowModal
             \/ Ret!handleFile \/ Ret!UploadEnds \/ Ret!CancelOutcome
             \/ \E o \in Ret!COMPLETED_STATUSES : Ret!ChooseOutcome(o)
      PROVE  Ret!IInv'
  <2>1. UNCHANGED <<Ret!service, Ret!flags, s4, s9, s14>>
    BY <1>2 DEF Ret!WindowEnds, Ret!useRetestWindow, Ret!EligibleArrives, Ret!ShowModal,
       Ret!handleFile, Ret!UploadEnds,
                Ret!CancelOutcome, Ret!ChooseOutcome
  <2>2. /\ s6' \subseteq Ret!Findings
        /\ s11' \in Ret!COMPLETED_STATUSES \union {None}
    BY <1>0, <1>2 DEF Ret!WindowEnds, Ret!useRetestWindow, Ret!EligibleArrives, Ret!ShowModal,
       Ret!handleFile,
       Ret!UploadEnds, Ret!CancelOutcome, Ret!ChooseOutcome, Ret!Typed, Ret!eligible_findings
  <2>3. Ret!Typed'
    BY <1>0, <2>1, <2>2 DEF Ret!Typed
  <2> QED BY <2>1, <2>3, RetestPagesKeep
<1>3. ASSUME \/ Ret!Visit \/ Ret!CloseModal \/ Ret!handleSubmit
             \/ \E a \in s4 :
                  Ret!RequestRead(a) \/ Ret!handleRetestRequested(a) \/ Ret!RequestFails(a)
      PROVE  Ret!IInv'
  <2>1. UNCHANGED <<Ret!service, Ret!flags, Ret!tester, s14>>
    BY <1>3 DEF Ret!Visit, Ret!CloseModal, Ret!handleSubmit, Ret!RequestRead,
       Ret!handleRetestRequested, Ret!RequestFails
  <2>2. s6' \subseteq Ret!Findings
    BY <1>0, <1>3 DEF Ret!Visit, Ret!CloseModal, Ret!handleSubmit, Ret!RequestRead,
       Ret!handleRetestRequested,
       Ret!RequestFails, Ret!Typed
  <2>3. s4' \subseteq Ret!Asks
    <3>1. \A a \in s4 : /\ [a EXCEPT !.own = FALSE] \in Ret!Asks
                          /\ [a EXCEPT !.phase = "read"] \in Ret!Asks
                          /\ [a EXCEPT !.phase = "refused"] \in Ret!Asks
      BY <1>0 DEF Ret!Typed, Ret!Asks
    <3>2. CASE Ret!Visit \/ Ret!CloseModal \/ \E a \in s4 : Ret!handleRetestRequested(a)
      <4>1. \A b \in s4' : \E a \in s4 : b = [a EXCEPT !.own = FALSE]
        BY <3>2 DEF Ret!Visit, Ret!CloseModal, Ret!handleRetestRequested
      <4> QED BY <3>1, <4>1
    <3>3. CASE Ret!handleSubmit
      <4>1. PICK selected \in (SUBSET s6) \ {{}} :
              s4' = s4 \union {[findings |-> selected, phase |-> "sent", own |-> TRUE]}
        BY <3>3 DEF Ret!handleSubmit, Ret!Selections
      <4>2. selected \in (SUBSET Ret!Findings) \ {{}}
        BY <1>0 DEF Ret!Typed
      <4>3. [findings |-> selected, phase |-> "sent", own |-> TRUE] \in Ret!Asks
        BY <4>2 DEF Ret!Asks
      <4> QED BY <1>0, <4>1, <4>3 DEF Ret!Typed
    <3>4. ASSUME NEW a \in s4, Ret!RequestRead(a) PROVE s4' \subseteq Ret!Asks
      <4>1. \/ s4' = (s4 \ {a}) \union {[a EXCEPT !.phase = "read"]}
            \/ s4' = (s4 \ {a}) \union {[a EXCEPT !.phase = "refused"]}
        BY <3>4 DEF Ret!RequestRead
      <4> QED BY <1>0, <3>1, <4>1 DEF Ret!Typed
    <3>5. CASE \E a \in s4 : Ret!RequestFails(a)
      BY <1>0, <3>5 DEF Ret!RequestFails, Ret!Typed
    <3> QED BY <1>3, <3>2, <3>3, <3>4, <3>5
  <2>4. Ret!Typed'
    BY <1>0, <2>1, <2>2, <2>3 DEF Ret!Typed
  <2> QED BY <2>1, <2>4, RetestPagesKeep
<1>4. ASSUME Ret!VisitRetests \/ Ret!ClosePanel \/ \E r \in DOMAIN s9 : Ret!RetestCard(r)
      PROVE  Ret!IInv'
  <2>1. /\ UNCHANGED <<Ret!service, Ret!flags, s4, Ret!client>> /\ s11' = None
        /\ s14' = {[p EXCEPT !.own = FALSE] : p \in s14}
        /\ s9' = s9 \/ s9' = s2
    BY <1>4 DEF Ret!VisitRetests, Ret!ClosePanel, Ret!RetestCard, Ret!OpenPanel
  <2>2. \A p \in s14' : p \in Ret!Patches /\ p.id \in DOMAIN s2
    BY <1>0, <2>1 DEF Ret!Typed, Ret!Patches
  <2>3. s9' \in Seq(Ret!Rows) /\ Len(s9') <= Len(s2)
    BY <1>0, <2>1 DEF Ret!Typed
  <2>4. Ret!Typed'
    BY <1>0, <2>1, <2>2, <2>3 DEF Ret!Typed
  <2> QED BY <2>1, <2>4, RetestPanelKeeps
<1>5. ASSUME Ret!StartRetest \/ Ret!saveOutcome PROVE Ret!IInv'
  <2>1. PICK to \in {"in_progress"} \union Ret!COMPLETED_STATUSES :
          Ret!patch(to) /\ Ret!Shown \in {"requested", "in_progress"}
    BY <1>0, <1>5 DEF Ret!StartRetest, Ret!saveOutcome, Ret!Typed
  <2> DEFINE q == [id |-> s10, to |-> to, phase |-> "sent", before |-> None, last |-> FALSE,
                   own |-> TRUE]
  <2>2. s10 \in DOMAIN s9
    BY <2>1, NoneAssumption DEF Ret!Shown
  <2>3. s10 \in DOMAIN s2 /\ s10 \in Nat
    BY <1>0, <2>2 DEF Ret!Typed
  <2>4. /\ s14' = s14 \union {q} /\ UNCHANGED <<Ret!service, Ret!flags, s4, Ret!client, s9, s11>>
    BY <2>1 DEF Ret!patch
  <2>5. q \in Ret!Patches /\ q.id \in DOMAIN s2 /\ ~Ret!Held(q)
    BY <2>3 DEF Ret!Patches, Ret!Held
  <2> HIDE DEF q
  <2>6. Ret!Typed'
    BY <1>0, <2>4, <2>5 DEF Ret!Typed
  <2> QED BY <2>4, <2>5, <2>6, RetestPagesKeep
<1>6. ASSUME NEW p \in s14, Ret!ListArrives(p) \/ Ret!PatchFails(p) PROVE Ret!IInv'
  <2>1. /\ UNCHANGED <<Ret!service, Ret!flags, s4, Ret!client>> /\ s14' = s14 \ {p}
        /\ s11' = s11 \/ s11' = None
        /\ s9' = s9 \/ s9' = s2
    BY <1>6 DEF Ret!ListArrives, Ret!PatchFails, Ret!PatchEnds
  <2>2. Ret!Typed'
    BY <1>0, <2>1 DEF Ret!Typed
  <2> QED BY <2>1, <2>2, RetestPagesKeep
<1>7. ASSUME Ret!Next PROVE Ret!IInv'
  <2>1. CASE \E a \in s4 : Ret!RequestCommits(a)
    BY <2>1, RetestRequestKeeps
  <2>2. CASE \E p \in s14 : Ret!UpdateRead(p) \/ Ret!UpdateWrites(p) \/ Ret!UpdateCommits(p)
    BY <2>2, RetestReadKeeps, RetestWritesKeep, RetestCommitsKeep
  <2> QED BY <1>2, <1>3, <1>4, <1>5, <1>6, <1>7, <2>1, <2>2 DEF Ret!Next
<1> QED BY <1>1, <1>7

\* The invariant gives the two promises of a cycle of re-tests.
LEMMA CyclesAgree == Ret!IInv => Ret!CycleCloses /\ Ret!CompletedIsDone
<1> QED BY DEF Ret!IInv, Ret!Typed, Ret!OneCloses, Ret!AloneSinceRead, Ret!CycleCloses,
   Ret!CompletedIsDone

\* A cycle of re-tests closes with its last one, and a completed engagement has none open,
\* except where two transactions met.
LEMMA CyclesClose ==
  Ret!Spec => [](Ret!CycleCloses /\ Ret!CompletedIsDone)
<1> QED BY RetestsInit, RetestsStepSound, CyclesAgree, PTL DEF Ret!Spec

-----------------------------------------------------------------------------
(* The engagement workflow, whatever the users click and whichever requests   *)
(* fail, however often: s1 is the board, s2 who is available, s3 the requests  *)
(* under way, s4 that two of them crossed, s5 that an engagement came back     *)
(* from review, s6 that a pentester was released, s7 and s8 the page. What an  *)
(* operation writes depends on what it read, so the invariant says what is     *)
(* known of the engagement, and of the pentester's others, between the two:    *)
(* everything, as long as nobody else wrote.                                   *)

Entries == [status : Del!Statuses, assigned : Del!Pentesters \union {None},
            slot : Del!Slots \union {None},
            quote : BOOLEAN]
Operations == [kind : Del!Kinds \union {None}, arg : Del!Args, on : Del!Engagements, own : BOOLEAN,
               phase : {"read", "refused", "done"}, from : Del!Pentesters \union {None}]

BoardTyped ==
  /\ s1 \in [Del!Engagements -> Entries]
  /\ s2 \in [Del!Pentesters -> {"available", "engaged"}]
  /\ s3 \subseteq Operations
  /\ \A op \in s3 : op.phase = "read" => op.kind \in Del!Kinds /\ Del!Fits(op.kind, op.arg)
  /\ s7 = None \/ s7.status \in Del!Statuses

\* What has dates keeps some, also when operations cross: an operation that leads
\* to work, or keeps it, found dates when it read, unless it brings them.
DatesAreKept ==
  /\ \A e \in Del!Engagements : s1[e].status \in Del!Active => s1[e].slot # None
  /\ \A op \in s3 : op.phase = "read" /\ op.kind \in {"start", "submit", "return"} =>
       s1[op.on].slot # None

\* What an operation read is still so when it writes.
ReadIsStillSo == \A op \in s3 : op.phase = "read" => Del!Allowed(op.kind, op.arg, op.on)

\* Whoever is assigned to work, or will be, is engaged.
AssignedIsEngaged ==
  \A e \in Del!Engagements :
    /\ s1[e].status = "requested" => s1[e].assigned = None
    /\ s1[e].status \in Del!Active => s1[e].assigned # None
    /\ s1[e].status \in Del!Active \union {"scoping"} /\ s1[e].assigned # None /\ ~s6 =>
         s2[s1[e].assigned] = "engaged"

\* Of two engagements booked for a pentester, the dates differ.
DatesDiffer ==
  \A e, other \in Del!Engagements :
    /\ e # other /\ s1[e].status \in Del!Booked /\ s1[other].status \in Del!Booked
    /\ s1[e].assigned = s1[other].assigned
    => s1[e].slot # s1[other].slot

DeliveryInv ==
  /\ BoardTyped /\ DatesAreKept
  /\ ~s4 => ReadIsStillSo /\ AssignedIsEngaged
  /\ ~s4 /\ ~s5 => DatesDiffer

-----------------------------------------------------------------------------
\* "No value" is neither a pentester nor a date.
LEMMA NobodyIsApart == None \notin Del!Pentesters /\ None \notin Del!Slots
BY NoneAssumption DEF Del!Pentesters, Del!Slots

\* Init (the engagement is requested, the colleague's one is booked for "p").
LEMMA DeliveryInit == Del!Init => DeliveryInv
<1> SUFFICES ASSUME Del!Init PROVE DeliveryInv
  OBVIOUS
<1>1. s1[Del!Mine] = Del!Fresh /\ s1[Del!Theirs].status = "scheduled"
      /\ s1[Del!Theirs].assigned = "p"
      /\ s1[Del!Theirs].slot = "early"
  BY DEF Del!Init, Del!Engagements, Del!Mine, Del!Theirs
<1>2. BoardTyped
  BY DEF Del!Init, BoardTyped, Del!Fresh, Entries, Del!Statuses, Del!Pentesters, Del!Slots
<1>3. DatesAreKept
  BY <1>1, NobodyIsApart DEF Del!Init, DatesAreKept, Del!Engagements, Del!Fresh, Del!Slots,
     Del!Active, Del!Booked
<1>4. AssignedIsEngaged
  BY <1>1, NobodyIsApart DEF Del!Init, AssignedIsEngaged, Del!Engagements, Del!Fresh,
     Del!Pentesters, Del!Active, Del!Booked
<1>5. DatesDiffer
  BY <1>1 DEF DatesDiffer, Del!Engagements, Del!Fresh, Del!Booked
<1> QED BY <1>2, <1>3, <1>4, <1>5 DEF Del!Init, DeliveryInv, ReadIsStillSo

-----------------------------------------------------------------------------
(* Reading. An operation begins with what is so.                              *)

\* Whoever asks (Others, Submit, Press): what is asked is recorded if it is allowed.
LEMMA ReadsSound ==
  ASSUME DeliveryInv, NEW kind \in Del!Kinds, NEW arg \in Del!Args, NEW e \in Del!Engagements,
         NEW own \in BOOLEAN,
         Del!Fits(kind, arg), Del!Reads(kind, arg, e, own),
         UNCHANGED <<s1, s2, s4, s5, s6, s7>>
  PROVE  DeliveryInv'
<1> DEFINE op == [kind |-> kind, arg |-> arg, on |-> e, own |-> own, phase |-> "read",
                  from |-> IF kind = "reassign" THEN s1[e].assigned ELSE None]
<1>1. s1[e] \in Entries
  BY DEF DeliveryInv, BoardTyped
<1>2. op \in Operations /\ Del!Answered("refused") \in Operations
  BY <1>1 DEF Operations, Entries, Del!Answered, Del!Args, Del!Engagements, Del!Mine
<1>3. \/ Del!Allowed(kind, arg, e) /\ s3' = s3 \union {op}
      \/ s3' = s3 \union {Del!Answered("refused")}
  BY DEF Del!Reads
<1>4. Del!Answered("refused").phase = "refused"
  BY DEF Del!Answered
<1>5. op.kind = kind /\ op.arg = arg /\ op.on = e /\ op.phase = "read"
  OBVIOUS
<1> HIDE DEF op
<1>6. \A o \in s3' : o.phase = "read" => o \in s3 \/ (o = op /\ Del!Allowed(kind, arg, e))
  BY <1>3, <1>4
<1>7. BoardTyped'
  BY <1>2, <1>3, <1>5, <1>6 DEF DeliveryInv, BoardTyped, Del!Fits
<1>8. DatesAreKept'
  <2>1. Del!Allowed(kind, arg, e) /\ kind \in {"start", "submit", "return"} =>
          s1[e].status \in Del!Active
    BY DEF Del!Allowed, Del!Active, Del!Booked
  <2> QED BY <1>5, <1>6, <2>1 DEF DeliveryInv, DatesAreKept
<1>9. ~s4 => ReadIsStillSo'
  <2> SUFFICES ASSUME ~s4, NEW o \in s3', o.phase = "read"
               PROVE  Del!Allowed(o.kind, o.arg, o.on)'
    BY DEF ReadIsStillSo
  <2>1. Del!Allowed(o.kind, o.arg, o.on)
    BY <1>5, <1>6 DEF DeliveryInv, ReadIsStillSo
  <2> QED BY <2>1 DEF Del!Allowed, Del!has_no_conflict
<1> QED BY <1>7, <1>8, <1>9 DEF DeliveryInv, AssignedIsEngaged, DatesDiffer

-----------------------------------------------------------------------------
(* Writing. An operation writes what it was asked for, unless it is a claim   *)
(* that finds somebody else's (Refused).                                      *)

Refused(op) == op.kind = "claim" /\ s1[op.on].status # "requested"

\* What a write leaves behind.
LEMMA WriteIs ==
  ASSUME NEW op \in s3, Del!Writes(op), ~Refused(op)
  PROVE  /\ s1' = [s1 EXCEPT ![op.on] = Del!Written(op.kind, op.arg, s1[op.on])]
         /\ s2' = Del!Availability(op, s1')
         /\ s3' \subseteq (s3 \ {op}) \union {Del!Answered("done")}
         /\ s4' = (s4 \/ \E other \in s3 \ {op} : other.phase = "read")
         /\ s5' = (s5 \/ op.kind = "return")
         /\ s6' = (s6 \/ \E p \in Del!Pentesters, e \in Del!Engagements :
                      /\ s2[p] = "engaged" /\ s2'[p] = "available"
                      /\ s1'[e].status = "scoping" /\ s1'[e].assigned = p)
         /\ UNCHANGED s7
BY DEF Del!Writes, Refused, Del!workspace

\* The engagement is one again, with dates if it had some.
LEMMA WrittenEntry ==
  ASSUME NEW kind \in Del!Kinds, NEW arg \in Del!Args, Del!Fits(kind, arg), NEW now \in Entries
  PROVE  /\ Del!Written(kind, arg, now) \in Entries
         /\ now.slot # None => Del!Written(kind, arg, now).slot # None
         /\ Del!Written(kind, arg, now).status \in Del!Active =>
              now.status \in Del!Active \/ Del!Written(kind, arg, now).slot # None
                \/ kind \in {"start", "submit", "return"}
<1> USE DEF Del!Kinds, Del!Forms, Del!Fits, Entries, Del!Statuses
<1>1. CASE kind \in {"claim", "scope", "assign", "complete"}
  BY <1>1 DEF Del!Written, Del!Active, Del!Booked
<1>2. CASE kind \in {"schedule", "reschedule"}
  <2>1. arg \in Del!Slots /\ arg # None
    BY <1>2, NobodyIsApart
  <2> QED BY <1>2, <2>1 DEF Del!Written, Del!Active, Del!Booked
<1>3. CASE kind \in {"reassign", "cancel"}
  BY <1>3 DEF Del!Written, Del!Active, Del!Booked
<1>4. CASE kind \in {"start", "return", "submit"}
  BY <1>4 DEF Del!Written, Del!Active, Del!Booked
<1> QED BY <1>1, <1>2, <1>3, <1>4

\* Pentesters stay available or engaged.
LEMMA AvailabilityTyped ==
  ASSUME BoardTyped, NEW op \in Operations, Del!Fits(op.kind, op.arg), op.kind \in Del!Kinds,
         NEW after \in [Del!Engagements -> Entries]
  PROVE  Del!Availability(op, after) \in [Del!Pentesters -> {"available", "engaged"}]
<1>1. CASE op.kind \in {"assign", "reassign"}
  BY <1>1 DEF Del!Availability, BoardTyped
<1>2. CASE op.kind \in {"complete", "cancel"}
  BY <1>2 DEF Del!Availability, BoardTyped, Operations
<1>3. CASE op.kind \notin {"assign", "reassign", "complete", "cancel"}
  BY <1>3 DEF Del!Availability, BoardTyped
<1> QED BY <1>1, <1>2, <1>3

\* Types and dates after a write.
LEMMA WriteTyped ==
  ASSUME DeliveryInv, NEW op \in s3, Del!Writes(op), ~Refused(op)
  PROVE  BoardTyped' /\ DatesAreKept'
<1>1. op \in Operations /\ op.phase = "read" /\ op.kind \in Del!Kinds /\ Del!Fits(op.kind, op.arg)
      /\ op.on \in Del!Engagements /\ op.arg \in Del!Args
  BY DEF Del!Writes, DeliveryInv, BoardTyped, Operations
<1>2. s1 \in [Del!Engagements -> Entries] /\ s1[op.on] \in Entries
  BY <1>1 DEF DeliveryInv, BoardTyped
<1> DEFINE w == Del!Written(op.kind, op.arg, s1[op.on])
<1>3. /\ w \in Entries
      /\ s1[op.on].slot # None => w.slot # None
      /\ w.status \in Del!Active => s1[op.on].status \in Del!Active \/ w.slot # None
                                     \/ op.kind \in {"start", "submit", "return"}
  BY <1>1, <1>2, WrittenEntry
<1>4. s1' = [s1 EXCEPT ![op.on] = w]
  BY WriteIs
<1> HIDE DEF w
<1>5. s1' \in [Del!Engagements -> Entries] /\ s1'[op.on] = w
      /\ \A e \in Del!Engagements : e # op.on => s1'[e] = s1[e]
  BY <1>1, <1>2, <1>3, <1>4
<1>6. \A e \in Del!Engagements : s1[e].slot # None => s1'[e].slot # None
  BY <1>3, <1>5
<1>7. s3' \subseteq s3 \union {Del!Answered("done")} /\ Del!Answered("done") \in Operations
      /\ Del!Answered("done").phase = "done"
  BY WriteIs DEF Del!Answered, Operations, Del!Args, Del!Engagements, Del!Mine
<1>8. BoardTyped'
  <2>1. s2' \in [Del!Pentesters -> {"available", "engaged"}]
    BY <1>1, <1>5, AvailabilityTyped, WriteIs DEF DeliveryInv
  <2> QED BY <1>5, <1>7, <2>1, WriteIs DEF DeliveryInv, BoardTyped, Del!Fits
<1>9. DatesAreKept'
  <2>1. ASSUME NEW e \in Del!Engagements, s1'[e].status \in Del!Active PROVE s1'[e].slot # None
    BY <1>1, <1>3, <1>5, <1>6, <2>1 DEF DeliveryInv, DatesAreKept
  <2>2. ASSUME NEW o \in s3', o.phase = "read", o.kind \in {"start", "submit", "return"}
        PROVE  s1'[o.on].slot # None
    <3>1. o \in s3 /\ o.on \in Del!Engagements
      BY <1>7, <2>2 DEF DeliveryInv, BoardTyped, Operations
    <3> QED BY <1>6, <2>2, <3>1 DEF DeliveryInv, DatesAreKept
  <2> QED BY <2>1, <2>2 DEF DatesAreKept
<1> QED BY <1>8, <1>9

\* When nobody else was between reading and writing, what the operation read is so,
\* and nobody is left whose reading could be out of date.
LEMMA WriteAlone ==
  ASSUME DeliveryInv, NEW op \in s3, Del!Writes(op), ~Refused(op), ~s4'
  PROVE  /\ ~s4 /\ Del!Allowed(op.kind, op.arg, op.on) /\ AssignedIsEngaged
         /\ \A o \in s3' : o.phase # "read"
<1>1. ~s4 /\ \A other \in s3 \ {op} : other.phase # "read"
  BY WriteIs
<1>2. op.phase = "read"
  BY DEF Del!Writes
<1>3. \A o \in s3' : o.phase # "read"
  BY <1>1, WriteIs DEF Del!Answered
<1> QED BY <1>1, <1>2, <1>3 DEF DeliveryInv, ReadIsStillSo

\* Who is assigned after a write was so before, or is what the operation came with.
LEMMA WriteEngaged ==
  ASSUME DeliveryInv, NEW op \in s3, Del!Writes(op), ~Refused(op), ~s4'
  PROVE  AssignedIsEngaged'
<1> DEFINE w == Del!Written(op.kind, op.arg, s1[op.on])
<1>1. /\ op \in Operations /\ op.kind \in Del!Kinds /\ Del!Fits(op.kind, op.arg)
      /\ op.on \in Del!Engagements
      /\ s1 \in [Del!Engagements -> Entries] /\ s1[op.on] \in Entries
      /\ s2 \in [Del!Pentesters -> {"available", "engaged"}]
  BY DEF Del!Writes, DeliveryInv, BoardTyped, Operations
<1>2. ~s4 /\ Del!Allowed(op.kind, op.arg, op.on) /\ AssignedIsEngaged
  BY WriteAlone
<1>3. w \in Entries
  BY <1>1, WrittenEntry DEF Operations
<1>4. s1' = [s1 EXCEPT ![op.on] = w] /\ s2' = Del!Availability(op, s1')
  BY WriteIs
<1>5. /\ w.status = "requested" => w.assigned = None
      /\ w.status \in Del!Active => w.assigned # None
      /\ w.status \in Del!Active => s1[op.on].status \in Del!Active \union {"scoping"}
      /\ w.status = "scoping" => s1[op.on].status = "scoping" \/ w.assigned = None
      /\ op.kind \notin {"assign", "reassign"} => w.assigned = s1[op.on].assigned
      /\ op.kind \in {"assign", "reassign"} => w.assigned = op.arg
  <2> USE DEF Del!Kinds, Del!Forms, Del!Fits, Entries, Del!Statuses, Del!Written, Del!Allowed,
          Del!Active, Del!Booked
  <2>1. op.kind \in {"assign", "reassign"} => op.arg # None
    BY <1>1, NobodyIsApart
  <2>2. CASE op.kind \in {"claim", "scope", "assign", "schedule"}
    BY <1>1, <1>2, <2>1, <2>2 DEF AssignedIsEngaged
  <2>3. CASE op.kind \in {"reassign", "reschedule", "start"}
    BY <1>1, <1>2, <2>1, <2>3 DEF AssignedIsEngaged
  <2>4. CASE op.kind \in {"return", "submit", "complete", "cancel"}
    BY <1>1, <1>2, <2>4 DEF AssignedIsEngaged
  <2> QED BY <1>1, <2>2, <2>3, <2>4
<1> HIDE DEF w
<1>6. s1'[op.on] = w /\ \A e \in Del!Engagements : e # op.on => s1'[e] = s1[e]
  BY <1>1, <1>3, <1>4
<1>7. s1' \in [Del!Engagements -> Entries]
  BY <1>1, <1>3, <1>4
<1>8. s2' \in [Del!Pentesters -> {"available", "engaged"}]
  BY <1>1, <1>4, <1>7, AvailabilityTyped DEF DeliveryInv
<1>9. ASSUME NEW p \in Del!Pentesters, s2'[p] = "available",
             op.kind \in {"assign", "reassign"} => p # op.arg
      PROVE  \/ s2[p] = "available"
             \/ Del!release_pentester_if_idle(p, s1')
  <2>1. CASE op.kind = "assign"
    BY <1>1, <1>4, <1>9, <2>1 DEF Del!Availability
  <2>2. CASE op.kind = "reassign"
    BY <1>1, <1>4, <1>9, <2>2 DEF Del!Availability
  <2>3. CASE op.kind \notin {"assign", "reassign"}
    BY <1>1, <1>4, <1>9, <2>3 DEF Del!Availability
  <2> QED BY <2>1, <2>2, <2>3
<1>10. ASSUME NEW e \in Del!Engagements, s1'[e].status \in Del!Active \union {"scoping"},
              s1'[e].assigned # None, ~s6'
       PROVE  s2'[s1'[e].assigned] = "engaged"
  <2> DEFINE p == s1'[e].assigned
  <2>1. p \in Del!Pentesters
    BY <1>7, <1>10 DEF Entries
  <2> HIDE DEF p
  <2>2. CASE op.kind \in {"assign", "reassign"} /\ p = op.arg
    BY <1>1, <1>4, <2>1, <2>2 DEF Del!Availability, p
  <2>3. CASE op.kind \in {"assign", "reassign"} => p # op.arg
    <3> SUFFICES ASSUME s2'[p] = "available" PROVE FALSE
      BY <1>8, <2>1 DEF p
    <3>1. ~Del!release_pentester_if_idle(p, s1') \/ s1'[e].status = "scoping"
      BY <1>10 DEF Del!release_pentester_if_idle, p
    <3>2. s2[p] = "engaged"
      <4>1. ~s6
        BY <1>10, WriteIs
      <4>2. s1[e].assigned = p /\ s1[e].status \in Del!Active \union {"scoping"}
        BY <1>5, <1>6, <1>10, <2>3 DEF p
      <4> QED BY <1>2, <1>10, <4>1, <4>2 DEF AssignedIsEngaged, p
    <3>3. s1'[e].status # "scoping"
      BY <1>10, <2>1, <3>2, WriteIs DEF p
    <3> QED BY <1>9, <2>1, <2>3, <3>1, <3>2, <3>3
  <2> QED BY <2>2, <2>3 DEF p
<1>11. \A e \in Del!Engagements : /\ s1'[e].status = "requested" => s1'[e].assigned = None
                                  /\ s1'[e].status \in Del!Active => s1'[e].assigned # None
  BY <1>2, <1>5, <1>6 DEF AssignedIsEngaged
<1> QED BY <1>10, <1>11 DEF AssignedIsEngaged

\* Who is booked is checked against the pentester's other engagements, or was booked
\* for the same dates before.
LEMMA WriteBooked ==
  ASSUME DeliveryInv, NEW op \in s3, Del!Writes(op), ~Refused(op), ~s4', ~s5'
  PROVE  DatesDiffer'
<1> DEFINE w == Del!Written(op.kind, op.arg, s1[op.on])
<1>1. /\ op \in Operations /\ op.kind \in Del!Kinds /\ Del!Fits(op.kind, op.arg)
      /\ op.on \in Del!Engagements
      /\ s1 \in [Del!Engagements -> Entries] /\ s1[op.on] \in Entries
  BY DEF Del!Writes, DeliveryInv, BoardTyped, Operations
<1>2. Del!Allowed(op.kind, op.arg, op.on) /\ AssignedIsEngaged
  BY WriteAlone
<1>3. DatesDiffer /\ op.kind # "return"
  BY WriteAlone, WriteIs DEF DeliveryInv
<1>4. w \in Entries
  BY <1>1, WrittenEntry DEF Operations
<1>5. s1' = [s1 EXCEPT ![op.on] = w]
  BY WriteIs
<1>6. w.status \in Del!Booked =>
        \/ Del!has_no_conflict(w.assigned, w.slot, op.on) /\ w.assigned # None
        \/ s1[op.on].status \in Del!Booked /\ w.assigned = s1[op.on].assigned
           /\ w.slot = s1[op.on].slot
  <2> USE DEF Del!Kinds, Del!Forms, Del!Fits, Entries, Del!Statuses, Del!Written, Del!Allowed,
          Del!Booked
  <2>1. CASE op.kind \in {"schedule", "reassign", "reschedule"}
    BY <1>1, <1>2, <2>1, NobodyIsApart DEF AssignedIsEngaged, Del!Active
  <2>2. CASE op.kind \in {"claim", "scope", "assign", "start"}
    BY <1>1, <1>2, <2>2
  <2>3. CASE op.kind \in {"submit", "complete", "cancel"}
    BY <1>1, <1>2, <2>3
  <2> QED BY <1>1, <1>3, <2>1, <2>2, <2>3
<1> HIDE DEF w
<1>7. s1'[op.on] = w /\ \A e \in Del!Engagements : e # op.on => s1'[e] = s1[e]
  BY <1>1, <1>4, <1>5
<1> SUFFICES ASSUME NEW e \in Del!Engagements, NEW other \in Del!Engagements, e # other,
                    s1'[e].status \in Del!Booked, s1'[other].status \in Del!Booked,
                    s1'[e].assigned = s1'[other].assigned
             PROVE  s1'[e].slot # s1'[other].slot
  BY DEF DatesDiffer
<1>8. CASE e # op.on /\ other # op.on
  BY <1>3, <1>7, <1>8 DEF DatesDiffer
<1>9. CASE e = op.on
  BY <1>3, <1>6, <1>7, <1>9 DEF DatesDiffer, Del!has_no_conflict
<1>10. CASE other = op.on
  BY <1>3, <1>6, <1>7, <1>10 DEF DatesDiffer, Del!has_no_conflict
<1> QED BY <1>8, <1>9, <1>10

\* A commit keeps the invariant, also one that is refused.
LEMMA WritesSound ==
  ASSUME DeliveryInv, NEW op \in s3, Del!Writes(op)
  PROVE  DeliveryInv'
<1>1. CASE Refused(op)
  <2>1. /\ s3' = (s3 \ {op}) \union {Del!Answered("refused")}
        /\ UNCHANGED <<s1, s2, s4, s5, s6, s7>>
    BY <1>1 DEF Del!Writes, Refused, Del!workspace
  <2>2. Del!Answered("refused") \in Operations /\ Del!Answered("refused").phase = "refused"
    BY DEF Del!Answered, Operations, Del!Args, Del!Engagements, Del!Mine
  <2>3. BoardTyped' /\ DatesAreKept'
    BY <2>1, <2>2 DEF DeliveryInv, BoardTyped, DatesAreKept, Del!Fits
  <2>4. ReadIsStillSo => ReadIsStillSo'
    <3> SUFFICES ASSUME ReadIsStillSo, NEW o \in s3', o.phase = "read"
                 PROVE  Del!Allowed(o.kind, o.arg, o.on)'
      BY DEF ReadIsStillSo
    <3>1. Del!Allowed(o.kind, o.arg, o.on)
      BY <2>1, <2>2 DEF ReadIsStillSo
    <3> QED BY <2>1, <3>1 DEF Del!Allowed, Del!has_no_conflict
  <2> QED BY <2>1, <2>3, <2>4 DEF DeliveryInv, AssignedIsEngaged, DatesDiffer
<1>2. CASE ~Refused(op)
  <2>1. ~s4' => ReadIsStillSo'
    BY <1>2, WriteAlone DEF ReadIsStillSo
  <2> QED BY <1>2, <2>1, WriteTyped, WriteEngaged, WriteBooked DEF DeliveryInv
<1> QED BY <1>1, <1>2

-----------------------------------------------------------------------------
(* The steps of the workspace, and the theorems.                              *)

\* An operation that is over goes; the board stays.
LEMMA AnswerSound ==
  ASSUME DeliveryInv, s3' \subseteq s3,
         UNCHANGED <<s1, s2, s4, s5, s6>>,
         s7' = s7 \/ s7'.status \in Del!Statuses
  PROVE  DeliveryInv'
<1>1. BoardTyped' /\ DatesAreKept'
  BY DEF DeliveryInv, BoardTyped, DatesAreKept, Del!Fits
<1>2. ReadIsStillSo => ReadIsStillSo'
  <2> SUFFICES ASSUME ReadIsStillSo, NEW o \in s3', o.phase = "read"
               PROVE  Del!Allowed(o.kind, o.arg, o.on)'
    BY DEF ReadIsStillSo
  <2>1. Del!Allowed(o.kind, o.arg, o.on)
    BY DEF ReadIsStillSo
  <2> QED BY <2>1 DEF Del!Allowed, Del!has_no_conflict
<1> QED BY <1>1, <1>2 DEF DeliveryInv, AssignedIsEngaged, DatesDiffer

\* Every step keeps the invariant: of the users, of the answers and of the writes.
LEMMA DeliveryStepSound == DeliveryInv /\ [Del!Next]_Del!dvars => DeliveryInv'
<1> SUFFICES ASSUME DeliveryInv, [Del!Next]_Del!dvars PROVE DeliveryInv'
  OBVIOUS
<1>1. ASSUME NEW kind \in Del!Kinds, NEW arg \in Del!Args, NEW e \in Del!Engagements,
             Del!Fits(kind, arg), Del!Others(kind, arg, e)
      PROVE  DeliveryInv'
  BY <1>1, ReadsSound DEF Del!Others, Del!history, Del!workspace
<1>2. ASSUME NEW kind \in Del!Forms, NEW arg \in Del!Args, Del!Fits(kind, arg),
             Del!Submit(kind, arg)
      PROVE  DeliveryInv'
  BY <1>2, ReadsSound DEF Del!Submit, Del!history, Del!workspace, Del!Kinds, Del!Engagements
<1>3. ASSUME NEW kind \in {"claim", "complete"}, Del!Press(kind) PROVE DeliveryInv'
  <2>1. kind \in Del!Kinds /\ None \in Del!Args /\ Del!Fits(kind, None)
    BY <1>3 DEF Del!Kinds, Del!Args, Del!Fits
  <2> QED BY <1>3, <2>1, ReadsSound DEF Del!Press, Del!history, Del!workspace, Del!Engagements
<1>4. ASSUME NEW op \in s3, Del!Succeeds(op) PROVE DeliveryInv'
  BY <1>4, AnswerSound DEF Del!Succeeds, Del!history
<1>5. ASSUME NEW op \in s3, Del!Fails(op) PROVE DeliveryInv'
  BY <1>5, AnswerSound DEF Del!Fails, Del!history
<1>6. CASE Del!LoadArrives
  <2>1. s7'.status \in Del!Statuses
    BY <1>6 DEF Del!LoadArrives, Del!Detail, DeliveryInv, BoardTyped, Del!Engagements, Entries
  <2> QED BY <1>6, <2>1, AnswerSound DEF Del!LoadArrives, Del!history
<1>7. CASE Del!LoadFails
  BY <1>7, AnswerSound DEF Del!LoadFails, Del!history
<1>8. CASE UNCHANGED Del!dvars
  BY <1>8, AnswerSound DEF Del!dvars
<1>9. \A e \in Del!Engagements : Del!OtherKinds(e) \subseteq Del!Kinds
  BY DEF Del!OtherKinds, Del!Kinds, Del!Forms
<1> QED BY <1>1, <1>2, <1>3, <1>4, <1>5, <1>6, <1>7, <1>8, <1>9, WritesSound DEF Del!Next

\* The invariant holds in every reachable state.
THEOREM DeliverySound == Del!Spec => []DeliveryInv
<1> QED BY DeliveryInit, DeliveryStepSound, PTL DEF Del!Spec

\* Every engagement, pentester and page has one of its values, and what is under way
\* has dates.
THEOREM DeliveryTyped == Del!Spec => []Del!TypeOK
<1>1. DeliveryInv => Del!TypeOK
  BY DEF DeliveryInv, BoardTyped, DatesAreKept, Del!TypeOK, Entries
<1> QED BY <1>1, DeliverySound, PTL

\* No pentester is booked twice for the same days, however many operations read and
\* write - except where two crossed, or an engagement came back from its review.
THEOREM NobodyBookedTwice == Del!Spec => []Del!NoDoubleBooking
<1>1. DeliveryInv => Del!NoDoubleBooking
  <2> SUFFICES ASSUME DeliveryInv, ~s4, ~s5, NEW p \in Del!Pentesters, NEW s \in Del!Slots
               PROVE  Del!Cardinality({e \in Del!Engagements : /\ s1[e].assigned = p
                                                               /\ s1[e].status \in Del!Booked
                                                               /\ s1[e].slot = s}) <= 1
    BY DEF Del!NoDoubleBooking
  <2> DEFINE S == {e \in Del!Engagements : s1[e].assigned = p /\ s1[e].status \in Del!Booked
                                           /\ s1[e].slot = s}
  <2>1. \A e, other \in S : e = other
    BY DEF DeliveryInv, DatesDiffer
  <2>2. S = {} \/ \E e \in S : S = {e}
    BY <2>1
  <2> HIDE DEF S
  <2>3. ASSUME S = {} PROVE Cardinality(S) <= 1
    <3>1. Cardinality({}) = 0
      BY FS_EmptySet
    <3> QED BY <2>3, <3>1
  <2>4. ASSUME NEW e \in S, S = {e} PROVE Cardinality(S) <= 1
    <3>1. Cardinality({e}) = 1
      BY FS_Singleton
    <3> QED BY <2>4, <3>1
  <2>5. Cardinality(S) <= 1
    BY <2>2, <2>3, <2>4
  <2>6. Del!Cardinality(S) = Cardinality(S)
    BY DEF Cardinality, Del!Cardinality
  <2>7. Del!Cardinality(S) <= 1
    BY <2>5, <2>6
  <2> QED BY <2>7 DEF S
<1> QED BY <1>1, DeliverySound, PTL

\* No pentester at work is offered as free, except where two operations crossed, or he
\* was released while another engagement was being scoped for him.
THEOREM EngagedAtWork == Del!Spec => []Del!AtWorkIsEngaged
<1>1. DeliveryInv => Del!AtWorkIsEngaged
  BY DEF DeliveryInv, AssignedIsEngaged, Del!AtWorkIsEngaged
<1> QED BY <1>1, DeliverySound, PTL

-----------------------------------------------------------------------------
(* The check of evidence, for any number of files, workers and findings: s1    *)
(* are the findings, s2 the rows, s3 the objects, s4 the uploads, s5 what a     *)
(* deletion has listed, s6 and s7 what it removes and what it left, s8 what the *)
(* workers are at, s9 and s10 a download. The invariant says what each place    *)
(* that holds a file may hold while the others hold it too.                     *)

\* Only a file that waits for its check is checked, by one worker.
JobsAreSound ==
  /\ \A w \in Workers : s8[w] # Evi!Idle <=> s8[w].file # None
  /\ \A w \in Workers : s8[w] # Evi!Idle => s2[s8[w].file].status = "pending"
  /\ \A w \in Workers : s8[w].verdict = "idle" => s8[w] = Evi!Idle
  /\ \A w \in Workers : s8[w].verdict \in Evi!Verdicts =>
       s8[w].contents \in Evi!Contents /\ s8[w].verdict = Evi!scan_bytes(s8[w].contents)
  /\ Evi!OneCheckAtATime

\* What was found clean has the sum of contents that are, also in a download.
SumsAreSound ==
  /\ \A f \in Files : s2[f].status = "clean" => s2[f].sum \in Evi!Contents \ Evi!Infected
  /\ s9 # Evi!NoDownload => s9.file \in Files /\ s9.sum \in Evi!Contents \ Evi!Infected

\* A file is an upload, then a row with its object, then an object to remove.
FilesAreSound ==
  /\ \A f \in Files : s2[f].status # "none" <=> s2[f].finding # None
  /\ \A f \in Files : s2[f].status # "none" => s4[f].step = "over" /\ f \notin s6
  /\ \A f \in Files : s4[f].step = "stored" => s3[f] # None /\ s4[f].sum # None
  /\ \A f \in Files : s4[f].step \in {"read", "stored"} => s4[f].finding \in Flaws
  /\ \A f \in s6 : s4[f].step = "over"
  /\ \A g \in Flaws : s5[g] # None => \A f \in s5[g] : s2[f].finding = g

EvidenceInv ==
  /\ Evi!TypeOK /\ JobsAreSound /\ SumsAreSound /\ FilesAreSound
  /\ Evi!NothingInfectedIsRead /\ Evi!RowsHaveObjects /\ Evi!NoStrayObject /\ Evi!StopsAfterThree

-----------------------------------------------------------------------------
\* "No value" is not the contents of a file.
LEMMA NoneIsNoContents == None \notin Evi!Contents
BY EvidenceAssumption DEF Evi!Contents

\* At first there is no evidence.
LEMMA EvidenceInit == Evi!Init => EvidenceInv
<1> SUFFICES ASSUME Evi!Init PROVE EvidenceInv
  OBVIOUS
<1>1. PICK old \in SUBSET Files, g \in [Files -> Flaws], contents \in [Files -> Evi!Contents] :
        /\ s2 = [f \in Files |-> IF f \in old THEN Evi!Row(g[f], None) ELSE Evi!NoRow]
        /\ s3 = [f \in Files |-> IF f \in old THEN contents[f] ELSE None]
        /\ s4 = [f \in Files |-> IF f \in old THEN Evi!Over ELSE Evi!Upload("new", None, None)]
  BY DEF Evi!Init
<1>2. /\ s1 = Flaws /\ s5 = [g_1 \in Flaws |-> None] /\ s6 = {} /\ s7 = {}
      /\ s8 = [w \in Workers |-> Evi!Idle] /\ s9 = Evi!NoDownload /\ s10 = None
  BY DEF Evi!Init
<1>3. \A f \in Files : /\ s2[f].status \in {"none", "pending"} /\ s2[f].attempts = 0
                       /\ s4[f].step \in {"new", "over"}
                       /\ s2[f].status = "none" => s2[f].finding = None /\ s3[f] = None
                       /\ s2[f].status = "pending" =>
                            s2[f].finding # None /\ s3[f] # None /\ s4[f].step = "over"
  <2> TAKE f \in Files
  <2>1. CASE f \in old
    <3>1. s2[f] = Evi!Row(g[f], None) /\ s3[f] = contents[f] /\ s4[f] = Evi!Over
      BY <1>1, <2>1
    <3>2. g[f] # None /\ contents[f] # None
      BY EvidenceAssumption, NoneIsNoContents
    <3> QED BY <3>1, <3>2 DEF Evi!Row, Evi!Over, Evi!Upload
  <2>2. CASE f \notin old
    BY <1>1, <2>2 DEF Evi!NoRow, Evi!Upload
  <2> QED BY <2>1, <2>2
<1>4. Evi!TypeOK
  <2>1. /\ s2 \in [Files -> Evi!EvidenceRows]
        /\ s3 \in [Files -> Evi!Contents \union {None}]
        /\ s4 \in [Files -> Evi!Uploads]
    BY <1>1 DEF Evi!EvidenceRows, Evi!Uploads, Evi!Row, Evi!NoRow, Evi!Over, Evi!Upload,
       Evi!Statuses, Evi!MaxAttempts
  <2>2. s8 \in [Workers -> Evi!Jobs]
    BY <1>2 DEF Evi!Jobs, Evi!Job, Evi!Idle
  <2>3. s9 \in Evi!Downloads
    BY <1>2 DEF Evi!Downloads, Evi!NoDownload
  <2> QED BY <1>2, <2>1, <2>2, <2>3 DEF Evi!TypeOK
<1>5. JobsAreSound
  BY <1>2, EvidenceAssumption, NoneIsNoContents DEF JobsAreSound, Evi!OneCheckAtATime, Evi!Idle,
     Evi!Job, Evi!Verdicts
<1>6. SumsAreSound
  BY <1>2, <1>3 DEF SumsAreSound
<1>7. FilesAreSound
  BY <1>2, <1>3 DEF FilesAreSound
<1>8. Evi!NothingInfectedIsRead
  BY <1>2, NoneIsNoContents DEF Evi!NothingInfectedIsRead, Evi!Infected, Evi!Contents
<1>9. Evi!RowsHaveObjects /\ Evi!NoStrayObject /\ Evi!StopsAfterThree
  BY <1>3 DEF Evi!RowsHaveObjects, Evi!NoStrayObject, Evi!StopsAfterThree, Evi!MaxAttempts
<1> QED BY <1>4, <1>5, <1>6, <1>7, <1>8, <1>9 DEF EvidenceInv

-----------------------------------------------------------------------------
(* The requests about a finding.                                             *)

\* The steps of an upload: the object, the row, the answer.
LEMMA UploadSound ==
  ASSUME EvidenceInv, NEW f \in Files, Evi!UploadStep(f)
  PROVE  EvidenceInv'
<1> USE NoneIsNoContents, EvidenceAssumption
    DEF EvidenceInv, Evi!TypeOK, JobsAreSound, SumsAreSound, FilesAreSound, Evi!OneCheckAtATime,
        Evi!NothingInfectedIsRead, Evi!RowsHaveObjects, Evi!NoStrayObject, Evi!StopsAfterThree,
        Evi!deletion, Evi!reading, Evi!Over, Evi!Upload,
        Evi!EvidenceRows, Evi!Uploads
<1>1. ASSUME NEW g \in Flaws, Evi!require_evidence_upload_access(f, g) PROVE EvidenceInv'
  BY <1>1 DEF Evi!require_evidence_upload_access
<1>2. CASE Evi!store(f)
  BY <1>2 DEF Evi!store
<1>3. CASE Evi!register_evidence(f)
  BY <1>3 DEF Evi!register_evidence, Evi!Row, Evi!Statuses, Evi!MaxAttempts
<1>4. CASE Evi!UploadFails(f)
  BY <1>4 DEF Evi!UploadFails
<1>5. CASE Evi!CleanupFails(f)
  BY <1>5 DEF Evi!CleanupFails
<1> QED BY <1>1, <1>2, <1>3, <1>4, <1>5 DEF Evi!UploadStep

\* The steps of a deletion: the rows first, the objects after them.
LEMMA DeletionSound ==
  ASSUME EvidenceInv, Evi!DeletionStep
  PROVE  EvidenceInv'
<1> USE NoneIsNoContents, EvidenceAssumption
    DEF EvidenceInv, Evi!TypeOK, JobsAreSound, SumsAreSound, FilesAreSound, Evi!OneCheckAtATime,
        Evi!NothingInfectedIsRead, Evi!RowsHaveObjects, Evi!NoStrayObject, Evi!StopsAfterThree,
        Evi!stored, Evi!reading, Evi!EvidenceRows,
        Evi!Uploads, Evi!FilesOf, Evi!Unlocked, Evi!NoRow, Evi!Statuses, Evi!MaxAttempts
<1>1. ASSUME NEW g \in Flaws, Evi!require_editable_finding(g) PROVE EvidenceInv'
  BY <1>1 DEF Evi!require_editable_finding
<1>2. ASSUME NEW g \in Flaws, Evi!delete_manual_finding(g) PROVE EvidenceInv'
  <2>1. /\ s1' = s1 \ {g} /\ s6' = s6 \union s5[g]
        /\ s7' = s7 \union (Evi!FilesOf(g) \ s5[g])
        /\ s5' = [s5 EXCEPT ![g] = None]
        /\ UNCHANGED <<s3, s4, s8, s9, s10>>
    BY <1>2 DEF Evi!delete_manual_finding
  <2>2. \A f \in Files : s2'[f] = IF s2[f].finding = g THEN Evi!NoRow ELSE s2[f]
    BY <1>2 DEF Evi!delete_manual_finding
  <2>3. s5[g] \subseteq Files /\ \A f \in s5[g] : s2[f].finding = g
    BY <1>2 DEF Evi!delete_manual_finding
  <2>4. Evi!TypeOK'
    <3>1. Evi!NoRow \in Evi!EvidenceRows
      OBVIOUS
    <3>2. s2' \in [Files -> Evi!EvidenceRows]
      BY <1>2, <3>1 DEF Evi!delete_manual_finding
    <3> QED BY <2>1, <2>3, <3>2
  <2>5. JobsAreSound'
    <3>1. \A w \in Workers : s8[w] # Evi!Idle =>
            s8[w].file \in Files /\ s2[s8[w].file].finding # g
      BY <1>2 DEF Evi!delete_manual_finding, Evi!Jobs
    <3> QED BY <2>1, <2>2, <3>1
  <2>6. SumsAreSound'
    BY <2>1, <2>2
  <2>7. FilesAreSound'
    BY <2>1, <2>2, <2>3
  <2>8. Evi!NothingInfectedIsRead' /\ Evi!RowsHaveObjects' /\ Evi!NoStrayObject'
        /\ Evi!StopsAfterThree'
    BY <2>1, <2>2
  <2> QED BY <2>4, <2>5, <2>6, <2>7, <2>8
<1>3. ASSUME NEW g \in Flaws, Evi!DeletionFails(g) PROVE EvidenceInv'
  BY <1>3 DEF Evi!DeletionFails
<1>4. ASSUME NEW f \in Files, Evi!remove_evidence_objects(f) PROVE EvidenceInv'
  BY <1>4 DEF Evi!remove_evidence_objects
<1> QED BY <1>1, <1>2, <1>3, <1>4 DEF Evi!DeletionStep

-----------------------------------------------------------------------------
(* The tasks.                                                                *)

\* The row that process_one writes: three checks at most, and clean is clean.
LEMMA CheckedRow ==
  ASSUME NEW row \in Evi!EvidenceRows, row.status = "pending", row.attempts < Evi!MaxAttempts,
         NEW done, done.verdict = "error" \/ ( /\ done.verdict \in Evi!Verdicts
                                              /\ done.contents \in Evi!Contents
                                              /\ done.verdict = Evi!scan_bytes(done.contents) )
  PROVE  LET new == Evi!Checked(row, done) IN
         /\ new \in Evi!EvidenceRows /\ new.finding = row.finding
         /\ new.status \in {"pending", "failed"} \union Evi!Verdicts
         /\ new.status = "clean" => new.sum \in Evi!Contents \ Evi!Infected
         /\ new.status = "pending" => new.attempts < Evi!MaxAttempts
<1> DEFINE new == Evi!Checked(row, done)
<1>1. row.attempts + 1 \in 0..Evi!MaxAttempts
  BY DEF Evi!EvidenceRows, Evi!MaxAttempts
<1>2. CASE done.verdict = "error"
  <2>1. new = [row EXCEPT !.attempts = row.attempts + 1, !.due = FALSE,
                          !.status = IF row.attempts + 1 >= Evi!MaxAttempts THEN "failed"
                                     ELSE "pending"]
    BY <1>2 DEF Evi!Checked
  <2>2. CASE row.attempts + 1 >= Evi!MaxAttempts
    BY <1>1, <2>1, <2>2 DEF Evi!EvidenceRows, Evi!Statuses, Evi!Verdicts
  <2>3. CASE ~(row.attempts + 1 >= Evi!MaxAttempts)
    <3>1. new = [row EXCEPT !.attempts = row.attempts + 1, !.due = FALSE, !.status = "pending"]
      BY <2>1, <2>3
    <3>2. row.attempts + 1 < Evi!MaxAttempts
      BY <1>1, <2>3 DEF Evi!MaxAttempts
    <3> QED BY <1>1, <3>1, <3>2 DEF Evi!EvidenceRows, Evi!Statuses, Evi!Verdicts
  <2> QED BY <2>2, <2>3
<1>3. CASE done.verdict # "error"
  <2>1. new = [row EXCEPT !.attempts = row.attempts + 1, !.due = FALSE,
                          !.status = done.verdict, !.sum = done.contents]
    BY <1>3 DEF Evi!Checked
  <2>2. done.verdict = "clean" => done.contents \notin Evi!Infected
    BY <1>3 DEF Evi!scan_bytes
  <2> QED BY <1>1, <1>3, <2>1, <2>2 DEF Evi!EvidenceRows, Evi!Statuses, Evi!Verdicts
<1> QED BY <1>2, <1>3

\* The steps of a worker that checks a file, and its end.
LEMMA WorkerSound ==
  ASSUME EvidenceInv, NEW w \in Workers, Evi!WorkerStep(w)
  PROVE  EvidenceInv'
<1> USE NoneIsNoContents, EvidenceAssumption
    DEF EvidenceInv, Evi!TypeOK, JobsAreSound, SumsAreSound, FilesAreSound, Evi!OneCheckAtATime,
        Evi!NothingInfectedIsRead, Evi!RowsHaveObjects, Evi!NoStrayObject, Evi!StopsAfterThree,
        Evi!stored, Evi!deletion, Evi!reading,
        Evi!EvidenceRows, Evi!Uploads, Evi!Jobs, Evi!Job, Evi!Idle, Evi!Statuses, Evi!Verdicts,
        Evi!MaxAttempts
<1>1. ASSUME NEW f \in Files, Evi!Take(w, f) PROVE EvidenceInv'
  BY <1>1 DEF Evi!Take, Evi!Due, Evi!Unlocked
<1>2. CASE Evi!Check(w)
  <2>1. s8[w] \in Evi!Jobs /\ s8[w] # Evi!Idle /\ s8[w].file \in Files
    BY <1>2 DEF Evi!Check
  <2>2. PICK c \in Evi!Contents \union {None}, v \in Evi!Verdicts \union {"error"} :
          /\ s8' = [s8 EXCEPT ![w] = Evi!Job(s8[w].file, c, v)]
          /\ v # "error" => c \in Evi!Contents /\ v = Evi!scan_bytes(c)
    <3>1. CASE /\ Evi!Readable(s8[w].file, s2[s8[w].file].sum)
               /\ s8' = [s8 EXCEPT ![w] = Evi!Job(s8[w].file, s3[s8[w].file],
                                                  Evi!scan_bytes(s3[s8[w].file]))]
      <4>1. s3[s8[w].file] \in Evi!Contents
        BY <2>1, <3>1 DEF Evi!Readable
      <4> QED BY <3>1, <4>1 DEF Evi!scan_bytes
    <3>2. CASE s8' = [s8 EXCEPT ![w] = Evi!Job(s8[w].file, None, "error")]
      BY <3>2
    <3> QED BY <1>2, <3>1, <3>2 DEF Evi!Check
  <2>3. UNCHANGED <<s1, s2, s3, s4, s5, s6, s7, s9, s10>>
    BY <1>2 DEF Evi!Check
  <2>4. Evi!TypeOK'
    <3>1. s8' \in [Workers -> Evi!Jobs]
      BY <2>1, <2>2
    <3> QED BY <2>3, <3>1
  <2>5. JobsAreSound'
    BY <2>1, <2>2, <2>3
  <2> QED BY <2>3, <2>4, <2>5
<1>3. CASE Evi!process_one(w)
  <2>1. s8[w] \in Evi!Jobs /\ s8[w] # Evi!Idle /\ s8[w].file \in Files
    BY <1>3 DEF Evi!process_one
  <2>2. PICK f \in Files : f = s8[w].file
    BY <2>1
  <2>3. s2[f] \in Evi!EvidenceRows /\ s2[f].status = "pending" /\ s2[f].attempts < Evi!MaxAttempts
    BY <2>1, <2>2
  <2> DEFINE row == Evi!Checked(s2[f], s8[w])
  <2>4. /\ row \in Evi!EvidenceRows /\ row.finding = s2[f].finding
        /\ row.status \in {"pending", "failed"} \union Evi!Verdicts
        /\ row.status = "clean" => row.sum \in Evi!Contents \ Evi!Infected
        /\ row.status = "pending" => row.attempts < Evi!MaxAttempts
    <3>1. s8[w].verdict = "error" \/ ( /\ s8[w].verdict \in Evi!Verdicts
                                       /\ s8[w].contents \in Evi!Contents
                                       /\ s8[w].verdict = Evi!scan_bytes(s8[w].contents) )
      BY <1>3 DEF Evi!process_one
    <3> QED BY <2>3, <3>1, CheckedRow
  <2>5. /\ s2' = [s2 EXCEPT ![f] = row] /\ s8' = [s8 EXCEPT ![w] = Evi!Idle]
        /\ UNCHANGED <<s1, s3, s4, s5, s6, s7, s9, s10>>
    BY <1>3, <2>2 DEF Evi!process_one
  <2> HIDE DEF row
  <2>6. Evi!TypeOK'
    BY <2>4, <2>5
  <2>7. JobsAreSound'
    BY <2>2, <2>4, <2>5
  <2>8. SumsAreSound' /\ Evi!NothingInfectedIsRead'
    BY <2>4, <2>5
  <2>9. FilesAreSound' /\ Evi!RowsHaveObjects' /\ Evi!NoStrayObject' /\ Evi!StopsAfterThree'
    BY <2>3, <2>4, <2>5
  <2> QED BY <2>6, <2>7, <2>8, <2>9
<1>4. CASE Evi!WorkerDies(w)
  BY <1>4 DEF Evi!WorkerDies
<1> QED BY <1>1, <1>2, <1>3, <1>4 DEF Evi!WorkerStep

\* A file becomes due, is to be checked again, is asked for, or its object is
\* replaced.
LEMMA FileSound ==
  ASSUME EvidenceInv, NEW f \in Files, Evi!FileStep(f)
  PROVE  EvidenceInv'
<1> USE NoneIsNoContents, EvidenceAssumption
    DEF EvidenceInv, Evi!TypeOK, JobsAreSound, SumsAreSound, FilesAreSound, Evi!OneCheckAtATime,
        Evi!NothingInfectedIsRead, Evi!RowsHaveObjects, Evi!NoStrayObject, Evi!StopsAfterThree,
        Evi!stored, Evi!deletion, Evi!reading,
        Evi!EvidenceRows, Evi!Statuses, Evi!MaxAttempts, Evi!Downloads, Evi!NoDownload
<1>1. CASE Evi!BecomesDue(f)
  <2>1. s2[f] \in Evi!EvidenceRows /\ s2[f].status = "pending"
    BY <1>1 DEF Evi!BecomesDue
  <2>2. s2' = [s2 EXCEPT ![f] = [s2[f] EXCEPT !.due = TRUE]]
    BY <1>1 DEF Evi!BecomesDue
  <2>3. /\ s2' \in [Files -> Evi!EvidenceRows]
        /\ \A x \in Files : /\ s2'[x].finding = s2[x].finding
                            /\ s2'[x].status = s2[x].status
                            /\ s2'[x].attempts = s2[x].attempts
                            /\ s2'[x].sum = s2[x].sum
    BY <2>1, <2>2
  <2>4. UNCHANGED <<s1, s3, s4, s5, s6, s7, s8, s9, s10>>
    BY <1>1 DEF Evi!BecomesDue
  <2>5. JobsAreSound'
    <3>1. \A v \in Workers : s8[v] # Evi!Idle => s8[v].file \in Files
      BY DEF Evi!Jobs
    <3> QED BY <2>3, <2>4, <3>1
  <2> QED BY <2>3, <2>4, <2>5
<1>2. CASE Evi!retry(f)
  BY <1>2 DEF Evi!retry, Evi!Row
<1>3. CASE Evi!get_evidence_for_download(f)
  BY <1>3 DEF Evi!get_evidence_for_download, Evi!require_clean
<1>4. CASE Evi!Replaced(f)
  BY <1>4 DEF Evi!Replaced
<1> QED BY <1>1, <1>2, <1>3, <1>4 DEF Evi!FileStep

\* A download is delivered.
LEMMA DownloadSound ==
  ASSUME EvidenceInv, Evi!Delivered
  PROVE  EvidenceInv'
BY NoneIsNoContents DEF EvidenceInv, Evi!TypeOK, JobsAreSound, SumsAreSound, FilesAreSound,
   Evi!OneCheckAtATime, Evi!NothingInfectedIsRead, Evi!RowsHaveObjects, Evi!NoStrayObject,
   Evi!StopsAfterThree, Evi!stored, Evi!deletion, Evi!Delivered, Evi!Readable, Evi!Downloads,
   Evi!NoDownload, Evi!Contents, Evi!Infected

\* A step that leaves the variables alone leaves the invariant alone.
LEMMA EvidenceStutters ==
  ASSUME EvidenceInv, UNCHANGED <<Evi!qvars, clicks, faults>>
  PROVE  EvidenceInv'
BY DEF EvidenceInv, Evi!TypeOK, JobsAreSound, SumsAreSound, FilesAreSound, Evi!OneCheckAtATime,
   Evi!NothingInfectedIsRead, Evi!RowsHaveObjects, Evi!NoStrayObject, Evi!StopsAfterThree, Evi!qvars

\* The invariant holds in every reachable state.
THEOREM EvidenceSound == Evi!Spec => []EvidenceInv
<1>1. EvidenceInv /\ [Evi!Next]_<<Evi!qvars, clicks, faults>> => EvidenceInv'
  BY UploadSound, DeletionSound, WorkerSound, FileSound, DownloadSound, EvidenceStutters
     DEF Evi!Next
<1> QED BY <1>1, EvidenceInit, PTL DEF Evi!Spec

\* Nothing infected is ever delivered, no file is checked twice at a time, checks
\* come to an end by themselves, rows have their objects and objects a row or
\* somebody who removes them: whatever dies, fails, is replaced or deleted, in
\* whatever order.
THEOREM EvidenceIsSafe == Evi!Spec => []Evi!EvidenceIsChecked
<1>1. EvidenceInv => Evi!EvidenceIsChecked
  BY DEF EvidenceInv, JobsAreSound, Evi!EvidenceIsChecked
<1> QED BY <1>1, EvidenceSound, PTL

-----------------------------------------------------------------------------
(* EvidenceQuarantine implements EvidenceStatus.                             *)

\* The initial states are those of EvidenceStatus.
LEMMA InitPromised == Evi!Init => Evi!Promise!StatusInit
<1> SUFFICES ASSUME Evi!Init PROVE Evi!Seen \in [Files -> {"none", "pending"}]
  BY DEF Evi!Promise!StatusInit, Evi!Seen
<1> QED BY DEF Evi!Init, Evi!Row, Evi!NoRow, Evi!Seen

\* A step that changes no status is none for the users.
LEMMA NothingSeen ==
  ASSUME \A f \in Files : s2'[f].status = s2[f].status
  PROVE  Evi!Seen' = Evi!Seen
BY DEF Evi!Seen

\* Every step is one of EvidenceStatus, or its readers notice nothing.
LEMMA StepPromised ==
  ASSUME EvidenceInv, [Evi!Next]_<<Evi!qvars, clicks, faults>>
  PROVE  Evi!Promise!StatusNext \/ Evi!Seen' = Evi!Seen
<1> USE DEF Evi!Promise!StatusNext, Evi!Promise!Verdicts
<1>0. s2 \in [Files -> Evi!EvidenceRows]
  BY DEF EvidenceInv, Evi!TypeOK
<1>1. ASSUME NEW f \in Files, Evi!register_evidence(f) PROVE Evi!Promise!StatusNext
  <2>1. s2[f].status = "none"
    BY <1>1 DEF Evi!register_evidence, EvidenceInv, FilesAreSound
  <2>2. Evi!Seen' = [Evi!Seen EXCEPT ![f] = "pending"]
    BY <1>0, <1>1 DEF Evi!register_evidence, Evi!Row, Evi!Seen
  <2> QED BY <2>1, <2>2 DEF Evi!Promise!Uploaded, Evi!Seen
<1>2. ASSUME NEW f \in Files, Evi!retry(f) PROVE Evi!Promise!StatusNext
  <2>1. Evi!Seen' = [Evi!Seen EXCEPT ![f] = "pending"]
    BY <1>0, <1>2 DEF Evi!retry, Evi!Row, Evi!Seen
  <2> QED BY <1>2, <2>1 DEF Evi!retry, Evi!Promise!RetryRequested, Evi!Seen
<1>3. ASSUME NEW f \in Files, Evi!BecomesDue(f) PROVE Evi!Seen' = Evi!Seen
  BY <1>0, <1>3, NothingSeen DEF Evi!BecomesDue, Evi!EvidenceRows
<1>4. ASSUME NEW g \in Flaws, Evi!delete_manual_finding(g) PROVE Evi!Promise!StatusNext
  <2>1. Evi!Seen' = [f \in Files |-> IF f \in Evi!FilesOf(g) THEN "none" ELSE Evi!Seen[f]]
    BY <1>4 DEF Evi!delete_manual_finding, Evi!FilesOf, Evi!NoRow, Evi!Seen
  <2> QED BY <2>1 DEF Evi!Promise!Deleted, Evi!FilesOf, Evi!Seen
<1>5. ASSUME NEW w \in Workers, Evi!process_one(w)
      PROVE Evi!Promise!StatusNext \/ Evi!Seen' = Evi!Seen
  <2>1. PICK f \in Files : f = s8[w].file /\ s2[f].status = "pending"
    BY <1>5 DEF Evi!process_one, EvidenceInv, Evi!TypeOK, JobsAreSound, Evi!Jobs, Evi!Idle,
       Evi!Job, Evi!Verdicts
  <2>2. s8[w].verdict = "error" \/ ( /\ s8[w].verdict \in Evi!Verdicts
                                     /\ s8[w].contents \in Evi!Contents
                                     /\ s8[w].verdict = Evi!scan_bytes(s8[w].contents) )
    BY <1>5 DEF Evi!process_one, EvidenceInv, JobsAreSound
  <2>3. s2[f] \in Evi!EvidenceRows /\ s2[f].attempts < Evi!MaxAttempts
    BY <1>0, <2>1 DEF EvidenceInv, Evi!StopsAfterThree
  <2>4. Evi!Checked(s2[f], s8[w]).status \in {"pending", "failed"} \union Evi!Verdicts
    BY <2>1, <2>2, <2>3, CheckedRow
  <2>5. Evi!Seen' = [Evi!Seen EXCEPT ![f] = Evi!Checked(s2[f], s8[w]).status]
    BY <1>0, <1>5, <2>1 DEF Evi!process_one, Evi!Seen
  <2>6. Evi!Seen[f] = "pending"
    BY <2>1 DEF Evi!Seen
  <2>7. CASE Evi!Checked(s2[f], s8[w]).status = "pending"
    BY <2>5, <2>6, <2>7 DEF Evi!Seen
  <2>8. CASE Evi!Checked(s2[f], s8[w]).status # "pending"
    BY <2>4, <2>5, <2>6, <2>8 DEF Evi!Promise!Decided, Evi!Seen, Evi!Verdicts
  <2> QED BY <2>7, <2>8
<1>6. ASSUME UNCHANGED s2 PROVE Evi!Seen' = Evi!Seen
  BY <1>6 DEF Evi!Seen
<1>7. ASSUME NEW f \in Files, Evi!UploadStep(f) PROVE Evi!register_evidence(f) \/ UNCHANGED s2
  BY <1>7 DEF Evi!UploadStep, Evi!require_evidence_upload_access, Evi!store, Evi!UploadFails,
     Evi!CleanupFails
<1>8. ASSUME Evi!DeletionStep
      PROVE  (\E g \in Flaws : Evi!delete_manual_finding(g)) \/ UNCHANGED s2
  BY <1>8 DEF Evi!DeletionStep, Evi!require_editable_finding, Evi!DeletionFails,
     Evi!remove_evidence_objects
<1>9. ASSUME NEW w \in Workers, Evi!WorkerStep(w) PROVE Evi!process_one(w) \/ UNCHANGED s2
  BY <1>9 DEF Evi!WorkerStep, Evi!Take, Evi!Check, Evi!WorkerDies
<1>10. ASSUME NEW f \in Files, Evi!FileStep(f)
       PROVE  Evi!BecomesDue(f) \/ Evi!retry(f) \/ UNCHANGED s2
  BY <1>10 DEF Evi!FileStep, Evi!get_evidence_for_download, Evi!Replaced
<1>11. ASSUME Evi!Delivered \/ UNCHANGED <<Evi!qvars, clicks, faults>> PROVE UNCHANGED s2
  BY <1>11 DEF Evi!Delivered, Evi!qvars
<1> QED
  BY <1>1, <1>2, <1>3, <1>4, <1>5, <1>6, <1>7, <1>8, <1>9, <1>10, <1>11 DEF Evi!Next

\* The tasks and the requests behind the evidence keep what its users rely on.
THEOREM PromiseKept == Evi!Spec => Evi!KeepsPromise
<1>1. EvidenceInv /\ [Evi!Next]_<<Evi!qvars, clicks, faults>> => [Evi!Promise!StatusNext]_Evi!Seen
  BY StepPromised
<1> QED BY <1>1, InitPromised, EvidenceSound, PTL DEF Evi!Spec, Evi!KeepsPromise,
   Evi!Promise!StatusSpec, Evi!Seen

-----------------------------------------------------------------------------
(* The report of an engagement: s1 is its phase, s2 and s3 the editions of its *)
(* findings and its submissions, s4 and s5 the row and the PDF, s6 and s7 what  *)
(* generates and renders, s8 the retries, s9 the review, s10 the e-mail, s11 to *)
(* s15 what has happened. There is one row and one PDF for everything that      *)
(* generates, so most of the invariant speaks of the time before submissions    *)
(* and retries met (s13): what generates is alone, and the row says how far it  *)
(* is. That somebody is there to conclude a report holds always, unless a       *)
(* process was lost.                                                            *)

\* What a request that generates knows of the row.
CopiesAreSound ==
  /\ \A g \in s6 : g.step = "asked" => g.copy = None
  /\ \A g \in s6 : g.step = "marked" => g.copy = "generating"
  /\ s4 = None => s7 = {} /\ \A g \in s6 : g.copy = None

\* These see to it that the row does not stay as it is: their answer replaces it.
Concluding == {g \in s6 : g.step # "asked" /\ g.copy # None}

SomebodyConcludes ==
  /\ s1 = "review" => s3 > 0
  /\ s4 = "generating" /\ ~s15 => Concluding # {} \/ s7 # {}
  /\ s4 = None /\ s3 > 0 /\ ~s15 => s6 # {}

Alone ==
  /\ \A g, h \in s6 : g = h
  /\ \A t, u \in s7 : t = u
  /\ s6 = {} \/ s7 = {}

\* The row says how far what generates is.
RowFollows ==
  /\ \A g \in s6 : /\ g.step = "read" => g.copy = s4
                   /\ g.step = "marked" => s4 = "generating"
  /\ s11 /\ s4 \in {"completed", "failed"} => s6 = {}
  /\ \A t \in s7 : /\ t.step = "queued" => s4 = "generating"
                   /\ s4 \in {"generating", "completed"}
                   /\ t.step = "stored" => s5 = t.edition

\* Once submitted, the findings stay, and what is rendered is theirs.
EditionsAgree ==
  s1 \in {"review", "completed"} =>
    /\ \A t \in s7 : t.edition = s2
    /\ s11 /\ s4 = "completed" => s5 = s2

\* The report that complete_review found is still there, as long as nobody submits again.
ReviewIsSound ==
  /\ s9 # None => s9 <= s3
  /\ s9 = s3 /\ ~s12 => s11 /\ s4 = "completed"

\* A completed engagement stays so; its report was found.
CompletedIsSound ==
  s1 = "completed" /\ ~s12 => /\ s11 /\ s4 = "completed"
                              /\ s10 \in {None, 0, s2}

ReportsInv ==
  /\ Eng!TypeOK /\ CopiesAreSound /\ SomebodyConcludes
  /\ s10 # None => s1 = "completed"
  /\ ~s13 => Alone /\ RowFollows /\ ReviewIsSound
  /\ ~s13 /\ ~s14 => EditionsAgree /\ CompletedIsSound

-----------------------------------------------------------------------------
\* "No value" is neither a number nor a status.
LEMMA NoneIsNoReport == None \notin Int \union Eng!ReportStatuses
BY NoneAssumption DEF Eng!ReportStatuses

\* What a request that generates, and what a task is.
LEMMA GenerationIs ==
  ASSUME NEW id, NEW step, NEW copy
  PROVE  /\ Eng!Generation(id, step, copy).id = id /\ Eng!Generation(id, step, copy).step = step
         /\ Eng!Generation(id, step, copy).copy = copy
         /\ id \in Eng!Ids /\ step \in {"asked", "read", "marked"}
              /\ copy \in Eng!ReportStatuses \union {None} =>
                   Eng!Generation(id, step, copy) \in Eng!Generations
BY DEF Eng!Generation, Eng!Generations

\* The fields of a rendering, and when it is one.
LEMMA RenderingIs ==
  ASSUME NEW id, NEW edition, NEW step
  PROVE  /\ Eng!Rendering(id, edition, step).id = id
         /\ Eng!Rendering(id, edition, step).edition = edition
         /\ Eng!Rendering(id, edition, step).step = step
         /\ id \in Eng!Ids /\ step \in {"queued", "stored", "failing"}
              /\ edition \in Eng!Editions => Eng!Rendering(id, edition, step) \in Eng!Renderings
BY DEF Eng!Rendering, Eng!Renderings

\* What is known of generations and renderings from their type alone.
LEMMA Shapes ==
  Eng!TypeOK => /\ \A g \in s6 : /\ g.id \in Eng!Ids /\ g.step \in {"asked", "read", "marked"}
                                 /\ g.copy \in Eng!ReportStatuses \union {None}
                /\ \A t \in s7 : /\ t.id \in Eng!Ids /\ t.edition \in Eng!Editions
                                 /\ t.step \in {"queued", "stored", "failing"}
BY DEF Eng!TypeOK, Eng!Generations, Eng!Renderings

\* At first nothing is submitted and nothing generates.
LEMMA ReportsInit == Eng!Init => ReportsInv
<1> SUFFICES ASSUME Eng!Init PROVE ReportsInv
  OBVIOUS
<1> USE NoneIsNoReport DEF Eng!Init, Eng!ReportStatuses
<1>1. Eng!TypeOK
  <2>1. \A flag \in {s11, s12, s13, s14, s15} : flag \in BOOLEAN
    OBVIOUS
  <2> QED BY <2>1, FaultsAssumption DEF Eng!TypeOK, Eng!Phases, Eng!Editions, Eng!MaxSubmissions
<1>2. CopiesAreSound /\ SomebodyConcludes /\ (s10 # None => s1 = "completed")
  BY DEF CopiesAreSound, SomebodyConcludes
<1>3. Alone /\ RowFollows /\ ReviewIsSound
  BY DEF Alone, RowFollows, ReviewIsSound
<1>4. EditionsAgree /\ CompletedIsSound
  BY DEF EditionsAgree, CompletedIsSound
<1> QED BY <1>1, <1>2, <1>3, <1>4 DEF ReportsInv

\* The tuples that the steps leave alone.
USE DEF Eng!engagement, Eng!stored, Eng!requests, Eng!history

-----------------------------------------------------------------------------
(* The pentester.                                                             *)

\* The findings change only before they are submitted.
LEMMA EditSound ==
  ASSUME ReportsInv, Eng!EditFindings
  PROVE  ReportsInv'
<1> USE NoneIsNoReport, GenerationIs, RenderingIs, Shapes DEF ReportsInv, Eng!ReportStatuses,
        Eng!EditFindings
<1>1. Eng!TypeOK'
  BY DEF Eng!TypeOK, Eng!Editions, Eng!MaxSubmissions
<1>2. CopiesAreSound' /\ SomebodyConcludes' /\ (s10 # None => s1 = "completed")'
  BY DEF Eng!TypeOK, CopiesAreSound, SomebodyConcludes, Concluding
<1>3. /\ (~s13 => Alone /\ RowFollows /\ ReviewIsSound)'
      /\ (~s13 /\ ~s14 => EditionsAgree /\ CompletedIsSound)'
  BY DEF Eng!TypeOK, CopiesAreSound, Alone, RowFollows, ReviewIsSound, EditionsAgree,
     CompletedIsSound
<1> QED BY <1>1, <1>2, <1>3

\* A submission that meets nothing under way is alone, and the row is not its own yet.
LEMMA SubmitSound ==
  ASSUME ReportsInv, Eng!submit_for_review
  PROVE  ReportsInv'
<1> USE DEF ReportsInv, Eng!ReportStatuses
<1> DEFINE new == Eng!Generation(<<"submission", s3'>>, "asked", None)
<1>1. Eng!TypeOK'
  <2>1. \A flag \in {s11', s12', s13', s14', s15'} : flag \in BOOLEAN
    BY DEF Eng!TypeOK, Eng!submit_for_review
  <2>2. s3' \in 0..Eng!MaxSubmissions /\ s1' \in Eng!Phases
    BY DEF Eng!TypeOK, Eng!submit_for_review, Eng!MaxSubmissions, Eng!Phases
  <2>3. <<"submission", s3'>> \in Eng!Ids
    BY <2>2, FaultsAssumption DEF Eng!Ids, Eng!MaxSubmissions
  <2>4. s6' \subseteq Eng!Generations
    BY <2>3, GenerationIs DEF Eng!TypeOK, Eng!submit_for_review
  <2> QED BY <2>1, <2>2, <2>4 DEF Eng!TypeOK, Eng!submit_for_review
<1>2. s6' = s6 \union {new} /\ UNCHANGED <<s4, s7, s2, s5>>
  BY DEF Eng!submit_for_review
<1>3. new.step = "asked" /\ new.copy = None
  BY GenerationIs
<1> HIDE DEF new
<1>4. CopiesAreSound' /\ SomebodyConcludes' /\ (s10 # None => s1 = "completed")'
  <2>1. CopiesAreSound'
    BY <1>2, <1>3 DEF CopiesAreSound
  <2>2. Concluding \subseteq Concluding'
    BY <1>2 DEF Concluding
  <2>3. s3' > 0
    BY DEF Eng!submit_for_review, Eng!TypeOK
  <2>4. SomebodyConcludes'
    BY <1>2, <2>2, <2>3 DEF SomebodyConcludes, Eng!submit_for_review
  <2> QED BY <2>1, <2>4, NoneIsNoReport DEF Eng!submit_for_review
<1>5. ASSUME ~s13' PROVE s6 = {} /\ s7 = {} /\ ~s13
  BY <1>5 DEF Eng!submit_for_review, Eng!Alive
<1>6. ASSUME ~s13' PROVE Alone' /\ RowFollows' /\ ReviewIsSound'
  <2>1. Alone' /\ RowFollows'
    BY <1>2, <1>3, <1>5, <1>6 DEF Alone, RowFollows, Eng!submit_for_review
  <2>2. s9 = None \/ s9 \in Int
    BY DEF Eng!TypeOK
  <2>3. /\ s9 # None => s9 \in Int /\ s9 <= s3
        /\ None \notin Int /\ s3 \in Int /\ UNCHANGED s9 /\ s3' = s3 + 1
    BY <1>5, <1>6, <2>2, NoneIsNoReport DEF ReviewIsSound, Eng!submit_for_review, Eng!TypeOK
  <2>4. s9' # s3' /\ (s9' # None => s9' <= s3')
    BY <2>3
  <2>5. ReviewIsSound'
    BY <2>4 DEF ReviewIsSound
  <2> QED BY <2>1, <2>5
<1>7. ASSUME ~s13', ~s14' PROVE EditionsAgree' /\ CompletedIsSound'
  <2>1. s7' = {} /\ ~s11' /\ s1' = "review"
    BY <1>2, <1>5, <1>7 DEF Eng!submit_for_review
  <2> QED BY <2>1 DEF EditionsAgree, CompletedIsSound
<1> QED BY <1>1, <1>4, <1>6, <1>7

-----------------------------------------------------------------------------
(* Generating.                                                                *)

\* A request reads the row before it marks it (get_by_engagement_and_version).
LEMMA ReadSound ==
  ASSUME ReportsInv, NEW g \in s6, Eng!get_by_engagement_and_version(g)
  PROVE  ReportsInv'
<1> USE NoneIsNoReport, GenerationIs, RenderingIs, Shapes
       DEF ReportsInv, Eng!ReportStatuses, Eng!get_by_engagement_and_version, Eng!Steps
<1>1. Eng!TypeOK'
  BY DEF Eng!TypeOK
<1>2. CopiesAreSound' /\ SomebodyConcludes' /\ (s10 # None => s1 = "completed")'
  BY DEF Eng!TypeOK, CopiesAreSound, SomebodyConcludes, Concluding
<1>3. /\ (~s13 => Alone /\ RowFollows /\ ReviewIsSound)'
      /\ (~s13 /\ ~s14 => EditionsAgree /\ CompletedIsSound)'
  BY DEF Eng!TypeOK, CopiesAreSound, Alone, RowFollows, ReviewIsSound, EditionsAgree,
     CompletedIsSound
<1> QED BY <1>1, <1>2, <1>3

\* A row that was marked while the request did not look is generating already.
LEMMA MarkSound ==
  ASSUME ReportsInv, NEW g \in s6, Eng!MarkGenerating(g)
  PROVE  ReportsInv'
<1> USE NoneIsNoReport, GenerationIs, RenderingIs, Shapes
       DEF ReportsInv, Eng!ReportStatuses, Eng!MarkGenerating, Eng!Steps, Eng!Written
<1>1. Eng!TypeOK'
  <2>1. \A flag \in {s11', s12', s13', s14', s15'} : flag \in BOOLEAN
    BY DEF Eng!TypeOK
  <2>2. s6' \subseteq Eng!Generations /\ s4' \in Eng!ReportStatuses \union {None}
    BY DEF Eng!TypeOK
  <2> QED BY <2>1, <2>2 DEF Eng!TypeOK
<1>2. CopiesAreSound' /\ SomebodyConcludes' /\ (s10 # None => s1 = "completed")'
  BY DEF Eng!TypeOK, CopiesAreSound, SomebodyConcludes, Concluding
<1>3. /\ (~s13 => Alone /\ RowFollows /\ ReviewIsSound)'
      /\ (~s13 /\ ~s14 => EditionsAgree /\ CompletedIsSound)'
  BY DEF Eng!TypeOK, CopiesAreSound, Alone, RowFollows, ReviewIsSound, EditionsAgree,
     CompletedIsSound
<1> QED BY <1>1, <1>2, <1>3

\* A request hands its generation over to the worker (send_task).
LEMMA SendSound ==
  ASSUME ReportsInv, NEW g \in s6, Eng!send_task(g)
  PROVE  ReportsInv'
<1> USE NoneIsNoReport, GenerationIs, RenderingIs, Shapes DEF ReportsInv, Eng!ReportStatuses,
        Eng!send_task, Eng!Send
<1>1. Eng!TypeOK'
  BY DEF Eng!TypeOK
<1>2. CopiesAreSound' /\ SomebodyConcludes' /\ (s10 # None => s1 = "completed")'
  BY DEF Eng!TypeOK, CopiesAreSound, SomebodyConcludes, Concluding
<1>3. /\ (~s13 => Alone /\ RowFollows /\ ReviewIsSound)'
      /\ (~s13 /\ ~s14 => EditionsAgree /\ CompletedIsSound)'
  BY DEF Eng!TypeOK, CopiesAreSound, Alone, RowFollows, ReviewIsSound, EditionsAgree,
     CompletedIsSound
<1> QED BY <1>1, <1>2, <1>3

\* The row is failed; the task that the broker has nevertheless counts as crossed.
LEMMA GenerationFailsSound ==
  ASSUME ReportsInv, NEW g \in s6, Eng!GenerationFails(g)
  PROVE  ReportsInv'
<1> USE NoneIsNoReport, GenerationIs, RenderingIs, Shapes
       DEF ReportsInv, Eng!ReportStatuses, Eng!GenerationFails, Eng!Send, Eng!Written, Eng!Fault
<1>1. Eng!TypeOK'
  <2>1. \A flag \in {s11', s12', s13', s14', s15'} : flag \in BOOLEAN
    BY DEF Eng!TypeOK
  <2>2. /\ s6' \subseteq Eng!Generations /\ s7' \subseteq Eng!Renderings
        /\ s4' \in Eng!ReportStatuses \union {None}
    BY DEF Eng!TypeOK
  <2> QED BY <2>1, <2>2, FaultsAssumption DEF Eng!TypeOK
<1>2. CopiesAreSound' /\ SomebodyConcludes' /\ (s10 # None => s1 = "completed")'
  BY DEF Eng!TypeOK, CopiesAreSound, SomebodyConcludes, Concluding
<1>3. /\ (~s13 => Alone /\ RowFollows /\ ReviewIsSound)'
      /\ (~s13 /\ ~s14 => EditionsAgree /\ CompletedIsSound)'
  BY DEF Eng!TypeOK, CopiesAreSound, Alone, RowFollows, ReviewIsSound, EditionsAgree,
     CompletedIsSound
<1> QED BY <1>1, <1>2, <1>3

\* The process of a request dies: the row is left as it was.
LEMMA RequestDiesSound ==
  ASSUME ReportsInv, NEW g \in s6, Eng!RequestDies(g)
  PROVE  ReportsInv'
<1> USE NoneIsNoReport, GenerationIs, RenderingIs, Shapes DEF ReportsInv, Eng!ReportStatuses,
        Eng!RequestDies, Eng!Fault
<1>1. Eng!TypeOK'
  BY FaultsAssumption DEF Eng!TypeOK
<1>2. CopiesAreSound' /\ SomebodyConcludes' /\ (s10 # None => s1 = "completed")'
  BY DEF Eng!TypeOK, CopiesAreSound, SomebodyConcludes, Concluding
<1>3. /\ (~s13 => Alone /\ RowFollows /\ ReviewIsSound)'
      /\ (~s13 /\ ~s14 => EditionsAgree /\ CompletedIsSound)'
  BY DEF Eng!TypeOK, CopiesAreSound, Alone, RowFollows, ReviewIsSound, EditionsAgree,
     CompletedIsSound
<1> QED BY <1>1, <1>2, <1>3

-----------------------------------------------------------------------------
(* Rendering.                                                                 *)

\* The worker renders and stores the PDF.
LEMMA RenderSound ==
  ASSUME ReportsInv, NEW t \in s7, Eng!generate_pdf_from_html(t)
  PROVE  ReportsInv'
<1> USE NoneIsNoReport, GenerationIs, RenderingIs, Shapes
       DEF ReportsInv, Eng!ReportStatuses, Eng!generate_pdf_from_html, Eng!Moves
<1>1. Eng!TypeOK'
  BY DEF Eng!TypeOK
<1>2. CopiesAreSound' /\ SomebodyConcludes' /\ (s10 # None => s1 = "completed")'
  BY DEF Eng!TypeOK, CopiesAreSound, SomebodyConcludes, Concluding
<1>3. /\ (~s13 => Alone /\ RowFollows /\ ReviewIsSound)'
      /\ (~s13 /\ ~s14 => EditionsAgree /\ CompletedIsSound)'
  BY DEF Eng!TypeOK, CopiesAreSound, Alone, RowFollows, ReviewIsSound, EditionsAgree,
     CompletedIsSound
<1> QED BY <1>1, <1>2, <1>3

\* A rendering fails, and a callback is to say so.
LEMMA RenderingFailsSound ==
  ASSUME ReportsInv, NEW t \in s7, Eng!RenderingFails(t)
  PROVE  ReportsInv'
<1> USE NoneIsNoReport, GenerationIs, RenderingIs, Shapes
       DEF ReportsInv, Eng!ReportStatuses, Eng!RenderingFails, Eng!Moves, Eng!Fault
<1>1. Eng!TypeOK'
  BY FaultsAssumption DEF Eng!TypeOK
<1>2. CopiesAreSound' /\ SomebodyConcludes' /\ (s10 # None => s1 = "completed")'
  BY DEF Eng!TypeOK, CopiesAreSound, SomebodyConcludes, Concluding
<1>3. /\ (~s13 => Alone /\ RowFollows /\ ReviewIsSound)'
      /\ (~s13 /\ ~s14 => EditionsAgree /\ CompletedIsSound)'
  BY DEF Eng!TypeOK, CopiesAreSound, Alone, RowFollows, ReviewIsSound, EditionsAgree,
     CompletedIsSound
<1> QED BY <1>1, <1>2, <1>3

\* The callback for a stored PDF completes the row, or finds it completed.
LEMMA CompletedCallbackSound ==
  ASSUME ReportsInv, NEW t \in s7, Eng!CallbackCompleted(t)
  PROVE  ReportsInv'
<1> USE NoneIsNoReport, GenerationIs, RenderingIs, Shapes
       DEF ReportsInv, Eng!ReportStatuses, Eng!CallbackCompleted, Eng!Accepts, Eng!Fault
<1>1. Eng!TypeOK'
  BY FaultsAssumption DEF Eng!TypeOK
<1>2. CopiesAreSound' /\ SomebodyConcludes' /\ (s10 # None => s1 = "completed")'
  BY DEF Eng!TypeOK, CopiesAreSound, SomebodyConcludes, Concluding
<1>3. /\ (~s13 => Alone /\ RowFollows /\ ReviewIsSound)'
      /\ (~s13 /\ ~s14 => EditionsAgree /\ CompletedIsSound)'
  BY DEF Eng!TypeOK, CopiesAreSound, Alone, RowFollows, ReviewIsSound, EditionsAgree,
     CompletedIsSound
<1> QED BY <1>1, <1>2, <1>3

\* The callback for a stored PDF was in vain three times: a failure is to be
\* reported.
LEMMA AttemptsFailSound ==
  ASSUME ReportsInv, NEW t \in s7, Eng!AttemptsFail(t)
  PROVE  ReportsInv'
<1> USE NoneIsNoReport, GenerationIs, RenderingIs, Shapes
       DEF ReportsInv, Eng!ReportStatuses, Eng!AttemptsFail, Eng!Accepts, Eng!Moves, Eng!Fault
<1>1. Eng!TypeOK'
  BY FaultsAssumption DEF Eng!TypeOK
<1>2. CopiesAreSound' /\ SomebodyConcludes' /\ (s10 # None => s1 = "completed")'
  BY DEF Eng!TypeOK, CopiesAreSound, SomebodyConcludes, Concluding
<1>3. /\ (~s13 => Alone /\ RowFollows /\ ReviewIsSound)'
      /\ (~s13 /\ ~s14 => EditionsAgree /\ CompletedIsSound)'
  BY DEF Eng!TypeOK, CopiesAreSound, Alone, RowFollows, ReviewIsSound, EditionsAgree,
     CompletedIsSound
<1> QED BY <1>1, <1>2, <1>3

\* The callback of a rendering that failed marks the row.
LEMMA FailedCallbackSound ==
  ASSUME ReportsInv, NEW t \in s7, Eng!CallbackFailed(t)
  PROVE  ReportsInv'
<1> USE NoneIsNoReport, GenerationIs, RenderingIs, Shapes
       DEF ReportsInv, Eng!ReportStatuses, Eng!CallbackFailed, Eng!Accepts
<1>1. Eng!TypeOK'
  BY DEF Eng!TypeOK
<1>2. CopiesAreSound' /\ SomebodyConcludes' /\ (s10 # None => s1 = "completed")'
  BY DEF Eng!TypeOK, CopiesAreSound, SomebodyConcludes, Concluding
<1>3. /\ (~s13 => Alone /\ RowFollows /\ ReviewIsSound)'
      /\ (~s13 /\ ~s14 => EditionsAgree /\ CompletedIsSound)'
  BY DEF Eng!TypeOK, CopiesAreSound, Alone, RowFollows, ReviewIsSound, EditionsAgree,
     CompletedIsSound
<1> QED BY <1>1, <1>2, <1>3

\* The task dies, and nobody is left to conclude its report.
LEMMA TaskDiesSound ==
  ASSUME ReportsInv, NEW t \in s7, Eng!TaskDies(t)
  PROVE  ReportsInv'
<1> USE NoneIsNoReport, GenerationIs, RenderingIs, Shapes DEF ReportsInv, Eng!ReportStatuses,
        Eng!TaskDies, Eng!Fault
<1>1. Eng!TypeOK'
  BY FaultsAssumption DEF Eng!TypeOK
<1>2. CopiesAreSound' /\ SomebodyConcludes' /\ (s10 # None => s1 = "completed")'
  BY DEF Eng!TypeOK, CopiesAreSound, SomebodyConcludes, Concluding
<1>3. /\ (~s13 => Alone /\ RowFollows /\ ReviewIsSound)'
      /\ (~s13 /\ ~s14 => EditionsAgree /\ CompletedIsSound)'
  BY DEF Eng!TypeOK, CopiesAreSound, Alone, RowFollows, ReviewIsSound, EditionsAgree,
     CompletedIsSound
<1> QED BY <1>1, <1>2, <1>3

-----------------------------------------------------------------------------
(* Service delivery.                                                          *)

\* The engagement goes back to the pentester: what generates goes on.
LEMMA ReturnSound ==
  ASSUME ReportsInv, Eng!return_from_review
  PROVE  ReportsInv'
<1> USE NoneIsNoReport, GenerationIs, RenderingIs, Shapes
       DEF ReportsInv, Eng!ReportStatuses, Eng!return_from_review, Eng!Click
<1>1. Eng!TypeOK'
  BY FaultsAssumption DEF Eng!TypeOK, Eng!Phases
<1>2. CopiesAreSound' /\ SomebodyConcludes' /\ (s10 # None => s1 = "completed")'
  BY DEF Eng!TypeOK, CopiesAreSound, SomebodyConcludes, Concluding
<1>3. /\ (~s13 => Alone /\ RowFollows /\ ReviewIsSound)'
      /\ (~s13 /\ ~s14 => EditionsAgree /\ CompletedIsSound)'
  BY DEF Eng!TypeOK, CopiesAreSound, Alone, RowFollows, ReviewIsSound, EditionsAgree,
     CompletedIsSound
<1> QED BY <1>1, <1>2, <1>3

\* A retry finds the engagement under review.
LEMMA RetryReadsSound ==
  ASSUME ReportsInv, Eng!require_engagement
  PROVE  ReportsInv'
<1> USE NoneIsNoReport, GenerationIs, RenderingIs, Shapes
       DEF ReportsInv, Eng!ReportStatuses, Eng!require_engagement, Eng!Click
<1>1. Eng!TypeOK'
  <2>1. clicks' \in 0..MaxClicks
    BY FaultsAssumption DEF Eng!TypeOK
  <2>2. <<"retry", clicks'>> \in Eng!Ids
    BY <2>1, FaultsAssumption DEF Eng!Ids, Eng!MaxSubmissions
  <2> QED BY <2>1, <2>2 DEF Eng!TypeOK
<1>2. CopiesAreSound' /\ SomebodyConcludes' /\ (s10 # None => s1 = "completed")'
  BY DEF Eng!TypeOK, CopiesAreSound, SomebodyConcludes, Concluding
<1>3. /\ (~s13 => Alone /\ RowFollows /\ ReviewIsSound)'
      /\ (~s13 /\ ~s14 => EditionsAgree /\ CompletedIsSound)'
  BY DEF Eng!TypeOK, CopiesAreSound, Alone, RowFollows, ReviewIsSound, EditionsAgree,
     CompletedIsSound
<1> QED BY <1>1, <1>2, <1>3

\* A report that has failed, and was marked, is nobody's: who retries it is alone.
LEMMA RetrySound ==
  ASSUME ReportsInv, NEW id \in s8, Eng!retry(id)
  PROVE  ReportsInv'
<1> USE NoneIsNoReport, GenerationIs, RenderingIs, Shapes DEF ReportsInv, Eng!ReportStatuses,
        Eng!retry, Eng!StillFailed
<1>1. Eng!TypeOK'
  <2>1. \A flag \in {s11', s12', s13', s14', s15'} : flag \in BOOLEAN
    BY DEF Eng!TypeOK
  <2>2. s6' \subseteq Eng!Generations /\ s4' \in Eng!ReportStatuses \union {None}
    BY DEF Eng!TypeOK
  <2> QED BY <2>1, <2>2 DEF Eng!TypeOK
<1>2. CopiesAreSound' /\ SomebodyConcludes' /\ (s10 # None => s1 = "completed")'
  BY DEF Eng!TypeOK, CopiesAreSound, SomebodyConcludes, Concluding
<1>3. ASSUME ~s13' PROVE Alone' /\ RowFollows' /\ ReviewIsSound'
  <2>1. CASE s4 = "failed"
    <3>1. ~s13 /\ s11 /\ s6 = {} /\ s7 = {}
      BY <1>3, <2>1 DEF RowFollows
    <3>2. s6' = {Eng!Generation(id, "read", "generating")} /\ s4' = "generating"
      BY <2>1, <3>1
    <3> QED BY <2>1, <3>1, <3>2 DEF Alone, RowFollows, ReviewIsSound
  <2>2. CASE s4 # "failed"
    BY <1>3, <2>2 DEF Alone, RowFollows, ReviewIsSound
  <2> QED BY <2>1, <2>2
<1>4. ASSUME ~s13', ~s14' PROVE EditionsAgree' /\ CompletedIsSound'
  BY <1>4 DEF EditionsAgree, CompletedIsSound
<1> QED BY <1>1, <1>2, <1>3, <1>4

\* complete_review looks: unless it is rushed, what it finds is this submission's.
LEMMA ReviewReadsSound ==
  ASSUME ReportsInv, Eng!get_latest_for_engagement
  PROVE  ReportsInv'
<1> USE NoneIsNoReport, GenerationIs, RenderingIs, Shapes
       DEF ReportsInv, Eng!ReportStatuses, Eng!get_latest_for_engagement
<1>1. Eng!TypeOK'
  BY DEF Eng!TypeOK, SomebodyConcludes
<1>2. CopiesAreSound' /\ SomebodyConcludes' /\ (s10 # None => s1 = "completed")'
  BY DEF Eng!TypeOK, CopiesAreSound, SomebodyConcludes, Concluding
<1>3. ASSUME ~s13' PROVE Alone' /\ RowFollows' /\ ReviewIsSound'
  BY <1>3 DEF Eng!TypeOK, Alone, RowFollows, ReviewIsSound
<1>4. ASSUME ~s13', ~s14' PROVE EditionsAgree' /\ CompletedIsSound'
  BY <1>4 DEF EditionsAgree, CompletedIsSound
<1> QED BY <1>1, <1>2, <1>3, <1>4

\* It writes: unless somebody wrote in between, the report is the one it found.
LEMMA CompleteSound ==
  ASSUME ReportsInv, Eng!complete_review
  PROVE  ReportsInv'
<1> USE NoneIsNoReport, GenerationIs, RenderingIs, Shapes DEF ReportsInv, Eng!ReportStatuses,
        Eng!complete_review
<1>1. Eng!TypeOK'
  BY DEF Eng!TypeOK, Eng!Phases
<1>2. CopiesAreSound' /\ SomebodyConcludes' /\ (s10 # None => s1 = "completed")'
  BY DEF Eng!TypeOK, CopiesAreSound, SomebodyConcludes, Concluding
<1>3. ASSUME ~s13' PROVE Alone' /\ RowFollows' /\ ReviewIsSound'
  BY <1>3 DEF Eng!TypeOK, Alone, RowFollows, ReviewIsSound
<1>4. ASSUME ~s13', ~s14' PROVE EditionsAgree' /\ CompletedIsSound'
  <2>1. ~s13 /\ ~s14 /\ s1 = "review" /\ s9 = s3
    BY <1>4
  <2>2. s10 = None /\ (~s12 => s11 /\ s4 = "completed")
    BY <2>1 DEF ReviewIsSound
  <2> QED BY <2>1, <2>2 DEF EditionsAgree, CompletedIsSound
<1> QED BY <1>1, <1>2, <1>3, <1>4

\* The completion of a review fails, before its commit or after it.
LEMMA CompletionFailsSound ==
  ASSUME ReportsInv, Eng!CompletionFails
  PROVE  ReportsInv'
<1> USE NoneIsNoReport, GenerationIs, RenderingIs, Shapes
       DEF ReportsInv, Eng!ReportStatuses, Eng!CompletionFails, Eng!Fault
<1>1. Eng!TypeOK'
  <2>1. \A flag \in {s11', s12', s13', s14', s15'} : flag \in BOOLEAN
    BY DEF Eng!TypeOK
  <2> QED BY <2>1, FaultsAssumption DEF Eng!TypeOK, Eng!Phases
<1>2. CopiesAreSound' /\ SomebodyConcludes' /\ (s10 # None => s1 = "completed")'
  BY DEF Eng!TypeOK, CopiesAreSound, SomebodyConcludes, Concluding
<1>3. ASSUME ~s13' PROVE Alone' /\ RowFollows' /\ ReviewIsSound'
  BY <1>3 DEF Eng!TypeOK, Alone, RowFollows, ReviewIsSound
<1>4. ASSUME ~s13', ~s14', UNCHANGED <<s1, s14>>
      PROVE  EditionsAgree' /\ CompletedIsSound'
  BY <1>4 DEF EditionsAgree, CompletedIsSound
<1>5. ASSUME ~s13', ~s14', s1' = "completed",
             s14' = (s14 \/ s1 # "review" \/ s9 # s3)
      PROVE  EditionsAgree' /\ CompletedIsSound'
  <2>1. ~s13 /\ ~s14 /\ s1 = "review" /\ s9 = s3
    BY <1>5
  <2>2. s10 = None /\ (~s12 => s11 /\ s4 = "completed")
    BY <2>1 DEF ReviewIsSound
  <2> QED BY <2>1, <2>2, <1>5 DEF EditionsAgree, CompletedIsSound
<1> QED BY <1>1, <1>2, <1>3, <1>4, <1>5

\* The e-mail takes the PDF as it is by then.
LEMMA MailSound ==
  ASSUME ReportsInv, Eng!send_engagement_report_email
  PROVE  ReportsInv'
<1> USE NoneIsNoReport, GenerationIs, RenderingIs, Shapes
       DEF ReportsInv, Eng!ReportStatuses, Eng!send_engagement_report_email
<1>1. Eng!TypeOK'
  BY DEF Eng!TypeOK
<1>2. CopiesAreSound' /\ SomebodyConcludes' /\ (s10 # None => s1 = "completed")'
  BY DEF Eng!TypeOK, CopiesAreSound, SomebodyConcludes, Concluding
<1>3. /\ (~s13 => Alone /\ RowFollows /\ ReviewIsSound)'
      /\ (~s13 /\ ~s14 => EditionsAgree /\ CompletedIsSound)'
  BY DEF Eng!TypeOK, CopiesAreSound, Alone, RowFollows, ReviewIsSound, EditionsAgree,
     CompletedIsSound
<1> QED BY <1>1, <1>2, <1>3

-----------------------------------------------------------------------------
\* Every step keeps the invariant.
LEMMA ReportsStepSound == ReportsInv /\ [Eng!Next]_<<Eng!rvars, clicks, faults>> => ReportsInv'
<1> SUFFICES ASSUME ReportsInv, [Eng!Next]_<<Eng!rvars, clicks, faults>> PROVE ReportsInv'
  OBVIOUS
<1>1. CASE Eng!EditFindings \/ Eng!submit_for_review
  BY <1>1, EditSound, SubmitSound
<1>2. CASE Eng!GenerationGoesOn
  BY <1>2, ReadSound, MarkSound, SendSound DEF Eng!GenerationGoesOn
<1>3. CASE Eng!RenderingGoesOn
  BY <1>3, RenderSound, CompletedCallbackSound, AttemptsFailSound, FailedCallbackSound
  DEF Eng!RenderingGoesOn
<1>4. CASE Eng!ServiceDelivery
  BY <1>4, ReturnSound, RetryReadsSound, ReviewReadsSound, CompleteSound, CompletionFailsSound,
     MailSound, RetrySound
  DEF Eng!ServiceDelivery
<1>5. CASE Eng!Failures
  BY <1>5, GenerationFailsSound, RequestDiesSound, RenderingFailsSound, TaskDiesSound
     DEF Eng!Failures
<1>6. CASE UNCHANGED <<Eng!rvars, clicks, faults>>
  BY <1>6 DEF Eng!rvars, ReportsInv, Eng!TypeOK, CopiesAreSound, SomebodyConcludes, Concluding,
     Alone, RowFollows, ReviewIsSound, EditionsAgree, CompletedIsSound
<1> QED BY <1>1, <1>2, <1>3, <1>4, <1>5, <1>6 DEF Eng!Next

\* The invariant holds in every reachable state.
THEOREM ReportsSound == Eng!Spec => []ReportsInv
<1> QED BY ReportsInit, ReportsStepSound, PTL DEF Eng!Spec

\* However many retries are asked for, one report is generated at a time - until a
\* submission or a retry meets what is under way for another.
THEOREM OneAtATime == Eng!Spec => []Eng!OneGeneration
<1>1. ReportsInv => Eng!OneGeneration
  <2> SUFFICES ASSUME ReportsInv, ~s13
               PROVE  /\ Eng!Cardinality(Eng!Alive) <= 1
                      /\ \A g \in s6, t \in s7 : g.id # t.id
    BY DEF Eng!OneGeneration
  <2>1. Alone
    BY DEF ReportsInv
  <2>2. \A x, y \in Eng!Alive : x = y
    BY <2>1 DEF Alone, Eng!Alive
  <2>3. Eng!Alive = {} \/ \E x : Eng!Alive = {x}
    BY <2>2
  <2>4. Cardinality(Eng!Alive) <= 1
    <3>1. Cardinality({}) = 0 /\ \A x : Cardinality({x}) = 1
      BY FS_EmptySet, FS_Singleton
    <3> HIDE DEF Eng!Alive
    <3>2. ASSUME Eng!Alive = {} PROVE Cardinality(Eng!Alive) = 0
      BY <3>1, <3>2
    <3>3. ASSUME NEW x, Eng!Alive = {x} PROVE Cardinality(Eng!Alive) = 1
      BY <3>1, <3>3
    <3> QED BY <2>3, <3>2, <3>3
  <2>5. Eng!Cardinality(Eng!Alive) = Cardinality(Eng!Alive)
    BY DEF Cardinality, Eng!Cardinality
  <2>6. Eng!Cardinality(Eng!Alive) <= 1
    BY <2>4, <2>5
  <2> QED BY <2>1, <2>6 DEF Alone
<1> QED BY <1>1, ReportsSound, PTL

\* Under review a report that nobody works on is completed or can be retried, unless
\* nobody was left to say so.
THEOREM CanBeRetried == Eng!Spec => []Eng!NeverStuck
<1>1. ReportsInv => Eng!NeverStuck
  <2> SUFFICES ASSUME ReportsInv, s1 = "review", Eng!Alive = {}, ~s15
               PROVE  s4 \in {"completed", "failed"}
    BY DEF Eng!NeverStuck
  <2>1. s6 = {} /\ s7 = {}
    BY DEF Eng!Alive
  <2>2. s4 # "generating" /\ s4 # None
    BY <2>1 DEF ReportsInv, SomebodyConcludes, Concluding, Eng!TypeOK
  <2> QED BY <2>2 DEF ReportsInv, Eng!TypeOK, Eng!ReportStatuses
<1> QED BY <1>1, ReportsSound, PTL

\* A completed engagement has its report: the row, the PDF and the e-mail have the
\* findings as they were submitted last.
THEOREM ReportIsThere == Eng!Spec => []Eng!CompletedIsReported
<1>1. ReportsInv => Eng!CompletedIsReported
  BY DEF ReportsInv, EditionsAgree, CompletedIsSound, Eng!CompletedIsReported
<1> QED BY <1>1, ReportsSound, PTL


\* The youngest load that is under way is of the view chosen, or none is and the rows on
\* display are of it, unless answers crossed or failed.
ListFollows ==
  /\ s6 \subseteq [of : Fin!Views, n : Nat] /\ \A l \in s6 : l.n <= clicks
  /\ \A k, l \in s6 : k.n = l.n => k = l
  /\ ~s12 /\ faults = 0 =>
       \/ s6 = {} /\ s5.of = s4
       \/ \E l \in s6 : l.of = s4 /\ \A k \in s6 : k.n <= l.n

\* The list on display is typed.
FindingsListTyped ==
  /\ s4 \in Fin!Views
  /\ s5 \in [rows : SUBSET Fin!Findings, total : Nat, of : Fin!Views \union {None}]
  /\ s7 \in BOOLEAN /\ s12 \in BOOLEAN /\ clicks \in Nat /\ faults \in Nat

\* The panel and what is asked for are typed.
PanelTyped ==
  /\ s8 \subseteq [finding : Fin!Findings, for : {"inspect", "download"}, n : Nat]
  /\ s9 = None \/ s9 \in [finding : Fin!Findings, files : [Files -> Fin!Statuses], n : Nat]
  /\ s10 \subseteq [file : Files, n : Nat, answer : {"none", "pending", "error"}]
  /\ s11 \subseteq Files /\ s13 \in BOOLEAN /\ s14 \in BOOLEAN

\* The files and their owners.
FilesTyped ==
  /\ s1 \in [Files -> Fin!Statuses] /\ s2 \subseteq Fin!Findings /\ s3 \in [Files -> Fin!Findings]

\* What is asked for, the panel and its retries have numbers of their own; and as long as one
\* finding was asked for at a time, a panel and its retries are about its finding.
InspectFollows ==
  /\ \A d \in s8 : d.n <= clicks
  /\ s9 # None => s9.n <= clicks
  /\ \A p \in s10 : p.n <= clicks
  /\ \A d, e \in s8 : d.n = e.n => d = e
  /\ \A d \in s8 : s9 # None => d.n # s9.n
  /\ \A d \in s8, p \in s10 : d.n # p.n
  /\ ~s13 =>
       /\ \A d, e \in s8 : d.for = "inspect" /\ e.for = "inspect" => d = e
       /\ s9 # None => /\ \A d \in s8 : d.for # "inspect"
                       /\ \A f \in Files : s9.files[f] # "none" => s3[f] = s9.finding
                       /\ \A p \in s10 : p.n = s9.n => s3[p.file] = s9.finding

\* A verdict stands until the finding of the file is gone.
Stands(f, verdict) == s1[f] = verdict \/ (s1[f] = "none" /\ s3[f] \notin s2)

\* What a panel or a download knows of a file stands.
VerdictsStand ==
  /\ s9 # None => \A f \in Files : s9.files[f] \in Fin!Verdicts => Stands(f, s9.files[f])
  /\ \A f \in s11 : Stands(f, "clean")
  /\ ~s14

FindingsInv ==
  FindingsListTyped /\ PanelTyped /\ FilesTyped /\ ListFollows /\ InspectFollows /\ VerdictsStand


\* The steps of the page, one by one; a change of filter or page loads a view.
LEMMA FindingsSteps ==
  ASSUME FindingsInv, [Fin!Next]_Fin!fvars
  PROVE  \/ \E v \in Fin!Views : Fin!Load(v)
         \/ \E l \in s6 : Fin!ListArrives(l) \/ Fin!ListFails(l)
         \/ \E g \in Fin!Findings, aim \in {"inspect", "download"} : Fin!AskFor(g, aim)
         \/ \E f \in Files : Fin!handleDownload(f) \/ Fin!handleRetry(f)
         \/ Fin!onClose
         \/ \E d \in s8 : Fin!Inspected(d) \/ Fin!downloadFindingEvidence(d) \/ Fin!DetailFails(d)
         \/ \E f \in s11 : Fin!downloadEvidence(f)
         \/ \E p \in s10 : Fin!retryEvidenceSecurityCheck(p) \/ Fin!RetryAnswered(p)
         \/ Fin!FileChanges \/ (\E g \in Fin!Findings : Fin!FindingDeleted(g))
         \/ UNCHANGED Fin!fvars
<1>1. ASSUME NEW x \in DOMAIN Fin!Matches, Fin!setFilter(x)
      PROVE  \E v \in Fin!Views : Fin!Load(v)
  <2>1. [filter |-> x, page |-> 1] \in Fin!Views
    BY DEF Fin!Views
  <2> QED BY <1>1, <2>1 DEF Fin!setFilter
<1>2. ASSUME NEW p \in 1..3, Fin!setPage(p)
      PROVE  \E v \in Fin!Views : Fin!Load(v)
  <2>1. [s4 EXCEPT !.page = p] \in Fin!Views
    BY DEF Fin!Views, FindingsInv, FindingsListTyped
  <2> QED BY <1>2, <2>1 DEF Fin!setPage
<1>3. ASSUME NEW g \in Fin!Findings, Fin!openFinding(g) PROVE Fin!AskFor(g, "inspect")
  BY <1>3 DEF Fin!openFinding
<1> QED BY <1>1, <1>2, <1>3 DEF Fin!Next, Fin!UserActs, Fin!AnswersArrive, Fin!Backstage

\* What a load shows is typed.
LEMMA RowsAreFindings ==
  ASSUME NEW v \in Fin!Views
  PROVE  Fin!RowsOf(v) \subseteq Fin!Findings /\ Fin!Cardinality(Fin!Found(v)) \in Nat
<1>1. v.filter \in DOMAIN Fin!Matches
  BY DEF Fin!Views
<1>2. v.filter \in {"all", "severe"}
  BY <1>1 DEF Fin!Matches
<1>3. /\ Fin!Matches["all"] = <<"first", "second">> /\ Fin!Matches["severe"] = <<"second">>
  BY DEF Fin!Matches
<1>4. /\ DOMAIN Fin!Matches[v.filter] \subseteq 1..2
      /\ \A i \in DOMAIN Fin!Matches[v.filter] : Fin!Matches[v.filter][i] \in Fin!Findings
  BY <1>2, <1>3 DEF Fin!Findings
<1>5. Fin!Found(v) \subseteq 1..2 /\ Fin!Found(v) \subseteq DOMAIN Fin!Matches[v.filter]
  BY <1>4 DEF Fin!Found
<1>6. Fin!RowsOf(v) \subseteq Fin!Findings
  BY <1>4, <1>5 DEF Fin!RowsOf
<1>7. IsFiniteSet(1..2)
  <2>1. 1 \in Int /\ 2 \in Int
    OBVIOUS
  <2> QED BY <2>1, FS_Interval, Zenon
<1>8. IsFiniteSet(Fin!Found(v))
  BY <1>5, <1>7, FS_Subset, Zenon
<1>9. Cardinality(Fin!Found(v)) \in Nat
  BY <1>8, FS_CardinalityType
<1>10. Fin!Cardinality(Fin!Found(v)) = Cardinality(Fin!Found(v))
  BY DEF Fin!Cardinality, Cardinality
<1> QED BY <1>6, <1>9, <1>10

\* A step of the list.
LEMMA FindingsListStep ==
  ASSUME FindingsInv, [Fin!Next]_Fin!fvars
  PROVE  FindingsListTyped' /\ ListFollows'
<1>1. /\ clicks \in Nat /\ faults \in Nat /\ s7 \in BOOLEAN /\ s12 \in BOOLEAN
      /\ s4 \in Fin!Views /\ s6 \subseteq [of : Fin!Views, n : Nat]
      /\ \A l \in s6 : l.n \in Nat /\ l.n <= clicks
      /\ s5 \in [rows : SUBSET Fin!Findings, total : Nat, of : Fin!Views \union {None}]
  BY DEF FindingsInv, FindingsListTyped, ListFollows
<1>2. ASSUME NEW v \in Fin!Views, Fin!Load(v) PROVE FindingsListTyped' /\ ListFollows'
  <2> DEFINE l == [of |-> v, n |-> clicks']
  <2>1. /\ clicks' = clicks + 1 /\ s4' = v /\ s7' = TRUE /\ s6' = s6 \union {l}
        /\ UNCHANGED <<s5, s12, faults>>
    BY <1>2 DEF Fin!Load, Fin!Click
  <2>2. l \in [of : Fin!Views, n : Nat] /\ l.of = v /\ l.n = clicks + 1
    BY <1>1, <2>1
  <2>3. FindingsListTyped'
    BY <1>1, <2>1 DEF FindingsListTyped
  <2> HIDE DEF l
  <2>4. /\ \A k \in s6' : k.n \in Nat /\ k.n <= clicks' /\ k.n <= l.n /\ (k.n = l.n => k = l)
        /\ s6' \subseteq [of : Fin!Views, n : Nat] /\ l \in s6'
    BY <1>1, <2>1, <2>2
  <2>5. \A k, m \in s6' : k.n = m.n => k = m
    BY <1>1, <2>1, <2>2, <2>4 DEF FindingsInv, ListFollows
  <2> QED BY <2>1, <2>2, <2>3, <2>4, <2>5 DEF ListFollows
<1>3. ASSUME NEW l \in s6, Fin!ListArrives(l) PROVE FindingsListTyped' /\ ListFollows'
  <2>1. /\ s5' = [rows |-> Fin!RowsOf(l.of), total |-> Fin!Cardinality(Fin!Found(l.of)),
                  of |-> l.of]
        /\ s6' = s6 \ {l} /\ s7' = FALSE /\ UNCHANGED <<s4, clicks, faults>>
        /\ s12' <=> s12 \/ \E k \in s6 : k.n < l.n
    BY <1>3 DEF Fin!ListArrives
  <2>2. l.of \in Fin!Views
    BY <1>1
  <2>3. Fin!RowsOf(l.of) \subseteq Fin!Findings /\ Fin!Cardinality(Fin!Found(l.of)) \in Nat
    BY <2>2, RowsAreFindings
  <2>4. s5' \in [rows : SUBSET Fin!Findings, total : Nat, of : Fin!Views \union {None}]
        /\ s5'.of = l.of
    BY <2>1, <2>2, <2>3
  <2>5. s12' \in BOOLEAN
    BY <1>3 DEF Fin!ListArrives
  <2>6. FindingsListTyped'
    BY <1>1, <2>1, <2>4, <2>5 DEF FindingsListTyped
  <2>7. ASSUME ~s12', faults' = 0
        PROVE  \/ s6' = {} /\ s5'.of = s4'
               \/ \E k \in s6' : k.of = s4' /\ \A m \in s6' : m.n <= k.n
    <3>1. PICK y \in s6 : y.of = s4 /\ \A k \in s6 : k.n <= y.n
      BY <2>1, <2>7 DEF FindingsInv, ListFollows
    <3>2. CASE y = l
      <4>1. \A k \in s6 : k.n = l.n
        BY <1>1, <2>1, <2>7, <3>1, <3>2
      <4>2. s6' = {}
        BY <2>1, <4>1 DEF FindingsInv, ListFollows
      <4> QED BY <2>1, <2>4, <3>1, <3>2, <4>2
    <3>3. CASE y # l
      BY <2>1, <3>1, <3>3
    <3> QED BY <3>2, <3>3
  <2> QED BY <1>1, <2>1, <2>6, <2>7 DEF ListFollows, FindingsInv
<1>4. ASSUME NEW l \in s6, Fin!ListFails(l) PROVE FindingsListTyped' /\ ListFollows'
  <2>1. s6' = s6 \ {l} /\ s7' = FALSE /\ UNCHANGED <<s4, s5, s12, clicks>> /\ faults' = faults + 1
    BY <1>4 DEF Fin!ListFails, Fin!Fault
  <2>2. faults' \in Nat /\ faults' # 0 /\ s6' \subseteq s6
    BY <1>1, <2>1
  <2>3. FindingsListTyped'
    BY <1>1, <2>1, <2>2 DEF FindingsListTyped
  <2> QED BY <1>1, <2>1, <2>2, <2>3 DEF ListFollows, FindingsInv
<1>5. CASE /\ UNCHANGED <<s4, s5, s6, s7, s12>> /\ clicks' \in {clicks, clicks + 1}
           /\ faults' \in {faults, faults + 1}
  <2>1. clicks' \in Nat /\ faults' \in Nat /\ clicks <= clicks' /\ (faults' = 0 => faults = 0)
    BY <1>1, <1>5
  <2>2. FindingsListTyped'
    BY <1>1, <1>5, <2>1 DEF FindingsListTyped
  <2>3. \A l \in s6' : l.n <= clicks'
    BY <1>1, <1>5, <2>1
  <2> QED BY <1>1, <1>5, <2>1, <2>2, <2>3 DEF ListFollows, FindingsInv
<1>6. CASE \/ \E g \in Fin!Findings, aim \in {"inspect", "download"} : Fin!AskFor(g, aim)
           \/ \E f \in Files : Fin!handleDownload(f) \/ Fin!handleRetry(f)
           \/ Fin!onClose
           \/ \E d \in s8 : Fin!Inspected(d) \/ Fin!downloadFindingEvidence(d) \/ Fin!DetailFails(d)
           \/ \E f \in s11 : Fin!downloadEvidence(f)
           \/ \E p \in s10 : Fin!retryEvidenceSecurityCheck(p) \/ Fin!RetryAnswered(p)
           \/ Fin!FileChanges \/ (\E g \in Fin!Findings : Fin!FindingDeleted(g))
           \/ UNCHANGED Fin!fvars
  <2>1. /\ UNCHANGED <<s4, s5, s6, s7, s12>> /\ clicks' \in {clicks, clicks + 1}
        /\ faults' \in {faults, faults + 1}
    BY <1>6 DEF Fin!AskFor, Fin!handleDownload, Fin!handleRetry, Fin!onClose, Fin!Inspected,
       Fin!downloadFindingEvidence, Fin!DetailFails, Fin!downloadEvidence,
       Fin!retryEvidenceSecurityCheck, Fin!RetryAnswered, Fin!FileChanges, Fin!FindingDeleted,
       Fin!fvars, Fin!list, Fin!Click, Fin!Fault
  <2> QED BY <1>5, <2>1
<1> QED BY <1>2, <1>3, <1>4, <1>6, FindingsSteps

\* What happens to the files: a verdict stands.
LEMMA FilesStep ==
  ASSUME FindingsInv, [Fin!Next]_Fin!fvars
  PROVE  /\ FilesTyped' /\ s3' = s3
         /\ \A f \in Files : \A verdict \in Fin!Verdicts : Stands(f, verdict) => Stands(f, verdict)'
<1>1. /\ s1 \in [Files -> Fin!Statuses] /\ s2 \subseteq Fin!Findings
      /\ s3 \in [Files -> Fin!Findings]
  BY DEF FindingsInv, FilesTyped
<1>2. /\ \A verdict \in Fin!Verdicts : verdict \notin {"none", "pending", "failed"}
      /\ {"none", "pending", "failed"} \subseteq Fin!Statuses /\ Fin!Verdicts \subseteq Fin!Statuses
  BY DEF Fin!Verdicts, Fin!Statuses
<1>3. ASSUME NEW f \in Files, Fin!Uploaded(f), s3[f] \in s2, UNCHANGED <<s2, s3>>
      PROVE  /\ FilesTyped' /\ s3' = s3
             /\ \A g \in Files : \A verdict \in Fin!Verdicts :
                  Stands(g, verdict) => Stands(g, verdict)'
  <2>1. s1[f] = "none" /\ s1' = [s1 EXCEPT ![f] = "pending"]
    BY <1>3 DEF Fin!Uploaded
  <2>2. s1' \in [Files -> Fin!Statuses] /\ \A g \in Files : g # f => s1'[g] = s1[g]
    BY <1>1, <1>2, <2>1
  <2> QED BY <1>1, <1>2, <1>3, <2>1, <2>2 DEF FilesTyped, Stands
<1>4. ASSUME NEW f \in Files, Fin!Decided(f) \/ Fin!RetryRequested(f), UNCHANGED <<s2, s3>>
      PROVE  /\ FilesTyped' /\ s3' = s3
             /\ \A g \in Files : \A verdict \in Fin!Verdicts :
                  Stands(g, verdict) => Stands(g, verdict)'
  <2>1. /\ s1[f] \in {"pending", "failed"}
        /\ \E status \in Fin!Statuses : s1' = [s1 EXCEPT ![f] = status]
    BY <1>2, <1>4 DEF Fin!Decided, Fin!RetryRequested
  <2>2. s1' \in [Files -> Fin!Statuses] /\ \A g \in Files : g # f => s1'[g] = s1[g]
    BY <1>1, <1>2, <2>1
  <2>3. \A verdict \in Fin!Verdicts : ~Stands(f, verdict)
    BY <1>2, <2>1 DEF Stands
  <2> QED BY <1>1, <1>2, <1>4, <2>2, <2>3 DEF FilesTyped, Stands
<1>5. ASSUME NEW g \in Fin!Findings, Fin!FindingDeleted(g)
      PROVE  /\ FilesTyped' /\ s3' = s3
             /\ \A f \in Files : \A verdict \in Fin!Verdicts :
                  Stands(f, verdict) => Stands(f, verdict)'
  <2>1. /\ s2' = s2 \ {g} /\ s3' = s3
        /\ s1' = [f \in Files |-> IF f \in Fin!FilesOf(g) THEN "none" ELSE s1[f]]
    BY <1>5 DEF Fin!FindingDeleted, Fin!Deleted
  <2>2. \A f \in Fin!FilesOf(g) : s3[f] = g
    BY DEF Fin!FilesOf
  <2>3. s1' \in [Files -> Fin!Statuses]
    BY <1>1, <1>2, <2>1
  <2>4. \A f \in Files : s1'[f] = s1[f] \/ (s1'[f] = "none" /\ s3[f] \notin s2')
    BY <2>1, <2>2
  <2> QED BY <1>1, <2>1, <2>3, <2>4 DEF FilesTyped, Stands
<1>6. CASE UNCHANGED <<s1, s2, s3>>
  BY <1>1, <1>6 DEF FilesTyped, Stands
<1>7. CASE \/ \E v \in Fin!Views : Fin!Load(v)
           \/ \E l \in s6 : Fin!ListArrives(l) \/ Fin!ListFails(l)
           \/ \E g \in Fin!Findings, aim \in {"inspect", "download"} : Fin!AskFor(g, aim)
           \/ \E f \in Files : Fin!handleDownload(f) \/ Fin!handleRetry(f)
           \/ Fin!onClose
           \/ \E d \in s8 : Fin!Inspected(d) \/ Fin!downloadFindingEvidence(d) \/ Fin!DetailFails(d)
           \/ \E f \in s11 : Fin!downloadEvidence(f)
           \/ \E p \in s10 : Fin!RetryAnswered(p)
           \/ UNCHANGED Fin!fvars
  <2>1. UNCHANGED <<s1, s2, s3>>
    BY <1>7 DEF Fin!Load, Fin!ListArrives, Fin!ListFails, Fin!AskFor, Fin!handleDownload,
       Fin!handleRetry, Fin!onClose, Fin!Inspected, Fin!downloadFindingEvidence,
       Fin!DetailFails, Fin!downloadEvidence, Fin!RetryAnswered, Fin!fvars
  <2> QED BY <1>6, <2>1
<1>8. CASE Fin!FileChanges
  BY <1>3, <1>4, <1>8 DEF Fin!FileChanges
<1>9. ASSUME NEW p \in s10, Fin!retryEvidenceSecurityCheck(p)
      PROVE  (p.file \in Files /\ Fin!RetryRequested(p.file) /\ UNCHANGED <<s2, s3>>)
             \/ UNCHANGED <<s1, s2, s3>>
  <2>1. p.file \in Files
    BY DEF FindingsInv, PanelTyped
  <2> QED BY <1>9, <2>1 DEF Fin!retryEvidenceSecurityCheck
<1> QED BY <1>4, <1>5, <1>6, <1>7, <1>8, <1>9, FindingsSteps

\* What is known of the panel before a step.
LEMMA PanelBefore ==
  ASSUME FindingsInv
  PROVE  /\ clicks \in Nat /\ s11 \subseteq Files /\ s13 \in BOOLEAN /\ s14 \in BOOLEAN /\ ~s14
         /\ \A d \in s8 : /\ d \in [finding : Fin!Findings, for : {"inspect", "download"}, n : Nat]
                          /\ d.n \in Nat /\ d.n <= clicks
         /\ \A p \in s10 : /\ p \in [file : Files, n : Nat, answer : {"none", "pending", "error"}]
                           /\ p.n \in Nat /\ p.n <= clicks /\ p.file \in Files
         /\ s9 # None =>
              /\ s9 \in [finding : Fin!Findings, files : [Files -> Fin!Statuses], n : Nat]
              /\ s9.n \in Nat /\ s9.n <= clicks
              /\ \A f \in Files : s9.files[f] \in Fin!Statuses
         /\ s3 \in [Files -> Fin!Findings] /\ s1 \in [Files -> Fin!Statuses]
<1>1. s9 # None => s9 \in [finding : Fin!Findings, files : [Files -> Fin!Statuses], n : Nat]
  BY DEF FindingsInv, PanelTyped
<1>2. s9 # None => s9.n \in Nat /\ \A f \in Files : s9.files[f] \in Fin!Statuses
  BY <1>1
<1>3. \A d \in s8 : d \in [finding : Fin!Findings, for : {"inspect", "download"}, n : Nat]
  BY DEF FindingsInv, PanelTyped
<1>4. \A p \in s10 : p \in [file : Files, n : Nat, answer : {"none", "pending", "error"}]
  BY DEF FindingsInv, PanelTyped
<1> QED BY <1>1, <1>2, <1>3, <1>4 DEF FindingsInv, FindingsListTyped, PanelTyped, FilesTyped,
      InspectFollows, VerdictsStand

\* A step that takes answers away, and maybe the panel, keeps what is known of it.
LEMMA LessIsKnown ==
  ASSUME FindingsInv, [Fin!Next]_Fin!fvars, s8' \subseteq s8, s9' \in {s9, None},
         s10' \subseteq s10, s11' \subseteq Files, \A f \in s11' : Stands(f, "clean"),
         s13' = s13, s14' = s14, clicks' \in {clicks, clicks + 1}
  PROVE  PanelTyped' /\ InspectFollows' /\ VerdictsStand'
<1>1. /\ s3' = s3 /\ "clean" \in Fin!Verdicts
      /\ \A f \in Files : \A verdict \in Fin!Verdicts : Stands(f, verdict) => Stands(f, verdict)'
  BY FilesStep DEF Fin!Verdicts
<1>2. \A n \in Nat : n <= clicks => n <= clicks'
  BY PanelBefore
<1>3. PanelTyped'
  BY DEF FindingsInv, PanelTyped
<1>4. VerdictsStand'
  BY <1>1 DEF FindingsInv, VerdictsStand
<1>5. InspectFollows'
  <2>1. /\ \A d \in s8' : d.n <= clicks'
        /\ s9' # None => s9'.n <= clicks'
        /\ \A p \in s10' : p.n <= clicks'
    BY <1>2, PanelBefore
  <2> QED BY <1>1, <2>1 DEF FindingsInv, InspectFollows
<1> QED BY <1>3, <1>4, <1>5

\* Asking for a finding.
LEMMA AskForStep ==
  ASSUME FindingsInv, [Fin!Next]_Fin!fvars, NEW g \in Fin!Findings,
         NEW aim \in {"inspect", "download"}, Fin!AskFor(g, aim)
  PROVE  PanelTyped' /\ InspectFollows' /\ VerdictsStand'
<1> DEFINE d == [finding |-> g, for |-> aim, n |-> clicks']
<1>1. /\ clicks' = clicks + 1 /\ s8' = s8 \union {d} /\ s9 = None
      /\ UNCHANGED <<s1, s2, s3, s9, s10, s11, s14>>
      /\ s13' <=> s13 \/ (aim = "inspect" /\ \E e \in s8 : e.for = "inspect")
  BY DEF Fin!AskFor, Fin!Click
<1>2. s13' \in BOOLEAN
  BY DEF Fin!AskFor
<1>3. clicks \in Nat
  BY PanelBefore
<1>4. /\ d \in [finding : Fin!Findings, for : {"inspect", "download"}, n : Nat]
      /\ d.n = clicks + 1 /\ d.for = aim
  BY <1>1, <1>3
<1> HIDE DEF d
<1>5. \A e \in s8 : e.n \in Nat /\ e.n < d.n /\ e.n <= clicks'
  BY <1>1, <1>3, <1>4, PanelBefore
<1>6. \A p \in s10 : p.n \in Nat /\ p.n < d.n /\ p.n <= clicks'
  BY <1>1, <1>3, <1>4, PanelBefore
<1>7. PanelTyped'
  BY <1>1, <1>2, <1>4 DEF FindingsInv, PanelTyped
<1>8. VerdictsStand'
  BY <1>1 DEF FindingsInv, VerdictsStand, Stands
<1>9. /\ \A e \in s8' : e.n <= clicks'
      /\ \A e, h \in s8' : e.n = h.n => e = h
      /\ \A e \in s8', p \in s10' : e.n # p.n
  <2>1. \A e, h \in s8' : e.n = h.n => e = h
    BY <1>1, <1>4, <1>5 DEF FindingsInv, InspectFollows
  <2>2. \A e \in s8', p \in s10' : e.n # p.n
    BY <1>1, <1>4, <1>6 DEF FindingsInv, InspectFollows
  <2> QED BY <1>1, <1>4, <1>5, <2>1, <2>2
<1>10. ~s13' => \A e, h \in s8' : e.for = "inspect" /\ h.for = "inspect" => e = h
  BY <1>1, <1>4 DEF FindingsInv, InspectFollows
<1> QED BY <1>1, <1>6, <1>7, <1>8, <1>9, <1>10 DEF InspectFollows

\* The finding that was asked for arrives.
LEMMA InspectedStep ==
  ASSUME FindingsInv, [Fin!Next]_Fin!fvars, NEW d \in s8, Fin!Inspected(d)
  PROVE  PanelTyped' /\ InspectFollows' /\ VerdictsStand'
<1> DEFINE files == [f \in Files |-> IF f \in Fin!FilesOf(d.finding) THEN s1[f] ELSE "none"]
<1>1. /\ d.for = "inspect" /\ s8' = s8 \ {d}
      /\ UNCHANGED <<s1, s2, s3, s10, s11, s13, s14, clicks>>
      /\ s9' = IF s9 # None THEN [s9 EXCEPT !.finding = d.finding]
               ELSE [finding |-> d.finding, n |-> d.n, files |-> files]
  BY DEF Fin!Inspected
<1>2. d.n \in Nat /\ d.n <= clicks /\ d.finding \in Fin!Findings
  BY PanelBefore
<1>3. CASE s9 = None
  <2>1. "none" \in Fin!Statuses
    BY DEF Fin!Statuses
  <2>2. files \in [Files -> Fin!Statuses]
    BY <2>1, PanelBefore
  <2>3. \A f \in Files : files[f] # "none" => files[f] = s1[f] /\ s3[f] = d.finding
    BY DEF Fin!FilesOf
  <2> HIDE DEF files
  <2>4. s9' = [finding |-> d.finding, n |-> d.n, files |-> files]
    BY <1>1, <1>3
  <2>5. s9' # None => s9'.n = d.n /\ s9'.files = files /\ s9'.finding = d.finding
    BY <2>4
  <2>6. s9' \in [finding : Fin!Findings, files : [Files -> Fin!Statuses], n : Nat]
    BY <1>2, <2>2, <2>4
  <2>7. PanelTyped'
    BY <1>1, <2>6 DEF FindingsInv, PanelTyped
  <2>8. VerdictsStand'
    <3>1. \A f \in Files : files[f] \in Fin!Verdicts => files[f] = s1[f]
      BY <2>3 DEF Fin!Verdicts
    <3> QED BY <1>1, <2>5, <3>1 DEF FindingsInv, VerdictsStand, Stands
  <2>9. /\ \A e \in s8' : e.n # d.n /\ e.n <= clicks'
        /\ \A p \in s10' : p.n # d.n /\ p.n <= clicks'
        /\ \A e, h \in s8' : e.n = h.n => e = h
        /\ \A e \in s8', p \in s10' : e.n # p.n
    BY <1>1 DEF FindingsInv, InspectFollows
  <2>10. ~s13' => \A e \in s8' : e.for # "inspect"
    BY <1>1 DEF FindingsInv, InspectFollows
  <2> QED BY <1>1, <1>2, <2>3, <2>5, <2>7, <2>8, <2>9, <2>10 DEF InspectFollows
<1>4. CASE s9 # None
  <2>1. s9' = [s9 EXCEPT !.finding = d.finding]
    BY <1>1, <1>4
  <2>2. /\ s9 \in [finding : Fin!Findings, files : [Files -> Fin!Statuses], n : Nat]
        /\ s9.n <= clicks
    BY <1>4, PanelBefore
  <2>3. /\ s9' \in [finding : Fin!Findings, files : [Files -> Fin!Statuses], n : Nat]
        /\ s9'.n = s9.n /\ s9'.files = s9.files
    BY <1>2, <2>1, <2>2
  <2>4. s13
    BY <1>1, <1>4 DEF FindingsInv, InspectFollows
  <2>5. PanelTyped'
    BY <1>1, <2>3 DEF FindingsInv, PanelTyped
  <2>6. VerdictsStand'
    BY <1>1, <1>4, <2>3 DEF FindingsInv, VerdictsStand, Stands
  <2> QED BY <1>1, <1>4, <2>2, <2>3, <2>4, <2>5, <2>6 DEF FindingsInv, InspectFollows
<1> QED BY <1>3, <1>4

\* The user asks for another check, and the backend answers.
LEMMA RetryStep ==
  ASSUME FindingsInv, [Fin!Next]_Fin!fvars,
         \/ \E f \in Files : Fin!handleRetry(f)
         \/ \E p \in s10 : Fin!retryEvidenceSecurityCheck(p)
  PROVE  PanelTyped' /\ InspectFollows' /\ VerdictsStand'
<1>1. /\ UNCHANGED <<s3, s8, s9, s11, s13, s14, clicks>>
      /\ \E q \in [file : Files, n : Nat, answer : {"none", "pending", "error"}] :
           /\ s10' \subseteq s10 \union {q}
           /\ \/ /\ s9 # None /\ q.n = s9.n /\ s9.files[q.file] = "failed"
              \/ \E p \in s10 : p.n = q.n /\ p.file = q.file
  <2>1. ASSUME NEW f \in Files, Fin!handleRetry(f)
        PROVE  /\ UNCHANGED <<s3, s8, s9, s11, s13, s14, clicks>>
               /\ \E q \in [file : Files, n : Nat, answer : {"none", "pending", "error"}] :
                    /\ s10' \subseteq s10 \union {q}
                    /\ s9 # None /\ q.n = s9.n /\ s9.files[q.file] = "failed"
    <3> DEFINE q == [file |-> f, n |-> s9.n, answer |-> "none"]
    <3>1. /\ UNCHANGED <<s3, s8, s9, s11, s13, s14, clicks>> /\ s10' = s10 \union {q}
          /\ s9 # None /\ s9.files[f] = "failed"
      BY <2>1 DEF Fin!handleRetry
    <3>2. q \in [file : Files, n : Nat, answer : {"none", "pending", "error"}]
      BY <3>1, PanelBefore
    <3> QED BY <3>1, <3>2
  <2>2. ASSUME NEW p \in s10, Fin!retryEvidenceSecurityCheck(p)
        PROVE  /\ UNCHANGED <<s3, s8, s9, s11, s13, s14, clicks>>
               /\ \E q \in [file : Files, n : Nat, answer : {"none", "pending", "error"}] :
                    s10' \subseteq s10 \union {q} /\ p.n = q.n /\ p.file = q.file
    <3>1. PICK answer \in {"pending", "error"} :
            s10' = (s10 \ {p}) \union {[p EXCEPT !.answer = answer]}
      BY <2>2 DEF Fin!retryEvidenceSecurityCheck
    <3>2. p \in [file : Files, n : Nat, answer : {"none", "pending", "error"}]
      BY PanelBefore
    <3> DEFINE q == [p EXCEPT !.answer = answer]
    <3>3. /\ q \in [file : Files, n : Nat, answer : {"none", "pending", "error"}]
          /\ q.n = p.n /\ q.file = p.file
      BY <3>2
    <3>4. s10' \subseteq s10 \union {q}
      BY <3>1
    <3>5. UNCHANGED <<s3, s8, s9, s11, s13, s14, clicks>>
      BY <2>2 DEF Fin!retryEvidenceSecurityCheck
    <3> QED BY <3>3, <3>4, <3>5
  <2>3. CASE \E f \in Files : Fin!handleRetry(f)
    BY <2>1, <2>3
  <2>4. CASE \E p \in s10 : Fin!retryEvidenceSecurityCheck(p)
    BY <2>2, <2>4
  <2> QED BY <2>3, <2>4
<1>2. PICK q \in [file : Files, n : Nat, answer : {"none", "pending", "error"}] :
           /\ s10' \subseteq s10 \union {q}
           /\ \/ /\ s9 # None /\ q.n = s9.n /\ s9.files[q.file] = "failed"
              \/ \E p \in s10 : p.n = q.n /\ p.file = q.file
  BY <1>1
<1>3. \A f \in Files : \A verdict \in Fin!Verdicts : Stands(f, verdict) => Stands(f, verdict)'
  BY FilesStep
<1>4. PanelTyped'
  BY <1>1, <1>2 DEF FindingsInv, PanelTyped
<1>5. VerdictsStand'
  <2>1. "clean" \in Fin!Verdicts
    BY DEF Fin!Verdicts
  <2>2. UNCHANGED <<s9, s11, s14>>
    BY <1>1
  <2>3. s9' # None => \A f \in Files :
          s9'.files[f] \in Fin!Verdicts => Stands(f, s9.files[f])'
    BY <1>3, <2>2 DEF FindingsInv, VerdictsStand, Stands
  <2>4. (\A f \in s11' : Stands(f, "clean")') /\ ~s14'
    BY <1>3, <2>1, <2>2, PanelBefore DEF FindingsInv, VerdictsStand
  <2> QED BY <2>3, <2>4 DEF VerdictsStand
<1>6. q.n \in Nat /\ q.n <= clicks /\ q.file \in Files /\ \A d \in s8 : d.n # q.n
  BY <1>2, PanelBefore DEF FindingsInv, InspectFollows
<1>7. ~s13 /\ s9 # None /\ q.n = s9.n => s3[q.file] = s9.finding
  BY <1>2, <1>6 DEF FindingsInv, InspectFollows
<1>8. /\ \A p \in s10' : p.n <= clicks
      /\ \A d \in s8, p \in s10' : d.n # p.n
      /\ ~s13 /\ s9 # None => \A p \in s10' : p.n = s9.n => s3[p.file] = s9.finding
  <2>1. \A p \in s10' : p \in s10 \/ p = q
    BY <1>2
  <2> QED BY <1>6, <1>7, <2>1 DEF FindingsInv, InspectFollows
<1>9. InspectFollows'
  BY <1>1, <1>8 DEF FindingsInv, InspectFollows
<1> QED BY <1>4, <1>5, <1>9

\* The answer to a retry arrives.
LEMMA RetryAnsweredStep ==
  ASSUME FindingsInv, [Fin!Next]_Fin!fvars, NEW p \in s10, Fin!RetryAnswered(p)
  PROVE  PanelTyped' /\ InspectFollows' /\ VerdictsStand'
<1>1. /\ UNCHANGED <<s1, s2, s3, s8, s11, s13, s14, clicks>> /\ s10' = s10 \ {p}
      /\ s9' = IF s9 # None /\ p.n = s9.n /\ p.answer = "pending"
                 THEN [s9 EXCEPT !.files[p.file] = "pending"] ELSE s9
  BY DEF Fin!RetryAnswered
<1>2. CASE s9' = s9
  <2>1. \A f \in s11' : Stands(f, "clean")
    BY <1>1 DEF FindingsInv, VerdictsStand
  <2>2. s11' \subseteq Files
    BY <1>1, PanelBefore
  <2> QED BY <1>1, <1>2, <2>1, <2>2, LessIsKnown
<1>3. CASE s9' # s9
  <2>1. s9 # None /\ p.n = s9.n /\ s9' = [s9 EXCEPT !.files[p.file] = "pending"]
    BY <1>1, <1>3
  <2>2. /\ s9 \in [finding : Fin!Findings, files : [Files -> Fin!Statuses], n : Nat]
        /\ p.file \in Files /\ "pending" \in Fin!Statuses /\ "pending" \notin Fin!Verdicts
    BY <2>1, PanelBefore DEF Fin!Statuses, Fin!Verdicts
  <2>3. /\ s9' \in [finding : Fin!Findings, files : [Files -> Fin!Statuses], n : Nat]
        /\ s9'.n = s9.n /\ s9'.finding = s9.finding
        /\ \A f \in Files : f # p.file => s9'.files[f] = s9.files[f]
        /\ s9'.files[p.file] = "pending"
    BY <2>1, <2>2
  <2>4. PanelTyped'
    BY <1>1, <2>3 DEF FindingsInv, PanelTyped
  <2>5. VerdictsStand'
    BY <1>1, <2>1, <2>2, <2>3 DEF FindingsInv, VerdictsStand, Stands
  <2>6. ~s13 => s3[p.file] = s9.finding
    BY <2>1 DEF FindingsInv, InspectFollows
  <2>7. InspectFollows'
    BY <1>1, <2>1, <2>2, <2>3, <2>6 DEF FindingsInv, InspectFollows
  <2> QED BY <2>4, <2>5, <2>7
<1> QED BY <1>2, <1>3

\* A step of the panel and what is asked for.
LEMMA InspectStep ==
  ASSUME FindingsInv, [Fin!Next]_Fin!fvars
  PROVE  PanelTyped' /\ InspectFollows' /\ VerdictsStand'
<1>1. s11 \subseteq Files /\ (\A f \in s11 : Stands(f, "clean")) /\ s14 = FALSE /\ s14 \in BOOLEAN
  BY PanelBefore DEF FindingsInv, VerdictsStand
<1>2. CASE UNCHANGED <<s8, s9, s10, s11, s13, s14>> /\ clicks' \in {clicks, clicks + 1}
  BY <1>1, <1>2, LessIsKnown
<1>3. CASE \/ \E v \in Fin!Views : Fin!Load(v)
           \/ \E l \in s6 : Fin!ListArrives(l) \/ Fin!ListFails(l)
           \/ Fin!FileChanges \/ (\E g \in Fin!Findings : Fin!FindingDeleted(g))
           \/ UNCHANGED Fin!fvars
  <2>1. UNCHANGED <<s8, s9, s10, s11, s13, s14>> /\ clicks' \in {clicks, clicks + 1}
    BY <1>3 DEF Fin!Load, Fin!ListArrives, Fin!ListFails, Fin!FileChanges, Fin!FindingDeleted,
       Fin!fvars, Fin!modal, Fin!Click
  <2> QED BY <1>2, <2>1
<1>4. ASSUME NEW f \in Files, Fin!handleDownload(f)
      PROVE  PanelTyped' /\ InspectFollows' /\ VerdictsStand'
  <2>1. /\ UNCHANGED <<s8, s9, s10, s13, s14, clicks>> /\ s11' = s11 \union {f}
        /\ s9 # None /\ s9.files[f] = "clean"
    BY <1>4 DEF Fin!handleDownload
  <2>2. Stands(f, "clean")
    BY <2>1 DEF FindingsInv, VerdictsStand, Fin!Verdicts
  <2>3. s11' \subseteq Files /\ \A e \in s11' : Stands(e, "clean")
    BY <1>1, <2>1, <2>2
  <2> QED BY <2>1, <2>3, LessIsKnown
<1>5. CASE Fin!onClose
  <2>1. UNCHANGED <<s8, s10, s11, s13, s14, clicks>> /\ s9' = None
    BY <1>5 DEF Fin!onClose
  <2> QED BY <1>1, <2>1, LessIsKnown
<1>6. ASSUME NEW d \in s8, Fin!downloadFindingEvidence(d)
      PROVE  PanelTyped' /\ InspectFollows' /\ VerdictsStand'
  <2> DEFINE clean == {f \in Fin!FilesOf(d.finding) : s1[f] = "clean"}
  <2>1. /\ UNCHANGED <<s9, s10, s13, s14, clicks>> /\ s8' = s8 \ {d}
        /\ s11' = s11 \/ \E f \in clean : s11' = s11 \union {f}
    BY <1>6 DEF Fin!downloadFindingEvidence
  <2>2. \A f \in clean : f \in Files /\ Stands(f, "clean")
    BY DEF Fin!FilesOf, Stands
  <2>3. s11' \subseteq Files /\ \A e \in s11' : Stands(e, "clean")
    BY <1>1, <2>1, <2>2
  <2> QED BY <2>1, <2>3, LessIsKnown
<1>7. ASSUME NEW d \in s8, Fin!DetailFails(d)
      PROVE  PanelTyped' /\ InspectFollows' /\ VerdictsStand'
  <2>1. UNCHANGED <<s9, s10, s11, s13, s14, clicks>> /\ s8' = s8 \ {d}
    BY <1>7 DEF Fin!DetailFails
  <2> QED BY <1>1, <2>1, LessIsKnown
<1>8. ASSUME NEW f \in s11, Fin!downloadEvidence(f)
      PROVE  PanelTyped' /\ InspectFollows' /\ VerdictsStand'
  <2>1. UNCHANGED <<s8, s9, s10, s13, clicks>> /\ s11' = s11 \ {f}
    BY <1>8 DEF Fin!downloadEvidence
  <2>2. s1[f] \in {"clean", "none"}
    BY <1>1 DEF Stands
  <2>3. s14' = FALSE
    BY <1>1, <1>8, <2>2 DEF Fin!downloadEvidence
  <2> QED BY <1>1, <2>1, <2>3, LessIsKnown
<1>9. CASE \/ \E f \in Files : Fin!handleRetry(f)
           \/ \E p \in s10 : Fin!retryEvidenceSecurityCheck(p)
  BY <1>9, RetryStep
<1> QED BY <1>3, <1>4, <1>5, <1>6, <1>7, <1>8, <1>9, FindingsSteps, AskForStep, InspectedStep,
      RetryAnsweredStep

\* At first the list is on its way, and nothing is known of the files.
LEMMA FindingsInit == Fin!Init => FindingsInv
<1> SUFFICES ASSUME Fin!Init PROVE FindingsInv
  OBVIOUS
<1>1. /\ s1 \in [Files -> {"none", "pending"}] /\ s2 = Fin!Findings
      /\ s3 \in [Files -> Fin!Findings]
      /\ s4 = [filter |-> "all", page |-> 1] /\ s5 = [rows |-> {}, total |-> 0, of |-> None]
      /\ s6 = {[of |-> s4, n |-> 0]} /\ s7 = TRUE /\ s8 = {} /\ s9 = None /\ s10 = {} /\ s11 = {}
      /\ s12 = FALSE /\ s13 = FALSE /\ s14 = FALSE /\ clicks = 0 /\ faults = 0
  BY DEF Fin!Init, Fin!StatusInit
<1>2. s4 \in Fin!Views
  BY <1>1 DEF Fin!Views, Fin!Matches
<1>3. FindingsListTyped
  BY <1>1, <1>2 DEF FindingsListTyped
<1>4. ListFollows
  BY <1>1, <1>2 DEF ListFollows
<1>5. {"none", "pending"} \subseteq Fin!Statuses
  BY DEF Fin!Statuses
<1>6. FilesTyped
  BY <1>1, <1>5 DEF FilesTyped
<1> QED BY <1>1, <1>3, <1>4, <1>6 DEF FindingsInv, PanelTyped, InspectFollows, VerdictsStand

\* The list of findings is of the view chosen, the files in the panel are those of its
\* finding, and the verdicts it shows stand.
LEMMA FindingsShown ==
  Fin!Spec => [](/\ Fin!ListIsOfTheView /\ Fin!FilesOfTheFinding /\ Fin!VerdictsShownStand
                 /\ Fin!TypeOK)
<1>1. FindingsInv => /\ Fin!ListIsOfTheView /\ Fin!FilesOfTheFinding /\ Fin!VerdictsShownStand
                     /\ Fin!TypeOK
  <2> SUFFICES ASSUME FindingsInv
               PROVE  /\ Fin!ListIsOfTheView /\ Fin!FilesOfTheFinding /\ Fin!VerdictsShownStand
                      /\ Fin!TypeOK
    OBVIOUS
  <2>1. Fin!ListIsOfTheView
    BY DEF FindingsInv, ListFollows, Fin!ListIsOfTheView
  <2>2. Fin!FilesOfTheFinding
    BY DEF FindingsInv, InspectFollows, Fin!FilesOfTheFinding
  <2>3. Fin!VerdictsShownStand
    BY DEF FindingsInv, VerdictsStand, Stands, Fin!VerdictsShownStand
  <2>4. Fin!TypeOK
    BY DEF FindingsInv, FindingsListTyped, PanelTyped, FilesTyped, ListFollows, Fin!TypeOK
  <2> QED BY <2>1, <2>2, <2>3, <2>4
<1>2. FindingsInv /\ [Fin!Next]_Fin!fvars => FindingsInv'
  BY FindingsListStep, FilesStep, InspectStep DEF FindingsInv
<1> QED BY <1>1, <1>2, FindingsInit, PTL DEF Fin!Spec

\* How many findings a client asks to test again.
Size(findings) == IF findings = Ret!Findings THEN 2 ELSE 1

\* Two requests at most are under way, and those the backend has accepted find room.
RoomForRetests ==
  /\ \A a, b, c \in s4 : a = b \/ b = c \/ a = c
  /\ Len(s2) <= 2 * Ret!MaxRetests
  /\ \A a \in s4 : a.phase = "read" => Len(s2) + Size(a.findings) <= 2 * Ret!MaxRetests
  /\ \A a, b \in s4 : a.phase = "read" /\ b.phase = "read" /\ a # b =>
       Len(s2) + Size(a.findings) + Size(b.findings) <= 2 * Ret!MaxRetests

\* The panel that is open is of a re-test.
PanelIsOfARetest == s10 # None => s10 \in DOMAIN s2

\* The size of a request is the number of its findings, and of the re-tests it adds.
LEMMA SizeIs ==
  ASSUME NEW findings \in (SUBSET Ret!Findings) \ {{}}
  PROVE  /\ Size(findings) \in {1, 2}
         /\ Ret!Cardinality(findings) = Size(findings)
         /\ Len(Ret!Requested(findings)) = Size(findings)
<1>1. findings = {1} \/ findings = {2} \/ findings = {1, 2}
  BY DEF Ret!Findings
<1>2. Ret!Cardinality(findings) = Cardinality(findings)
  BY DEF Cardinality, Ret!Cardinality
<1>3. IsFiniteSet({1}) /\ Cardinality({1}) = 1 /\ Cardinality({2}) = 1
  BY FS_Singleton
<1>4. Cardinality({1, 2}) = 2
  <2>1. {1, 2} = {1} \union {2} /\ 2 \notin {1}
    OBVIOUS
  <2> QED BY <1>3, <2>1, FS_AddElement
<1>5. Cardinality(findings) = Size(findings) /\ Size(findings) \in {1, 2}
  BY <1>1, <1>3, <1>4 DEF Size, Ret!Findings
<1>6. Len(Ret!Requested(findings)) = IF Ret!Cardinality(findings) = 2 THEN 2 ELSE 1
  BY DEF Ret!Requested
<1> QED BY <1>2, <1>5, <1>6

\* Whoever may ask is alone with the requests that are not his own any more.
LEMMA RoomForOneMore ==
  ASSUME RoomForRetests, Ret!Cardinality(s4) < Ret!MaxAsks PROVE \A a, b \in s4 : a = b
<1> SUFFICES ASSUME NEW a \in s4, NEW b \in s4, a # b PROVE FALSE
  OBVIOUS
<1>1. s4 = {a} \union {b} /\ b \notin {a}
  BY DEF RoomForRetests
<1>2. IsFiniteSet({a}) /\ Cardinality({a}) = 1
  BY FS_Singleton
<1>3. Cardinality({a} \union {b}) = 2
  BY <1>1, <1>2, FS_AddElement
<1>4. Ret!Cardinality(s4) = Cardinality(s4)
  BY DEF Cardinality, Ret!Cardinality
<1> QED BY <1>1, <1>3, <1>4 DEF Ret!MaxAsks

\* The re-tests only grow when a request is committed.
LEMMA RetestsRoomStep ==
  ASSUME Ret!IInv, RoomForRetests, PanelIsOfARetest, [Ret!Next]_Ret!rvars
  PROVE  (RoomForRetests /\ PanelIsOfARetest)'
<1> USE DEF Ret!service, Ret!flags, Ret!tester, Ret!workspace, Ret!client
<1>0. /\ s2 \in Seq(Ret!Rows) /\ s4 \subseteq Ret!Asks /\ Len(s2) \in Nat
      /\ DOMAIN s2 = 1..Len(s2) /\ DOMAIN s9 = 1..Len(s9) /\ Len(s9) \in Nat /\ Len(s9) <= Len(s2)
  BY LenProperties DEF Ret!IInv, Ret!Typed
<1>1. \A a \in s4 : a.findings \in (SUBSET Ret!Findings) \ {{}}
  BY <1>0 DEF Ret!Asks
<1>2. ASSUME s10' = s10, DOMAIN s2 \subseteq DOMAIN s2' PROVE PanelIsOfARetest'
  BY <1>2 DEF PanelIsOfARetest
<1>3. ASSUME Len(s2') = Len(s2),
             \A x \in s4' : \E a \in s4 : x = [a EXCEPT !.own = FALSE]
      PROVE  RoomForRetests'
  <2>1. \A x \in s4' : \E a \in s4 : /\ x = [a EXCEPT !.own = FALSE]
                                     /\ x.findings = a.findings /\ x.phase = a.phase
    BY <1>0, <1>3 DEF Ret!Asks
  <2>2. ASSUME NEW x \in s4', NEW y \in s4', NEW z \in s4' PROVE x = y \/ y = z \/ x = z
    <3>1. PICK a \in s4 : x = [a EXCEPT !.own = FALSE]
      BY <1>3
    <3>2. PICK b \in s4 : y = [b EXCEPT !.own = FALSE]
      BY <1>3
    <3>3. PICK c \in s4 : z = [c EXCEPT !.own = FALSE]
      BY <1>3
    <3> QED BY <3>1, <3>2, <3>3 DEF RoomForRetests
  <2>3. \A x \in s4' : x.phase = "read" => Len(s2) + Size(x.findings) <= 2 * Ret!MaxRetests
    BY <2>1 DEF RoomForRetests
  <2>4. ASSUME NEW x \in s4', NEW y \in s4', x.phase = "read", y.phase = "read", x # y
        PROVE  Len(s2) + Size(x.findings) + Size(y.findings) <= 2 * Ret!MaxRetests
    <3>1. PICK a \in s4 : /\ x = [a EXCEPT !.own = FALSE]
                          /\ x.findings = a.findings /\ x.phase = a.phase
      BY <2>1
    <3>2. PICK b \in s4 : /\ y = [b EXCEPT !.own = FALSE]
                          /\ y.findings = b.findings /\ y.phase = b.phase
      BY <2>1
    <3> QED BY <2>4, <3>1, <3>2 DEF RoomForRetests
  <2> QED BY <1>3, <2>2, <2>3, <2>4 DEF RoomForRetests
<1>4. ASSUME Len(s2') = Len(s2), s4' \subseteq s4 PROVE RoomForRetests'
  BY <1>4 DEF RoomForRetests
<1>5. CASE UNCHANGED Ret!rvars
  BY <1>2, <1>4, <1>5 DEF Ret!rvars
<1>6. CASE \/ Ret!WindowEnds \/ Ret!useRetestWindow \/ Ret!EligibleArrives \/ Ret!ShowModal
           \/ Ret!handleFile \/ Ret!UploadEnds \/ Ret!CancelOutcome
           \/ \E o \in Ret!COMPLETED_STATUSES : Ret!ChooseOutcome(o)
           \/ Ret!StartRetest \/ Ret!saveOutcome
           \/ \E p \in s14 : \/ Ret!UpdateRead(p) \/ Ret!UpdateWrites(p) \/ Ret!PatchFails(p)
                             \/ Ret!ListArrives(p)
  <2>1. UNCHANGED <<s2, s4, s10>>
    BY <1>6 DEF Ret!WindowEnds, Ret!useRetestWindow, Ret!EligibleArrives, Ret!ShowModal,
       Ret!handleFile, Ret!UploadEnds, Ret!CancelOutcome, Ret!ChooseOutcome, Ret!StartRetest,
       Ret!saveOutcome, Ret!patch, Ret!UpdateRead, Ret!UpdateWrites, Ret!PatchFails,
       Ret!ListArrives, Ret!PatchEnds
  <2> QED BY <1>2, <1>4, <2>1
<1>7. ASSUME NEW p \in s14, Ret!UpdateCommits(p) PROVE (RoomForRetests /\ PanelIsOfARetest)'
  <2>1. s2' = Ret!Updated(p) /\ UNCHANGED <<s4, s10>>
    BY <1>7 DEF Ret!UpdateCommits
  <2>2. DOMAIN s2' = DOMAIN s2 /\ Len(s2') = Len(s2)
    BY <2>1, UpdatedIs DEF Ret!IInv
  <2> QED BY <1>2, <1>4, <2>1, <2>2
<1>8. CASE Ret!VisitRetests \/ Ret!ClosePanel \/ \E r \in DOMAIN s9 : Ret!RetestCard(r)
  <2>1. UNCHANGED <<s2, s4>> /\ s10' \in {None} \union DOMAIN s9
    BY <1>8 DEF Ret!VisitRetests, Ret!ClosePanel, Ret!RetestCard, Ret!OpenPanel
  <2>2. s10' # None => s10' \in DOMAIN s2
    BY <1>0, <2>1
  <2> QED BY <1>4, <2>1, <2>2 DEF PanelIsOfARetest
<1>9. CASE Ret!Visit \/ Ret!CloseModal \/ \E a \in s4 : Ret!handleRetestRequested(a)
  <2>1. UNCHANGED <<s2, s10>> /\ \A x \in s4' : \E a \in s4 : x = [a EXCEPT !.own = FALSE]
    BY <1>9 DEF Ret!Visit, Ret!CloseModal, Ret!handleRetestRequested
  <2> QED BY <1>2, <1>3, <2>1
<1>10. ASSUME NEW a \in s4, Ret!RequestFails(a) PROVE (RoomForRetests /\ PanelIsOfARetest)'
  <2>1. UNCHANGED <<s2, s10>> /\ s4' = s4 \ {a}
    BY <1>10 DEF Ret!RequestFails
  <2> QED BY <1>2, <1>4, <2>1
<1>11. CASE Ret!handleSubmit
  <2>1. UNCHANGED <<s2, s10>> /\ Ret!Cardinality(s4) < Ret!MaxAsks
    BY <1>11 DEF Ret!handleSubmit
  <2>2. PICK selected \in (SUBSET s6) \ {{}} :
          s4' = s4 \union {[findings |-> selected, phase |-> "sent", own |-> TRUE]}
    BY <1>11 DEF Ret!handleSubmit, Ret!Selections
  <2> DEFINE q == [findings |-> selected, phase |-> "sent", own |-> TRUE]
  <2>3. q.phase = "sent" /\ s4' = s4 \union {q}
    BY <2>2
  <2> HIDE DEF q
  <2>4. \A a, b \in s4 : a = b
    BY <2>1, RoomForOneMore
  <2>5. \A a, b, c \in s4' : a = b \/ b = c \/ a = c
    BY <2>3, <2>4
  <2>6. \A a \in s4' : a.phase = "read" => a \in s4
    BY <2>3
  <2>7. RoomForRetests'
    BY <2>1, <2>5, <2>6 DEF RoomForRetests
  <2> QED BY <1>2, <2>1, <2>7
<1>12. ASSUME NEW a \in s4, Ret!RequestRead(a) PROVE (RoomForRetests /\ PanelIsOfARetest)'
  <2>1. UNCHANGED <<s2, s10>> /\ Len(s2) + Ret!Cardinality(a.findings) <= Ret!MaxRetests
    BY <1>12 DEF Ret!RequestRead
  <2>2. PICK phase \in {"read", "refused"} :
          s4' = (s4 \ {a}) \union {[a EXCEPT !.phase = phase]}
    BY <1>12 DEF Ret!RequestRead
  <2> DEFINE q == [a EXCEPT !.phase = phase]
  <2>3. q.findings = a.findings /\ s4' = (s4 \ {a}) \union {q}
    BY <1>0, <2>2 DEF Ret!Asks
  <2> HIDE DEF q
  <2>4. \A x, y, z \in s4' : x = y \/ y = z \/ x = z
    BY <2>3 DEF RoomForRetests
  <2>5. Len(s2) + Size(a.findings) <= 2
    BY <1>1, <2>1, SizeIs DEF Ret!MaxRetests
  <2>6. \A x \in s4 : Size(x.findings) \in {1, 2}
    BY <1>1, SizeIs
  <2>7. \A x \in s4' : x.phase = "read" => Len(s2) + Size(x.findings) <= 2 * Ret!MaxRetests
    BY <1>0, <2>3, <2>5, <2>6 DEF RoomForRetests, Ret!MaxRetests
  <2>8. \A x \in s4 : Len(s2) + Size(a.findings) + Size(x.findings) <= 2 * Ret!MaxRetests
    BY <1>0, <2>5, <2>6 DEF Ret!MaxRetests
  <2>9. \A x \in s4 : Len(s2) + Size(x.findings) + Size(a.findings) <= 2 * Ret!MaxRetests
    BY <1>0, <2>6, <2>8
  <2>10. \A x, y \in s4' : x.phase = "read" /\ y.phase = "read" /\ x # y =>
           Len(s2) + Size(x.findings) + Size(y.findings) <= 2 * Ret!MaxRetests
    BY <2>3, <2>8, <2>9 DEF RoomForRetests
  <2>11. RoomForRetests'
    BY <2>1, <2>4, <2>7, <2>10 DEF RoomForRetests
  <2> QED BY <1>2, <2>1, <2>11
<1>13. ASSUME NEW a \in s4, Ret!RequestCommits(a) PROVE (RoomForRetests /\ PanelIsOfARetest)'
  <2>1. s10' = s10 /\ s2' = s2 \o Ret!Requested(a.findings) /\ a.phase = "read"
        /\ s4' = (s4 \ {a}) \union {[a EXCEPT !.phase = "done"]}
    BY <1>13 DEF Ret!RequestCommits
  <2> DEFINE q == [a EXCEPT !.phase = "done"]
  <2>2. q.phase = "done" /\ s4' = (s4 \ {a}) \union {q}
    BY <1>0, <2>1 DEF Ret!Asks
  <2> HIDE DEF q
  <2>3. /\ Ret!Requested(a.findings) \in Seq(Ret!Rows)
        /\ Len(Ret!Requested(a.findings)) = Size(a.findings) /\ Size(a.findings) \in {1, 2}
    BY <1>1, SizeIs, RequestedIs
  <2>4. PICK new \in Seq(Ret!Rows) : new = Ret!Requested(a.findings)
    BY <2>3
  <2>5. Len(s2') = Len(s2) + Size(a.findings) /\ DOMAIN s2' = 1..Len(s2')
    <3>1. Len(s2 \o new) = Len(s2) + Len(new) /\ s2 \o new \in Seq(Ret!Rows)
      BY <1>0, <2>4, ConcatProperties
    <3>2. DOMAIN (s2 \o new) = 1..Len(s2 \o new)
      BY <3>1, LenProperties
    <3> QED BY <2>1, <2>3, <2>4, <3>1, <3>2
  <2>6. DOMAIN s2 \subseteq DOMAIN s2'
    BY <1>0, <2>3, <2>5
  <2>7. \A x \in s4' : x.phase = "read" => x \in s4 \ {a}
    BY <2>2
  <2>8. \A x, y, z \in s4' : x = y \/ y = z \/ x = z
    BY <2>2 DEF RoomForRetests
  <2>9. Len(s2') <= 2 * Ret!MaxRetests
    BY <2>1, <2>5 DEF RoomForRetests
  <2>10. \A x \in s4' : x.phase = "read" => Len(s2') + Size(x.findings) <= 2 * Ret!MaxRetests
    BY <2>1, <2>5, <2>7 DEF RoomForRetests
  <2>11. \A x, y \in s4' : x.phase = "read" /\ y.phase = "read" => x = y
    BY <2>7 DEF RoomForRetests
  <2>12. RoomForRetests'
    BY <2>8, <2>9, <2>10, <2>11 DEF RoomForRetests
  <2> QED BY <1>2, <2>1, <2>6, <2>12
<1> QED
  BY <1>5, <1>6, <1>7, <1>8, <1>9, <1>10, <1>11, <1>12, <1>13 DEF Ret!Next

\* The re-tests are at most as many as there is room for, and the panel is of one of them.
LEMMA RetestsTyped == Ret!Spec => []Ret!TypeOK
<1>1. Ret!Init => RoomForRetests /\ PanelIsOfARetest
  <2> SUFFICES ASSUME Ret!Init PROVE RoomForRetests /\ PanelIsOfARetest
    OBVIOUS
  <2>1. s4 = {} /\ s2 = <<>> /\ s10 = None /\ Len(s2) = 0
    BY DEF Ret!Init
  <2> QED BY <2>1 DEF RoomForRetests, PanelIsOfARetest, Ret!MaxRetests
<1>2. /\ Ret!IInv /\ [Ret!Next]_Ret!rvars => Ret!IInv'
      /\ Ret!IInv /\ RoomForRetests /\ PanelIsOfARetest /\ [Ret!Next]_Ret!rvars
           => (RoomForRetests /\ PanelIsOfARetest)'
  BY RetestsStepSound, RetestsRoomStep
<1>3. Ret!IInv /\ RoomForRetests /\ PanelIsOfARetest => Ret!TypeOK
  <2> SUFFICES ASSUME Ret!IInv, RoomForRetests, PanelIsOfARetest PROVE Ret!TypeOK
    OBVIOUS
  <2>1. s2 \in Seq(Ret!Rows) /\ \A r \in DOMAIN s2 : s2[r].of \in Ret!Findings
    <3>1. s2 \in Seq(Ret!Rows)
      BY DEF Ret!IInv, Ret!Typed
    <3>2. \A r \in DOMAIN s2 : s2[r] \in Ret!Rows
      BY <3>1
    <3>3. \A row \in Ret!Rows : row.of \in Ret!Findings
      BY DEF Ret!Rows
    <3> QED BY <3>1, <3>2, <3>3
  <2>2. /\ s1 \in {"completed", "retesting"} /\ Len(s9) <= Len(s2) /\ s6 \subseteq Ret!Findings
        /\ s11 \in Ret!COMPLETED_STATUSES \union {None} /\ \A p \in s14 : p.id \in DOMAIN s2
    BY DEF Ret!IInv, Ret!Typed
  <2>3. Len(s2) <= 2 * Ret!MaxRetests /\ (s10 # None => s10 \in DOMAIN s2)
    BY DEF RoomForRetests, PanelIsOfARetest
  <2> QED BY <2>1, <2>2, <2>3 DEF Ret!TypeOK
<1> QED BY <1>1, <1>2, <1>3, RetestsInit, PTL DEF Ret!Spec

\* What is stored of the engagement, and what the page has loaded of it, have their values.
ConsoleKnows ==
  /\ s1 \in Con!Stages /\ s2 \in Nat
  /\ s4 \in [verified : BOOLEAN, refuted : BOOLEAN]
  /\ s7 \in Con!Stages \union {None} /\ s9 \in Seq(Con!Stages)
  /\ s14 \in {"manual", "scan", None} /\ s15 \in BOOLEAN

\* What is left of the answers when one of them arrives.
LEMMA OthersAre ==
  ASSUME s9 \in Seq(Con!Stages), NEW i \in 1..Len(s9)
  PROVE  Con!Others(i) \in Seq(Con!Stages) /\ s9[i] \in Con!Stages
<1>1. Len(s9) \in Nat /\ i \in Int
  BY LenProperties
<1>2. SubSeq(s9, 1, i - 1) \in Seq(Con!Stages)
  BY <1>1
<1>3. SubSeq(s9, i + 1, Len(s9)) \in Seq(Con!Stages)
  BY <1>1
<1> QED BY <1>1, <1>2, <1>3, ConcatProperties DEF Con!Others

\* Every step keeps that.
LEMMA ConsoleKnowsStep ==
  ASSUME ConsoleTyped, ConsoleKnows, [Con!Next]_Con!pcvars PROVE ConsoleKnows'
<1> USE DEF Con!dialogs, Con!detail, Con!record, Con!findings
<1>1. ASSUME UNCHANGED <<s1, s2, s4>>, s7' \in Con!Stages \union {None}, s9' \in Seq(Con!Stages),
             s14' \in {"manual", "scan", None}, s15' \in BOOLEAN
      PROVE  ConsoleKnows'
  BY <1>1 DEF ConsoleKnows
<1>2. /\ s1 \in Con!Stages /\ s7 \in Con!Stages \union {None} /\ s9 \in Seq(Con!Stages)
      /\ s14 \in {"manual", "scan", None} /\ s15 \in BOOLEAN
  BY DEF ConsoleKnows
<1>3. ASSUME NEW op \in s6, Con!Check(op) \/ Con!Refused(op) \/ Con!SaveFails(op)
      PROVE  ConsoleKnows'
  <2>1. UNCHANGED <<s1, s2, s4, s7, s9, s14, s15>>
    BY <1>3 DEF Con!Check, Con!Refused, Con!SaveFails
  <2> QED BY <1>1, <1>2, <2>1
<1>4. ASSUME NEW op \in s6, Con!Commit(op) PROVE ConsoleKnows'
  <2>1. UNCHANGED <<s7, s9, s14, s15>>
    BY <1>4 DEF Con!Commit
  <2>2. s1' \in Con!Stages
    <3>1. s1' = CASE op.kind = "start" -> "in_progress"
                  [] op.kind = "submit" -> "review"
                  [] OTHER -> s1
      BY <1>4 DEF Con!Commit
    <3> QED BY <1>2, <3>1 DEF Con!Stages
  <2>3. s2' \in Nat
    BY <1>4 DEF Con!Commit, ConsoleKnows
  <2>4. s4' \in [verified : BOOLEAN, refuted : BOOLEAN]
    <3>1. s4' \in {s4, [s4 EXCEPT !.verified = TRUE], [s4 EXCEPT !.refuted = TRUE]}
      BY <1>4 DEF Con!Commit
    <3> QED BY <3>1 DEF ConsoleKnows
  <2> QED BY <2>1, <2>2, <2>3, <2>4 DEF ConsoleKnows
<1>5. ASSUME NEW op \in s6, Con!StatusAnswered(op) PROVE ConsoleKnows'
  <2>1. UNCHANGED <<s1, s2, s4, s9, s14, s15>> /\ s7' \in {"in_progress", "review"}
    BY <1>5 DEF Con!StatusAnswered
  <2> QED BY <1>1, <1>2, <2>1 DEF Con!Stages
<1>6. ASSUME NEW op \in s6, Con!ChangeAnswered(op) PROVE ConsoleKnows'
  <2>1. UNCHANGED <<s1, s2, s4, s7, s14, s15>> /\ s9' = Append(s9, s1)
    BY <1>6 DEF Con!ChangeAnswered
  <2> QED BY <1>1, <1>2, <2>1, AppendProperties
<1>7. ASSUME NEW op \in s6, Con!addFinding(op) PROVE ConsoleKnows'
  <2>1. UNCHANGED <<s1, s2, s4, s9>> /\ s7' \in {s1, s7}
        /\ ((s14' = s14 /\ s15' = s15) \/ (s14' = None /\ s15' = FALSE))
    BY <1>7 DEF Con!addFinding
  <2> QED BY <1>1, <1>2, <2>1
<1>8. CASE Con!getEngagement
  <2>1. UNCHANGED <<s1, s2, s4, s7, s14, s15>> /\ s9' = <<s1>>
    BY <1>8 DEF Con!getEngagement
  <2> QED BY <1>1, <1>2, <2>1
<1>9. ASSUME NEW i \in 1..2, Con!fetchEngagementDetail(i) PROVE ConsoleKnows'
  <2>1. UNCHANGED <<s1, s2, s4, s14, s15>> /\ i \in 1..Len(s9) /\ s7' = s9[i]
        /\ s9' = Con!Others(i)
    BY <1>9 DEF Con!fetchEngagementDetail
  <2> QED BY <1>1, <1>2, <2>1, OthersAre
<1>10. ASSUME NEW i \in 1..2, Con!DetailFails(i) PROVE ConsoleKnows'
  <2>1. UNCHANGED <<s1, s2, s4, s7>> /\ i \in 1..Len(s9) /\ s9' = Con!Others(i)
        /\ s14' = None /\ s15' = FALSE
    BY <1>10 DEF Con!DetailFails, Con!ShowError
  <2> QED BY <1>1, <1>2, <2>1, OthersAre
<1>11. CASE \/ Con!VisitEngagement \/ Con!startEngagement \/ Con!submitEngagementForReview
            \/ Con!OpenForm \/ Con!Write \/ Con!requestClose \/ Con!KeepEditing \/ Con!Discard
            \/ Con!save \/ UNCHANGED Con!pcvars
  <2>1. UNCHANGED <<s1, s2, s4, s7, s9, s14, s15>>
    BY <1>11 DEF Con!VisitEngagement, Con!startEngagement, Con!submitEngagementForReview,
       Con!OpenForm, Con!Write, Con!requestClose, Con!KeepEditing, Con!Discard, Con!save,
       Con!pcvars
  <2> QED BY <1>1, <1>2, <2>1
<1>12. ASSUME NEW kind \in {"manual", "scan"}, Con!OpenPanel(kind) PROVE ConsoleKnows'
  BY <1>1, <1>2, <1>12 DEF Con!OpenPanel
<1>13. CASE Con!ClosePanel \/ Con!AskToDelete \/ Con!KeepFinding \/ Con!deleteFinding
  <2>1. UNCHANGED <<s1, s2, s4, s7, s9>> /\ s14' \in {s14, None}
    BY <1>13 DEF Con!ClosePanel, Con!AskToDelete, Con!KeepFinding, Con!deleteFinding
  <2>2. s15' \in BOOLEAN
    BY <1>13 DEF Con!ClosePanel, Con!AskToDelete, Con!KeepFinding, Con!deleteFinding
  <2> QED BY <1>1, <1>2, <2>1, <2>2
<1>14. ASSUME NEW kind \in {"confirm", "refute"}, Con!Judge(kind) PROVE ConsoleKnows'
  BY <1>1, <1>2, <1>14 DEF Con!Judge
<1> QED
  BY <1>3, <1>4, <1>5, <1>6, <1>7, <1>8, <1>9, <1>10, <1>11, <1>12, <1>13, <1>14 DEF Con!Next

\* The console shows what it has loaded, and its requests and form have their values.
LEMMA ConsoleIsTyped == Con!Spec => []Con!TypeOK
<1> DEFINE I == ConsoleTyped /\ NothingPending /\ ConsoleKnows
<1>1. Con!Init => I
  <2>1. ASSUME Con!Init PROVE ConsoleKnows
    <3>1. s4 = [verified |-> FALSE, refuted |-> FALSE] /\ s9 = <<>> /\ s15 = FALSE
      BY <2>1 DEF Con!Init
    <3>2. s4 \in [verified : BOOLEAN, refuted : BOOLEAN] /\ s9 \in Seq(Con!Stages)
      BY <3>1
    <3>3. s1 \in Con!Stages /\ s2 \in Nat /\ s7 = None /\ s14 = None
      BY <2>1 DEF Con!Init, Con!Stages
    <3> QED BY <3>1, <3>2, <3>3 DEF ConsoleKnows
  <2> QED BY <2>1, ConsoleInit
<1>2. I /\ [Con!Next]_Con!pcvars => I'
  BY ConsoleStepSound, ConsoleKnowsStep
<1>3. I => Con!TypeOK
  <2> SUFFICES ASSUME I PROVE Con!TypeOK
    OBVIOUS
  <2>1. \A i \in 1..Len(s9) : s9[i] \in Con!Stages
    BY DEF ConsoleKnows
  <2> QED BY <2>1 DEF Con!TypeOK, ConsoleTyped, ConsoleKnows, ConsoleForms
<1> QED
  <2> HIDE DEF I
  <2> QED BY <1>1, <1>2, <1>3, PTL DEF Con!Spec
====
