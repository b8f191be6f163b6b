----------------------- MODULE ReportLifecycle_proofs ------------------------
(* Proofs about the report of one scan, for any number of callbacks that ask  *)
(* for it and any number of crashes. Nothing but luck keeps two of them from  *)
(* generating at once, so most of the invariant holds as long as that has not *)
(* happened: then there is one generation, and what its handler and its task  *)
(* have read is what the row holds.                                           *)
EXTENDS ReportLifecycle, TLAPS

\* h's generation has begun and has not ended.
Generates(h) == handler[h].pc \in HandlerOpen \/ render[h].pc \in RenderOpen

\* A task is published by its handler, which then only records it.
Published(h) ==
  /\ render[h].pc # "none" => handler[h].pc \in {"recording", "done", "dead"}
  /\ handler[h].pc = "recording" => render[h].pc # "none"

\* Where the handler is tells what the row holds and what its copy does; a task
\* under way finds the row generating, and one that ended has settled it.
Agrees(h) ==
  /\ handler[h].pc = "checked" =>
       /\ report.status \in {"none", "pending", "failed"} /\ handler[h].copy = report.status
       /\ handler[h].held <=> report.status # "none"
  /\ handler[h].pc = "creating" => report.status = "none"
  /\ handler[h].pc = "marking" =>
       report.status \in {"pending", "failed"} /\ handler[h].copy = report.status
  /\ handler[h].pc \in {"loading", "building"} =>
       report.status = "generating" /\ handler[h].copy = "generating"
  /\ handler[h].pc = "recording" => handler[h].copy = "generating"
  /\ render[h].pc \in RenderOpen => report.status = "generating"
  /\ render[h].pc = "loaded" => render[h].copy = report
  /\ handler[h].pc = "recording" /\ render[h].pc = "done" /\ faults = 0 =>
       report.status \in Settled

OneGeneration == \A g, h \in Handlers : Generates(g) /\ Generates(h) => g = h

IInv ==
  /\ TypeOK
  /\ \A h \in Handlers : Published(h)
  /\ ~contended => OneGeneration /\ \A h \in Handlers : Agrees(h)
  /\ GeneratingIsUnderWay /\ CompletedHasPdf

-----------------------------------------------------------------------------
\* One generation has nobody else to look after: what a step of it leaves of the
\* invariant, it leaves to itself.
LEMMA OneStep ==
  ASSUME IInv, NEW h \in Handlers, Generates(h),
         \A g \in Handlers \ {h} : handler'[g] = handler[g] /\ render'[g] = render[g],
         contended' = contended,
         TypeOK', Published(h)', ~contended => Agrees(h)', CompletedHasPdf',
         report'.status \in {"pending", "generating"} =>
           Generates(h)' \/ faults' > 0 \/ contended'
  PROVE  IInv'
<1>1. \A g \in Handlers : Published(g)'
  BY DEF IInv, Published
<1>2. ~contended' => OneGeneration'
  BY DEF IInv, OneGeneration, Generates
<1>3. ASSUME ~contended', NEW g \in Handlers PROVE Agrees(g)'
  <2>1. CASE g = h
    BY <1>3, <2>1
  <2>2. CASE g # h
    <3>1. ~Generates(g) /\ handler'[g] = handler[g] /\ render'[g] = render[g]
      BY <1>3, <2>2 DEF IInv, OneGeneration
    <3> QED BY <3>1 DEF Generates, Agrees, HandlerOpen, HandlerPc, RenderOpen, RenderPc
  <2> QED BY <2>1, <2>2
<1>4. GeneratingIsUnderWay'
  BY DEF GeneratingIsUnderWay, Busy, Generates
<1> QED BY <1>1, <1>2, <1>3, <1>4 DEF IInv

\* At first there is no row and nobody has asked.
LEMMA InitSound == Init => IInv
<1> SUFFICES ASSUME Init PROVE IInv
  OBVIOUS
<1>1. TypeOK
  <2>1. NoReport \in Report
    BY DEF NoReport, Report, ReportStatus
  <2>2. handler \in [Handlers -> Handler]
    BY DEF Init, Handler, HandlerPc, ReportStatus
  <2>3. render \in [Handlers -> Render]
    BY <2>1 DEF Init, Render, RenderPc, Settled
  <2>4. faults \in 0..MaxFaults
    BY ReportAssumption DEF Init
  <2> QED BY <2>1, <2>2, <2>3, <2>4 DEF Init, TypeOK
<1>2. report.status = "none"
  BY DEF Init, NoReport
<1>3. \A h \in Handlers : handler[h].pc = "idle" /\ render[h].pc = "none"
  BY DEF Init
<1>4. \A h \in Handlers : Published(h) /\ Agrees(h) /\ ~Generates(h)
  BY <1>3 DEF Published, Agrees, Generates, HandlerOpen, HandlerPc, RenderOpen, RenderPc
<1> QED
  BY <1>1, <1>2, <1>4 DEF IInv, OneGeneration, GeneratingIsUnderWay, CompletedHasPdf

-----------------------------------------------------------------------------
\* The steps of a handler after its check, each a transaction of its own.
LEMMA HandlerSound ==
  ASSUME IInv, NEW h \in Handlers, HandlerStep(h)
  PROVE  IInv'
<1> USE DEF HandlerOpen, HandlerPc, RenderOpen, RenderPc, Settled, ReportStatus
<1> DEFINE Kept ==
      /\ TypeOK' /\ Published(h)' /\ (~contended => Agrees(h)') /\ CompletedHasPdf'
      /\ report'.status \in {"pending", "generating"} =>
           Generates(h)' \/ faults' > 0 \/ contended'
<1>1. /\ TypeOK /\ Published(h) /\ (~contended => Agrees(h)) /\ CompletedHasPdf
      /\ handler[h] \in Handler /\ render[h] \in Render
  BY DEF IInv, TypeOK
<1>2. /\ Generates(h) /\ contended' = contended
      /\ \A g \in Handlers \ {h} : handler'[g] = handler[g] /\ render'[g] = render[g]
  BY <1>1 DEF HandlerStep, Find, Create, MarkGenerating, LoadData, Publish, BuildFails, RecordTask,
     Generates, TypeOK
<1> SUFFICES Kept
  BY <1>2, OneStep
<1> USE <1>1 DEF TypeOK, Published, Agrees, CompletedHasPdf, Generates, Handler, Render, Report
<1>3. CASE Find(h)
  BY <1>3 DEF Find
<1>4. CASE Create(h)
  BY <1>4 DEF Create
<1>5. CASE MarkGenerating(h)
  BY <1>5 DEF MarkGenerating, Written
<1>6. CASE LoadData(h)
  BY <1>6 DEF LoadData
<1>7. CASE Publish(h)
  BY <1>7 DEF Publish
<1>8. CASE BuildFails(h)
  BY <1>8 DEF BuildFails, Written
<1>9. CASE RecordTask(h)
  BY <1>9 DEF RecordTask, Written
<1> QED BY <1>3, <1>4, <1>5, <1>6, <1>7, <1>8, <1>9 DEF HandlerStep

\* The steps of a render task.
LEMMA RenderSound ==
  ASSUME IInv, NEW h \in Handlers, RenderStep(h)
  PROVE  IInv'
<1> USE DEF HandlerOpen, HandlerPc, RenderOpen, RenderPc, Settled, ReportStatus
<1> DEFINE Kept ==
      /\ TypeOK' /\ Published(h)' /\ (~contended => Agrees(h)') /\ CompletedHasPdf'
      /\ report'.status \in {"pending", "generating"} =>
           Generates(h)' \/ faults' > 0 \/ contended'
<1>1. /\ TypeOK /\ Published(h) /\ (~contended => Agrees(h)) /\ CompletedHasPdf
      /\ handler[h] \in Handler /\ render[h] \in Render
  BY DEF IInv, TypeOK
<1>2. /\ Generates(h) /\ contended' = contended
      /\ \A g \in Handlers \ {h} : handler'[g] = handler[g] /\ render'[g] = render[g]
  BY <1>1 DEF RenderStep, RenderPdf, CallbackLoads, CallbackCommits, Generates, TypeOK
<1> SUFFICES Kept
  BY <1>2, OneStep
<1> USE <1>1 DEF TypeOK, Published, Agrees, CompletedHasPdf, Generates, Handler, Render, Report
<1>3. ASSUME NEW target \in Settled, RenderPdf(h, target) PROVE Kept
  BY <1>3 DEF RenderPdf
<1>4. CASE CallbackLoads(h)
  BY <1>4 DEF CallbackLoads
<1>5. CASE CallbackCommits(h)
  BY <1>5 DEF CallbackCommits, Written
<1> QED BY <1>3, <1>4, <1>5 DEF RenderStep

\* A handler dies, or the callback of a task is lost.
LEMMA FaultSound ==
  ASSUME IInv, NEW h \in Handlers, HandlerDies(h) \/ RenderLost(h)
  PROVE  IInv'
<1> USE DEF HandlerOpen, HandlerPc, RenderOpen, RenderPc, Settled, ReportStatus
<1>1. /\ TypeOK /\ Published(h) /\ (~contended => Agrees(h)) /\ CompletedHasPdf
      /\ handler[h] \in Handler /\ render[h] \in Render
  BY DEF IInv, TypeOK
<1>2. /\ Generates(h) /\ contended' = contended
      /\ \A g \in Handlers \ {h} : handler'[g] = handler[g] /\ render'[g] = render[g]
  BY <1>1 DEF HandlerDies, RenderLost, Generates, TypeOK
<1>3. TypeOK' /\ Published(h)' /\ (~contended => Agrees(h)') /\ CompletedHasPdf' /\ faults' > 0
  BY <1>1, ReportAssumption DEF HandlerDies, RenderLost, TypeOK, Published, Agrees,
     CompletedHasPdf, Handler, Render, Report
<1> QED BY <1>2, <1>3, OneStep

\* A callback that comes while a generation is under way is turned away, or
\* makes the two contend; otherwise its generation is the only one.
LEMMA CheckSound ==
  ASSUME IInv, NEW h \in Handlers, Check(h)
  PROVE  IInv'
<1> USE DEF HandlerOpen, HandlerPc, RenderOpen, RenderPc, Settled, ReportStatus
<1>1. /\ TypeOK /\ Published(h) /\ render[h].pc = "none" /\ ~Generates(h)
      /\ handler[h] \in Handler /\ render[h] \in Render
  BY DEF IInv, TypeOK, Check, Published, Generates, Render
<1>2. /\ UNCHANGED <<report, render, faults>> /\ contended' \in BOOLEAN /\ (contended => contended')
      /\ \A g \in Handlers \ {h} : handler'[g] = handler[g]
  BY <1>1 DEF Check, TypeOK
<1>3. TypeOK' /\ Published(h)'
  <2> DEFINE checked == [pc |-> "checked", held |-> report.status # "none", copy |-> report.status]
             over == [handler[h] EXCEPT !.pc = "done"]
  <2>1. checked \in Handler /\ over \in Handler /\ checked.pc = "checked" /\ over.pc = "done"
    <3>1. (report.status # "none") \in BOOLEAN /\ report.status \in ReportStatus
      BY <1>1 DEF TypeOK, Report
    <3> QED BY <1>1, <3>1 DEF Handler
  <2>2. handler' = [handler EXCEPT ![h] = checked] \/ handler' = [handler EXCEPT ![h] = over]
    BY DEF Check
  <2> HIDE DEF checked, over
  <2>3. handler' \in [Handlers -> Handler] /\ handler'[h].pc \in {"done", "checked"}
    BY <1>1, <2>1, <2>2 DEF TypeOK
  <2>4. TypeOK'
    BY <1>1, <1>2, <2>3 DEF TypeOK
  <2>5. Published(h)'
    BY <1>1, <1>2, <2>3 DEF Published
  <2> QED BY <2>4, <2>5
<1>4. \A g \in Handlers : Published(g)'
  BY <1>2, <1>3 DEF IInv, Published
<1>5. CompletedHasPdf'
  BY <1>2 DEF IInv, CompletedHasPdf
<1>6. CASE report.status \in {"generating", "completed"}
  <2>1. handler' = [handler EXCEPT ![h].pc = "done"] /\ contended' = contended
    BY <1>6 DEF Check
  <2>2. ~Generates(h)' /\ \A g \in Handlers \ {h} : Generates(g)' <=> Generates(g)
    BY <1>1, <1>2, <2>1 DEF Generates, TypeOK
  <2>3. ~contended => OneGeneration' /\ \A g \in Handlers : Agrees(g)'
    BY <1>1, <1>2, <2>1, <2>2 DEF IInv, OneGeneration, Agrees, Generates, TypeOK
  <2>4. GeneratingIsUnderWay'
    BY <1>1, <1>2, <2>1, <2>2 DEF IInv, GeneratingIsUnderWay, Busy, Generates
  <2> QED BY <1>3, <1>4, <1>5, <2>1, <2>3, <2>4 DEF IInv
<1>7. CASE report.status \notin {"generating", "completed"}
  <2>1. /\ handler' = [handler EXCEPT ![h] =
              [pc |-> "checked", held |-> report.status # "none", copy |-> report.status]]
        /\ contended' = (contended \/ Busy)
    BY <1>7 DEF Check
  <2>2. Generates(h)'
    BY <1>1, <2>1 DEF Generates, TypeOK
  <2>3. GeneratingIsUnderWay'
    BY <2>2 DEF GeneratingIsUnderWay, Busy, Generates
  <2>4. ASSUME ~contended' PROVE OneGeneration' /\ \A g \in Handlers : Agrees(g)'
    <3>1. ~contended /\ \A g \in Handlers : ~Generates(g) /\ Agrees(g)
      BY <2>1, <2>4 DEF IInv, Busy, Generates
    <3>2. \A g \in Handlers \ {h} : ~Generates(g)'
      BY <1>2, <3>1 DEF Generates
    <3>3. Agrees(h)'
      BY <1>1, <1>2, <1>7, <2>1 DEF Agrees, TypeOK, Report
    <3>4. \A g \in Handlers \ {h} : Agrees(g)'
      BY <1>2, <3>1 DEF Agrees, Generates
    <3> QED BY <3>2, <3>3, <3>4 DEF OneGeneration
  <2> QED BY <1>3, <1>4, <1>5, <2>3, <2>4 DEF IInv
<1> QED BY <1>6, <1>7

\* A step that changes nothing.
LEMMA StutterSound ==
  ASSUME IInv, UNCHANGED vars
  PROVE  IInv'
BY DEF IInv, TypeOK, Published, Agrees, OneGeneration, Generates, GeneratingIsUnderWay,
   CompletedHasPdf, Busy, vars

\* The invariant holds in every reachable state.
THEOREM Sound == Spec => []IInv
<1>1. IInv /\ [Next]_vars => IInv'
  BY CheckSound, HandlerSound, RenderSound, FaultSound, StutterSound DEF Next, Terminated
<1> QED BY <1>1, InitSound, PTL DEF Spec

-----------------------------------------------------------------------------
\* The row, the handlers' copies of it and the tasks stay within their types.
THEOREM TypeCorrect == Spec => []TypeOK
<1>1. IInv => TypeOK
  BY DEF IInv
<1> QED BY <1>1, Sound, PTL

\* A report shown as generating is somebody's to settle, whatever the number of
\* callbacks: only a crash, a lost callback or two generations at once can leave
\* it so for good.
THEOREM GeneratingIsSomebodys == Spec => []GeneratingIsUnderWay
<1>1. IInv => GeneratingIsUnderWay
  BY DEF IInv
<1> QED BY <1>1, Sound, PTL

\* A report said to be completed has its PDF, as long as one generation runs at a
\* time; failures, retries and crashes before it do not matter.
THEOREM CompletedIsDownloadable == Spec => []CompletedHasPdf
<1>1. IInv => CompletedHasPdf
  BY DEF IInv
<1> QED BY <1>1, Sound, PTL

\* A completed report is not taken back: a handler that still has to record its
\* task writes the status that its copy already has, which is no write at all.
THEOREM CompletedStays == Spec => CompletedIsKept
<1>1. ASSUME IInv, [Next]_vars, report.status = "completed", ~contended'
      PROVE  report' = report
  <2> USE <1>1 DEF HandlerOpen, HandlerPc, RenderOpen, RenderPc, Settled, ReportStatus
  <2>1. ASSUME NEW h \in Handlers, HandlerStep(h) \/ RenderStep(h) PROVE report' = report
    <3>1. Agrees(h) /\ report \in Report
      BY <2>1 DEF IInv, TypeOK, HandlerStep, RenderStep, Find, Create, MarkGenerating, LoadData,
         Publish, BuildFails, RecordTask, RenderPdf, CallbackLoads, CallbackCommits
    <3>2. ASSUME HandlerStep(h) PROVE report' = report
      BY <3>1, <3>2 DEF HandlerStep, Find, Create, MarkGenerating, LoadData, Publish, BuildFails,
         RecordTask, Agrees, Report, Written
    <3>3. ASSUME RenderStep(h) PROVE report' = report
      BY <3>1, <3>3 DEF RenderStep, RenderPdf, CallbackLoads, CallbackCommits, Agrees
    <3> QED BY <2>1, <3>2, <3>3
  <2>2. ASSUME NEW h \in Handlers, Check(h) \/ HandlerDies(h) \/ RenderLost(h)
        PROVE  report' = report
    BY <2>2 DEF Check, HandlerDies, RenderLost
  <2> QED BY <2>1, <2>2 DEF Next, Terminated, vars
<1>2. IInv /\ [Next]_vars => [report.status = "completed" /\ ~contended' => report' = report]_vars
  BY <1>1
<1> QED BY <1>2, Sound, PTL DEF Spec, CompletedIsKept
=============================================================================
