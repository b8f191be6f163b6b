------------------------ MODULE ScanCallbacks_proofs ------------------------
(***************************************************************************)
(* Proofs about ScanCallbacks, for every finite set of sources and every   *)
(* bound on late starts and faults.                                        *)
(***************************************************************************)
EXTENDS ScanCallbacksInvariant, FiniteSetTheorems, TLAPS

-----------------------------------------------------------------------------
(* The pure functions of ScanSources.                                      *)

\* Integer division by a positive number lies between the multiples around it.
LEMMA DivisionBounds ==
  ASSUME NEW k \in Nat, NEW n \in Nat \ {0}, k <= n
  PROVE  /\ (100 * k) \div n \in 0..100
         /\ (100 * k) \div n = 100 <=> k = n
<1> DEFINE q == (100 * k) \div n
<1>1. q \in Int /\ n * q <= 100 * k /\ 100 * k < n * (q + 1)
  BY SMT
<1>2. q <= 100
  <2>1. ASSUME q >= 101 PROVE FALSE
    <3>1. n * q >= n * 101  BY <1>1, <2>1, SMT
    <3> QED BY <1>1, <3>1, SMT
  <2> QED BY <1>1, <2>1, SMT
<1>3. q >= 0
  <2>1. ASSUME q <= -1 PROVE FALSE
    <3>1. n * (q + 1) <= 0  BY <1>1, <2>1, SMT
    <3> QED BY <1>1, <3>1, SMT
  <2> QED BY <1>1, <2>1, SMT
<1>4. ASSUME k = n PROVE q = 100
  <2>1. ASSUME q <= 99 PROVE FALSE
    <3>1. n * (q + 1) <= n * 100  BY <1>1, <2>1, SMT
    <3> QED BY <1>1, <1>4, <3>1, SMT
  <2> QED BY <1>1, <1>2, <2>1, SMT
<1>5. ASSUME q = 100 PROVE k = n
  BY <1>1, <1>5, SMT
<1> QED BY <1>1, <1>2, <1>3, <1>4, <1>5, SMT

\* The progress column stays between 0 and 100, and is 100 exactly when every
\* source has finished (scan_repo.py, lines 581-607).
LEMMA ProgressIsFull ==
  ASSUME NEW v \in Rows
  PROVE  Progress(v) \in 0..100 /\ (Progress(v) = 100 <=> AllFinished(v))
<1>1. IsFiniteSet(Sources) /\ Sources # {}
  BY SourcesAssumption
<1>2. FinishedSources(v) \subseteq Sources
  BY DEF FinishedSources
<1>3. /\ IsFiniteSet(FinishedSources(v))
      /\ Cardinality(FinishedSources(v)) <= Cardinality(Sources)
      /\ Cardinality(FinishedSources(v)) = Cardinality(Sources) => FinishedSources(v) = Sources
  BY <1>1, <1>2, FS_Subset
<1>4. Cardinality(FinishedSources(v)) \in Nat /\ Cardinality(Sources) \in Nat \ {0}
  BY <1>1, <1>3, FS_CardinalityType, FS_EmptySet
<1>5. FinishedSources(v) = Sources <=> AllFinished(v)
  BY DEF FinishedSources, AllFinished
<1> QED BY <1>3, <1>4, <1>5, DivisionBounds DEF Progress

\* The status computed from the rows is terminal exactly when all have finished.
LEMMA AggregateIsTerminal ==
  ASSUME NEW v \in Rows
  PROVE  /\ AggregateStatus(v) \in ScanStatus
         /\ AggregateStatus(v) \in TerminalStatus <=> AllFinished(v)
         /\ AggregateStatus(v) \notin TerminalStatus => AggregateStatus(v) = "running"
<1>1. CASE ~AllFinished(v)
  <2>1. AggregateStatus(v) = "running"
    BY <1>1 DEF AggregateStatus, AllFinished
  <2> QED BY <1>1, <2>1 DEF ScanStatus, TerminalStatus
<1>2. CASE AllFinished(v)
  <2>1. AggregateStatus(v) \in TerminalStatus
    BY <1>2 DEF AggregateStatus, AllFinished, TerminalStatus
  <2> QED BY <1>2, <2>1 DEF ScanStatus, TerminalStatus
<1> QED BY <1>1, <1>2

-----------------------------------------------------------------------------
(* Types.                                                                  *)

\* The initial rows, and the requests, have their types.
LEMMA RowTypes ==
  /\ NewScan \in ScanRow
  /\ NoRows \in Rows
  /\ \A s \in Sources : <<s, "running">> \in Requests /\ <<s, "final">> \in Requests
  /\ \A r \in Requests : r[1] \in Sources /\ r[2] \in Kinds /\ r = <<r[1], r[2]>>
BY DEF NewScan, ScanRow, ScanStatus, NoRows, Rows, SourceStatus, Requests, Kinds

\* A commit writes a well-formed row.
LEMMA ScanAfterType ==
  ASSUME scan \in ScanRow, NEW v \in Rows, NEW seen \in ScanRow
  PROVE  ScanAfter(v, seen) \in ScanRow
<1>1. AggregateStatus(v) \in ScanStatus /\ Progress(v) \in 0..100
  BY AggregateIsTerminal, ProgressIsFull
<1>2. AllFinished(v) \in BOOLEAN
  BY DEF AllFinished
<1> QED BY <1>1, <1>2 DEF ScanAfter, ScanRow, Written

\* The initial state is well formed.
LEMMA InitType == Init => TypeOK
<1> SUFFICES ASSUME Init PROVE TypeOK
  OBVIOUS
<1>1. request \in [Requests -> Request]
  <2>1. [pc |-> "unsent", report |-> "none", seen |-> NewScan, view |-> NoRows] \in Request
    BY RowTypes DEF Request, RequestPc, SourceStatus
  <2> QED BY <2>1 DEF Init
<1>2. task \in [Sources -> TaskPc] /\ dispatcher \in DispatcherPc
  BY DEF Init, TaskPc, DispatcherPc
<1>3. lateStarts \in 0..MaxLateStarts /\ faults \in 0..MaxFaults
  BY BoundsAssumption DEF Init
<1>4. overlapped \in BOOLEAN
  BY DEF Init
<1> QED BY <1>1, <1>2, <1>3, <1>4, RowTypes DEF Init, TypeOK

\* Every step leaves a well-formed state.
LEMMA StepType == TypeOK /\ [Next]_vars => TypeOK'
<1> SUFFICES ASSUME TypeOK, [Next]_vars PROVE TypeOK'
  OBVIOUS
<1> USE RowTypes, BoundsAssumption DEF TypeOK
<1>1. CASE PublishScan
  BY <1>1 DEF PublishScan, DispatcherPc
<1>2. CASE DispatcherDies
  BY <1>2 DEF DispatcherDies, DispatcherPc
<1>3. ASSUME NEW s \in Sources, FanOut(s) PROVE TypeOK'
  BY <1>3 DEF FanOut, DispatcherPc, TaskPc
<1>4. ASSUME NEW s \in Sources, BeginTask(s) PROVE TypeOK'
  BY <1>4 DEF BeginTask, Send, TaskPc, Request, RequestPc, SourceStatus
<1>5. ASSUME NEW s \in Sources, StartReturns(s) PROVE TypeOK'
  BY <1>5 DEF StartReturns, TaskPc
<1>6. ASSUME NEW s \in Sources, NEW outcome \in Outcome, SendFinal(s, outcome) PROVE TypeOK'
  BY <1>6 DEF SendFinal, Send, TaskPc, Request, RequestPc, SourceStatus, Outcome
<1>7. ASSUME NEW s \in Sources, FinalReturns(s) PROVE TypeOK'
  BY <1>7 DEF FinalReturns, TaskPc
<1>8. ASSUME NEW s \in Sources, StartTimesOut(s) PROVE TypeOK'
  BY <1>8 DEF StartTimesOut, TaskPc
<1>9. ASSUME NEW s \in Sources, TaskDies(s) PROVE TypeOK'
  BY <1>9 DEF TaskDies, TaskPc
<1>10. ASSUME NEW r \in Requests, Load(r) PROVE TypeOK'
  BY <1>10 DEF Load, Request, RequestPc
<1>11. ASSUME NEW r \in Requests, Save(r) PROVE TypeOK'
  BY <1>11 DEF Save, Request, RequestPc, Rows
<1>12. ASSUME NEW r \in Requests, Commit(r) PROVE TypeOK'
  <2>1. request[r].view \in Rows /\ request[r].seen \in ScanRow /\ request[r].report \in SourceStatus
    BY DEF Request
  <2>2. scan' \in ScanRow
    BY <1>12, <2>1, ScanAfterType DEF Commit
  <2>3. rows' \in Rows
    BY <1>12, <2>1 DEF Commit, Rows
  <2>4. request' \in [Requests -> Request] /\ overlapped' \in BOOLEAN
    BY <1>12 DEF Commit, Request, RequestPc
  <2> QED BY <1>12, <2>2, <2>3, <2>4 DEF Commit
<1>13. ASSUME NEW r \in Requests, Refresh(r) PROVE TypeOK'
  BY <1>13 DEF Refresh, Request, RequestPc
<1>14. ASSUME NEW r \in Requests, ReportQueued(r) PROVE TypeOK'
  BY <1>14 DEF ReportQueued, Request, RequestPc
<1>15. ASSUME NEW r \in Requests, RequestFails(r) PROVE TypeOK'
  BY <1>15 DEF RequestFails, Request, RequestPc
<1>16. CASE UNCHANGED vars
  BY <1>16 DEF vars
<1> QED
  BY <1>1, <1>2, <1>3, <1>4, <1>5, <1>6, <1>7, <1>8, <1>9, <1>10, <1>11, <1>12,
     <1>13, <1>14, <1>15, <1>16 DEF Next, TaskStep, Handler, Terminated

\* Every state is well formed, whatever the number of sources and faults.
THEOREM TypeCorrect == Spec => []TypeOK
BY InitType, StepType, PTL DEF Spec

-----------------------------------------------------------------------------
(* The inductive invariant.  MemoryAgrees needs TerminalIsSound: a request *)
(* that loads the scan must not see a progress of 100.                     *)

Inv == TypeOK /\ MemoryAgrees /\ TerminalIsSound

\* The initial state satisfies the inductive invariant.
LEMMA InitInv == Init => Inv
<1> SUFFICES ASSUME Init PROVE Inv
  OBVIOUS
<1>1. TypeOK
  BY InitType
<1>2. scan = NewScan /\ rows = NoRows /\ lateStarts = 0
  BY DEF Init
<1>3. \A r \in Requests : request[r].pc = "unsent"
  BY DEF Init
<1>4. \A s \in Sources : task[s] = "unsent" /\ rows[s] = "none"
  BY DEF Init, NoRows
<1>5. scan.status = "queued" /\ scan.progress = 0
  BY <1>2 DEF NewScan
<1>6. TerminalIsSound
  BY <1>5 DEF TerminalIsSound, TerminalStatus
<1>7. MemoryAgrees
  BY <1>3, <1>4, <1>5, RowTypes
     DEF MemoryAgrees, RequestsInOrder, ReportsMatchKinds, FinishedRowsLanded,
         ViewsAreBacked, TerminalNeedsAll, CopiesAreUnfinished, QueuedIsUnseen,
         ViewsAreFresh, RunningRequest, FinalRequest, FinishedStatus, TerminalStatus
<1> QED BY <1>1, <1>6, <1>7 DEF Inv

\* Without late starts, as long as a request of a source has yet to commit, the
\* source's final request has not.
LEMMA FinalIsAhead ==
  ASSUME TypeOK, RequestsInOrder, lateStarts = 0,
         NEW r \in Requests, request[r].pc \in {"sent", "loaded", "saved"}
  PROVE  FinalRequest(r[1]).pc \notin DurablePc
<1>1. CASE r[2] = "final"
  BY <1>1, RowTypes DEF FinalRequest, DurablePc
<1>2. CASE r[2] = "running"
  <2>1. request[r] = RunningRequest(r[1])
    BY <1>2, RowTypes DEF RunningRequest
  <2>2. request[r].pc \notin ClosedPc
    BY DEF ClosedPc, ErrorPc
  <2>3. FinalRequest(r[1]).pc = "unsent"
    BY <2>1, <2>2, RowTypes DEF RequestsInOrder
  <2> QED BY <2>3 DEF DurablePc
<1> QED BY <1>1, <1>2, RowTypes DEF Kinds

\* Then the scan is not terminal, nor is the source's row finished.
LEMMA NotYetTerminal ==
  ASSUME Inv, lateStarts = 0,
         NEW r \in Requests, request[r].pc \in {"sent", "loaded", "saved"}
  PROVE  /\ scan.status \notin TerminalStatus
         /\ scan.progress # 100
         /\ rows[r[1]] \notin FinishedStatus
<1>1. FinalRequest(r[1]).pc \notin DurablePc
  BY FinalIsAhead DEF Inv, MemoryAgrees
<1>2. r[1] \in Sources
  BY RowTypes
<1>3. scan.status \notin TerminalStatus
  BY <1>1, <1>2 DEF Inv, MemoryAgrees, TerminalNeedsAll, AllLanded
<1>4. rows[r[1]] \notin FinishedStatus
  BY <1>1, <1>2 DEF Inv, MemoryAgrees, FinishedRowsLanded
<1> QED BY <1>3, <1>4 DEF Inv, TerminalIsSound

\* Steps that change no request, no row and no scan.
LEMMA TaskOnlyStep ==
  ASSUME Inv, TypeOK', lateStarts' = 0 => lateStarts = 0,
         UNCHANGED <<scan, rows, request, overlapped>>,
         \A s \in Sources :
           \/ task'[s] = task[s]
           \/ task[s] = "unsent" /\ task'[s] = "queued"
           \/ /\ task[s] = "starting" /\ task'[s] = "working"
              /\ lateStarts' = 0 => RunningRequest(s).pc \in ClosedPc
           \/ task'[s] \in {"done", "crashed"}
  PROVE  Inv'
<1>1. RequestsInOrder'
  BY DEF Inv, MemoryAgrees, RequestsInOrder, RunningRequest, FinalRequest
<1>2. ReportsMatchKinds' /\ FinishedRowsLanded' /\ TerminalNeedsAll'
  BY DEF Inv, MemoryAgrees, ReportsMatchKinds, FinishedRowsLanded, TerminalNeedsAll,
         AllLanded, RunningRequest, FinalRequest
<1>3. ViewsAreBacked' /\ CopiesAreUnfinished' /\ QueuedIsUnseen' /\ ViewsAreFresh'
  BY DEF Inv, MemoryAgrees, ViewsAreBacked, CopiesAreUnfinished, QueuedIsUnseen,
         ViewsAreFresh, FinalRequest
<1>4. TerminalIsSound'
  BY DEF Inv, TerminalIsSound, AllFinished, AggregateStatus, NotCompleted
<1> QED BY <1>1, <1>2, <1>3, <1>4 DEF Inv, MemoryAgrees

\* Steps of a request that write nothing to the database.
LEMMA RequestOnlyStep ==
  ASSUME Inv, TypeOK', NEW r \in Requests,
         UNCHANGED <<scan, rows, task, lateStarts, overlapped>>,
         \A q \in Requests \ {r} : request'[q] = request[q],
         request'[r].report = request[r].report,
         request[r].pc \in OpenPc,
         request'[r].pc # "unsent",
         request[r].pc \in DurablePc => request'[r].pc \in DurablePc,
         request'[r].pc \notin {"loaded", "saved"}
  PROVE  Inv'
<1> USE RowTypes
<1>1. request[r].pc # "unsent" /\ request[r].pc \notin ClosedPc
  BY DEF OpenPc
<1>2. RequestsInOrder'
  <2>1. \A q \in Requests :
          /\ request[q].pc = "unsent" <=> request'[q].pc = "unsent"
          /\ request[q].pc \in ClosedPc => request'[q].pc \in ClosedPc
    BY <1>1
  <2>2. \A s \in Sources :
          /\ RunningRequest(s).pc = "unsent" <=> RunningRequest(s)'.pc = "unsent"
          /\ FinalRequest(s).pc = "unsent" <=> FinalRequest(s)'.pc = "unsent"
          /\ RunningRequest(s).pc \in ClosedPc => RunningRequest(s)'.pc \in ClosedPc
    BY <2>1 DEF RunningRequest, FinalRequest
  <2> QED BY <2>2 DEF Inv, MemoryAgrees, RequestsInOrder
<1>3. ReportsMatchKinds'
  BY <1>1 DEF Inv, MemoryAgrees, ReportsMatchKinds, RunningRequest, FinalRequest
<1>4. \A s \in Sources : FinalRequest(s).pc \in DurablePc => FinalRequest(s)'.pc \in DurablePc
  BY DEF FinalRequest
<1>5. FinishedRowsLanded' /\ TerminalNeedsAll'
  BY <1>4 DEF Inv, MemoryAgrees, FinishedRowsLanded, TerminalNeedsAll, AllLanded
<1>6. ViewsAreBacked'
  BY <1>4 DEF Inv, MemoryAgrees, ViewsAreBacked
<1>7. CopiesAreUnfinished' /\ QueuedIsUnseen' /\ ViewsAreFresh'
  BY DEF Inv, MemoryAgrees, CopiesAreUnfinished, QueuedIsUnseen, ViewsAreFresh
<1>8. TerminalIsSound'
  BY DEF Inv, TerminalIsSound, AllFinished, AggregateStatus, NotCompleted
<1> QED BY <1>2, <1>3, <1>5, <1>6, <1>7, <1>8 DEF Inv, MemoryAgrees

\* BeginTask and SendFinal: a request that was unsent is sent.
LEMMA SendStep ==
  ASSUME Inv, TypeOK', NEW s \in Sources, NEW kind \in Kinds, NEW report,
         Send(<<s, kind>>, report),
         UNCHANGED <<scan, rows, lateStarts, overlapped>>,
         \/ /\ kind = "running" /\ report = "running"
            /\ task[s] = "queued" /\ task' = [task EXCEPT ![s] = "starting"]
         \/ /\ kind = "final" /\ report \in Outcome
            /\ task[s] = "working" /\ task' = [task EXCEPT ![s] = "finishing"]
  PROVE  Inv'
<1> DEFINE r == <<s, kind>>
<1> USE RowTypes
<1>1. r \in Requests
  BY DEF Kinds
<1>2. /\ \A q \in Requests \ {r} : request'[q] = request[q]
      /\ request'[r].pc = "sent" /\ request'[r].report = report
  BY <1>1 DEF Send, Inv, TypeOK, Request
<1>3. /\ \A q \in Sources \ {s} : task'[q] = task[q]
      /\ task'[s] = IF kind = "running" THEN "starting" ELSE "finishing"
  BY DEF Inv, TypeOK
<1>4. request[r].pc = "unsent"
  BY DEF Inv, MemoryAgrees, RequestsInOrder, RunningRequest, FinalRequest
<1>5. RequestsInOrder'
  <2>1. \A q \in Sources \ {s} :
          RunningRequest(q)' = RunningRequest(q) /\ FinalRequest(q)' = FinalRequest(q)
    BY <1>2 DEF RunningRequest, FinalRequest
  <2>2. CASE kind = "running"
    <3>1. FinalRequest(s)' = FinalRequest(s) /\ FinalRequest(s).pc = "unsent"
      BY <1>2, <2>2 DEF FinalRequest, Inv, MemoryAgrees, RequestsInOrder
    <3> QED BY <1>3, <2>1, <2>2, <3>1 DEF Inv, MemoryAgrees, RequestsInOrder
  <2>3. CASE kind = "final"
    <3>1. RunningRequest(s)' = RunningRequest(s)
      BY <1>2, <2>3 DEF RunningRequest
    <3> QED BY <1>3, <2>1, <2>3, <3>1 DEF Inv, MemoryAgrees, RequestsInOrder
  <2> QED BY <2>2, <2>3 DEF Kinds
<1>6. ReportsMatchKinds'
  BY <1>2 DEF Inv, MemoryAgrees, ReportsMatchKinds, RunningRequest, FinalRequest
<1>7. \A q \in Sources : FinalRequest(q).pc \in DurablePc => FinalRequest(q)'.pc \in DurablePc
  BY <1>2, <1>4 DEF FinalRequest, DurablePc
<1>8. FinishedRowsLanded' /\ TerminalNeedsAll'
  BY <1>2, <1>7 DEF Inv, MemoryAgrees, FinishedRowsLanded, TerminalNeedsAll, AllLanded
<1>9. ViewsAreBacked'
  BY <1>2, <1>7 DEF Inv, MemoryAgrees, ViewsAreBacked
<1>10. CopiesAreUnfinished' /\ QueuedIsUnseen' /\ ViewsAreFresh'
  BY <1>2 DEF Inv, MemoryAgrees, CopiesAreUnfinished, QueuedIsUnseen, ViewsAreFresh
<1>11. TerminalIsSound'
  BY DEF Inv, TerminalIsSound, AllFinished, AggregateStatus, NotCompleted
<1> QED BY <1>5, <1>6, <1>8, <1>9, <1>10, <1>11 DEF Inv, MemoryAgrees

\* A request in progress moves on and is still in progress: the parts of the
\* invariant that only look at who is where.
LEMMA OpenStep ==
  ASSUME Inv, NEW r \in Requests, UNCHANGED <<task, lateStarts>>,
         request[r].pc \in {"loaded", "sent", "saved"},
         \A q \in Requests \ {r} : request'[q] = request[q],
         request'[r].pc \in {"loaded", "saved", "committed"},
         request'[r].report = request[r].report
  PROVE  /\ RequestsInOrder'
         /\ ReportsMatchKinds'
         /\ \A s \in Sources : FinalRequest(s).pc \in DurablePc => FinalRequest(s)'.pc \in DurablePc
<1> USE RowTypes
<1>1. \A q \in Requests :
        /\ request[q].pc = "unsent" <=> request'[q].pc = "unsent"
        /\ request[q].pc \in ClosedPc => request'[q].pc \in ClosedPc
        /\ request[q].pc \in DurablePc => request'[q].pc \in DurablePc
        /\ request'[q].report = request[q].report
  BY DEF ClosedPc, ErrorPc, DurablePc
<1>2. \A s \in Sources :
        /\ RunningRequest(s).pc = "unsent" <=> RunningRequest(s)'.pc = "unsent"
        /\ FinalRequest(s).pc = "unsent" <=> FinalRequest(s)'.pc = "unsent"
        /\ RunningRequest(s).pc \in ClosedPc => RunningRequest(s)'.pc \in ClosedPc
        /\ FinalRequest(s).pc \in DurablePc => FinalRequest(s)'.pc \in DurablePc
        /\ RunningRequest(s)'.report = RunningRequest(s).report
        /\ FinalRequest(s)'.report = FinalRequest(s).report
  BY <1>1 DEF RunningRequest, FinalRequest
<1>3. RequestsInOrder'
  BY <1>2 DEF Inv, MemoryAgrees, RequestsInOrder
<1>4. ReportsMatchKinds'
  BY <1>2 DEF Inv, MemoryAgrees, ReportsMatchKinds
<1> QED BY <1>2, <1>3, <1>4

\* A request that loads the scan has a copy of what is committed.
LEMMA LoadStep ==
  ASSUME Inv, TypeOK', NEW r \in Requests, Load(r)
  PROVE  Inv'
<1> USE RowTypes
<1>1. /\ request[r].pc = "sent"
      /\ \A q \in Requests \ {r} : request'[q] = request[q]
      /\ request'[r].pc = "loaded" /\ request'[r].seen = scan
      /\ request'[r].report = request[r].report
      /\ UNCHANGED <<scan, rows, task, lateStarts, overlapped>>
  BY DEF Load, Inv, TypeOK, Request
<1>2. /\ RequestsInOrder' /\ ReportsMatchKinds'
      /\ \A s \in Sources : FinalRequest(s).pc \in DurablePc => FinalRequest(s)'.pc \in DurablePc
  BY <1>1, OpenStep
<1>3. FinishedRowsLanded' /\ TerminalNeedsAll'
  BY <1>1, <1>2 DEF Inv, MemoryAgrees, FinishedRowsLanded, TerminalNeedsAll, AllLanded
<1>4. ViewsAreBacked'
  BY <1>1, <1>2 DEF Inv, MemoryAgrees, ViewsAreBacked
<1>5. CopiesAreUnfinished'
  <2>1. lateStarts = 0 => scan.status \notin TerminalStatus /\ scan.progress # 100
    BY <1>1, NotYetTerminal
  <2> QED BY <1>1, <2>1 DEF Inv, MemoryAgrees, CopiesAreUnfinished
<1>6. QueuedIsUnseen' /\ ViewsAreFresh'
  BY <1>1 DEF Inv, MemoryAgrees, QueuedIsUnseen, ViewsAreFresh
<1>7. TerminalIsSound'
  BY <1>1 DEF Inv, TerminalIsSound, AllFinished, AggregateStatus, NotCompleted
<1> QED BY <1>2, <1>3, <1>4, <1>5, <1>6, <1>7 DEF Inv, MemoryAgrees

\* A request that saves its row has a view with that row in it.
LEMMA SaveStep ==
  ASSUME Inv, TypeOK', NEW r \in Requests, Save(r)
  PROVE  Inv'
<1> USE RowTypes
<1>1. /\ request[r].pc = "loaded"
      /\ \A q \in Requests \ {r} : request'[q] = request[q]
      /\ request'[r].pc = "saved" /\ request'[r].seen = request[r].seen
      /\ request'[r].report = request[r].report
      /\ request'[r].view = [rows EXCEPT ![r[1]] = request[r].report]
      /\ UNCHANGED <<scan, rows, task, lateStarts, overlapped>>
  BY DEF Save, Inv, TypeOK, Request
<1>2. /\ RequestsInOrder' /\ ReportsMatchKinds'
      /\ \A s \in Sources : FinalRequest(s).pc \in DurablePc => FinalRequest(s)'.pc \in DurablePc
  BY <1>1, OpenStep
<1>3. FinishedRowsLanded' /\ TerminalNeedsAll'
  BY <1>1, <1>2 DEF Inv, MemoryAgrees, FinishedRowsLanded, TerminalNeedsAll, AllLanded
<1>4. ViewsAreBacked'
  <2>1. /\ request'[r].view[r[1]] = request[r].report
        /\ \A s \in Sources \ {r[1]} : request'[r].view[s] = rows[s]
    BY <1>1 DEF Inv, TypeOK, Rows
  <2>2. \A s \in Sources : rows[s] \in FinishedStatus => FinalRequest(s)'.pc \in DurablePc
    BY <1>2 DEF Inv, MemoryAgrees, FinishedRowsLanded
  <2> SUFFICES ASSUME NEW q \in Requests, request'[q].pc = "saved"
               PROVE  /\ request'[q].view[q[1]] = request'[q].report
                      /\ \A s \in Sources \ {q[1]} : request'[q].view[s] \in FinishedStatus =>
                           /\ FinalRequest(s)'.pc \in DurablePc
                           /\ lateStarts' = 0 => rows'[s] = request'[q].view[s]
    BY DEF ViewsAreBacked
  <2>3. CASE q = r
    BY <1>1, <2>1, <2>2, <2>3
  <2>4. CASE q # r
    BY <1>1, <1>2, <2>4 DEF Inv, MemoryAgrees, ViewsAreBacked
  <2> QED BY <2>3, <2>4
<1>5. CopiesAreUnfinished' /\ QueuedIsUnseen' /\ ViewsAreFresh'
  BY <1>1 DEF Inv, MemoryAgrees, CopiesAreUnfinished, QueuedIsUnseen, ViewsAreFresh
<1>6. TerminalIsSound'
  BY <1>1 DEF Inv, TerminalIsSound, AllFinished, AggregateStatus, NotCompleted
<1> QED BY <1>2, <1>3, <1>4, <1>5, <1>6 DEF Inv, MemoryAgrees

\* The columns after a commit: computed from the view, or left as they were.
LEMMA CommittedColumns ==
  ASSUME TypeOK, NEW r \in Requests, Commit(r)
  PROVE  LET v == request[r].view
             seen == request[r].seen
         IN /\ v \in Rows /\ seen \in ScanRow
            /\ scan'.status = IF AggregateStatus(v) = seen.status
                              THEN scan.status ELSE AggregateStatus(v)
            /\ scan'.progress = IF Progress(v) = seen.progress
                                THEN scan.progress ELSE Progress(v)
            /\ scan'.stamped = (scan.stamped \/ AllFinished(v))
BY DEF Commit, ScanAfter, Written, TypeOK, Request

\* A request commits what follows from its view, compared with its copy.
LEMMA CommitStep ==
  ASSUME Inv, TypeOK', NEW r \in Requests, Commit(r)
  PROVE  Inv'
<1> USE RowTypes
<1> DEFINE v == request[r].view
           seen == request[r].seen
<1>1. /\ request[r].pc = "saved"
      /\ \A q \in Requests \ {r} : request'[q] = request[q]
      /\ request'[r].pc = "committed"
      /\ request'[r].report = request[r].report
      /\ rows'[r[1]] = request[r].report
      /\ \A s \in Sources \ {r[1]} : rows'[s] = rows[s]
      /\ rows \in Rows /\ rows' \in Rows
      /\ overlapped' = (overlapped \/ \E q \in Requests \ {r} : request[q].pc = "saved")
      /\ UNCHANGED <<task, lateStarts>>
  BY DEF Commit, Inv, TypeOK, Request, Rows
<1>2. /\ RequestsInOrder' /\ ReportsMatchKinds'
      /\ \A s \in Sources : FinalRequest(s).pc \in DurablePc => FinalRequest(s)'.pc \in DurablePc
  BY <1>1, OpenStep
<1>3. v \in Rows /\ seen \in ScanRow
  BY CommittedColumns DEF Inv
<1>4. request[r].report \in FinishedStatus => r[2] = "final" /\ FinalRequest(r[1])'.pc \in DurablePc
  <2>1. CASE r[2] = "running"
    <3>1. request[r] = RunningRequest(r[1])
      BY <2>1 DEF RunningRequest
    <3> QED BY <1>1, <3>1 DEF Inv, MemoryAgrees, ReportsMatchKinds, FinishedStatus
  <2>2. CASE r[2] = "final"
    BY <1>1, <2>2 DEF FinalRequest, DurablePc
  <2> QED BY <2>1, <2>2 DEF Kinds
<1>5. FinishedRowsLanded'
  BY <1>1, <1>2, <1>4 DEF Inv, MemoryAgrees, FinishedRowsLanded
<1>6. /\ v[r[1]] = request[r].report
      /\ \A s \in Sources \ {r[1]} : v[s] \in FinishedStatus =>
           FinalRequest(s).pc \in DurablePc /\ (lateStarts = 0 => rows[s] = v[s])
  BY <1>1 DEF Inv, MemoryAgrees, ViewsAreBacked
<1>7. AllFinished(v) => AllLanded'
  BY <1>2, <1>4, <1>6 DEF AllFinished, AllLanded
<1>8. scan'.status \in TerminalStatus => scan.status \in TerminalStatus \/ AllFinished(v)
  BY <1>3, CommittedColumns, AggregateIsTerminal DEF Inv
<1>9. TerminalNeedsAll'
  <2>1. AllLanded => AllLanded'
    BY <1>2 DEF AllLanded
  <2> QED BY <1>1, <1>7, <1>8, <2>1 DEF Inv, MemoryAgrees, TerminalNeedsAll
<1>10. ViewsAreBacked'
  <2> SUFFICES ASSUME NEW q \in Requests \ {r}, request[q].pc = "saved",
                      NEW s \in Sources \ {q[1]}, request[q].view[s] \in FinishedStatus,
                      lateStarts = 0
               PROVE  rows'[s] = request[q].view[s]
    BY <1>1, <1>2 DEF Inv, MemoryAgrees, ViewsAreBacked
  <2>1. FinalRequest(s).pc \in DurablePc /\ rows[s] = request[q].view[s]
    BY DEF Inv, MemoryAgrees, ViewsAreBacked
  <2>2. s # r[1]
    BY <1>1, <2>1, FinalIsAhead DEF Inv, MemoryAgrees
  <2> QED BY <1>1, <2>1, <2>2
<1>11. CopiesAreUnfinished'
  BY <1>1 DEF Inv, MemoryAgrees, CopiesAreUnfinished
<1>12. QueuedIsUnseen'
  <2>1. scan'.status = "queued" => scan.status = "queued"
    BY <1>3, CommittedColumns, AggregateIsTerminal DEF Inv, TerminalStatus
  <2> QED BY <1>1, <2>1 DEF Inv, MemoryAgrees, QueuedIsUnseen
<1>13. ViewsAreFresh'
  <2>1. ~overlapped' => \A q \in Requests \ {r} : request[q].pc # "saved"
    BY <1>1, Zenon
  <2>2. ~overlapped' => \A q \in Requests : request'[q].pc # "saved"
    BY <1>1, <2>1
  <2> QED BY <2>2 DEF ViewsAreFresh
<1>14. TerminalIsSound'
  <2> SUFFICES ASSUME lateStarts = 0
               PROVE  /\ scan'.status \in TerminalStatus <=> scan'.progress = 100
                      /\ scan'.status \in TerminalStatus =>
                           /\ AllFinished(rows')
                           /\ scan'.status = AggregateStatus(rows')
                           /\ scan'.stamped
    BY <1>1 DEF TerminalIsSound, AllFinished, AggregateStatus, NotCompleted
  <2>1. scan.status \notin TerminalStatus /\ scan.progress # 100
    BY <1>1, NotYetTerminal
  <2>2. seen.status \notin TerminalStatus /\ seen.progress # 100
    BY <1>1 DEF Inv, MemoryAgrees, CopiesAreUnfinished
  <2>3. CASE AllFinished(v)
    <3>1. rows' = v
      <4>1. \A s \in Sources : rows'[s] = v[s]
        BY <1>1, <1>6, <2>3 DEF AllFinished
      <4> QED BY <1>1, <1>3, <4>1 DEF Rows
    <3>2. AggregateStatus(v) \in TerminalStatus /\ Progress(v) = 100
      BY <1>3, <2>3, AggregateIsTerminal, ProgressIsFull
    <3>3. scan'.status = AggregateStatus(v) /\ scan'.progress = 100 /\ scan'.stamped
      BY <2>2, <2>3, <3>2, CommittedColumns DEF Inv
    <3> QED BY <2>3, <3>1, <3>2, <3>3
  <2>4. CASE ~AllFinished(v)
    <3>1. AggregateStatus(v) \notin TerminalStatus /\ Progress(v) # 100
      BY <1>3, <2>4, AggregateIsTerminal, ProgressIsFull
    <3> QED BY <2>1, <3>1, CommittedColumns DEF Inv
  <2> QED BY <2>3, <2>4
<1> QED BY <1>2, <1>5, <1>9, <1>10, <1>11, <1>12, <1>13, <1>14 DEF Inv, MemoryAgrees

\* Every step preserves the invariant.
LEMMA StepInv == Inv /\ [Next]_vars => Inv'
<1> SUFFICES ASSUME Inv, [Next]_vars PROVE Inv'
  OBVIOUS
<1> USE RowTypes
<1>1. TypeOK'
  BY StepType DEF Inv
<1>2. CASE PublishScan
  BY <1>1, <1>2, TaskOnlyStep DEF PublishScan
<1>3. CASE DispatcherDies
  BY <1>1, <1>3, TaskOnlyStep DEF DispatcherDies
<1>4. ASSUME NEW s \in Sources, FanOut(s) PROVE Inv'
  BY <1>1, <1>4, TaskOnlyStep DEF FanOut, Inv, TypeOK
<1>5. ASSUME NEW s \in Sources, BeginTask(s) PROVE Inv'
  BY <1>1, <1>5, SendStep DEF BeginTask, Kinds
<1>6. ASSUME NEW s \in Sources, StartReturns(s) PROVE Inv'
  BY <1>1, <1>6, TaskOnlyStep DEF StartReturns, Inv, TypeOK, RunningRequest
<1>7. ASSUME NEW s \in Sources, NEW outcome \in Outcome, SendFinal(s, outcome) PROVE Inv'
  BY <1>1, <1>7, SendStep DEF SendFinal, Kinds
<1>8. ASSUME NEW s \in Sources, FinalReturns(s) PROVE Inv'
  BY <1>1, <1>8, TaskOnlyStep DEF FinalReturns, Inv, TypeOK
<1>9. ASSUME NEW s \in Sources, StartTimesOut(s) PROVE Inv'
  <2>1. lateStarts' # 0
    BY <1>9 DEF StartTimesOut, Inv, TypeOK
  <2> QED BY <1>1, <1>9, <2>1, TaskOnlyStep DEF StartTimesOut, Inv, TypeOK
<1>10. ASSUME NEW s \in Sources, TaskDies(s) PROVE Inv'
  BY <1>1, <1>10, TaskOnlyStep DEF TaskDies, Inv, TypeOK
<1>11. ASSUME NEW r \in Requests, Load(r) PROVE Inv'
  BY <1>1, <1>11, LoadStep
<1>12. ASSUME NEW r \in Requests, Save(r) PROVE Inv'
  BY <1>1, <1>12, SaveStep
<1>13. ASSUME NEW r \in Requests, Commit(r) PROVE Inv'
  BY <1>1, <1>13, CommitStep
<1>14. ASSUME NEW r \in Requests, Refresh(r) \/ ReportQueued(r) \/ RequestFails(r)
       PROVE  Inv'
  <2>1. /\ \A q \in Requests \ {r} : request'[q] = request[q]
        /\ request'[r].report = request[r].report
        /\ UNCHANGED <<scan, rows, task, lateStarts, overlapped>>
    BY <1>14 DEF Refresh, ReportQueued, RequestFails, Inv, TypeOK, Request
  <2>2. /\ request[r].pc \in OpenPc
        /\ request'[r].pc \in {"answered", "reporting", "reported", "failed",
                               "orphaned", "unreported"}
        /\ request[r].pc \in DurablePc => request'[r].pc \in DurablePc
    BY <1>14 DEF Refresh, ReportQueued, RequestFails, OpenPc, ClosedPc, ErrorPc, DurablePc,
                 RequestPc, Inv, TypeOK, Request
  <2> QED BY <1>1, <2>1, <2>2, RequestOnlyStep
<1>15. CASE UNCHANGED vars
  BY <1>1, <1>15, TaskOnlyStep DEF vars
<1> QED
  BY <1>2, <1>3, <1>4, <1>5, <1>6, <1>7, <1>8, <1>9, <1>10, <1>11, <1>12, <1>13,
     <1>14, <1>15 DEF Next, TaskStep, Handler, Terminated

\* The inductive invariant holds in every reachable state.
LEMMA InvHolds == Spec => []Inv
BY InitInv, StepInv, PTL DEF Spec

\* What concurrent callbacks remember agrees with what is committed, to the
\* extent MemoryAgrees says; this is the heart of the other results.
THEOREM MemorySound == Spec => []MemoryAgrees
BY InvHolds, PTL DEF Inv

\* Without late starts no client ever sees a final status, or a progress of
\* 100, that the sources' rows do not justify.
THEOREM FinalStatusSound == Spec => []TerminalIsSound
BY InvHolds, PTL DEF Inv

-----------------------------------------------------------------------------
(* The other properties.                                                   *)

\* Only a commit writes the scan, a row or the overlap flag, and late starts
\* are never forgotten.
LEMMA OnlyCommitWrites ==
  ASSUME TypeOK, [Next]_vars
  PROVE  /\ UNCHANGED <<scan, rows, overlapped>> \/ \E r \in Requests : Commit(r)
         /\ lateStarts' = 0 => lateStarts = 0
<1>1. CASE PublishScan \/ DispatcherDies \/ UNCHANGED vars
  BY <1>1 DEF PublishScan, DispatcherDies, vars
<1>2. ASSUME NEW s \in Sources, FanOut(s) \/ TaskStep(s) \/ TaskDies(s)
      PROVE  UNCHANGED <<scan, rows, overlapped, lateStarts>>
  BY <1>2 DEF FanOut, TaskStep, BeginTask, StartReturns, SendFinal, FinalReturns, TaskDies
<1>3. ASSUME NEW s \in Sources, StartTimesOut(s)
      PROVE  UNCHANGED <<scan, rows, overlapped>> /\ lateStarts' # 0
  BY <1>3 DEF StartTimesOut, TypeOK
<1>4. ASSUME NEW r \in Requests,
             Load(r) \/ Save(r) \/ Refresh(r) \/ ReportQueued(r) \/ RequestFails(r)
      PROVE  UNCHANGED <<scan, rows, overlapped, lateStarts>>
  BY <1>4 DEF Load, Save, Refresh, ReportQueued, RequestFails
<1>5. ASSUME NEW r \in Requests, Commit(r) PROVE UNCHANGED lateStarts
  BY <1>5 DEF Commit
<1> QED BY <1>1, <1>2, <1>3, <1>4, <1>5 DEF Next, Handler, Terminated

\* A request that is about to commit a finished row is a final one.
LEMMA FinishedReportIsFinal ==
  ASSUME Inv, NEW r \in Requests, request[r].pc = "saved", request[r].report \in FinishedStatus
  PROVE  FinalRequest(r[1]) = request[r]
<1>1. CASE r[2] = "running"
  <2>1. request[r] = RunningRequest(r[1])
    BY <1>1, RowTypes DEF RunningRequest
  <2> QED BY <2>1, RowTypes DEF Inv, MemoryAgrees, ReportsMatchKinds, FinishedStatus
<1>2. CASE r[2] = "final"
  BY <1>2, RowTypes DEF FinalRequest
<1> QED BY <1>1, <1>2, RowTypes DEF Kinds

\* The report of a completed or partial scan is always in somebody's hands.
THEOREM ReportAsked == Spec => []ReportIsAsked
<1>1. Init => ReportIsAsked
  BY DEF Init, NewScan, ReportIsAsked, ReportableStatus
<1>2. Inv /\ ReportIsAsked /\ [Next]_vars => ReportIsAsked'
  <2> SUFFICES ASSUME Inv, ReportIsAsked, [Next]_vars, scan'.status \in ReportableStatus
               PROVE  \E r \in Requests : request'[r].pc \in DurablePc \ {"answered"}
    BY DEF ReportIsAsked
  <2> USE RowTypes
  <2> DEFINE Hands == {"committed", "reporting", "reported", "orphaned", "unreported"}
  <2>1. Hands = DurablePc \ {"answered"}
    BY DEF DurablePc
  <2>2. ASSUME NEW r \in Requests, Commit(r)
        PROVE  \E q \in Requests : request'[q].pc \in Hands
    <3>1. request'[r].pc = "committed"
      BY <2>2 DEF Commit, Inv, TypeOK, Request
    <3> QED BY <3>1
  <2>3. ASSUME UNCHANGED scan, \A r \in Requests : ~Commit(r)
        PROVE  \E q \in Requests : request'[q].pc \in Hands
    <3>1. PICK r \in Requests : request[r].pc \in Hands
      BY <2>1, <2>3 DEF ReportIsAsked
    <3>2. ASSUME NEW s \in Sources, TaskStep(s) PROVE request'[r] = request[r]
      <4>1. CASE BeginTask(s)
        <5>1. request[<<s, "running">>].pc = "unsent"
          BY <4>1 DEF BeginTask, Inv, MemoryAgrees, RequestsInOrder, RunningRequest
        <5> QED BY <3>1, <4>1, <5>1 DEF BeginTask, Send, Inv, TypeOK
      <4>2. ASSUME NEW outcome \in Outcome, SendFinal(s, outcome) PROVE request'[r] = request[r]
        <5>1. request[<<s, "final">>].pc = "unsent"
          BY <4>2 DEF SendFinal, Inv, MemoryAgrees, RequestsInOrder, FinalRequest
        <5> QED BY <3>1, <4>2, <5>1 DEF SendFinal, Send, Inv, TypeOK
      <4> QED BY <3>2, <4>1, <4>2 DEF TaskStep, StartReturns, FinalReturns
    <3>3. ASSUME NEW q \in Requests, Load(q) \/ Save(q) PROVE request'[r] = request[r]
      BY <3>1, <3>3 DEF Load, Save, Inv, TypeOK
    <3>4. ASSUME NEW q \in Requests, Refresh(q) \/ RequestFails(q) \/ ReportQueued(q)
          PROVE  request'[r].pc \in Hands
      <4>1. CASE q # r
        BY <3>1, <3>4, <4>1 DEF Refresh, RequestFails, ReportQueued, Inv, TypeOK
      <4>2. CASE q = r /\ Refresh(q)
        BY <2>3, <4>2 DEF Refresh, Inv, TypeOK, Request
      <4>3. CASE q = r /\ RequestFails(q)
        <5>1. request[r].pc \in {"committed", "reporting"}
          BY <3>1, <4>3 DEF RequestFails, OpenPc, ClosedPc, ErrorPc
        <5> QED BY <4>3, <5>1 DEF RequestFails, Inv, TypeOK, Request
      <4>4. CASE q = r /\ ReportQueued(q)
        BY <4>4 DEF ReportQueued, Inv, TypeOK, Request
      <4> QED BY <3>4, <4>1, <4>2, <4>3, <4>4
    <3>5. request'[r].pc \in Hands
      <4>1. ASSUME NEW s \in Sources, FanOut(s) \/ StartTimesOut(s) \/ TaskDies(s)
            PROVE  request' = request
        BY <4>1 DEF FanOut, StartTimesOut, TaskDies
      <4>2. CASE PublishScan \/ DispatcherDies \/ UNCHANGED vars
        BY <3>1, <4>2 DEF PublishScan, DispatcherDies, vars
      <4> QED BY <2>3, <3>1, <3>2, <3>3, <3>4, <4>1, <4>2 DEF Next, Handler, Terminated
    <3> QED BY <3>5
  <2>4. (\E r \in Requests : Commit(r)) \/ (UNCHANGED scan /\ \A r \in Requests : ~Commit(r))
    BY OnlyCommitWrites DEF Inv
  <2> QED BY <2>1, <2>2, <2>3, <2>4
<1> QED BY <1>1, <1>2, InvHolds, PTL DEF Spec

\* A completion is lost only if two callbacks overlapped.
THEOREM LossNeedsOverlap == Spec => []OnlyOverlapLosesCompletion
<1>1. Init => OnlyOverlapLosesCompletion
  BY SourcesAssumption
     DEF Init, NoRows, OnlyOverlapLosesCompletion, AllFinished, FinishedStatus
<1>2. Inv /\ OnlyOverlapLosesCompletion /\ [Next]_vars => OnlyOverlapLosesCompletion'
  <2> SUFFICES ASSUME Inv, OnlyOverlapLosesCompletion, [Next]_vars,
                      AllFinished(rows'), ~overlapped'
               PROVE  scan'.status \in TerminalStatus
    BY DEF OnlyOverlapLosesCompletion, AllFinished
  <2>1. CASE UNCHANGED <<scan, rows, overlapped>>
    BY <2>1 DEF OnlyOverlapLosesCompletion
  <2>2. ASSUME NEW r \in Requests, Commit(r) PROVE scan'.status \in TerminalStatus
    <3>1. request[r].pc = "saved" /\ rows' = [rows EXCEPT ![r[1]] = request[r].report]
      BY <2>2 DEF Commit
    <3>2. ~overlapped
      BY <2>2, Zenon DEF Commit
    <3>3. request[r].view = rows'
      BY <3>1, <3>2 DEF Inv, MemoryAgrees, ViewsAreFresh
    <3>4. request[r].report \in FinishedStatus
      BY <3>1, RowTypes DEF AllFinished, Inv, TypeOK, Rows
    <3>5. request[r].seen.status \notin TerminalStatus
      <4>1. FinalRequest(r[1]).pc \notin DurablePc
        BY <3>1, <3>4, FinishedReportIsFinal DEF DurablePc
      <4> QED BY <3>1, <4>1, RowTypes DEF Inv, MemoryAgrees, TerminalNeedsAll, AllLanded
    <3>6. AggregateStatus(request[r].view) \in TerminalStatus
      BY <2>2, <3>3, AggregateIsTerminal, CommittedColumns DEF Inv
    <3> QED BY <2>2, <3>5, <3>6, CommittedColumns DEF Inv
  <2> QED BY <2>1, <2>2, OnlyCommitWrites DEF Inv
<1> QED BY <1>1, <1>2, InvHolds, PTL DEF Spec

\* Without late starts a finished row is never taken back ...
THEOREM FinishedStays == Spec => FinishedIsKept
<1>1. ASSUME Inv, [Next]_vars, lateStarts' = 0, NEW s \in Sources, rows[s] \in FinishedStatus
      PROVE  rows'[s] = rows[s]
  <2>1. ASSUME NEW r \in Requests, Commit(r) PROVE rows'[s] = rows[s]
    <3>1. rows[r[1]] \notin FinishedStatus
      BY <1>1, <2>1, NotYetTerminal, OnlyCommitWrites DEF Commit, Inv
    <3> QED BY <1>1, <2>1, <3>1 DEF Commit, Inv, TypeOK, Rows
  <2> QED BY <1>1, <2>1, OnlyCommitWrites DEF Inv
<1>2. Inv /\ [Next]_vars =>
        [lateStarts' = 0 =>
           \A s \in Sources : rows[s] \in FinishedStatus => rows'[s] = rows[s]]_vars
  BY <1>1
<1> QED BY <1>2, InvHolds, PTL DEF Spec, FinishedIsKept

\* ... and a scan with a final status is never written again.
THEOREM TerminalStays == Spec => TerminalIsFinal
<1>1. ASSUME Inv, [Next]_vars, lateStarts' = 0, scan.status \in TerminalStatus
      PROVE  scan' = scan
  <2>1. ASSUME NEW r \in Requests, Commit(r) PROVE FALSE
    BY <1>1, <2>1, NotYetTerminal, OnlyCommitWrites DEF Commit, Inv
  <2> QED BY <1>1, <2>1, OnlyCommitWrites DEF Inv
<1> QED BY <1>1, InvHolds, PTL DEF Spec, TerminalIsFinal

-----------------------------------------------------------------------------
(* The refinement: what a client sees is what ScanLifecycle allows.        *)

\* What the abstract specification sees of the rows is rows, and all of them once
\* they are finished.
LEMMA OutcomesAreRows ==
  ASSUME TypeOK
  PROVE  /\ Outcomes \in Rows
         /\ AllFinished(rows) => Outcomes = rows
BY DEF TypeOK, Outcomes, Rows, SourceStatus, AllFinished

\* A commit under the invariant is an abstract step or changes nothing visible.
LEMMA CommitRefines ==
  ASSUME Inv, TypeOK', lateStarts = 0, NEW r \in Requests, Commit(r)
  PROVE  Lifecycle!Next \/ UNCHANGED <<scan.status, Outcomes>>
<1> USE RowTypes
<1> DEFINE v == request[r].view
           seen == request[r].seen
           result == request[r].report
<1>1. /\ request[r].pc = "saved" /\ rows' = [rows EXCEPT ![r[1]] = result]
      /\ rows \in Rows /\ result \in SourceStatus
  BY DEF Commit, Inv, TypeOK, Request
<1>2. scan.status \notin TerminalStatus /\ rows[r[1]] \notin FinishedStatus
  BY <1>1, NotYetTerminal
<1>3. seen.status \notin TerminalStatus
  BY <1>1 DEF Inv, MemoryAgrees, CopiesAreUnfinished
<1>4. /\ v \in Rows
      /\ scan'.status = IF AggregateStatus(v) = seen.status
                        THEN scan.status ELSE AggregateStatus(v)
  BY CommittedColumns DEF Inv
<1>5. \/ scan'.status = "running"
      \/ UNCHANGED scan.status
      \/ AllFinished(v) /\ scan'.status = AggregateStatus(v)
  BY <1>4, AggregateIsTerminal
<1>6. Outcomes[r[1]] = "none"
  BY <1>2 DEF Outcomes
<1>7. CASE result \in FinishedStatus
  <2>1. Outcomes' = [Outcomes EXCEPT ![r[1]] = result]
    BY <1>1, <1>7 DEF Outcomes, Rows
  <2>2. scan.status = "queued" => seen.status = "queued"
    BY <1>1 DEF Inv, MemoryAgrees, QueuedIsUnseen
  <2>3. scan.status \in {"queued", "running"}
    BY <1>2 DEF Inv, TypeOK, ScanRow, ScanStatus, TerminalStatus
  <2>4. ASSUME AllFinished(v), scan'.status = AggregateStatus(v)
        PROVE  AllFinished(Outcomes') /\ scan'.status = AggregateStatus(Outcomes')
    <3>1. \A s \in Sources : rows'[s] = v[s]
      BY <1>1, <2>4 DEF Inv, MemoryAgrees, ViewsAreBacked, AllFinished, Rows
    <3>2. rows' = v
      BY <1>1, <1>4, <3>1 DEF Rows
    <3>3. Outcomes' = v
      BY <1>4, <2>4, <3>2 DEF Outcomes, AllFinished, Rows
    <3> QED BY <2>4, <3>3
  <2>5. \/ scan'.status = "running"
        \/ AllFinished(Outcomes') /\ scan'.status = AggregateStatus(Outcomes')
    <3>1. CASE AllFinished(v)
      BY <1>3, <1>4, <2>4, <3>1, AggregateIsTerminal
    <3>2. CASE ~AllFinished(v)
      <4>1. AggregateStatus(v) = "running"
        BY <1>4, <3>2, AggregateIsTerminal
      <4> QED BY <1>4, <2>2, <2>3, <4>1
    <3> QED BY <3>1, <3>2
  <2>6. Lifecycle!AllFinished(Outcomes') <=> AllFinished(Outcomes')
    BY DEF Lifecycle!AllFinished, AllFinished, Lifecycle!FinishedStatus, FinishedStatus
  <2>7. Lifecycle!AggregateStatus(Outcomes') = AggregateStatus(Outcomes')
    BY DEF Lifecycle!AggregateStatus, AggregateStatus, Lifecycle!NotCompleted, NotCompleted,
           Lifecycle!AllFinished, AllFinished, Lifecycle!FinishedStatus, FinishedStatus
  <2>8. Lifecycle!Report(r[1], result)
    BY <1>2, <1>6, <2>1, <2>5, <2>6, <2>7
       DEF Lifecycle!Report, Lifecycle!TerminalStatus, TerminalStatus
  <2> QED BY <1>7, <2>8 DEF Lifecycle!Next, Lifecycle!FinishedStatus, FinishedStatus
<1>8. CASE result \notin FinishedStatus
  <2>1. UNCHANGED Outcomes
    BY <1>1, <1>2, <1>8 DEF Outcomes, Rows
  <2>2. ~AllFinished(v)
    BY <1>1, <1>8 DEF Inv, MemoryAgrees, ViewsAreBacked, AllFinished
  <2>3. scan.status \in {"queued", "running"}
    BY <1>2 DEF Inv, TypeOK, ScanRow, ScanStatus, TerminalStatus
  <2> QED BY <1>5, <2>1, <2>2, <2>3 DEF Lifecycle!Next, Lifecycle!Start
<1> QED BY <1>7, <1>8

\* Where no task goes on before its "running" call has ended, the callbacks
\* implement the life cycle, for every number of sources and faults.
THEOREM Refinement ==
  ASSUME MaxLateStarts = 0
  PROVE  Spec => ImplementsLifecycle
<1>1. Init => Lifecycle!Init
  BY DEF Init, NewScan, NoRows, Outcomes, FinishedStatus, Lifecycle!Init
<1>2. Inv /\ Inv' /\ [Next]_vars => [Lifecycle!Next]_(Lifecycle!vars)
  <2> SUFFICES ASSUME Inv, Inv', [Next]_vars
               PROVE  Lifecycle!Next \/ UNCHANGED <<scan.status, Outcomes>>
    BY DEF Lifecycle!vars
  <2>1. lateStarts = 0
    BY DEF Inv, TypeOK
  <2>2. ASSUME NEW r \in Requests, Commit(r)
        PROVE  Lifecycle!Next \/ UNCHANGED <<scan.status, Outcomes>>
    BY <2>1, <2>2, CommitRefines DEF Inv
  <2>3. CASE UNCHANGED <<scan, rows, overlapped>>
    BY <2>3 DEF Outcomes
  <2> QED BY <2>2, <2>3, OnlyCommitWrites DEF Inv
<1> QED BY <1>1, <1>2, InvHolds, PTL DEF Spec, ImplementsLifecycle, Lifecycle!Spec
=============================================================================
