----------------------- MODULE ScanCallbacksInvariant -----------------------
(***************************************************************************)
(* The inductive invariant behind the safety properties of ScanCallbacks.  *)
(* Its parts relate what a request remembers (the copy of the scan in      *)
(* seen, the rows in view) to what is committed, which is where concurrent *)
(* callbacks can go wrong.                                                 *)
(***************************************************************************)
EXTENDS ScanCallbacks

RunningRequest(s) == request[<<s, "running">>]
FinalRequest(s) == request[<<s, "final">>]

\* The code of a task orders its two requests; the second is sent after the
\* first has ended unless a task went on early.
RequestsInOrder ==
  \A s \in Sources :
    /\ task[s] \in {"unsent", "queued"} => RunningRequest(s).pc = "unsent"
    /\ task[s] \in {"unsent", "queued", "starting", "working"} =>
         FinalRequest(s).pc = "unsent"
    /\ lateStarts = 0 /\ (task[s] = "working" \/ FinalRequest(s).pc # "unsent") =>
         RunningRequest(s).pc \in ClosedPc

ReportsMatchKinds ==
  \A s \in Sources :
    /\ RunningRequest(s).pc # "unsent" => RunningRequest(s).report = "running"
    /\ FinalRequest(s).pc # "unsent" => FinalRequest(s).report \in Outcome

\* A finished row was committed by the source's final request.
FinishedRowsLanded ==
  \A s \in Sources : rows[s] \in FinishedStatus => FinalRequest(s).pc \in DurablePc

AllLanded == \A s \in Sources : FinalRequest(s).pc \in DurablePc

\* So were the finished rows a request has in view; and without late starts
\* such a row has not changed since.
ViewsAreBacked ==
  \A r \in Requests : request[r].pc = "saved" =>
    /\ request[r].view[r[1]] = request[r].report
    /\ \A s \in Sources \ {r[1]} : request[r].view[s] \in FinishedStatus =>
         /\ FinalRequest(s).pc \in DurablePc
         /\ lateStarts = 0 => rows[s] = request[r].view[s]

\* A scan is terminal, or was when a request read it, only after every final
\* request has committed.
TerminalNeedsAll ==
  /\ scan.status \in TerminalStatus => AllLanded
  /\ \A r \in Requests :
       request[r].pc \in {"loaded", "saved"} /\ request[r].seen.status \in TerminalStatus
         => AllLanded

\* Without late starts no request that has yet to write saw a terminal scan,
\* nor one at 100.
CopiesAreUnfinished ==
  lateStarts = 0 =>
    \A r \in Requests : request[r].pc \in {"loaded", "saved"} =>
      /\ request[r].seen.status \notin TerminalStatus
      /\ request[r].seen.progress # 100

\* Nobody saw a scan running that is still queued.
QueuedIsUnseen ==
  scan.status = "queued" =>
    \A r \in Requests : request[r].pc \in {"loaded", "saved"} =>
      request[r].seen.status = "queued"

\* As long as nothing overlapped, a request commits what it has in view.
ViewsAreFresh ==
  ~overlapped =>
    \A r \in Requests : request[r].pc = "saved" =>
      request[r].view = [rows EXCEPT ![r[1]] = request[r].report]

\* Everything the properties TerminalIsSound, OnlyOverlapLosesCompletion and
\* FinishedIsKept rest on: what requests remember agrees with what is committed
\* to the extent the code guarantees it (save_source_result, lines 154-637).
MemoryAgrees ==
  /\ RequestsInOrder
  /\ ReportsMatchKinds
  /\ FinishedRowsLanded
  /\ ViewsAreBacked
  /\ TerminalNeedsAll
  /\ CopiesAreUnfinished
  /\ QueuedIsUnseen
  /\ ViewsAreFresh
=============================================================================
