------------------------ MODULE ActivePipeline_proofs ------------------------
(* Proofs about the chain of an active scan, for any set of sources, any      *)
(* results of the container and any number of faults. One task of the chain   *)
(* has work at a time, so the invariant says of each task what its start      *)
(* relies on, what its remaining callbacks may write, and what its end has    *)
(* left in the rows. What concerns the container is claimed only as long as   *)
(* none was abandoned.                                                        *)
EXTENDS ActivePipeline, SequenceTheorems, TLAPS

Calls == [source : Sources, status : SourceStatus \ {"none"}, strict : BOOLEAN]

Jobs == [pc : JobPc,
         script : [outbox : Seq(Calls), next : Tasks \union {"none"}, ok : BOOLEAN]]

\* The callbacks a task has in its script.
CallsOf(sources, status) == [source : sources, status : status, strict : BOOLEAN]

Own(n) ==
  CASE n \in Leaves \union {"crt.sh", "cve"} -> CallsOf({n}, {"running"} \union Outcome)
    [] n = "target_resolution" ->
         CallsOf({n}, {"running"} \union Outcome)
           \union CallsOf(PipelineSources \union {"cve"}, {"skipped"})
    [] n = "nmap" -> CallsOf(PipelineSources, {"failed"}) \union CallsOf({"cve"}, {"skipped"})
    [] n \in Containers -> CallsOf(PipelineSources, SourceStatus \ {"none"})
    [] n = "cpe_resolver" -> CallsOf({n}, Outcome) \union CallsOf({"cve"}, {"running", "failed"})

\* The tasks it may publish.
Follows(n) ==
  CASE n = "crt.sh"            -> {"target_resolution"}
    [] n = "target_resolution" -> {"nmap", "none"}
    [] n = "nmap"              -> {"cpe_resolver", "none"}
    [] n = "cpe_resolver"      -> {"cve", "none"}
    [] OTHER                   -> {"none"}

Pc(n) == job[n].pc
Box(n) == job[n].script.outbox
NextOf(n) == job[n].script.next
NotBegun(n) == Pc(n) \in {"absent", "queued"}

\* The last of these callbacks about s puts its row in S; none is about s.
Settles(box, s, S) ==
  \E k \in DOMAIN box : /\ box[k].source = s /\ box[k].status \in S
                        /\ \A l \in DOMAIN box : l > k => box[l].source # s

Silent(box, s) == \A l \in DOMAIN box : box[l].source # s

\* Once these callbacks have arrived, the row of s is in S.
EndsIn(box, s, S) == Settles(box, s, S) \/ (rows[s] \in S /\ Silent(box, s))

-----------------------------------------------------------------------------
(* The inductive invariant.                                                 *)

Typed ==
  /\ TypeOK
  /\ job \in [Tasks -> Jobs]
  /\ \A n \in Tasks : Pc(n) = "active" => Box(n) \in Seq(Own(n)) /\ NextOf(n) \in Follows(n)

\* Only a container exits with a status other than 0.
OthersExitWell == \A n \in Tasks \ Containers : job[n].script.ok

\* A stage begins after the end of the one before it.
StagesFollow ==
  /\ boot = "queued" => \A n \in Tasks : Pc(n) = "absent"
  /\ Pc("target_resolution") # "absent" => Pc("crt.sh") = "ended"
  /\ Pc("nmap") # "absent" => /\ Pc("target_resolution") = "ended"
                              /\ rows["target_resolution"] = "completed"
  /\ Pc("nmap") = "absent" => \A c \in Containers : Pc(c) = "absent"
  /\ Pc("cpe_resolver") # "absent" => Pc("nmap") = "ended"
  /\ Pc("cve") # "absent" => Pc("cpe_resolver") = "ended" /\ rows["cpe_resolver"] = "completed"

\* dns, shodan, hibp and crt.sh: one result, at the end.
SinglesReport ==
  \A n \in Leaves \union {"crt.sh"} :
    /\ NotBegun(n) => rows[n] = "none"
    /\ Pc(n) = "active" =>
         \/ /\ rows[n] \in {"none", "running"}
            /\ \E o \in Outcome : Box(n) \in {<<Hint(n, "running"), Call(n, o)>>, <<Call(n, o)>>}
         \/ rows[n] \in Outcome /\ Box(n) = <<>>
    /\ Pc(n) = "ended" => rows[n] \in Outcome

ResolutionReports ==
  /\ Pc("target_resolution") = "active" /\ NextOf("target_resolution") = "nmap" =>
       \/ Box("target_resolution") \in
            {<<Hint("target_resolution", "running"), Call("target_resolution", "completed")>>,
             <<Call("target_resolution", "completed")>>}
       \/ Box("target_resolution") = <<>> /\ rows["target_resolution"] = "completed"
  /\ Pc("nmap") = "absent" => \A p \in PipelineSources : rows[p] \in {"none", "skipped"}

\* At most the container of the current attempt is at work, and only while nmap
\* waits for it or is dead; one that ended well has reported all four sources.
AllReported == \A p \in PipelineSources : rows[p] \in FinishedStatus

ContainerReports ==
  /\ \A a \in Attempts : Pc(Container[a]) \in {"queued", "active"} =>
       a = attempt /\ Pc("nmap") \in {"waiting", "crashed"}
  /\ Pc(Container[attempt]) = "active" /\ job[Container[attempt]].script.ok =>
       /\ \A k \in DOMAIN Box(Container[attempt]) : Box(Container[attempt])[k].strict
       /\ \A p \in PipelineSources : EndsIn(Box(Container[attempt]), p, FinishedStatus)
  /\ Pc("nmap") = "waiting" /\ Pc(Container[attempt]) = "ended" => AllReported
  /\ Pc("nmap") = "active" /\ NextOf("nmap") = "cpe_resolver" => AllReported
  /\ Pc("cpe_resolver") # "absent" => AllReported

CpeReports ==
  /\ NotBegun("cpe_resolver") => rows["cpe_resolver"] = "none"
  /\ Pc("cpe_resolver") = "active" =>
       \/ /\ rows["cpe_resolver"] = "none"
          /\ NextOf("cpe_resolver") = "cve"
          /\ Box("cpe_resolver") \in {<<Hint("cve", "running"), Call("cpe_resolver", "completed")>>,
                                      <<Call("cpe_resolver", "completed")>>}
       \/ /\ rows["cpe_resolver"] = "none"
          /\ NextOf("cpe_resolver") = "none"
          /\ Box("cpe_resolver") \in {<<Hint("cve", "running"), Call("cpe_resolver", "failed"),
                                        Hint("cve", "failed")>>,
                                      <<Call("cpe_resolver", "failed"), Hint("cve", "failed")>>}
       \/ /\ rows["cpe_resolver"] = "completed" /\ NextOf("cpe_resolver") = "cve"
          /\ Box("cpe_resolver") = <<>>
       \/ /\ rows["cpe_resolver"] = "failed" /\ NextOf("cpe_resolver") = "none"
          /\ Box("cpe_resolver") \in {<<Hint("cve", "failed")>>, <<>>}

\* Somebody is still to report cve: its row is open, or it holds the "skipped"
\* of an attempt of nmap that was repeated.
CveToCome ==
  \/ Pc("target_resolution") \in {"absent", "queued"}
  \/ Pc("target_resolution") = "active" /\ NextOf("target_resolution") = "nmap"
  \/ Pc("nmap") \in {"queued", "waiting"}
  \/ Pc("nmap") = "active" /\ NextOf("nmap") = "cpe_resolver"
  \/ Pc("cpe_resolver") = "queued"
  \/ Pc("cpe_resolver") = "active"
       /\ (Box("cpe_resolver") # <<>> \/ NextOf("cpe_resolver") = "cve")
  \/ Pc("cve") = "queued"
  \/ Pc("cve") = "active" /\ Box("cve") # <<>>

CveReports ==
  /\ CveToCome => \/ rows["cve"] \in {"none", "running"}
                  \/ rows["cve"] = "skipped" /\ attempt > 1
  /\ Pc("nmap") = "active" /\ NextOf("nmap") = "cpe_resolver" => Box("nmap") = <<>>
  /\ Pc("cpe_resolver") = "absent" => rows["cve"] \in {"none", "skipped"}
  /\ NotBegun("cve") => rows["cve"] # "completed"
  /\ Pc("cve") = "active" =>
       \/ \E o \in Outcome : Box("cve") \in {<<Hint("cve", "running"), Call("cve", o)>>,
                                             <<Call("cve", o)>>}
       \/ rows["cve"] \in Outcome /\ Box("cve") = <<>>
  /\ Pc("cve") = "ended" => rows["cve"] \in Outcome

\* A final status comes from the rows, or from a start that was refused.
StatusIsTheRows ==
  scan \in TerminalStatus =>
    AllFinished(rows) \/ (boot = "failed" /\ \A n \in Tasks : Pc(n) = "absent")

\* Without faults every task but a container ends, and leaves nothing behind.
FaultlessIsComplete ==
  faults = 0 =>
    /\ ~abandoned
    /\ \A n \in Tasks \ Containers : Pc(n) # "crashed"
    /\ boot = "done" => \A n \in Leaves \union {"crt.sh"} : Pc(n) # "absent"
    /\ Pc("crt.sh") = "ended" => Pc("target_resolution") # "absent"
    /\ Pc("target_resolution") = "active" /\ NextOf("target_resolution") = "none" =>
         /\ EndsIn(Box("target_resolution"), "target_resolution", {"failed"})
         /\ \A s \in PipelineSources \union {"cve"} :
              EndsIn(Box("target_resolution"), s, {"skipped"})
    /\ Pc("target_resolution") = "ended" /\ Pc("nmap") = "absent" =>
         /\ rows["target_resolution"] = "failed"
         /\ \A s \in PipelineSources \union {"cve"} : rows[s] = "skipped"
    /\ Pc("nmap") = "active" /\ NextOf("nmap") = "none" =>
         /\ \A p \in PipelineSources : EndsIn(Box("nmap"), p, {"failed"})
         /\ EndsIn(Box("nmap"), "cve", {"skipped"})
    /\ Pc("nmap") = "ended" /\ Pc("cpe_resolver") = "absent" =>
         /\ \A p \in PipelineSources : rows[p] = "failed"
         /\ rows["cve"] = "skipped"
    /\ Pc("cpe_resolver") = "active" /\ NextOf("cpe_resolver") = "none"
         /\ Box("cpe_resolver") = <<>> => rows["cve"] = "failed"
    /\ Pc("cpe_resolver") = "ended" /\ Pc("cve") = "absent" =>
         rows["cpe_resolver"] = "failed" /\ rows["cve"] = "failed"

IInv ==
  /\ Typed
  /\ OthersExitWell
  /\ StagesFollow
  /\ SinglesReport
  /\ ResolutionReports
  /\ ~abandoned => ContainerReports
  /\ CpeReports
  /\ CveReports
  /\ StatusIsTheRows
  /\ FaultlessIsComplete

-----------------------------------------------------------------------------
(* The tasks.                                                               *)

\* Sources, containers and the chain do not share names.
LEMMA Names ==
  /\ PipelineSources \union ChainSources \subseteq Sources
  /\ "crt.sh" \in Tasks /\ "target_resolution" \in Tasks /\ "nmap" \in Tasks
  /\ "cpe_resolver" \in Tasks /\ "cve" \in Tasks
  /\ Leaves \subseteq Tasks /\ Leaves \subseteq Sources
  /\ \A n \in Leaves : n \notin PipelineSources \union ChainSources
  /\ Containers \subseteq Tasks
  /\ \A n \in Tasks : n \in Leaves \union ChainSources \union {"nmap"} \union Containers
  /\ \A n \in Containers : n \notin Sources
  /\ "none" \notin Tasks
  /\ \A a \in Attempts : Container[a] \in Containers
  /\ \A n \in Containers : \E a \in Attempts : n = Container[a]
  /\ \A a, b \in Attempts : Container[a] = Container[b] => a = b
BY ActiveAssumption
DEF Tasks, Leaves, ChainSources, PipelineSources, Containers, Container, Attempts, MaxRetries

\* What a task may send and publish, kind by kind.
LEMMA Kinds ==
  /\ \A n \in Leaves \union {"crt.sh", "cve"} : Own(n) = CallsOf({n}, {"running"} \union Outcome)
  /\ Own("target_resolution") =
       CallsOf({"target_resolution"}, {"running"} \union Outcome)
         \union CallsOf(PipelineSources \union {"cve"}, {"skipped"})
  /\ Own("nmap") = CallsOf(PipelineSources, {"failed"}) \union CallsOf({"cve"}, {"skipped"})
  /\ \A n \in Containers : Own(n) = CallsOf(PipelineSources, SourceStatus \ {"none"})
  /\ Own("cpe_resolver") = CallsOf({"cpe_resolver"}, Outcome)
                             \union CallsOf({"cve"}, {"running", "failed"})
  /\ \A n \in Tasks : Own(n) \subseteq Calls
BY Names DEF Own, ChainSources, PipelineSources, Calls, CallsOf, SourceStatus, Outcome

\* Every task publishes tasks.
LEMMA Publishes ==
  /\ \A n \in Leaves \union Containers \union {"cve"} : Follows(n) = {"none"}
  /\ Follows("crt.sh") = {"target_resolution"}
  /\ Follows("target_resolution") = {"nmap", "none"}
  /\ Follows("nmap") = {"cpe_resolver", "none"}
  /\ Follows("cpe_resolver") = {"cve", "none"}
  /\ \A n \in Tasks : Follows(n) \subseteq Tasks \union {"none"}
BY Names DEF Follows, ChainSources, PipelineSources
-----------------------------------------------------------------------------
(* Sequences of callbacks.                                                  *)

\* The short scripts, one callback after the other.
LEMMA Tail1 ==
  ASSUME NEW a
  PROVE  Head(<<a>>) = a /\ Tail(<<a>>) = <<>> /\ <<a>> # <<>>
OBVIOUS

\* Two callbacks.
LEMMA Tail2 ==
  ASSUME NEW a, NEW b
  PROVE  Head(<<a, b>>) = a /\ Tail(<<a, b>>) = <<b>> /\ <<a, b>> # <<>>
OBVIOUS

\* Three callbacks.
LEMMA Tail3 ==
  ASSUME NEW a, NEW b, NEW c
  PROVE  Head(<<a, b, c>>) = a /\ Tail(<<a, b, c>>) = <<b, c>> /\ <<a, b, c>> # <<>>
OBVIOUS

\* Two callbacks in a row.
LEMMA Pair == ASSUME NEW a, NEW b PROVE <<a>> \o <<b>> = <<a, b>>
<1>1. <<a>> \in Seq({a, b}) /\ <<b>> \in Seq({a, b}) /\ <<a, b>> \in Seq({a, b})
  OBVIOUS
<1>2. /\ <<a>> \o <<b>> \in Seq({a, b}) /\ Len(<<a>> \o <<b>>) = 2
      /\ (<<a>> \o <<b>>)[1] = a /\ (<<a>> \o <<b>>)[2] = b
  BY <1>1
<1>3. Len(<<a, b>>) = 2 /\ <<a, b>>[1] = a /\ <<a, b>>[2] = b
  OBVIOUS
<1>4. \A i \in 1..2 : (<<a>> \o <<b>>)[i] = <<a, b>>[i]
  BY <1>2, <1>3
<1> QED BY <1>1, <1>2, <1>3, <1>4, SeqEqual

\* A sequence that is not empty has a head, and its tail is a sequence again.
LEMMA HeadTail ==
  ASSUME NEW C, NEW box \in Seq(C), box # <<>>
  PROVE  /\ Head(box) \in C /\ Head(box) = box[1] /\ Tail(box) \in Seq(C)
         /\ DOMAIN box = 1..Len(box) /\ Len(box) \in Nat /\ 1 \in DOMAIN box
         /\ DOMAIN Tail(box) = 1..(Len(box) - 1)
         /\ \A k \in DOMAIN Tail(box) : Tail(box)[k] = box[k + 1] /\ k + 1 \in DOMAIN box
OBVIOUS

\* Calls, and nothing but calls.
LEMMA StrictCalls ==
  ASSUME NEW P, NEW S, NEW box \in Seq([source : P, status : S, strict : {TRUE}]),
         NEW k \in DOMAIN box
  PROVE  box[k].strict = TRUE
<1> DEFINE C == [source : P, status : S, strict : {TRUE}]
<1>1. box \in Seq(C)
  OBVIOUS
<1>2. \A c \in C : c.strict = TRUE
  OBVIOUS
<1> HIDE DEF C
<1> QED BY <1>1, <1>2

\* Callbacks about a source in one part, or in the later of two parts.
LEMMA Concat ==
  ASSUME NEW C, NEW o \in Seq(C), NEW u \in Seq(C), NEW s, NEW S
  PROVE  /\ o \o u \in Seq(C)
         /\ Settles(u, s, S) => Settles(o \o u, s, S)
         /\ Settles(o, s, S) /\ Silent(u, s) => Settles(o \o u, s, S)
         /\ Silent(o, s) /\ Silent(u, s) => Silent(o \o u, s)
<1>1. /\ o \o u \in Seq(C)
      /\ Len(o) \in Nat /\ Len(u) \in Nat /\ Len(o \o u) = Len(o) + Len(u)
      /\ DOMAIN o = 1..Len(o) /\ DOMAIN u = 1..Len(u) /\ DOMAIN (o \o u) = 1..(Len(o) + Len(u))
  OBVIOUS
<1>2. \A k \in 1..Len(o) : (o \o u)[k] = o[k]
  BY <1>1
<1>3. \A k \in 1..Len(u) : (o \o u)[Len(o) + k] = u[k]
  BY <1>1
<1>4. \A k \in DOMAIN (o \o u) : k \in 1..Len(o) \/ \E l \in 1..Len(u) : k = Len(o) + l
  <2> TAKE k \in DOMAIN (o \o u)
  <2>1. CASE k > Len(o)
    <3>1. k - Len(o) \in 1..Len(u) /\ k = Len(o) + (k - Len(o))
      BY <1>1, <2>1
    <3> QED BY <3>1
  <2>2. CASE ~(k > Len(o))
    BY <1>1, <2>2
  <2> QED BY <2>1, <2>2
<1> HIDE <1>1
<1>5. ASSUME Settles(u, s, S) PROVE Settles(o \o u, s, S)
  <2>1. PICK k \in DOMAIN u : /\ u[k].source = s /\ u[k].status \in S
                              /\ \A l \in DOMAIN u : l > k => u[l].source # s
    BY <1>5 DEF Settles
  <2>2. Len(o) + k \in DOMAIN (o \o u) /\ (o \o u)[Len(o) + k] = u[k]
    BY <1>1, <1>3, <2>1
  <2>3. ASSUME NEW l \in DOMAIN (o \o u), l > Len(o) + k PROVE (o \o u)[l].source # s
    <3>1. PICK m \in 1..Len(u) : l = Len(o) + m
      BY <1>1, <1>4, <2>1, <2>3
    <3> QED BY <1>1, <1>3, <2>1, <2>3, <3>1
  <2> QED BY <2>1, <2>2, <2>3 DEF Settles
<1>6. ASSUME Settles(o, s, S), Silent(u, s) PROVE Settles(o \o u, s, S)
  <2>1. PICK k \in DOMAIN o : /\ o[k].source = s /\ o[k].status \in S
                              /\ \A l \in DOMAIN o : l > k => o[l].source # s
    BY <1>6 DEF Settles
  <2>2. k \in DOMAIN (o \o u) /\ (o \o u)[k] = o[k]
    BY <1>1, <1>2, <2>1
  <2>3. ASSUME NEW l \in DOMAIN (o \o u), l > k PROVE (o \o u)[l].source # s
    BY <1>1, <1>2, <1>3, <1>4, <1>6, <2>1, <2>3 DEF Silent
  <2> QED BY <2>1, <2>2, <2>3 DEF Settles
<1>7. ASSUME Silent(o, s), Silent(u, s) PROVE Silent(o \o u, s)
  BY <1>1, <1>2, <1>3, <1>4, <1>7 DEF Silent
<1> QED BY <1>1, <1>5, <1>6, <1>7

\* One callback, or none.
LEMMA Single ==
  /\ \A c, S : c.status \in S => Settles(<<c>>, c.source, S)
  /\ \A c, s : c.source # s => Silent(<<c>>, s)
  /\ \A s : Silent(<<>>, s)
BY DEF Settles, Silent

\* A callback arrives: what the box ends in stays the same.
LEMMA Arrives ==
  ASSUME NEW C, NEW box \in Seq(C), box # <<>>, rows \in Rows, NEW s \in Sources, NEW S,
         EndsIn(box, s, S),
         rows' = [rows EXCEPT ![Head(box).source] = Head(box).status]
  PROVE  EndsIn(Tail(box), s, S)'
<1> USE HeadTail
<1>1. CASE Silent(box, s) /\ rows[s] \in S
  BY <1>1 DEF EndsIn, Silent, Rows
<1>2. CASE Settles(box, s, S)
  <2>1. PICK k \in DOMAIN box : /\ box[k].source = s /\ box[k].status \in S
                                /\ \A l \in DOMAIN box : l > k => box[l].source # s
    BY <1>2 DEF Settles
  <2>2. CASE k = 1
    <3>1. Silent(Tail(box), s)
      BY <2>1, <2>2 DEF Silent
    <3>2. rows'[s] \in S
      BY <2>1, <2>2 DEF Rows
    <3> QED BY <3>1, <3>2 DEF EndsIn
  <2>3. CASE k # 1
    <3>1. k - 1 \in DOMAIN Tail(box) /\ Tail(box)[k - 1] = box[k]
      BY <2>1, <2>3
    <3>2. \A l \in DOMAIN Tail(box) : l > k - 1 => Tail(box)[l].source # s
      BY <2>1
    <3> QED BY <2>1, <3>1, <3>2 DEF EndsIn, Settles
  <2> QED BY <2>2, <2>3
<1> QED BY <1>1, <1>2 DEF EndsIn

\* Nothing else changes it, and an empty box has its end in the row.
LEMMA Undisturbed ==
  /\ \A box, s, S : EndsIn(box, s, S) /\ rows'[s] = rows[s] => EndsIn(box, s, S)'
  /\ \A s, S : EndsIn(<<>>, s, S) => rows[s] \in S
BY DEF EndsIn, Settles, Silent

-----------------------------------------------------------------------------
(* What the scripts of the tasks end in.                                    *)

\* The container reports each of its sources, and only with calls.
LEMMA PipelineEnds ==
  ASSUME NEW run \in PossibleRuns
  PROVE  LET script == PipelineScript(run) IN
         /\ script.outbox \in Seq([source : PipelineSources, status : SourceStatus \ {"none"},
                                   strict : {TRUE}])
         /\ script.next = "none" /\ script.ok = TRUE
         /\ \A p \in PipelineSources : Settles(script.outbox, p, FinishedStatus)
<1> DEFINE C == [source : PipelineSources, status : SourceStatus \ {"none"}, strict : {TRUE}]
           A(s) == <<Announce(s, run[s])>>
           R(s) == IF run[s] = "skipped" THEN <<>> ELSE <<Call(s, run[s])>>
<1>1. \A s \in PipelineSources : run[s] \in PipelineResult
  BY DEF PossibleRuns
<1>2. ASSUME NEW s \in PipelineSources
      PROVE  /\ A(s) \in Seq(C) /\ R(s) \in Seq(C)
             /\ \A q \in PipelineSources \ {s} : Silent(A(s), q) /\ Silent(R(s), q)
             /\ IF run[s] = "skipped" THEN Settles(A(s), s, FinishedStatus) /\ Silent(R(s), s)
                                      ELSE Settles(R(s), s, FinishedStatus)
  <2>1. Announce(s, run[s]) \in C /\ Announce(s, run[s]).source = s
    BY DEF Announce, Call, SourceStatus
  <2>2. run[s] # "skipped" => Call(s, run[s]) \in C /\ Call(s, run[s]).source = s
                              /\ Call(s, run[s]).status \in FinishedStatus
    BY <1>1 DEF Call, SourceStatus, PipelineResult, FinishedStatus
  <2>3. run[s] = "skipped" => Announce(s, run[s]).status \in FinishedStatus
    BY DEF Announce, Call, FinishedStatus
  <2> HIDE DEF C
  <2>4. A(s) \in Seq(C) /\ R(s) \in Seq(C)
    <3>1. A(s) \in Seq(C)
      BY <2>1
    <3>2. CASE run[s] = "skipped"
      BY <3>1, <3>2
    <3>3. CASE run[s] # "skipped"
      <4>1. R(s) = <<Call(s, run[s])>>
        BY <3>3
      <4> QED BY <2>2, <3>1, <3>3, <4>1
    <3> QED BY <3>2, <3>3
  <2>5. \A q \in PipelineSources \ {s} : Silent(A(s), q) /\ Silent(R(s), q)
    BY <2>1, <2>2, Single, Zenon
  <2>6. ASSUME run[s] = "skipped" PROVE Settles(A(s), s, FinishedStatus) /\ Silent(R(s), s)
    <3>1. R(s) = <<>>
      BY <2>6
    <3>2. Silent(R(s), s)
      BY <3>1, Single, Zenon
    <3>3. Settles(<<Announce(s, run[s])>>, Announce(s, run[s]).source, FinishedStatus)
      BY <2>3, <2>6, Single, Zenon
    <3> QED BY <2>1, <3>2, <3>3
  <2>7. ASSUME run[s] # "skipped" PROVE Settles(R(s), s, FinishedStatus)
    <3>1. R(s) = <<Call(s, run[s])>>
      BY <2>7
    <3>2. Settles(<<Call(s, run[s])>>, Call(s, run[s]).source, FinishedStatus)
      BY <2>2, <2>7, Single, Zenon
    <3> QED BY <2>2, <2>7, <3>1, <3>2
  <2> QED BY <2>4, <2>5, <2>6, <2>7
<1> DEFINE H == "http_security"  T == "tls"  F == "fingerprint"
           b1 == A("nmap") \o R("nmap")
           b2 == b1 \o A(H)
           b3 == b2 \o A(T)
           b4 == b3 \o A(F)
           b5 == b4 \o R(H)
           b6 == b5 \o R(T)
           b7 == b6 \o R(F)
<1>3. "nmap" \in PipelineSources /\ H \in PipelineSources /\ T \in PipelineSources
      /\ F \in PipelineSources /\ PipelineSources = {"nmap", H, T, F}
  BY DEF PipelineSources
<1>4. PipelineScript(run) = Script(b7, "none")
  BY DEF PipelineScript
<1>5. /\ b1 = A("nmap") \o R("nmap") /\ b2 = b1 \o A(H) /\ b3 = b2 \o A(T) /\ b4 = b3 \o A(F)
      /\ b5 = b4 \o R(H) /\ b6 = b5 \o R(T) /\ b7 = b6 \o R(F)
  OBVIOUS
<1> DEFINE Ends(box, s) == Settles(box, s, FinishedStatus)
<1> HIDE DEF A, R, C, b1, b2, b3, b4, b5, b6, b7
<1>6. \A o, u \in Seq(C) :
        /\ o \o u \in Seq(C)
        /\ \A s : Ends(u, s) => Ends(o \o u, s)
        /\ \A s : Ends(o, s) /\ Silent(u, s) => Ends(o \o u, s)
  BY Concat, Zenon
<1> HIDE DEF Ends
<1>7. /\ A("nmap") \in Seq(C) /\ A(H) \in Seq(C) /\ A(T) \in Seq(C) /\ A(F) \in Seq(C)
      /\ R("nmap") \in Seq(C) /\ R(H) \in Seq(C) /\ R(T) \in Seq(C) /\ R(F) \in Seq(C)
  BY <1>2, <1>3
<1>8. /\ b1 \in Seq(C) /\ b2 \in Seq(C) /\ b3 \in Seq(C) /\ b4 \in Seq(C) /\ b5 \in Seq(C)
      /\ b6 \in Seq(C) /\ b7 \in Seq(C)
  BY <1>5, <1>6, <1>7
<1>9. ASSUME NEW s \in PipelineSources PROVE Ends(b7, s)
  <2>1. \A q \in PipelineSources \ {s} : Silent(A(q), s) /\ Silent(R(q), s)
    BY <1>2
  <2>2. IF run[s] = "skipped" THEN Ends(A(s), s) /\ Silent(R(s), s) ELSE Ends(R(s), s)
    BY <1>2 DEF Ends
  <2>3. CASE s = "nmap"
    <3>1. Ends(b1, s) /\ Ends(b2, s) /\ Ends(b3, s) /\ Ends(b4, s) /\ Ends(b5, s) /\ Ends(b6, s)
      BY <1>3, <1>5, <1>6, <1>7, <1>8, <2>1, <2>2, <2>3
    <3> QED BY <1>3, <1>5, <1>6, <1>7, <1>8, <2>1, <2>3, <3>1
  <2>4. CASE s = H
    <3>1. run[s] = "skipped" => Ends(b2, s) /\ Ends(b3, s) /\ Ends(b4, s)
      BY <1>3, <1>5, <1>6, <1>7, <1>8, <2>1, <2>2, <2>4
    <3>2. Ends(b5, s) /\ Ends(b6, s)
      BY <1>3, <1>5, <1>6, <1>7, <1>8, <2>1, <2>2, <2>4, <3>1
    <3> QED BY <1>3, <1>5, <1>6, <1>7, <1>8, <2>1, <2>4, <3>2
  <2>5. CASE s = T
    <3>1. run[s] = "skipped" => Ends(b3, s) /\ Ends(b4, s) /\ Ends(b5, s)
      BY <1>3, <1>5, <1>6, <1>7, <1>8, <2>1, <2>2, <2>5
    <3>2. Ends(b6, s)
      BY <1>3, <1>5, <1>6, <1>7, <1>8, <2>1, <2>2, <2>5, <3>1
    <3> QED BY <1>3, <1>5, <1>6, <1>7, <1>8, <2>1, <2>5, <3>2
  <2>6. CASE s = F
    <3>1. run[s] = "skipped" => Ends(b4, s) /\ Ends(b5, s) /\ Ends(b6, s)
      BY <1>3, <1>5, <1>6, <1>7, <1>8, <2>1, <2>2, <2>6
    <3> QED BY <1>3, <1>5, <1>6, <1>7, <1>8, <2>1, <2>2, <2>6, <3>1
  <2> QED BY <1>3, <2>3, <2>4, <2>5, <2>6
<1>10. PipelineScript(run).outbox = b7 /\ PipelineScript(run).next = "none"
       /\ PipelineScript(run).ok = TRUE
  BY <1>4 DEF Script
<1> QED BY <1>8, <1>9, <1>10 DEF C, Ends

\* The two scripts that report a failure on behalf of others leave no source out.
LEMMA FailureEnds ==
  LET resolution == NothingResolved
      nmap == AfterFailedContainer
  IN  /\ resolution.outbox \in Seq(Own("target_resolution"))
      /\ resolution.next = "none" /\ resolution.ok = TRUE
      /\ Settles(resolution.outbox, "target_resolution", {"failed"})
      /\ \A s \in PipelineSources \union {"cve"} : Settles(resolution.outbox, s, {"skipped"})
      /\ nmap.outbox \in Seq(Own("nmap")) /\ nmap.next = "none" /\ nmap.ok = TRUE
      /\ \A p \in PipelineSources : Settles(nmap.outbox, p, {"failed"})
      /\ Settles(nmap.outbox, "cve", {"skipped"})
<1>1. ASSUME NEW status \in {"failed", "skipped"}, NEW strict \in BOOLEAN,
             NEW order, NEW n \in Nat, DOMAIN order = 1..n
      PROVE  LET box == [i \in DOMAIN order |->
                           [source |-> order[i], status |-> status, strict |-> strict]]
             IN /\ \A S : (\A i \in 1..n : order[i] \in S) => box \in Seq(CallsOf(S, {status}))
                /\ \A i \in 1..n : (\A j \in 1..n : order[j] = order[i] => j = i) =>
                     Settles(box, order[i], {status})
                /\ \A s : (\A i \in 1..n : order[i] # s) => Silent(box, s)
  BY <1>1 DEF Settles, Silent, CallsOf
<1>2. /\ \A i \in DOMAIN SkippedByResolution, j \in DOMAIN SkippedByResolution :
           SkippedByResolution[i] = SkippedByResolution[j] => i = j
      /\ DOMAIN SkippedByResolution = 1..5
      /\ \A s \in PipelineSources \union {"cve"} : \E i \in 1..5 : SkippedByResolution[i] = s
      /\ \A i \in 1..5 : SkippedByResolution[i] \in PipelineSources \union {"cve"}
  BY DEF SkippedByResolution, PipelineSources
<1>3. /\ \A i \in DOMAIN PipelineOrder, j \in DOMAIN PipelineOrder :
           PipelineOrder[i] = PipelineOrder[j] => i = j
      /\ DOMAIN PipelineOrder = 1..4
      /\ \A s \in PipelineSources : \E i \in 1..4 : PipelineOrder[i] = s
      /\ \A i \in 1..4 : PipelineOrder[i] \in PipelineSources
  BY DEF PipelineOrder, PipelineSources
<1> DEFINE box1 == [i \in DOMAIN SkippedByResolution |-> Call(SkippedByResolution[i], "skipped")]
           box2 == [i \in DOMAIN PipelineOrder |-> Call(PipelineOrder[i], "failed")]
           begin == ResolutionStart \o <<Call("target_resolution", "failed")>>
           end == <<Call("cve", "skipped")>>
<1>4. /\ box1 \in Seq(CallsOf(PipelineSources \union {"cve"}, {"skipped"}))
      /\ \A s \in PipelineSources \union {"cve"} : Settles(box1, s, {"skipped"})
      /\ Silent(box1, "target_resolution")
  <2>1. /\ \A S : (\A i \in 1..5 : SkippedByResolution[i] \in S) =>
             box1 \in Seq(CallsOf(S, {"skipped"}))
        /\ \A i \in 1..5 : (\A j \in 1..5 : SkippedByResolution[j] = SkippedByResolution[i] => j = i)
             => Settles(box1, SkippedByResolution[i], {"skipped"})
        /\ \A s : (\A i \in 1..5 : SkippedByResolution[i] # s) => Silent(box1, s)
    <3>1. DOMAIN SkippedByResolution = 1..5
      BY <1>2
    <3> QED BY <1>1, <3>1 DEF Call
  <2> HIDE DEF box1
  <2>2. "target_resolution" \notin PipelineSources \union {"cve"}
    BY DEF PipelineSources
  <2> QED BY <1>2, <2>1, <2>2
<1>5. /\ box2 \in Seq(CallsOf(PipelineSources, {"failed"}))
      /\ \A s \in PipelineSources : Settles(box2, s, {"failed"})
      /\ Silent(box2, "cve")
  <2>1. /\ \A S : (\A i \in 1..4 : PipelineOrder[i] \in S) =>
             box2 \in Seq(CallsOf(S, {"failed"}))
        /\ \A i \in 1..4 : (\A j \in 1..4 : PipelineOrder[j] = PipelineOrder[i] => j = i)
             => Settles(box2, PipelineOrder[i], {"failed"})
        /\ \A s : (\A i \in 1..4 : PipelineOrder[i] # s) => Silent(box2, s)
    BY <1>1, <1>3 DEF Call
  <2> HIDE DEF box2
  <2>2. "cve" \notin PipelineSources
    BY DEF PipelineSources
  <2> QED BY <1>3, <2>1, <2>2
<1>6. /\ begin \in Seq(Own("target_resolution"))
      /\ Settles(begin, "target_resolution", {"failed"})
      /\ \A s \in PipelineSources \union {"cve"} : Silent(begin, s)
  <2>1. begin = <<Hint("target_resolution", "running"), Call("target_resolution", "failed")>>
    BY Pair DEF ResolutionStart
  <2>2. /\ Hint("target_resolution", "running") \in Own("target_resolution")
        /\ Call("target_resolution", "failed") \in Own("target_resolution")
    BY Kinds DEF Hint, Call, CallsOf, Outcome
  <2>3. begin \in Seq(Own("target_resolution"))
    <3> HIDE DEF begin
    <3> QED BY <2>1, <2>2
  <2>4. "target_resolution" \notin PipelineSources \union {"cve"}
    BY DEF PipelineSources
  <2> HIDE DEF begin
  <2> QED BY <2>1, <2>3, <2>4 DEF Settles, Silent, Hint, Call
<1>7. /\ end \in Seq(Own("nmap"))
      /\ Settles(end, "cve", {"skipped"})
      /\ \A s \in PipelineSources : Silent(end, s)
  <2>1. Call("cve", "skipped") \in Own("nmap")
    BY Kinds DEF Call, CallsOf
  <2>2. "cve" \notin PipelineSources
    BY DEF PipelineSources
  <2> QED BY <2>1, <2>2 DEF Settles, Silent, Call
<1> HIDE DEF box1, box2, begin, end
<1>8. box1 \in Seq(Own("target_resolution")) /\ box2 \in Seq(Own("nmap"))
  <2>1. /\ CallsOf(PipelineSources \union {"cve"}, {"skipped"}) \subseteq Own("target_resolution")
        /\ CallsOf(PipelineSources, {"failed"}) \subseteq Own("nmap")
    BY Kinds
  <2> QED BY <1>4, <1>5, <2>1, SeqMonotonic
<1>9. /\ begin \o box1 \in Seq(Own("target_resolution"))
      /\ Settles(begin \o box1, "target_resolution", {"failed"})
      /\ \A s \in PipelineSources \union {"cve"} : Settles(begin \o box1, s, {"skipped"})
  BY <1>4, <1>6, <1>8, Concat, Zenon
<1>10. /\ box2 \o end \in Seq(Own("nmap"))
       /\ \A p \in PipelineSources : Settles(box2 \o end, p, {"failed"})
       /\ Settles(box2 \o end, "cve", {"skipped"})
  BY <1>5, <1>7, <1>8, Concat, Zenon
<1>11. NothingResolved = Script(begin \o box1, "none")
       /\ AfterFailedContainer = Script(box2 \o end, "none")
  BY DEF NothingResolved, AfterFailedContainer, box1, box2, begin, end
<1> QED BY <1>9, <1>10, <1>11 DEF Script

-----------------------------------------------------------------------------
(* One task takes a step.                                                   *)

\* The next callback of n arrives, or none does.
Writes(n) ==
  \/ UNCHANGED <<scan, rows>>
  \/ Pc(n) = "active" /\ Box(n) # <<>> /\ Record(Head(Box(n)))

\* A step in which n alone moves, to j.
Step(n, j) ==
  /\ Pc(n) \in {"queued", "active", "waiting"}
  /\ j \in Jobs /\ j.pc # "absent"
  /\ j.pc = "active" => j.script.outbox \in Seq(Own(n)) /\ j.script.next \in Follows(n)
  /\ job' = [job EXCEPT ![n] = j]
  /\ Writes(n)
  /\ attempt' \in Attempts /\ (n # "nmap" => attempt' = attempt)
  /\ faults' \in 0..MaxFaults
  /\ UNCHANGED <<boot, authorised, abandoned>>

\* The rows n writes.
Written(n) ==
  CASE n \in Leaves \union {"crt.sh", "cve"} -> {n}
    [] n = "target_resolution" -> {n, "cve"} \union PipelineSources
    [] n = "nmap" -> {"cve"} \union PipelineSources
    [] n = "cpe_resolver" -> {n, "cve"}
    [] OTHER -> PipelineSources

\* Who writes what, and that nobody writes for a stage that is not there.
LEMMA WrittenBy ==
  /\ \A n \in Leaves \union {"crt.sh", "cve"} : Written(n) = {n}
  /\ Written("target_resolution") = {"target_resolution", "cve"} \union PipelineSources
  /\ Written("nmap") = {"cve"} \union PipelineSources
  /\ Written("cpe_resolver") = {"cpe_resolver", "cve"}
  /\ \A n \in Containers : Written(n) = PipelineSources
  /\ \A n \in Tasks : \A c \in Own(n) : c.source \in Written(n)
<1>1. /\ \A n \in Leaves \union {"crt.sh", "cve"} : Written(n) = {n}
      /\ Written("target_resolution") = {"target_resolution", "cve"} \union PipelineSources
      /\ Written("nmap") = {"cve"} \union PipelineSources
      /\ Written("cpe_resolver") = {"cpe_resolver", "cve"}
      /\ \A n \in Containers : Written(n) = PipelineSources
  BY Names DEF Written, ChainSources, PipelineSources
<1>2. ASSUME NEW n \in Tasks, NEW c \in Own(n) PROVE c.source \in Written(n)
  <2>1. CASE n \in Leaves \union {"crt.sh", "cve"}
    <3>1. Own(n) = CallsOf({n}, {"running"} \union Outcome) /\ Written(n) = {n}
      BY <1>1, <2>1, Kinds
    <3> QED BY <3>1 DEF CallsOf
  <2>2. CASE n = "target_resolution"
    BY <1>1, <1>2, <2>2, Kinds DEF CallsOf
  <2>3. CASE n = "nmap"
    BY <1>1, <1>2, <2>3, Kinds DEF CallsOf
  <2>4. CASE n = "cpe_resolver"
    BY <1>1, <1>2, <2>4, Kinds DEF CallsOf
  <2>5. CASE n \in Containers
    <3>1. Own(n) = CallsOf(PipelineSources, SourceStatus \ {"none"})
          /\ Written(n) = PipelineSources
      BY <1>1, <2>5, Kinds
    <3> QED BY <3>1 DEF CallsOf
  <2> QED BY <2>1, <2>2, <2>3, <2>4, <2>5, Names DEF ChainSources
<1> QED BY <1>1, <1>2

\* What stays as it was.
LEMMA Frame ==
  ASSUME Typed, NEW n \in Tasks, NEW j, Step(n, j)
  PROVE  /\ rows \in Rows /\ rows' \in Rows /\ scan' \in ScanStatus
         /\ job' \in [Tasks -> Jobs] /\ job'[n] = j
         /\ \A m \in Tasks : m # n => job'[m] = job[m]
         /\ \A s \in Sources \ Written(n) : rows'[s] = rows[s]
         /\ \/ rows' = rows /\ scan' = scan
            \/ /\ Pc(n) = "active" /\ Box(n) # <<>> /\ Head(Box(n)) \in Own(n)
               /\ rows' = [rows EXCEPT ![Head(Box(n)).source] = Head(Box(n)).status]
               /\ scan' = AggregateStatus(rows')
<1>1. rows \in Rows /\ scan \in ScanStatus /\ job \in [Tasks -> Jobs]
  BY DEF Typed, TypeOK
<1>2. /\ job' \in [Tasks -> Jobs] /\ job'[n] = j
      /\ \A m \in Tasks : m # n => job'[m] = job[m]
  BY <1>1 DEF Step
<1>3. CASE UNCHANGED <<scan, rows>>
  BY <1>1, <1>2, <1>3
<1>4. CASE Pc(n) = "active" /\ Box(n) # <<>> /\ Record(Head(Box(n)))
  <2>1. Head(Box(n)) \in Own(n)
    BY <1>4, HeadTail DEF Typed
  <2>2. Head(Box(n)).source \in Written(n) /\ Head(Box(n)) \in Calls
    BY <2>1, WrittenBy, Kinds
  <2>3. rows' = [rows EXCEPT ![Head(Box(n)).source] = Head(Box(n)).status]
        /\ scan' = AggregateStatus(rows')
    BY <1>4 DEF Record
  <2>4. rows' \in Rows
    BY <1>1, <2>2, <2>3 DEF Rows, Calls
  <2>5. scan' \in ScanStatus
    BY <2>3 DEF AggregateStatus, ScanStatus
  <2>6. \A s \in Sources \ Written(n) : rows'[s] = rows[s]
    BY <1>1, <2>2, <2>3 DEF Rows
  <2> QED BY <1>1, <1>2, <1>4, <2>1, <2>3, <2>4, <2>5, <2>6
<1> QED BY <1>3, <1>4 DEF Step, Writes

\* The types hold after the step.
LEMMA StepTypes ==
  ASSUME IInv, NEW n \in Tasks, NEW j, Step(n, j)
  PROVE  Typed'
<1>1. Typed
  BY DEF IInv
<1>2. /\ rows' \in Rows /\ scan' \in ScanStatus
      /\ job' \in [Tasks -> Jobs] /\ job'[n] = j
      /\ \A m \in Tasks : m # n => job'[m] = job[m]
  BY <1>1, Frame
<1>3. TypeOK'
  BY <1>1, <1>2 DEF Typed, TypeOK, Step, Jobs
<1>4. ASSUME NEW m \in Tasks, Pc(m)' = "active"
      PROVE  Box(m)' \in Seq(Own(m)) /\ NextOf(m)' \in Follows(m)
  BY <1>1, <1>2, <1>4 DEF Step, Typed, Pc, Box, NextOf
<1> QED BY <1>2, <1>3, <1>4 DEF Typed

\* A stage that has begun stays begun, and the stages before it write no more.
LEMMA StepFollows ==
  ASSUME IInv, NEW n \in Tasks, NEW j, Step(n, j)
  PROVE  StagesFollow'
<1>1. Typed /\ StagesFollow
  BY DEF IInv
<1>2. /\ job'[n] = j /\ \A m \in Tasks : m # n => job'[m] = job[m]
      /\ \A s \in Sources \ Written(n) : rows'[s] = rows[s]
  BY <1>1, Frame
<1>3. /\ job[n].pc \in {"queued", "active", "waiting"} /\ job'[n].pc # "absent" /\ boot' = boot
  BY <1>2 DEF Step, Pc
<1>4. "target_resolution" \in Written(n) => n = "target_resolution"
  BY WrittenBy, Names DEF ChainSources, PipelineSources
<1>5. "cpe_resolver" \in Written(n) => n = "cpe_resolver"
  BY WrittenBy, Names DEF ChainSources, PipelineSources
<1>6. (boot = "queued" => \A m \in Tasks : Pc(m) = "absent")'
  BY <1>1, <1>3 DEF StagesFollow, Pc
<1>7. (Pc("target_resolution") # "absent" => Pc("crt.sh") = "ended")'
  BY <1>1, <1>2, <1>3, Names DEF StagesFollow, Pc
<1>8. (Pc("nmap") # "absent" => /\ Pc("target_resolution") = "ended"
                                /\ rows["target_resolution"] = "completed")'
  BY <1>1, <1>2, <1>3, <1>4, Names DEF StagesFollow, Pc, ChainSources
<1>9. (Pc("nmap") = "absent" => \A c \in Containers : Pc(c) = "absent")'
  BY <1>1, <1>2, <1>3, Names DEF StagesFollow, Pc
<1>10. (Pc("cpe_resolver") # "absent" => Pc("nmap") = "ended")'
  BY <1>1, <1>2, <1>3, Names DEF StagesFollow, Pc
<1>11. (Pc("cve") # "absent" =>
          Pc("cpe_resolver") = "ended" /\ rows["cpe_resolver"] = "completed")'
  BY <1>1, <1>2, <1>3, <1>5, Names DEF StagesFollow, Pc, ChainSources
<1> QED BY <1>6, <1>7, <1>8, <1>9, <1>10, <1>11 DEF StagesFollow

\* A single task reports for itself alone.
LEMMA StepSingles ==
  ASSUME IInv, NEW n \in Tasks, NEW j, Step(n, j), n \notin Leaves \union {"crt.sh"}
  PROVE  SinglesReport'
<1>1. Typed /\ SinglesReport
  BY DEF IInv
<1>2. /\ job'[n] = j /\ \A m \in Tasks : m # n => job'[m] = job[m]
      /\ \A s \in Sources \ Written(n) : rows'[s] = rows[s]
  BY <1>1, Frame
<1>3. ASSUME NEW m \in Leaves \union {"crt.sh"} PROVE m \in Tasks /\ m \in Sources \ Written(n)
  BY WrittenBy, Names DEF ChainSources, PipelineSources
<1> QED BY <1>1, <1>2, <1>3 DEF SinglesReport, NotBegun, Pc, Box

\* The resolution's callbacks are its own; once nmap is there it has ended.
LEMMA StepResolution ==
  ASSUME IInv, NEW n \in Tasks, NEW j, Step(n, j), n # "target_resolution"
  PROVE  ResolutionReports'
<1>1. Typed /\ ResolutionReports /\ StagesFollow
  BY DEF IInv
<1>2. /\ job'[n] = j /\ \A m \in Tasks : m # n => job'[m] = job[m]
      /\ \A s \in Sources \ Written(n) : rows'[s] = rows[s]
  BY <1>1, Frame
<1>3. /\ job[n].pc \in {"queued", "active", "waiting"} /\ job'[n].pc # "absent"
  BY <1>2 DEF Step, Pc
<1>4. "target_resolution" \notin Written(n) /\ "target_resolution" \in Sources
  BY WrittenBy, Names DEF ChainSources, PipelineSources
<1>5. ASSUME Pc("nmap")' = "absent", NEW p \in PipelineSources
      PROVE  rows'[p] \in {"none", "skipped"}
  <2>1. Pc("nmap") = "absent" /\ n # "nmap"
    BY <1>2, <1>3, <1>5, Names DEF Pc
  <2>2. n \notin Containers
    BY <1>1, <1>3, <2>1 DEF StagesFollow, Pc
  <2>3. p \notin Written(n) /\ p \in Sources
    BY <2>1, <2>2, WrittenBy, Names DEF ChainSources, PipelineSources
  <2> QED BY <1>1, <1>2, <2>1, <2>3 DEF ResolutionReports
<1>6. (Pc("target_resolution") = "active" /\ NextOf("target_resolution") = "nmap" =>
       \/ Box("target_resolution") \in
            {<<Hint("target_resolution", "running"), Call("target_resolution", "completed")>>,
             <<Call("target_resolution", "completed")>>}
       \/ Box("target_resolution") = <<>> /\ rows["target_resolution"] = "completed")'
  BY <1>1, <1>2, <1>4, Names DEF ResolutionReports, Pc, Box, NextOf
<1> QED BY <1>5, <1>6 DEF ResolutionReports

\* Only nmap and its container concern the container's sources once nmap is there.
LEMMA StepContainer ==
  ASSUME IInv, NEW n \in Tasks, NEW j, Step(n, j), n # "nmap", n \notin Containers
  PROVE  (~abandoned => ContainerReports)'
<1>1. Typed /\ StagesFollow /\ (~abandoned => ContainerReports)
  BY DEF IInv
<1>2. /\ job'[n] = j /\ \A m \in Tasks : m # n => job'[m] = job[m]
      /\ \A s \in Sources \ Written(n) : rows'[s] = rows[s]
  BY <1>1, Frame
<1>3. /\ job[n].pc \in {"queued", "active", "waiting"} /\ job'[n].pc # "absent"
      /\ attempt' = attempt /\ abandoned' = abandoned /\ attempt \in Attempts
  BY <1>1, <1>2 DEF Step, Pc, Typed, TypeOK
<1>4. /\ job'["nmap"] = job["nmap"] /\ \A a \in Attempts : job'[Container[a]] = job[Container[a]]
      /\ Pc("cpe_resolver")' # "absent" => Pc("cpe_resolver") # "absent"
  BY <1>2, <1>3, Names DEF Pc
<1>5. CASE n = "target_resolution"
  <2>1. Pc("nmap") = "absent" /\ Pc("cpe_resolver") = "absent"
        /\ \A a \in Attempts : Pc(Container[a]) = "absent"
    BY <1>1, <1>3, <1>5, Names DEF StagesFollow, Pc
  <2> QED BY <1>3, <1>4, <2>1 DEF ContainerReports, Pc
<1>6. CASE n # "target_resolution"
  <2>1. \A p \in PipelineSources : rows'[p] = rows[p]
    BY <1>2, <1>6, WrittenBy, Names DEF ChainSources, PipelineSources
  <2>2. AllReported' <=> AllReported
    BY <2>1 DEF AllReported
  <2>3. \A box, p \in PipelineSources :
          EndsIn(box, p, FinishedStatus) => EndsIn(box, p, FinishedStatus)'
    BY <2>1, Undisturbed
  <2> SUFFICES ASSUME ~abandoned PROVE ContainerReports'
    BY <1>3
  <2>4. ContainerReports
    BY <1>1
  <2>5. job'[Container[attempt]] = job[Container[attempt]]
    BY <1>3, <1>4
  <2>6. (Pc(Container[attempt]) = "active" /\ job[Container[attempt]].script.ok =>
           /\ \A k \in DOMAIN Box(Container[attempt]) : Box(Container[attempt])[k].strict
           /\ \A p \in PipelineSources : EndsIn(Box(Container[attempt]), p, FinishedStatus))'
    <3>1. ASSUME Pc(Container[attempt]) = "active" /\ job[Container[attempt]].script.ok,
                 NEW p \in PipelineSources
          PROVE  EndsIn(Box(Container[attempt]), p, FinishedStatus)'
      <4>1. EndsIn(job[Container[attempt]].script.outbox, p, FinishedStatus)
        BY <2>4, <3>1 DEF ContainerReports, Box
      <4>2. EndsIn(job'[Container[attempt]].script.outbox, p, FinishedStatus)
        BY <2>5, <4>1
      <4> QED BY <1>3, <2>1, <2>5, <4>2 DEF EndsIn, Box
    <3> QED BY <1>3, <2>4, <2>5, <3>1 DEF ContainerReports, Pc, Box
  <2> QED BY <1>3, <1>4, <2>2, <2>4, <2>6 DEF ContainerReports, Pc, Box, NextOf
<1> QED BY <1>5, <1>6

\* cpe_resolver's row is its own.
LEMMA StepCpe ==
  ASSUME IInv, NEW n \in Tasks, NEW j, Step(n, j), n # "cpe_resolver"
  PROVE  CpeReports'
<1>1. Typed /\ CpeReports
  BY DEF IInv
<1>2. /\ job'[n] = j /\ \A m \in Tasks : m # n => job'[m] = job[m]
      /\ \A s \in Sources \ Written(n) : rows'[s] = rows[s]
  BY <1>1, Frame
<1>3. "cpe_resolver" \notin Written(n) /\ "cpe_resolver" \in Sources
  BY WrittenBy, Names DEF ChainSources, PipelineSources
<1>4. job'["cpe_resolver"] = job["cpe_resolver"] /\ rows'["cpe_resolver"] = rows["cpe_resolver"]
  BY <1>2, <1>3, Names
<1> QED BY <1>1, <1>4 DEF CpeReports, NotBegun, Pc, Box, NextOf

\* The tasks that have nothing to do with cve.
LEMMA StepCve ==
  ASSUME IInv, NEW n \in Tasks, NEW j, Step(n, j), n \in Leaves \union {"crt.sh"} \union Containers
  PROVE  CveReports'
<1>1. Typed /\ CveReports
  BY DEF IInv
<1>2. /\ job'[n] = j /\ \A m \in Tasks : m # n => job'[m] = job[m]
      /\ \A s \in Sources \ Written(n) : rows'[s] = rows[s]
  BY <1>1, Frame
<1>3. "cve" \notin Written(n) /\ "cve" \in Sources
      /\ n \notin {"target_resolution", "nmap", "cpe_resolver", "cve"}
  BY WrittenBy, Names DEF ChainSources, PipelineSources
<1>4. /\ job'["cve"] = job["cve"] /\ rows'["cve"] = rows["cve"]
      /\ job'["target_resolution"] = job["target_resolution"] /\ job'["nmap"] = job["nmap"]
      /\ job'["cpe_resolver"] = job["cpe_resolver"] /\ attempt' = attempt
  BY <1>2, <1>3, Names DEF Step
<1> QED BY <1>1, <1>4 DEF CveReports, CveToCome, NotBegun, Pc, Box, NextOf

\* The status follows the rows.
LEMMA StepStatus ==
  ASSUME IInv, NEW n \in Tasks, NEW j, Step(n, j)
  PROVE  StatusIsTheRows'
<1>1. Typed /\ StatusIsTheRows
  BY DEF IInv
<1>2. scan \in TerminalStatus => AllFinished(rows)
  BY <1>1 DEF StatusIsTheRows, Step
<1>3. \/ rows' = rows /\ scan' = scan
      \/ scan' = AggregateStatus(rows')
  BY <1>1, Frame
<1>4. AggregateStatus(rows') \in TerminalStatus => AllFinished(rows')
  BY DEF AggregateStatus, TerminalStatus
<1> QED BY <1>2, <1>3, <1>4 DEF StatusIsTheRows

-----------------------------------------------------------------------------
(* The scripts a task can begin with.                                       *)

ScriptOf(n) == [outbox : Seq(Own(n)), next : Follows(n), ok : BOOLEAN]

\* A script of its own makes a job.
LEMMA ScriptIsJob ==
  ASSUME NEW n \in Tasks, NEW script \in ScriptOf(n)
  PROVE  [pc |-> "active", script |-> script] \in Jobs
<1>1. script.outbox \in Seq(Calls)
  BY Kinds, SeqMonotonic DEF ScriptOf
<1>2. script.next \in Tasks \union {"none"}
  BY Publishes DEF ScriptOf
<1>3. script = [outbox |-> script.outbox, next |-> script.next, ok |-> script.ok]
      /\ script.ok \in BOOLEAN
  BY DEF ScriptOf
<1> QED BY <1>1, <1>2, <1>3 DEF Jobs, JobPc

\* Which scripts there are, kind by kind.
LEMMA ScriptsByKind ==
  /\ \A n \in Leaves \union {"cve"} : Scripts(n) = LeafScripts(n)
  /\ Scripts("crt.sh") = CrtShScripts
  /\ Scripts("target_resolution") = ResolutionScripts
  /\ \A n \in Containers : Scripts(n) = ContainerScripts
  /\ Scripts("cpe_resolver") = CpeScripts
<1>1. /\ \A n \in Leaves : Scripts(n) = LeafScripts(n)
      /\ Scripts("crt.sh") = CrtShScripts
      /\ Scripts("target_resolution") = ResolutionScripts
  BY Names DEF Scripts, ChainSources
<1>2. ASSUME NEW n \in Containers PROVE Scripts(n) = ContainerScripts
  BY Names DEF Scripts, ChainSources
<1>3. /\ "cpe_resolver" \notin Leaves \union Containers /\ "cve" \notin Leaves \union Containers
  BY Names DEF ChainSources
<1>4. Scripts("cpe_resolver") = CpeScripts /\ Scripts("cve") = LeafScripts("cve")
  BY <1>3 DEF Scripts
<1> QED BY <1>1, <1>2, <1>4

\* The last resort of a container.
LEMMA FatalErrorIsHints ==
  /\ FatalError.outbox \in Seq(CallsOf(PipelineSources, SourceStatus \ {"none"}))
  /\ FatalError.next = "none" /\ FatalError.ok = FALSE
  /\ FatalError = [outbox |-> FatalError.outbox, next |-> "none", ok |-> FALSE]
<1>1. DOMAIN PipelineOrder = 1..4 /\ \A i \in 1..4 : PipelineOrder[i] \in PipelineSources
  BY DEF PipelineOrder, PipelineSources
<1>2. [i \in DOMAIN PipelineOrder |-> Hint(PipelineOrder[i], "failed")]
        \in Seq(CallsOf(PipelineSources, SourceStatus \ {"none"}))
  BY <1>1 DEF Hint, CallsOf, SourceStatus
<1> QED BY <1>2 DEF FatalError, FailedScript

\* A script holds callbacks of its task and publishes what may follow it.
LEMMA ScriptsAreOwn ==
  ASSUME NEW n \in Tasks, n # "nmap", NEW script \in Scripts(n)
  PROVE  script \in ScriptOf(n)
<1>1. CASE n \in Leaves \union {"cve"}
  <2>1. PICK o \in Outcome : script = Script(<<Hint(n, "running"), Call(n, o)>>, "none")
    BY <1>1, ScriptsByKind DEF LeafScripts
  <2>2. Hint(n, "running") \in Own(n) /\ Call(n, o) \in Own(n)
    BY <1>1, Kinds DEF Hint, Call, CallsOf
  <2> QED BY <1>1, <2>1, <2>2, Publishes DEF ScriptOf, Script
<1>2. CASE n = "crt.sh"
  <2>1. PICK o \in Outcome :
          script = Script(<<Hint("crt.sh", "running"), Call("crt.sh", o)>>, "target_resolution")
    BY <1>2, ScriptsByKind DEF CrtShScripts
  <2>2. Hint("crt.sh", "running") \in Own(n) /\ Call("crt.sh", o) \in Own(n)
    BY <1>2, Kinds DEF Hint, Call, CallsOf
  <2> QED BY <1>2, <2>1, <2>2, Publishes DEF ScriptOf, Script
<1>3. CASE n = "target_resolution"
  <2>1. script = NothingResolved \/ script = Resolved
    BY <1>3, ScriptsByKind DEF ResolutionScripts
  <2>2. Resolved = Script(<<Hint(n, "running"), Call(n, "completed")>>, "nmap")
    BY <1>3, Pair DEF Resolved, ResolutionStart
  <2>3. Hint(n, "running") \in Own(n) /\ Call(n, "completed") \in Own(n)
    BY <1>3, Kinds DEF Hint, Call, CallsOf, Outcome
  <2>4. Resolved \in ScriptOf(n)
    BY <1>3, <2>2, <2>3, Publishes DEF ScriptOf, Script
  <2>5. NothingResolved.outbox \in Seq(Own(n)) /\ NothingResolved.next = "none"
        /\ NothingResolved.ok = TRUE
    BY <1>3, FailureEnds
  <2>6. NothingResolved = [outbox |-> NothingResolved.outbox, next |-> NothingResolved.next,
                           ok |-> NothingResolved.ok]
    BY DEF NothingResolved, Script
  <2> HIDE DEF NothingResolved
  <2>7. NothingResolved \in ScriptOf(n)
    BY <1>3, <2>5, <2>6, Publishes DEF ScriptOf
  <2> QED BY <2>1, <2>4, <2>7
<1>4. CASE n \in Containers
  <2>1. script = FatalError \/ \E run \in PipelineRuns : script = PipelineScript(run)
    BY <1>4, ScriptsByKind DEF ContainerScripts
  <2>2. Own(n) = CallsOf(PipelineSources, SourceStatus \ {"none"}) /\ Follows(n) = {"none"}
    BY <1>4, Kinds, Publishes
  <2>3. FatalError \in ScriptOf(n)
    BY <2>2, FatalErrorIsHints DEF ScriptOf
  <2>4. ASSUME NEW run \in PipelineRuns PROVE PipelineScript(run) \in ScriptOf(n)
    <3>1. /\ PipelineScript(run).outbox \in
               Seq([source : PipelineSources, status : SourceStatus \ {"none"}, strict : {TRUE}])
          /\ PipelineScript(run).next = "none" /\ PipelineScript(run).ok = TRUE
      BY ActiveAssumption, PipelineEnds
    <3>2. PipelineScript(run).outbox \in Seq(Own(n))
      <4>1. [source : PipelineSources, status : SourceStatus \ {"none"}, strict : {TRUE}]
              \subseteq Own(n)
        BY <2>2 DEF CallsOf
      <4> QED BY <3>1, <4>1, SeqMonotonic
    <3>3. PipelineScript(run) = [outbox |-> PipelineScript(run).outbox, next |-> "none", ok |-> TRUE]
      BY DEF PipelineScript, Script
    <3> DEFINE box == PipelineScript(run).outbox
    <3>4. box \in Seq(Own(n)) /\ PipelineScript(run) = [outbox |-> box, next |-> "none", ok |-> TRUE]
      BY <3>2, <3>3
    <3> HIDE DEF box
    <3>5. "none" \in Follows(n)
      BY <2>2
    <3> QED BY <3>4, <3>5 DEF ScriptOf
  <2> QED BY <2>1, <2>3, <2>4
<1>5. CASE n = "cpe_resolver"
  <2>1. \/ script = Script(<<Hint("cve", "running"), Call("cpe_resolver", "completed")>>, "cve")
        \/ script = Script(<<Hint("cve", "running"), Call("cpe_resolver", "failed"),
                             Hint("cve", "failed")>>, "none")
    BY <1>5, ScriptsByKind DEF CpeScripts
  <2>2. /\ Hint("cve", "running") \in Own(n) /\ Hint("cve", "failed") \in Own(n)
        /\ \A o \in Outcome : Call("cpe_resolver", o) \in Own(n)
    BY <1>5, Kinds DEF Hint, Call, CallsOf
  <2>3. /\ <<Hint("cve", "running"), Call("cpe_resolver", "completed")>> \in Seq(Own(n))
        /\ <<Hint("cve", "running"), Call("cpe_resolver", "failed"), Hint("cve", "failed")>>
             \in Seq(Own(n))
    BY <2>2 DEF Outcome
  <2>4. "cve" \in Follows(n) /\ "none" \in Follows(n)
    BY <1>5, Publishes
  <2>5. \A box \in Seq(Own(n)) : Script(box, "cve") \in ScriptOf(n) /\ Script(box, "none") \in ScriptOf(n)
    BY <2>4 DEF ScriptOf, Script
  <2> QED BY <2>1, <2>3, <2>5
<1> QED BY <1>1, <1>2, <1>3, <1>4, <1>5, Names DEF ChainSources

-----------------------------------------------------------------------------
(* The ways in which a task other than the waiting nmap moves.              *)

Starts(n, j) ==
  /\ Pc(n) = "queued" /\ n # "nmap"
  /\ \E script \in Scripts(n) : j = [pc |-> "active", script |-> script]
  /\ UNCHANGED <<scan, rows, attempt>>

Tailed(n) == [pc |-> "active", script |-> [outbox |-> Tail(Box(n)), next |-> NextOf(n),
                                           ok |-> job[n].script.ok]]

Sends(n, j) ==
  /\ Pc(n) = "active" /\ Box(n) # <<>>
  /\ Record(Head(Box(n)))
  /\ j = Tailed(n)
  /\ attempt' = attempt

Loses(n, j) ==
  /\ Pc(n) = "active" /\ Box(n) # <<>> /\ ~Head(Box(n)).strict
  /\ j = Tailed(n)
  /\ faults' # 0
  /\ UNCHANGED <<scan, rows, attempt>>

Raises(n, j) ==
  /\ Pc(n) = "active"
  /\ j = Raised(n)
  /\ faults' # 0
  /\ attempt' = IF n = "nmap" /\ attempt <= MaxRetries THEN attempt + 1 ELSE attempt

Stops(n, j) ==
  /\ j = [job[n] EXCEPT !.pc = "crashed"]
  /\ faults' # 0
  /\ UNCHANGED <<scan, rows, attempt>>

Moves(n, j) ==
  /\ Starts(n, j) \/ Sends(n, j) \/ Loses(n, j) \/ Raises(n, j) \/ Stops(n, j)
  /\ faults' = faults \/ faults' # 0

\* The tail of a script is a script.
LEMMA TailedIsJob ==
  ASSUME Typed, NEW n \in Tasks, Pc(n) = "active", Box(n) # <<>>
  PROVE  /\ Tailed(n) \in Jobs
         /\ Tailed(n).script.outbox \in Seq(Own(n)) /\ Tailed(n).script.next \in Follows(n)
         /\ [job EXCEPT ![n].script.outbox = Tail(@)] = [job EXCEPT ![n] = Tailed(n)]
<1>1. Box(n) \in Seq(Own(n)) /\ NextOf(n) \in Follows(n) /\ job \in [Tasks -> Jobs]
  BY DEF Typed
<1>2. Tail(Box(n)) \in Seq(Own(n))
  BY <1>1, HeadTail
<1>3. [outbox |-> Tail(Box(n)), next |-> NextOf(n), ok |-> job[n].script.ok] \in ScriptOf(n)
  BY <1>1, <1>2 DEF ScriptOf, Jobs
<1>4. Tailed(n) \in Jobs
  BY <1>3, ScriptIsJob DEF Tailed
<1>5. [job EXCEPT ![n].script.outbox = Tail(@)] = [job EXCEPT ![n] = Tailed(n)]
  <2>1. \E a, b, c : job[n] = [pc |-> "active", script |-> [outbox |-> a, next |-> b, ok |-> c]]
    BY <1>1 DEF Jobs, Pc
  <2>2. PICK a, b, c : job[n] = [pc |-> "active", script |-> [outbox |-> a, next |-> b, ok |-> c]]
    BY <2>1
  <2>3. [job[n] EXCEPT !.script = [job[n].script EXCEPT !.outbox = Tail(@)]] = Tailed(n)
    <3>1. Box(n) = a /\ NextOf(n) = b /\ job[n].script.ok = c
          /\ job[n].script = [outbox |-> a, next |-> b, ok |-> c]
      BY <2>2 DEF Box, NextOf
    <3>2. Tailed(n) = [pc |-> "active", script |-> [outbox |-> Tail(a), next |-> b, ok |-> c]]
      BY <3>1 DEF Tailed
    <3>3. [job[n].script EXCEPT !.outbox = Tail(@)] = [outbox |-> Tail(a), next |-> b, ok |-> c]
      BY <3>1
    <3>4. \A x : [job[n] EXCEPT !.script = x] = [pc |-> "active", script |-> x]
      BY <2>2
    <3> QED BY <3>2, <3>3, <3>4, Zenon
  <2>4. [job EXCEPT ![n].script.outbox = Tail(@)] =
          [job EXCEPT ![n] = [job[n] EXCEPT !.script = [job[n].script EXCEPT !.outbox = Tail(@)]]]
    OBVIOUS
  <2> QED BY <2>3, <2>4
<1> QED BY <1>1, <1>2, <1>4, <1>5 DEF Tailed

\* What an exception leaves of a task.
LEMMA RaisedIsJob ==
  ASSUME Typed, NEW n \in Tasks, Pc(n) = "active"
  PROVE  /\ Raised(n) \in Jobs /\ Raised(n).pc # "absent"
         /\ Raised(n).pc = "active" =>
              /\ Raised(n).script.outbox \in Seq(Own(n)) /\ Raised(n).script.next \in Follows(n)
         /\ n \in Containers => Raised(n) = [pc |-> "active", script |-> FatalError]
         /\ n = "nmap" => /\ attempt <= MaxRetries => Raised(n) = [job[n] EXCEPT !.pc = "queued"]
                          /\ ~(attempt <= MaxRetries) => Raised(n) = [job[n] EXCEPT !.pc = "crashed"]
         /\ n \notin Containers \union {"nmap"} => Raised(n) = [job[n] EXCEPT !.pc = "crashed"]
<1>1. job[n] \in Jobs
  BY DEF Typed
<1>2. [job[n] EXCEPT !.pc = "queued"] \in Jobs /\ [job[n] EXCEPT !.pc = "crashed"] \in Jobs
      /\ [job[n] EXCEPT !.pc = "queued"].pc = "queued"
      /\ [job[n] EXCEPT !.pc = "crashed"].pc = "crashed"
  BY <1>1 DEF Jobs, JobPc
<1>3. CASE n \in Containers
  <2>1. Raised(n) = [pc |-> "active", script |-> FatalError] /\ n # "nmap"
    BY <1>3, Names DEF Raised, PipelineSources
  <2>2. FatalError \in ScriptOf(n)
    <3>1. Own(n) = CallsOf(PipelineSources, SourceStatus \ {"none"}) /\ Follows(n) = {"none"}
      BY <1>3, Kinds, Publishes
    <3> QED BY <3>1, FatalErrorIsHints DEF ScriptOf
  <2>3. [pc |-> "active", script |-> FatalError] \in Jobs
    BY <2>2, ScriptIsJob
  <2>4. FatalError.outbox \in Seq(Own(n)) /\ FatalError.next \in Follows(n)
    BY <2>2 DEF ScriptOf
  <2> HIDE DEF FatalError
  <2> QED BY <1>3, <2>1, <2>3, <2>4
<1>4. CASE n = "nmap"
  <2>1. n \notin Containers
    BY <1>4, Names DEF PipelineSources
  <2>2. Raised(n) = IF attempt <= MaxRetries THEN [job[n] EXCEPT !.pc = "queued"]
                                             ELSE [job[n] EXCEPT !.pc = "crashed"]
    BY <1>4, <2>1 DEF Raised
  <2> QED BY <1>2, <1>4, <2>1, <2>2
<1>5. CASE n \notin Containers \union {"nmap"}
  <2>1. Raised(n) = [job[n] EXCEPT !.pc = "crashed"]
    BY <1>5 DEF Raised
  <2> QED BY <1>2, <1>5, <2>1
<1> QED BY <1>3, <1>4, <1>5

\* The steps of a task are moves.
LEMMA TaskMoves ==
  ASSUME IInv, NEW n \in Tasks,
         Begin(n) \/ Deliver(n) \/ CallFails(n) \/ PublishFails(n) \/ Dies(n)
  PROVE  \E j : Step(n, j) /\ Moves(n, j)
<1>1. Typed /\ attempt \in Attempts /\ faults \in 0..MaxFaults /\ MaxFaults \in Nat
  BY ActiveAssumption DEF IInv, Typed, TypeOK
<1>2. Fault => faults' \in 0..MaxFaults /\ faults' # 0
  BY <1>1 DEF Fault
<1>3. CASE Begin(n)
  <2>1. PICK script \in Scripts(n) : job' = [job EXCEPT ![n] = [pc |-> "active", script |-> script]]
    BY <1>3 DEF Begin
  <2>2. script \in ScriptOf(n)
    BY <1>3, ScriptsAreOwn DEF Begin
  <2>3. [pc |-> "active", script |-> script] \in Jobs
    BY <2>2, ScriptIsJob
  <2>4. script.outbox \in Seq(Own(n)) /\ script.next \in Follows(n)
    BY <2>2 DEF ScriptOf
  <2>5. Step(n, [pc |-> "active", script |-> script])
    BY <1>1, <1>3, <2>1, <2>3, <2>4 DEF Begin, Step, Writes, Pc
  <2>6. Moves(n, [pc |-> "active", script |-> script])
    BY <1>3 DEF Begin, Moves, Starts, Pc
  <2> QED BY <2>5, <2>6
<1>4. CASE Deliver(n)
  <2>1. Pc(n) = "active" /\ Box(n) # <<>> /\ Record(Head(Box(n)))
    BY <1>4 DEF Deliver, Pc, Box
  <2>2. job' = [job EXCEPT ![n] = Tailed(n)]
    BY <1>1, <1>4, <2>1, TailedIsJob DEF Deliver
  <2>3. Step(n, Tailed(n))
    <3>1. Tailed(n).pc = "active"
      BY DEF Tailed
    <3> QED BY <1>1, <1>4, <2>1, <2>2, <3>1, TailedIsJob DEF Deliver, Step, Writes
  <2>4. Moves(n, Tailed(n))
    BY <1>4, <2>1 DEF Deliver, Moves, Sends
  <2> QED BY <2>3, <2>4
<1>5. CASE CallFails(n)
  <2>1. Pc(n) = "active" /\ Box(n) # <<>> /\ Fault /\ Writes(n)
        /\ (Record(Head(Box(n))) \/ UNCHANGED <<scan, rows>>)
        /\ UNCHANGED <<boot, authorised, abandoned>>
    BY <1>5 DEF CallFails, Pc, Box, Writes
  <2>2. CASE ~Head(Box(n)).strict
    <3>1. job' = [job EXCEPT ![n] = Tailed(n)] /\ attempt' = attempt
      BY <1>1, <1>5, <2>1, <2>2, TailedIsJob DEF CallFails, Box
    <3>2. Tailed(n).pc = "active"
      BY DEF Tailed
    <3>3. Step(n, Tailed(n))
      BY <1>1, <1>2, <2>1, <3>1, <3>2, TailedIsJob DEF Step
    <3>4. Moves(n, Tailed(n))
      BY <1>2, <2>1, <2>2, <3>1 DEF Moves, Sends, Loses
    <3> QED BY <3>3, <3>4
  <2>3. CASE Head(Box(n)).strict
    <3>1. Raise(n)
      BY <1>5, <2>3 DEF CallFails, Box
    <3>2. Step(n, Raised(n))
      BY <1>1, <1>2, <2>1, <3>1, RaisedIsJob DEF Step, Raise, Attempts, MaxRetries
    <3>3. Moves(n, Raised(n))
      BY <1>2, <2>1, <3>1 DEF Moves, Raises, Raise
    <3> QED BY <3>2, <3>3
  <2> QED BY <2>2, <2>3
<1>6. CASE PublishFails(n)
  <2>1. Pc(n) = "active" /\ Fault /\ Writes(n) /\ Raise(n) /\ UNCHANGED <<boot, authorised, abandoned>>
    BY <1>6 DEF PublishFails, Pc, Writes
  <2>2. Step(n, Raised(n))
    BY <1>1, <1>2, <2>1, RaisedIsJob DEF Step, Raise, Attempts, MaxRetries
  <2>3. Moves(n, Raised(n))
    BY <1>2, <2>1 DEF Moves, Raises, Raise
  <2> QED BY <2>2, <2>3
<1>7. CASE Dies(n)
  <2>1. [job[n] EXCEPT !.pc = "crashed"] \in Jobs /\ [job[n] EXCEPT !.pc = "crashed"].pc = "crashed"
    BY <1>1 DEF Typed, Jobs, JobPc
  <2>2. job' = [job EXCEPT ![n] = [job[n] EXCEPT !.pc = "crashed"]]
    BY <1>1, <1>7 DEF Dies, Typed
  <2>3. Step(n, [job[n] EXCEPT !.pc = "crashed"])
    BY <1>1, <1>2, <1>7, <2>1, <2>2 DEF Dies, Step, Writes, Pc
  <2>4. Moves(n, [job[n] EXCEPT !.pc = "crashed"])
    BY <1>2, <1>7 DEF Dies, Moves, Stops
  <2> QED BY <2>3, <2>4
<1> QED BY <1>3, <1>4, <1>5, <1>6, <1>7

\* A task that starts has its script, and nothing has been sent.
LEMMA Started ==
  ASSUME Typed, NEW n \in Tasks, NEW j, Step(n, j), Starts(n, j)
  PROVE  /\ Pc(n) = "queued" /\ n # "nmap" /\ rows' = rows /\ attempt' = attempt
         /\ \E script \in Scripts(n) :
              /\ Pc(n)' = "active" /\ Box(n)' = script.outbox /\ NextOf(n)' = script.next
              /\ job'[n].script.ok = script.ok
<1>1. job'[n] = j
  BY Frame
<1> QED BY <1>1 DEF Starts, Pc, Box, NextOf

\* A task that sends goes on with the rest of its script; only a hint is lost.
LEMMA Sent ==
  ASSUME Typed, NEW n \in Tasks, NEW j, Step(n, j), Sends(n, j) \/ Loses(n, j)
  PROVE  /\ Pc(n) = "active" /\ Box(n) # <<>> /\ Box(n) \in Seq(Own(n)) /\ attempt' = attempt
         /\ Pc(n)' = "active" /\ Box(n)' = Tail(Box(n)) /\ NextOf(n)' = NextOf(n)
         /\ job'[n].script.ok = job[n].script.ok
         /\ \/ rows' = rows /\ ~Head(Box(n)).strict /\ faults' # 0
            \/ rows' = [rows EXCEPT ![Head(Box(n)).source] = Head(Box(n)).status]
<1>1. job'[n] = Tailed(n)
  BY Frame DEF Sends, Loses
<1>2. /\ Tailed(n).pc = "active" /\ Tailed(n).script.outbox = Tail(Box(n))
      /\ Tailed(n).script.next = NextOf(n) /\ Tailed(n).script.ok = job[n].script.ok
  BY DEF Tailed
<1>3. /\ Pc(n)' = "active" /\ Box(n)' = Tail(Box(n)) /\ NextOf(n)' = NextOf(n)
      /\ job'[n].script.ok = job[n].script.ok
  BY <1>1, <1>2 DEF Pc, Box, NextOf
<1>4. Pc(n) = "active" /\ Box(n) # <<>> /\ Box(n) \in Seq(Own(n)) /\ attempt' = attempt
  BY DEF Sends, Loses, Typed
<1>5. \/ rows' = rows /\ ~Head(Box(n)).strict /\ faults' # 0
      \/ rows' = [rows EXCEPT ![Head(Box(n)).source] = Head(Box(n)).status]
  BY DEF Sends, Loses, Record
<1> QED BY <1>3, <1>4, <1>5

\* A task that is not repeated is over when it raises or dies.
LEMMA Halted ==
  ASSUME Typed, NEW n \in Tasks, n \notin Containers, n # "nmap",
         NEW j, Step(n, j), Raises(n, j) \/ Stops(n, j)
  PROVE  Pc(n)' = "crashed" /\ attempt' = attempt /\ faults' # 0
<1>1. job'[n] = j /\ job[n] \in Jobs
  BY Frame DEF Typed
<1>2. Raises(n, j) => j = [job[n] EXCEPT !.pc = "crashed"]
  BY RaisedIsJob DEF Raises
<1>3. j = [job[n] EXCEPT !.pc = "crashed"]
  BY <1>2 DEF Stops
<1>4. Pc(n)' = "crashed"
  BY <1>1, <1>3 DEF Pc, Jobs
<1> QED BY <1>4 DEF Raises, Stops

-----------------------------------------------------------------------------
(* Each task's moves preserve what is said of it.                           *)

\* dns, shodan, hibp and crt.sh report "running" and then one result.
LEMMA SinglesMove ==
  ASSUME IInv, NEW n \in Leaves \union {"crt.sh"}, NEW j, Step(n, j), Moves(n, j)
  PROVE  SinglesReport'
<1>1. Typed /\ SinglesReport /\ n \in Tasks /\ n \in Sources
  BY Names DEF IInv, ChainSources
<1>2. /\ job'[n] = j /\ \A m \in Tasks : m # n => job'[m] = job[m]
      /\ \A s \in Sources \ Written(n) : rows'[s] = rows[s]
      /\ rows \in Rows
  BY <1>1, Frame
<1>3. ASSUME NEW m \in Leaves \union {"crt.sh"}, m # n
      PROVE  job'[m] = job[m] /\ rows'[m] = rows[m]
  BY <1>2, <1>3, WrittenBy, Names DEF ChainSources
<1>4. n \notin Containers /\ n # "nmap"
  BY Names DEF ChainSources, PipelineSources
<1>5. /\ NotBegun(n)' => rows'[n] = "none"
      /\ Pc(n)' = "active" =>
           \/ /\ rows'[n] \in {"none", "running"}
              /\ \E o \in Outcome : Box(n)' \in {<<Hint(n, "running"), Call(n, o)>>, <<Call(n, o)>>}
           \/ rows'[n] \in Outcome /\ Box(n)' = <<>>
      /\ Pc(n)' = "ended" => rows'[n] \in Outcome
  <2>1. CASE Starts(n, j)
    <3>1. PICK script \in Scripts(n) : Pc(n)' = "active" /\ Box(n)' = script.outbox
      BY <1>1, <2>1, Started, Zenon
    <3>2. \E o \in Outcome : script.outbox = <<Hint(n, "running"), Call(n, o)>>
      BY <3>1, ScriptsByKind DEF LeafScripts, CrtShScripts, Script
    <3>3. rows'[n] = "none"
      BY <1>1, <2>1, Started DEF SinglesReport, NotBegun
    <3> QED BY <3>1, <3>2, <3>3 DEF NotBegun
  <2>2. CASE Sends(n, j) \/ Loses(n, j)
    <3>1. /\ Pc(n)' = "active" /\ Box(n)' = Tail(Box(n)) /\ Pc(n) = "active" /\ Box(n) # <<>>
          /\ \/ rows' = rows /\ ~Head(Box(n)).strict
             \/ rows' = [rows EXCEPT ![Head(Box(n)).source] = Head(Box(n)).status]
      BY <1>1, <2>2, Sent, Zenon
    <3>2. PICK o \in Outcome : Box(n) \in {<<Hint(n, "running"), Call(n, o)>>, <<Call(n, o)>>}
      BY <1>1, <3>1 DEF SinglesReport
    <3>3. rows[n] \in {"none", "running"}
      BY <1>1, <3>1 DEF SinglesReport
    <3>4. CASE Box(n) = <<Hint(n, "running"), Call(n, o)>>
      <4>1. Head(Box(n)) = Hint(n, "running") /\ Box(n)' = <<Call(n, o)>>
        BY <3>1, <3>4, Tail2
      <4>2. rows'[n] \in {"none", "running"}
        BY <1>1, <1>2, <3>1, <3>3, <4>1 DEF Hint, Rows
      <4> QED BY <3>1, <4>1, <4>2 DEF NotBegun
    <3>5. CASE Box(n) = <<Call(n, o)>>
      <4>1. Head(Box(n)) = Call(n, o) /\ Box(n)' = <<>>
        BY <3>1, <3>5, Tail1
      <4>2. rows'[n] \in Outcome
        BY <1>1, <1>2, <3>1, <3>3, <4>1 DEF Call, Rows
      <4> QED BY <3>1, <4>1, <4>2 DEF NotBegun
    <3> QED BY <3>2, <3>4, <3>5
  <2>3. CASE Raises(n, j) \/ Stops(n, j)
    <3>1. Pc(n)' = "crashed"
      BY <1>1, <1>4, <2>3, Halted
    <3> QED BY <3>1 DEF NotBegun
  <2> QED BY <2>1, <2>2, <2>3 DEF Moves
<1> QED BY <1>1, <1>3, <1>5 DEF SinglesReport, NotBegun, Pc, Box

\* target_resolution, with what it leaves for nmap and in the rows it skips.
LEMMA ResolutionMove ==
  ASSUME IInv, NEW j, Step("target_resolution", j), Moves("target_resolution", j)
  PROVE  ResolutionReports' /\ CveReports'
<1> DEFINE n == "target_resolution"
<1>1. Typed /\ StagesFollow /\ ResolutionReports /\ CveReports /\ n \in Tasks /\ n \in Sources
  BY Names DEF IInv, ChainSources
<1>2. /\ job'[n] = j /\ \A m \in Tasks : m # n => job'[m] = job[m]
      /\ rows \in Rows
      /\ \/ rows' = rows /\ scan' = scan
         \/ /\ Pc(n) = "active" /\ Box(n) # <<>> /\ Head(Box(n)) \in Own(n)
            /\ rows' = [rows EXCEPT ![Head(Box(n)).source] = Head(Box(n)).status]
  BY <1>1, Frame
<1>3. n \notin Containers /\ n # "nmap" /\ attempt' = attempt
  BY Names DEF PipelineSources, ChainSources, Step
<1>4. Own(n) = CallsOf({n}, {"running"} \union Outcome)
                 \union CallsOf(PipelineSources \union {"cve"}, {"skipped"})
  BY Kinds
<1>5. Pc("nmap") = "absent" /\ Pc("cpe_resolver") = "absent" /\ Pc("cve") = "absent"
  BY <1>1 DEF StagesFollow, Step, Pc
<1>6. Pc("nmap")' = "absent" /\ Pc("cpe_resolver")' = "absent" /\ Pc("cve")' = "absent"
  BY <1>2, <1>5, Names DEF Pc
<1>7. \A p \in PipelineSources : rows'[p] \in {"none", "skipped"}
  BY <1>1, <1>2, <1>4, <1>5, Names DEF ResolutionReports, CallsOf, Rows, PipelineSources,
     ChainSources
<1>8. rows'["cve"] \in {"none", "skipped"}
  BY <1>1, <1>2, <1>4, <1>5, Names DEF CveReports, CallsOf, Rows, PipelineSources, ChainSources
<1>9. Pc(n)' \notin {"absent", "queued"}
  <2>1. CASE Starts(n, j)
    BY <1>1, <2>1, Started
  <2>2. CASE Sends(n, j) \/ Loses(n, j)
    BY <1>1, <2>2, Sent
  <2>3. CASE Raises(n, j) \/ Stops(n, j)
    BY <1>1, <1>3, <2>3, Halted
  <2> QED BY <2>1, <2>2, <2>3 DEF Moves
<1>10. ASSUME Pc(n)' = "active", NextOf(n)' = "nmap"
       PROVE  /\ \/ Box(n)' \in {<<Hint(n, "running"), Call(n, "completed")>>,
                                 <<Call(n, "completed")>>}
                 \/ Box(n)' = <<>> /\ rows'[n] = "completed"
              /\ rows'["cve"] = rows["cve"]
              /\ \/ Pc(n) = "queued"
                 \/ Pc(n) = "active" /\ NextOf(n) = "nmap"
  <2>1. CASE Starts(n, j)
    <3>1. PICK script \in Scripts(n) : Box(n)' = script.outbox /\ NextOf(n)' = script.next
      BY <1>1, <2>1, Started, Zenon
    <3>2. script = Resolved
      <4>1. script \in {NothingResolved, Resolved}
        BY <3>1, ScriptsByKind DEF ResolutionScripts
      <4>2. script.next = "nmap" /\ NothingResolved.next = "none"
        BY <1>10, <3>1, FailureEnds
      <4> QED BY <4>1, <4>2
    <3>3. script.outbox = <<Hint(n, "running"), Call(n, "completed")>>
      BY <3>2, Pair DEF Resolved, ResolutionStart, Script
    <3>4. Pc(n) = "queued" /\ rows' = rows
      BY <1>1, <2>1, Started
    <3> QED BY <3>1, <3>3, <3>4
  <2>2. CASE Sends(n, j) \/ Loses(n, j)
    <3>1. /\ Box(n)' = Tail(Box(n)) /\ Pc(n) = "active" /\ Box(n) # <<>>
          /\ NextOf(n) = "nmap"
          /\ \/ rows' = rows /\ ~Head(Box(n)).strict
             \/ rows' = [rows EXCEPT ![Head(Box(n)).source] = Head(Box(n)).status]
      BY <1>1, <1>10, <2>2, Sent
    <3>2. Box(n) \in {<<Hint(n, "running"), Call(n, "completed")>>, <<Call(n, "completed")>>}
      BY <1>1, <3>1 DEF ResolutionReports
    <3>3. CASE Box(n) = <<Hint(n, "running"), Call(n, "completed")>>
      <4>1. Head(Box(n)) = Hint(n, "running") /\ Box(n)' = <<Call(n, "completed")>>
        <5>1. Box(n)' = Tail(Box(n))
          BY <3>1
        <5>2. \A a, b : Head(<<a, b>>) = a /\ Tail(<<a, b>>) = <<b>>
          BY Tail2
        <5> QED BY <3>3, <5>1, <5>2
      <4>2. rows'["cve"] = rows["cve"]
        BY <1>2, <3>1, <4>1, Names DEF Hint, Rows, ChainSources
      <4> QED BY <3>1, <4>1, <4>2
    <3>4. CASE Box(n) = <<Call(n, "completed")>>
      <4>1. Head(Box(n)) = Call(n, "completed") /\ Box(n)' = <<>>
        BY <3>1, <3>4, Tail1
      <4>2. rows'[n] = "completed" /\ rows'["cve"] = rows["cve"]
        BY <1>1, <1>2, <3>1, <4>1, Names DEF Call, Rows, ChainSources
      <4> QED BY <3>1, <4>1, <4>2
    <3> QED BY <3>2, <3>3, <3>4
  <2>3. CASE Raises(n, j) \/ Stops(n, j)
    <3>1. Pc(n)' = "crashed"
      BY <1>1, <1>3, <2>3, Halted
    <3> QED BY <1>10, <3>1
  <2> QED BY <2>1, <2>2, <2>3 DEF Moves
<1>11. ResolutionReports'
  BY <1>7, <1>10 DEF ResolutionReports
<1>12. (CveToCome => \/ rows["cve"] \in {"none", "running"}
                     \/ rows["cve"] = "skipped" /\ attempt > 1)'
  <2>1. ASSUME CveToCome' PROVE Pc(n)' = "active" /\ NextOf(n)' = "nmap"
    BY <1>6, <1>9, <2>1 DEF CveToCome
  <2>2. CveToCome' => CveToCome
    BY <1>10, <2>1 DEF CveToCome
  <2> QED BY <1>1, <1>3, <1>10, <2>1, <2>2 DEF CveReports
<1>13. CveReports'
  BY <1>6, <1>8, <1>12 DEF CveReports, NotBegun
<1> QED BY <1>11, <1>13

\* nmap with work of its own: no container is at work, and a retry leaves cve open.
LEMMA NmapMove ==
  ASSUME IInv, NEW j, Step("nmap", j), Moves("nmap", j)
  PROVE  (~abandoned => ContainerReports)' /\ CveReports'
<1>1. /\ Typed /\ StagesFollow /\ CveReports /\ (~abandoned => ContainerReports)
      /\ "nmap" \in Tasks /\ attempt \in Attempts
  BY Names DEF IInv, Typed, TypeOK
<1>2. /\ job'["nmap"] = j /\ \A m \in Tasks : m # "nmap" => job'[m] = job[m]
      /\ rows \in Rows
      /\ \/ rows' = rows /\ scan' = scan
         \/ /\ Pc("nmap") = "active" /\ Box("nmap") # <<>> /\ Head(Box("nmap")) \in Own("nmap")
            /\ rows' = [rows EXCEPT ![Head(Box("nmap")).source] = Head(Box("nmap")).status]
  BY <1>1, Frame
<1>3. Pc("nmap") \in {"queued", "active", "waiting"} /\ abandoned' = abandoned
  BY DEF Step
<1>4. /\ Pc("target_resolution") = "ended" /\ Pc("cpe_resolver") = "absent" /\ Pc("cve") = "absent"
      /\ Pc("target_resolution")' = "ended" /\ Pc("cpe_resolver")' = "absent" /\ Pc("cve")' = "absent"
  BY <1>1, <1>2, <1>3, Names DEF StagesFollow, Pc
<1>5. \A a \in Attempts : job'[Container[a]] = job[Container[a]]
  BY <1>2, Names DEF PipelineSources
<1>6. /\ Pc("nmap") # "active" =>
           Pc("nmap")' = "crashed" /\ rows' = rows /\ attempt' = attempt
      /\ Pc("nmap")' \notin {"absent", "waiting"}
      /\ Pc("nmap")' = "queued" => attempt' = attempt + 1
      /\ Pc("nmap")' = "active" => Box("nmap") # <<>> /\ NextOf("nmap")' = NextOf("nmap")
  <2>1. CASE Sends("nmap", j) \/ Loses("nmap", j)
    BY <1>1, <2>1, Sent
  <2>2. CASE Raises("nmap", j)
    <3>1. Pc("nmap") = "active" /\ job["nmap"] \in Jobs
      BY <1>1, <2>2 DEF Raises, Typed
    <3>2. CASE attempt <= MaxRetries
      <4>1. job'["nmap"] = [job["nmap"] EXCEPT !.pc = "queued"] /\ attempt' = attempt + 1
        BY <1>1, <1>2, <2>2, <3>1, <3>2, RaisedIsJob DEF Raises
      <4> QED BY <3>1, <4>1 DEF Pc, Jobs
    <3>3. CASE ~(attempt <= MaxRetries)
      <4>1. job'["nmap"] = [job["nmap"] EXCEPT !.pc = "crashed"]
        BY <1>1, <1>2, <2>2, <3>1, <3>3, RaisedIsJob DEF Raises
      <4> QED BY <3>1, <4>1 DEF Pc, Jobs
    <3> QED BY <3>2, <3>3
  <2>3. CASE Stops("nmap", j)
    BY <1>1, <1>2, <2>3 DEF Stops, Typed, Jobs, Pc
  <2> QED BY <2>1, <2>2, <2>3 DEF Moves, Starts
<1>7. NextOf("nmap")' = "cpe_resolver" => Pc("nmap")' # "active"
  <2>1. Pc("nmap") = "active" /\ NextOf("nmap") = "cpe_resolver" => Box("nmap") = <<>>
    BY <1>1 DEF CveReports
  <2> QED BY <1>6, <2>1
<1>8. ASSUME ~abandoned PROVE ContainerReports'
  <2>1. ContainerReports
    BY <1>1, <1>8
  <2>2. CASE Pc("nmap") = "active"
    <3>1. \A a \in Attempts : Pc(Container[a]) \notin {"queued", "active"}
      BY <2>1, <2>2 DEF ContainerReports
    <3>2. attempt' \in Attempts
      BY DEF Step
    <3> QED BY <1>4, <1>5, <1>6, <1>7, <3>1, <3>2 DEF ContainerReports, Pc
  <2>3. CASE Pc("nmap") # "active"
    <3>1. Pc("nmap") = "waiting" \/ Pc("nmap") = "queued"
      BY <1>3, <2>3
    <3>2. Pc("nmap")' = "crashed" /\ rows' = rows /\ attempt' = attempt
      BY <1>6, <2>3
    <3>3. job'[Container[attempt]] = job[Container[attempt]]
      BY <1>1, <1>5
    <3>4. Pc(Container[attempt])' = "active" /\ job'[Container[attempt]].script.ok =>
           /\ \A k \in DOMAIN Box(Container[attempt])' : Box(Container[attempt])'[k].strict
           /\ \A p \in PipelineSources : EndsIn(Box(Container[attempt]), p, FinishedStatus)'
      BY <2>1, <3>2, <3>3 DEF ContainerReports, Pc, Box, EndsIn
    <3> QED BY <1>4, <1>5, <2>1, <3>1, <3>2, <3>4 DEF ContainerReports, Pc, Box
  <2> QED BY <2>2, <2>3
<1>9. rows'["cve"] \in {"none", "skipped"}
  BY <1>1, <1>2, <1>4, Kinds, Names DEF CveReports, CallsOf, Rows, PipelineSources, ChainSources
<1>10. (CveToCome => \/ rows["cve"] \in {"none", "running"}
                     \/ rows["cve"] = "skipped" /\ attempt > 1)'
  <2>1. CveToCome' => Pc("nmap")' = "queued"
    BY <1>4, <1>6, <1>7 DEF CveToCome
  <2> QED BY <1>1, <1>6, <1>9, <2>1 DEF Attempts
<1>11. CveReports'
  BY <1>4, <1>9, <1>10, <1>7 DEF CveReports, NotBegun
<1> QED BY <1>3, <1>8, <1>11

\* The container of the current attempt reports its sources, one call after the other.
LEMMA ContainerMove ==
  ASSUME IInv, NEW n \in Containers, NEW j, Step(n, j), Moves(n, j)
  PROVE  (~abandoned => ContainerReports)'
<1>1. /\ Typed /\ StagesFollow /\ (~abandoned => ContainerReports)
      /\ n \in Tasks /\ attempt \in Attempts /\ "nmap" \notin Containers
      /\ n # "nmap" /\ n # "cpe_resolver"
  BY Names DEF IInv, Typed, TypeOK, PipelineSources, ChainSources
<1>2. /\ job'[n] = j /\ \A m \in Tasks : m # n => job'[m] = job[m]
      /\ rows \in Rows
      /\ \/ rows' = rows /\ scan' = scan
         \/ /\ Pc(n) = "active" /\ Box(n) # <<>> /\ Head(Box(n)) \in Own(n)
            /\ rows' = [rows EXCEPT ![Head(Box(n)).source] = Head(Box(n)).status]
  BY <1>1, Frame
<1>3. abandoned' = abandoned /\ attempt' = attempt
  BY <1>1 DEF Step
<1>4. job'["nmap"] = job["nmap"] /\ job'["cpe_resolver"] = job["cpe_resolver"]
  BY <1>1, <1>2, Names
<1> SUFFICES ASSUME ~abandoned PROVE ContainerReports'
  BY <1>3
<1>5. ContainerReports
  BY <1>1
<1>6. PICK a \in Attempts : n = Container[a]
  BY Names
<1>7. ASSUME NEW b \in Attempts, b # a PROVE job'[Container[b]] = job[Container[b]]
  BY <1>2, <1>6, <1>7, Names
<1>8. \/ /\ Pc(n)' \in {"active", "crashed"} /\ Pc(n) \in {"queued", "active"}
      \/ /\ Pc(n)' = "crashed" /\ rows' = rows
  <2>1. CASE Starts(n, j)
    BY <1>1, <2>1, Started
  <2>2. CASE Sends(n, j) \/ Loses(n, j)
    BY <1>1, <2>2, Sent
  <2>3. CASE Raises(n, j)
    BY <1>1, <1>2, <2>3, RaisedIsJob DEF Raises, Pc
  <2>4. CASE Stops(n, j)
    BY <1>1, <1>2, <2>4 DEF Stops, Typed, Jobs, Pc
  <2> QED BY <2>1, <2>2, <2>3, <2>4 DEF Moves
<1>9. CASE Pc(n) \notin {"queued", "active"}
  <2>1. Pc(n)' = "crashed" /\ rows' = rows
    BY <1>8, <1>9
  <2>2. \A b \in Attempts : Pc(Container[b])' \in {"queued", "active"} =>
          b # a /\ Pc(Container[b]) \in {"queued", "active"}
    BY <1>6, <1>7, <2>1 DEF Pc
  <2>3. Pc(Container[attempt])' \in {"active", "ended"} =>
          job'[Container[attempt]] = job[Container[attempt]]
    BY <1>1, <1>3, <1>6, <1>7, <2>1 DEF Pc
  <2>4. (Pc(Container[attempt]) = "active" /\ job[Container[attempt]].script.ok =>
           /\ \A k \in DOMAIN Box(Container[attempt]) : Box(Container[attempt])[k].strict
           /\ \A p \in PipelineSources : EndsIn(Box(Container[attempt]), p, FinishedStatus))'
    BY <1>3, <1>5, <2>1, <2>3 DEF ContainerReports, Pc, Box, EndsIn
  <2>5. (AllReported <=> AllReported')
    BY <2>1 DEF AllReported
  <2> QED BY <1>3, <1>4, <1>5, <2>2, <2>3, <2>4, <2>5 DEF ContainerReports, Pc, Box, NextOf
<1>10. CASE Pc(n) \in {"queued", "active"}
  <2>1. a = attempt /\ n = Container[attempt] /\ Pc("nmap") \in {"waiting", "crashed"}
    BY <1>5, <1>6, <1>10 DEF ContainerReports
  <2>2. Pc(n)' \in {"active", "crashed"}
    BY <1>8
  <2>3. \A b \in Attempts : Pc(Container[b])' \in {"queued", "active"} => b = attempt
    BY <1>5, <1>7, <2>1 DEF ContainerReports, Pc
  <2>4. Pc("cpe_resolver") = "absent"
    BY <1>1, <2>1 DEF StagesFollow, Pc
  <2>5. ASSUME Pc(n)' = "active", job'[n].script.ok
        PROVE  /\ \A k \in DOMAIN Box(n)' : Box(n)'[k].strict
               /\ \A p \in PipelineSources : EndsIn(Box(n), p, FinishedStatus)'
    <3>1. CASE Starts(n, j)
      <4>1. PICK script \in Scripts(n) : Box(n)' = script.outbox /\ job'[n].script.ok = script.ok
        BY <1>1, <3>1, Started, Zenon
      <4>2. PICK run \in PossibleRuns : script = PipelineScript(run)
        BY <2>5, <4>1, ScriptsByKind, FatalErrorIsHints, ActiveAssumption DEF ContainerScripts
      <4>3. /\ Box(n)' \in Seq([source : PipelineSources, status : SourceStatus \ {"none"},
                                strict : {TRUE}])
            /\ \A p \in PipelineSources : Settles(Box(n)', p, FinishedStatus)
        BY <4>1, <4>2, PipelineEnds
      <4>4. \A k \in DOMAIN Box(n)' : Box(n)'[k].strict
        <5>1. \A k \in DOMAIN Box(n)' : Box(n)'[k].strict = TRUE
          BY <4>3, StrictCalls, Zenon
        <5> QED BY <5>1, Zenon
      <4>5. \A p \in PipelineSources : EndsIn(Box(n), p, FinishedStatus)'
        BY <4>3 DEF EndsIn, Settles
      <4> QED BY <4>4, <4>5
    <3>2. CASE Sends(n, j) \/ Loses(n, j)
      <4>1. /\ Pc(n) = "active" /\ Box(n) # <<>> /\ Box(n) \in Seq(Own(n))
            /\ Box(n)' = Tail(Box(n)) /\ job'[n].script.ok = job[n].script.ok
            /\ \/ ~Head(Box(n)).strict
               \/ rows' = [rows EXCEPT ![Head(Box(n)).source] = Head(Box(n)).status]
        BY <1>1, <3>2, Sent
      <4>2. /\ \A k \in DOMAIN Box(n) : Box(n)[k].strict
            /\ \A p \in PipelineSources : EndsIn(Box(n), p, FinishedStatus)
        BY <1>5, <2>1, <2>5, <4>1 DEF ContainerReports
      <4>3. /\ Head(Box(n)) = Box(n)[1] /\ 1 \in DOMAIN Box(n)
            /\ \A k \in DOMAIN Tail(Box(n)) : /\ Tail(Box(n))[k] = Box(n)[k + 1]
                                              /\ k + 1 \in DOMAIN Box(n)
        BY <4>1, HeadTail
      <4>4. rows' = [rows EXCEPT ![Head(Box(n)).source] = Head(Box(n)).status]
        BY <4>1, <4>2, <4>3
      <4>5. PICK box \in Seq(Own(n)) : box = Box(n)
        BY <4>1
      <4>6. \A p \in PipelineSources : EndsIn(Tail(box), p, FinishedStatus)'
        BY <1>2, <4>1, <4>2, <4>4, <4>5, Arrives, Names
      <4>7. \A p \in PipelineSources : EndsIn(Box(n), p, FinishedStatus)'
        BY <4>1, <4>5, <4>6 DEF EndsIn
      <4> QED BY <4>1, <4>2, <4>3, <4>7
    <3>3. CASE Raises(n, j)
      BY <1>1, <1>2, <2>5, <3>3, RaisedIsJob, FatalErrorIsHints DEF Raises
    <3>4. CASE Stops(n, j)
      BY <1>1, <1>2, <2>5, <3>4 DEF Stops, Typed, Jobs, Pc
    <3> QED BY <3>1, <3>2, <3>3, <3>4 DEF Moves
  <2>6. (Pc(Container[attempt]) = "active" /\ job[Container[attempt]].script.ok =>
           /\ \A k \in DOMAIN Box(Container[attempt]) : Box(Container[attempt])[k].strict
           /\ \A p \in PipelineSources : EndsIn(Box(Container[attempt]), p, FinishedStatus))'
    BY <1>3, <2>1, <2>5 DEF Pc, Box, EndsIn
  <2> QED BY <1>3, <1>4, <2>1, <2>2, <2>3, <2>4, <2>6 DEF ContainerReports, Pc
<1> QED BY <1>9, <1>10

\* cpe_resolver reports itself and announces cve, or reports the failure of both.
LEMMA CpeMove ==
  ASSUME IInv, NEW j, Step("cpe_resolver", j), Moves("cpe_resolver", j)
  PROVE  CpeReports' /\ CveReports'
<1> DEFINE n == "cpe_resolver"
           Found == <<Hint("cve", "running"), Call("cpe_resolver", "completed")>>
           Lost == <<Hint("cve", "running"), Call("cpe_resolver", "failed"), Hint("cve", "failed")>>
<1>1. /\ Typed /\ StagesFollow /\ CpeReports /\ CveReports /\ n \in Tasks /\ n \in Sources
      /\ "cve" \in Sources /\ n \notin Containers /\ rows \in Rows
  BY Names DEF IInv, Typed, TypeOK, PipelineSources, ChainSources
<1>2. job'[n] = j /\ \A m \in Tasks : m # n => job'[m] = job[m]
  BY <1>1, Frame
<1>3. Pc(n) \in {"queued", "active", "waiting"} /\ attempt' = attempt
  BY DEF Step
<1>4. /\ Pc("nmap") = "ended" /\ Pc("target_resolution") = "ended" /\ Pc("cve") = "absent"
      /\ Pc("nmap")' = "ended" /\ Pc("target_resolution")' = "ended" /\ Pc("cve")' = "absent"
  BY <1>1, <1>2, <1>3, Names DEF StagesFollow, Pc
<1>5. Pc(n) \in {"queued", "active"} /\ CveToCome =>
        rows["cve"] \in {"none", "running"} \/ (rows["cve"] = "skipped" /\ attempt > 1)
  BY <1>1 DEF CveReports
<1>6. rows["cve"] # "completed"
  BY <1>1, <1>4 DEF CveReports, NotBegun
<1>7. CASE Starts(n, j)
  <2>1. PICK script \in Scripts(n) : /\ Pc(n)' = "active" /\ Box(n)' = script.outbox
                                     /\ NextOf(n)' = script.next
    BY <1>1, <1>7, Started, Zenon
  <2>2. Pc(n) = "queued" /\ rows' = rows
    BY <1>1, <1>7, Started
  <2>3. \/ Box(n)' = Found /\ NextOf(n)' = "cve"
        \/ Box(n)' = Lost /\ NextOf(n)' = "none"
    BY <2>1, ScriptsByKind DEF CpeScripts, Script
  <2>4. rows[n] = "none" /\ CveToCome
    BY <1>1, <2>2 DEF CpeReports, NotBegun, CveToCome
  <2> HIDE DEF Found, Lost
  <2>5. CpeReports'
    BY <2>1, <2>2, <2>3, <2>4 DEF CpeReports, NotBegun, Found, Lost
  <2>6. CveReports'
    BY <1>3, <1>4, <1>5, <1>6, <2>1, <2>2, <2>4 DEF CveReports, NotBegun
  <2> QED BY <2>5, <2>6
<1>8. CASE Sends(n, j) \/ Loses(n, j)
  <2>1. /\ Pc(n) = "active" /\ Box(n) # <<>> /\ Pc(n)' = "active"
        /\ Box(n)' = Tail(Box(n)) /\ NextOf(n)' = NextOf(n)
        /\ \/ rows' = rows /\ ~Head(Box(n)).strict
           \/ rows' = [rows EXCEPT ![Head(Box(n)).source] = Head(Box(n)).status]
    BY <1>1, <1>8, Sent
  <2>2. CveToCome
    BY <2>1 DEF CveToCome
  <2>3. Box(n)' = Tail(Box(n))
    BY <2>1
  <2>5. CASE rows[n] = "none" /\ NextOf(n) = "cve" /\ Box(n) = Found
    <3>1. Head(Box(n)) = Hint("cve", "running") /\ Box(n)' = <<Call(n, "completed")>>
      BY <2>3, <2>5, Tail2, Zenon
    <3>2. rows'[n] = "none" /\ rows'["cve"] \in {"running", rows["cve"]}
      BY <1>1, <2>1, <2>5, <3>1 DEF Hint, Rows
    <3>3. CpeReports'
      BY <2>1, <2>5, <3>1, <3>2 DEF CpeReports, NotBegun
    <3> QED BY <1>3, <1>4, <1>5, <1>6, <2>1, <2>2, <3>2, <3>3 DEF CveReports, NotBegun
  <2>6. CASE rows[n] = "none" /\ NextOf(n) = "cve" /\ Box(n) = <<Call(n, "completed")>>
    <3>1. Head(Box(n)) = Call(n, "completed") /\ Box(n)' = <<>>
      BY <2>3, <2>6, Tail1, Zenon
    <3>2. rows'[n] = "completed" /\ rows'["cve"] = rows["cve"]
      BY <1>1, <2>1, <2>6, <3>1 DEF Call, Rows
    <3>3. CpeReports'
      BY <2>1, <2>6, <3>1, <3>2 DEF CpeReports, NotBegun
    <3> QED BY <1>3, <1>4, <1>5, <1>6, <2>1, <2>2, <3>2, <3>3 DEF CveReports, NotBegun
  <2>7. CASE rows[n] = "none" /\ NextOf(n) = "none" /\ Box(n) = Lost
    <3>1. Head(Box(n)) = Hint("cve", "running")
          /\ Box(n)' = <<Call(n, "failed"), Hint("cve", "failed")>>
      <4>1. \A a, b, c : Head(<<a, b, c>>) = a /\ Tail(<<a, b, c>>) = <<b, c>>
        BY Tail3, Zenon
      <4>2. Box(n) = Lost
        BY <2>7
      <4> QED BY <2>3, <4>1, <4>2
    <3>2. rows'[n] = "none" /\ rows'["cve"] \in {"running", rows["cve"]}
      BY <1>1, <2>1, <2>7, <3>1 DEF Hint, Rows
    <3>3. CpeReports'
      BY <2>1, <2>7, <3>1, <3>2 DEF CpeReports, NotBegun
    <3> QED BY <1>3, <1>4, <1>5, <1>6, <2>1, <2>2, <3>2, <3>3 DEF CveReports, NotBegun
  <2>8. CASE rows[n] = "none" /\ NextOf(n) = "none"
             /\ Box(n) = <<Call(n, "failed"), Hint("cve", "failed")>>
    <3>1. Head(Box(n)) = Call(n, "failed") /\ Box(n)' = <<Hint("cve", "failed")>>
      BY <2>3, <2>8, Tail2, Zenon
    <3>2. rows'[n] = "failed" /\ rows'["cve"] = rows["cve"]
      BY <1>1, <2>1, <2>8, <3>1 DEF Call, Rows
    <3>3. CpeReports'
      BY <2>1, <2>8, <3>1, <3>2 DEF CpeReports, NotBegun
    <3> QED BY <1>3, <1>4, <1>5, <1>6, <2>1, <2>2, <3>2, <3>3 DEF CveReports, NotBegun
  <2>9. CASE rows[n] = "failed" /\ NextOf(n) = "none" /\ Box(n) = <<Hint("cve", "failed")>>
    <3>1. Head(Box(n)) = Hint("cve", "failed") /\ Box(n)' = <<>>
      BY <2>3, <2>9, Tail1, Zenon
    <3>2. rows'[n] = "failed" /\ rows'["cve"] \in {"failed", rows["cve"]}
      BY <1>1, <2>1, <2>9, <3>1 DEF Hint, Rows
    <3>3. CpeReports'
      BY <2>1, <2>9, <3>1, <3>2 DEF CpeReports, NotBegun
    <3>4. ~CveToCome'
      BY <1>4, <2>1, <2>9, <3>1 DEF CveToCome
    <3> QED BY <1>4, <1>6, <2>1, <3>2, <3>3, <3>4 DEF CveReports, NotBegun
  <2> QED BY <1>1, <2>1, <2>5, <2>6, <2>7, <2>8, <2>9 DEF CpeReports
<1>9. CASE Raises(n, j) \/ Stops(n, j)
  <2>1. Pc(n)' = "crashed"
    BY <1>1, <1>9, Halted
  <2>2. ~CveToCome'
    BY <1>4, <2>1 DEF CveToCome
  <2>3. rows'["cve"] # "completed"
    <3>1. \/ rows' = rows
          \/ /\ Head(Box(n)) \in Own(n)
             /\ rows' = [rows EXCEPT ![Head(Box(n)).source] = Head(Box(n)).status]
      BY <1>1, Frame
    <3> QED BY <1>1, <1>6, <3>1, Kinds DEF CallsOf, Rows
  <2> QED BY <1>4, <2>1, <2>2, <2>3 DEF CpeReports, CveReports, NotBegun
<1> QED BY <1>7, <1>8, <1>9 DEF Moves

\* cve reports one result, at the end.
LEMMA CveMove ==
  ASSUME IInv, NEW j, Step("cve", j), Moves("cve", j)
  PROVE  CveReports'
<1> DEFINE n == "cve"
<1>1. /\ Typed /\ StagesFollow /\ CveReports /\ n \in Tasks /\ n \in Sources
      /\ n \notin Containers /\ rows \in Rows
  BY Names DEF IInv, Typed, TypeOK, PipelineSources, ChainSources
<1>2. job'[n] = j /\ \A m \in Tasks : m # n => job'[m] = job[m]
  BY <1>1, Frame
<1>3. Pc(n) \in {"queued", "active", "waiting"} /\ attempt' = attempt
  BY DEF Step
<1>4. /\ Pc("nmap")' = "ended" /\ Pc("target_resolution")' = "ended"
      /\ Pc("cpe_resolver")' = "ended"
  BY <1>1, <1>2, <1>3, Names DEF StagesFollow, Pc
<1>5. CveToCome => rows[n] \in {"none", "running"} \/ (rows[n] = "skipped" /\ attempt > 1)
  BY <1>1 DEF CveReports
<1>6. CASE Starts(n, j)
  <2>1. PICK script \in Scripts(n) : Pc(n)' = "active" /\ Box(n)' = script.outbox
    BY <1>1, <1>6, Started, Zenon
  <2>2. Pc(n) = "queued" /\ rows' = rows
    BY <1>1, <1>6, Started
  <2>3. \E o \in Outcome : Box(n)' = <<Hint(n, "running"), Call(n, o)>>
    BY <2>1, ScriptsByKind DEF LeafScripts, Script
  <2>4. CveToCome
    BY <2>2 DEF CveToCome
  <2> QED BY <1>3, <1>4, <1>5, <2>1, <2>2, <2>3, <2>4 DEF CveReports, NotBegun
<1>7. CASE Sends(n, j) \/ Loses(n, j)
  <2>1. /\ Pc(n) = "active" /\ Box(n) # <<>> /\ Pc(n)' = "active" /\ Box(n)' = Tail(Box(n))
        /\ \/ rows' = rows /\ ~Head(Box(n)).strict
           \/ rows' = [rows EXCEPT ![Head(Box(n)).source] = Head(Box(n)).status]
    BY <1>1, <1>7, Sent
  <2>2. CveToCome
    BY <2>1 DEF CveToCome
  <2>3. PICK o \in Outcome : Box(n) \in {<<Hint(n, "running"), Call(n, o)>>, <<Call(n, o)>>}
    BY <1>1, <2>1 DEF CveReports
  <2>4. Box(n)' = Tail(Box(n))
    BY <2>1
  <2>5. CASE Box(n) = <<Hint(n, "running"), Call(n, o)>>
    <3>1. Head(Box(n)) = Hint(n, "running") /\ Box(n)' = <<Call(n, o)>>
      BY <2>4, <2>5, Tail2, Zenon
    <3>2. rows'[n] \in {"running", rows[n]}
      BY <1>1, <2>1, <3>1 DEF Hint, Rows
    <3> QED BY <1>3, <1>4, <1>5, <2>1, <2>2, <3>1, <3>2 DEF CveReports, NotBegun
  <2>6. CASE Box(n) = <<Call(n, o)>>
    <3>1. Head(Box(n)) = Call(n, o) /\ Box(n)' = <<>>
      BY <2>4, <2>6, Tail1, Zenon
    <3>2. rows'[n] \in Outcome
      BY <1>1, <2>1, <3>1 DEF Call, Rows
    <3>3. ~CveToCome'
      BY <1>4, <2>1, <3>1 DEF CveToCome
    <3> QED BY <1>4, <2>1, <3>1, <3>2, <3>3 DEF CveReports, NotBegun
  <2> QED BY <2>3, <2>5, <2>6
<1>8. CASE Raises(n, j) \/ Stops(n, j)
  <2>1. Pc(n)' = "crashed"
    BY <1>1, <1>8, Halted
  <2>2. ~CveToCome'
    BY <1>4, <2>1 DEF CveToCome
  <2> QED BY <1>4, <2>1, <2>2 DEF CveReports, NotBegun
<1> QED BY <1>6, <1>7, <1>8 DEF Moves

\* What a task is about to leave in the rows stays so while others move.
LEMMA FaultlessMove ==
  ASSUME IInv, NEW n \in Tasks, NEW j, Step(n, j), Moves(n, j)
  PROVE  FaultlessIsComplete'
<1> DEFINE tr == "target_resolution"
           cpe == "cpe_resolver"
<1> SUFFICES ASSUME faults' = 0 PROVE FaultlessIsComplete'
  BY DEF FaultlessIsComplete
<1>1. /\ Typed /\ StagesFollow /\ CpeReports /\ FaultlessIsComplete /\ faults = 0
      /\ Starts(n, j) \/ Sends(n, j)
  BY DEF IInv, Moves, Loses, Raises, Stops
<1>2. ~abandoned /\ ~abandoned' /\ ContainerReports /\ boot' = boot
  BY <1>1 DEF IInv, FaultlessIsComplete, Step
<1>3. /\ job'[n] = j /\ \A m \in Tasks : m # n => job'[m] = job[m]
      /\ \A s \in Sources \ Written(n) : rows'[s] = rows[s]
      /\ rows \in Rows
  BY <1>1, Frame
<1>4. Pc(n) \in {"queued", "active"} /\ Pc(n)' = "active"
  BY <1>1, Started, Sent
<1>5. ASSUME NEW m \in Tasks, m # n
      PROVE  Pc(m)' = Pc(m) /\ Box(m)' = Box(m) /\ NextOf(m)' = NextOf(m)
  BY <1>3, <1>5 DEF Pc, Box, NextOf
<1>6. /\ n \in Leaves \union {"crt.sh"} => \A s \in PipelineSources \union {tr, cpe, "cve"} : rows'[s] = rows[s]
      /\ n \in Containers => Pc("nmap") \in {"waiting", "crashed"}
  BY <1>2, <1>3, <1>4, WrittenBy, Names DEF ContainerReports, PipelineSources, ChainSources
<1>7. n \in Leaves \union {"crt.sh", tr, "nmap", cpe, "cve"} \union Containers
  BY Names DEF ChainSources
<1>8. \A m \in Tasks \ Containers : Pc(m)' # "crashed"
  BY <1>1, <1>4, <1>5 DEF FaultlessIsComplete
<1>9. boot' = "done" => \A m \in Leaves \union {"crt.sh"} : Pc(m)' # "absent"
  BY <1>1, <1>2, <1>4, <1>5, Names DEF FaultlessIsComplete
<1>10. Pc("crt.sh")' = "ended" => Pc(tr)' # "absent"
  BY <1>1, <1>4, <1>5, Names DEF FaultlessIsComplete
<1>11. ASSUME Pc(tr)' = "active", NextOf(tr)' = "none"
       PROVE  /\ EndsIn(Box(tr), tr, {"failed"})'
              /\ \A s \in PipelineSources \union {"cve"} : EndsIn(Box(tr), s, {"skipped"})'
  <2>1. CASE n = tr
    <3>1. CASE Starts(n, j)
      <4>1. PICK script \in Scripts(n) : Box(n)' = script.outbox /\ NextOf(n)' = script.next
        BY <1>1, <3>1, Started, Zenon
      <4>2. script = NothingResolved
        <5>1. script = NothingResolved \/ script = Resolved
          BY <2>1, <4>1, ScriptsByKind DEF ResolutionScripts
        <5>2. Resolved.next = "nmap"
          BY DEF Resolved, Script
        <5> QED BY <1>11, <2>1, <4>1, <5>1, <5>2
      <4>3. /\ Settles(script.outbox, tr, {"failed"})
            /\ \A s \in PipelineSources \union {"cve"} : Settles(script.outbox, s, {"skipped"})
        BY <4>2, FailureEnds
      <4> QED BY <2>1, <4>1, <4>3 DEF EndsIn, Settles
    <3>2. CASE Sends(n, j)
      <4>1. /\ Pc(n) = "active" /\ NextOf(n) = "none"
            /\ Box(n) # <<>> /\ Box(n) \in Seq(Own(n)) /\ Box(n)' = Tail(Box(n))
            /\ rows' = [rows EXCEPT ![Head(Box(n)).source] = Head(Box(n)).status]
        BY <1>1, <1>11, <2>1, <3>2, Sent DEF Sends, Record
      <4>2. /\ EndsIn(Box(n), tr, {"failed"})
            /\ \A s \in PipelineSources \union {"cve"} : EndsIn(Box(n), s, {"skipped"})
        BY <1>1, <2>1, <4>1 DEF FaultlessIsComplete
      <4>3. PICK box \in Seq(Own(n)) : box = Box(n)
        BY <4>1
      <4>4. /\ EndsIn(Tail(box), tr, {"failed"})'
            /\ \A s \in PipelineSources \union {"cve"} : EndsIn(Tail(box), s, {"skipped"})'
        BY <1>3, <4>1, <4>2, <4>3, Arrives, Names DEF ChainSources
      <4> QED BY <2>1, <4>1, <4>3, <4>4 DEF EndsIn
    <3> QED BY <1>1, <3>1, <3>2
  <2>2. CASE n # tr
    <3>1. Pc(tr) = "active" /\ NextOf(tr) = "none" /\ Box(tr)' = Box(tr)
      BY <1>5, <1>11, <2>2, Names
    <3>2. n \in Leaves \union {"crt.sh"}
      BY <1>1, <1>4, <1>7, <2>2, <3>1 DEF StagesFollow
    <3>3. \A s \in PipelineSources \union {tr, "cve"} : rows'[s] = rows[s]
      BY <1>6, <3>2
    <3>4. /\ EndsIn(Box(tr), tr, {"failed"})
          /\ \A s \in PipelineSources \union {"cve"} : EndsIn(Box(tr), s, {"skipped"})
      BY <1>1, <3>1 DEF FaultlessIsComplete
    <3> QED BY <3>1, <3>3, <3>4 DEF EndsIn
  <2> QED BY <2>1, <2>2
<1>12. ASSUME Pc(tr)' = "ended", Pc("nmap")' = "absent"
       PROVE  rows'[tr] = "failed" /\ \A s \in PipelineSources \union {"cve"} : rows'[s] = "skipped"
  <2>1. n # tr /\ n # "nmap"
    BY <1>4, <1>12
  <2>2. Pc(tr) = "ended" /\ Pc("nmap") = "absent"
    BY <1>5, <1>12, <2>1, Names
  <2>3. n \in Leaves \union {"crt.sh"}
    BY <1>1, <1>4, <1>7, <2>1, <2>2 DEF StagesFollow
  <2> QED BY <1>1, <1>6, <2>2, <2>3 DEF FaultlessIsComplete
<1>13. ASSUME Pc("nmap")' = "active", NextOf("nmap")' = "none"
       PROVE  /\ \A p \in PipelineSources : EndsIn(Box("nmap"), p, {"failed"})'
              /\ EndsIn(Box("nmap"), "cve", {"skipped"})'
  <2>1. CASE n = "nmap"
    <3>1. /\ Pc(n) = "active" /\ NextOf(n) = "none"
          /\ Box(n) # <<>> /\ Box(n) \in Seq(Own(n)) /\ Box(n)' = Tail(Box(n))
          /\ rows' = [rows EXCEPT ![Head(Box(n)).source] = Head(Box(n)).status]
      BY <1>1, <1>13, <2>1, Sent DEF Starts, Sends, Record
    <3>2. /\ \A p \in PipelineSources : EndsIn(Box(n), p, {"failed"})
          /\ EndsIn(Box(n), "cve", {"skipped"})
      BY <1>1, <2>1, <3>1 DEF FaultlessIsComplete
    <3>3. PICK box \in Seq(Own(n)) : box = Box(n)
      BY <3>1
    <3>4. /\ \A p \in PipelineSources : EndsIn(Tail(box), p, {"failed"})'
          /\ EndsIn(Tail(box), "cve", {"skipped"})'
      BY <1>3, <3>1, <3>2, <3>3, Arrives, Names DEF ChainSources
    <3> QED BY <2>1, <3>1, <3>3, <3>4 DEF EndsIn
  <2>2. CASE n # "nmap"
    <3>1. Pc("nmap") = "active" /\ NextOf("nmap") = "none" /\ Box("nmap")' = Box("nmap")
      BY <1>5, <1>13, <2>2, Names
    <3>2. n \in Leaves \union {"crt.sh"}
      BY <1>1, <1>4, <1>6, <1>7, <2>2, <3>1 DEF StagesFollow
    <3>3. \A s \in PipelineSources \union {"cve"} : rows'[s] = rows[s]
      BY <1>6, <3>2
    <3>4. /\ \A p \in PipelineSources : EndsIn(Box("nmap"), p, {"failed"})
          /\ EndsIn(Box("nmap"), "cve", {"skipped"})
      BY <1>1, <3>1 DEF FaultlessIsComplete
    <3> QED BY <3>1, <3>3, <3>4 DEF EndsIn
  <2> QED BY <2>1, <2>2
<1>14. ASSUME Pc("nmap")' = "ended", Pc(cpe)' = "absent"
       PROVE  (\A p \in PipelineSources : rows'[p] = "failed") /\ rows'["cve"] = "skipped"
  <2>1. n # cpe /\ n # "nmap"
    BY <1>4, <1>14
  <2>2. Pc("nmap") = "ended" /\ Pc(cpe) = "absent"
    BY <1>5, <1>14, <2>1, Names
  <2>3. n \in Leaves \union {"crt.sh"}
    BY <1>1, <1>4, <1>6, <1>7, <2>1, <2>2 DEF StagesFollow
  <2> QED BY <1>1, <1>6, <2>2, <2>3 DEF FaultlessIsComplete
<1>15. ASSUME Pc(cpe)' = "active", NextOf(cpe)' = "none", Box(cpe)' = <<>>
       PROVE  rows'["cve"] = "failed"
  <2>1. CASE n = cpe
    <3>1. CASE Starts(n, j)
      <4>1. PICK script \in Scripts(n) : Box(n)' = script.outbox /\ NextOf(n)' = script.next
        BY <1>1, <3>1, Started, Zenon
      <4>2. script.outbox # <<>>
        BY <2>1, <4>1, ScriptsByKind, Tail2, Tail3 DEF CpeScripts, Script
      <4> QED BY <1>15, <2>1, <4>1, <4>2
    <3>2. CASE Sends(n, j)
      <4>1. /\ Pc(cpe) = "active" /\ NextOf(cpe) = "none"
            /\ Box(cpe) # <<>> /\ Tail(Box(cpe)) = <<>>
            /\ rows' = [rows EXCEPT ![Head(Box(cpe)).source] = Head(Box(cpe)).status]
        BY <1>1, <1>15, <2>1, <3>2, Sent DEF Sends, Record
      <4>2. Box(cpe) \in {<<Hint("cve", "running"), Call(cpe, "failed"), Hint("cve", "failed")>>,
                          <<Call(cpe, "failed"), Hint("cve", "failed")>>,
                          <<Hint("cve", "failed")>>}
        BY <1>1, <4>1 DEF CpeReports
      <4>3. /\ \A a, b, c : Tail(<<a, b, c>>) # <<>>
            /\ \A a, b : Tail(<<a, b>>) # <<>>
        <5>1. ASSUME NEW a, NEW b, NEW c PROVE Tail(<<a, b, c>>) # <<>>
          <6>1. Tail(<<a, b, c>>) = <<b, c>>
            BY Tail3
          <6>2. <<b, c>> # <<>>
            BY Tail2, Zenon
          <6> QED BY <6>1, <6>2, Zenon
        <5>2. ASSUME NEW a, NEW b PROVE Tail(<<a, b>>) # <<>>
          <6>1. Tail(<<a, b>>) = <<b>> /\ <<b>> # <<>>
            BY Tail1, Tail2, Zenon
          <6> QED BY <6>1, Zenon
        <5> QED BY <5>1, <5>2
      <4>4. Box(cpe) = <<Hint("cve", "failed")>>
        BY <4>1, <4>2, <4>3, Zenon
      <4>5. Head(Box(cpe)) = Hint("cve", "failed")
        BY <4>4, Tail1, Zenon
      <4> QED BY <1>3, <4>1, <4>5, Names DEF Hint, Rows, ChainSources
    <3> QED BY <1>1, <3>1, <3>2
  <2>2. CASE n # cpe
    <3>1. Pc(cpe) = "active" /\ NextOf(cpe) = "none" /\ Box(cpe) = <<>>
      BY <1>5, <1>15, <2>2, Names
    <3>2. n \in Leaves \union {"crt.sh"} \union Containers
      BY <1>1, <1>4, <1>7, <2>2, <3>1 DEF StagesFollow
    <3>3. "cve" \notin Written(n) /\ "cve" \in Sources
      BY <3>2, WrittenBy, Names DEF PipelineSources, ChainSources
    <3> QED BY <1>1, <1>3, <3>1, <3>3 DEF FaultlessIsComplete
  <2> QED BY <2>1, <2>2
<1>16. ASSUME Pc(cpe)' = "ended", Pc("cve")' = "absent"
       PROVE  rows'[cpe] = "failed" /\ rows'["cve"] = "failed"
  <2>1. n # cpe /\ n # "cve"
    BY <1>4, <1>16
  <2>2. Pc(cpe) = "ended" /\ Pc("cve") = "absent"
    BY <1>5, <1>16, <2>1, Names
  <2>3. n \in Leaves \union {"crt.sh"}
    BY <1>1, <1>4, <1>6, <1>7, <2>1, <2>2 DEF StagesFollow
  <2> QED BY <1>1, <1>6, <2>2, <2>3 DEF FaultlessIsComplete
<1> HIDE DEF tr, cpe
<1> QED
  BY <1>2, <1>8, <1>9, <1>10, <1>11, <1>12, <1>13, <1>14, <1>15, <1>16
  DEF FaultlessIsComplete, tr, cpe

\* The scripts of the tasks, the containers' aside, have exit status 0.
LEMMA ExitMove ==
  ASSUME IInv, NEW n \in Tasks, NEW j, Step(n, j), Moves(n, j)
  PROVE  OthersExitWell'
<1>1. Typed /\ OthersExitWell /\ job[n] \in Jobs
  BY DEF IInv, Typed
<1>2. job'[n] = j /\ \A m \in Tasks : m # n => job'[m] = job[m]
  BY <1>1, Frame
<1>3. ASSUME n \notin Containers PROVE job'[n].script.ok
  <2>1. CASE Starts(n, j)
    <3>1. PICK script \in Scripts(n) : job'[n].script.ok = script.ok
      BY <1>1, <2>1, Started, Zenon
    <3>2. n # "nmap"
      BY <2>1 DEF Starts
    <3>3. script.ok = TRUE
      <4>1. CASE n \in Leaves \union {"cve"}
        BY <3>1, <4>1, ScriptsByKind DEF LeafScripts, Script
      <4>2. CASE n = "crt.sh"
        BY <3>1, <4>2, ScriptsByKind DEF CrtShScripts, Script
      <4>3. CASE n = "target_resolution"
        <5>1. script = NothingResolved \/ script = Resolved
          BY <3>1, <4>3, ScriptsByKind DEF ResolutionScripts
        <5>2. NothingResolved.ok = TRUE /\ Resolved.ok = TRUE
          BY FailureEnds DEF Resolved, Script
        <5> QED BY <5>1, <5>2
      <4>4. CASE n = "cpe_resolver"
        BY <3>1, <4>4, ScriptsByKind DEF CpeScripts, Script
      <4> QED BY <1>3, <3>2, <4>1, <4>2, <4>3, <4>4, Names DEF ChainSources
    <3> QED BY <3>1, <3>3, Zenon
  <2>2. CASE Sends(n, j) \/ Loses(n, j)
    <3>1. job'[n].script.ok = job[n].script.ok
      BY <1>1, <2>2, Sent
    <3> QED BY <1>1, <1>3, <3>1, Zenon DEF OthersExitWell
  <2>3. CASE Raises(n, j) \/ Stops(n, j)
    <3>1. j = [job[n] EXCEPT !.pc = "crashed"] \/ j = [job[n] EXCEPT !.pc = "queued"]
      BY <1>1, <1>3, <2>3, RaisedIsJob DEF Raises, Stops
    <3>2. job'[n].script.ok = job[n].script.ok
      BY <1>1, <1>2, <3>1 DEF Jobs
    <3> QED BY <1>1, <1>3, <3>2, Zenon DEF OthersExitWell
  <2> QED BY <2>1, <2>2, <2>3 DEF Moves
<1> QED BY <1>1, <1>2, <1>3 DEF OthersExitWell

\* The steps of the tasks, together.
LEMMA TaskSound ==
  ASSUME IInv, NEW n \in Tasks,
         Begin(n) \/ Deliver(n) \/ CallFails(n) \/ PublishFails(n) \/ Dies(n)
  PROVE  IInv'
<1>1. PICK j : Step(n, j) /\ Moves(n, j)
  BY TaskMoves, Zenon
<1>2. Typed' /\ OthersExitWell' /\ StagesFollow' /\ StatusIsTheRows' /\ FaultlessIsComplete'
  BY <1>1, StepTypes, ExitMove, StepFollows, StepStatus, FaultlessMove
<1>3. /\ \A m \in Leaves : m \notin {"crt.sh", "target_resolution", "nmap", "cpe_resolver", "cve"}
      /\ \A m \in Containers :
           m \notin Leaves \union {"crt.sh", "target_resolution", "nmap", "cpe_resolver", "cve"}
  BY Names DEF PipelineSources, ChainSources
<1>4. CASE n \in Leaves \union {"crt.sh"}
  <2>1. n \notin Containers /\ n \notin {"target_resolution", "nmap", "cpe_resolver", "cve"}
    BY <1>3, <1>4
  <2>2. SinglesReport' /\ ResolutionReports' /\ (~abandoned => ContainerReports)' /\ CpeReports'
        /\ CveReports'
    BY <1>1, <1>4, <2>1, SinglesMove, StepResolution, StepContainer, StepCpe, StepCve
  <2> QED BY <1>2, <2>2 DEF IInv
<1>5. CASE n = "target_resolution"
  <2>1. n \notin Leaves \union {"crt.sh"} \union Containers
    BY <1>3, <1>5
  <2>2. SinglesReport' /\ ResolutionReports' /\ (~abandoned => ContainerReports)' /\ CpeReports'
        /\ CveReports'
    BY <1>1, <1>5, <2>1, StepSingles, ResolutionMove, StepContainer, StepCpe
  <2> QED BY <1>2, <2>2 DEF IInv
<1>6. CASE n = "nmap"
  <2>1. n \notin Leaves \union {"crt.sh"} \union Containers
    BY <1>3, <1>6
  <2>2. SinglesReport' /\ ResolutionReports' /\ (~abandoned => ContainerReports)' /\ CpeReports'
        /\ CveReports'
    BY <1>1, <1>6, <2>1, StepSingles, StepResolution, NmapMove, StepCpe
  <2> QED BY <1>2, <2>2 DEF IInv
<1>7. CASE n \in Containers
  <2>1. n \notin Leaves \union {"crt.sh"} /\ n # "target_resolution" /\ n # "cpe_resolver"
    BY <1>3, <1>7
  <2>2. SinglesReport' /\ ResolutionReports' /\ (~abandoned => ContainerReports)' /\ CpeReports'
        /\ CveReports'
    BY <1>1, <1>7, <2>1, StepSingles, StepResolution, ContainerMove, StepCpe, StepCve
  <2> QED BY <1>2, <2>2 DEF IInv
<1>8. CASE n = "cpe_resolver"
  <2>1. n \notin Leaves \union {"crt.sh"} \union Containers
    BY <1>3, <1>8
  <2>2. SinglesReport' /\ ResolutionReports' /\ (~abandoned => ContainerReports)' /\ CpeReports'
        /\ CveReports'
    BY <1>1, <1>8, <2>1, StepSingles, StepResolution, StepContainer, CpeMove
  <2> QED BY <1>2, <2>2 DEF IInv
<1>9. CASE n = "cve"
  <2>1. n \notin Leaves \union {"crt.sh"} \union Containers
    BY <1>3, <1>9
  <2>2. SinglesReport' /\ ResolutionReports' /\ (~abandoned => ContainerReports)' /\ CpeReports'
        /\ CveReports'
    BY <1>1, <1>9, <2>1, StepSingles, StepResolution, StepContainer, StepCpe, CveMove
  <2> QED BY <1>2, <2>2 DEF IInv
<1> QED BY <1>4, <1>5, <1>6, <1>7, <1>8, <1>9, Names DEF ChainSources

-----------------------------------------------------------------------------
(* The start of the scan.                                                   *)

\* Some of the first tasks are queued, and nothing else happens to the tasks.
LEMMA QueuedJobs ==
  ASSUME job \in [Tasks -> Jobs], NEW names \in SUBSET Tasks
  PROVE  /\ Queued(names) \in [Tasks -> Jobs]
         /\ \A n \in Tasks \ names : Queued(names)[n] = job[n]
         /\ \A n \in names : Queued(names)[n].pc = "queued"
         /\ \A n \in Tasks : Queued(names)[n].script = job[n].script
<1>1. ASSUME NEW n \in Tasks
      PROVE  /\ [job[n] EXCEPT !.pc = "queued"] \in Jobs
             /\ [job[n] EXCEPT !.pc = "queued"].pc = "queued"
             /\ [job[n] EXCEPT !.pc = "queued"].script = job[n].script
  <2>1. job[n] \in Jobs
    OBVIOUS
  <2> QED BY <2>1 DEF Jobs, JobPc
<1> QED BY <1>1 DEF Queued

\* scan.phase2_full publishes the leaves and, last, crt.sh.
LEMMA StartSound ==
  ASSUME IInv, boot = "queued", boot' \in {"done", "failed"},
         NEW names \in SUBSET (Leaves \union {"crt.sh"}), job' = Queued(names),
         boot' = "done" => names = Leaves \union {"crt.sh"},
         scan' = scan \/ (scan' = "failed" /\ boot' = "failed" /\ names = {}),
         faults' \in 0..MaxFaults, faults' = 0 => faults = 0,
         UNCHANGED <<rows, attempt, authorised, abandoned>>
  PROVE  IInv'
<1>1. /\ Typed /\ StagesFollow /\ SinglesReport /\ ResolutionReports /\ CpeReports /\ CveReports
      /\ StatusIsTheRows /\ FaultlessIsComplete /\ (~abandoned => ContainerReports)
      /\ job \in [Tasks -> Jobs] /\ attempt \in Attempts
  BY DEF IInv, Typed, TypeOK
<1>2. names \subseteq Tasks /\ \A n \in Containers \union {"target_resolution", "nmap",
                                          "cpe_resolver", "cve"} : n \in Tasks \ names
  BY Names DEF PipelineSources, ChainSources
<1>3. /\ job' \in [Tasks -> Jobs]
      /\ \A n \in Tasks : Pc(n) = "absent"
      /\ \A n \in Tasks \ names : Pc(n)' = "absent"
      /\ \A n \in names : Pc(n)' = "queued"
  BY <1>1, <1>2, QueuedJobs DEF StagesFollow, Pc
<1>4. \A n \in Tasks : Pc(n)' \in {"absent", "queued"}
  BY <1>3
<1>5. /\ \A n \in Containers : Pc(n)' = "absent"
      /\ Pc("target_resolution")' = "absent" /\ Pc("nmap")' = "absent"
      /\ Pc("cpe_resolver")' = "absent" /\ Pc("cve")' = "absent"
      /\ \A a \in Attempts : Pc(Container[a])' = "absent"
  BY <1>2, <1>3, Names
<1>6. scan \notin TerminalStatus
  <2>1. rows["cpe_resolver"] = "none" /\ "cpe_resolver" \in Sources
    BY <1>1, <1>3, Names DEF CpeReports, NotBegun, ChainSources
  <2> QED BY <1>1, <2>1 DEF StatusIsTheRows, AllFinished, FinishedStatus
<1>7. Typed'
  <2>1. TypeOK'
    BY <1>1, <1>3 DEF Typed, TypeOK, Jobs, ScanStatus
  <2> QED BY <1>3, <1>4, <2>1 DEF Typed
<1>8. StagesFollow'
  BY <1>5 DEF StagesFollow
<1>9. SinglesReport'
  BY <1>1, <1>3, <1>4, Names DEF SinglesReport, NotBegun, ChainSources
<1>10. ResolutionReports'
  BY <1>1, <1>3, <1>5, Names DEF ResolutionReports
<1>11. (~abandoned => ContainerReports)'
  BY <1>1, <1>5 DEF ContainerReports
<1>12. CpeReports'
  BY <1>1, <1>3, <1>5, Names DEF CpeReports, NotBegun
<1>13. CveReports'
  BY <1>1, <1>3, <1>5, Names DEF CveReports, CveToCome, NotBegun
<1>14. StatusIsTheRows'
  BY <1>3, <1>6 DEF StatusIsTheRows
<1>15. FaultlessIsComplete'
  <2>1. boot' = "done" => \A n \in Leaves \union {"crt.sh"} : Pc(n)' = "queued"
    BY <1>3
  <2>2. Pc("crt.sh")' # "ended" /\ \A n \in Tasks : Pc(n)' # "crashed"
    BY <1>4, Names
  <2> QED BY <1>1, <1>5, <2>1, <2>2 DEF FaultlessIsComplete
<1>16. OthersExitWell'
  <2>1. \A n \in Tasks : job'[n].script = job[n].script
    BY <1>1, <1>2, QueuedJobs
  <2>2. OthersExitWell
    BY DEF IInv
  <2> QED BY <2>1, <2>2 DEF OthersExitWell
<1> QED
  BY <1>16, <1>7, <1>8, <1>9, <1>10, <1>11, <1>12, <1>13, <1>14, <1>15 DEF IInv

\* The three ways scan.phase2_full ends.
LEMMA BootSound ==
  ASSUME IInv, Bootstrap \/ BootstrapRefused \/ BootstrapDies
  PROVE  IInv'
<1>1. TypeOK /\ job \in [Tasks -> Jobs] /\ MaxFaults \in Nat /\ faults \in 0..MaxFaults
  BY ActiveAssumption DEF IInv, Typed, TypeOK
<1>2. Queued({}) = job
  BY <1>1 DEF Queued
<1>3. CASE Bootstrap
  BY <1>1, <1>3, StartSound DEF Bootstrap
<1>4. CASE BootstrapRefused
  <2>1. job' = Queued({})
    BY <1>2, <1>4 DEF BootstrapRefused
  <2> QED BY <1>1, <1>4, <2>1, StartSound DEF BootstrapRefused
<1>5. CASE BootstrapDies
  <2>1. PICK names \in SUBSET Leaves : job' = Queued(names)
    BY <1>5 DEF BootstrapDies
  <2> QED BY <1>1, <1>5, <2>1, StartSound DEF BootstrapDies, Fault
<1> QED BY <1>3, <1>4, <1>5

-----------------------------------------------------------------------------
(* nmap and its container.                                                  *)

\* A container is started for the attempt: the others have ended.
LEMMA BeginNmapSound ==
  ASSUME IInv, BeginNmap
  PROVE  IInv'
<1>1. /\ Typed /\ StagesFollow /\ SinglesReport /\ ResolutionReports /\ CpeReports /\ CveReports
      /\ StatusIsTheRows /\ FaultlessIsComplete /\ (~abandoned => ContainerReports)
      /\ TypeOK /\ job \in [Tasks -> Jobs] /\ attempt \in Attempts
  BY DEF IInv, Typed, TypeOK
<1> DEFINE c == Container[attempt]
<1>2. /\ UNCHANGED <<scan, rows, boot, attempt, authorised, abandoned, faults>>
      /\ Pc("nmap") = "queued"
      /\ job' = [job EXCEPT !["nmap"].pc = "waiting", ![c].pc = "queued"]
  BY DEF BeginNmap, Pc
<1>3. "nmap" \in Tasks /\ c \in Tasks /\ c # "nmap" /\ c \in Containers
      /\ \A n \in Leaves \union {"crt.sh", "target_resolution", "cpe_resolver", "cve"} :
           n \in Tasks /\ n # "nmap" /\ n \notin Containers
  BY <1>1, Names DEF PipelineSources, ChainSources
<1> HIDE DEF c
<1>4. /\ job'["nmap"] = [job["nmap"] EXCEPT !.pc = "waiting"]
      /\ job'[c] = [job[c] EXCEPT !.pc = "queued"]
      /\ \A n \in Tasks : n # "nmap" /\ n # c => job'[n] = job[n]
      /\ DOMAIN job' = Tasks
  BY <1>1, <1>2, <1>3
<1>5. /\ job'["nmap"] \in Jobs /\ job'[c] \in Jobs
      /\ job'["nmap"].pc = "waiting" /\ job'[c].pc = "queued"
      /\ job'["nmap"].script = job["nmap"].script
  <2>1. job["nmap"] \in Jobs /\ job[c] \in Jobs
    BY <1>1, <1>3
  <2> QED BY <1>4, <2>1 DEF Jobs, JobPc
<1>6. job' \in [Tasks -> Jobs]
  <2>1. \A n \in Tasks : job'[n] \in Jobs
    BY <1>1, <1>4, <1>5
  <2>2. job' = [n \in Tasks |-> job'[n]]
    BY <1>1, <1>2
  <2> QED BY <2>1, <2>2
<1>7. \A n \in Leaves \union {"crt.sh", "target_resolution", "cpe_resolver", "cve"} : job'[n] = job[n]
  BY <1>3, <1>4
<1>8. Pc("target_resolution") = "ended" /\ Pc("cpe_resolver") = "absent" /\ Pc("cve") = "absent"
  BY <1>1, <1>2, Names DEF StagesFollow
<1>9. Typed'
  <2>1. TypeOK'
    BY <1>1, <1>2, <1>6 DEF TypeOK, Jobs
  <2>2. ASSUME NEW n \in Tasks, Pc(n)' = "active"
        PROVE  Box(n)' \in Seq(Own(n)) /\ NextOf(n)' \in Follows(n)
    <3>1. job'[n] = job[n]
      BY <1>4, <1>5, <2>2 DEF Pc
    <3> QED BY <1>1, <2>2, <3>1 DEF Typed, Pc, Box, NextOf
  <2> QED BY <1>6, <2>1, <2>2 DEF Typed
<1>10. StagesFollow'
  BY <1>1, <1>2, <1>4, <1>5, <1>7, <1>8, Names DEF StagesFollow, Pc
<1>11. SinglesReport'
  BY <1>1, <1>2, <1>7 DEF SinglesReport, NotBegun, Pc, Box
<1>12. ResolutionReports'
  BY <1>1, <1>2, <1>5, <1>7 DEF ResolutionReports, Pc, Box, NextOf
<1>13. (~abandoned => ContainerReports)'
  <2>1. ASSUME ~abandoned PROVE ContainerReports'
    <3>1. \A a \in Attempts : Pc(Container[a]) \notin {"queued", "active"}
      BY <1>1, <1>2, <2>1 DEF ContainerReports
    <3>2. ASSUME NEW a \in Attempts, Pc(Container[a])' \in {"queued", "active"}
          PROVE  a = attempt
      <4>1. Container[a] \in Tasks /\ Container[a] # "nmap"
        BY Names DEF PipelineSources
      <4>2. Container[a] = c
        BY <1>4, <3>1, <3>2, <4>1 DEF Pc
      <4> QED BY <1>1, <4>2, Names DEF c
    <3> QED BY <1>2, <1>5, <1>7, <1>8, <3>2 DEF ContainerReports, Pc, c
  <2> QED BY <1>2, <2>1
<1>14. CpeReports'
  BY <1>1, <1>2, <1>7 DEF CpeReports, NotBegun, Pc, Box, NextOf
<1>15. CveReports'
  <2>1. CveToCome
    BY <1>2 DEF CveToCome
  <2> QED BY <1>1, <1>2, <1>5, <1>7, <2>1 DEF CveReports, NotBegun, Pc, Box, NextOf
<1>16. StatusIsTheRows'
  BY <1>1, <1>2, <1>3 DEF StatusIsTheRows
<1>17. FaultlessIsComplete'
  <2> SUFFICES ASSUME faults' = 0 PROVE FaultlessIsComplete'
    BY DEF FaultlessIsComplete
  <2>1. /\ \A n \in Tasks \ Containers : Pc(n)' # "crashed"
        /\ boot' = "done" => \A n \in Leaves \union {"crt.sh"} : Pc(n)' # "absent"
        /\ Pc("crt.sh")' = "ended" => Pc("target_resolution")' # "absent"
    BY <1>1, <1>2, <1>3, <1>4, <1>5, <1>7 DEF FaultlessIsComplete, Pc
  <2>2. /\ Pc("target_resolution")' = "ended" /\ Pc("nmap")' = "waiting"
        /\ Pc("cpe_resolver")' = "absent"
    BY <1>5, <1>7, <1>8 DEF Pc
  <2> QED BY <1>1, <1>2, <2>1, <2>2 DEF FaultlessIsComplete
<1>18. OthersExitWell'
  <2>1. OthersExitWell
    BY DEF IInv
  <2> QED BY <1>3, <1>4, <1>5, <2>1 DEF OthersExitWell
<1> QED
  BY <1>18, <1>9, <1>10, <1>11, <1>12, <1>13, <1>14, <1>15, <1>16, <1>17 DEF IInv

\* nmap, no longer waiting, has a script of its own: it resolves the versions, or
\* it reports the failure of the container.
LEMMA AfterTheContainer ==
  ASSUME IInv, Pc("nmap") = "waiting", NEW script,
         script = Script(<<>>, "cpe_resolver") \/ script = AfterFailedContainer
  PROVE  /\ script \in ScriptOf("nmap")
         /\ [pc |-> "active", script |-> script] \in Jobs
         /\ script.next = "cpe_resolver" => script.outbox = <<>>
         /\ script.next = "none" =>
              /\ \A p \in PipelineSources : Settles(script.outbox, p, {"failed"})
              /\ Settles(script.outbox, "cve", {"skipped"})
<1>1. /\ AfterFailedContainer \in ScriptOf("nmap") /\ AfterFailedContainer.next = "none"
      /\ \A p \in PipelineSources : Settles(AfterFailedContainer.outbox, p, {"failed"})
      /\ Settles(AfterFailedContainer.outbox, "cve", {"skipped"})
  <2>1. /\ AfterFailedContainer.outbox \in Seq(Own("nmap")) /\ AfterFailedContainer.next = "none"
        /\ AfterFailedContainer.ok = TRUE
        /\ \A p \in PipelineSources : Settles(AfterFailedContainer.outbox, p, {"failed"})
        /\ Settles(AfterFailedContainer.outbox, "cve", {"skipped"})
    BY FailureEnds
  <2>2. AfterFailedContainer = [outbox |-> AfterFailedContainer.outbox, next |-> "none", ok |-> TRUE]
    BY <2>1 DEF AfterFailedContainer, Script
  <2> HIDE DEF AfterFailedContainer
  <2>3. "none" \in Follows("nmap")
    BY Publishes
  <2> QED BY <2>1, <2>2, <2>3 DEF ScriptOf
<1>2. /\ Script(<<>>, "cpe_resolver") \in ScriptOf("nmap")
      /\ Script(<<>>, "cpe_resolver").outbox = <<>>
      /\ Script(<<>>, "cpe_resolver").next = "cpe_resolver"
  BY Publishes DEF ScriptOf, Script
<1> HIDE DEF AfterFailedContainer, Script
<1>3. script \in ScriptOf("nmap")
  BY <1>1, <1>2
<1>4. [pc |-> "active", script |-> script] \in Jobs
  BY <1>3, ScriptIsJob, Names
<1> QED BY <1>1, <1>2, <1>3, <1>4

\* nmap goes on: its container has exited, was never started or is given up.
LEMMA NmapGoesOn ==
  ASSUME IInv, Pc("nmap") = "waiting", NEW script,
         script = Script(<<>>, "cpe_resolver") \/ script = AfterFailedContainer,
         job' \in [Tasks -> Jobs],
         job'["nmap"] = [pc |-> "active", script |-> script],
         \A n \in Tasks : n # "nmap" /\ n # Container[attempt] => job'[n] = job[n],
         \/ job'[Container[attempt]] = job[Container[attempt]]
         \/ Pc(Container[attempt])' = "absent",
         script.next = "cpe_resolver" =>
           Pc(Container[attempt]) = "ended" /\ UNCHANGED abandoned,
         ~abandoned' => ~abandoned /\ Pc(Container[attempt])' \notin {"queued", "active"},
         abandoned' \in BOOLEAN, faults' \in 0..MaxFaults,
         faults' = 0 => faults = 0 /\ UNCHANGED abandoned,
         UNCHANGED <<scan, rows, boot, attempt, authorised>>
  PROVE  IInv'
<1>1. /\ Typed /\ StagesFollow /\ SinglesReport /\ ResolutionReports /\ CpeReports /\ CveReports
      /\ StatusIsTheRows /\ FaultlessIsComplete /\ (~abandoned => ContainerReports)
      /\ TypeOK /\ job \in [Tasks -> Jobs] /\ attempt \in Attempts
  BY DEF IInv, Typed, TypeOK
<1>2. /\ script \in ScriptOf("nmap")
      /\ script.next = "cpe_resolver" => script.outbox = <<>>
      /\ script.next = "none" => /\ \A p \in PipelineSources : Settles(script.outbox, p, {"failed"})
                                 /\ Settles(script.outbox, "cve", {"skipped"})
  BY AfterTheContainer
<1>3. /\ Pc("nmap")' = "active" /\ Box("nmap")' = script.outbox /\ NextOf("nmap")' = script.next
      /\ script.outbox \in Seq(Own("nmap")) /\ script.next \in Follows("nmap")
  BY <1>2 DEF Pc, Box, NextOf, ScriptOf
<1> HIDE DEF Script, AfterFailedContainer
<1> DEFINE c == Container[attempt]
<1>4. "nmap" \in Tasks /\ c \in Tasks /\ c # "nmap" /\ c \in Containers
      /\ \A n \in Leaves \union {"crt.sh", "target_resolution", "cpe_resolver", "cve"} :
           n \in Tasks /\ n # "nmap" /\ n \notin Containers
  BY <1>1, Names DEF PipelineSources, ChainSources
<1>5. \A n \in Leaves \union {"crt.sh", "target_resolution", "cpe_resolver", "cve"} : job'[n] = job[n]
  BY <1>4
<1>6. job'[c] = job[c] \/ Pc(c)' = "absent"
  OBVIOUS
<1>7. Pc("target_resolution") = "ended" /\ Pc("cpe_resolver") = "absent" /\ Pc("cve") = "absent"
  BY <1>1, Names DEF StagesFollow
<1>8. Typed'
  <2>1. TypeOK'
    BY <1>1 DEF TypeOK, Jobs
  <2>2. ASSUME NEW n \in Tasks, Pc(n)' = "active", n # "nmap"
        PROVE  Box(n)' \in Seq(Own(n)) /\ NextOf(n)' \in Follows(n)
    <3>1. job'[n] = job[n]
      BY <1>6, <2>2
    <3> QED BY <1>1, <2>2, <3>1 DEF Typed, Pc, Box, NextOf
  <2> QED BY <1>3, <2>1, <2>2 DEF Typed
<1>9. StagesFollow'
  <2>1. (boot = "queued" => \A n \in Tasks : Pc(n) = "absent")'
    BY <1>1, <1>4 DEF StagesFollow
  <2> QED BY <1>1, <1>3, <1>5, <1>7, <2>1 DEF StagesFollow, Pc
<1>10. SinglesReport'
  BY <1>1, <1>5 DEF SinglesReport, NotBegun, Pc, Box
<1>11. ResolutionReports'
  BY <1>1, <1>3, <1>5 DEF ResolutionReports, Pc, Box, NextOf
<1>12. (~abandoned => ContainerReports)'
  <2>1. ASSUME ~abandoned' PROVE ContainerReports'
    <3>1. ContainerReports /\ Pc(c)' \notin {"queued", "active"}
      BY <1>1, <2>1
    <3>2. ASSUME NEW a \in Attempts PROVE Pc(Container[a])' \notin {"queued", "active"}
      <4>1. Container[a] \in Tasks /\ Container[a] # "nmap"
        BY Names DEF PipelineSources
      <4>2. CASE Container[a] = c
        BY <3>1, <4>2
      <4>3. CASE Container[a] # c
        <5>1. a # attempt /\ job'[Container[a]] = job[Container[a]]
          BY <4>1, <4>3
        <5> QED BY <3>1, <5>1 DEF ContainerReports, Pc
      <4> QED BY <4>2, <4>3
    <3>3. script.next = "cpe_resolver" => AllReported'
      BY <3>1 DEF ContainerReports, AllReported
    <3> QED BY <1>1, <1>3, <1>5, <1>7, <3>2, <3>3 DEF ContainerReports, Pc
  <2> QED BY <2>1
<1>13. CpeReports'
  BY <1>1, <1>5 DEF CpeReports, NotBegun, Pc, Box, NextOf
<1>14. CveReports'
  <2>1. CveToCome
    BY DEF CveToCome
  <2> QED BY <1>1, <1>2, <1>3, <1>5, <1>7, <2>1 DEF CveReports, NotBegun, Pc
<1>15. StatusIsTheRows'
  BY <1>1, <1>4 DEF StatusIsTheRows
<1>16. FaultlessIsComplete'
  <2> SUFFICES ASSUME faults' = 0 PROVE FaultlessIsComplete'
    BY DEF FaultlessIsComplete
  <2>1. /\ \A n \in Leaves \union {"crt.sh", "target_resolution", "cpe_resolver", "cve"} :
             Pc(n)' = Pc(n)
        /\ \A n \in Tasks \ Containers : n # "nmap" => Pc(n)' = Pc(n)
    BY <1>4, <1>5 DEF Pc
  <2>2. /\ \A n \in Tasks \ Containers : Pc(n)' # "crashed"
        /\ boot' = "done" => \A n \in Leaves \union {"crt.sh"} : Pc(n)' # "absent"
        /\ Pc("crt.sh")' = "ended" => Pc("target_resolution")' # "absent"
    BY <1>1, <1>3, <2>1 DEF FaultlessIsComplete
  <2>3. NextOf("nmap")' = "none" =>
          /\ \A p \in PipelineSources : EndsIn(Box("nmap"), p, {"failed"})'
          /\ EndsIn(Box("nmap"), "cve", {"skipped"})'
    BY <1>2, <1>3 DEF EndsIn, Settles
  <2> QED BY <1>1, <1>3, <1>7, <2>1, <2>2, <2>3 DEF FaultlessIsComplete
<1>17. OthersExitWell'
  <2>1. OthersExitWell
    BY DEF IInv
  <2>2. job'["nmap"].script.ok
    <3>1. script.ok = TRUE
      BY FailureEnds DEF Script
    <3>2. job'["nmap"].script = script
      OBVIOUS
    <3> QED BY <3>1, <3>2, Zenon
  <2> QED BY <1>4, <2>1, <2>2 DEF OthersExitWell
<1> QED
  BY <1>17, <1>8, <1>9, <1>10, <1>11, <1>12, <1>13, <1>14, <1>15, <1>16 DEF IInv

\* The container's exit, or the end of the wait for it.
LEMMA NmapSound ==
  ASSUME IInv, ContainerReturns \/ DispatchFails
  PROVE  IInv'
<1> DEFINE c == Container[attempt]
<1>1. /\ TypeOK /\ job \in [Tasks -> Jobs] /\ attempt \in Attempts
      /\ MaxFaults \in Nat /\ faults \in 0..MaxFaults
  BY ActiveAssumption DEF IInv, Typed, TypeOK
<1>2. "nmap" \in Tasks /\ c \in Tasks /\ c # "nmap"
  BY <1>1, Names DEF PipelineSources
<1>3. Pc("nmap") = "waiting"
  BY DEF ContainerReturns, DispatchFails, Pc
<1> DEFINE Active(script) == [pc |-> "active", script |-> script]
<1>4. Active(AfterFailedContainer) \in Jobs /\ Active(Script(<<>>, "cpe_resolver")) \in Jobs
      /\ AfterFailedContainer.next = "none" /\ Script(<<>>, "cpe_resolver").next = "cpe_resolver"
  BY <1>3, AfterTheContainer, FailureEnds DEF Script
<1>5. CASE ContainerReturns /\ Pc(c) = "ended"
  <2>1. job' = [job EXCEPT !["nmap"] = Active(Script(<<>>, "cpe_resolver"))]
    BY <1>5 DEF ContainerReturns, Pc
  <2> HIDE DEF Script
  <2>2. job' \in [Tasks -> Jobs] /\ job'["nmap"] = Active(Script(<<>>, "cpe_resolver"))
        /\ \A n \in Tasks : n # "nmap" => job'[n] = job[n]
    BY <1>1, <1>2, <1>4, <2>1
  <2>3. Pc(c)' = "ended"
    BY <1>2, <1>5, <2>2 DEF Pc, ContainerReturns
  <2>4. UNCHANGED <<scan, rows, boot, attempt, authorised, abandoned, faults>>
    BY <1>5 DEF ContainerReturns
  <2> QED BY <1>1, <1>2, <1>3, <1>5, <2>2, <2>3, <2>4, NmapGoesOn DEF TypeOK
<1>6. CASE ContainerReturns /\ Pc(c) # "ended"
  <2>1. job' = [job EXCEPT !["nmap"] = Active(AfterFailedContainer)] /\ Pc(c) = "crashed"
    BY <1>6 DEF ContainerReturns, Pc
  <2> HIDE DEF AfterFailedContainer
  <2>2. job' \in [Tasks -> Jobs] /\ job'["nmap"] = Active(AfterFailedContainer)
        /\ \A n \in Tasks : n # "nmap" => job'[n] = job[n]
    BY <1>1, <1>2, <1>4, <2>1
  <2>3. Pc(c)' = "crashed"
    BY <1>2, <1>6, <2>1, <2>2 DEF Pc, ContainerReturns
  <2>4. UNCHANGED <<scan, rows, boot, attempt, authorised, abandoned, faults>>
    BY <1>6 DEF ContainerReturns
  <2> QED BY <1>1, <1>2, <1>3, <1>4, <2>2, <2>3, <2>4, NmapGoesOn DEF TypeOK
<1>7. CASE DispatchFails
  <2>1. faults' \in 0..MaxFaults /\ faults' # 0
        /\ UNCHANGED <<scan, rows, boot, attempt, authorised>>
    BY <1>1, <1>7 DEF DispatchFails, Fault
  <2>2. CASE /\ Pc(c) = "queued" /\ UNCHANGED abandoned
             /\ job' = [job EXCEPT !["nmap"] = Active(AfterFailedContainer), ![c].pc = "absent"]
    <3> HIDE DEF AfterFailedContainer
    <3>1. /\ job'["nmap"] = Active(AfterFailedContainer)
          /\ job'[c] = [job[c] EXCEPT !.pc = "absent"]
          /\ \A n \in Tasks : n # "nmap" /\ n # c => job'[n] = job[n]
          /\ DOMAIN job' = Tasks /\ job' = [n \in Tasks |-> job'[n]]
      BY <1>1, <1>2, <2>2
    <3>2. job'[c] \in Jobs /\ Pc(c)' = "absent"
      <4>1. job[c] \in Jobs
        BY <1>1, <1>2
      <4>2. job'[c] \in Jobs /\ job'[c].pc = "absent"
        BY <3>1, <4>1 DEF Jobs, JobPc
      <4> QED BY <2>1, <4>2 DEF Pc
    <3>3. job' \in [Tasks -> Jobs]
      <4>1. \A n \in Tasks : job'[n] \in Jobs
        BY <1>1, <1>4, <3>1, <3>2
      <4> QED BY <3>1, <4>1
    <3> QED BY <1>1, <1>3, <1>4, <2>1, <2>2, <3>1, <3>2, <3>3, NmapGoesOn DEF TypeOK
  <2>3. CASE abandoned' = TRUE /\ job' = [job EXCEPT !["nmap"] = Active(AfterFailedContainer)]
    <3> HIDE DEF AfterFailedContainer
    <3>1. job' \in [Tasks -> Jobs] /\ job'["nmap"] = Active(AfterFailedContainer)
          /\ \A n \in Tasks : n # "nmap" => job'[n] = job[n]
      BY <1>1, <1>2, <1>4, <2>3
    <3> QED BY <1>1, <1>2, <1>3, <1>4, <2>1, <2>3, <3>1, NmapGoesOn DEF TypeOK
  <2> QED BY <1>7, <2>2, <2>3 DEF DispatchFails, Pc
<1> QED BY <1>5, <1>6, <1>7

-----------------------------------------------------------------------------
(* The end of a task.                                                       *)

\* n is over, the task it publishes is queued for the first time, and nothing
\* else changes.
LEMMA Ended ==
  ASSUME IInv, NEW n \in Tasks, End(n)
  PROVE  /\ UNCHANGED <<scan, rows, boot, attempt, authorised, abandoned, faults>>
         /\ job' \in [Tasks -> Jobs] /\ \A m \in Tasks : job'[m].script = job[m].script
         /\ Pc(n) = "active" /\ Box(n) = <<>> /\ NextOf(n) \in Follows(n)
         /\ Pc(n)' = IF job[n].script.ok THEN "ended" ELSE "crashed"
         /\ n \notin Containers => Pc(n)' = "ended"
         /\ \A m \in Tasks : m # n /\ m # NextOf(n) => job'[m] = job[m]
         /\ NextOf(n) # "none" =>
              /\ NextOf(n) \in {"target_resolution", "nmap", "cpe_resolver", "cve"} /\ NextOf(n) # n
              /\ Pc(NextOf(n)) = "absent" /\ job'[NextOf(n)].pc = "queued"
<1>1. /\ Typed /\ StagesFollow /\ OthersExitWell /\ job \in [Tasks -> Jobs] /\ job[n] \in Jobs
  BY DEF IInv, Typed
<1>2. /\ UNCHANGED <<scan, rows, boot, attempt, authorised, abandoned, faults>>
      /\ Pc(n) = "active" /\ Box(n) = <<>> /\ NextOf(n) \in Follows(n)
  BY <1>1 DEF End, Typed, Pc, Box
<1> DEFINE next == NextOf(n)
           status == IF job[n].script.ok THEN "ended" ELSE "crashed"
<1>3. next # "none" =>
        /\ next \in {"target_resolution", "nmap", "cpe_resolver", "cve"} /\ next # n
        /\ next \in Tasks /\ Pc(next) = "absent"
  <2>1. CASE n \in Leaves \union Containers \union {"cve"}
    BY <1>2, <2>1, Publishes
  <2>2. CASE n = "crt.sh"
    BY <1>1, <1>2, <2>2, Publishes, Names DEF StagesFollow
  <2>3. CASE n = "target_resolution"
    BY <1>1, <1>2, <2>3, Publishes, Names DEF StagesFollow
  <2>4. CASE n = "nmap"
    BY <1>1, <1>2, <2>4, Publishes, Names DEF StagesFollow
  <2>5. CASE n = "cpe_resolver"
    BY <1>1, <1>2, <2>5, Publishes, Names DEF StagesFollow
  <2> QED BY <2>1, <2>2, <2>3, <2>4, <2>5, Names DEF ChainSources
<1>4. job' = [m \in Tasks |-> IF m = n THEN [job[n] EXCEPT !.pc = status]
                              ELSE IF m = next THEN [job[m] EXCEPT !.pc = "queued"]
                              ELSE job[m]]
  BY DEF End, NextOf
<1> HIDE DEF next
<1>5. ASSUME NEW m \in Tasks, NEW pc \in JobPc
      PROVE  /\ [job[m] EXCEPT !.pc = pc] \in Jobs
             /\ [job[m] EXCEPT !.pc = pc].pc = pc
             /\ [job[m] EXCEPT !.pc = pc].script = job[m].script
  <2>1. job[m] \in Jobs
    BY <1>1
  <2> QED BY <2>1 DEF Jobs
<1>6. status \in JobPc /\ "queued" \in JobPc
  BY DEF JobPc
<1>7. job'[n] = [job[n] EXCEPT !.pc = status]
  BY <1>4
<1>8. \A m \in Tasks : m # n /\ m # next => job'[m] = job[m]
  BY <1>4
<1>9. next # "none" => job'[next] = [job[next] EXCEPT !.pc = "queued"]
  BY <1>3, <1>4
<1> HIDE DEF status
<1>10. job' \in [Tasks -> Jobs] /\ \A m \in Tasks : job'[m].script = job[m].script
  <2>1. ASSUME NEW m \in Tasks PROVE job'[m] \in Jobs /\ job'[m].script = job[m].script
    <3>1. CASE m = n
      <4>1. /\ [job[n] EXCEPT !.pc = status] \in Jobs
            /\ [job[n] EXCEPT !.pc = status].script = job[n].script
        BY <1>5, <1>6
      <4> QED BY <1>7, <3>1, <4>1
    <3>2. CASE m # n /\ m = next
      <4>1. job'[m] = [job[m] EXCEPT !.pc = "queued"]
        BY <1>4, <3>2
      <4> QED BY <1>5, <1>6, <4>1
    <3>3. CASE m # n /\ m # next
      BY <1>1, <1>8, <3>3
    <3> QED BY <3>1, <3>2, <3>3
  <2>2. job' = [m \in Tasks |-> job'[m]]
    BY <1>4
  <2> QED BY <2>1, <2>2
<1>11. Pc(n)' = status
  BY <1>5, <1>6, <1>7 DEF Pc
<1>12. next # "none" => job'[next].pc = "queued"
  BY <1>3, <1>5, <1>6, <1>9
<1>13. n \notin Containers => status = "ended"
  BY <1>1 DEF OthersExitWell, status
<1> QED BY <1>2, <1>3, <1>8, <1>10, <1>11, <1>12, <1>13 DEF next, status

\* The end of a task leaves the next stage what it relies on.
LEMMA EndSound ==
  ASSUME IInv, NEW n \in Tasks, End(n)
  PROVE  IInv'
<1> DEFINE tr == "target_resolution"
           cpe == "cpe_resolver"
           next == NextOf(n)
<1>1. /\ Typed /\ StagesFollow /\ SinglesReport /\ ResolutionReports /\ CpeReports /\ CveReports
      /\ OthersExitWell /\ StatusIsTheRows /\ FaultlessIsComplete
      /\ (~abandoned => ContainerReports)
      /\ TypeOK /\ attempt \in Attempts
  BY DEF IInv, Typed, TypeOK
<1>2. /\ UNCHANGED <<scan, rows, boot, attempt, authorised, abandoned, faults>>
      /\ job' \in [Tasks -> Jobs] /\ \A m \in Tasks : job'[m].script = job[m].script
      /\ Pc(n) = "active" /\ Box(n) = <<>> /\ next \in Follows(n)
      /\ n \notin Containers => Pc(n)' = "ended"
      /\ Pc(n)' = IF job[n].script.ok THEN "ended" ELSE "crashed"
      /\ next # "none" => /\ next \in {tr, "nmap", cpe, "cve"} /\ next # n
                          /\ Pc(next) = "absent" /\ job'[next].pc = "queued"
  BY Ended
<1>3. \A m \in Tasks : Box(m)' = Box(m) /\ NextOf(m)' = NextOf(m)
  BY <1>2 DEF Box, NextOf
<1>4. \A m \in Tasks : m # n /\ m # next => Pc(m)' = Pc(m)
  BY Ended DEF Pc
<1>5. \A m \in Tasks : m = next => Pc(m)' = "queued" /\ Pc(m) = "absent" /\ m # n
  BY <1>2, Names DEF Pc
<1>6. Pc(n)' \in {"ended", "crashed"}
  BY <1>2
<1>7. /\ \A m \in Leaves \union {"crt.sh"} \union Containers : m \in Tasks /\ m # next
      /\ tr \in Tasks /\ "nmap" \in Tasks /\ cpe \in Tasks /\ "cve" \in Tasks
      /\ {"crt.sh", tr, "nmap", cpe, "cve"} \intersect Containers = {}
  BY <1>2, Names DEF PipelineSources, ChainSources
<1>8. /\ n \in Leaves \union Containers \union {"cve"} => next = "none"
      /\ n = "crt.sh" => next = tr
      /\ n = tr => next \in {"nmap", "none"}
      /\ n = "nmap" => next \in {cpe, "none"}
      /\ n = cpe => next \in {"cve", "none"}
      /\ n \in Leaves \union Containers \union {"crt.sh", tr, "nmap", cpe, "cve"}
  BY <1>2, Publishes, Names DEF ChainSources
<1> HIDE DEF next
<1>9. ASSUME NEW m \in Tasks, Pc(m)' \notin {"queued", "ended", "crashed"}
      PROVE  m # n /\ m # next /\ Pc(m) = Pc(m)'
  BY <1>4, <1>5, <1>6, <1>9
<1>10. Typed'
  <2>1. TypeOK'
    BY <1>1, <1>2 DEF TypeOK, Jobs
  <2>2. ASSUME NEW m \in Tasks, Pc(m)' = "active"
        PROVE  Box(m)' \in Seq(Own(m)) /\ NextOf(m)' \in Follows(m)
    BY <1>1, <1>3, <1>9, <2>2 DEF Typed
  <2> QED BY <1>2, <2>1, <2>2 DEF Typed
<1>11. OthersExitWell'
  BY <1>1, <1>2 DEF OthersExitWell
<1>12. StagesFollow'
  <2>1. boot' # "queued"
    BY <1>1, <1>2 DEF StagesFollow
  <2>2. Pc(tr)' # "absent" => Pc("crt.sh")' = "ended"
    BY <1>1, <1>2, <1>4, <1>5, <1>6, <1>7, <1>8, Names DEF StagesFollow
  <2>3. Pc("nmap")' # "absent" => Pc(tr)' = "ended"
    BY <1>1, <1>2, <1>4, <1>5, <1>6, <1>7, <1>8, Names DEF StagesFollow
  <2>4. Pc("nmap")' # "absent" => rows'[tr] = "completed"
    <3>1. next = "nmap" => n = tr
      BY <1>2, <1>8, Names
    <3>2. next = "nmap" => rows[tr] = "completed"
      BY <1>1, <1>2, <3>1, Tail1, Tail2, Zenon DEF ResolutionReports, next
    <3> QED BY <1>1, <1>2, <1>4, <1>6, <1>7, <3>2 DEF StagesFollow
  <2>5. Pc("nmap")' = "absent" => \A c \in Containers : Pc(c)' = "absent"
    BY <1>1, <1>2, <1>4, <1>7, <1>9 DEF StagesFollow
  <2>6. Pc(cpe)' # "absent" => Pc("nmap")' = "ended"
    BY <1>1, <1>2, <1>4, <1>5, <1>6, <1>7, <1>8, Names DEF StagesFollow
  <2>7. Pc("cve")' # "absent" => Pc(cpe)' = "ended"
    BY <1>1, <1>2, <1>4, <1>5, <1>6, <1>7, <1>8, Names DEF StagesFollow
  <2>8. Pc("cve")' # "absent" => rows'[cpe] = "completed"
    <3>1. next = "cve" => n = cpe
      BY <1>2, <1>8, Names
    <3>2. next = "cve" => rows[cpe] = "completed"
      BY <1>1, <1>2, <3>1, Tail1, Tail2, Tail3, Zenon DEF CpeReports, next
    <3> QED BY <1>1, <1>2, <1>4, <1>6, <1>7, <3>2 DEF StagesFollow
  <2> QED BY <2>1, <2>2, <2>3, <2>4, <2>5, <2>6, <2>7, <2>8 DEF StagesFollow
<1>13. SinglesReport'
  <2>1. ASSUME NEW m \in Leaves \union {"crt.sh"}, Pc(m)' = "ended" PROVE rows'[m] \in Outcome
    <3>1. CASE m = n
      <4>1. \A o : <<Hint(m, "running"), Call(m, o)>> # <<>> /\ <<Call(m, o)>> # <<>>
        BY Tail1, Tail2, Zenon
      <4>2. Pc(m) = "active" /\ Box(m) = <<>>
        BY <1>2, <3>1
      <4>3. rows[m] \in Outcome
        BY <1>1, <4>1, <4>2, Zenon DEF SinglesReport
      <4> QED BY <1>2, <4>3
    <3>2. CASE m # n
      BY <1>1, <1>2, <1>4, <1>7, <2>1, <3>2 DEF SinglesReport
    <3> QED BY <3>1, <3>2
  <2>2. ASSUME NEW m \in Leaves \union {"crt.sh"}, NotBegun(m)' PROVE rows'[m] = "none"
    BY <1>1, <1>2, <1>4, <1>6, <1>7, <2>2 DEF SinglesReport, NotBegun
  <2>3. ASSUME NEW m \in Leaves \union {"crt.sh"}, Pc(m)' = "active"
        PROVE  \/ /\ rows'[m] \in {"none", "running"}
                  /\ \E o \in Outcome :
                       Box(m)' \in {<<Hint(m, "running"), Call(m, o)>>, <<Call(m, o)>>}
               \/ rows'[m] \in Outcome /\ Box(m)' = <<>>
    BY <1>1, <1>2, <1>3, <1>7, <1>9, <2>3 DEF SinglesReport
  <2> QED BY <2>1, <2>2, <2>3 DEF SinglesReport
<1>14. ResolutionReports'
  <2>1. Pc("nmap")' = "absent" => Pc("nmap") = "absent"
    BY <1>7, <1>9
  <2>2. Pc(tr)' = "active" => Pc(tr) = "active"
    BY <1>7, <1>9
  <2> QED BY <1>1, <1>2, <1>3, <1>7, <2>1, <2>2 DEF ResolutionReports
<1>15. (~abandoned => ContainerReports)'
  <2> SUFFICES ASSUME ~abandoned PROVE ContainerReports'
    BY <1>2
  <2>1. ContainerReports /\ (AllReported' <=> AllReported)
    BY <1>1, <1>2 DEF AllReported
  <2>2. ASSUME NEW a \in Attempts, Pc(Container[a])' \in {"queued", "active"}
        PROVE  a = attempt' /\ Pc("nmap")' \in {"waiting", "crashed"}
    <3>1. Container[a] \in Containers /\ Container[a] \in Tasks
      BY Names
    <3>2. Pc(Container[a]) \in {"queued", "active"}
      BY <1>4, <1>6, <1>7, <2>2, <3>1
    <3>3. a = attempt /\ Pc("nmap") \in {"waiting", "crashed"}
      BY <2>1, <3>2 DEF ContainerReports
    <3> QED BY <1>2, <1>4, <1>5, <1>7, <3>3
  <2> DEFINE c == Container[attempt]
  <2>3. c \in Containers /\ c \in Tasks /\ c # next /\ attempt' = attempt
    BY <1>1, <1>2, <1>7, Names
  <2>4. ASSUME job'[c].pc = "active", job'[c].script.ok
        PROVE  /\ \A k \in DOMAIN job'[c].script.outbox : job'[c].script.outbox[k].strict
               /\ \A p \in PipelineSources : EndsIn(job[c].script.outbox, p, FinishedStatus)
    <3>1. Pc(c) = "active" /\ job[c].script.ok /\ job'[c] = job[c]
      BY <1>6, <2>3, <2>4, Ended DEF Pc, next
    <3> QED BY <2>1, <3>1 DEF ContainerReports, Box
  <2>5. (Pc(Container[attempt]) = "active" /\ job[Container[attempt]].script.ok =>
           /\ \A k \in DOMAIN Box(Container[attempt]) : Box(Container[attempt])[k].strict
           /\ \A p \in PipelineSources : EndsIn(Box(Container[attempt]), p, FinishedStatus))'
    BY <1>2, <2>3, <2>4 DEF Pc, Box, EndsIn
  <2>6. ASSUME Pc("nmap")' = "waiting", job'[c].pc = "ended" PROVE AllReported
    <3>1. Pc("nmap") = "waiting"
      BY <1>7, <1>9, <2>6
    <3>2. CASE c = n
      <4>1. job[c].script.ok /\ Pc(c) = "active" /\ Box(c) = <<>>
        BY <1>2, <2>6, <3>2 DEF Pc
      <4>2. \A p \in PipelineSources : EndsIn(<<>>, p, FinishedStatus)
        BY <2>1, <4>1 DEF ContainerReports
      <4> QED BY <4>2, Undisturbed DEF AllReported
    <3>3. CASE c # n
      BY <1>4, <2>1, <2>3, <2>6, <3>1, <3>3 DEF ContainerReports, Pc
    <3> QED BY <3>2, <3>3
  <2>7. (Pc("nmap") = "waiting" /\ Pc(Container[attempt]) = "ended" => AllReported)'
    BY <2>1, <2>3, <2>6 DEF Pc
  <2>8. (Pc("nmap") = "active" /\ NextOf("nmap") = "cpe_resolver" => AllReported)'
    BY <1>3, <1>7, <1>9, <2>1 DEF ContainerReports
  <2>9. (Pc("cpe_resolver") # "absent" => AllReported)'
    <3>1. next = cpe => n = "nmap"
      BY <1>2, <1>8, Names
    <3>2. next = cpe => AllReported
      BY <1>2, <2>1, <3>1 DEF ContainerReports, next
    <3>3. n = cpe => AllReported
      BY <1>2, <2>1 DEF ContainerReports
    <3> QED BY <1>4, <1>7, <2>1, <3>2, <3>3 DEF ContainerReports
  <2> QED BY <2>2, <2>5, <2>7, <2>8, <2>9 DEF ContainerReports
<1>16. CpeReports'
  <2>1. NotBegun(cpe)' => NotBegun(cpe)
    BY <1>4, <1>5, <1>6, <1>7 DEF NotBegun
  <2>2. Pc(cpe)' = "active" => Pc(cpe) = "active"
    BY <1>7, <1>9
  <2> QED BY <1>1, <1>2, <1>3, <1>7, <2>1, <2>2 DEF CpeReports
<1>17. CveReports'
  <2>1. /\ NotBegun("cve")' => NotBegun("cve")
        /\ Pc("nmap")' = "active" => Pc("nmap") = "active"
        /\ Pc(cpe)' = "absent" => Pc(cpe) = "absent"
        /\ Pc("cve")' = "active" => Pc("cve") = "active"
    BY <1>4, <1>5, <1>6, <1>7 DEF NotBegun
  <2>2. CveToCome' => CveToCome
    <3>1. Pc(tr)' \in {"absent", "queued"} => Pc(tr) \in {"absent", "queued"}
      BY <1>4, <1>5, <1>6, <1>7
    <3>2. Pc(tr)' = "active" => Pc(tr) = "active"
      BY <1>7, <1>9
    <3>3. next = "nmap" => n = tr
      BY <1>2, <1>8, Names
    <3>4. Pc("nmap")' \in {"queued", "waiting"} =>
            \/ Pc("nmap") \in {"queued", "waiting"}
            \/ Pc(tr) = "active" /\ NextOf(tr) = "nmap"
      BY <1>2, <1>4, <1>6, <1>7, <3>3 DEF next
    <3>5. next = cpe => n = "nmap"
      BY <1>2, <1>8, Names
    <3>6. Pc(cpe)' = "queued" =>
            Pc(cpe) = "queued" \/ (Pc("nmap") = "active" /\ NextOf("nmap") = cpe)
      BY <1>2, <1>4, <1>6, <1>7, <3>5 DEF next
    <3>7. Pc(cpe)' = "active" => Pc(cpe) = "active"
      BY <1>7, <1>9
    <3>8. next = "cve" => n = cpe
      BY <1>2, <1>8, Names
    <3>9. Pc("cve")' = "queued" =>
            Pc("cve") = "queued" \/ (Pc(cpe) = "active" /\ NextOf(cpe) = "cve")
      BY <1>2, <1>4, <1>6, <1>7, <3>8 DEF next
    <3> QED
      BY <1>3, <1>7, <2>1, <3>1, <3>2, <3>4, <3>6, <3>7, <3>9 DEF CveToCome
  <2>3. Pc("cve")' = "ended" => rows'["cve"] \in Outcome
    <3>1. n = "cve" => rows["cve"] \in Outcome
      BY <1>1, <1>2, Tail1, Tail2, Zenon DEF CveReports
    <3>2. n # "cve" /\ Pc("cve")' = "ended" => Pc("cve") = "ended"
      BY <1>4, <1>5, <1>7
    <3> QED BY <1>1, <1>2, <3>1, <3>2 DEF CveReports
  <2> QED BY <1>1, <1>2, <1>3, <1>7, <2>1, <2>2, <2>3 DEF CveReports
<1>18. StatusIsTheRows'
  BY <1>1, <1>2 DEF StatusIsTheRows
<1>19. FaultlessIsComplete'
  <2> SUFFICES ASSUME faults = 0 PROVE FaultlessIsComplete'
    BY <1>2 DEF FaultlessIsComplete
  <2>1. ~abandoned /\ \A m \in Tasks \ Containers : Pc(m)' # "crashed"
    BY <1>1, <1>2, <1>4, <1>5 DEF FaultlessIsComplete
  <2>2. boot' = "done" => \A m \in Leaves \union {"crt.sh"} : Pc(m)' # "absent"
    BY <1>1, <1>2, <1>4, <1>6, <1>7 DEF FaultlessIsComplete
  <2>3. Pc("crt.sh")' = "ended" => Pc(tr)' # "absent"
    <3>1. n = "crt.sh" => next = tr
      BY <1>8
    <3>2. next = tr => Pc(tr)' = "queued"
      BY <1>5, <1>7
    <3>3. n # "crt.sh" /\ Pc("crt.sh")' = "ended" => Pc("crt.sh") = "ended"
      BY <1>4, <1>7, Names
    <3>4. Pc(tr)' = "absent" => Pc(tr) = "absent"
      BY <1>7, <1>9
    <3> QED BY <1>1, <3>1, <3>2, <3>3, <3>4 DEF FaultlessIsComplete
  <2>4. ASSUME Pc(tr)' = "active", NextOf(tr)' = "none"
        PROVE  /\ EndsIn(Box(tr), tr, {"failed"})'
               /\ \A s \in PipelineSources \union {"cve"} : EndsIn(Box(tr), s, {"skipped"})'
    <3>1. Pc(tr) = "active" /\ NextOf(tr) = "none" /\ Box(tr)' = Box(tr)
      BY <1>3, <1>7, <1>9, <2>4
    <3> QED BY <1>1, <1>2, <3>1 DEF FaultlessIsComplete, EndsIn
  <2>5. ASSUME Pc(tr)' = "ended", Pc("nmap")' = "absent"
        PROVE  rows[tr] = "failed" /\ \A s \in PipelineSources \union {"cve"} : rows[s] = "skipped"
    <3>1. Pc("nmap") = "absent" /\ next # "nmap"
      BY <1>5, <1>7, <1>9, <2>5
    <3>2. CASE n = tr
      <4>1. Pc(tr) = "active" /\ NextOf(tr) = "none" /\ Box(tr) = <<>>
        BY <1>2, <1>8, <3>1, <3>2 DEF next
      <4>2. /\ EndsIn(<<>>, tr, {"failed"})
            /\ \A s \in PipelineSources \union {"cve"} : EndsIn(<<>>, s, {"skipped"})
        BY <1>1, <4>1 DEF FaultlessIsComplete
      <4> QED BY <4>2, Undisturbed
    <3>3. CASE n # tr
      BY <1>1, <1>4, <1>5, <1>7, <2>5, <3>1, <3>3 DEF FaultlessIsComplete
    <3> QED BY <3>2, <3>3
  <2>6. ASSUME Pc("nmap")' = "active", NextOf("nmap")' = "none"
        PROVE  /\ \A p \in PipelineSources : EndsIn(Box("nmap"), p, {"failed"})'
               /\ EndsIn(Box("nmap"), "cve", {"skipped"})'
    <3>1. Pc("nmap") = "active" /\ NextOf("nmap") = "none" /\ Box("nmap")' = Box("nmap")
      BY <1>3, <1>7, <1>9, <2>6
    <3> QED BY <1>1, <1>2, <3>1 DEF FaultlessIsComplete, EndsIn
  <2>7. ASSUME Pc("nmap")' = "ended", Pc(cpe)' = "absent"
        PROVE  (\A p \in PipelineSources : rows[p] = "failed") /\ rows["cve"] = "skipped"
    <3>1. Pc(cpe) = "absent" /\ next # cpe
      BY <1>5, <1>7, <1>9, <2>7
    <3>2. CASE n = "nmap"
      <4>1. Pc("nmap") = "active" /\ NextOf("nmap") = "none" /\ Box("nmap") = <<>>
        BY <1>2, <1>8, <3>1, <3>2 DEF next
      <4>2. /\ \A p \in PipelineSources : EndsIn(<<>>, p, {"failed"})
            /\ EndsIn(<<>>, "cve", {"skipped"})
        BY <1>1, <4>1 DEF FaultlessIsComplete
      <4> QED BY <4>2, Undisturbed
    <3>3. CASE n # "nmap"
      BY <1>1, <1>4, <1>5, <1>7, <2>7, <3>1, <3>3 DEF FaultlessIsComplete
    <3> QED BY <3>2, <3>3
  <2>8. Pc(cpe)' = "active" /\ NextOf(cpe)' = "none" /\ Box(cpe)' = <<>> => rows["cve"] = "failed"
    BY <1>1, <1>3, <1>7, <1>9 DEF FaultlessIsComplete
  <2>9. ASSUME Pc(cpe)' = "ended", Pc("cve")' = "absent"
        PROVE  rows[cpe] = "failed" /\ rows["cve"] = "failed"
    <3>1. Pc("cve") = "absent" /\ next # "cve"
      BY <1>5, <1>7, <1>9, <2>9
    <3>2. CASE n = cpe
      <4>1. Pc(cpe) = "active" /\ NextOf(cpe) = "none" /\ Box(cpe) = <<>>
        BY <1>2, <1>8, <3>1, <3>2 DEF next
      <4>2. rows[cpe] = "failed"
        <5>1. /\ <<Hint("cve", "running"), Call(cpe, "failed"), Hint("cve", "failed")>> # <<>>
              /\ <<Call(cpe, "failed"), Hint("cve", "failed")>> # <<>>
          BY Tail2, Tail3, Zenon
        <5> QED BY <1>1, <4>1, <5>1 DEF CpeReports
      <4> QED BY <1>1, <4>1, <4>2 DEF FaultlessIsComplete
    <3>3. CASE n # cpe
      BY <1>1, <1>4, <1>5, <1>7, <2>9, <3>1, <3>3 DEF FaultlessIsComplete
    <3> QED BY <3>2, <3>3
  <2> HIDE DEF tr, cpe
  <2> QED
    BY <1>2, <2>1, <2>2, <2>3, <2>4, <2>5, <2>6, <2>7, <2>8, <2>9
    DEF FaultlessIsComplete, tr, cpe
<1> QED
  BY <1>10, <1>11, <1>12, <1>13, <1>14, <1>15, <1>16, <1>17, <1>18, <1>19 DEF IInv

-----------------------------------------------------------------------------
(* The chain is correct.                                                    *)

\* Nothing has begun and no row exists.
LEMMA InitSound == Init => IInv
<1> SUFFICES ASSUME Init PROVE IInv
  OBVIOUS
<1>1. /\ scan = "queued" /\ rows = [s \in Sources |-> "none"] /\ boot = "queued"
      /\ job = [n \in Tasks |-> Idle] /\ attempt = 1 /\ authorised = TRUE
      /\ abandoned = FALSE /\ faults = 0 /\ MaxFaults \in Nat
  BY ActiveAssumption DEF Init
<1>2. Idle \in Jobs /\ Idle.pc = "absent" /\ Idle.script.ok = TRUE
  BY DEF Idle, Script, Jobs, JobPc
<1> HIDE DEF Idle
<1>3. /\ \A n \in Tasks : Pc(n) = "absent" /\ job[n].script.ok = TRUE
      /\ job \in [Tasks -> Jobs]
      /\ \A s \in Sources : rows[s] = "none"
      /\ \A a \in Attempts : Pc(Container[a]) = "absent"
  BY <1>1, <1>2, Names DEF Pc
<1>4. Typed
  <2>1. TypeOK
    <3>1. rows \in Rows
      BY <1>1 DEF Rows, SourceStatus
    <3>2. \A n \in Tasks : job[n].pc \in JobPc /\ job[n].script.next \in Tasks \union {"none"}
      BY <1>3 DEF Jobs
    <3>3. scan \in ScanStatus /\ attempt \in Attempts /\ faults \in 0..MaxFaults
      BY <1>1 DEF ScanStatus, Attempts, MaxRetries
    <3> QED BY <1>1, <1>3, <3>1, <3>2, <3>3 DEF TypeOK
  <2> QED BY <1>3, <2>1 DEF Typed
<1>5. OthersExitWell
  BY <1>3, Zenon DEF OthersExitWell
<1>6. StagesFollow /\ ResolutionReports
  BY <1>3, Names DEF StagesFollow, ResolutionReports
<1>7. SinglesReport /\ CpeReports /\ CveReports
  BY <1>3, Names DEF SinglesReport, CpeReports, CveReports, NotBegun, ChainSources
<1>8. ContainerReports
  BY <1>1, <1>3, Names DEF ContainerReports, Attempts, MaxRetries
<1>9. StatusIsTheRows
  BY <1>1 DEF StatusIsTheRows, TerminalStatus
<1>10. FaultlessIsComplete
  BY <1>1, <1>3, Names DEF FaultlessIsComplete
<1> QED BY <1>4, <1>5, <1>6, <1>7, <1>8, <1>9, <1>10 DEF IInv

\* A step that touches nothing but the grant.
LEMMA RestSound ==
  ASSUME IInv, UNCHANGED <<scan, rows, boot, job, attempt, abandoned, faults>>,
         authorised' \in BOOLEAN
  PROVE  IInv'
<1>1. Typed' /\ OthersExitWell'
  BY DEF IInv, Typed, TypeOK, OthersExitWell, Pc, Box, NextOf
<1>2. StagesFollow' /\ SinglesReport' /\ ResolutionReports' /\ CpeReports'
  BY DEF IInv, StagesFollow, SinglesReport, ResolutionReports, CpeReports, NotBegun, Pc, Box, NextOf
<1>3. (~abandoned => ContainerReports)'
  BY DEF IInv, ContainerReports, AllReported, EndsIn, Pc, Box, NextOf
<1>4. CveReports' /\ StatusIsTheRows'
  BY DEF IInv, CveReports, CveToCome, StatusIsTheRows, NotBegun, Pc, Box, NextOf
<1>5. FaultlessIsComplete'
  BY DEF IInv, FaultlessIsComplete, EndsIn, Pc, Box, NextOf
<1> QED BY <1>1, <1>2, <1>3, <1>4, <1>5 DEF IInv

\* The inductive invariant holds in every reachable state, whatever is lost,
\* refused, killed or retried.
THEOREM Sound == Spec => []IInv
<1>1. IInv /\ [Next]_vars => IInv'
  <2> SUFFICES ASSUME IInv, [Next]_vars PROVE IInv'
    OBVIOUS
  <2>1. authorised \in BOOLEAN
    BY DEF IInv, Typed, TypeOK
  <2>2. CASE Revoke
    BY <2>2, RestSound DEF Revoke
  <2>3. CASE Bootstrap \/ BootstrapRefused \/ BootstrapDies
    BY <2>3, BootSound
  <2>4. CASE BeginNmap
    BY <2>4, BeginNmapSound
  <2>5. CASE ContainerReturns \/ DispatchFails
    BY <2>5, NmapSound
  <2>6. ASSUME NEW n \in Tasks, TaskStep(n) \/ CallFails(n) \/ PublishFails(n) \/ Dies(n)
        PROVE  IInv'
    BY <2>6, TaskSound, EndSound DEF TaskStep
  <2>7. CASE Terminated \/ UNCHANGED vars
    BY <2>1, <2>7, RestSound DEF Terminated, vars
  <2> QED BY <2>2, <2>3, <2>4, <2>5, <2>6, <2>7 DEF Next
<1> QED BY InitSound, <1>1, PTL DEF Spec

\* Every variable stays in its type.
THEOREM TypeCorrect == Spec => []TypeOK
<1>1. IInv => TypeOK
  BY DEF IInv, Typed
<1> QED BY Sound, <1>1, PTL

\* The port scan follows a resolution, CPE resolution a container that reported
\* all its sources, and CVE matching a CPE resolution, as long as no container
\* outlives the wait for it.
THEOREM InOrder == Spec => []StagesInOrder
<1>1. IInv => StagesInOrder
  <2> SUFFICES ASSUME IInv, ~abandoned PROVE StagesInOrder
    BY DEF StagesInOrder
  <2>1. StagesFollow /\ ResolutionReports /\ ContainerReports /\ CpeReports /\ CveReports
    BY DEF IInv
  <2>2. rows["nmap"] \in {"running"} \union Conclusive => rows["target_resolution"] = "completed"
    <3>1. rows["nmap"] \in {"running"} \union Conclusive => Pc("nmap") # "absent"
      BY <2>1 DEF ResolutionReports, Conclusive, PipelineSources
    <3> QED BY <2>1, <3>1 DEF StagesFollow
  <2>3. rows["cpe_resolver"] # "none" => \A s \in PipelineSources : rows[s] \in FinishedStatus
    BY <2>1 DEF CpeReports, NotBegun, ContainerReports, AllReported
  <2>4. rows["cve"] = "completed" => rows["cpe_resolver"] = "completed"
    BY <2>1 DEF CveReports, NotBegun, StagesFollow
  <2> QED BY <2>2, <2>3, <2>4 DEF StagesInOrder
<1> QED BY Sound, <1>1, PTL

\* Without faults a scan whose tasks are done has a result for every source, or
\* for all but cpe_resolver after a resolution or a container that failed.
THEOREM NothingElseIsLeftOut == Spec => []OnlyCpeResolverIsLeftOut
<1>1. IInv => OnlyCpeResolverIsLeftOut
  <2> SUFFICES ASSUME IInv, Drained, faults = 0, boot = "done",
                      NEW s \in Sources, rows[s] \notin FinishedStatus
               PROVE  /\ s = "cpe_resolver"
                      /\ \/ rows["target_resolution"] = "failed"
                         \/ \A p \in PipelineSources : rows[p] = "failed"
    BY DEF OnlyCpeResolverIsLeftOut
  <2>1. /\ StagesFollow /\ SinglesReport /\ ContainerReports /\ CveReports /\ FaultlessIsComplete
    BY DEF IInv, FaultlessIsComplete
  <2>2. \A n \in Tasks \ Containers : Pc(n) \in {"absent", "ended"}
    BY <2>1 DEF Drained, FaultlessIsComplete, Pc
  <2>3. /\ \A n \in Leaves \union {"crt.sh", "target_resolution", "nmap", "cpe_resolver", "cve"} :
             Pc(n) \in {"absent", "ended"}
        /\ s \in Leaves \union {"crt.sh", "target_resolution", "cpe_resolver", "cve"}
                 \union PipelineSources
    BY <2>2, Names DEF ChainSources, PipelineSources, Leaves
  <2>4. Outcome \subseteq FinishedStatus
    BY DEF Outcome, FinishedStatus
  <2>5. \A n \in Leaves \union {"crt.sh"} : Pc(n) = "ended" /\ rows[n] \in FinishedStatus
    BY <2>1, <2>3, <2>4 DEF FaultlessIsComplete, SinglesReport
  <2>6. Pc("target_resolution") = "ended"
    BY <2>1, <2>3, <2>5 DEF FaultlessIsComplete
  <2>7. CASE Pc("nmap") = "absent"
    <3>1. /\ rows["target_resolution"] = "failed"
          /\ \A p \in PipelineSources \union {"cve"} : rows[p] = "skipped"
      BY <2>1, <2>6, <2>7 DEF FaultlessIsComplete
    <3> QED BY <2>3, <2>5, <3>1 DEF FinishedStatus
  <2>8. CASE Pc("nmap") # "absent"
    <3>1. Pc("nmap") = "ended" /\ rows["target_resolution"] \in FinishedStatus
      BY <2>1, <2>3, <2>8 DEF StagesFollow, FinishedStatus
    <3>2. CASE Pc("cpe_resolver") = "absent"
      <4>1. (\A p \in PipelineSources : rows[p] = "failed") /\ rows["cve"] = "skipped"
        BY <2>1, <3>1, <3>2 DEF FaultlessIsComplete
      <4> QED BY <2>3, <2>5, <3>1, <4>1 DEF FinishedStatus
    <3>3. CASE Pc("cpe_resolver") # "absent"
      <4>1. Pc("cpe_resolver") = "ended" /\ \A p \in PipelineSources : rows[p] \in FinishedStatus
        BY <2>1, <2>3, <3>3 DEF ContainerReports, AllReported
      <4>2. rows["cpe_resolver"] \in FinishedStatus /\ rows["cve"] \in FinishedStatus
        <5>1. CASE Pc("cve") = "absent"
          BY <2>1, <4>1, <5>1 DEF FaultlessIsComplete, FinishedStatus
        <5>2. CASE Pc("cve") # "absent"
          BY <2>1, <2>3, <2>4, <5>2 DEF StagesFollow, CveReports, FinishedStatus
        <5> QED BY <5>1, <5>2
      <4> QED BY <2>3, <2>5, <3>1, <4>1, <4>2
    <3> QED BY <3>2, <3>3
  <2> QED BY <2>7, <2>8
<1> QED BY Sound, <1>1, PTL

\* Once every row is finished, nobody has a callback left to send, unless nmap was
\* repeated with its "skipped" for cve already in the rows.
LEMMA NothingLeftToSend ==
  ASSUME IInv, ~abandoned, AllFinished(rows), attempt > 1 => rows["cve"] # "skipped",
         NEW n \in Tasks, Pc(n) = "active"
  PROVE  Box(n) = <<>>
<1>1. /\ StagesFollow /\ SinglesReport /\ ContainerReports /\ CpeReports /\ CveReports
  BY DEF IInv
<1>2. \A s \in Sources : rows[s] \notin {"none", "running"}
  BY DEF AllFinished, FinishedStatus
<1>3. Pc("cpe_resolver") # "absent"
  BY <1>1, <1>2, Names DEF CpeReports, NotBegun, ChainSources
<1>4. Pc("nmap") = "ended" /\ Pc("target_resolution") = "ended" /\ Pc("crt.sh") = "ended"
  BY <1>1, <1>3 DEF StagesFollow
<1>5. \A c \in Containers : Pc(c) # "active"
  BY <1>1, <1>4, Names DEF ContainerReports
<1>6. ~CveToCome
  BY <1>1, <1>2, Names DEF CveReports, ChainSources
<1>7. n \in Leaves \union {"cpe_resolver", "cve"}
  BY <1>4, <1>5, Names DEF ChainSources
<1>8. CASE n \in Leaves
  BY <1>1, <1>2, <1>8, Names DEF SinglesReport
<1>9. CASE n \in {"cpe_resolver", "cve"}
  BY <1>6, <1>9 DEF CveToCome
<1> QED BY <1>7, <1>8, <1>9

\* A concluded scan keeps its status and its rows: no retry and no later stage
\* reports into it, the two exceptions of ConcludedIsFinal aside.
THEOREM ConcludedStays == Spec => ConcludedIsFinal
<1>1. IInv /\ [Next]_vars =>
        [/\ ~abandoned'
         /\ scan \in TerminalStatus
         /\ attempt > 1 => rows["cve"] # "skipped"
         => UNCHANGED <<scan, rows>>]_vars
  <2> SUFFICES ASSUME IInv, [Next]_vars, ~abandoned', scan \in TerminalStatus,
                      attempt > 1 => rows["cve"] # "skipped"
               PROVE  UNCHANGED <<scan, rows>>
    OBVIOUS
  <2>1. StatusIsTheRows /\ StagesFollow /\ CpeReports /\ TypeOK
    BY DEF IInv, Typed
  <2>2. boot # "queued"
    <3>1. SUFFICES ASSUME boot = "queued" PROVE FALSE
      OBVIOUS
    <3>2. rows["cpe_resolver"] = "none" /\ "cpe_resolver" \in Sources
      BY <2>1, <3>1, Names DEF StagesFollow, CpeReports, NotBegun, ChainSources
    <3> QED BY <2>1, <3>1, <3>2 DEF StatusIsTheRows, AllFinished, FinishedStatus
  <2>3. CASE Revoke \/ Bootstrap \/ BootstrapRefused \/ BootstrapDies \/ BeginNmap
               \/ ContainerReturns \/ DispatchFails \/ Terminated \/ UNCHANGED vars
    BY <2>2, <2>3 DEF Revoke, Bootstrap, BootstrapRefused, BootstrapDies, BeginNmap,
                      ContainerReturns, DispatchFails, Terminated, vars
  <2>4. ASSUME NEW n \in Tasks, TaskStep(n) \/ CallFails(n) \/ PublishFails(n) \/ Dies(n)
        PROVE  UNCHANGED <<scan, rows>>
    <3>1. CASE Begin(n) \/ End(n) \/ PublishFails(n) \/ Dies(n)
      BY <3>1 DEF Begin, End, PublishFails, Dies
    <3>2. CASE Deliver(n) \/ CallFails(n)
      <4>1. Pc(n) = "active" /\ Box(n) # <<>> /\ ~abandoned
        BY <3>2 DEF Deliver, CallFails, Pc, Box
      <4>2. AllFinished(rows)
        BY <2>1, <4>1 DEF StatusIsTheRows
      <4> QED BY <4>1, <4>2, NothingLeftToSend
    <3> QED BY <2>4, <3>1, <3>2 DEF TaskStep
  <2> QED BY <2>3, <2>4 DEF Next
<1> QED BY Sound, <1>1, PTL DEF Spec, ConcludedIsFinal
=============================================================================
