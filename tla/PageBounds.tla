----------------------------- MODULE PageBounds -----------------------------
(* The constants of the models of the web client, in one place: what a page *)
(* shows is chosen from small sets, and what users and the network may do   *)
(* is bounded. A page is a component in src/frontend; requests are answered *)
(* by the backend behind it.                                                *)
EXTENDS Integers, FiniteSets

CONSTANTS None,        \* no value: null or undefined in the code
          MaxFaults,   \* how many requests may fail
          MaxClicks,   \* how many times the user may act
          Threads,     \* conversations of the messaging page
          MaxTexts,    \* texts the user may type
          MaxIncoming, \* messages of the other participants
          MaxAlerts,   \* notifications of the user
          MaxSources,  \* sources of the scan that is watched
          MaxReportChecks, \* times the report page asks whether the PDF is there
          Files,       \* uploads of evidence
          Workers,     \* workers that check them
          Flaws        \* findings with evidence

VARIABLES clicks,  \* how many times the user has acted
          faults   \* how many requests have failed

\* "No value" is none of the values: numbers, the status of a report or of a re-test, the
\* pentesters and dates of Delivery, the request of Directory, what a scan finds, the form
\* of a finding, an answer about a scan, the cache of a panel and what is in it.
ASSUME NoneAssumption ==
  /\ None \notin Int \union {"generating", "completed", "failed"}
  /\ None \notin {"requested", "in_progress", "resolved", "still_vulnerable"}
  /\ None \notin {"p", "q", "early", "later"}
  /\ None \notin {"domain", "subdomain", "address", "service", "technology", "leak", "weakness"}
  /\ None \notin [no : Nat, dirty : BOOLEAN, discard : BOOLEAN, saving : BOOLEAN]
  /\ None \notin [who : {"ann", "ben", "new"}, step : {"sent", "inactive", "done", "failed"}]
  /\ None \notin [status : {"queued", "running", "completed", "failed", "partial"},
                  index : {"pending", "indexing", "ready", "failed"},
                  sources : [1..MaxSources -> {"preparing", "pending", "running", "completed",
                                               "failed", "partial", "skipped"}]]
  /\ None \notin (1..3) \X ((1..3) \union {None})
  /\ None \notin [key : (1..3) \X ((1..3) \union {None}), numbers : {"alone", "compared"}]
ASSUME FaultsAssumption == MaxFaults \in Nat /\ MaxClicks \in Nat
ASSUME ThreadsAssumption ==
  /\ IsFiniteSet(Threads) /\ None \notin Threads
  /\ MaxTexts \in Nat /\ MaxIncoming \in Nat /\ MaxAlerts \in Nat \ {0}
ASSUME EvidenceAssumption ==
  None \notin Files \union Workers \union Flaws /\ None \notin {"good", "bad"}
ASSUME ChecksAssumption == MaxReportChecks \in Nat /\ MaxSources \in Nat \ {0}

Click == clicks < MaxClicks /\ clicks' = clicks + 1
Fault == faults < MaxFaults /\ faults' = faults + 1
=============================================================================
