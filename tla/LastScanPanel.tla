--------------------------- MODULE LastScanPanel ---------------------------
(* The panel beside the form of a new scan: the last scan of the chosen      *)
(* domain (DomainLastScanPanel.tsx). Its numbers are asked for when the scan *)
(* on display changes and are kept in a map of the module, which outlives    *)
(* the panel; an answer that comes too late only fills the map.              *)
EXTENDS PageBounds

Scans == 1..3    \* of the domain, in the order they were created
SCAN_TYPE_OF == [active |-> "active_vulnerability", passive |-> "passive_ctem"]
ScanView == DOMAIN SCAN_TYPE_OF
FINISHED_STATUSES == {"completed", "partial"}
RUNNING_STATUSES == {"queued", "running"}

\* The scans there can be; only the newest may still run.
Histories ==
  [Scans -> [type : {SCAN_TYPE_OF[v] : v \in ScanView},
             status : {"completed", "failed", "running"}]]

VARIABLES history,   \* the scans of the domain
          loaded,    \* the page has the list of them
          view,      \* which kind of scan the panel is about
          selection, \* the scan chosen in the chart, and the view it was chosen in
          cache,     \* the map: for each key what it holds
          data,      \* the numbers on display, and the key they were asked for with
          error,
          asking,    \* the key the panel waits for
          dropped    \* keys asked for by an effect that was cleaned up since

lvars == <<history, loaded, view, selection, cache, data, error, asking, dropped, clicks, faults>>

-----------------------------------------------------------------------------
(* What the panel is about, computed anew at every render.                   *)

Newest(S) == IF S = {} THEN None ELSE CHOOSE s \in S : \A other \in S : other <= s

forDomain == IF loaded THEN Scans ELSE {}
finishedAll == {s \in forDomain : history[s].status \in FINISHED_STATUSES}
finished == {s \in finishedAll : history[s].type = SCAN_TYPE_OF[view]}
chartScans ==
  {s \in forDomain : /\ history[s].status \in FINISHED_STATUSES \union {"failed"}
                     /\ history[s].type = SCAN_TYPE_OF[view]}
hasOther == finishedAll \ finished # {}

newest == Newest(finished)
selected ==
  IF selection # None /\ selection.view = view /\ selection.scan \in chartScans
    THEN selection.scan ELSE None
latest == IF selected # None THEN selected ELSE newest
showingLatest == selected = None \/ selected = newest
previousScan == IF latest = None THEN None ELSE Newest({s \in finished : s < latest})
cacheKey == IF latest = None THEN None ELSE <<latest, previousScan>>
running == {s \in forDomain : history[s].status \in RUNNING_STATUSES}

\* What stands below the switch.
body ==
  CASE finishedAll = {} -> "no scans"
    [] finishedAll # {} /\ latest = None -> IF hasOther THEN "other history" ELSE "none"
    [] latest # None /\ error -> "error"
    [] latest # None /\ ~error /\ data = None -> "loading"
    [] OTHER -> "numbers"

-----------------------------------------------------------------------------
\* A key is a scan and the one before it. Its numbers come compared with those of the
\* latter, or alone.
Keys == Scans \X (Scans \union {None})
Numbers == {"alone", "compared"}

Init ==
  /\ history \in {h \in Histories : \A s \in Scans \ {3} : h[s].status # "running"}
  /\ loaded = FALSE /\ view = "active" /\ selection = None
  /\ cache = [key \in Keys |-> "nothing"] /\ data = None /\ error = FALSE
  /\ asking = None /\ dropped = {}
  /\ clicks = 0 /\ faults = 0

\* What the map holds for the key that is now shown.
Held == cacheKey' # None /\ cache[cacheKey'] # "nothing"
HeldNumbers == [key |-> cacheKey', numbers |-> cache[cacheKey']]
Ask == asking' = IF cacheKey' = None \/ Held THEN None ELSE cacheKey'

\* The effect on the key: the former one is cleaned up first. The error of
\* another key stays when the numbers of this one are in the map.
Effect ==
  IF cacheKey' = cacheKey THEN UNCHANGED <<data, error, asking, dropped>>
  ELSE /\ dropped' = dropped \union ({asking} \ {None})
       /\ Ask
       /\ data' = CASE cacheKey' = None -> data
                    [] Held -> HeldNumbers
                    [] OTHER -> None
       /\ error' = (error /\ (cacheKey' = None \/ Held))

HistoryArrives ==
  /\ ~loaded /\ loaded' = TRUE
  /\ UNCHANGED <<history, view, selection, cache, clicks, faults>>
  /\ Effect

\* The switch is not there while the numbers are on their way, nor with an error.
viewSwitch ==
  /\ body \in {"other history", "none", "numbers"}
  /\ \E v \in ScanView \ {view} : view' = v
  /\ UNCHANGED <<history, loaded, selection, cache, clicks, faults>>
  /\ Effect

\* A point of the chart, there are at least two.
SelectInChart ==
  /\ body = "numbers" /\ Cardinality(chartScans) >= 2
  /\ \E s \in chartScans : selection' = [view |-> view, scan |-> s]
  /\ UNCHANGED <<history, loaded, view, cache, clicks, faults>>
  /\ Effect

ShowLatest ==
  /\ body = "numbers" /\ ~showingLatest
  /\ selection' = None
  /\ UNCHANGED <<history, loaded, view, cache, clicks, faults>>
  /\ Effect

\* Another tile, or the same one twice: a new panel with the old map, in the
\* active view.
Remount ==
  /\ loaded /\ Click
  /\ view' = "active" /\ selection' = None
  /\ UNCHANGED <<history, loaded, cache, faults>>
  /\ data' = IF Held THEN HeldNumbers ELSE None
  /\ error' = FALSE
  /\ dropped' = dropped \union ({asking} \ {None})
  /\ Ask

\* A failure of the numbers of the scan before is swallowed: the others are kept alone,
\* and are not asked for again.
Load(key, numbers) ==
  /\ numbers = "compared" => key[2] # None
  /\ IF numbers = "alone" /\ key[2] # None THEN Fault ELSE UNCHANGED faults
  /\ cache' = [cache EXCEPT ![key] = numbers]

Arrives(key, numbers) ==
  /\ key = asking
  /\ Load(key, numbers)
  /\ data' = [key |-> key, numbers |-> numbers] /\ asking' = None
  /\ UNCHANGED <<history, loaded, view, selection, error, dropped, clicks>>

ArrivesLate(key, numbers) ==
  /\ key \in dropped
  /\ Load(key, numbers)
  /\ dropped' = dropped \ {key}
  /\ UNCHANGED <<history, loaded, view, selection, data, error, asking, clicks>>

LoadFails(key) ==
  /\ key \in dropped \union {asking}
  /\ Fault
  /\ \/ key = asking /\ error' = TRUE /\ asking' = None /\ UNCHANGED dropped
     \/ key \in dropped /\ dropped' = dropped \ {key} /\ UNCHANGED <<error, asking>>
  /\ UNCHANGED <<history, loaded, view, selection, cache, data, clicks>>

Next ==
  \/ HistoryArrives \/ viewSwitch \/ SelectInChart \/ ShowLatest \/ Remount
  \/ \E key \in Keys, numbers \in Numbers : Arrives(key, numbers) \/ ArrivesLate(key, numbers)
  \/ \E key \in Keys : LoadFails(key)

Spec == Init /\ [][Next]_lvars
\* Requests are answered.
AnswersGoOn == \E key \in Keys, numbers \in Numbers : Arrives(key, numbers)
FairSpec == Spec /\ WF_lvars(AnswersGoOn)

-----------------------------------------------------------------------------
TypeOK ==
  /\ view \in ScanView /\ cache \in [Keys -> Numbers \union {"nothing"}]
  /\ dropped \subseteq Keys /\ asking \in Keys \union {None}
  /\ data \in [key : Keys, numbers : Numbers] \union {None}
  /\ selection # None => selection.view \in ScanView /\ selection.scan \in Scans

\* The numbers on display are those of the scan named above them, whichever was chosen
\* before and whatever the map holds (the effect on cacheKey). They are compared with those
\* of the scan before it, if there is one and no load has failed.
ShowsTheNamedScan ==
  body = "numbers" =>
    /\ data.key = cacheKey
    /\ cacheKey[2] # None /\ faults = 0 => data.numbers = "compared"

\* The skeleton is there only as long as somebody is asking (the effect on cacheKey).
SkeletonIsWaitedFor == body = "loading" => asking = cacheKey

\* And it does not stay.
Loading == body = "loading"
SkeletonGoes == Loading ~> ~Loading
=============================================================================
