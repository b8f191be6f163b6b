---------------------------- MODULE ScanProgress ----------------------------
(* Starting a scan (scan_home.tsx) and watching it (scan_progress.tsx). The   *)
(* progress page asks for the status every four seconds without waiting for   *)
(* the last answer, and stops once an answer says that all is over.           *)
EXTENDS PageBounds, Sequences

VARIABLES scans,     \* at the backend: how many scans were started
          status,    \* at the backend: the status of the watched scan
          sources,   \* at the backend: the statuses of its sources
          index,     \* at the backend: the status of its RAG index
          form,      \* NewScanForm: the mode, the view of the panel, the chosen domain,
                     \* whether the typed domain is valid
          starting,  \* the request to start a scan, and whether it is served
          order,     \* what it asks for
          asked,     \* the label of the button pressed, and the domain above it
          failures,  \* starts that were reported to have failed
          startError,
          watched,   \* the progress page of a scan is open
          shown,     \* the answer on display, None before the first
          interval,  \* the interval runs
          answers,   \* answers on their way, oldest first
          connection, \* the last answer came through
          overtaken  \* an answer arrived after a younger one

wvars == <<scans, status, sources, index, form, starting, order, asked, failures, startError,
           watched, shown, interval, answers, connection, overtaken, clicks, faults>>
server == <<scans, status, sources, index>>
start  == <<form, starting, order, asked, failures, startError>>
page   == <<watched, shown, interval, answers, connection, overtaken>>

TerminalScanStatuses == {"completed", "failed", "partial"}
Statuses == {"queued", "running"} \union TerminalScanStatuses
IndexStatuses == {"pending", "indexing", "ready", "failed"}
TerminalSourceStatuses == {"completed", "failed", "partial", "skipped"}
SourceStatuses == {"preparing", "pending", "running"} \union TerminalSourceStatuses
Sources == 1..MaxSources
ScanMode == {"active", "passive"}
Domains == {"first", "second"}    \* verified ones; the typed one is "typed"
Forms == [mode : ScanMode, panelView : ScanMode, activeDomain : Domains \union {None},
          passiveValid : BOOLEAN]
EmptyForm ==
  [mode |-> "active", panelView |-> "active", activeDomain |-> None, passiveValid |-> FALSE]
Answers == [status : Statuses, index : IndexStatuses, sources : [Sources -> SourceStatuses]]

TypeOK ==
  /\ status \in Statuses /\ index \in IndexStatuses /\ form \in Forms
  /\ shown \in Answers \union {None}
  /\ \A i \in 1..Len(answers) : answers[i] \in Answers
  /\ interval => watched

Init ==
  /\ scans = 0 /\ status = "queued" /\ index = "pending"
  /\ sources = [source \in Sources |-> "pending"]
  /\ form = EmptyForm
  /\ starting = "none" /\ order = None /\ asked = None /\ failures = 0 /\ startError = FALSE
  /\ watched = FALSE /\ shown = None /\ interval = FALSE /\ answers = <<>>
  /\ connection = TRUE /\ overtaken = FALSE
  /\ clicks = 0 /\ faults = 0

-----------------------------------------------------------------------------
(* The scan, as the backend and its workers carry it on.                     *)

\* A scan takes its sources in turn and ends when all of them have.
Concluded ==
  CASE \A i \in Sources : sources[i] = "failed" -> "failed"
    [] \E i \in Sources : sources[i] = "failed" -> "partial"
    [] OTHER -> "completed"

ScanRuns ==
  /\ scans > 0
  /\ \/ status = "queued" /\ status' = "running" /\ UNCHANGED sources
     \/ /\ status = "running" /\ UNCHANGED status
        /\ \E i \in Sources :
             /\ \A before \in 1..(i - 1) : sources[before] \in TerminalSourceStatuses
             /\ \E next \in CASE sources[i] = "pending" -> {"running"}
                              [] sources[i] = "running" -> {"completed", "failed"}
                              [] OTHER -> {} :
                  sources' = [sources EXCEPT ![i] = next]
     \/ /\ status = "running" /\ \A i \in Sources : sources[i] \in TerminalSourceStatuses
        /\ status' = Concluded /\ UNCHANGED sources
  /\ UNCHANGED <<scans, index, start, page, clicks, faults>>

\* A finished scan is indexed; a failed one is not.
IndexRuns ==
  /\ status \in {"completed", "partial"} /\ index \in {"pending", "indexing"}
  /\ index' \in IF index = "pending" THEN {"indexing"} ELSE {"ready", "failed"}
  /\ UNCHANGED <<scans, status, sources, start, page, clicks, faults>>

-----------------------------------------------------------------------------
(* NewScanForm. Nothing of it is disabled while a request is on its way.     *)

\* The cards of the two modes.
ScanModeCards ==
  /\ ~watched
  /\ \E mode \in ScanMode : form' = [form EXCEPT !.mode = mode]
  /\ startError' = FALSE
  /\ UNCHANGED <<server, starting, order, asked, failures, page, clicks, faults>>

\* A tile of a verified domain: pressed again it is given back.
ChooseDomain ==
  /\ ~watched /\ form.mode = "active"
  /\ \E d \in Domains :
       form' = [form EXCEPT !.activeDomain = IF @ = d THEN None ELSE d, !.panelView = "active"]
  /\ startError' = FALSE
  /\ UNCHANGED <<server, starting, order, asked, failures, page, clicks, faults>>

\* The switch of the panel with the last scan of the chosen domain.
SwitchPanel ==
  /\ ~watched /\ form.mode = "active" /\ form.activeDomain # None
  /\ \E view \in ScanMode : form' = [form EXCEPT !.panelView = view]
  /\ UNCHANGED <<server, starting, order, asked, failures, startError, page, clicks, faults>>

TypeDomain ==
  /\ ~watched /\ form.mode = "passive"
  /\ \E valid \in BOOLEAN : form' = [form EXCEPT !.passiveValid = valid]
  /\ startError' = FALSE
  /\ UNCHANGED <<server, starting, order, asked, failures, page, clicks, faults>>

domain ==
  IF form.mode = "active" THEN form.activeDomain
  ELSE IF form.passiveValid THEN "typed" ELSE None

\* What a button aims at: another mode than the form's is that of the panel.
Target(forMode) == IF forMode = form.mode THEN domain ELSE form.activeDomain

\* The buttons on display: one beside the panel, under its view, or one beside the field.
StartButtons ==
  IF form.mode = "passive" THEN {"passive"}
  ELSE IF form.activeDomain # None THEN {form.panelView} ELSE {}

Order(forMode) ==
  [mode |-> forMode, target |-> Target(forMode),
   verified |-> IF forMode = "active" THEN form.activeDomain ELSE None]

handleStart ==
  /\ ~watched /\ starting = "none" /\ Click
  /\ \E forMode \in StartButtons :
       /\ Target(forMode) # None
       /\ order' = Order(forMode)
       /\ asked' = [mode |-> forMode, domain |-> IF form.mode = "active" THEN form.activeDomain
                                                ELSE "typed"]
  /\ starting' = "sent"
  /\ startError' = FALSE
  /\ UNCHANGED <<server, form, failures, page, faults>>

PostServed ==
  /\ starting = "sent"
  /\ starting' = "served" /\ scans' = scans + 1
  /\ UNCHANGED <<status, sources, index, form, order, asked, failures, startError, page, clicks,
                 faults>>

\* What the backend answers, as it is when it reads the scan.
fetchScanStatus == [status |-> status, index |-> index, sources |-> sources]

\* The page of the new scan opens in the place of the form; it asks at once.
PostAnswered ==
  /\ starting = "served"
  /\ starting' = "none" /\ watched' = TRUE /\ interval' = TRUE
  /\ answers' = <<fetchScanStatus>>
  /\ form' = EmptyForm
  /\ order' = None /\ asked' = None
  /\ UNCHANGED <<server, failures, startError, shown, connection, overtaken, clicks, faults>>

\* The page of the scans opened anew lists the scans under way with a link to each.
OpenRunning ==
  /\ ~watched /\ starting = "none" /\ scans > 0 /\ status \in {"queued", "running"}
  /\ watched' = TRUE /\ interval' = TRUE /\ answers' = <<fetchScanStatus>>
  /\ form' = EmptyForm /\ startError' = FALSE
  /\ UNCHANGED <<server, starting, order, asked, failures, shown, connection, overtaken, clicks,
                 faults>>

StartFails ==
  /\ starting # "none"
  /\ Fault
  /\ starting' = "none" /\ startError' = TRUE /\ failures' = failures + 1
  /\ order' = None /\ asked' = None
  /\ UNCHANGED <<server, form, page, clicks>>

-----------------------------------------------------------------------------
(* ScanProgress.                                                             *)

Tick ==
  /\ interval /\ Len(answers) < 2
  /\ answers' = Append(answers, fetchScanStatus)
  /\ UNCHANGED <<server, start, watched, shown, interval, connection, overtaken, clicks, faults>>

IndexFinished(result) == result.status = "failed" \/ result.index \in {"ready", "failed"}

\* A slip: nobody waits for the index any more.
StatusIsEnough(result) == result.status \in TerminalScanStatuses

Finished(result) == result.status \in TerminalScanStatuses /\ IndexFinished(result)

Remaining(i) == SubSeq(answers, 1, i - 1) \o SubSeq(answers, i + 1, Len(answers))

poll(i) ==
  /\ i \in 1..Len(answers)
  /\ answers' = Remaining(i)
  /\ shown' = answers[i] /\ connection' = TRUE
  /\ interval' = (interval /\ ~Finished(answers[i]))
  /\ overtaken' = (overtaken \/ i > 1)
  /\ UNCHANGED <<server, start, watched, clicks, faults>>

\* The error is shown with the last answer, and the interval goes on.
PollFails(i) ==
  /\ i \in 1..Len(answers)
  /\ Fault
  /\ answers' = Remaining(i)
  /\ connection' = FALSE
  /\ UNCHANGED <<server, start, watched, shown, interval, overtaken, clicks>>

-----------------------------------------------------------------------------
(* What the page makes of the last answer.                                   *)

isComplete == shown.status \in TerminalScanStatuses

\* scanActivity: while the scan is under way and no source runs, the first that is
\* pending is said to be prepared.
Preparing ==
  IF ~connection \/ isComplete \/ \E i \in Sources : shown.sources[i] = "running" THEN {}
  ELSE {i \in Sources : /\ shown.sources[i] = "pending"
                        /\ \A before \in 1..(i - 1) : shown.sources[before] # "pending"}

scanActivity ==
  [i \in Sources |-> IF i \in Preparing THEN "preparing" ELSE shown.sources[i]]

ActivityMessage ==
  CASE ~connection -> "interrupted, retrying"
    [] isComplete -> "none"
    [] \E i \in Sources : shown.sources[i] = "running" -> "workers are running"
    [] Preparing # {} -> "awaiting a worker"
    [] OTHER -> "awaiting the end"

sourcePhase(s) ==
  CASE s = "pending" -> "idle" [] s \in {"running", "preparing"} -> "line" [] OTHER -> "done"

\* A card of a source and the line that leads to it: still, lit, green or red.
SourceCard(s) ==
  CASE sourcePhase(s) = "idle" -> "muted"
    [] sourcePhase(s) = "line" -> "pulsing"
    [] s = "failed" -> "alert"
    [] OTHER -> "success"

Terminal(statuses) == {i \in Sources : statuses[i] \in TerminalSourceStatuses}

\* The lines of the diagram that are drawn from the radar to a card.
FanColumn == {i \in Sources : sourcePhase(scanActivity[i]) \in {"line", "done"}}

\* The diagram: the sources to the left and to the right of a radar that turns
\* until the scan is over.
ScanNetworkDiagram ==
  [cards |-> [i \in Sources |-> SourceCard(scanActivity[i])], lines |-> FanColumn,
   turning |-> ~isComplete]

\* On a small screen the cards stand below the radar, under a count of those done.
ScanMobileOverview ==
  [cards |-> [i \in Sources |-> SourceCard(scanActivity[i])],
   doneCount |-> Cardinality(Terminal(scanActivity))]

ScanDetailsBar ==
  [status |-> shown.status, evidence |-> shown.index,
   completed |-> Cardinality(Terminal(shown.sources))]

\* The buttons above: the graph always, the results when the scan is over.
LinksOnward == {"View Scan Graph"} \union IF isComplete THEN {"View Results"} ELSE {}

-----------------------------------------------------------------------------
Next ==
  \/ ScanRuns \/ IndexRuns
  \/ ScanModeCards \/ ChooseDomain \/ SwitchPanel \/ TypeDomain
  \/ handleStart \/ PostServed \/ PostAnswered \/ StartFails \/ OpenRunning
  \/ Tick
  \/ \E i \in 1..2 : poll(i) \/ PollFails(i)

\* The workers finish, the interval of an open page fires and answers arrive.
Fairness ==
  /\ WF_wvars(ScanRuns) /\ WF_wvars(IndexRuns)
  /\ WF_wvars(Tick) /\ WF_wvars(poll(1))

Spec == Init /\ [][Next]_wvars
FairSpec == Spec /\ Fairness

-----------------------------------------------------------------------------
\* A second scan is started only after the page has said that the first start
\* failed: however often the buttons are pressed while a request is on its way
\* (submitting in handleStart).
OneScanPerStart == scans <= 1 + failures

\* The page never stops asking before it shows the end of the scan and of its
\* index, unless an answer was overtaken by a younger one: then an old status
\* may stay on display with nobody asking any more.
NeverStopsEarly == watched /\ ~interval => overtaken \/ (shown # None /\ Finished(shown))

\* What is started is what the button said, of the domain above it, and ownership is
\* claimed for an active scan only, of that same domain (startButton, handleStart).
StartsWhatItSays ==
  order # None =>
    /\ order.mode = asked.mode /\ order.target = asked.domain
    /\ order.verified = IF asked.mode = "active" THEN asked.domain ELSE None

\* A page that has stopped asking leaves nothing that looks alive: no card pulses,
\* every line is drawn, the radar stands, all sources are counted and the results are
\* offered; and as long as it shows a scan under way it says what the scan waits for.
DiagramComesToRest ==
  shown # None /\ ~overtaken =>
    /\ ~interval =>
         /\ ~ScanNetworkDiagram.turning /\ "View Results" \in LinksOnward
         /\ \A i \in Sources : ScanNetworkDiagram.cards[i] \in {"success", "alert"}
         /\ ScanNetworkDiagram.lines = Sources
         /\ ScanDetailsBar.completed = Cardinality(Sources)
    /\ ~isComplete => ActivityMessage # "none"
    /\ ScanMobileOverview.doneCount = ScanDetailsBar.completed

\* The page ends up with the end of the scan on display, lost answers or not.
Watched == watched
EndShown == overtaken \/ (shown = fetchScanStatus /\ ~interval)
EndIsShown == Watched ~> EndShown
=============================================================================
