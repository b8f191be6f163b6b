---------------------------- MODULE HistoryPage ----------------------------
(* The history of the scans (app/history/page.tsx): the list is asked for    *)
(* page by page while scans may be started, is filtered and shown part by    *)
(* part, and the report of a finished scan is mailed from a dialog           *)
(* (EmailReportDialog.tsx).                                                  *)
EXTENDS PageBounds, Sequences

SCAN_HISTORY_PAGE == 2   \* 100 in the code
PAGE_SIZE == 2           \* 30 in the code
Existing == 3            \* scans there are when the page opens
Scans == 1..(Existing + 1)
Domains == {"first", "second"}
Types == {"active", "passive"}
FINISHED == {"completed", "partial"}
RUNNING == {"queued", "running"}
Addresses == {"own", "other"}

\* What the scans are; one that is started meanwhile is queued.
Worlds ==
  {w \in [domain : [Scans -> Domains], type : [Scans -> Types],
          status : [Scans -> FINISHED \union {"failed", "queued"}]] :
     /\ w.domain[1] = "first" /\ w.type[1] = "active" /\ w.type[3] = "active"
     /\ w.status[1] = "completed" /\ w.status[2] \in {"completed", "failed"}
     /\ w.status[3] \in {"partial", "queued"} /\ w.status[4] = "queued"
     /\ w.domain[4] = "second" /\ w.type[4] = "passive"}

VARIABLES world,
          count,     \* at the backend: how many scans there are
          request,   \* the page of the list that is on its way, None after the last
          all,       \* the scans fetched so far, newest first
          scans,     \* the list on display, None before it is complete
          error,
          shifted,   \* a scan was started between two pages of the list
          typeFilter, domainFilter,
          shown,     \* how many rows are shown at most
          dialog,    \* None, or the dialog to mail a report
          mailed     \* at the backend: reports sent from the open dialog, and to whom

hvars == <<world, count, request, all, scans, error, shifted, typeFilter, domainFilter, shown,
           dialog, mailed, clicks, faults>>
list   == <<request, all, scans, error, shifted>>
filter == <<typeFilter, domainFilter, shown>>
mail   == <<dialog, mailed>>

Init ==
  /\ world \in Worlds /\ count = Existing
  /\ request = 0 /\ all = <<>> /\ scans = None /\ error = FALSE /\ shifted = FALSE
  /\ typeFilter = "all" /\ domainFilter = None /\ shown = PAGE_SIZE
  /\ dialog = None /\ mailed = {}
  /\ clicks = 0 /\ faults = 0

-----------------------------------------------------------------------------
(* The list.                                                                 *)

\* The newest scans come first, so that a new one moves the others down a row.
Page(n) ==
  LET from == n * SCAN_HISTORY_PAGE
      rows == IF count <= from THEN 0
              ELSE IF count - from < SCAN_HISTORY_PAGE THEN count - from ELSE SCAN_HISTORY_PAGE
  IN [i \in 1..rows |-> count - from - i + 1]

ScanStarted ==
  /\ count = Existing /\ count' = count + 1
  /\ shifted' = (shifted \/ (request # None /\ all # <<>>))
  /\ UNCHANGED <<world, request, all, scans, error, filter, mail, clicks, faults>>

\* A page that is not full is the last.
NextPage(items) == request' = IF Len(items) < SCAN_HISTORY_PAGE THEN None ELSE request + 1

fetchScanHistory ==
  /\ request # None
  /\ all' = all \o Page(request)
  /\ NextPage(Page(request))
  /\ scans' = IF request' = None THEN all' ELSE scans
  /\ UNCHANGED <<world, count, error, shifted, filter, mail, clicks, faults>>

\* The pages that did come are thrown away.
HistoryFails ==
  /\ request # None
  /\ Fault
  /\ request' = None /\ error' = TRUE
  /\ UNCHANGED <<world, count, all, scans, shifted, filter, mail, clicks>>

-----------------------------------------------------------------------------
(* What is shown of it.                                                      *)

Listed == IF scans = None THEN {} ELSE {scans[i] : i \in 1..Len(scans)}
Times(s) == Cardinality({i \in 1..Len(scans) : scans[i] = s})
Finished(s) == world.status[s] \in FINISHED

inDomain == {s \in Listed : domainFilter \in {None, world.domain[s]}}
typeCounts(type) == Cardinality({s \in inDomain : type \in {"all", world.type[s]}})
filtered == {s \in inDomain : typeFilter \in {"all", world.type[s]}}
visible == {s \in filtered : Cardinality({t \in filtered : t > s}) < shown}

\* The domains to choose from, with the number of scans of each.
DomainPicker ==
  [d \in {world.domain[s] : s \in Listed} |-> Cardinality({s \in Listed : world.domain[s] = d})]

\* The finished scan a scan is compared with: the last of its domain and type
\* in the list, by the time they were created. A row that is there twice is
\* compared with itself.
riskDeltas(s) ==
  LET same == {t \in Listed : /\ Finished(t) /\ world.domain[t] = world.domain[s]
                              /\ world.type[t] = world.type[s]}
      before == {t \in same : t < s} \union (IF Times(s) > 1 THEN {s} ELSE {})
  IN IF ~Finished(s) \/ before = {} THEN None ELSE CHOOSE t \in before : \A u \in before : u <= t

\* What the menu of a row offers, and where the row leads.
RowActions(s) ==
  {IF world.status[s] \in RUNNING THEN "View progress" ELSE "View results"}
    \union IF Finished(s) THEN {"Download report", "Email report"} ELSE {}

\* What a row says of its scan: progress, a problem, or the risk with its change.
ScanRow(s) ==
  CASE world.status[s] \in RUNNING -> "under way"
    [] world.status[s] \in {"partial", "failed"} -> world.status[s]
    [] OTHER -> riskDeltas(s)

setTypeFilter ==
  /\ scans \notin {None, <<>>} /\ dialog = None
  /\ \E type \in Types \union {"all"} : type # typeFilter /\ typeFilter' = type
  /\ shown' = PAGE_SIZE
  /\ UNCHANGED <<world, count, list, domainFilter, mail, clicks, faults>>

setDomainFilter ==
  /\ scans \notin {None, <<>>} /\ dialog = None
  /\ \E d \in DOMAIN DomainPicker \union {None} : d # domainFilter /\ domainFilter' = d
  /\ shown' = PAGE_SIZE
  /\ UNCHANGED <<world, count, list, typeFilter, mail, clicks, faults>>

\* The link of an empty result.
ShowAll ==
  /\ scans \notin {None, <<>>} /\ filtered = {}
  /\ typeFilter' = "all" /\ domainFilter' = None /\ shown' = PAGE_SIZE
  /\ UNCHANGED <<world, count, list, mail, clicks, faults>>

\* The button is there as long as rows are held back.
HeldBack == scans # None /\ Cardinality(filtered) > shown

ShowMore ==
  /\ HeldBack /\ dialog = None
  /\ shown' = shown + PAGE_SIZE
  /\ UNCHANGED <<world, count, list, typeFilter, domainFilter, mail, clicks, faults>>

-----------------------------------------------------------------------------
(* EmailReportDialog. Its field, its buttons and its ways out are disabled    *)
(* while a report is sent.                                                   *)

OpenDialog ==
  /\ dialog = None
  /\ \E s \in visible :
       /\ "Email report" \in RowActions(s)
       /\ dialog' = [scan |-> s, email |-> None, to |-> None, state |-> "form"]
  /\ UNCHANGED <<world, count, list, filter, mailed, clicks, faults>>

Sending == dialog # None /\ dialog.state \in {"sending", "served"}

FieldEnabled == dialog # None /\ ~Sending /\ dialog.state # "sent"

TypeEmail ==
  /\ FieldEnabled /\ Click
  /\ \E a \in Addresses :
       dialog' = [dialog EXCEPT !.email = a, !.state = IF Sending THEN @ ELSE "form"]
  /\ UNCHANGED <<world, count, list, filter, mailed, faults>>

handleSubmit ==
  /\ dialog # None /\ dialog.state \in {"form", "error"} /\ dialog.email # None
  /\ dialog' = [dialog EXCEPT !.to = dialog.email, !.state = "sending"]
  /\ UNCHANGED <<world, count, list, filter, mailed, clicks, faults>>

\* The mail itself is sent by a worker.
sendReportEmail ==
  /\ dialog # None /\ dialog.state = "sending"
  /\ mailed' = mailed \union {<<dialog.scan, dialog.to>>}
  /\ dialog' = [dialog EXCEPT !.state = "served"]
  /\ UNCHANGED <<world, count, list, filter, clicks, faults>>

\* The dialog names the text of the field, not what was sent.
MailAnswered ==
  /\ dialog # None /\ dialog.state = "served"
  /\ dialog' = [dialog EXCEPT !.state = "sent"]
  /\ UNCHANGED <<world, count, list, filter, mailed, clicks, faults>>

\* The network, or the backend that has no PDF yet.
MailFails ==
  /\ Sending
  /\ Fault
  /\ dialog' = [dialog EXCEPT !.state = "error"]
  /\ UNCHANGED <<world, count, list, filter, mailed, clicks>>

CloseDialog ==
  /\ dialog # None /\ ~Sending
  /\ dialog' = None /\ mailed' = {}
  /\ UNCHANGED <<world, count, list, filter, clicks, faults>>

Next ==
  \/ ScanStarted \/ fetchScanHistory \/ HistoryFails
  \/ setTypeFilter \/ setDomainFilter \/ ShowAll \/ ShowMore
  \/ OpenDialog \/ TypeEmail \/ handleSubmit \/ sendReportEmail
  \/ MailAnswered \/ MailFails \/ CloseDialog

Spec == Init /\ [][Next]_hvars

-----------------------------------------------------------------------------
TypeOK ==
  /\ world \in Worlds /\ count \in Scans
  /\ request \in 0..Existing \union {None}
  /\ Listed \subseteq 1..count /\ visible \subseteq filtered
  /\ typeFilter \in Types \union {"all"} /\ domainFilter \in Domains \union {None}
  /\ mailed \subseteq Scans \X Addresses

\* Of the scans there were when the page was opened none is missing from the list,
\* though scans are started while it is fetched; and unless one is, none is there
\* twice, nor compared with itself (the loop over the offsets in fetchScanHistory,
\* riskDeltas).
HistoryIsWhole ==
  scans # None =>
    /\ 1..Existing \subseteq Listed
    /\ ~shifted => \A s \in Listed : Times(s) = 1 /\ riskDeltas(s) # s

\* Every scan of the filter can be brought on display: as long as one is held back
\* the page offers more, and what the tab counts is what it lists.
AllCanBeShown ==
  scans # None =>
    /\ visible # filtered => HeldBack
    /\ typeCounts(typeFilter) = Cardinality(filtered)

\* The dialog says that the report goes to an address only after it was sent there.
NamesTheRecipient ==
  dialog # None /\ dialog.state = "sent" => <<dialog.scan, dialog.email>> \in mailed
=============================================================================
