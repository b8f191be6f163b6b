---------------------------- MODULE FindingsPage ----------------------------
(* The findings of an engagement (findings/page.tsx) and the panel that shows *)
(* one with its evidence (FindingInspectModal.tsx). The page relies on what   *)
(* EvidenceStatus promises of the files behind it. Loads of the list are not  *)
(* cancelled, and a panel keeps the files it was first opened with.           *)
EXTENDS EvidenceStatus

VARIABLES existing,  \* findings that were not deleted
          owner,     \* the finding of every file
          view,      \* filter and page chosen
          shown,     \* the rows on display, the total, and the view they are of
          loads,     \* loads of the list on their way
          isLoading,
          details,   \* findings asked for, to inspect them or to download a file
          panel,     \* inspectFinding and the state of the modal
          posts,     \* retries on their way
          blobs,     \* files that are being downloaded
          crossed,   \* an answer came before that of an older load
          pressed,   \* a finding was asked for while another was on its way
          refused    \* a download was refused by the backend

list  == <<view, shown, loads, isLoading, crossed>>
modal == <<details, panel, posts, blobs, pressed, refused>>
fvars == <<status, existing, owner, view, shown, loads, isLoading, details, panel, posts, blobs,
           crossed, pressed, refused, clicks, faults>>

Findings == {"first", "second"}
\* The rows of the filters; a page (PAGE_SIZE) has one.
Matches == [all |-> <<"first", "second">>, severe |-> <<"second">>]
Views == [filter : DOMAIN Matches, page : 1..3]

\* The places, among the rows of its filter, of what a view finds, and what is on its page.
Found(v) == {i \in DOMAIN Matches[v.filter] : Matches[v.filter][i] \in existing}
RowsOf(v) ==
  {Matches[v.filter][i] : i \in {i \in Found(v) : Cardinality(Found(v) \intersect 1..i) = v.page}}
pages == IF shown.total > 1 THEN shown.total ELSE 1

FilesOf(g) == {f \in Files : status[f] # "none" /\ owner[f] = g}

TypeOK ==
  /\ status \in [Files -> Statuses] /\ existing \subseteq Findings /\ owner \in [Files -> Findings]
  /\ view \in Views /\ loads \subseteq [of : Views, n : Nat]
  /\ shown \in [rows : SUBSET Findings, total : Nat, of : Views \union {None}]
  /\ isLoading \in BOOLEAN /\ crossed \in BOOLEAN /\ pressed \in BOOLEAN /\ refused \in BOOLEAN
  /\ details \subseteq [finding : Findings, for : {"inspect", "download"}, n : Nat]
  /\ panel = None \/ panel \in [finding : Findings, files : [Files -> Statuses], n : Nat]
  /\ posts \subseteq [file : Files, n : Nat, answer : {"none", "pending", "error"}]
  /\ blobs \subseteq Files /\ clicks \in Nat /\ faults \in Nat

Init ==
  /\ StatusInit /\ existing = Findings /\ owner \in [Files -> Findings]
  /\ view = [filter |-> "all", page |-> 1]
  /\ shown = [rows |-> {}, total |-> 0, of |-> None]
  /\ loads = {[of |-> view, n |-> 0]} /\ isLoading = TRUE
  /\ details = {} /\ panel = None /\ posts = {} /\ blobs = {}
  /\ crossed = FALSE /\ pressed = FALSE /\ refused = FALSE
  /\ clicks = 0 /\ faults = 0

-----------------------------------------------------------------------------
(* The list: a change of filter or page is an effect that loads.             *)

Load(v) ==
  /\ Click
  /\ view' = v /\ isLoading' = TRUE
  /\ loads' = loads \union {[of |-> v, n |-> clicks']}
  /\ UNCHANGED <<status, existing, owner, shown, crossed, modal, faults>>

\* The panel covers the page.
setFilter(x) == panel = None /\ x # view.filter /\ Load([filter |-> x, page |-> 1])

\* "Next" is off on the last page only, so also beyond it the user can go on.
setPage(p) ==
  /\ panel = None /\ p \in 1..3
  /\ \/ p = view.page - 1
     \/ p = view.page + 1 /\ view.page # pages
  /\ Load([view EXCEPT !.page = p])

ListArrives(l) ==
  /\ l \in loads
  /\ shown' = [rows |-> RowsOf(l.of), total |-> Cardinality(Found(l.of)), of |-> l.of]
  /\ loads' = loads \ {l} /\ isLoading' = FALSE
  /\ crossed' = (crossed \/ \E k \in loads : k.n < l.n)
  /\ UNCHANGED <<status, existing, owner, view, modal, clicks, faults>>

ListFails(l) ==
  /\ l \in loads /\ Fault
  /\ loads' = loads \ {l} /\ isLoading' = FALSE
  /\ UNCHANGED <<status, existing, owner, view, shown, crossed, modal, clicks>>

-----------------------------------------------------------------------------
(* Both buttons of a row ask for the finding first.                          *)

AskFor(g, purpose) ==
  /\ panel = None /\ ~isLoading /\ g \in shown.rows /\ Click
  /\ details' = details \union {[finding |-> g, for |-> purpose, n |-> clicks']}
  /\ pressed' = (pressed \/ (purpose = "inspect" /\ \E d \in details : d.for = "inspect"))
  /\ UNCHANGED <<status, existing, owner, list, panel, posts, blobs, refused, faults>>

openFinding(g) == AskFor(g, "inspect")

\* The state of the modal is that of the finding it was mounted with.
Inspected(d) ==
  /\ d \in details /\ d.for = "inspect" /\ d.finding \in existing
  /\ details' = details \ {d}
  /\ LET files == [f \in Files |-> IF f \in FilesOf(d.finding) THEN status[f] ELSE "none"]
     IN panel' = IF panel # None THEN [panel EXCEPT !.finding = d.finding]
                 ELSE [finding |-> d.finding, n |-> d.n, files |-> files]
  /\ UNCHANGED <<status, existing, owner, list, posts, blobs, pressed, refused, clicks, faults>>

\* The first clean file, or a note if there are files and none is clean, or a
\* text file.
downloadFindingEvidence(d) ==
  /\ d \in details /\ d.for = "download" /\ d.finding \in existing
  /\ details' = details \ {d}
  /\ LET clean == {f \in FilesOf(d.finding) : status[f] = "clean"} IN
     IF clean = {} THEN UNCHANGED blobs ELSE \E f \in clean : blobs' = blobs \union {f}
  /\ UNCHANGED <<status, existing, owner, list, panel, posts, pressed, refused, clicks, faults>>

\* Nobody catches the error, also if the finding is gone.
DetailFails(d) ==
  /\ d \in details
  /\ \/ d.finding \notin existing /\ UNCHANGED faults
     \/ Fault
  /\ details' = details \ {d}
  /\ UNCHANGED <<status, existing, owner, list, panel, posts, blobs, pressed, refused, clicks>>

-----------------------------------------------------------------------------
(* The panel.                                                                *)

handleDownload(f) ==
  /\ panel # None /\ panel.files[f] = "clean"
  /\ blobs' = blobs \union {f}
  /\ UNCHANGED <<status, existing, owner, list, details, panel, posts, pressed, refused, clicks,
                 faults>>

downloadEvidence(f) ==
  /\ f \in blobs /\ blobs' = blobs \ {f}
  /\ \/ refused' = (refused \/ status[f] \notin {"clean", "none"}) /\ UNCHANGED faults
     \/ Fault /\ UNCHANGED refused
  /\ UNCHANGED <<status, existing, owner, list, details, panel, posts, pressed, clicks>>

retrying == \E p \in posts : p.n = panel.n

handleRetry(f) ==
  /\ panel # None /\ panel.files[f] = "failed" /\ ~retrying
  /\ posts' = posts \union {[file |-> f, n |-> panel.n, answer |-> "none"]}
  /\ UNCHANGED <<status, existing, owner, list, details, panel, blobs, pressed, refused, clicks,
                 faults>>

\* The backend grants it only for a failed check.
retryEvidenceSecurityCheck(p) ==
  /\ p \in posts /\ p.answer = "none"
  /\ \/ /\ RetryRequested(p.file)
        /\ posts' = (posts \ {p}) \union {[p EXCEPT !.answer = "pending"]}
        /\ UNCHANGED faults
     \/ /\ \/ status[p.file] # "failed" /\ UNCHANGED faults
           \/ Fault
        /\ posts' = (posts \ {p}) \union {[p EXCEPT !.answer = "error"]}
        /\ UNCHANGED status
  /\ UNCHANGED <<existing, owner, list, details, panel, blobs, pressed, refused, clicks>>

\* A panel that was closed meanwhile has no state any more.
RetryAnswered(p) ==
  /\ p \in posts /\ p.answer # "none"
  /\ posts' = posts \ {p}
  /\ panel' = IF panel # None /\ p.n = panel.n /\ p.answer = "pending"
                THEN [panel EXCEPT !.files[p.file] = "pending"] ELSE panel
  /\ UNCHANGED <<status, existing, owner, list, details, blobs, pressed, refused, clicks, faults>>

onClose ==
  /\ panel # None /\ panel' = None
  /\ UNCHANGED <<status, existing, owner, list, details, posts, blobs, pressed, refused, clicks,
                 faults>>

-----------------------------------------------------------------------------
\* Uploads, checks, and retries of another window; the pentester deletes a finding.
FileChanges ==
  /\ \E f \in Files : \/ owner[f] \in existing /\ Uploaded(f)
                      \/ Decided(f) \/ RetryRequested(f)
  /\ UNCHANGED <<existing, owner, list, modal, clicks, faults>>
FindingDeleted(g) ==
  /\ g \in existing /\ existing' = existing \ {g}
  /\ Deleted(FilesOf(g))
  /\ UNCHANGED <<owner, list, modal, clicks, faults>>
Backstage == FileChanges \/ \E g \in Findings : FindingDeleted(g)

UserActs ==
  \/ \E x \in DOMAIN Matches : setFilter(x)
  \/ \E p \in 1..3 : setPage(p)
  \/ \E g \in Findings : openFinding(g) \/ AskFor(g, "download")
  \/ \E f \in Files : handleDownload(f) \/ handleRetry(f)
  \/ onClose

AnswersArrive ==
  \/ \E l \in loads : ListArrives(l) \/ ListFails(l)
  \/ \E d \in details : Inspected(d) \/ downloadFindingEvidence(d) \/ DetailFails(d)
  \/ \E f \in blobs : downloadEvidence(f)
  \/ \E p \in posts : retryEvidenceSecurityCheck(p) \/ RetryAnswered(p)

Next == UserActs \/ AnswersArrive \/ Backstage

Spec == Init /\ [][Next]_fvars

-----------------------------------------------------------------------------
\* With every answer there, the rows on display are those of the filter and page
\* chosen, unless answers crossed or failed (nothing cancels a load).
ListIsOfTheView == loads = {} /\ ~crossed /\ faults = 0 => shown.of = view

\* The files in the panel are those of the finding in its title, unless two
\* findings were asked for at once: then the second has the files of the first.
FilesOfTheFinding ==
  panel # None /\ ~pressed => \A f \in Files : panel.files[f] # "none" => owner[f] = panel.finding

\* A verdict on display stands, and what can be downloaded is not refused, however
\* old the panel is: a verdict is never taken back, the file may only be gone.
VerdictsShownStand ==
  /\ panel # None =>
       \A f \in Files : panel.files[f] \in Verdicts => status[f] \in {panel.files[f], "none"}
  /\ ~refused
=============================================================================
