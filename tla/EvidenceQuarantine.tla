------------------------- MODULE EvidenceQuarantine -------------------------
(* Evidence and its security check: uploads (api/routes/findings.py), the     *)
(* task that checks one file at a time (evidence_quarantine_service.py), its  *)
(* retry, downloads, and the deletion of a finding with its files. A row in   *)
(* the database and an object in the storage make a file, and no transaction  *)
(* holds both. Every upload has a new key, so a file is named by its upload.  *)
EXTENDS PageBounds

VARIABLES flaws,      \* findings that exist
          rows,       \* evidence_files: one row per file
          objects,    \* the storage: the contents of every object
          uploads,    \* uploads and how far they are
          references, \* deletions under way: the files the finding was read with
          removing,   \* objects to remove after the deletion was committed
          leftover,   \* objects that nobody will remove any more
          job,        \* what every worker checks
          download,   \* a download that was let through
          received    \* the contents that users received last

stored   == <<objects, uploads>>
deletion == <<flaws, references, removing, leftover>>
reading  == <<download, received>>
qvars == <<flaws, rows, objects, uploads, references, removing, leftover, job, download,
           received>>

Contents == {"good", "bad"}
Infected == {"bad"}              \* what the antivirus rejects
MaxAttempts == 3
Verdicts == {"clean", "rejected"}
Statuses == {"none", "pending", "failed"} \union Verdicts

Row(flaw, sum) ==
  [finding |-> flaw, status |-> "pending", attempts |-> 0, sum |-> sum, due |-> TRUE]
NoRow == [finding |-> None, status |-> "none", attempts |-> 0, sum |-> None, due |-> FALSE]
Job(f, contents, verdict) == [file |-> f, contents |-> contents, verdict |-> verdict]
Idle  == Job(None, None, "idle")
NoDownload == [file |-> None, sum |-> None]
Upload(step, flaw, sum) == [step |-> step, finding |-> flaw, sum |-> sum]
Over == Upload("over", None, None)

FilesOf(g) == {f \in Files : rows[f].finding = g}
Unlocked(f) == \A w \in Workers : job[w].file # f

EvidenceRows == [finding : Flaws \union {None}, status : Statuses, attempts : 0..MaxAttempts,
                 sum : Contents \union {None}, due : BOOLEAN]
Uploads == [step : {"new", "read", "stored", "over"}, finding : Flaws \union {None},
            sum : Contents \union {None}]
Jobs == [file : Files \union {None}, contents : Contents \union {None},
         verdict : Verdicts \union {"idle", "none", "error"}]
Downloads == [file : Files \union {None}, sum : Contents \union {None}]

TypeOK ==
  /\ flaws \subseteq Flaws
  /\ rows \in [Files -> EvidenceRows]
  /\ objects \in [Files -> Contents \union {None}]
  /\ uploads \in [Files -> Uploads]
  /\ references \in [Flaws -> (SUBSET Files) \union {None}]
  /\ removing \subseteq Files /\ leftover \subseteq Files
  /\ job \in [Workers -> Jobs]
  /\ download \in Downloads
  /\ received \in Contents \union {None}

\* Files that are there already: rows of the time before sums were kept have none.
Init ==
  /\ flaws = Flaws
  /\ \E old \in SUBSET Files, g \in [Files -> Flaws], contents \in [Files -> Contents] :
       /\ rows = [f \in Files |-> IF f \in old THEN Row(g[f], None) ELSE NoRow]
       /\ objects = [f \in Files |-> IF f \in old THEN contents[f] ELSE None]
       /\ uploads = [f \in Files |-> IF f \in old THEN Over ELSE Upload("new", None, None)]
  /\ references = [g \in Flaws |-> None] /\ removing = {} /\ leftover = {}
  /\ job = [w \in Workers |-> Idle]
  /\ download = NoDownload /\ received = None
  /\ clicks = 0 /\ faults = 0

-----------------------------------------------------------------------------
(* An upload: the finding is read, the object stored, the row registered.    *)

require_evidence_upload_access(f, g) ==
  /\ uploads[f].step = "new" /\ g \in flaws
  /\ uploads' = [uploads EXCEPT ![f] = Upload("read", g, None)]
  /\ UNCHANGED <<rows, objects, deletion, job, reading, clicks, faults>>

store(f) ==
  /\ uploads[f].step = "read"
  /\ \E c \in Contents : /\ objects' = [objects EXCEPT ![f] = c]
                         /\ uploads' = [uploads EXCEPT ![f] = Upload("stored", @.finding, c)]
  /\ UNCHANGED <<rows, deletion, job, reading, clicks, faults>>

register_evidence(f) ==
  /\ uploads[f].step = "stored" /\ uploads[f].finding \in flaws
  /\ rows' = [rows EXCEPT ![f] = Row(uploads[f].finding, uploads[f].sum)]
  /\ uploads' = [uploads EXCEPT ![f] = Over]
  /\ UNCHANGED <<objects, deletion, job, reading, clicks, faults>>

\* The finding is gone, or the transaction fails: the row is not there, so the
\* object is deleted.
UploadFails(f) ==
  /\ uploads[f].step = "stored"
  /\ \/ uploads[f].finding \notin flaws /\ UNCHANGED faults
     \/ Fault
  /\ objects' = [objects EXCEPT ![f] = None]
  /\ uploads' = [uploads EXCEPT ![f] = Over]
  /\ UNCHANGED <<rows, deletion, job, reading, clicks>>

\* The process dies with the object stored, or cannot delete it.
CleanupFails(f) ==
  /\ uploads[f].step = "stored" /\ Fault
  /\ leftover' = leftover \union {f}
  /\ uploads' = [uploads EXCEPT ![f] = Over]
  /\ UNCHANGED <<flaws, rows, objects, references, removing, job, reading, clicks>>

-----------------------------------------------------------------------------
(* A finding is deleted with its rows; the objects it was read with follow.  *)

require_editable_finding(g) ==
  /\ g \in flaws /\ references[g] = None
  /\ references' = [references EXCEPT ![g] = FilesOf(g)]
  /\ UNCHANGED <<flaws, rows, stored, removing, leftover, job, reading, clicks, faults>>

\* The rows go with their finding, also one registered since it was read, which
\* nobody will remove the object of. A row under check holds the deletion up.
delete_manual_finding(g) ==
  /\ references[g] # None
  /\ \A f \in FilesOf(g) : Unlocked(f)
  /\ flaws' = flaws \ {g}
  /\ rows' = [f \in Files |-> IF rows[f].finding = g THEN NoRow ELSE rows[f]]
  /\ removing' = removing \union references[g]
  /\ leftover' = leftover \union (FilesOf(g) \ references[g])
  /\ references' = [references EXCEPT ![g] = None]
  /\ UNCHANGED <<stored, job, reading, clicks, faults>>

\* The transaction fails: its callbacks are forgotten with it.
DeletionFails(g) ==
  /\ references[g] # None /\ Fault
  /\ references' = [references EXCEPT ![g] = None]
  /\ UNCHANGED <<flaws, rows, stored, removing, leftover, job, reading, clicks>>

remove_evidence_objects(f) ==
  /\ f \in removing
  /\ removing' = removing \ {f}
  /\ \/ /\ objects' = [objects EXCEPT ![f] = None]
        /\ UNCHANGED <<leftover, faults>>
     \/ /\ Fault
        /\ leftover' = leftover \union {f}
        /\ UNCHANGED objects
  /\ UNCHANGED <<flaws, rows, uploads, references, job, reading, clicks>>

-----------------------------------------------------------------------------
(* The check: a worker locks a due row (FOR UPDATE SKIP LOCKED), reads the    *)
(* object, asks the antivirus and commits. The attempt it counts is committed *)
(* with the rest, so a worker that dies has counted nothing.                  *)

Due(f) == rows[f].status = "pending" /\ rows[f].due

Take(w, f) ==
  /\ job[w] = Idle /\ Due(f) /\ Unlocked(f)
  /\ job' = [job EXCEPT ![w] = Job(f, None, "none")]
  /\ UNCHANGED <<rows, stored, deletion, reading, clicks, faults>>

\* storage.read hands out only what agrees with the sum, if there is one.
Readable(f, sum) == objects[f] # None /\ sum \in {None, objects[f]}

scan_bytes(c) == IF c \in Infected THEN "rejected" ELSE "clean"

\* The storage and the antivirus may be unavailable at any time.
Check(w) ==
  /\ job[w].verdict = "none"
  /\ LET f == job[w].file IN
     \/ /\ Readable(f, rows[f].sum)
        /\ job' = [job EXCEPT ![w] = Job(f, objects[f], scan_bytes(objects[f]))]
     \/ job' = [job EXCEPT ![w] = Job(f, None, "error")]
  /\ UNCHANGED <<rows, stored, deletion, reading, clicks, faults>>

Checked(row, done) ==
  IF done.verdict = "error"
    THEN [row EXCEPT !.attempts = @ + 1, !.due = FALSE,
                     !.status = IF row.attempts + 1 >= MaxAttempts THEN "failed" ELSE "pending"]
    ELSE [row EXCEPT !.attempts = @ + 1, !.due = FALSE,
                     !.status = done.verdict, !.sum = done.contents]

process_one(w) ==
  /\ job[w].verdict \in Verdicts \union {"error"}
  /\ rows' = [rows EXCEPT ![job[w].file] = Checked(@, job[w])]
  /\ job' = [job EXCEPT ![w] = Idle]
  /\ UNCHANGED <<stored, deletion, reading, clicks, faults>>

WorkerDies(w) ==
  /\ job[w] # Idle /\ Fault
  /\ job' = [job EXCEPT ![w] = Idle]
  /\ UNCHANGED <<rows, stored, deletion, reading, clicks>>

\* Five minutes after a failed check.
BecomesDue(f) ==
  /\ rows[f].status = "pending" /\ ~rows[f].due
  /\ rows' = [rows EXCEPT ![f].due = TRUE]
  /\ UNCHANGED <<stored, deletion, job, reading, clicks, faults>>

\* On behalf of service delivery; anything but a failed check is refused.
retry(f) ==
  /\ rows[f].status = "failed"
  /\ rows' = [rows EXCEPT ![f] = Row(@.finding, @.sum)]
  /\ UNCHANGED <<stored, deletion, job, reading, clicks, faults>>

-----------------------------------------------------------------------------
(* A download reads the row first and the object later.                      *)

\* A slip to test the properties with: only what was rejected is held back.
require_not_rejected(f) == rows[f].status \notin {"none", "rejected"}

require_clean(f) == rows[f].status = "clean" /\ rows[f].sum # None

get_evidence_for_download(f) ==
  /\ download = NoDownload /\ require_clean(f)
  /\ download' = [file |-> f, sum |-> rows[f].sum]
  /\ UNCHANGED <<rows, stored, deletion, job, received, clicks, faults>>

Delivered ==
  /\ download # NoDownload
  /\ download' = NoDownload
  /\ received' = IF Readable(download.file, download.sum) THEN objects[download.file] ELSE None
  /\ UNCHANGED <<rows, stored, deletion, job, clicks, faults>>

\* Somebody else replaces an object of the storage.
Replaced(f) ==
  /\ objects[f] # None /\ Fault
  /\ \E c \in Contents : objects' = [objects EXCEPT ![f] = c]
  /\ UNCHANGED <<rows, uploads, deletion, job, reading, clicks>>

-----------------------------------------------------------------------------
UploadStep(f) ==
  \/ \E g \in Flaws : require_evidence_upload_access(f, g)
  \/ store(f) \/ register_evidence(f) \/ UploadFails(f) \/ CleanupFails(f)
DeletionStep ==
  \/ \E g \in Flaws : require_editable_finding(g) \/ delete_manual_finding(g) \/ DeletionFails(g)
  \/ \E f \in Files : remove_evidence_objects(f)
WorkerStep(w) ==
  (\E f \in Files : Take(w, f)) \/ Check(w) \/ process_one(w) \/ WorkerDies(w)
FileStep(f) == BecomesDue(f) \/ retry(f) \/ get_evidence_for_download(f) \/ Replaced(f)

Next ==
  \/ \E f \in Files : UploadStep(f) \/ FileStep(f)
  \/ DeletionStep
  \/ \E w \in Workers : WorkerStep(w)
  \/ Delivered

Spec == Init /\ [][Next]_<<qvars, clicks, faults>>

-----------------------------------------------------------------------------
\* Whatever was replaced, checked or deleted in between: nothing the antivirus
\* rejects is ever delivered (require_clean, and the sums in storage.read).
NothingInfectedIsRead == received \notin Infected

\* No file is checked by two workers at once (skip_locked).
OneCheckAtATime ==
  \A v, w \in Workers : job[v].file # None /\ job[v].file = job[w].file => v = w

\* A row always has its object: it is stored before the row is there, and deleted
\* after the deletion of the row is committed (after_commit).
RowsHaveObjects == \A f \in Files : rows[f].status # "none" => objects[f] # None

\* An object without a row is on its way in or out, or known to be left over: a
\* step failed, or it was uploaded while its finding was being deleted.
NoStrayObject ==
  \A f \in Files : objects[f] # None =>
    rows[f].status # "none" \/ uploads[f].step = "stored" \/ f \in removing \union leftover

\* After the third failed check a file is not checked again by itself.
StopsAfterThree == \A f \in Files : rows[f].status = "pending" => rows[f].attempts < MaxAttempts

\* Evidence is checked before anybody reads it, by one worker at a time and not for
\* ever; a row has its object, and an object its row or somebody who removes it.
EvidenceIsChecked ==
  /\ NothingInfectedIsRead /\ OneCheckAtATime /\ StopsAfterThree
  /\ RowsHaveObjects /\ NoStrayObject

-----------------------------------------------------------------------------
\* What the users rely on: the status of a file is decided once.
Seen == [f \in Files |-> rows[f].status]
Promise == INSTANCE EvidenceStatus WITH status <- Seen

\* Every step of the tasks and the requests is one that EvidenceStatus allows.
KeepsPromise == Promise!StatusSpec

\* The same of one step: no upload, check, retry or deletion, nor the failure of one,
\* takes back a verdict or decides on a file that no check was pending for.
DecidedOnce == Promise!StatusNext \/ UNCHANGED Seen
=============================================================================
