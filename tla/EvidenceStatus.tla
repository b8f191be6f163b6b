--------------------------- MODULE EvidenceStatus ---------------------------
(* What the users of the evidence of a finding rely on: the status of a file  *)
(* (models/evidence_file.py) is decided once. A check that failed for good    *)
(* can be asked for again, and a file goes only together with its finding.    *)
(* EvidenceQuarantine implements this; FindingsPage is built on it.           *)
EXTENDS PageBounds

VARIABLES status   \* quarantine_status of every file that has a row

Verdicts == {"clean", "rejected"}
Statuses == {"none", "pending", "failed"} \union Verdicts

Uploaded(f) == status[f] = "none" /\ status' = [status EXCEPT ![f] = "pending"]

Decided(f) ==
  /\ status[f] = "pending"
  /\ \E verdict \in Verdicts \union {"failed"} : status' = [status EXCEPT ![f] = verdict]

RetryRequested(f) == status[f] = "failed" /\ status' = [status EXCEPT ![f] = "pending"]

Deleted(gone) == status' = [f \in Files |-> IF f \in gone THEN "none" ELSE status[f]]

StatusInit == status \in [Files -> {"none", "pending"}]

StatusNext ==
  \/ \E f \in Files : Uploaded(f) \/ Decided(f) \/ RetryRequested(f)
  \/ \E gone \in SUBSET Files : Deleted(gone)

StatusSpec == StatusInit /\ [][StatusNext]_status
=============================================================================
