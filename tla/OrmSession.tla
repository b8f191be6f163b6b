---------------------------- MODULE OrmSession -----------------------------
(***************************************************************************)
(* What a SQLAlchemy session of this backend writes for a row it has read  *)
(* (src/backend/app/config/database.py: autoflush=False,                   *)
(* expire_on_commit=False).  A request reads a row once and keeps the copy *)
(* through its commits; an assignment marks a column only if the new value *)
(* differs from the copy, and only marked columns are in the UPDATE.  So a *)
(* request that overlaps another neither sees nor always overwrites what   *)
(* the other has committed.                                                *)
(***************************************************************************)

\* A plausible slip: every assignment is written.  Used to test properties.
WrittenAlways(value, loaded, current) == value

\* The committed column after a request that loaded `loaded` set it to `value`
\* and committed, `current` being committed at that moment.
Written(value, loaded, current) == IF value = loaded THEN current ELSE value
=============================================================================
