------------------------------ MODULE Delivery ------------------------------
(* The delivery of engagements: the workspace of a service delivery user on   *)
(* one of them (service-delivery/engagements/[id]/page.tsx), the pentesters,  *)
(* and a colleague with another engagement, above the service that checks     *)
(* what it has read and writes it later.                                      *)
EXTENDS PageBounds

VARIABLES board,     \* at the backend: the engagements
          availability, \* at the backend: the pentesters' profiles
          ops,       \* operations under way
          late,      \* an operation wrote after another had read the same
          reopened,  \* an engagement was returned from its review
          released,  \* a pentester was released while he was assigned to an engagement in scoping
          detail,    \* the workspace: the engagement as last loaded, or None
          isLoading

dvars == <<board, availability, ops, late, reopened, released, detail, isLoading,
           clicks, faults>>
workspace == <<detail, isLoading>>
history == <<late, reopened, released>>

Mine == 1          \* the engagement of the workspace
Theirs == 2
Engagements == {Mine, Theirs}
Pentesters == {"p", "q"}
Slots == {"early", "later"} \* dates that do not overlap
MaxOps == 2        \* operations under way

Statuses == {"requested", "scoping", "scheduled", "in_progress", "review", "completed", "cancelled"}
Forms == {"scope", "assign", "schedule", "reassign", "reschedule", "return", "cancel"}
Booked == {"scheduled", "in_progress"}
Active == Booked \union {"review"}

TypeOK ==
  /\ \A e \in Engagements : /\ board[e].status \in Statuses
                            /\ board[e].assigned \in Pentesters \union {None}
                            /\ board[e].slot \in Slots \union {None}
                            /\ (board[e].status \in Active => board[e].slot # None)
  /\ availability \in [Pentesters -> {"available", "engaged"}]
  /\ detail = None \/ detail.status \in Statuses

Fresh == [status |-> "requested", assigned |-> None, slot |-> None, quote |-> FALSE]

Init ==
  /\ board = [e \in Engagements |->
       IF e = Mine THEN Fresh ELSE [status |-> "scheduled", assigned |-> "p", slot |-> "early", quote |-> TRUE]]
  /\ availability = [p \in Pentesters |-> IF p = "p" THEN "engaged" ELSE "available"]
  /\ ops = {} /\ late = FALSE /\ reopened = FALSE /\ released = FALSE
  /\ detail = None /\ isLoading = TRUE
  /\ clicks = 0 /\ faults = 0

-----------------------------------------------------------------------------
(* The operations of the service. Each reads and checks the engagement, and   *)
(* writes the columns it changes.                                            *)

\* A slip: work that is under way is not in the way.
FreeOfScheduled(pentester, slot, e) ==
  \A other \in Engagements \ {e} :
    ~(board[other].assigned = pentester /\ board[other].status = "scheduled" /\ board[other].slot = slot)

has_no_conflict(pentester, slot, e) ==
  \A other \in Engagements \ {e} :
    ~(board[other].assigned = pentester /\ board[other].status \in Booked /\ board[other].slot = slot)

Allowed(kind, arg, e) ==
  LET now == board[e] IN
  CASE kind = "claim"    -> now.status = "requested"
    [] kind = "scope"    -> now.status = "scoping"
    [] kind = "assign"   -> now.status = "scoping"
    [] kind = "schedule" -> now.status = "scoping" /\ now.assigned # None /\ now.quote
                            /\ has_no_conflict(now.assigned, arg, e)
    [] kind = "reassign" -> now.status = "scheduled" /\ arg # now.assigned
                            /\ has_no_conflict(arg, now.slot, e)
    [] kind = "reschedule" -> now.status = "scheduled" /\ arg # now.slot
                              /\ has_no_conflict(now.assigned, arg, e)
    [] kind = "start"    -> now.status = "scheduled"
    [] kind = "submit"   -> now.status = "in_progress"
    [] kind \in {"return", "complete"} -> now.status = "review"
    [] OTHER             -> now.status \in {"requested", "scoping", "scheduled", "in_progress"}

Written(kind, arg, now) ==
  CASE kind = "claim"    -> [now EXCEPT !.status = "scoping"]
    [] kind = "scope"    -> [now EXCEPT !.quote = TRUE]
    [] kind = "assign"   -> [now EXCEPT !.assigned = arg]
    [] kind = "schedule" -> [now EXCEPT !.slot = arg, !.status = "scheduled"]
    [] kind = "reassign" -> [now EXCEPT !.assigned = arg]
    [] kind = "reschedule" -> [now EXCEPT !.slot = arg]
    [] kind \in {"start", "return"} -> [now EXCEPT !.status = "in_progress"]
    [] kind = "submit"   -> [now EXCEPT !.status = "review"]
    [] kind = "complete" -> [now EXCEPT !.status = "completed"]
    [] OTHER             -> [now EXCEPT !.status = "cancelled"]

\* Once the engagement is written.
release_pentester_if_idle(p, after) ==
  \A e \in Engagements : ~(after[e].assigned = p /\ after[e].status \in Active)

Availability(op, after) ==
  CASE op.kind = "assign" -> [availability EXCEPT ![op.arg] = "engaged"]
    [] op.kind = "reassign" ->
         [p \in Pentesters |-> IF p = op.arg THEN "engaged"
                               ELSE IF p = op.from /\ release_pentester_if_idle(p, after)
                                 THEN "available" ELSE availability[p]]
    [] op.kind \in {"complete", "cancel"} /\ after[op.on].assigned # None ->
         IF release_pentester_if_idle(after[op.on].assigned, after)
           THEN [availability EXCEPT ![after[op.on].assigned] = "available"] ELSE availability
    [] OTHER -> availability

Answered(how) == [kind |-> None, arg |-> None, on |-> Mine, own |-> TRUE, phase |-> how, from |-> None]

Reads(kind, arg, e, own) ==
  /\ Cardinality(ops) < MaxOps
  /\ ops' = ops \union
       {IF Allowed(kind, arg, e)
          THEN [kind |-> kind, arg |-> arg, on |-> e, own |-> own, phase |-> "read",
                from |-> IF kind = "reassign" THEN board[e].assigned ELSE None]
          ELSE Answered("refused")}

\* The commit. What was read of the engagement, and of the pentester's other
\* engagements, may have changed by now. claim_engagement alone checks again.
Writes(op) ==
  /\ op \in ops /\ op.phase = "read"
  /\ IF op.kind = "claim" /\ board[op.on].status # "requested"
       THEN /\ ops' = (ops \ {op}) \union {Answered("refused")}
            /\ UNCHANGED <<board, availability, late, reopened, released>>
       ELSE LET after == [board EXCEPT ![op.on] = Written(op.kind, op.arg, @)] IN
            /\ board' = after /\ availability' = Availability(op, after)
            /\ ops' = IF op.own THEN (ops \ {op}) \union {Answered("done")} ELSE ops \ {op}
            /\ late' = (late \/ \E other \in ops \ {op} : other.phase = "read")
            /\ reopened' = (reopened \/ op.kind = "return")
            /\ released' = (released \/ \E p \in Pentesters, e \in Engagements :
                               /\ availability[p] = "engaged" /\ availability'[p] = "available"
                               /\ after[e].status = "scoping" /\ after[e].assigned = p)
  /\ UNCHANGED <<workspace, clicks, faults>>

-----------------------------------------------------------------------------
(* The others: the pentesters on their console, the colleague, and another    *)
(* window of the same user. They see the board.                              *)

\* What they do to an engagement, one of them at a time.
OtherKinds(e) ==
  IF \E op \in ops : ~op.own THEN {}
  ELSE IF e = Mine THEN {"start", "submit", "cancel"}
  ELSE {"start", "submit", "return", "complete", "reschedule"}

Others(kind, arg, e) ==
  /\ Allowed(kind, arg, e)
  /\ Reads(kind, arg, e, FALSE)
  /\ UNCHANGED <<board, availability, history, workspace, clicks, faults>>

-----------------------------------------------------------------------------
(* The workspace. Its buttons are those of the status it shows; there is no   *)
(* guard on an operation that is under way.                                  *)

Visible == detail # None /\ ~isLoading

\* What is read for the page at one time is one request.
load == isLoading' = TRUE

Detail == [status |-> board[Mine].status, assigned |-> board[Mine].assigned, quote |-> board[Mine].quote]

LoadArrives ==
  /\ isLoading /\ isLoading' = FALSE
  /\ detail' = Detail
  /\ UNCHANGED <<board, availability, ops, history, clicks, faults>>

\* A workspace that has never loaded goes on saying that it loads.
LoadFails ==
  /\ isLoading /\ isLoading' = FALSE
  /\ Fault
  /\ UNCHANGED <<board, availability, ops, history, detail, clicks>>

Offered(kind) ==
  CASE kind \in {"scope", "assign", "schedule"} -> detail.status = "scoping"
    [] kind \in {"reassign", "reschedule"} -> detail.status = "scheduled"
    [] kind = "return" -> detail.status = "review"
    [] OTHER -> detail.status \in {"requested", "scoping", "scheduled", "in_progress"}

\* ActionFormBody: what the form asks for before its button works.
Complete(kind, arg) ==
  CASE kind \in {"assign", "reassign"} -> arg \in Pentesters
    [] kind = "schedule"   -> arg \in Slots /\ detail.assigned # None /\ detail.quote
    [] kind = "reschedule" -> arg \in Slots
    [] OTHER               -> arg = None

\* A form is opened, filled in and sent off. What it was opened for is checked
\* by the service only: the engagement shown under it may change.
Submit(kind, arg) ==
  /\ Visible /\ Offered(kind) /\ Complete(kind, arg)
  /\ Reads(kind, arg, Mine, TRUE)
  /\ UNCHANGED <<board, availability, history, workspace, clicks, faults>>

\* Two buttons act without a form.
Press(kind) ==
  /\ Visible
  /\ detail.status = IF kind = "claim" THEN "requested" ELSE "review"
  /\ Reads(kind, None, Mine, TRUE)
  /\ UNCHANGED <<board, availability, history, workspace, clicks, faults>>

\* runAndReload; whatever form is open by now is closed.
Succeeds(op) ==
  /\ op \in ops /\ op.own /\ op.phase = "done"
  /\ ops' = ops \ {op}
  /\ load
  /\ UNCHANGED <<board, availability, history, detail, clicks, faults>>

\* The report of a review may not be ready; an answer may be lost.
Fails(op) ==
  /\ op \in ops /\ op.own
  /\ \/ op.phase = "refused" /\ UNCHANGED faults
     \/ op.phase = "read" /\ op.kind = "complete" /\ UNCHANGED faults
     \/ op.phase = "done" /\ Fault
  /\ ops' = ops \ {op}
  /\ UNCHANGED <<board, availability, history, detail, isLoading, clicks>>

Kinds == Forms \union {"claim", "complete", "start", "submit"}
Args == Pentesters \union Slots \union {None}
Fits(kind, arg) ==
  CASE kind \in {"assign", "reassign"} -> arg \in Pentesters
    [] kind \in {"schedule", "reschedule"} -> arg \in Slots
    [] OTHER -> arg = None

Next ==
  \/ \E e \in Engagements : \E kind \in OtherKinds(e), arg \in Args :
       Fits(kind, arg) /\ Others(kind, arg, e)
  \/ \E op \in ops : Writes(op) \/ Succeeds(op) \/ Fails(op)
  \/ LoadArrives \/ LoadFails
  \/ \E kind \in Forms, arg \in Args : Fits(kind, arg) /\ Submit(kind, arg)
  \/ \E kind \in {"claim", "complete"} : Press(kind)

Spec == Init /\ [][Next]_dvars

-----------------------------------------------------------------------------
\* A pentester is not booked twice for the same days, except where two
\* operations each checked before the other wrote, or an engagement came back
\* from its review, which is not checked.
NoDoubleBooking ==
  \A p \in Pentesters, s \in Slots :
    Cardinality({e \in Engagements : board[e].assigned = p /\ board[e].status \in Booked
                                     /\ board[e].slot = s}) <= 1 \/ late \/ reopened

\* A pentester at work is not offered as available, except where he was
\* released while another engagement was being scoped for him, or two
\* operations crossed.
AtWorkIsEngaged ==
  \A e \in Engagements :
    board[e].status \in Active => availability[board[e].assigned] = "engaged" \/ released \/ late
=============================================================================
