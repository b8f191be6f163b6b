------------------------------ MODULE Directory ------------------------------
(* The directory of the pentesters: service-delivery/pentesters/page.tsx, the  *)
(* workload it adds up (workload.ts), and the two systems in which an account  *)
(* exists: the profile in the database and the login in Keycloak.              *)
EXTENDS PageBounds, Sequences

VARIABLES profiles,  \* at the backend: the profile of each pentester
          logins,    \* in Keycloak: the account of each pentester
          creating,  \* how far the request to add a pentester is
          strays,    \* accounts whose removal failed
          addOpen, filled, addError, \* the dialog: open, filled in, with an error
          removing,  \* the request to deactivate a pentester, None without
          locking,   \* pentesters whose login could not be disabled
          opening,   \* details asked for and not yet there
          selected,  \* the profile on display, as it was loaded
          confirm,   \* its "Deactivate?" is shown
          asked,     \* pentesters for whom it was
          view, rows, lists, \* the filter, the list, and the answers on their way
          work       \* the workload: engagements there, counted, and whether that is over

dvars == <<profiles, logins, creating, strays, addOpen, filled, addError, removing, locking, opening,
           selected, confirm, asked, view, rows, lists, work, clicks, faults>>
accounts == <<profiles, logins, strays, locking>>
dialog   == <<addOpen, filled, addError>>
panel    == <<opening, selected, confirm, asked>>
listing  == <<view, rows, lists>>

People == {"ann", "ben", "new"}
Views  == {"all", "available"}
Steps  == {"idle", "sent", "account", "role", "clean", "created", "failed"}

TypeOK ==
  /\ profiles \in [People -> {"none", "active", "inactive"}]
  /\ logins \in [People -> {"none", "enabled", "disabled"}]
  /\ creating \in Steps /\ strays \subseteq People /\ locking \subseteq People
  /\ removing \in [who : People, step : {"sent", "inactive", "done", "failed"}] \union {None}
  /\ selected \in [who : People, active : BOOLEAN] \union {None}
  /\ view \in Views /\ rows \subseteq People

\* "ben" is engaged.
Listed(v) == {p \in People : profiles[p] # "none" /\ (v = "available" => p # "ben")}

Init ==
  /\ profiles = [p \in People |-> IF p = "new" THEN "none" ELSE "active"]
  /\ logins = [p \in People |-> IF p = "new" THEN "none" ELSE "enabled"]
  /\ creating = "idle" /\ strays = {} /\ addOpen = FALSE /\ filled = FALSE /\ addError = FALSE
  /\ removing = None /\ locking = {} /\ opening = {} /\ selected = None /\ confirm = FALSE /\ asked = {}
  /\ view = "all" /\ rows = {} /\ lists = <<Listed(view)>>
  /\ work = [there |-> 1, offset |-> 0, counted |-> 0, over |-> FALSE]
  /\ clicks = 0 /\ faults = 0

-----------------------------------------------------------------------------
(* The list and its filters.                                                 *)

\* loadPentesters: nothing relates the answer to the filter it was asked for.
loadPentesters(v) == lists' = Append(lists, Listed(v))

ChooseView(v) ==
  /\ v # view /\ Len(lists) < 2 /\ Click
  /\ view' = v /\ loadPentesters(v)
  /\ UNCHANGED <<accounts, creating, dialog, removing, panel, rows, work, faults>>

\* Answers come in any order, and the last one to come is shown.
ListArrives(i) ==
  /\ i \in 1..Len(lists)
  /\ rows' = lists[i]
  /\ lists' = SubSeq(lists, 1, i - 1) \o SubSeq(lists, i + 1, Len(lists))
  /\ UNCHANGED <<accounts, creating, dialog, removing, panel, view, work, clicks, faults>>

-----------------------------------------------------------------------------
(* Adding a pentester: the dialog, and the two systems behind it.            *)

OpenDialog ==
  /\ ~addOpen /\ selected = None /\ Click
  /\ addOpen' = TRUE /\ addError' = FALSE
  /\ UNCHANGED <<accounts, creating, filled, removing, panel, listing, work, faults>>

FillIn ==
  /\ addOpen /\ creating = "idle" /\ ~filled
  /\ filled' = TRUE
  /\ UNCHANGED <<accounts, creating, addOpen, addError, removing, panel, listing, work, clicks, faults>>

\* Cancel empties the form; the backdrop and Escape only hide it.
CloseDialog ==
  /\ addOpen /\ creating = "idle"
  /\ addOpen' = FALSE /\ filled' \in {FALSE, filled}
  /\ UNCHANGED <<accounts, creating, addError, removing, panel, listing, work, clicks, faults>>

handleAddPentester ==
  /\ addOpen /\ filled /\ creating = "idle" /\ Click
  /\ creating' = "sent" /\ addError' = FALSE
  /\ UNCHANGED <<accounts, addOpen, filled, removing, panel, listing, work, faults>>

\* A known address is refused by the database, or by Keycloak.
CreateAccount ==
  /\ creating = "sent"
  /\ IF profiles["new"] # "none" \/ logins["new"] # "none"
     THEN creating' = "failed" /\ UNCHANGED logins
     ELSE creating' = "account" /\ logins' = [logins EXCEPT !["new"] = "enabled"]
  /\ UNCHANGED <<profiles, strays, locking, dialog, removing, panel, listing, work, clicks, faults>>

AssignRole ==
  /\ creating = "account"
  /\ creating' = "role"
  /\ UNCHANGED <<accounts, dialog, removing, panel, listing, work, clicks, faults>>

CreateProfile ==
  /\ creating = "role"
  /\ profiles' = [profiles EXCEPT !["new"] = "active"] /\ creating' = "created"
  /\ UNCHANGED <<logins, strays, locking, dialog, removing, panel, listing, work, clicks, faults>>

\* The role or the profile fails: the account in Keycloak has to go again.
CreationFails ==
  /\ creating \in {"account", "role"} /\ Fault
  /\ creating' = "clean"
  /\ UNCHANGED <<accounts, dialog, removing, panel, listing, work, clicks>>

\* What made the step before it fail may make the clean-up fail as well.
CleanUp ==
  /\ creating = "clean"
  /\ creating' = "failed"
  /\ \/ logins' = [logins EXCEPT !["new"] = "none"] /\ UNCHANGED strays
     \/ strays' = strays \union {"new"} /\ UNCHANGED logins
  /\ UNCHANGED <<profiles, locking, dialog, removing, panel, listing, work, clicks, faults>>

PentesterAdded ==
  /\ creating = "created" /\ Len(lists) < 2
  /\ creating' = "idle" /\ addOpen' = FALSE /\ filled' = FALSE
  /\ loadPentesters(view)
  /\ UNCHANGED <<accounts, addError, removing, panel, view, rows, work, clicks, faults>>

AddingFails ==
  /\ creating \in {"failed", "created"}
  /\ IF creating = "created" THEN Fault ELSE UNCHANGED faults
  /\ creating' = "idle" /\ addError' = TRUE
  /\ UNCHANGED <<accounts, addOpen, filled, removing, panel, listing, work, clicks>>

-----------------------------------------------------------------------------
(* A profile, and its deactivation.                                          *)

openPentester(p) ==
  /\ p \in rows /\ ~addOpen /\ selected = None /\ Click
  /\ opening' = opening \union {p}
  /\ UNCHANGED <<accounts, creating, dialog, removing, selected, confirm, asked, listing, work, faults>>

\* Whichever profile arrives is shown, also over another one.
DetailArrives(p) ==
  /\ p \in opening
  /\ opening' = opening \ {p}
  /\ selected' = [who |-> p, active |-> profiles[p] = "active"] /\ confirm' = FALSE
  /\ UNCHANGED <<accounts, creating, dialog, removing, asked, listing, work, clicks, faults>>

CloseProfile ==
  /\ selected # None
  /\ selected' = None /\ confirm' = FALSE
  /\ UNCHANGED <<accounts, creating, dialog, removing, opening, asked, listing, work, clicks, faults>>

AskToDeactivate ==
  /\ selected # None /\ selected.active /\ ~confirm
  /\ confirm' = TRUE /\ asked' = asked \union {selected.who}
  /\ UNCHANGED <<accounts, creating, dialog, removing, opening, selected, listing, work, clicks, faults>>

handleDeletePentester ==
  /\ selected # None /\ selected.active /\ confirm /\ removing = None /\ Click
  /\ removing' = [who |-> selected.who, step |-> "sent"]
  /\ UNCHANGED <<accounts, creating, dialog, panel, listing, work, faults>>

\* First the profile, in a transaction of its own.
DeactivateProfile ==
  /\ removing # None /\ removing.step = "sent"
  /\ profiles' = [profiles EXCEPT ![removing.who] = "inactive"]
  /\ removing' = [removing EXCEPT !.step = "inactive"]
  /\ UNCHANGED <<logins, strays, locking, creating, dialog, panel, listing, work, clicks, faults>>

\* A slip: the login stays.
SkipKeycloak ==
  /\ removing # None /\ removing.step = "inactive"
  /\ removing' = [removing EXCEPT !.step = "done"]
  /\ UNCHANGED <<accounts, creating, dialog, panel, listing, work, clicks, faults>>

\* Then the login, which may fail: the error says that only the profile is.
DisableLogin ==
  /\ removing # None /\ removing.step = "inactive"
  /\ \/ /\ logins' = [logins EXCEPT ![removing.who] = "disabled"]
        /\ locking' = locking \ {removing.who}
        /\ removing' = [removing EXCEPT !.step = "done"] /\ UNCHANGED faults
     \/ /\ Fault /\ locking' = locking \union {removing.who}
        /\ removing' = [removing EXCEPT !.step = "failed"] /\ UNCHANGED logins
  /\ UNCHANGED <<profiles, strays, creating, dialog, panel, listing, work, clicks>>

\* Whichever profile is open closes.
Deactivated ==
  /\ removing # None /\ removing.step = "done" /\ Len(lists) < 2
  /\ removing' = None /\ selected' = None /\ confirm' = FALSE
  /\ loadPentesters(view)
  /\ UNCHANGED <<accounts, creating, dialog, opening, asked, view, rows, work, clicks, faults>>

DeactivationFails ==
  /\ removing # None /\ removing.step \in {"failed", "done"}
  /\ IF removing.step = "done" THEN Fault ELSE UNCHANGED faults
  /\ removing' = None
  /\ UNCHANGED <<accounts, creating, dialog, panel, listing, work, clicks>>

-----------------------------------------------------------------------------
(* The workload: all assigned engagements, a page of one at a time.          *)

EngagementArrives ==
  /\ work.there < 2
  /\ work' = [work EXCEPT !.there = @ + 1]
  /\ UNCHANGED <<accounts, creating, dialog, removing, panel, listing, clicks, faults>>

Fetched == IF work.offset < work.there THEN 1 ELSE 0

NextOffset == work.offset + Fetched

loadWorkload ==
  /\ ~work.over
  /\ work' = [work EXCEPT !.counted = IF @ < 2 THEN @ + Fetched ELSE @,
                          !.over = (Fetched = 0 \/ work.offset + Fetched >= work.there),
                          !.offset = NextOffset]
  /\ UNCHANGED <<accounts, creating, dialog, removing, panel, listing, clicks, faults>>

-----------------------------------------------------------------------------
Adding == CreateAccount \/ AssignRole \/ CreateProfile \/ CleanUp \/ PentesterAdded
          \/ (creating = "failed" /\ AddingFails)

Next ==
  \/ \E v \in Views : ChooseView(v)
  \/ \E i \in 1..2 : ListArrives(i)
  \/ OpenDialog \/ FillIn \/ CloseDialog \/ handleAddPentester
  \/ Adding \/ CreationFails \/ AddingFails
  \/ \E p \in People : openPentester(p) \/ DetailArrives(p)
  \/ CloseProfile \/ AskToDeactivate \/ handleDeletePentester
  \/ DeactivateProfile \/ DisableLogin \/ Deactivated \/ DeactivationFails
  \/ EngagementArrives \/ loadWorkload

Spec == Init /\ [][Next]_dvars

-----------------------------------------------------------------------------
\* Nobody is deactivated for whom that was not asked and confirmed, in whatever
\* order the profiles arrive.
DeactivatedWasConfirmed == \A p \in People : profiles[p] = "inactive" => p \in asked

\* A login without a profile is one whose removal failed, or one being created.
NoStrayLogin ==
  creating \in {"idle", "sent", "created", "failed"} =>
    \A p \in People : logins[p] # "none" => profiles[p] # "none" \/ p \in strays

\* Once a deactivation is over, the login is disabled, unless that failed.
DeactivatedIsLockedOut ==
  \A p \in People :
    profiles[p] = "inactive" /\ (removing = None \/ removing.who # p) =>
      logins[p] = "disabled" \/ p \in locking

-----------------------------------------------------------------------------
(* Why they hold: the inductive invariant.                                    *)

Typed ==
  /\ TypeOK /\ lists \in Seq(SUBSET People) /\ opening \subseteq People
  /\ confirm \in BOOLEAN /\ asked \subseteq People

\* Whoever is on display, or was chosen there, has a profile, and keeps it.
Known == {p \in People : profiles[p] # "none"}
ShownAreKnown ==
  /\ rows \subseteq Known /\ opening \subseteq Known
  /\ \A i \in 1..Len(lists) : lists[i] \subseteq Known
  /\ selected # None => selected.who \in Known
  /\ removing # None => removing.who \in Known

\* The question that is shown was asked for the profile behind it.
DeactivationsAreConfirmed ==
  /\ confirm => selected # None /\ selected.who \in asked
  /\ removing # None => removing.who \in asked
  /\ DeactivatedWasConfirmed

HalfCreated == creating \in {"account", "role", "clean"}

\* Only the account being created has a login and no profile.
AccountsAreSound ==
  /\ HalfCreated => profiles["new"] = "none" /\ logins["new"] = "enabled"
  /\ \A p \in People : logins[p] # "none" =>
       profiles[p] # "none" \/ p \in strays \/ (p = "new" /\ HalfCreated)
  /\ removing # None /\ removing.step = "done" => logins[removing.who] = "disabled"
  /\ removing # None /\ removing.step = "failed" => removing.who \in locking
  /\ DeactivatedIsLockedOut

IInv == Typed /\ ShownAreKnown /\ DeactivationsAreConfirmed /\ AccountsAreSound
=============================================================================
