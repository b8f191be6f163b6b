---------------------------- MODULE Notifications ----------------------------
(* The bell of the menu: NotificationMenu.tsx and notificationService.ts. The  *)
(* list is polled, so several answers may be on their way at once, and the     *)
(* page counts unread notifications by itself between two polls.               *)
EXTENDS PageBounds

VARIABLES posted,    \* at the backend: how many notifications the user has
          seen,      \* at the backend: those that are read
          menuOpen,  \* the panel is open
          items,     \* the list on display: how many, and which of them are read
          badge,     \* unread_count
          polls,     \* answers to a refresh that are on their way
          patches,   \* notifications being marked read, and whether they are
          readAll    \* "none", "sent" or "served": the request to mark all read

nvars == <<posted, seen, menuOpen, items, badge, polls, patches, readAll, clicks, faults>>

Answers == [known : 0..MaxAlerts, read : SUBSET (1..MaxAlerts)]

TypeOK ==
  /\ posted \in 0..MaxAlerts /\ seen \subseteq 1..posted
  /\ items \in Answers /\ polls \subseteq Answers /\ badge \in 0..MaxAlerts
  /\ patches \subseteq [id : 1..MaxAlerts, served : BOOLEAN]
  /\ readAll \in {"none", "sent", "served"}

Init ==
  /\ posted = 1 /\ seen = {} /\ menuOpen = FALSE
  /\ items = [known |-> 0, read |-> {}] /\ badge = 0
  /\ polls = {} /\ patches = {} /\ readAll = "none"
  /\ clicks = 0 /\ faults = 0

Post ==
  /\ posted < MaxAlerts
  /\ posted' = posted + 1
  /\ UNCHANGED <<seen, menuOpen, items, badge, polls, patches, readAll, clicks, faults>>

\* Asked when the menu is mounted and every 30 seconds, without waiting for the
\* answer to the last one.
refresh == polls' = polls \union {[known |-> posted, read |-> seen]}

Poll ==
  /\ Cardinality(polls) < 2
  /\ refresh
  /\ UNCHANGED <<posted, seen, menuOpen, items, badge, patches, readAll, clicks, faults>>

fetchNotifications(answer) ==
  /\ answer \in polls
  /\ polls' = polls \ {answer}
  /\ items' = answer
  /\ badge' = answer.known - Cardinality(answer.read)
  /\ UNCHANGED <<posted, seen, menuOpen, patches, readAll, clicks, faults>>

PollFails(answer) ==
  /\ answer \in polls
  /\ polls' = polls \ {answer}
  /\ Fault
  /\ UNCHANGED <<posted, seen, menuOpen, items, badge, patches, readAll, clicks>>

Toggle ==
  /\ Click
  /\ menuOpen' = ~menuOpen
  /\ refresh
  /\ UNCHANGED <<posted, seen, items, badge, patches, readAll, faults>>

\* Escape, or a press anywhere else.
Close ==
  /\ menuOpen
  /\ menuOpen' = FALSE
  /\ UNCHANGED <<posted, seen, items, badge, polls, patches, readAll, clicks, faults>>

ClickNotification(id) ==
  /\ menuOpen /\ id \in (1..items.known) \ items.read
  /\ Click
  /\ patches' = patches \union {[id |-> id, served |-> FALSE]}
  /\ UNCHANGED <<posted, seen, menuOpen, items, badge, polls, readAll, faults>>

markNotificationRead(patch) ==
  /\ patch \in patches /\ ~patch.served
  /\ seen' = seen \union {patch.id}
  /\ patches' = (patches \ {patch}) \union {[patch EXCEPT !.served = TRUE]}
  /\ UNCHANGED <<posted, menuOpen, items, badge, polls, readAll, clicks, faults>>

\* The badge goes down by one, whatever a poll has made of it in the meantime.
handleNotificationClick(patch) ==
  /\ patch \in patches /\ patch.served
  /\ patches' = patches \ {patch}
  /\ items' = [items EXCEPT !.read = @ \union ({patch.id} \intersect (1..items.known))]
  /\ badge' = IF badge > 0 THEN badge - 1 ELSE 0
  /\ UNCHANGED <<posted, seen, menuOpen, polls, readAll, clicks, faults>>

\* Nothing catches the error of a single notification: it stays as it was.
PatchFails(patch) ==
  /\ patch \in patches
  /\ Fault
  /\ patches' = patches \ {patch}
  /\ UNCHANGED <<posted, seen, menuOpen, items, badge, polls, readAll, clicks>>

ClickReadAll ==
  /\ menuOpen /\ readAll = "none" /\ badge > 0
  /\ Click
  /\ readAll' = "sent"
  /\ UNCHANGED <<posted, seen, menuOpen, items, badge, polls, patches, faults>>

\* All there are by now, those the panel has not shown included.
markAllNotificationsRead ==
  /\ readAll = "sent"
  /\ readAll' = "served"
  /\ seen' = 1..posted
  /\ UNCHANGED <<posted, menuOpen, items, badge, polls, patches, clicks, faults>>

handleMarkAllRead ==
  /\ readAll = "served"
  /\ readAll' = "none"
  /\ items' = [items EXCEPT !.read = 1..items.known]
  /\ badge' = 0
  /\ UNCHANGED <<posted, seen, menuOpen, polls, patches, clicks, faults>>

ReadAllFails ==
  /\ readAll # "none"
  /\ Fault
  /\ readAll' = "none"
  /\ UNCHANGED <<posted, seen, menuOpen, items, badge, polls, patches, clicks>>

Answered ==
  \/ \E answer \in polls : fetchNotifications(answer)
  \/ \E patch \in patches : markNotificationRead(patch) \/ handleNotificationClick(patch)
  \/ markAllNotificationsRead \/ handleMarkAllRead

Next ==
  \/ Answered
  \/ Post \/ Poll \/ Toggle \/ Close \/ ClickReadAll \/ ReadAllFails
  \/ \E answer \in polls : PollFails(answer)
  \/ \E patch \in patches : PatchFails(patch)
  \/ \E id \in 1..MaxAlerts : ClickNotification(id)

\* Every answer comes, and the interval of the visible page never ends.
PatchGoesOn(patch) == markNotificationRead(patch) \/ handleNotificationClick(patch)
ReadAllGoesOn == markAllNotificationsRead \/ handleMarkAllRead

Fairness ==
  /\ WF_nvars(Poll)
  /\ \A known \in 0..MaxAlerts : \A read \in SUBSET (1..known) :
       WF_nvars(fetchNotifications([known |-> known, read |-> read]))
  /\ \A id \in 1..MaxAlerts, served \in BOOLEAN :
       WF_nvars(PatchGoesOn([id |-> id, served |-> served]))
  /\ WF_nvars(ReadAllGoesOn)

Spec == Init /\ [][Next]_nvars
FairSpec == Spec /\ Fairness

-----------------------------------------------------------------------------
\* Whatever clicks, double clicks, late answers and the badge's own arithmetic
\* did to it, the badge ends up with the number of unread notifications.
BadgeIsRight ==
  badge = posted - Cardinality(seen) /\ items = [known |-> posted, read |-> seen]
BadgeBecomesRight == <>[]BadgeIsRight
=============================================================================
