------------------------------ MODULE Messaging ------------------------------
(* The messaging page: MessagingWorkspace.tsx and inbox.ts. One user reads   *)
(* and writes in the conversations (threads) of an inbox; nothing is polled. *)
(* A message is a number: 0 if the other participant wrote it, else the text *)
(* the user typed, of which each is a new one.                               *)
EXTENDS PageBounds, Sequences, Functions

VARIABLES log,        \* at the backend: the messages of every thread
          readUpTo,   \* at the backend: how many of them are marked read
          mine,       \* at the backend: the threads the user may see
          account,    \* who is signed in: "first", or "second" since another tab changed it
          inbox,      \* the loaded inbox: its threads and their unread counts
          inboxState, \* "idle", "loading", or why it failed: "failed", "account"
          active,     \* the selected thread
          loaded,     \* the thread on display and how far its request is
          reading,    \* the request that marks them read
          orphans,    \* requests to mark as read that the page gave up
          drafts,     \* the text in the composer of each thread
          sends,      \* messages being sent
          sendError,  \* threads whose last message could not be confirmed
          typed,      \* how many texts were typed
          retried,    \* texts sent again after an error was shown
          viewed,     \* how many messages of a thread were ever on display
          noticed     \* the page has noticed the other account

server == <<log, readUpTo, mine, account>>
list   == <<inbox, inboxState>>
thread == <<active, loaded, reading, orphans>>
compose == <<drafts, sends, sendError, typed, retried>>
mvars == <<server, list, thread, compose, viewed, noticed, clicks, faults>>

NoInbox == [items |-> {}, unread |-> [t \in Threads |-> 0]]
Blank   == [key |-> None, phase |-> "blank"]

Unread(t) == Cardinality({i \in 1..Len(log[t]) : i > readUpTo[t] /\ log[t][i] = 0})
Accepts(t, who) == who = "first" /\ t \in mine

\* Every message that was loaded is on display.
Displayed(t) == Len(log[t])

TypeOK ==
  /\ log \in [Threads -> Seq(0..MaxTexts)] /\ mine \subseteq Threads
  /\ \A t \in Threads : readUpTo[t] <= Len(log[t]) /\ viewed[t] <= Len(log[t])
  /\ inbox.items \subseteq Threads
  /\ inboxState \in {"idle", "loading", "failed", "account"}
  /\ active \in inbox.items \union {None}
  /\ loaded.key = active
  /\ loaded.phase \in {"blank", "loading", "ready", "error"}
  /\ reading \in {"none", "sent", "done"} /\ orphans \subseteq Threads
  /\ drafts \in [Threads -> 0..MaxTexts]
  /\ sends \subseteq [t : Threads, text : 1..MaxTexts, as : {"first", "second"}, stored : BOOLEAN]
  /\ sendError \subseteq Threads /\ retried \subseteq 1..MaxTexts

Init ==
  /\ log = [t \in Threads |-> <<>>] /\ readUpTo = [t \in Threads |-> 0]
  /\ mine = Threads /\ account = "first"
  /\ inbox = NoInbox /\ inboxState = "loading"
  /\ active = None /\ loaded = Blank /\ reading = "none" /\ orphans = {}
  /\ drafts = [t \in Threads |-> 0] /\ sends = {} /\ sendError = {}
  /\ typed = 0 /\ retried = {}
  /\ viewed = [t \in Threads |-> 0] /\ noticed = FALSE
  /\ clicks = 0 /\ faults = 0

-----------------------------------------------------------------------------
(* The thread on display. Selecting another one, or asking for the same one  *)
(* again, aborts what the page still waits for; a PATCH that is on its way   *)
(* may be carried out all the same.                                          *)

GiveUpReading == orphans' = IF reading = "sent" THEN orphans \union {active} ELSE orphans

LoadThread(t) ==
  /\ active' = t
  /\ loaded' = IF t = None THEN Blank
               ELSE [key |-> t, phase |-> "loading"]
  /\ reading' = "none"
  /\ GiveUpReading

RefreshThread == LoadThread(active)

\* A thread whose messages are on display is marked read, unless the page was
\* opened in a tab nobody looks at.
ThreadArrives(visible) ==
  /\ loaded.phase = "loading"
  /\ clicks > 0 => visible
  /\ IF Accepts(loaded.key, account)
       THEN /\ loaded' = [loaded EXCEPT !.phase = "ready"]
            /\ viewed' = [viewed EXCEPT ![loaded.key] = Displayed(loaded.key)]
            /\ reading' = IF visible THEN "sent" ELSE "none"
       ELSE /\ loaded' = [loaded EXCEPT !.phase = "error"]
            /\ UNCHANGED <<viewed, reading>>
  /\ UNCHANGED <<server, list, active, orphans, compose, noticed, clicks, faults>>

ThreadFails ==
  /\ loaded.phase = "loading"
  /\ loaded' = [loaded EXCEPT !.phase = "error"]
  /\ Fault
  /\ UNCHANGED <<server, list, active, reading, orphans, compose, viewed, noticed, clicks>>

\* The backend marks every message of the thread, whatever the page has shown.
MarkMessagesRead(t) == readUpTo' = [readUpTo EXCEPT ![t] = Len(log[t])]

ReadServed ==
  /\ reading = "sent"
  /\ IF Accepts(active, account)
       THEN MarkMessagesRead(active) /\ reading' = "done"
       ELSE reading' = "none" /\ UNCHANGED readUpTo
  /\ UNCHANGED <<log, mine, account, list, active, loaded, orphans, compose, viewed, noticed, clicks, faults>>

ReadFails ==
  /\ reading # "none"
  /\ reading' = "none"
  /\ GiveUpReading
  /\ Fault
  /\ UNCHANGED <<server, list, active, loaded, compose, viewed, noticed, clicks>>

OrphanServed(t) ==
  /\ t \in orphans
  /\ Fault
  /\ orphans' = orphans \ {t}
  /\ IF t \in mine THEN MarkMessagesRead(t) ELSE UNCHANGED readUpTo
  /\ UNCHANGED <<log, mine, account, list, active, loaded, reading, compose, viewed, noticed, clicks>>

-----------------------------------------------------------------------------
(* The inbox.                                                                *)

RefreshInbox == inboxState' = "loading" /\ UNCHANGED inbox

ReadAnswered ==
  /\ reading = "done"
  /\ reading' = "none"
  /\ RefreshInbox
  /\ UNCHANGED <<server, active, loaded, orphans, compose, viewed, noticed, clicks, faults>>

\* Which thread to open first: the one the link names, else the one that was
\* open the last time, else the first of the list. A link to a thread that is
\* not there opens none.
SelectThread(items, linked, remembered) ==
  LET found == IF linked # None THEN {linked} \intersect items
               ELSE IF remembered \in items THEN {remembered} ELSE items
  IN  IF found = {} THEN {None} ELSE found

Opened(items) ==
  UNION {SelectThread(items, linked, remembered) : linked, remembered \in Threads \union {None}}

\* The first inbox selects a thread, a later one only drops a selection that is
\* no longer in it.
InboxArrives ==
  /\ inboxState = "loading" /\ account = "first"
  /\ inboxState' = "idle"
  /\ inbox' = [items |-> mine, unread |-> [t \in Threads |-> IF t \in mine THEN Unread(t) ELSE 0]]
  /\ \/ /\ inbox = NoInbox
        /\ \E t \in Opened(mine) : LoadThread(t)
     \/ /\ inbox # NoInbox
        /\ IF active \in mine \union {None}
             THEN UNCHANGED thread
             ELSE LoadThread(None)
  /\ UNCHANGED <<server, compose, viewed, noticed, clicks, faults>>

\* The inbox of another account: everything that belongs to the first one goes.
AccountChanged ==
  /\ inboxState = "loading" /\ account = "second"
  /\ inboxState' = "account" /\ inbox' = NoInbox
  /\ LoadThread(None)
  /\ drafts' = [t \in Threads |-> 0]
  /\ noticed' = TRUE
  /\ UNCHANGED <<server, sends, sendError, typed, retried, viewed, clicks, faults>>

InboxFails ==
  /\ inboxState = "loading"
  /\ inboxState' = "failed"
  /\ Fault
  /\ UNCHANGED <<server, inbox, thread, compose, viewed, noticed, clicks>>

-----------------------------------------------------------------------------
(* The user.                                                                 *)

\* The list is not on display while the inbox has an error.
Choose(t) ==
  /\ t \in inbox.items \ {active}
  /\ inboxState \in {"idle", "loading"}
  /\ Click
  /\ LoadThread(t)
  /\ UNCHANGED <<server, list, compose, viewed, noticed, faults>>

RefreshClicked ==
  /\ Click
  /\ RefreshInbox
  /\ IF active = None THEN UNCHANGED thread ELSE RefreshThread
  /\ UNCHANGED <<server, compose, viewed, noticed, faults>>

UpdateDraft ==
  /\ active # None /\ typed < MaxTexts
  /\ typed' = typed + 1
  /\ drafts' = [drafts EXCEPT ![active] = typed + 1]
  /\ UNCHANGED <<server, list, thread, sends, sendError, retried, viewed, noticed, clicks, faults>>

Sending(t) == \E s \in sends : s.t = t

\* A slip: the button is still enabled while a message is being sent.
SendTwice ==
  /\ active # None /\ drafts[active] # 0
  /\ loaded.phase = "ready" /\ inboxState \in {"idle", "loading"}
  /\ sends' = sends \union
       {[t |-> active, text |-> drafts[active], as |-> account, stored |-> FALSE]}
  /\ UNCHANGED <<server, list, thread, drafts, sendError, retried, typed, viewed, noticed, clicks, faults>>

Send ==
  /\ active # None /\ drafts[active] # 0 /\ ~Sending(active)
  /\ loaded.phase = "ready" /\ inboxState \in {"idle", "loading"}
  /\ sends' = sends \union
       {[t |-> active, text |-> drafts[active], as |-> account, stored |-> FALSE]}
  /\ sendError' = sendError \ {active}
  /\ retried' = IF active \in sendError THEN retried \union {drafts[active]} ELSE retried
  /\ UNCHANGED <<server, list, thread, drafts, typed, viewed, noticed, clicks, faults>>

SendServed(s) ==
  /\ s \in sends /\ ~s.stored /\ Accepts(s.t, s.as)
  /\ sends' = (sends \ {s}) \union {[s EXCEPT !.stored = TRUE]}
  /\ log' = [log EXCEPT ![s.t] = Append(@, s.text)]
  /\ UNCHANGED <<readUpTo, mine, account, list, thread, drafts, sendError, typed, retried,
                 viewed, noticed, clicks, faults>>

\* A slip: what was typed while the message was being sent goes as well.
ClearWhatever(s) == drafts' = [drafts EXCEPT ![s.t] = 0]

\* The draft is cleared only if it is still what was sent.
ClearSent(s) == drafts' = [drafts EXCEPT ![s.t] = IF @ = s.text THEN 0 ELSE @]

SendAnswered(s) ==
  /\ s \in sends /\ s.stored
  /\ sends' = sends \ {s}
  /\ ClearSent(s)
  /\ RefreshInbox
  /\ IF active = s.t THEN RefreshThread ELSE UNCHANGED thread
  /\ UNCHANGED <<server, sendError, typed, retried, viewed, noticed, clicks, faults>>

\* Refused, or the answer is lost: the draft stays and an error is shown.
SendRejected(s) ==
  /\ s \in sends
  /\ \/ ~s.stored /\ ~Accepts(s.t, s.as) /\ UNCHANGED faults
     \/ Fault
  /\ sends' = sends \ {s}
  /\ sendError' = sendError \union {s.t}
  /\ UNCHANGED <<server, list, thread, drafts, typed, retried, viewed, noticed, clicks>>

-----------------------------------------------------------------------------
(* Everybody else.                                                           *)

Receive(t) ==
  /\ FoldFunction(LAMBDA l, n : n + Len(SelectSeq(l, LAMBDA m : m = 0)), 0, log) < MaxIncoming
  /\ log' = [log EXCEPT ![t] = Append(@, 0)]
  /\ UNCHANGED <<readUpTo, mine, account, list, thread, compose, viewed, noticed, clicks, faults>>

\* The engagement is given to somebody else.
Revoke(t) ==
  /\ t \in mine
  /\ Click
  /\ mine' = mine \ {t}
  /\ UNCHANGED <<log, readUpTo, account, list, thread, compose, viewed, noticed, faults>>

\* Another tab of the browser signs in as somebody else, once the inbox is known.
SwitchAccount ==
  /\ account = "first" /\ inbox # NoInbox
  /\ Click
  /\ account' = "second"
  /\ UNCHANGED <<log, readUpTo, mine, list, thread, compose, viewed, noticed, faults>>

Arrives ==
  \/ ThreadArrives(TRUE) \/ ReadServed \/ ReadAnswered \/ InboxArrives \/ AccountChanged
  \/ \E s \in sends : SendServed(s) \/ SendAnswered(s) \/ SendRejected(s)

Next ==
  \/ Arrives
  \/ ThreadArrives(FALSE) \/ ThreadFails \/ ReadFails \/ InboxFails
  \/ \E t \in Threads : OrphanServed(t) \/ Choose(t) \/ Receive(t) \/ Revoke(t)
  \/ RefreshClicked \/ UpdateDraft \/ Send \/ SwitchAccount

Fairness ==
  /\ WF_mvars(ThreadArrives(TRUE)) /\ WF_mvars(ReadServed) /\ WF_mvars(ReadAnswered)
  /\ WF_mvars(InboxArrives) /\ WF_mvars(AccountChanged)

Spec == Init /\ [][Next]_mvars
FairSpec == Spec /\ Fairness

-----------------------------------------------------------------------------
\* A message is stored twice only if the user sent it again after the page
\* said that its delivery could not be confirmed (the error of send()).
NoSilentDuplicate ==
  \A t \in Threads, n \in 1..typed :
    n \notin retried => Cardinality({i \in 1..Len(log[t]) : log[t][i] = n}) <= 1

\* A draft only goes when the user types another, when the message is at the
\* backend, or with the account it belongs to: not when the answer to an earlier
\* message arrives, and not with an error ("Your draft is preserved").
DraftSurvives ==
  \A t \in Threads : drafts[t] # 0 /\ drafts'[t] # drafts[t] =>
    \/ typed' # typed
    \/ noticed'
    \/ \E i \in 1..Len(log[t]) : log[t][i] = drafts[t]
DraftIsKept == [][DraftSurvives]_mvars

\* Once the page has noticed that another account is signed in, no answer that
\* was still on its way brings back what the first account could see.
ForgottenStaysForgotten ==
  noticed => /\ inbox = NoInbox /\ active = None /\ loaded = Blank
             /\ drafts = [t \in Threads |-> 0]

\* An open conversation in which nothing is unread does not keep its badge in the
\* list, if every request is answered and all that is marked read was on display.
BadgeIsRight(t) ==
  \/ active # t \/ inbox.unread[t] = 0 \/ Unread(t) > 0
  \/ readUpTo[t] > viewed[t] \/ t \notin mine \/ account = "second" \/ faults > 0
BadgeSettles == \A t \in Threads : []<>BadgeIsRight(t)

\* Why: the inbox of the other account is the last one the page asks for.
Forgotten == noticed => account = "second" /\ ForgottenStaysForgotten
=============================================================================
