------------------------------ MODULE Assistant ------------------------------
(* The two ways to ask about the data of the page: the panel AskPenFlow.tsx,  *)
(* which is on every page and keeps a conversation, and the analyst of a scan *)
(* (SecurityAnalyst.tsx), which has to prepare the findings first.            *)
EXTENDS PageBounds, Sequences

VARIABLES at,        \* the page the user is on
          turns,     \* the conversation, oldest first
          asked,     \* how many questions were asked
          pending,   \* the question that is being answered, None without
          copied,    \* copyStatus: the turn whose answer "was copied"
          clipboard, \* the answer that was copied
          copying,   \* the answer on its way to the clipboard, <<>> without
          crossed,   \* it got there after its question was asked anew
          prepared,  \* preparationStatus of the analyst
          query,     \* "none", "sent": the question to the analyst
          reply      \* its answer on display: "none", "answer" or "error"

avars == <<at, turns, asked, pending, copied, clipboard, copying, crossed, prepared, query, reply, clicks, faults>>
copies == <<clipboard, copying, crossed>>
chat == <<turns, asked, pending, copied, copies>>
analyst == <<prepared, query, reply>>

Pages == {"general", "scan"}
MaxTurns == 2      \* 20 in the code
MaxHistory == 1    \* 3 in the code

\* A turn: its number, how often it was asked, the page it was asked on, what
\* came of it, and the turns that were sent along as its history.
TypeOK ==
  /\ at \in Pages /\ Len(turns) <= MaxTurns /\ asked \in Nat
  /\ \A i \in 1..Len(turns) : turns[i].outcome \in {"pending", "answered", "failed"}
  /\ Len(copying) \in {0, 2} /\ crossed \in BOOLEAN
  /\ pending \in Nat \union {None} /\ copied \in Nat \union {None}
  /\ prepared \in {"idle", "preparing", "ready"} /\ query \in {"none", "sent"}
  /\ reply \in {"none", "answer", "error"}

Init ==
  /\ at \in Pages /\ turns = <<>> /\ asked = 0 /\ pending = None /\ copied = None
  /\ clipboard = <<>> /\ copying = <<>> /\ crossed = FALSE
  /\ prepared = "preparing" /\ query = "none" /\ reply = "none" /\ clicks = 0 /\ faults = 0

Last(s, n) == SubSeq(s, IF Len(s) > n THEN Len(s) - n + 1 ELSE 1, Len(s))
Answered(turn) == turn.outcome = "answered"

\* What is sent along: the last answered turns among the first k, those before the one that
\* is asked.
Preceding(k) == {i \in 1..k : Answered(turns[i])}
history(k) ==
  {turns[i].no : i \in {i \in Preceding(k) : Cardinality({j \in Preceding(k) : j > i}) < MaxHistory}}

\* What the question is about: the scan of the page, or everything of the user.
deriveAssistantContext(page) ==
  IF page = "scan" THEN [page |-> "scan", scan |-> TRUE] ELSE [page |-> "general", scan |-> FALSE]

-----------------------------------------------------------------------------
(* AskPenFlow.                                                               *)

Asked(turn, k) == [turn EXCEPT !.outcome = "pending", !.times = @ + 1,
                               !.context = deriveAssistantContext(at), !.history = history(k)]

\* What is under a turn, and whether the form takes another question.
TurnButtons(turn) ==
  CASE Answered(turn) -> {"Copy answer"} \union {b \in {"Try again"} : pending = None}
    [] turn.outcome = "failed" -> {b \in {"Retry"} : pending = None}
    [] OTHER -> {}
QuestionForm == pending = None

submitQuestion ==
  /\ QuestionForm /\ Click
  /\ asked' = asked + 1 /\ pending' = asked' /\ copied' = None
  /\ LET turn == [no |-> asked', outcome |-> "pending", times |-> 0, context |-> None,
                  history |-> {}]
     IN turns' = Last(Append(turns, Asked(turn, Len(turns))), MaxTurns)
  /\ UNCHANGED <<at, copies, analyst, faults>>

\* "Retry" after an error and "Try again" under an answer: the answer is gone,
\* and the question is asked on the page that is open now.
retry(i) ==
  /\ i \in 1..Len(turns) /\ TurnButtons(turns[i]) \intersect {"Retry", "Try again"} # {} /\ Click
  /\ pending' = turns[i].no /\ copied' = None
  /\ turns' = [turns EXCEPT ![i] = Asked(turns[i], i - 1)]
  /\ UNCHANGED <<at, asked, copies, analyst, faults>>

Settle(outcome) ==
  /\ pending # None
  /\ pending' = None
  /\ turns' = [i \in 1..Len(turns) |->
                 IF turns[i].no = pending THEN [turns[i] EXCEPT !.outcome = outcome] ELSE turns[i]]
  /\ UNCHANGED <<at, asked, copied, copies, analyst, clicks>>

QueryAnswered == Settle("answered") /\ UNCHANGED faults
QueryFails == Fault /\ Settle("failed")

\* ASSISTANT_REQUEST_TIMEOUT_MS: the request is given up, whatever the backend
\* is doing.
AbortQuery == Settle("failed") /\ UNCHANGED faults

\* The conversation can be cleared while a question is being answered: its
\* answer finds no turn.
clearConversation ==
  /\ turns # <<>> /\ Click
  /\ turns' = <<>> /\ copied' = None
  /\ UNCHANGED <<at, asked, pending, copies, analyst, faults>>

copyAnswer(i) ==
  /\ i \in 1..Len(turns) /\ "Copy answer" \in TurnButtons(turns[i]) /\ copying = <<>> /\ Click
  /\ copying' = <<turns[i].no, turns[i].times>>
  /\ UNCHANGED <<at, turns, asked, pending, copied, clipboard, crossed, analyst, faults>>

\* The browser may have to ask the user first; the question may be asked anew
\* meanwhile.
Copied ==
  /\ copying # <<>>
  /\ copying' = <<>> /\ clipboard' = copying /\ copied' = copying[1]
  /\ crossed' = \E i \in 1..Len(turns) : turns[i].no = copying[1] /\ turns[i].times # copying[2]
  /\ UNCHANGED <<at, turns, asked, pending, analyst, clicks, faults>>

\* The panel stays with its conversation; the note on the copy goes.
Visit(page) ==
  /\ page # at /\ Click
  /\ at' = page /\ copied' = None
  /\ prepared' = IF page = "scan" THEN "preparing" ELSE prepared
  /\ query' = "none" /\ reply' = "none"
  /\ UNCHANGED <<turns, asked, pending, copies, faults>>

-----------------------------------------------------------------------------
(* SecurityAnalyst, on the page of a scan.                                   *)

prepareAnalyst ==
  /\ at = "scan" /\ prepared # "preparing" /\ Click
  /\ prepared' = "preparing" /\ reply' = IF reply = "error" THEN "none" ELSE reply
  /\ UNCHANGED <<at, chat, query, faults>>

Prepared ==
  /\ at = "scan" /\ prepared = "preparing"
  /\ prepared' = "ready"
  /\ UNCHANGED <<at, chat, query, reply, clicks, faults>>

PreparationFails ==
  /\ at = "scan" /\ prepared = "preparing" /\ Fault
  /\ prepared' = "idle" /\ reply' = IF reply = "none" THEN "error" ELSE reply
  /\ UNCHANGED <<at, chat, query, clicks>>

canSubmit == prepared = "ready" /\ query = "none"

AskAnalyst ==
  /\ at = "scan" /\ canSubmit /\ Click
  /\ query' = "sent" /\ reply' = "none"
  /\ UNCHANGED <<at, chat, prepared, faults>>

AnalystAnswers ==
  /\ query = "sent"
  /\ query' = "none" /\ reply' = "answer"
  /\ UNCHANGED <<at, chat, prepared, clicks, faults>>

AnalystFails ==
  /\ query = "sent" /\ Fault
  /\ query' = "none" /\ reply' = "error"
  /\ UNCHANGED <<at, chat, prepared, clicks>>

Next ==
  \/ submitQuestion \/ QueryAnswered \/ QueryFails \/ AbortQuery \/ Copied \/ clearConversation
  \/ \E i \in 1..MaxTurns : retry(i) \/ copyAnswer(i)
  \/ \E page \in Pages : Visit(page)
  \/ prepareAnalyst \/ Prepared \/ PreparationFails
  \/ AskAnalyst \/ AnalystAnswers \/ AnalystFails

\* The timer of a request fires, whether the backend answers or not.
Fairness == WF_avars(AbortQuery)

Spec == Init /\ [][Next]_avars
FairSpec == Spec /\ Fairness

-----------------------------------------------------------------------------
\* A question is asked with what was answered before it, never with the answers
\* to later questions nor with the answer it is to replace.
HistoryComesBefore ==
  \A i \in 1..Len(turns) : \A no \in turns[i].history : no < turns[i].no

\* "Copied" stands under the answer that was copied, not under the one that has
\* replaced it, unless the copy itself crossed the new question.
CopiedIsShown ==
  ~crossed => \A i \in 1..Len(turns) :
    copied = turns[i].no /\ Answered(turns[i]) => clipboard = <<turns[i].no, turns[i].times>>

\* The form is never blocked for good: a question is answered or given up.
Asking == pending # None
QuestionsEnd == Asking ~> ~Asking
=============================================================================
