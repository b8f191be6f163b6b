----------------------------- MODULE ReportPage -----------------------------
(* The page of a report, app/report/[scan_id]/page.tsx: it asks for the       *)
(* summary until the PDF is there, plays an introduction the first time, and  *)
(* mails the report.                                                          *)
EXTENDS PageBounds

VARIABLES pdf,       \* at the backend: "generating", "completed" or "failed"
          report,    \* the report status of the loaded summary, None before
          checking,  \* "sent" while the page asks, "timer" between two checks
          checks,    \* how many checks found the PDF not ready
          gaveUp,
          error,     \* a check failed
          intro,     \* "pending", "off", "loading", "playing" or "done"
          timeline,  \* the animation is built
          counts,    \* what the numbers of the page show: "value" or "zero"
          early,     \* the introduction was skipped before it was built
          mail,      \* "idle", "sending", "sent" or "error"
          address,   \* the text in the e-mail field: a number, 0 if it is empty
          target,    \* the address the mail under way goes to
          sentTo,    \* the address the page says it was sent to
          mails      \* at the backend: the addresses the report was sent to

rvars == <<pdf, report, checking, checks, gaveUp, error, intro, timeline, counts, early,
           mail, address, target, sentTo, mails, clicks, faults>>
load  == <<report, checking, checks, gaveUp, error>>
show  == <<intro, timeline, counts, early>>
email == <<mail, address, target, sentTo, mails>>

reportState ==
  CASE report = "completed"         -> "ready"
    [] report = "failed" \/ gaveUp  -> "failed"
    [] OTHER                        -> "preparing"

TypeOK ==
  /\ pdf \in {"generating", "completed", "failed"} /\ report \in {pdf, "generating", None}
  /\ checking \in {"none", "sent", "timer"} /\ checks \in 0..MaxReportChecks + 1
  /\ intro \in {"pending", "off", "loading", "playing", "done"}
  /\ timeline => intro = "playing"
  /\ mail \in {"idle", "sending", "sent", "error"}

Init ==
  /\ pdf = "generating" /\ report = None /\ checking = "sent" /\ checks = 0 /\ gaveUp = FALSE
  /\ error = FALSE
  /\ intro = "pending" /\ timeline = FALSE /\ counts = "value" /\ early = FALSE
  /\ mail = "idle" /\ address = 0 /\ target = 0 /\ sentTo = None /\ mails = {}
  /\ clicks = 0 /\ faults = 0

Generated ==
  /\ pdf = "generating"
  /\ pdf' \in {"completed", "failed"}
  /\ UNCHANGED <<load, show, email, clicks, faults>>

-----------------------------------------------------------------------------
(* Waiting for the PDF.                                                      *)

AfterCheck(result) ==
  IF result = "generating"
    THEN /\ checks' = checks + 1
         /\ checking' = IF checks' > MaxReportChecks THEN "none" ELSE "timer"
         /\ gaveUp' = (checks' > MaxReportChecks)
    ELSE checking' = "none" /\ UNCHANGED <<checks, gaveUp>>

SummaryArrives ==
  /\ checking = "sent"
  /\ report' = pdf
  /\ AfterCheck(pdf)
  /\ UNCHANGED <<pdf, error, show, email, clicks, faults>>

\* Nothing asks again after an error.
SummaryFails ==
  /\ checking = "sent"
  /\ Fault
  /\ checking' = "none" /\ error' = TRUE
  /\ UNCHANGED <<pdf, report, checks, gaveUp, show, email, clicks>>

TimerFires ==
  /\ checking = "timer"
  /\ checking' = "sent"
  /\ UNCHANGED <<pdf, report, checks, gaveUp, error, show, email, clicks, faults>>

\* What the page is: a page that has a summary hides the error of a later check.
pageState == CASE report # None -> "report" [] error -> "failed to load" [] OTHER -> "loading"

\* The button for the PDF, above the form and at the foot of a small screen.
downloadButton ==
  CASE reportState = "ready" -> "Download PDF"
    [] reportState = "failed" -> "PDF unavailable"
    [] OTHER -> "Preparing PDF..."

-----------------------------------------------------------------------------
(* The introduction: it covers the page and locks its scrolling.             *)

IntroDecided ==
  /\ intro = "pending"
  /\ intro' \in {"off", "loading"}
  /\ UNCHANGED <<pdf, load, timeline, counts, early, email, clicks, faults>>

\* The overlay and its caption. It does not know of the error.
introOverlay ==
  CASE intro \notin {"loading", "playing"} -> "none"
    [] report # None -> "Calculating risk..."
    [] OTHER -> "Analysing your scan..."

\* The numbers are set to zero to be counted up.
IntroStarts ==
  /\ intro = "loading" /\ report # None
  /\ intro' = "playing" /\ counts' = "zero"
  /\ UNCHANGED <<pdf, load, timeline, early, email, clicks, faults>>

TimelineBuilt ==
  /\ intro = "playing" /\ ~timeline
  /\ timeline' = TRUE
  /\ UNCHANGED <<pdf, load, intro, counts, early, email, clicks, faults>>

Finish == intro' = "done" /\ timeline' = FALSE /\ counts' = "value" /\ UNCHANGED early

IntroEnds ==
  /\ timeline
  /\ Finish
  /\ UNCHANGED <<pdf, load, email, clicks, faults>>

\* Any key or click: the animation jumps to its end; before it is built the
\* overlay just goes.
Skip ==
  /\ intro \in {"loading", "playing"}
  /\ Click
  /\ IF timeline THEN Finish
     ELSE intro' = "off" /\ early' = (intro = "playing") /\ UNCHANGED <<timeline, counts>>
  /\ UNCHANGED <<pdf, load, email, faults>>

-----------------------------------------------------------------------------
(* The form at the end of the page.                                          *)

Covered == introOverlay # "none"

TypeAddress ==
  /\ report # None /\ ~Covered
  /\ Click
  /\ address' = clicks' /\ mail' = IF mail = "sending" THEN mail ELSE "idle"
  /\ UNCHANGED <<pdf, load, show, target, sentTo, mails, faults>>

handleSendReport ==
  /\ report # None /\ ~Covered /\ address # 0 /\ mail # "sending"
  /\ mail' = "sending" /\ target' = address
  /\ UNCHANGED <<pdf, load, show, address, sentTo, mails, clicks, faults>>

MailServed ==
  /\ mail = "sending" /\ target \notin mails /\ pdf = "completed"
  /\ mails' = mails \union {target}
  /\ UNCHANGED <<pdf, load, show, mail, address, target, sentTo, clicks, faults>>

\* The field is emptied, whatever was typed into it while the mail was sent.
MailAnswered ==
  /\ mail = "sending" /\ target \in mails
  /\ mail' = "sent" /\ address' = 0 /\ sentTo' = target
  /\ UNCHANGED <<pdf, load, show, target, mails, clicks, faults>>

\* The form is there before the PDF is; the backend then refuses.
MailRefused ==
  /\ mail = "sending" /\ target \notin mails /\ pdf # "completed"
  /\ mail' = "error"
  /\ UNCHANGED <<pdf, load, show, address, target, sentTo, mails, clicks, faults>>

MailFails ==
  /\ mail = "sending"
  /\ Fault
  /\ mail' = "error"
  /\ UNCHANGED <<pdf, load, show, address, target, sentTo, mails, clicks>>

Next ==
  \/ Generated \/ SummaryArrives \/ SummaryFails \/ TimerFires
  \/ IntroDecided \/ IntroStarts \/ TimelineBuilt \/ IntroEnds \/ Skip
  \/ TypeAddress \/ handleSendReport \/ MailServed \/ MailRefused \/ MailAnswered \/ MailFails

Fairness ==
  /\ WF_rvars(SummaryArrives) /\ WF_rvars(TimerFires)
  /\ WF_rvars(IntroDecided) /\ WF_rvars(IntroStarts) /\ WF_rvars(TimelineBuilt) /\ WF_rvars(IntroEnds)

Spec == Init /\ [][Next]_rvars
FairSpec == Spec /\ Fairness

-----------------------------------------------------------------------------
\* The page does not say "Preparing PDF..." for ever, also when the backend
\* never finishes: it counts its checks and gives up. (A check that fails is an
\* end of its own: it is not repeated.)
Prepared == reportState # "preparing" \/ faults > 0
PreparingEnds == <>Prepared

\* What is offered is there: a PDF to download was rendered, and the address the page
\* says the report went to was sent one, though the field may have been typed into
\* since (handleSendReport, email_scan_report).
OfferedIsThere ==
  /\ downloadButton = "Download PDF" => pdf = "completed"
  /\ mail = "sent" => sentTo \in mails
  /\ mails # {} => pdf = "completed"
  /\ downloadButton = "Preparing PDF..." /\ ~error => checking # "none"

\* The introduction never leaves the page covered and locked, and leaves the
\* numbers it counted up as they are, unless it is skipped in the moment between
\* the zeros and the animation.
Loaded == report # None
NumbersAreBack == ~Covered /\ (counts = "value" \/ early)
NumbersComeBack == Loaded ~> NumbersAreBack
=============================================================================
