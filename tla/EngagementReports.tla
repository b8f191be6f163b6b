------------------------- MODULE EngagementReports -------------------------
(* The report of an engagement, from its submission to its delivery:          *)
(* queue_engagement_report_generation (report_service.py), the render task    *)
(* and its callback, the retry (report_access_service.py), complete_review    *)
(* and the e-mail to the client. There is one row, and one PDF under one      *)
(* name, however often the engagement is submitted: every submission asks for *)
(* version 1. Contents are the number of the edition of the findings.         *)
EXTENDS PageBounds, OrmSession

VARIABLES phase,       \* engagements.status
          findings,    \* the edition of the findings
          submissions, \* times the engagement was submitted
          report,      \* reports.status, or None without a row
          file,        \* the edition in the PDF, 0 without one
          generations, \* requests that generate: id, step, the status as read, edition
          renderings,  \* render tasks: id, edition, step
          retries,     \* requests to retry that have read the engagement
          review,      \* complete_review: the submission that it has checked
          mail,        \* the edition in the e-mail to the client, 0 when it is queued, None before
          marked,      \* the row was marked since the last submission
          rushed,      \* complete_review looked before it was
          crossed,     \* a submission met a generation under way, or a task was sent by one that failed
          late,        \* complete_review wrote after another operation
          lost         \* a process died, or no attempt of a callback arrived

engagement == <<phase, findings, submissions>>
stored     == <<report, file>>
requests   == <<retries, review, mail>>
history    == <<marked, rushed, crossed, late, lost>>
rvars == <<phase, findings, submissions, report, file, generations, renderings, retries, review,
           mail, marked, rushed, crossed, late, lost>>

MaxSubmissions == 2
Phases == {"in_progress", "review", "completed"}
ReportStatuses == {"generating", "completed", "failed"}
Editions == 1..(MaxSubmissions + 1)
\* A submission is known by its number, a retry by what was left of the clicks.
Ids == {"submission", "retry"} \X (0..MaxSubmissions + MaxClicks)

Generation(id, step, copy) == [id |-> id, step |-> step, copy |-> copy]
Rendering(id, edition, step) == [id |-> id, edition |-> edition, step |-> step]
Generations == [id : Ids, step : {"asked", "read", "marked"}, copy : ReportStatuses \union {None}]
Renderings == [id : Ids, edition : Editions, step : {"queued", "stored", "failing"}]

Alive == {g.id : g \in generations} \union {t.id : t \in renderings}

TypeOK ==
  /\ phase \in Phases /\ findings \in Editions /\ submissions \in 0..MaxSubmissions
  /\ report \in ReportStatuses \union {None} /\ file \in Editions \union {0}
  /\ generations \subseteq Generations /\ renderings \subseteq Renderings
  /\ retries \subseteq Ids /\ review \in (1..MaxSubmissions) \union {None}
  /\ mail \in Editions \union {0, None}
  /\ \A flag \in {marked, rushed, crossed, late, lost} : flag \in BOOLEAN
  /\ clicks \in 0..MaxClicks /\ faults \in 0..MaxFaults

Init ==
  /\ phase = "in_progress" /\ findings = 1 /\ submissions = 0
  /\ report = None /\ file = 0 /\ generations = {} /\ renderings = {}
  /\ retries = {} /\ review = None /\ mail = None
  /\ marked = FALSE /\ rushed = FALSE /\ crossed = FALSE /\ late = FALSE /\ lost = FALSE
  /\ clicks = 0 /\ faults = 0

-----------------------------------------------------------------------------
(* The pentester. Who else submits or returns at the same time is the subject *)
(* of Delivery.                                                               *)

\* Findings can be modified only while the engagement is in progress. Bound: one new
\* edition for every submission.
EditFindings ==
  /\ phase = "in_progress" /\ findings <= submissions
  /\ findings' = findings + 1
  /\ UNCHANGED <<phase, submissions, stored, generations, renderings, requests, history, clicks,
                 faults>>

\* The generation is a callback of the commit (after_commit).
submit_for_review ==
  /\ phase = "in_progress" /\ submissions < MaxSubmissions
  /\ phase' = "review" /\ submissions' = submissions + 1
  /\ generations' = generations \union
       {Generation(<<"submission", submissions'>>, "asked", None)}
  /\ marked' = FALSE /\ crossed' = (crossed \/ Alive # {})
  /\ UNCHANGED <<findings, stored, renderings, requests, rushed, late, lost, clicks, faults>>

-----------------------------------------------------------------------------
(* Generating. The session reads the row once and writes what differs from    *)
(* its copy.                                                                  *)

Steps(g, step, copy) == (generations \ {g}) \union {Generation(g.id, step, copy)}

get_by_engagement_and_version(g) ==
  /\ g.step = "asked"
  /\ generations' = Steps(g, "read", report)
  /\ UNCHANGED <<engagement, stored, renderings, requests, history, clicks, faults>>

\* A slip: the row is marked after the task was sent, so an old report stays completed.
NotMarked(g) ==
  /\ g.step = "read"
  /\ generations' = Steps(g, "marked", "generating")
  /\ report' = IF report = None THEN "generating" ELSE report
  /\ marked' = (marked \/ g.id = <<"submission", submissions>>)
  /\ UNCHANGED <<engagement, file, renderings, requests, rushed, crossed, late, lost, clicks,
                 faults>>

\* A row that was not there is created (pending, which is treated as generating); a
\* second one violates the constraint uq_reports_engagement_version, and the request
\* ends.
MarkGenerating(g) ==
  /\ g.step = "read"
  /\ IF g.copy = None /\ report # None
       THEN /\ generations' = generations \ {g}
            /\ UNCHANGED <<report, marked>>
       ELSE /\ generations' = Steps(g, "marked", "generating")
            /\ report' = Written("generating", g.copy, report)
            /\ marked' = (marked \/ g.id = <<"submission", submissions>>)
  /\ UNCHANGED <<engagement, file, renderings, requests, rushed, crossed, late, lost, clicks,
                 faults>>

Send(g) == renderings' = renderings \union {Rendering(g.id, findings, "queued")}

send_task(g) ==
  /\ g.step = "marked" /\ Send(g)
  /\ generations' = generations \ {g}
  /\ UNCHANGED <<engagement, stored, requests, history, clicks, faults>>

\* The context, the template or the broker fails. The copy says "generating", so
\* "failed" is written, whatever the row says by now. The broker may have the task.
GenerationFails(g) ==
  /\ g.step = "marked" /\ Fault
  /\ generations' = generations \ {g}
  /\ report' = Written("failed", g.copy, report)
  /\ \/ UNCHANGED <<renderings, crossed>>
     \/ Send(g) /\ crossed' = TRUE
  /\ UNCHANGED <<engagement, file, requests, marked, rushed, late, lost, clicks>>

RequestDies(g) ==
  /\ Fault /\ lost' = TRUE
  /\ generations' = generations \ {g}
  /\ UNCHANGED <<engagement, stored, renderings, requests, marked, rushed, crossed, late, clicks>>

-----------------------------------------------------------------------------
(* The render task (report_tasks.py) and its callbacks.                       *)

Moves(t, step) == (renderings \ {t}) \union {Rendering(t.id, t.edition, step)}

\* The PDF of every edition has the same name.
generate_pdf_from_html(t) ==
  /\ t.step = "queued"
  /\ file' = t.edition /\ renderings' = Moves(t, "stored")
  /\ UNCHANGED <<engagement, report, generations, requests, history, clicks, faults>>

RenderingFails(t) ==
  /\ t.step = "queued" /\ Fault
  /\ renderings' = Moves(t, "failing")
  /\ UNCHANGED <<engagement, stored, generations, requests, history, clicks>>

\* apply_report_callback: nothing for what the row says already, a refusal for a
\* row that is finished otherwise.
Accepts(target) == report \in {"generating", target}

CallbackCompleted(t) ==
  /\ t.step = "stored" /\ Accepts("completed")
  /\ report' = "completed"
  /\ \/ renderings' = renderings \ {t} /\ UNCHANGED faults
     \/ Fault /\ UNCHANGED renderings   \* the answer is lost: it is sent again
  /\ UNCHANGED <<engagement, file, generations, requests, history, clicks>>

\* After three attempts that were refused, or never arrived, the task reports a failure.
AttemptsFail(t) ==
  /\ t.step = "stored"
  /\ \/ ~Accepts("completed") /\ UNCHANGED faults
     \/ Fault
  /\ renderings' = Moves(t, "failing")
  /\ UNCHANGED <<engagement, stored, generations, requests, history, clicks>>

CallbackFailed(t) ==
  /\ t.step = "failing"
  /\ report' = IF Accepts("failed") THEN "failed" ELSE report
  /\ renderings' = renderings \ {t}
  /\ UNCHANGED <<engagement, file, generations, requests, history, clicks, faults>>

\* The worker dies, or the failure cannot be reported either.
TaskDies(t) ==
  /\ Fault /\ lost' = TRUE
  /\ renderings' = renderings \ {t}
  /\ UNCHANGED <<engagement, stored, generations, requests, marked, rushed, crossed, late, clicks>>

-----------------------------------------------------------------------------
(* Service delivery.                                                          *)

return_from_review ==
  /\ phase = "review" /\ Click
  /\ phase' = "in_progress"
  /\ UNCHANGED <<findings, submissions, stored, generations, renderings, requests, history, faults>>

\* retry reads the engagement, and the latest report, first.
require_engagement ==
  /\ phase = "review" /\ report # None /\ Click
  /\ retries' = retries \union {<<"retry", clicks'>>}
  /\ UNCHANGED <<engagement, stored, generations, renderings, review, mail, history, faults>>

\* A slip: the status that was read is not tested again by the update.
StartsAnyway(id) == report # None

\* UPDATE ... WHERE status = failed.
StillFailed(id) == report = "failed"

retry(id) ==
  /\ id \in retries /\ retries' = retries \ {id}
  /\ IF StillFailed(id)
       THEN /\ report' = "generating" /\ crossed' = (crossed \/ ~marked)
            /\ generations' = generations \union {Generation(id, "read", "generating")}
       ELSE UNCHANGED <<report, generations, crossed>>
  /\ UNCHANGED <<engagement, file, renderings, review, mail, marked, rushed, late, lost, clicks,
                 faults>>

\* complete_review reads the engagement and its latest report, and writes later.
get_latest_for_engagement ==
  /\ phase = "review" /\ review = None /\ report = "completed"
  /\ review' = submissions
  /\ rushed' = (rushed \/ ~marked)
  /\ UNCHANGED <<engagement, stored, generations, renderings, retries, mail, marked, crossed, late,
                 lost, clicks, faults>>

complete_review ==
  /\ review # None /\ review' = None
  /\ phase' = "completed" /\ mail' = 0
  /\ late' = (late \/ phase # "review" \/ review # submissions)
  /\ UNCHANGED <<findings, submissions, stored, generations, renderings, retries, marked, rushed,
                 crossed, lost, clicks, faults>>

\* The transaction fails, or the process dies before the e-mail is asked for.
CompletionFails ==
  /\ review # None /\ review' = None /\ Fault
  /\ \/ UNCHANGED <<phase, late>>
     \/ phase' = "completed" /\ late' = (late \/ phase # "review" \/ review # submissions)
  /\ UNCHANGED <<findings, submissions, stored, generations, renderings, retries, mail, marked,
                 rushed, crossed, lost, clicks>>

\* The PDF is read when the mail is sent.
send_engagement_report_email ==
  /\ mail = 0 /\ mail' = file
  /\ UNCHANGED <<engagement, stored, generations, renderings, retries, review, history, clicks,
                 faults>>

-----------------------------------------------------------------------------
GenerationGoesOn ==
  \E g \in generations : get_by_engagement_and_version(g) \/ MarkGenerating(g) \/ send_task(g)
RenderingGoesOn ==
  \E t \in renderings : generate_pdf_from_html(t) \/ CallbackCompleted(t) \/ AttemptsFail(t)
                        \/ CallbackFailed(t)
ServiceDelivery ==
  \/ return_from_review \/ require_engagement \/ get_latest_for_engagement
  \/ complete_review \/ CompletionFails \/ send_engagement_report_email
  \/ \E id \in retries : retry(id)
Failures ==
  \/ \E g \in generations : GenerationFails(g) \/ RequestDies(g)
  \/ \E t \in renderings : RenderingFails(t) \/ TaskDies(t)

Next ==
  EditFindings \/ submit_for_review \/ GenerationGoesOn \/ RenderingGoesOn \/ ServiceDelivery
  \/ Failures

Spec == Init /\ [][Next]_<<rvars, clicks, faults>>

-----------------------------------------------------------------------------
\* A completed engagement has its report, and it, the PDF and the e-mail have the
\* findings as they were submitted last - unless the engagement was completed
\* before the last submission had marked the old report as out of date (the two
\* are transactions of their own), or while another operation changed it, or a
\* submission met the generation of the one before.
CompletedIsReported ==
  phase = "completed" /\ ~(rushed \/ crossed \/ late) =>
    /\ report = "completed" /\ file = findings
    /\ mail \in {None, 0, findings}

\* Under review a report nobody is working on is completed or can be retried,
\* however a generation failed - unless nobody was left to say so.
NeverStuck ==
  phase = "review" /\ Alive = {} /\ ~lost => report \in {"completed", "failed"}

\* However many retries are asked for, one report is generated at a time.
OneGeneration ==
  ~crossed => /\ Cardinality(Alive) <= 1
              /\ \A g \in generations, t \in renderings : g.id # t.id

\* A report that is awaited under review is completed in the end, or has failed: the
\* request that generates it and the render task go on.
Awaited == phase = "review" /\ ~lost /\ report \notin {"completed", "failed"}
=============================================================================
