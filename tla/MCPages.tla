------------------------------ MODULE MCPages ------------------------------
(* One run for the pages of the web client. The browser shows one of them at  *)
(* a time and they share nothing, so a behaviour is one of the page that      *)
(* "page" names, chosen at the start: the state space is the sum of theirs,   *)
(* not the product. They take turns on the state variables s1 .. s20; a page  *)
(* that has fewer leaves the last ones at None. What no page shows whole, the *)
(* tasks behind the evidence and the reports, are two more of them.           *)
EXTENDS Pages

CONSTANTS OpenPages \* the pages this run looks at

VARIABLES page

all == <<page, s1, s2, s3, s4, s5, s6, s7, s8, s9, s10, s11, s12, s13, s14, s15, s16, s17, s18,
         s19, s20, clicks, faults>>

-----------------------------------------------------------------------------
Init ==
  /\ page \in OpenPages
  /\ \/ page = "messages" /\ Mes!Init
        /\ s18 = None /\ s19 = None /\ s20 = None
     \/ page = "alerts" /\ Not!Init
        /\ s9 = None /\ s10 = None /\ s11 = None /\ s12 = None /\ s13 = None /\ s14 = None
        /\ s15 = None /\ s16 = None /\ s17 = None /\ s18 = None /\ s19 = None /\ s20 = None
     \/ page = "access" /\ Acc!Init
        /\ s6 = None /\ s7 = None /\ s8 = None /\ s9 = None /\ s10 = None /\ s11 = None
        /\ s12 = None /\ s13 = None /\ s14 = None /\ s15 = None /\ s16 = None /\ s17 = None
        /\ s18 = None /\ s19 = None /\ s20 = None
     \/ page = "session" /\ Ses!Init
        /\ s13 = None /\ s14 = None /\ s15 = None /\ s16 = None /\ s17 = None
        /\ s18 = None /\ s19 = None /\ s20 = None
     \/ page = "progress" /\ Pro!Init
        /\ s17 = None /\ s18 = None /\ s19 = None /\ s20 = None
     \/ page = "panel" /\ Las!Init
        /\ s10 = None /\ s11 = None /\ s12 = None /\ s13 = None /\ s14 = None /\ s15 = None
        /\ s16 = None /\ s17 = None /\ s18 = None /\ s19 = None /\ s20 = None
     \/ page = "history" /\ His!Init
        /\ s13 = None /\ s14 = None /\ s15 = None /\ s16 = None /\ s17 = None /\ s18 = None
        /\ s19 = None /\ s20 = None
     \/ page = "report" /\ Rep!Init
        /\ s16 = None /\ s17 = None /\ s18 = None /\ s19 = None /\ s20 = None
     \/ page = "domains" /\ Dom!Init
     \/ page = "schedules" /\ Sch!Init
        /\ s20 = None
     \/ page = "request" /\ Req!Init
        /\ s17 = None /\ s18 = None /\ s19 = None /\ s20 = None
     \/ page = "retests" /\ Ret!Init
        /\ s17 = None /\ s18 = None /\ s19 = None /\ s20 = None
     \/ page = "delivery" /\ Del!Init
        /\ s9 = None /\ s10 = None /\ s11 = None /\ s12 = None /\ s13 = None /\ s14 = None
        /\ s15 = None /\ s16 = None /\ s17 = None /\ s18 = None /\ s19 = None /\ s20 = None
     \/ page = "console" /\ Con!Init
        /\ s16 = None /\ s17 = None /\ s18 = None /\ s19 = None /\ s20 = None
     \/ page = "directory" /\ Dir!Init
        /\ s18 = None /\ s19 = None /\ s20 = None
     \/ page = "brand" /\ Bra!Init
        /\ s11 = None /\ s12 = None /\ s13 = None /\ s14 = None /\ s15 = None /\ s16 = None
        /\ s17 = None /\ s18 = None /\ s19 = None /\ s20 = None
     \/ page = "assistant" /\ Ass!Init
        /\ s12 = None /\ s13 = None /\ s14 = None /\ s15 = None /\ s16 = None /\ s17 = None
        /\ s18 = None /\ s19 = None /\ s20 = None
     \/ page = "graph" /\ Gra!Init
        /\ s15 = None /\ s16 = None /\ s17 = None /\ s18 = None /\ s19 = None /\ s20 = None
     \/ page = "findings" /\ Fin!Init
        /\ s15 = None /\ s16 = None /\ s17 = None /\ s18 = None /\ s19 = None /\ s20 = None
     \/ page = "evidence" /\ Evi!Init
        /\ s11 = None /\ s12 = None /\ s13 = None /\ s14 = None /\ s15 = None /\ s16 = None
        /\ s17 = None /\ s18 = None /\ s19 = None /\ s20 = None
     \/ page = "reports" /\ Eng!Init
        /\ s16 = None /\ s17 = None /\ s18 = None /\ s19 = None /\ s20 = None

MessagesStep == page = "messages" /\ Mes!Next /\ UNCHANGED <<page, s18, s19, s20>>
AlertsStep ==
  /\ page = "alerts" /\ Not!Next
  /\ UNCHANGED <<page, s9, s10, s11, s12, s13, s14, s15, s16, s17, s18, s19, s20>>
AccessStep ==
  /\ page = "access" /\ Acc!Next
  /\ UNCHANGED <<page, s6, s7, s8, s9, s10, s11, s12, s13, s14, s15, s16, s17, s18, s19, s20>>
SessionStep ==
  /\ page = "session" /\ Ses!Next
  /\ UNCHANGED <<page, s13, s14, s15, s16, s17, s18, s19, s20>>
ProgressStep == page = "progress" /\ Pro!Next /\ UNCHANGED <<page, s17, s18, s19, s20>>
PanelStep ==
  /\ page = "panel" /\ Las!Next
  /\ UNCHANGED <<page, s10, s11, s12, s13, s14, s15, s16, s17, s18, s19, s20>>
HistoryStep ==
  /\ page = "history" /\ His!Next
  /\ UNCHANGED <<page, s13, s14, s15, s16, s17, s18, s19, s20>>
ReportStep == page = "report" /\ Rep!Next /\ UNCHANGED <<page, s16, s17, s18, s19, s20>>
DomainsStep == page = "domains" /\ Dom!Next /\ UNCHANGED page
SchedulesStep == page = "schedules" /\ Sch!Next /\ UNCHANGED <<page, s20>>
RequestStep == page = "request" /\ Req!Next /\ UNCHANGED <<page, s17, s18, s19, s20>>
RetestsStep == page = "retests" /\ Ret!Next /\ UNCHANGED <<page, s17, s18, s19, s20>>
DeliveryStep ==
  /\ page = "delivery" /\ Del!Next
  /\ UNCHANGED <<page, s9, s10, s11, s12, s13, s14, s15, s16, s17, s18, s19, s20>>
ConsoleStep == page = "console" /\ Con!Next /\ UNCHANGED <<page, s16, s17, s18, s19, s20>>
DirectoryStep == page = "directory" /\ Dir!Next /\ UNCHANGED <<page, s18, s19, s20>>
BrandStep ==
  /\ page = "brand" /\ Bra!Next
  /\ UNCHANGED <<page, s11, s12, s13, s14, s15, s16, s17, s18, s19, s20>>
AssistantStep ==
  /\ page = "assistant" /\ Ass!Next
  /\ UNCHANGED <<page, s12, s13, s14, s15, s16, s17, s18, s19, s20>>
GraphStep == page = "graph" /\ Gra!Next /\ UNCHANGED <<page, s15, s16, s17, s18, s19, s20>>
FindingsStep == page = "findings" /\ Fin!Next /\ UNCHANGED <<page, s15, s16, s17, s18, s19, s20>>
EvidenceStep ==
  /\ page = "evidence" /\ Evi!Next
  /\ UNCHANGED <<page, s11, s12, s13, s14, s15, s16, s17, s18, s19, s20>>
ReportsStep == page = "reports" /\ Eng!Next /\ UNCHANGED <<page, s16, s17, s18, s19, s20>>

Next ==
  \/ MessagesStep \/ AlertsStep \/ AccessStep \/ SessionStep \/ ProgressStep
  \/ PanelStep \/ HistoryStep \/ ReportStep \/ DomainsStep \/ SchedulesStep
  \/ RequestStep \/ RetestsStep \/ DeliveryStep \/ ConsoleStep \/ DirectoryStep
  \/ BrandStep \/ AssistantStep \/ GraphStep \/ FindingsStep \/ EvidenceStep
  \/ ReportsStep

Spec == Init /\ [][Next]_all

\* Requests are answered, timers fire and scans go on, on the page that is open:
\* the fairness of each page, as its own module states it.
MessagesGoOn ==
  /\ WF_(Mes!mvars)(page = "messages" /\ Mes!ThreadArrives(TRUE))
  /\ WF_(Mes!mvars)(page = "messages" /\ Mes!ReadServed)
  /\ WF_(Mes!mvars)(page = "messages" /\ Mes!ReadAnswered)
  /\ WF_(Mes!mvars)(page = "messages" /\ Mes!InboxArrives)
  /\ WF_(Mes!mvars)(page = "messages" /\ Mes!AccountChanged)

AlertsGoOn ==
  /\ WF_(Not!nvars)(page = "alerts" /\ Not!Poll)
  /\ \A known \in 0..MaxAlerts : \A read \in SUBSET (1..known) :
       WF_(Not!nvars)(page = "alerts" /\ Not!fetchNotifications([known |-> known, read |-> read]))
  /\ \A id \in 1..MaxAlerts, served \in BOOLEAN :
       WF_(Not!nvars)(page = "alerts" /\ Not!PatchGoesOn([id |-> id, served |-> served]))
  /\ WF_(Not!nvars)(page = "alerts" /\ Not!ReadAllGoesOn)

SessionGoesOn ==
  /\ \A c \in Ses!Callers : WF_(Ses!bvars)(page = "session" /\ Ses!Answered(c))
  /\ WF_(Ses!bvars)(page = "session" /\ Ses!TimerFires)
  /\ WF_(Ses!bvars)(page = "session" /\ Ses!AuthRefresher)
  /\ WF_(Ses!bvars)(page = "session" /\ Ses!LogoutRoute)

ScanGoesOn ==
  /\ WF_(Pro!wvars)(page = "progress" /\ Pro!ScanRuns)
  /\ WF_(Pro!wvars)(page = "progress" /\ Pro!IndexRuns)
  /\ WF_(Pro!wvars)(page = "progress" /\ Pro!Tick)
  /\ WF_(Pro!wvars)(page = "progress" /\ Pro!poll(1))

PanelGoesOn == WF_(Las!lvars)(page = "panel" /\ Las!AnswersGoOn)

ReportGoesOn ==
  /\ WF_(Rep!rvars)(page = "report" /\ Rep!SummaryArrives)
  /\ WF_(Rep!rvars)(page = "report" /\ Rep!TimerFires)
  /\ WF_(Rep!rvars)(page = "report" /\ Rep!IntroDecided)
  /\ WF_(Rep!rvars)(page = "report" /\ Rep!IntroStarts)
  /\ WF_(Rep!rvars)(page = "report" /\ Rep!TimelineBuilt)
  /\ WF_(Rep!rvars)(page = "report" /\ Rep!IntroEnds)

DomainsGoOn ==
  /\ WF_(Dom!dvars)(page = "domains" /\ Dom!SomeFetchArrives)
  /\ WF_(Dom!dvars)(page = "domains" /\ Dom!Debounce)
  /\ WF_(Dom!dvars)(page = "domains" /\ Dom!VerifyServed(1))
  /\ WF_(Dom!dvars)(page = "domains" /\ Dom!verify(1))
  /\ WF_(Dom!dvars)(page = "domains" /\ Dom!SomeRemovalGoesOn)

Fairness ==
  /\ MessagesGoOn /\ AlertsGoOn /\ SessionGoesOn /\ ScanGoesOn /\ PanelGoesOn /\ ReportGoesOn
  /\ DomainsGoOn
  /\ WF_(Acc!pvars)(page = "access" /\ Acc!requirePageRole)
  /\ WF_(Con!pcvars)(page = "console" /\ Con!getEngagement)
  /\ WF_(Con!pcvars)(page = "console" /\ Con!fetchEngagementDetail(1))
  /\ WF_(Bra!bvars)(page = "brand" /\ Bra!WaitingGoesOn)
  /\ WF_(Ass!avars)(page = "assistant" /\ Ass!AbortQuery)
  /\ WF_(Eng!rvars)(page = "reports" /\ Eng!GenerationGoesOn)
  /\ WF_(Eng!rvars)(page = "reports" /\ Eng!RenderingGoesOn)

FairSpec == Spec /\ Fairness

-----------------------------------------------------------------------------
(* What the pages promise, one property for each kind of promise. The parts   *)
(* are stated, and explained, in the modules of the pages.                    *)

\* The type invariants of the pages.
TypeOK ==
  /\ page = "messages" => Mes!TypeOK
  /\ page = "alerts" => Not!TypeOK
  /\ page = "access" => Acc!TypeOK
  /\ page = "session" => Ses!TypeOK
  /\ page = "progress" => Pro!TypeOK
  /\ page = "panel" => Las!TypeOK
  /\ page = "history" => His!TypeOK
  /\ page = "report" => Rep!TypeOK
  /\ page = "domains" => Dom!TypeOK
  /\ page = "schedules" => Sch!TypeOK
  /\ page = "request" => Req!TypeOK
  /\ page = "retests" => Ret!TypeOK
  /\ page = "delivery" => Del!TypeOK
  /\ page = "console" => Con!TypeOK
  /\ page = "directory" => Dir!TypeOK
  /\ page = "brand" => Bra!TypeOK
  /\ page = "assistant" => Ass!TypeOK
  /\ page = "graph" => Gra!TypeOK
  /\ page = "findings" => Fin!TypeOK
  /\ page = "evidence" => Evi!TypeOK
  /\ page = "reports" => Eng!TypeOK

\* What the user asks for once is done once, whatever he presses while the page
\* waits: a message, a scan, a request, a finding, a row of the list of domains, a
\* report that is generated again.
NothingTwice ==
  /\ page = "messages" => Mes!NoSilentDuplicate
  /\ page = "progress" => Pro!OneScanPerStart
  /\ page = "request" => Req!OneRequestPerPress
  /\ page = "console" => Con!SavedOnce
  /\ page = "domains" => Dom!NoRowTwice
  /\ page = "reports" => Eng!OneGeneration

\* A page at rest shows what the backend last said, however the answers were
\* ordered and whatever was chosen meanwhile: the rows of a view, the schedules,
\* the end of a scan, the results of a run, what was asked before a question, the
\* files of a finding. Everything a scan found is in a row of its graph.
ShownIsCurrent ==
  /\ page = "domains" => Dom!RowsOfTheView
  /\ page = "schedules" => Sch!ListIsCurrent
  /\ page = "progress" => Pro!NeverStopsEarly /\ Pro!DiagramComesToRest
  /\ page = "report" => Rep!OfferedIsThere
  /\ page = "history" => His!HistoryIsWhole /\ His!AllCanBeShown /\ His!NamesTheRecipient
  /\ page = "panel" => Las!ShowsTheNamedScan /\ Las!SkeletonIsWaitedFor
  /\ page = "graph" => /\ Gra!AsksUntilTheEnd /\ Gra!NothingLooksUnderWay
                        /\ Gra!NothingIsLost /\ Gra!FindingsAreTraced
  /\ page = "findings" => /\ Fin!ListIsOfTheView /\ Fin!FilesOfTheFinding
                           /\ Fin!VerdictsShownStand
  /\ page = "brand" => Bra!ResultsAreThere
  /\ page = "assistant" => Ass!HistoryComesBefore /\ Ass!CopiedIsShown

\* Evidence is checked before anybody reads it, by one worker at a time and not for
\* ever; a row has its object, and an object its row or somebody who removes it. What was
\* decided about a file is never taken back.
EvidenceIsChecked ==
  /\ [](page = "evidence" => Evi!EvidenceIsChecked)
  /\ [][page = "evidence" => Evi!DecidedOnce]_all

\* The status of an engagement and what hangs on it agree: its re-tests close with
\* the last one, under review its findings are as they were submitted, and when it
\* is completed its report has them.
WorkflowAgrees ==
  /\ page = "retests" => Ret!CycleCloses /\ Ret!CompletedIsDone
  /\ page = "console" => Con!FrozenInReview
  /\ page = "reports" => Eng!CompletedIsReported

\* A pentester is not booked twice for the same days, nor offered as free at work
\* (has_schedule_conflict, _release_pentester_if_idle).
BookedOnce == page = "delivery" => Del!NoDoubleBooking /\ Del!AtWorkIsEngaged

\* Nobody is signed out by renewing his session, nobody signed in by an answer that
\* comes late, and what one account saw is gone once another one is noticed.
SessionIsTheUsers ==
  /\ page = "session" => Ses!SignedInIsKept /\ Ses!SignedOutStays
  /\ page = "messages" => Mes!ForgottenStaysForgotten

\* The logins of pentesters follow their profiles: no login without one, none left
\* open after a deactivation, and no deactivation that was not confirmed.
LoginsFollowProfiles ==
  page = "directory" =>
    Dir!NoStrayLogin /\ Dir!DeactivatedIsLockedOut /\ Dir!DeactivatedWasConfirmed

\* There is no way that ends nowhere: every link of the menu lets its user in, a
\* request that cannot be sent shows what it lacks, and a report that failed can be
\* generated again.
NoDeadEnd ==
  /\ page = "access" => Acc!MenuLeadsToPages
  /\ page = "request" => Req!NothingMissingBehind
  /\ page = "reports" => Eng!NeverStuck

\* What the user said is what happens: the scan he starts is the one on the button,
\* and no answer undoes what he did in the meantime. The draft, the form and the
\* decision he made stay, the form of what he deleted goes, the row he asked for opens.
UserIsObeyed ==
  /\ [](page = "progress" => Pro!StartsWhatItSays)
  /\ [][page = "messages" => Mes!DraftSurvives]_all
  /\ [][page = "schedules" => Sch!KeepsForm /\ Sch!DropsForm]_all
  /\ [][page = "console" => Con!KeepsFinding]_all
  /\ [][page = "brand" => Bra!KeepsDecision]_all
  /\ [][page = "graph" => Gra!OpensTheRow]_all

\* Nothing is waited for without end: a guarded page, the lock of the tokens, a
\* report, a verification, a monitoring run, a question.
WaitingEnds ==
  /\ (page = "access" /\ Acc!OnTheWay) ~> (page = "access" => ~Acc!OnTheWay)
  /\ \A c \in Ses!Callers :
       (page = "session" /\ Ses!Waits(c)) ~> (page = "session" => Ses!Settled(c))
  /\ (page = "panel" /\ Las!Loading) ~> (page = "panel" => ~Las!Loading)
  /\ <>(page = "report" => Rep!Prepared)
  /\ \A d \in Dom!Names :
       (page = "domains" /\ Dom!Pulsing(d)) ~> (page = "domains" => ~Dom!Pulsing(d))
  /\ (page = "brand" /\ Bra!Waiting) ~> (page = "brand" => ~Bra!Waiting)
  /\ (page = "assistant" /\ Ass!Asking) ~> (page = "assistant" => ~Ass!Asking)
  /\ (page = "reports" /\ Eng!Awaited) ~> (page = "reports" => ~Eng!Awaited)

\* A page ends up right: the badges, the access token, the end of a scan, the numbers
\* of a report, an engagement are shown in the end.
ShownInTheEnd ==
  /\ \A t \in Threads : []<>(page = "messages" => Mes!BadgeIsRight(t))
  /\ <>[](page = "alerts" => Not!BadgeIsRight)
  /\ (page = "session" /\ Ses!AccessExpired) ~> (page = "session" => Ses!Renewed)
  /\ (page = "progress" /\ Pro!Watched) ~> (page = "progress" => Pro!EndShown)
  /\ (page = "report" /\ Rep!Loaded) ~> (page = "report" => Rep!NumbersAreBack)
  /\ (page = "console" /\ Con!Visited) ~> (page = "console" => Con!Cached)
=============================================================================
