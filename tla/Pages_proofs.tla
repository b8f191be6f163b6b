---------------------------- MODULE Pages_proofs ----------------------------
(* What is proved of the pages, for the whole that is model-checked: MCPages  *)
(* takes the step of one page at a time, so a behaviour of MCPages that shows *)
(* a page is one of that page's specification, and keeps the promises that    *)
(* are proved in ScanPages_proofs, EngagementPages_proofs and UserPages_proofs. *)
EXTENDS MCPages, ScanPages_proofs, EngagementPages_proofs, UserPages_proofs

-----------------------------------------------------------------------------
(* The page is chosen at the start, and every step is one of its own.         *)

\* A step is one of the page that is shown, and it stays.
LEMMA StepOfThePage ==
  ASSUME [Next]_all
  PROVE  /\ page' = page
         /\ page = "messages" => Mes!Next \/ UNCHANGED all
         /\ page = "alerts" => Not!Next \/ UNCHANGED all
         /\ page = "access" => Acc!Next \/ UNCHANGED all
         /\ page = "session" => Ses!Next \/ UNCHANGED all
         /\ page = "progress" => Pro!Next \/ UNCHANGED all
         /\ page = "panel" => Las!Next \/ UNCHANGED all
         /\ page = "history" => His!Next \/ UNCHANGED all
         /\ page = "report" => Rep!Next \/ UNCHANGED all
         /\ page = "domains" => Dom!Next \/ UNCHANGED all
         /\ page = "schedules" => Sch!Next \/ UNCHANGED all
         /\ page = "request" => Req!Next \/ UNCHANGED all
         /\ page = "retests" => Ret!Next \/ UNCHANGED all
         /\ page = "delivery" => Del!Next \/ UNCHANGED all
         /\ page = "console" => Con!Next \/ UNCHANGED all
         /\ page = "directory" => Dir!Next \/ UNCHANGED all
         /\ page = "brand" => Bra!Next \/ UNCHANGED all
         /\ page = "assistant" => Ass!Next \/ UNCHANGED all
         /\ page = "graph" => Gra!Next \/ UNCHANGED all
         /\ page = "findings" => Fin!Next \/ UNCHANGED all
         /\ page = "evidence" => Evi!Next \/ UNCHANGED all
         /\ page = "reports" => Eng!Next \/ UNCHANGED all
BY DEF Next, all, MessagesStep, AlertsStep, AccessStep, SessionStep, ProgressStep, PanelStep,
   HistoryStep, ReportStep, DomainsStep, SchedulesStep, RequestStep, RetestsStep, DeliveryStep,
   ConsoleStep, DirectoryStep, BrandStep, AssistantStep, GraphStep, FindingsStep, EvidenceStep,
   ReportsStep

-----------------------------------------------------------------------------
(* A behaviour that shows a page is one of the page's own specification.      *)

\* A behaviour that shows "messages" is one of Messaging.
LEMMA MessagesRefine == Spec /\ page = "messages" => Mes!Spec /\ [](page = "messages")
<1>1. Init /\ page = "messages" => Mes!Init
  BY SMT DEF Init
<1>2. page = "messages" /\ [Next]_all => (page = "messages")' /\ [Mes!Next]_Mes!mvars
  BY StepOfThePage DEF all, Mes!mvars, Mes!server, Mes!list, Mes!thread, Mes!compose
<1> QED BY <1>1, <1>2, PTL DEF Spec, Mes!Spec

\* A behaviour that shows "alerts" is one of Notifications.
LEMMA AlertsRefine == Spec /\ page = "alerts" => Not!Spec /\ [](page = "alerts")
<1>1. Init /\ page = "alerts" => Not!Init
  BY SMT DEF Init
<1>2. page = "alerts" /\ [Next]_all => (page = "alerts")' /\ [Not!Next]_Not!nvars
  BY StepOfThePage DEF all, Not!nvars
<1> QED BY <1>1, <1>2, PTL DEF Spec, Not!Spec

\* A behaviour that shows "access" is one of PageAccess.
LEMMA AccessRefines == Spec /\ page = "access" => Acc!Spec /\ [](page = "access")
<1>1. Init /\ page = "access" => Acc!Init
  BY SMT DEF Init
<1>2. page = "access" /\ [Next]_all => (page = "access")' /\ [Acc!Next]_Acc!pvars
  BY StepOfThePage DEF all, Acc!pvars
<1> QED BY <1>1, <1>2, PTL DEF Spec, Acc!Spec

\* A behaviour that shows "session" is one of BrowserSession.
LEMMA SessionRefines == Spec /\ page = "session" => Ses!Spec /\ [](page = "session")
<1>1. Init /\ page = "session" => Ses!Init
  BY SMT DEF Init
<1>2. page = "session" /\ [Next]_all => (page = "session")' /\ [Ses!Next]_Ses!bvars
  BY StepOfThePage DEF all, Ses!bvars
<1> QED BY <1>1, <1>2, PTL DEF Spec, Ses!Spec

\* A behaviour that shows "progress" is one of ScanProgress.
LEMMA ProgressRefines == Spec /\ page = "progress" => Pro!Spec /\ [](page = "progress")
<1>1. Init /\ page = "progress" => Pro!Init
  BY SMT DEF Init
<1>2. page = "progress" /\ [Next]_all => (page = "progress")' /\ [Pro!Next]_Pro!wvars
  BY StepOfThePage DEF all, Pro!wvars
<1> QED BY <1>1, <1>2, PTL DEF Spec, Pro!Spec

\* A behaviour that shows "panel" is one of LastScanPanel.
LEMMA PanelRefines == Spec /\ page = "panel" => Las!Spec /\ [](page = "panel")
<1>1. Init /\ page = "panel" => Las!Init
  BY SMT DEF Init
<1>2. page = "panel" /\ [Next]_all => (page = "panel")' /\ [Las!Next]_Las!lvars
  BY StepOfThePage DEF all, Las!lvars
<1> QED BY <1>1, <1>2, PTL DEF Spec, Las!Spec

\* A behaviour that shows "history" is one of HistoryPage.
LEMMA HistoryRefines == Spec /\ page = "history" => His!Spec /\ [](page = "history")
<1>1. Init /\ page = "history" => His!Init
  BY SMT DEF Init
<1>2. page = "history" /\ [Next]_all => (page = "history")' /\ [His!Next]_His!hvars
  BY StepOfThePage DEF all, His!hvars
<1> QED BY <1>1, <1>2, PTL DEF Spec, His!Spec

\* A behaviour that shows "report" is one of ReportPage.
LEMMA ReportRefines == Spec /\ page = "report" => Rep!Spec /\ [](page = "report")
<1>1. Init /\ page = "report" => Rep!Init
  BY SMT DEF Init
<1>2. page = "report" /\ [Next]_all => (page = "report")' /\ [Rep!Next]_Rep!rvars
  BY StepOfThePage DEF all, Rep!rvars
<1> QED BY <1>1, <1>2, PTL DEF Spec, Rep!Spec

\* A behaviour that shows "domains" is one of DomainsPage.
LEMMA DomainsRefine == Spec /\ page = "domains" => Dom!Spec /\ [](page = "domains")
<1>1. Init /\ page = "domains" => Dom!Init
  BY SMT DEF Init
<1>2. page = "domains" /\ [Next]_all => (page = "domains")' /\ [Dom!Next]_Dom!dvars
  BY StepOfThePage DEF all, Dom!dvars
<1> QED BY <1>1, <1>2, PTL DEF Spec, Dom!Spec

\* A behaviour that shows "schedules" is one of SchedulesPage.
LEMMA SchedulesRefine == Spec /\ page = "schedules" => Sch!Spec /\ [](page = "schedules")
<1>1. Init /\ page = "schedules" => Sch!Init
  BY SMT DEF Init
<1>2. page = "schedules" /\ [Next]_all => (page = "schedules")' /\ [Sch!Next]_Sch!svars
  BY StepOfThePage DEF all, Sch!svars
<1> QED BY <1>1, <1>2, PTL DEF Spec, Sch!Spec

\* A behaviour that shows "request" is one of EngagementRequest.
LEMMA RequestRefines == Spec /\ page = "request" => Req!Spec /\ [](page = "request")
<1>1. Init /\ page = "request" => Req!Init
  BY SMT DEF Init
<1>2. page = "request" /\ [Next]_all => (page = "request")' /\ [Req!Next]_Req!evars
  BY StepOfThePage DEF all, Req!evars
<1> QED BY <1>1, <1>2, PTL DEF Spec, Req!Spec

\* A behaviour that shows "retests" is one of Retests.
LEMMA RetestsRefine == Spec /\ page = "retests" => Ret!Spec /\ [](page = "retests")
<1>1. Init /\ page = "retests" => Ret!Init
  BY SMT DEF Init
<1>2. page = "retests" /\ [Next]_all => (page = "retests")' /\ [Ret!Next]_Ret!rvars
  BY StepOfThePage DEF all, Ret!rvars, Ret!service, Ret!client, Ret!tester, Ret!workspace, Ret!flags
<1> QED BY <1>1, <1>2, PTL DEF Spec, Ret!Spec

\* A behaviour that shows "delivery" is one of Delivery.
LEMMA DeliveryRefines == Spec /\ page = "delivery" => Del!Spec /\ [](page = "delivery")
<1>1. Init /\ page = "delivery" => Del!Init
  BY SMT DEF Init
<1>2. page = "delivery" /\ [Next]_all => (page = "delivery")' /\ [Del!Next]_Del!dvars
  BY StepOfThePage DEF all, Del!dvars
<1> QED BY <1>1, <1>2, PTL DEF Spec, Del!Spec

\* A behaviour that shows "console" is one of PentesterConsole.
LEMMA ConsoleRefines == Spec /\ page = "console" => Con!Spec /\ [](page = "console")
<1>1. Init /\ page = "console" => Con!Init
  BY SMT DEF Init
<1>2. page = "console" /\ [Next]_all => (page = "console")' /\ [Con!Next]_Con!pcvars
  BY StepOfThePage DEF all, Con!pcvars
<1> QED BY <1>1, <1>2, PTL DEF Spec, Con!Spec

\* A behaviour that shows "directory" is one of Directory.
LEMMA DirectoryRefines == Spec /\ page = "directory" => Dir!Spec /\ [](page = "directory")
<1>1. Init /\ page = "directory" => Dir!Init
  BY SMT DEF Init
<1>2. page = "directory" /\ [Next]_all => (page = "directory")' /\ [Dir!Next]_Dir!dvars
  BY StepOfThePage DEF all, Dir!dvars
<1> QED BY <1>1, <1>2, PTL DEF Spec, Dir!Spec

\* A behaviour that shows "brand" is one of BrandMonitoring.
LEMMA BrandRefines == Spec /\ page = "brand" => Bra!Spec /\ [](page = "brand")
<1>1. Init /\ page = "brand" => Bra!Init
  BY SMT DEF Init
<1>2. page = "brand" /\ [Next]_all => (page = "brand")' /\ [Bra!Next]_Bra!bvars
  BY StepOfThePage DEF all, Bra!bvars
<1> QED BY <1>1, <1>2, PTL DEF Spec, Bra!Spec

\* A behaviour that shows "assistant" is one of Assistant.
LEMMA AssistantRefines == Spec /\ page = "assistant" => Ass!Spec /\ [](page = "assistant")
<1>1. Init /\ page = "assistant" => Ass!Init
  BY SMT DEF Init
<1>2. page = "assistant" /\ [Next]_all => (page = "assistant")' /\ [Ass!Next]_Ass!avars
  BY StepOfThePage DEF all, Ass!avars
<1> QED BY <1>1, <1>2, PTL DEF Spec, Ass!Spec

\* A behaviour that shows "graph" is one of ScanGraph.
LEMMA GraphRefines == Spec /\ page = "graph" => Gra!Spec /\ [](page = "graph")
<1>1. Init /\ page = "graph" => Gra!Init
  BY SMT DEF Init
<1>2. page = "graph" /\ [Next]_all => (page = "graph")' /\ [Gra!Next]_Gra!gvars
  BY StepOfThePage DEF all, Gra!gvars
<1> QED BY <1>1, <1>2, PTL DEF Spec, Gra!Spec

\* A behaviour that shows "findings" is one of FindingsPage.
LEMMA FindingsRefine == Spec /\ page = "findings" => Fin!Spec /\ [](page = "findings")
<1>1. Init /\ page = "findings" => Fin!Init
  BY SMT DEF Init
<1>2. page = "findings" /\ [Next]_all => (page = "findings")' /\ [Fin!Next]_Fin!fvars
  BY StepOfThePage DEF all, Fin!fvars
<1> QED BY <1>1, <1>2, PTL DEF Spec, Fin!Spec

\* A behaviour that shows "evidence" is one of EvidenceQuarantine.
LEMMA EvidenceRefines == Spec /\ page = "evidence" => Evi!Spec /\ [](page = "evidence")
<1>1. Init /\ page = "evidence" => Evi!Init
  BY SMT DEF Init
<1>2. page = "evidence" /\ [Next]_all =>
        (page = "evidence")' /\ [Evi!Next]_<<Evi!qvars, clicks, faults>>
  BY StepOfThePage DEF all, Evi!qvars
<1> QED BY <1>1, <1>2, PTL DEF Spec, Evi!Spec

\* A behaviour that shows "reports" is one of EngagementReports.
LEMMA ReportsRefine == Spec /\ page = "reports" => Eng!Spec /\ [](page = "reports")
<1>1. Init /\ page = "reports" => Eng!Init
  BY SMT DEF Init
<1>2. page = "reports" /\ [Next]_all =>
        (page = "reports")' /\ [Eng!Next]_<<Eng!rvars, clicks, faults>>
  BY StepOfThePage DEF all, Eng!rvars
<1> QED BY <1>1, <1>2, PTL DEF Spec, Eng!Spec

-----------------------------------------------------------------------------
(* Evidence, bookings and logins.                                             *)

\* Evidence is checked before anybody reads it, has a row and an object, or somebody
\* who removes them; and what was decided about a file is never taken back.
THEOREM EvidenceHolds == Spec => EvidenceIsChecked
<1>1. Evi!Spec => []Evi!EvidenceIsChecked
  BY EvidenceIsSafe
<1>2. Evi!Spec => []EvidenceInv
  BY EvidenceSound
<1>3. ASSUME EvidenceInv, [Next]_all, page = "evidence" PROVE Evi!DecidedOnce
  <2>1. [Evi!Next]_<<Evi!qvars, clicks, faults>>
    BY <1>3, StepOfThePage DEF all, Evi!qvars, Evi!stored, Evi!deletion, Evi!reading
  <2>2. Evi!Promise!StatusNext \/ Evi!Seen' = Evi!Seen
    BY <1>3, <2>1, StepPromised
  <2> QED BY <2>2 DEF Evi!DecidedOnce
<1>4. Spec /\ page = "evidence" => EvidenceIsChecked
  BY <1>1, <1>2, <1>3, EvidenceRefines, PTL DEF Spec, EvidenceIsChecked
<1>5. ~(page = "evidence") /\ [Next]_all => ~(page = "evidence")'
  BY StepOfThePage
<1>6. Spec /\ ~(page = "evidence") => EvidenceIsChecked
  BY <1>5, PTL DEF Spec, EvidenceIsChecked
<1> QED BY <1>4, <1>6

\* A pentester is not booked twice for the same days, nor offered as free at work.
THEOREM BookingsHold == Spec => []BookedOnce
<1>1. Del!Spec => []Del!NoDoubleBooking
  BY NobodyBookedTwice
<1>2. Del!Spec => []Del!AtWorkIsEngaged
  BY EngagedAtWork
<1>3. Del!NoDoubleBooking /\ Del!AtWorkIsEngaged => BookedOnce
  BY DEF BookedOnce
<1>4. Spec /\ page = "delivery" => []BookedOnce
  BY <1>1, <1>2, <1>3, DeliveryRefines, PTL
<1>5. ~(page = "delivery") /\ [Next]_all => ~(page = "delivery")'
  BY StepOfThePage
<1>6. ~(page = "delivery") => BookedOnce
  BY DEF BookedOnce
<1>7. Spec /\ ~(page = "delivery") => []BookedOnce
  BY <1>5, <1>6, PTL DEF Spec
<1> QED BY <1>4, <1>7

\* No login without a profile is left behind, none stays open after a deactivation,
\* and nobody is deactivated who was not confirmed.
THEOREM LoginsHold == Spec => []LoginsFollowProfiles
<1>1. Dir!IInv => LoginsFollowProfiles
  BY DEF Dir!IInv, Dir!AccountsAreSound, Dir!HalfCreated, Dir!NoStrayLogin,
         Dir!DeactivationsAreConfirmed, LoginsFollowProfiles
<1>2. Spec /\ page = "directory" => []LoginsFollowProfiles
  BY <1>1, DirectoryRefines, DirectoryInit, DirectoryStepSound, PTL DEF Dir!Spec
<1>3. ~(page = "directory") /\ [Next]_all => ~(page = "directory")'
  BY StepOfThePage
<1>4. ~(page = "directory") => LoginsFollowProfiles
  BY DEF LoginsFollowProfiles
<1>5. Spec /\ ~(page = "directory") => []LoginsFollowProfiles
  BY <1>3, <1>4, PTL DEF Spec
<1> QED BY <1>2, <1>5

-----------------------------------------------------------------------------
(* What the pages promise together.                                           *)

\* There is no way that ends nowhere.
THEOREM NoWayEnds == Spec => []NoDeadEnd
<1> DEFINE Others == page \notin {"access", "request", "reports"}
<1>1. Spec /\ page = "access" => []NoDeadEnd
  <2>1. page = "access" /\ Acc!MenuLeadsToPages => NoDeadEnd
    BY DEF NoDeadEnd
  <2> QED BY <2>1, AccessRefines, LinksLeadIn, PTL
<1>2. Spec /\ page = "request" => []NoDeadEnd
  <2>1. page = "request" /\ Req!NothingMissingBehind => NoDeadEnd
    BY DEF NoDeadEnd
  <2> QED BY <2>1, RequestRefines, NothingMissing, PTL
<1>3. Spec /\ page = "reports" => []NoDeadEnd
  <2>1. page = "reports" /\ Eng!NeverStuck => NoDeadEnd
    BY DEF NoDeadEnd
  <2> QED BY <2>1, ReportsRefine, CanBeRetried, PTL
<1>4. Spec /\ Others => []NoDeadEnd
  <2>1. Others /\ [Next]_all => Others'
    BY StepOfThePage
  <2>2. Others => NoDeadEnd
    BY DEF NoDeadEnd
  <2> QED BY <2>1, <2>2, PTL DEF Spec
<1>5. page = "access" \/ page = "request" \/ page = "reports" \/ Others
  OBVIOUS
<1> QED BY <1>1, <1>2, <1>3, <1>4, <1>5

-----------------------------------------------------------------------------
(* What the pages of an engagement promise together.                          *)

\* The status of an engagement and what hangs on it agree.
THEOREM WorkflowHolds == Spec => []WorkflowAgrees
<1> DEFINE Others == page \notin {"retests", "console", "reports"}
<1>1. Spec /\ page = "retests" => []WorkflowAgrees
  <2>1. page = "retests" /\ Ret!CycleCloses /\ Ret!CompletedIsDone => WorkflowAgrees
    BY DEF WorkflowAgrees
  <2> QED BY <2>1, RetestsRefine, CyclesClose, PTL
<1>2. Spec /\ page = "console" => []WorkflowAgrees
  <2>1. page = "console" /\ Con!FrozenInReview => WorkflowAgrees
    BY DEF WorkflowAgrees
  <2> QED BY <2>1, ConsoleRefines, FrozenWhileReviewed, PTL
<1>3. Spec /\ page = "reports" => []WorkflowAgrees
  <2>1. page = "reports" /\ Eng!CompletedIsReported => WorkflowAgrees
    BY DEF WorkflowAgrees
  <2> QED BY <2>1, ReportsRefine, ReportIsThere, PTL
<1>4. Spec /\ Others => []WorkflowAgrees
  <2>1. Others /\ [Next]_all => Others'
    BY StepOfThePage
  <2>2. Others => WorkflowAgrees
    BY DEF WorkflowAgrees
  <2> QED BY <2>1, <2>2, PTL DEF Spec
<1>5. page = "retests" \/ page = "console" \/ page = "reports" \/ Others
  OBVIOUS
<1> QED BY <1>1, <1>2, <1>3, <1>4, <1>5

-----------------------------------------------------------------------------
(* What the pages promise the user who is signed in.                          *)

\* The session is the user's: it is kept until something ends it, gone when he has signed
\* out, and what the other account could see is forgotten.
THEOREM SessionHolds == Spec => []SessionIsTheUsers
<1> DEFINE Others == page \notin {"session", "messages"}
<1>1. Spec /\ page = "session" => []SessionIsTheUsers
  <2>1. page = "session" /\ Ses!SignedInIsKept /\ Ses!SignedOutStays => SessionIsTheUsers
    BY DEF SessionIsTheUsers
  <2> QED BY <2>1, SessionRefines, SessionKept, PTL
<1>2. Spec /\ page = "messages" => []SessionIsTheUsers
  <2>1. page = "messages" /\ Mes!ForgottenStaysForgotten => SessionIsTheUsers
    BY DEF SessionIsTheUsers
  <2>2. Mes!Forgotten /\ [Mes!Next]_Mes!mvars => Mes!Forgotten'
    BY InboxStep
  <2> QED BY <2>1, <2>2, MessagesRefine, InboxInit, InboxForgets, PTL DEF Mes!Spec
<1>3. Spec /\ Others => []SessionIsTheUsers
  <2>1. Others /\ [Next]_all => Others'
    BY StepOfThePage
  <2>2. Others => SessionIsTheUsers
    BY DEF SessionIsTheUsers
  <2> QED BY <2>1, <2>2, PTL DEF Spec
<1>4. page = "session" \/ page = "messages" \/ Others
  OBVIOUS
<1> QED BY <1>1, <1>2, <1>3, <1>4

-----------------------------------------------------------------------------
(* What the pages promise the user who presses twice.                         *)

\* What is asked for once is done once: a message is stored, a scan started, a request or
\* a finding saved, a domain listed and a report generated no more often than the user
\* has reason to expect.
THEOREM DoneOnce == Spec => []NothingTwice
<1> DEFINE Others == page \notin {"messages", "progress", "request", "console", "domains",
                                  "reports"}
<1>1. Spec /\ page = "messages" => []NothingTwice
  <2>1. page = "messages" /\ Mes!NoSilentDuplicate => NothingTwice
    BY DEF NothingTwice
  <2> QED BY <2>1, MessagesOnce, MessagesRefine, PTL
<1>2. Spec /\ page = "progress" => []NothingTwice
  <2>1. page = "progress" /\ Pro!OneScanPerStart => NothingTwice
    BY DEF NothingTwice
  <2> QED BY <2>1, StartedOnce, ProgressRefines, PTL
<1>3. Spec /\ page = "request" => []NothingTwice
  <2>1. page = "request" /\ Req!OneRequestPerPress => NothingTwice
    BY DEF NothingTwice
  <2> QED BY <2>1, RequestedOnce, RequestRefines, PTL
<1>4. Spec /\ page = "console" => []NothingTwice
  <2>1. page = "console" /\ Con!SavedOnce => NothingTwice
    BY DEF NothingTwice
  <2> QED BY <2>1, FindingsSavedOnce, ConsoleRefines, PTL
<1>5. Spec /\ page = "domains" => []NothingTwice
  <2>1. page = "domains" /\ Dom!NoRowTwice => NothingTwice
    BY DEF NothingTwice
  <2> QED BY <2>1, DomainsOnce, DomainsRefine, PTL
<1>6. Spec /\ page = "reports" => []NothingTwice
  <2>1. page = "reports" /\ Eng!OneGeneration => NothingTwice
    BY DEF NothingTwice
  <2> QED BY <2>1, ReportsRefine, OneAtATime, PTL
<1>7. Spec /\ Others => []NothingTwice
  <2>1. Others /\ [Next]_all => Others'
    BY StepOfThePage
  <2>2. Others => NothingTwice
    BY DEF NothingTwice
  <2> QED BY <2>1, <2>2, PTL DEF Spec
<1>8. \/ page = "messages" \/ page = "progress" \/ page = "request" \/ page = "console"
      \/ page = "domains" \/ page = "reports" \/ Others
  OBVIOUS
<1> QED BY <1>1, <1>2, <1>3, <1>4, <1>5, <1>6, <1>7, <1>8

-----------------------------------------------------------------------------
(* What the pages promise the user who acts.                                  *)

\* A page does what the user says and loses nothing that he has written or decided.
THEOREM UserObeyed == Spec => UserIsObeyed
<1>1. Spec => [](page = "progress" => Pro!StartsWhatItSays)
  <2>1. OrdersAgree /\ [Pro!Next]_Pro!wvars => OrdersAgree'
    BY OrdersStay
  <2>2. OrdersAgree => Pro!StartsWhatItSays
    BY DEF OrdersAgree
  <2>3. ~(page = "progress") /\ [Next]_all => ~(page = "progress")'
    BY StepOfThePage
  <2> QED BY <2>1, <2>2, <2>3, ProgressRefines, ProgressInit, PTL DEF Spec, Pro!Spec
<1>2. Spec => [][page = "messages" => Mes!DraftSurvives]_all
  <2>1. MailTyped /\ StoredIsThere /\ [Mes!Next]_Mes!mvars =>
          MailTyped' /\ StoredIsThere' /\ Mes!DraftSurvives
    BY MailStep
  <2>2. ~(page = "messages") /\ [Next]_all => ~(page = "messages")'
    BY StepOfThePage
  <2> QED BY <2>1, <2>2, MessagesRefine, MailInit, PTL DEF Spec, Mes!Spec
<1>3. Spec => [][page = "schedules" => Sch!KeepsForm /\ Sch!DropsForm]_all
  <2>1. Sch!IInv /\ [Sch!Next]_Sch!svars => Sch!IInv' /\ Sch!KeepsForm /\ Sch!DropsForm
    BY SchedulesStepSound, FormKept, FormDropped
  <2>2. ~(page = "schedules") /\ [Next]_all => ~(page = "schedules")'
    BY StepOfThePage
  <2> QED BY <2>1, <2>2, SchedulesRefine, SchedulesInit, PTL DEF Spec, Sch!Spec
<1>4. Spec => [][page = "console" => Con!KeepsFinding]_all
  <2>1. ErrorsHideForms /\ [Con!Next]_Con!pcvars => ErrorsHideForms' /\ Con!KeepsFinding
    BY ConsoleFormStep
  <2>2. ~(page = "console") /\ [Next]_all => ~(page = "console")'
    BY StepOfThePage
  <2> QED BY <2>1, <2>2, ConsoleRefines, ConsoleFormInit, PTL DEF Spec, Con!Spec
<1>5. Spec => [][page = "brand" => Bra!KeepsDecision]_all
  <2>1. Bra!IInv /\ [Bra!Next]_Bra!bvars => Bra!IInv' /\ Bra!KeepsDecision
    BY BrandStepSound, DecisionKept
  <2>2. ~(page = "brand") /\ [Next]_all => ~(page = "brand")'
    BY StepOfThePage
  <2> QED BY <2>1, <2>2, BrandRefines, BrandInit, PTL DEF Spec, Bra!Spec
<1>6. Spec => [][page = "graph" => Gra!OpensTheRow]_all
  <2>1. Gra!IInv /\ [Gra!Next]_Gra!gvars => Gra!IInv' /\ Gra!OpensTheRow
    BY GraphStepSound, RowIsOpened
  <2>2. ~(page = "graph") /\ [Next]_all => ~(page = "graph")'
    BY StepOfThePage
  <2> QED BY <2>1, <2>2, GraphRefines, GraphInit, PTL DEF Spec, Gra!Spec
<1> QED BY <1>1, <1>2, <1>3, <1>4, <1>5, <1>6 DEF UserIsObeyed

-----------------------------------------------------------------------------
(* What the pages show.                                                       *)

\* What a page shows is what the backend holds for the view that was chosen, as far as its
\* answers came; what looks under way is asked for; what looks settled is.
THEOREM ShownHolds == Spec => []ShownIsCurrent
<1> DEFINE Others == page \notin {"domains", "schedules", "progress", "report", "history", "panel",
                                 "graph", "findings", "brand", "assistant"}
<1>1. Spec /\ page = "domains" => []ShownIsCurrent
  <2>1. page = "domains" /\ Dom!RowsOfTheView => ShownIsCurrent
    BY DEF ShownIsCurrent
  <2> QED BY <2>1, DomainsRefine, RowsFollowView, PTL
<1>2. Spec /\ page = "schedules" => []ShownIsCurrent
  <2>1. page = "schedules" /\ Sch!ListIsCurrent => ShownIsCurrent
    BY DEF ShownIsCurrent
  <2> QED BY <2>1, SchedulesRefine, ListFollowsStore, PTL
<1>3. Spec /\ page = "progress" => []ShownIsCurrent
  <2>1. page = "progress" /\ Pro!NeverStopsEarly /\ Pro!DiagramComesToRest => ShownIsCurrent
    BY DEF ShownIsCurrent
  <2> QED BY <2>1, ProgressRefines, EndIsKnown, PTL
<1>4. Spec /\ page = "report" => []ShownIsCurrent
  <2>1. page = "report" /\ Rep!OfferedIsThere => ShownIsCurrent
    BY DEF ShownIsCurrent
  <2> QED BY <2>1, ReportRefines, OfferedReports, PTL
<1>5. Spec /\ page = "history" => []ShownIsCurrent
  <2>1. page = "history" /\ His!HistoryIsWhole /\ His!AllCanBeShown /\ His!NamesTheRecipient
          => ShownIsCurrent
    BY DEF ShownIsCurrent
  <2> QED BY <2>1, HistoryRefines, HistoryTold, PTL
<1>6. Spec /\ page = "panel" => []ShownIsCurrent
  <2>1. page = "panel" /\ Las!ShowsTheNamedScan /\ Las!SkeletonIsWaitedFor => ShownIsCurrent
    BY DEF ShownIsCurrent
  <2> QED BY <2>1, PanelRefines, NumbersAreNamed, PTL
<1>7. Spec /\ page = "graph" => []ShownIsCurrent
  <2>1. page = "graph" /\ Gra!AsksUntilTheEnd /\ Gra!NothingLooksUnderWay
                         /\ Gra!NothingIsLost /\ Gra!FindingsAreTraced => ShownIsCurrent
    BY DEF ShownIsCurrent
  <2> QED BY <2>1, GraphRefines, GraphIsWhole, PTL
<1>8. Spec /\ page = "findings" => []ShownIsCurrent
  <2>1. page = "findings" /\ Fin!ListIsOfTheView /\ Fin!FilesOfTheFinding
                            /\ Fin!VerdictsShownStand => ShownIsCurrent
    BY DEF ShownIsCurrent
  <2> QED BY <2>1, FindingsRefine, FindingsShown, PTL
<1>9. Spec /\ page = "brand" => []ShownIsCurrent
  <2>1. page = "brand" /\ Bra!ResultsAreThere => ShownIsCurrent
    BY DEF ShownIsCurrent
  <2> QED BY <2>1, BrandRefines, ResultsAreTold, PTL
<1>10. Spec /\ page = "assistant" => []ShownIsCurrent
  <2>1. page = "assistant" /\ Ass!HistoryComesBefore /\ Ass!CopiedIsShown => ShownIsCurrent
    BY DEF ShownIsCurrent
  <2> QED BY <2>1, AssistantRefines, AssistantTells, PTL
<1>11. Spec /\ Others => []ShownIsCurrent
  <2>1. Others /\ [Next]_all => Others'
    BY StepOfThePage
  <2>2. Others => ShownIsCurrent
    BY DEF ShownIsCurrent
  <2> QED BY <2>1, <2>2, PTL DEF Spec
<1>12. \/ page = "domains" \/ page = "schedules" \/ page = "progress" \/ page = "report"
       \/ page = "history" \/ page = "panel" \/ page = "graph" \/ page = "findings"
       \/ page = "brand" \/ page = "assistant" \/ Others
  OBVIOUS
<1> QED BY <1>1, <1>2, <1>3, <1>4, <1>5, <1>6, <1>7, <1>8, <1>9, <1>10, <1>11, <1>12

-----------------------------------------------------------------------------
(* What the variables of the pages may be.                                    *)

\* Every page has the values its type invariant says: the thread on display is of the list,
\* the panel of a row that is there, the answer of a request that is waited for.
THEOREM PagesTyped == Spec => []TypeOK
<1> DEFINE Others == page \notin {"messages", "alerts", "access", "session", "progress", "panel",
                                 "history", "report", "domains", "schedules", "request",
                                 "retests", "delivery", "console", "directory", "brand",
                                 "assistant", "graph", "findings", "evidence", "reports"}
<1>1. Spec /\ page = "messages" => []TypeOK
  <2>1. page = "messages" /\ Mes!TypeOK => TypeOK
    BY DEF TypeOK
  <2> QED BY <2>1, MessagesRefine, MessagesTyped, PTL
<1>2. Spec /\ page = "alerts" => []TypeOK
  <2>1. page = "alerts" /\ Not!TypeOK => TypeOK
    BY DEF TypeOK
  <2> QED BY <2>1, AlertsRefine, NoticesTyped, PTL
<1>3. Spec /\ page = "access" => []TypeOK
  <2>1. page = "access" /\ Acc!TypeOK => TypeOK
    BY DEF TypeOK
  <2> QED BY <2>1, AccessRefines, AccessTyped, PTL
<1>4. Spec /\ page = "session" => []TypeOK
  <2>1. page = "session" /\ Ses!TypeOK => TypeOK
    BY DEF TypeOK
  <2> QED BY <2>1, SessionRefines, SessionTyped, PTL
<1>5. Spec /\ page = "progress" => []TypeOK
  <2>1. page = "progress" /\ Pro!TypeOK => TypeOK
    BY DEF TypeOK
  <2> QED BY <2>1, ProgressRefines, EndIsKnown, PTL
<1>6. Spec /\ page = "panel" => []TypeOK
  <2>1. page = "panel" /\ Las!TypeOK => TypeOK
    BY DEF TypeOK
  <2> QED BY <2>1, PanelRefines, NumbersAreNamed, PTL
<1>7. Spec /\ page = "history" => []TypeOK
  <2>1. page = "history" /\ His!TypeOK => TypeOK
    BY DEF TypeOK
  <2> QED BY <2>1, HistoryRefines, HistoryTold, PTL
<1>8. Spec /\ page = "report" => []TypeOK
  <2>1. page = "report" /\ Rep!TypeOK => TypeOK
    BY DEF TypeOK
  <2> QED BY <2>1, ReportRefines, OfferedReports, PTL
<1>9. Spec /\ page = "domains" => []TypeOK
  <2>1. page = "domains" /\ Dom!TypeOK => TypeOK
    BY DEF TypeOK
  <2> QED BY <2>1, DomainsRefine, DomainsTyped, PTL
<1>10. Spec /\ page = "schedules" => []TypeOK
  <2>1. page = "schedules" /\ Sch!TypeOK => TypeOK
    BY DEF TypeOK
  <2> QED BY <2>1, SchedulesRefine, ListFollowsStore, PTL
<1>11. Spec /\ page = "request" => []TypeOK
  <2>1. page = "request" /\ Req!TypeOK => TypeOK
    BY DEF TypeOK
  <2>2. RequestInv => Req!TypeOK
    BY DEF RequestInv
  <2> QED BY <2>1, <2>2, RequestRefines, RequestInit, RequestStepSound, PTL DEF Req!Spec
<1>12. Spec /\ page = "retests" => []TypeOK
  <2>1. page = "retests" /\ Ret!TypeOK => TypeOK
    BY DEF TypeOK
  <2> QED BY <2>1, RetestsRefine, RetestsTyped, PTL
<1>13. Spec /\ page = "delivery" => []TypeOK
  <2>1. page = "delivery" /\ Del!TypeOK => TypeOK
    BY DEF TypeOK
  <2> QED BY <2>1, DeliveryRefines, DeliveryTyped, PTL
<1>14. Spec /\ page = "console" => []TypeOK
  <2>1. page = "console" /\ Con!TypeOK => TypeOK
    BY DEF TypeOK
  <2> QED BY <2>1, ConsoleRefines, ConsoleIsTyped, PTL
<1>15. Spec /\ page = "directory" => []TypeOK
  <2>1. page = "directory" /\ Dir!TypeOK => TypeOK
    BY DEF TypeOK
  <2>2. Dir!IInv => Dir!TypeOK
    BY DEF Dir!IInv, Dir!Typed
  <2> QED BY <2>1, <2>2, DirectoryRefines, DirectoryInit, DirectoryStepSound, PTL DEF Dir!Spec
<1>16. Spec /\ page = "brand" => []TypeOK
  <2>1. page = "brand" /\ Bra!TypeOK => TypeOK
    BY DEF TypeOK
  <2> QED BY <2>1, BrandRefines, ResultsAreTold, PTL
<1>17. Spec /\ page = "assistant" => []TypeOK
  <2>1. page = "assistant" /\ Ass!TypeOK => TypeOK
    BY DEF TypeOK
  <2> QED BY <2>1, AssistantRefines, AssistantTells, PTL
<1>18. Spec /\ page = "graph" => []TypeOK
  <2>1. page = "graph" /\ Gra!TypeOK => TypeOK
    BY DEF TypeOK
  <2> QED BY <2>1, GraphRefines, GraphIsWhole, PTL
<1>19. Spec /\ page = "findings" => []TypeOK
  <2>1. page = "findings" /\ Fin!TypeOK => TypeOK
    BY DEF TypeOK
  <2> QED BY <2>1, FindingsRefine, FindingsShown, PTL
<1>20. Spec /\ page = "evidence" => []TypeOK
  <2>1. page = "evidence" /\ Evi!TypeOK => TypeOK
    BY DEF TypeOK
  <2>2. EvidenceInv => Evi!TypeOK
    BY DEF EvidenceInv
  <2> QED BY <2>1, <2>2, EvidenceRefines, EvidenceSound, PTL
<1>21. Spec /\ page = "reports" => []TypeOK
  <2>1. page = "reports" /\ Eng!TypeOK => TypeOK
    BY DEF TypeOK
  <2>2. ReportsInv => Eng!TypeOK
    BY DEF ReportsInv
  <2> QED BY <2>1, <2>2, ReportsRefine, ReportsSound, PTL
<1>22. Spec /\ Others => []TypeOK
  <2>1. Others /\ [Next]_all => Others'
    BY StepOfThePage
  <2>2. Others => TypeOK
    BY DEF TypeOK
  <2> QED BY <2>1, <2>2, PTL DEF Spec
<1>23. \/ page = "messages" \/ page = "alerts" \/ page = "access" \/ page = "session"
       \/ page = "progress" \/ page = "panel" \/ page = "history" \/ page = "report"
       \/ page = "domains" \/ page = "schedules" \/ page = "request" \/ page = "retests"
       \/ page = "delivery" \/ page = "console" \/ page = "directory" \/ page = "brand"
       \/ page = "assistant" \/ page = "graph" \/ page = "findings" \/ page = "evidence"
       \/ page = "reports" \/ Others
  OBVIOUS
<1> QED BY <1>1, <1>2, <1>3, <1>4, <1>5, <1>6, <1>7, <1>8, <1>9, <1>10, <1>11, <1>12, <1>13,
           <1>14, <1>15, <1>16, <1>17, <1>18, <1>19, <1>20, <1>21, <1>22, <1>23
====
