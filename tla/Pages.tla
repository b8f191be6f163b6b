------------------------------- MODULE Pages --------------------------------
(* The pages of the web client together. The browser shows one at a time and  *)
(* pages share nothing, so that they take turns on the same variables: a page *)
(* has the first ones, in the order in which its module declares its own.     *)
EXTENDS PageBounds

VARIABLES s1, s2, s3, s4, s5, s6, s7, s8, s9, s10, s11, s12, s13, s14, s15, s16, s17, s18, s19, s20

-----------------------------------------------------------------------------
(* What is scanned: a scan and its progress, its results, its graph and its   *)
(* report, the domains, the schedules, brand monitoring.                      *)

Pro == INSTANCE ScanProgress WITH
  scans <- s1, status <- s2, sources <- s3, index <- s4, form <- s5, starting <- s6,
  order <- s7, asked <- s8, failures <- s9, startError <- s10, watched <- s11, shown <- s12,
  interval <- s13, answers <- s14, connection <- s15, overtaken <- s16
Las == INSTANCE LastScanPanel WITH
  history <- s1, loaded <- s2, view <- s3, selection <- s4, cache <- s5, data <- s6,
  error <- s7, asking <- s8, dropped <- s9
His == INSTANCE HistoryPage WITH
  world <- s1, count <- s2, request <- s3, all <- s4, scans <- s5, error <- s6, shifted <- s7,
  typeFilter <- s8, domainFilter <- s9, shown <- s10, dialog <- s11, mailed <- s12
Rep == INSTANCE ReportPage WITH
  pdf <- s1, report <- s2, checking <- s3, checks <- s4, gaveUp <- s5, error <- s6, intro <- s7,
  timeline <- s8, counts <- s9, early <- s10, mail <- s11, address <- s12, target <- s13,
  sentTo <- s14, mails <- s15
Dom == INSTANCE DomainsPage WITH
  domains <- s1, tab <- s2, search <- s3, debounced <- s4, rows <- s5, more <- s6,
  fetches <- s7, request <- s8, loading <- s9, listError <- s10, loadedFor <- s11,
  verifying <- s12, verifications <- s13, phases <- s14, feedback <- s15, removals <- s16,
  form <- s17, additions <- s18, chosen <- s19, strayed <- s20
Sch == INSTANCE SchedulesPage WITH
  schedules <- s1, version <- s2, table <- s3, tableVersion <- s4, loads <- s5, loading <- s6,
  domainsKnown <- s7, pageError <- s8, workingId <- s9, toggles <- s10, showForm <- s11,
  submission <- s12, submitted <- s13, formError <- s14, reopened <- s15, deleteTarget <- s16,
  deletions <- s17, deleteError <- s18, outdated <- s19
Bra == INSTANCE BrandMonitoring WITH
  jobs <- s1, started <- s2, monitor <- s3, load <- s4, shown <- s5, watch <- s6, polls <- s7,
  notice <- s8, decision <- s9, saving <- s10, MaxClicks <- 3
Gra == INSTANCE ScanGraph WITH
  world <- s1, level <- s2, late <- s3, polls <- s4, polling <- s5, scan <- s6, graph <- s7,
  loadError <- s8, collapsed <- s9, autoCollapsed <- s10, focus <- s11, focusHandled <- s12,
  panel <- s13, overtaken <- s14

-----------------------------------------------------------------------------
(* An engagement, and the tasks behind its evidence and its reports.          *)

Req == INSTANCE EngagementRequest WITH
  phone <- s1, stage <- s2, engagementType <- s3, assessmentType <- s4, objective <- s5,
  contact <- s6, startDate <- s7, endDate <- s8, assets <- s9, today <- s10, rendered <- s11,
  submitting <- s12, submitError <- s13, submitted <- s14, requests <- s15, presses <- s16
Ret == INSTANCE Retests WITH
  engagement <- s1, retests <- s2, window <- s3, asks <- s4, clientStatus <- s5, eligible <- s6,
  modal <- s7, askFailed <- s8, list <- s9, openId <- s10, confirming <- s11, saving <- s12,
  uploading <- s13, patches <- s14, crossed <- s15, overlapped <- s16
Del == INSTANCE Delivery WITH
  board <- s1, availability <- s2, ops <- s3, late <- s4, reopened <- s5, released <- s6,
  detail <- s7, isLoading <- s8
Con == INSTANCE PentesterConsole WITH
  stage <- s1, drafts <- s2, kept <- s3, scanned <- s4, atReview <- s5, ops <- s6, cached <- s7,
  failed <- s8, loads <- s9, visited <- s10, form <- s11, opened <- s12, overlapped <- s13,
  panel <- s14, confirming <- s15, MaxClicks <- 5
Fin == INSTANCE FindingsPage WITH
  status <- s1, existing <- s2, owner <- s3, view <- s4, shown <- s5, loads <- s6,
  isLoading <- s7, details <- s8, panel <- s9, posts <- s10, blobs <- s11, crossed <- s12,
  pressed <- s13, refused <- s14
Evi == INSTANCE EvidenceQuarantine WITH
  flaws <- s1, rows <- s2, objects <- s3, uploads <- s4, references <- s5, removing <- s6,
  leftover <- s7, job <- s8, download <- s9, received <- s10
Eng == INSTANCE EngagementReports WITH
  phase <- s1, findings <- s2, submissions <- s3, report <- s4, file <- s5, generations <- s6,
  renderings <- s7, retries <- s8, review <- s9, mail <- s10, marked <- s11, rushed <- s12,
  crossed <- s13, late <- s14, lost <- s15, MaxFaults <- MaxFaults + 1

-----------------------------------------------------------------------------
(* The user himself: his session, what he may visit, his messages and         *)
(* notifications, the assistant, the administration of logins.                *)

Mes == INSTANCE Messaging WITH
  log <- s1, readUpTo <- s2, mine <- s3, account <- s4, inbox <- s5, inboxState <- s6,
  active <- s7, loaded <- s8, reading <- s9, orphans <- s10, drafts <- s11, sends <- s12,
  sendError <- s13, typed <- s14, retried <- s15, viewed <- s16, noticed <- s17, MaxClicks <- 1
Not == INSTANCE Notifications WITH
  posted <- s1, seen <- s2, menuOpen <- s3, items <- s4, badge <- s5, polls <- s6,
  patches <- s7, readAll <- s8, MaxClicks <- MaxClicks + 1
Acc == INSTANCE PageAccess WITH
  visitor <- s1, profile <- s2, menuRole <- s3, at <- s4, going <- s5
Ses == INSTANCE BrowserSession WITH
  sso <- s1, logins <- s2, jar <- s3, oauth <- s4, flows <- s5, calls <- s6, queue <- s7,
  leaving <- s8, ended <- s9, out <- s10, late <- s11, slept <- s12
Dir == INSTANCE Directory WITH
  profiles <- s1, logins <- s2, creating <- s3, strays <- s4, addOpen <- s5, filled <- s6,
  addError <- s7, removing <- s8, locking <- s9, opening <- s10, selected <- s11,
  confirm <- s12, asked <- s13, view <- s14, rows <- s15, lists <- s16, work <- s17,
  MaxClicks <- 4
Ass == INSTANCE Assistant WITH
  at <- s1, turns <- s2, asked <- s3, pending <- s4, copied <- s5, clipboard <- s6,
  copying <- s7, crossed <- s8, prepared <- s9, query <- s10, reply <- s11, MaxClicks <- 5
=============================================================================
