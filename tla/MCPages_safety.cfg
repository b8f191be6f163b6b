CONSTANTS
  None = None
  MaxFaults = 1
  MaxClicks = 2
  Threads = {t1, t2}
  MaxTexts = 2
  MaxIncoming = 1
  MaxAlerts = 2
  MaxSources = 2
  MaxReportChecks = 2
  Files = {f1, f2}
  Workers = {w1, w2}
  Flaws = {v1}
  OpenPages = {"messages", "alerts", "access", "session", "progress", "panel", "history", "report",
               "domains", "schedules", "request", "retests", "delivery", "console", "directory", "brand",
               "assistant", "graph", "findings", "evidence", "reports"}
SPECIFICATION Spec
INVARIANTS
  TypeOK
  NothingTwice
  ShownIsCurrent
  WorkflowAgrees
  BookedOnce
  SessionIsTheUsers
  LoginsFollowProfiles
  NoDeadEnd
PROPERTIES
  UserIsObeyed
  EvidenceIsChecked
CHECK_DEADLOCK FALSE
