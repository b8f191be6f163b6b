CONSTANTS
  None = None
  MaxFaults = 1
  MaxClicks = 1
  Threads = {t1, t2}
  MaxTexts = 1
  MaxIncoming = 1
  MaxAlerts = 2
  MaxSources = 1
  MaxReportChecks = 2
  Files = {f1, f2}
  Workers = {w1, w2}
  Flaws = {v1}
  OpenPages = {"messages", "alerts", "access", "session", "progress", "panel", "report", "domains",
               "console", "brand", "assistant", "reports"}
SPECIFICATION FairSpec
PROPERTIES
  WaitingEnds
  ShownInTheEnd
CHECK_DEADLOCK FALSE
