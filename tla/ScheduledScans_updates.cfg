CONSTANTS
  Domains = {d1}
  Recurrences = {"even", "odd"}
  Slots <- SomeSlots
  Changes <- SetRecurrence
  Validity = 10
  Ticks = {k1}
  Clients = {c1, c2}
  MaxScans = 2
  MaxIssues = 1
  MaxFaults = 1
  Horizon = 1
  DayLength = 4
  FirstWeekday = 3
  Months <- SomeMonths
  MonthStart <- Starts
  MonthLength <- Lengths
SPECIFICATION FairSpec
INVARIANT NextRunIsFirst
PROPERTIES
  RunsGoForward
  DueIsHandled
