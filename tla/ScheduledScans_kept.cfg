CONSTANTS
  Domains = {d1}
  Recurrences = {"odd"}
  Slots <- SomeSlots
  Changes <- PauseAndResume
  Validity = 10
  Ticks = {k1}
  Clients = {c1}
  MaxScans = 1
  MaxIssues = 2
  MaxFaults = 0
  Horizon = 1
SPECIFICATION Spec
INVARIANT OwnerDecides
