CONSTANTS
  Domains = {d1}
  Recurrences = {"each"}
  Slots <- SomeSlots
  Changes <- AllChanges
  Validity = 2
  Ticks = {k1, k2}
  Clients = {c1}
  MaxScans = 2
  MaxIssues = 2
  MaxFaults = 1
  Horizon = 2
SPECIFICATION Spec
SYMMETRY Symmetry
INVARIANTS
  TypeOK
  OncePerOccurrence
  LastRunWasSentOff
PROPERTIES
  NewScanIsAuthorised
  GrantIsAuthorised
