CONSTANTS
  Handlers = {h1, h2, h3}
  MaxFaults = 1
SPECIFICATION FairSpec
INVARIANTS
  TypeOK
  GeneratingIsUnderWay
  CompletedHasPdf
PROPERTIES
  CompletedIsKept
  GenerationSettles
