CONSTANTS
  PipelineRuns <- FewRuns
  Sources <- ChainOnly
  MaxFaults = 3
SPECIFICATION FairSpec
INVARIANTS
  TypeOK
  StagesInOrder
  OnlyCpeResolverIsLeftOut
PROPERTIES
  ConcludedIsFinal
  ChainDrains
