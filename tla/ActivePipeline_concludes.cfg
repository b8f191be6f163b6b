CONSTANTS
  PipelineRuns <- SomeRuns
  Sources <- WithLeaf
  MaxFaults = 0
SPECIFICATION FairSpec
PROPERTY EveryActiveScanConcludes
