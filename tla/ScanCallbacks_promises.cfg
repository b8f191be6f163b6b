CONSTANTS
  Sources = {dns, hibp}
  MaxLateStarts = 0
  MaxFaults = 0
SPECIFICATION FairSpec
PROPERTIES
  EveryResultIsRecorded
  ConcludesOrOverlaps
  ImplementsLifecycle
