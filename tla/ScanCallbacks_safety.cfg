CONSTANTS
  Sources = {dns, hibp}
  MaxLateStarts = 1
  MaxFaults = 1
SPECIFICATION Spec
SYMMETRY SourceSymmetry
INVARIANTS
  TypeOK
  TerminalIsSound
  OnlyOverlapLosesCompletion
  ReportIsAsked
  MemoryAgrees
PROPERTIES
  FinishedIsKept
  TerminalIsFinal
