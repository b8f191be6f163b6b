CONSTANTS
  Handlers = {h1, h2}
  MaxFaults = 0
SPECIFICATION FairSpec
PROPERTY EveryReportSettles
