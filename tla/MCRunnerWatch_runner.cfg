SPECIFICATION FairSpec
CONSTANTS
  StuckThreshold = 1
  RunningThreshold = 2
  MaxRunners = 2
  MaxRestarts = 1
  MaxBackoff = 1
  LastChange <- MCLastChange
  MaxTime <- MCMaxTime
INVARIANTS TypeOK OnTime NotEarly
PROPERTY StuckReported
