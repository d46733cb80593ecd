\* Expected to fail: a baseline racing a run stamps a database with history.
SPECIFICATION OverlapSpec
CONSTANTS
  p1 = p1
  p2 = p2
  NoProc = NoProc
  MaxVersion = 2
  MaxRuns = 1
  MaxFaults = 0
  Proc <- TwoInstances
  Sources <- SameBuild
  Command <- RaceCommands
PROPERTIES StampsFreshDatabase
CHECK_DEADLOCK FALSE
