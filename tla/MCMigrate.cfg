\* Two builds of a rolling deploy and an operator: every command, in every
\* interleaving, failing, crashing and started again.
SPECIFICATION OverlapSpec
CONSTANTS
  p1 = p1
  p2 = p2
  NoProc = NoProc
  MaxVersion = 3
  MaxRuns = 2
  MaxFaults = 1
  Proc <- TwoInstances
  Sources <- LateMerge
  Command <- AllCommands
INVARIANTS TypeOK RanInOrder SuccessMeansCurrent NoGaps RecordedOnceApart BaselineExactApart
PROPERTIES ImplementsHistory Finishes
CHECK_DEADLOCK FALSE
