\* Every body of up to seven bytes, sent and expanded, in reads of up to two.
SPECIFICATION Spec
CONSTANTS
  MaxBytes = 3
  MaxDecompressedBytes = 2
  ReadSize = 2
  MaxSize = 7
INVARIANTS AcceptedWhenGood TooLargeMeansIt ExpansionBounded
CHECK_DEADLOCK FALSE
