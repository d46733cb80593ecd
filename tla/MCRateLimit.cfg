\* One request every two seconds and bursts of two; two connections share a bucket.
SPECIFICATION Spec
CONSTANTS
  c1 = c1
  c2 = c2
  c3 = c3
  k1 = k1
  k2 = k2
  Conn = {c1, c2}
  Key = {k1}
  KeyOf <- SharedKey
  CfgLimit = 1
  Per = 2
  CfgBurst = 2
  Second = 2
  MaxTime = 9
INVARIANTS TypeOK WindowBudget HonestRetryAfter
SYMMETRY Interchangeable
CHECK_DEADLOCK FALSE
