\* Expected to fail: a request whose handler panics has no request record.
SPECIFICATION MCSpec
CONSTANTS
  MaxOps = 1
  Statuses = {200}
  Configured = {{}, {"https://app"}, {"*"}}
  APIPrefix <- Api
  Path <- Paths
  Arriving <- Arrivals
  Checks <- TwoChecks
  Deadline = 2
  MaxClock = 3
  Build <- Builds
  Files <- BuildFiles
  Extended <- WithExtension
  Dotted <- WithDot
  Immutable <- Hashed
INVARIANTS OneRequestRecord
CHECK_DEADLOCK FALSE
