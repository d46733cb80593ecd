\* Every API request through the whole stack with a handler of up to three
\* operations, and the probes and the client through the same stack.
SPECIFICATION MCSpec
CONSTANTS
  MaxOps = 3
  Statuses = {103, 200, 500}
  Configured = {{}, {"https://app"}, {"*"}}
  APIPrefix <- Api
  Path <- Paths
  Arriving <- Arrivals
  Checks <- TwoChecks
  Deadline = 2
  MaxClock = 3
  Build <- Builds
  Files <- BuildFiles
  Extended <- WithExtension
  Dotted <- WithDot
  Immutable <- Hashed
INVARIANTS OneIdEverywhere Secured LoggedOnce StatusOfCleanHandler ReadableByAllowed NoFailureIsQuiet ReadyIsHonest ShellOnlyForPages
PROPERTIES PanicIsAnswered AbortIsSilent Answered
CHECK_DEADLOCK FALSE
