\* Four binaries, two of one schema and one of none, in every interleaving.
SPECIFICATION FixtureSpec
CONSTANTS
  auth = auth
  Auth = Auth
  web = web
  Web = Web
  Free = Free
  Binary <- Binaries
  Prefix <- Prefixes
  Base <- Names
  Lower <- LowerCase
  LockId <- DerivedLock
  Conn <- Pools
  Table <- Tables
  LedgerTable = "goose_db_version"
  References <- ForeignKeys
  Version <- Versions
  Creates <- Migrations
  Knows <- Builds
  Keep <- Kept
  Fixture <- Fixtures
  Written <- ServiceTables
  Public <- PublicSchema
  MaxStarts = 2
  MaxTests = 2
  MaxFaults = 1
INVARIANTS TypeOK NeverReplays Isolated FixtureOnFirstKeys
PROPERTIES KeptStay
CHECK_DEADLOCK FALSE
