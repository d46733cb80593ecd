\* One binary whose tests write to a kept table that refers to an emptied one.
SPECIFICATION FixtureSpec
CONSTANTS
  auth = auth
  Auth = Auth
  web = web
  Web = Web
  Free = Free
  Binary <- OneBinary
  Prefix <- Prefixes
  Base <- Names
  Lower <- LowerCase
  LockId <- DerivedLock
  Conn <- Pools
  Table <- Tables
  LedgerTable = "goose_db_version"
  References <- ForeignKeys
  Version <- Versions
  Creates <- Migrations
  Knows <- Builds
  Keep <- Kept
  Fixture <- Fixtures
  Written <- SettingsToo
  Public <- PublicSchema
  MaxStarts = 1
  MaxTests = 2
  MaxFaults = 0
PROPERTIES KeepIsKept
CHECK_DEADLOCK FALSE
