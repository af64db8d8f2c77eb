CONSTANTS
  written = written
  received = received
  fetched = fetched
  Files <- MCFiles
  Via <- MCVia
  Contents <- MCContents
  LongNames = {received}
  Piece = 4
  Many = 2
  MaxCount = 1
  MaxCrash = 1
  MaxFail = 1
  MaxText = 5
  MaxStr = 20
  TagSize = 50
SPECIFICATION LoadSpec
INVARIANTS LoadExact HelpersExact
PROPERTY AllLoaded
CHECK_DEADLOCK FALSE
