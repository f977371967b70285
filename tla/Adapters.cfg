SPECIFICATION Spec
CONSTANTS
  Formats <- AllFormats
  MaxEntries = 2
  MaxRuns = 3
  MaxCrashes = 1
  MaxSaves = 1
  MaxMoves = 1
INVARIANTS TypeOK OthersKept Recoverable Settled
CHECK_DEADLOCK FALSE
