SPECIFICATION Spec
CONSTANTS
  Formats <- OnlyToml
  MaxEntries = 2
  MaxRuns = 3
  MaxCrashes = 0
  MaxSaves = 0
  MaxMoves = 0
INVARIANTS OthersSurvive
CHECK_DEADLOCK FALSE
