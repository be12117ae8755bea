CONSTANTS
  Assignments = 2
  Windows = {"am", "pm"}
  IdRank <- Reversed
  Starts <- Resting
  MaxUpsets = 2
  MaxSnapshots = 2
  MaxScans = 2
SPECIFICATION LoadSpec
INVARIANTS
    LoadTypeOK
    BoundRowsMatch
    ForeignChangeStands
    CleanMeansMigrated
CHECK_DEADLOCK FALSE
