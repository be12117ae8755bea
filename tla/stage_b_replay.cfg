CONSTANTS
  Assignments = 2
  Windows = {"am", "pm"}
  IdRank <- Reversed
  Starts <- Resting
  MaxUpsets = 0
  MaxSnapshots = 1
  MaxScans = 2
SPECIFICATION LoadSpec
PROPERTY ReplayIsHarmless
CHECK_DEADLOCK FALSE
