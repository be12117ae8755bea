\* A projection row from its first claim, beside a row the worker cannot route.
SPECIFICATION FairSpec
CONSTANTS
    r1 = r1
    r2 = r2
    p1 = p1
    p2 = p2
    NoRow = NoRow
    NoProc = NoProc
    Rows <- TwoRows
    Procs <- TwoProcs
    Telegram <- NoRows
    Unroutable <- SecondRow
    Legacy <- NoRows
    MaxAttempts = 2
    MaxCrashes = 1
    MaxRecoveries = 1
INVARIANTS
    TypeOK
PROPERTIES
    EveryRowLeavesTheQueue
