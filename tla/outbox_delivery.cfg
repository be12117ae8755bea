\* A row that a worker of the pre-intent release left RUNNING, its request unsent, in
\* flight or applied, beside a fresh Telegram row; two workers, a crash, two recoveries.
SPECIFICATION Spec
CONSTANTS
    r1 = r1
    r2 = r2
    p1 = p1
    p2 = p2
    NoRow = NoRow
    NoProc = NoProc
    Rows <- TwoRows
    Procs <- TwoProcs
    Telegram <- SecondRow
    Unroutable <- NoRows
    Legacy <- OneRow
    MaxAttempts = 2
    MaxCrashes = 1
    MaxRecoveries = 2
INVARIANTS
    AtMostOneEffect
PROPERTIES
    KeepsThePromise
    RowMovesForward
