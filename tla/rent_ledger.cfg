SPECIFICATION Spec
CONSTANTS
    c1 = c1
    c2 = c2
    p1 = p1
    Contracts = {c1, c2}
    Properties = {p1}
    PropertyOf <- OneProperty
    BigintMax = 2
    Start <- PartlyPaid
    MaxReceipts = 2
    MaxAdjustments = 2
    MaxAllocations = 3
    MaxRefunds = 1
    MaxReturns = 3
    MaxRevisions = 2
    MaxReversed = 1
    MaxItems = 1
    MaxCommands = 3
INVARIANTS
    TypeOK
    MoneyIsConserved
    AttributionHonoured
    ServiceRefusesFirst
CHECK_DEADLOCK FALSE
