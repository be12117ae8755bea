\* One reservation and its cleaning through two changes, with two troubles of any kind.
SPECIFICATION Spec
CONSTANTS
    Nobody = Nobody
    Worker = Worker
    Operator = Operator
    Writers = {Worker, Operator}
    MaxChanges = 2
    MaxLapses = 1
    MaxTroubles = 2
CHECK_DEADLOCK FALSE
INVARIANTS
    TypeOK
    ReceiptIsTrue
    Settled
    OneLivePage
PROPERTIES
    BindingOutlivesStaleWriters
