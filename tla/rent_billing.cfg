\* One month of one contract: two workers and an operator, retries and lost answers.
SPECIFICATION Spec
CONSTANTS
    wa = wa
    wb = wb
    k1 = k1
    k2 = k2
    Nobody = Nobody
    Workers = {wa, wb}
    Operators = {clerk}
    Periods = {june}
    Keys = {k1, k2}
    MaxAttempts = 2
    MaxVersion = 2
    MaxRevision = 1
SYMMETRY Alike
INVARIANTS
    TypeOK
    BilledOnce
    VoidsStand
    AnswersAreTrue
