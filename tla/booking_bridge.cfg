\* One reservation's four mails; two troubles of any kind.
SPECIFICATION Spec
CONSTANTS
    Nobody = Nobody
    Poller = Poller
    OpsBot = OpsBot
    Desk = Desk
    Writers = {Poller, OpsBot, Desk}
    Story <- FullStory
    ByHash <- LastFirst
    MaxLapses = 1
    MaxTroubles = 2
CHECK_DEADLOCK FALSE
INVARIANTS
    TypeOK
    OneOfEach
    RecordsAreTrue
    SaidOnce
    CancellationIsWhole
