\* Two cleaners, three offers or decisions, one lost request, one crash, one lapse.
SPECIFICATION Spec
CONSTANTS
    ann = ann
    ben = ben
    Nobody = Nobody
    NoOne = NoOne
    CleanerBot = W03
    OpsBot = W02
    Writers = {W02, W03}
    Roster <- TheRoster
    MaxActions = 3
    MaxLapses = 1
    MaxLost = 1
    MaxCrashes = 1
INVARIANTS
    TypeOK
    SoleBooking
    OneOpenOffer
PROPERTIES
    HistoryIsFinal
