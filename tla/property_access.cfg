\* One cleaner and one property: two operators' chats, two lost requests, a crash and a lapse.
SPECIFICATION Spec
CONSTANTS
    c1 = c1
    c2 = c2
    Nobody = Nobody
    Cleaner = W03
    Ops = W02
    Writers = {W02, W03}
    Chats = {c1, c2}
    MaxLapses = 1
    MaxLost = 2
    MaxCrashes = 1
SYMMETRY Alike
INVARIANTS
    TypeOK
    ToldAtMostOnce
    ApprovalNoticeIsTrue
