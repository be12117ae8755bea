SPECIFICATION Spec
CONSTANTS
    home = home
    annex = annex
    ana = ana
    bo = bo
    day1 = day1
    day2 = day2
    NoCheckOut = NoCheckOut
    Reservations = {home, annex}
    Cleaners = {ana, bo}
    CheckOuts = {day1, day2}
    Mail <- ClashingMail
    Buttons = {1}
    MaxAssignments = 2
SYMMETRY Twins
INVARIANTS
    TypeOK
    OffersEndWithBookings
    StatusFollowsRows
    OfferTermsAreKept
CHECK_DEADLOCK FALSE
