SPECIFICATION Spec
CONSTANTS
    home = home
    annex = annex
    ana = ana
    bo = bo
    day1 = day1
    day2 = day2
    NoCheckOut = NoCheckOut
    Reservations = {home}
    Cleaners = {ana}
    CheckOuts = {day1, day2}
    Mail <- MovingMail
    Buttons = {1, 2}
    MaxAssignments = 1
INVARIANTS
    ScheduleFollowsReservation
PROPERTIES
    ScheduleChangeIsReconciled
CHECK_DEADLOCK FALSE
