------------------------ MODULE MCCleanerScheduling ------------------------
EXTENDS CleanerScheduling, TLC

CONSTANTS home, annex, ana, bo, day1, day2

\* One reservation that is confirmed, moved and cancelled, in any order of arrival.
MovingMail ==
    {[reservation |-> home, status |-> "CONFIRMED", checkOut |-> day1, sent |-> 1],
     [reservation |-> home, status |-> "CONFIRMED", checkOut |-> day2, sent |-> 2],
     [reservation |-> home, status |-> "CONFIRMED", checkOut |-> day1, sent |-> 3],
     [reservation |-> home, status |-> "CANCELLED", checkOut |-> day1, sent |-> 4]}

\* Two reservations; the second one moves to the first one's check-out and is cancelled.
ClashingMail ==
    {[reservation |-> home, status |-> "CONFIRMED", checkOut |-> day1, sent |-> 1],
     [reservation |-> annex, status |-> "CONFIRMED", checkOut |-> day2, sent |-> 2],
     [reservation |-> annex, status |-> "CONFIRMED", checkOut |-> day1, sent |-> 3],
     [reservation |-> annex, status |-> "CANCELLED", checkOut |-> day1, sent |-> 4]}

\* The cleaners are interchangeable.
Twins == Permutations({ana, bo})
=============================================================================
