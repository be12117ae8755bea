-------------------------- MODULE MCCleanerOutbox --------------------------
(* Instances of CleanerOutbox for TLC. *)
EXTENDS CleanerOutboxInvariant

CONSTANTS r1, r2, p1, p2

NoRows == {}
OneRow == {r1}
TwoRows == {r1, r2}
SecondRow == {r2}
TwoProcs == {p1, p2}
=============================================================================
