-------------------------- MODULE MCStageBBackfill --------------------------
(* One reservation, one cleaning in one of two windows, two assignment     *)
(* pages of which the second has the smaller row identity.                 *)
EXTENDS StageBBackfill

Reversed == [a \in 1..2 |-> 3 - a]
From(window, first, second) ==
  [reservation |-> "CONFIRMED", window |-> window, stage |-> <<first, second>>]
Replaced == From("am", "released", "booked")
Resting == {Replaced}
=============================================================================
