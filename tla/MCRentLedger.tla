---------------------------- MODULE MCRentLedger ----------------------------
(* Two contracts of one property, a charge each, and a receipt of 2 for    *)
(* the first contract, 1 of it allocated.                                  *)
EXTENDS RentLedger

CONSTANTS c1, c2, p1

OneProperty == [k \in {c1, c2} |-> p1]
PartlyPaid ==
    [charges |-> <<[contract |-> c1, original |-> 2, voided |-> FALSE],
                   [contract |-> c2, original |-> 1, voided |-> FALSE]>>,
     adjustments |-> <<>>,
     receipts |-> <<[revisions |-> <<[amount |-> 2, status |-> "RECORDED"]>>, replaces |-> 0,
                     attribution |-> [status |-> "CONTRACT_CONFIRMED", contract |-> c1]]>>,
     allocations |-> <<[source |-> 1, charge |-> 1, amount |-> 1, override |-> FALSE, reverses |-> 0]>>,
     refunds |-> <<>>,
     returns |-> <<>>]
=============================================================================
