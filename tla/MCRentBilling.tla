--------------------------- MODULE MCRentBilling ---------------------------
EXTENDS RentBilling, TLC

CONSTANTS wa, wb, k1, k2

\* The two workers are interchangeable, and so are the keys an operator's client makes up.
Alike == Permutations({wa, wb}) \cup Permutations({k1, k2})
=============================================================================
