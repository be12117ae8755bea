-------------------------- MODULE MCPropertyAccess --------------------------
EXTENDS PropertyAccess, TLC

CONSTANTS c1, c2

\* The operators' chats are interchangeable.
Alike == Permutations({c1, c2})
=============================================================================
