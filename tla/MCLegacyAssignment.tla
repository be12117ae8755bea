------------------------- MODULE MCLegacyAssignment -------------------------
EXTENDS LegacyAssignment, TLC

CONSTANTS ann, ben

\* Ann is asked first.
TheRoster == <<ann, ben>>
=============================================================================
