------------------------- MODULE MCThreadSchedule --------------------------
EXTENDS ThreadSchedule
CONSTANTS p1, p2
=============================================================================
