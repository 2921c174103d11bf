-------------------------- MODULE MCThreadControl --------------------------
EXTENDS ThreadControl
CONSTANTS p1

MCOptions == {[deadline |-> 1, stop |-> TRUE], [deadline |-> MaxNow + 1, stop |-> FALSE]}
=============================================================================
