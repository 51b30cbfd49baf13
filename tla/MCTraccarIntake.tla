--------------------------- MODULE MCTraccarIntake ---------------------------
EXTENDS TraccarIntake

CONSTANTS d1, d2, h1

\* Two positions of the one device, so that the older can be late.
MCNewest == [d \in Devices |-> IF d = d1 THEN 2 ELSE 0]

=============================================================================
