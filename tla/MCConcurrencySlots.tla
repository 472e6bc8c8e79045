------------------------- MODULE MCConcurrencySlots -------------------------
EXTENDS ConcurrencySlots

\* Two calls of one process and one of another.
TwoReplicas == [c \in Calls |-> IF c = "c3" THEN "p2" ELSE "p1"]
=============================================================================
