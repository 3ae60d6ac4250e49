--------------------------- MODULE MCResetDelivery ---------------------------
EXTENDS ResetDelivery, TLC
CONSTANTS e1, e2, w1, d1, p1

OneWindow == [e \in Event |-> w1]

\* Events differ by name only.
Alike == Permutations({e1, e2})
==============================================================================
