---------------------------- MODULE MCQuotaRefresh ----------------------------
EXTENDS QuotaRefresh
CONSTANTS old, new, r1

\* Off, nonsense (the default instead) and slower than allowed.
SomeIntervals == {0, -1, 10000}
==============================================================================
