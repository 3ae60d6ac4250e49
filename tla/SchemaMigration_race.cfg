CONSTANTS
  a = a
  b = b
  c = c
  Opener = {a, b}
  Writer = Writer
  Free = Free
SPECIFICATION FairSpec
INVARIANTS UpgradedOnce UpgradesAreBackedUp
PROPERTIES OpeningEnds
CHECK_DEADLOCK FALSE
