CONSTANTS
  h1 = h1
  h2 = h2
  Hook = {h1, h2, h3}
  Retry = {t1, t2}
  Environments <- MCEnvironments
SPECIFICATION FairSpec
INVARIANTS Kept ConsumedByOne
PROPERTIES RetriesEnd
