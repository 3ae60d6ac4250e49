CONSTANTS
  Unknown = Unknown
  Account = {a}
  Dated = {}
  Full = 1
  Lengths = {2}
  FreshFor = 1
  RecentFor = 3
  BaselineFor = 4
  MaxObservations = 3
  Horizon = 5
SPECIFICATION Spec
INVARIANTS EventsAreReal AnnouncedOnce NewestIsShown
CHECK_DEADLOCK FALSE
