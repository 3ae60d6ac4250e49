CONSTANTS
  old = old
  new = new
  r1 = r1
  None = None
  Requested <- SomeIntervals
  InitInterval = 30
  Reloader = {r1}
  Settings = {old, new}
  InitSettings = old
SPECIFICATION Spec
INVARIANTS ObservationMatchesSettings
