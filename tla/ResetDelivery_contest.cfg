CONSTANTS
  e1 = e1
  e2 = e2
  w1 = w1
  d1 = d1
  p1 = p1
  NoJob = NoJob
  Event = {e1, e2}
  Window = {w1}
  WindowOf <- OneWindow
  Desktop = {d1}
  Plugin = {p1}
  PreferDesktop = TRUE
  LeaseTime = 1
  AdvertTime = 1
  FreshTime = 2
  Horizon = 1
  MaxClaims = 2
  MaxRetries = 0
  Reconfigured = {}
SPECIFICATION Spec
PROPERTIES KeepsPromise DesktopFirst
SYMMETRY Alike
