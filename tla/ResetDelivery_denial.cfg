CONSTANTS
  e1 = e1
  e2 = e2
  w1 = w1
  d1 = d1
  p1 = p1
  NoJob = NoJob
  Event = {e1}
  Window = {w1}
  WindowOf <- OneWindow
  Desktop = {d1}
  Plugin = {p1}
  PreferDesktop = TRUE
  LeaseTime = 2
  AdvertTime = 1
  FreshTime = 2
  Horizon = 2
  MaxClaims = 3
  MaxRetries = 1
  Reconfigured = {}
SPECIFICATION Spec
PROPERTIES NoAttemptAfterDenial
