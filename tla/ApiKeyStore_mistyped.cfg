CONSTANTS
  openai = openai
  kimi = kimi
  v1 = v1
  v2 = v2
  pass1 = pass1
  pass2 = pass2
  c1 = c1
  c2 = c2
  None = None
  Provider = {openai, kimi}
  Value = {v1}
  Pass = {pass1, pass2}
  Caller = {c1}
  Ops = {"unlock", "save", "change"}
  MaxSalts = 2
SPECIFICATION Spec
SYMMETRY Alike
INVARIANTS Acknowledged
