SPECIFICATION Spec
CONSTANTS
  a = a
  b = b
  asked = asked
  changed = changed
  p = p
  q = q
  None = None
  Items = {a, b}
  Initial = {a}
  Leftovers = {b}
  Texts = {asked, changed}
  FirstText = asked
  Callers = {p, q}
  Outcomes = {"accepted"}
  Results = {"integrated"}
  MaxChanged = 1
  MaxGens = 1
  MaxKills = 1
INVARIANT IntegrationIsEarned
CHECK_DEADLOCK FALSE
