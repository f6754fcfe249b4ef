SPECIFICATION FairSpec
CONSTANTS
  a = a
  b = b
  asked = asked
  changed = changed
  p = p
  q = q
  None = None
  Items = {a, b}
  Initial = {a}
  Leftovers = {b}
  Texts = {asked, changed}
  FirstText = asked
  Callers = {p}
  Outcomes = {"accepted"}
  Results = {"integrated"}
  MaxChanged = 1
  MaxGens = 3
  MaxKills = 1
INVARIANTS ActiveIsWhole CompletionIsEarned
PROPERTIES NeverRegresses NothingLost RunSettles
CHECK_DEADLOCK FALSE
