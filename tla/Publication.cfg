SPECIFICATION PublicationSpec
CONSTANTS
  p = p
  q = q
  None = None
  Procs = {p, q}
  MaxPlan = 2
  MaxGens = 2
  MaxFaults = 1
  MaxSwitches = 1
  Verdicts = {"accept", "repair_once"}
  Tokens = {1, 2, 3}
  MaxArt = 2
  MaxMishaps = 2
INVARIANTS VisibleIsWhole AdoptedStays ReportIsVouched
PROPERTIES ProductIsKept SwapSettles ReportSettles
CHECK_DEADLOCK FALSE
