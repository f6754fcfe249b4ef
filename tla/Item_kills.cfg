SPECIFICATION Spec
CONSTANTS
  Handles = {h1, h2}
  draft1 = draft1
  draft2 = draft2
  draft3 = draft3
  Drafts = {draft1, draft3}
  Works = {w1}
  Lanes = {}
  Owners = {o1}
  Verdicts = {"accept", "repair_once", "confirm_data_insufficiency"}
  MaxRepairs = 1
  MaxDiscards = 0
  MaxKills = 1
  None = None
  Envelope <- MCEnvelope
INVARIANTS RepairKeepsEnvelope
PROPERTIES DecidesOnce
SYMMETRY Sym
CHECK_DEADLOCK FALSE
