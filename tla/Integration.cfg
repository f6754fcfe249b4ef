SPECIFICATION FairSpec
CONSTANTS
  Sessions = {s1}
  ent = ent
  rel = rel
  ast = ast
  RecordIds = {ent, rel, ast}
  Bodies = {1, 2}
  Assets = {ast, rel}
  Requires <- MCRequires
  Verdicts = {"accept", "repair_once", "fail"}
  Rivals <- MCRivals
  MaxKills = 1
  None = None
INVARIANTS RepairStaysInScope RemovalRecovers
PROPERTIES CommitIsReviewed PlanThenPublish IntentConverges
CHECK_DEADLOCK FALSE
