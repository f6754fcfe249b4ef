SPECIFICATION FairSpec
CONSTANTS
  Handles = {h1, h2}
  draft1 = draft1
  draft2 = draft2
  draft3 = draft3
  Drafts = {draft1}
  Works = {w1}
  Verdicts = {"accept_with_limits"}
  Lanes = {l1}
  Owners = {}
  MaxRepairs = 0
  MaxDiscards = 1
  MaxKills = 1
  None = None
  Envelope <- MCEnvelope
PROPERTIES PublicationFreezesState PublishedSettles
CHECK_DEADLOCK FALSE
