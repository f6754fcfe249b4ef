SPECIFICATION StepsSpec
CONSTANTS
  r1 = r1  r2 = r2  p1 = p1  p2 = p2
  analyzeA = analyzeA  analyzeB = analyzeB  reviewA = reviewA
  reqA = reqA  reqB = reqB
  Runner = {r1, r2}
  Pid = {p1, p2}
  PidOf <- OwnPid
  Slot = {analyzeA, analyzeB, reviewA}
  AnalyticalOwner <- MCOwner
  Requirement = {reqA, reqB}
  Workflow <- MCWorkflow
  Imported <- OlderLists
  MaxRetries = 1
  NoRequirement = NoRequirement  NoSlot = NoSlot  NoRunner = NoRunner
INVARIANTS OneAnalyticalOwner CompleteIsQuiescent
PROPERTIES SomebodyInCharge LiveClaimsRespected KeepsLeases
CHECK_DEADLOCK FALSE
