SPECIFICATION LiveSpec
CONSTANTS
  r1 = r1  r2 = r2  p1 = p1  p2 = p2
  analyzeA = analyzeA  analyzeB = analyzeB  reviewA = reviewA
  reqA = reqA  reqB = reqB
  Runner = {r1, r2}
  Pid = {p1, p2}
  PidOf <- OwnPid
  Slot = {analyzeA, analyzeB}
  AnalyticalOwner <- MCOwner
  Requirement = {reqA, reqB}
  Workflow <- MCWorkflow
  Imported <- TwoInOneScope
  MaxRetries = 2
  NoRequirement = NoRequirement  NoSlot = NoSlot  NoRunner = NoRunner
PROPERTIES SurvivorLosesNothing RunReturns
CHECK_DEADLOCK FALSE
