SPECIFICATION FairSpec
CONSTANTS
  None = None
  NReq = 2
  NDom = 1
  Capacity = 1
  MaxAttempts = 2
  MaxRepairs = 1
  MaxMishaps = 1
  Plans <- MCPlans
PROPERTIES BlockedIsReported
CHECK_DEADLOCK FALSE
