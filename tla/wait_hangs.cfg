SPECIFICATION FairSpec
CONSTANTS
  Pids = {p1}
  NoPid = NoPid
  MaxJobs = 1
  JidCap = 2
  MaxKeys = 0
  Builtins = {}
PROPERTY WaitfgReturns
CHECK_DEADLOCK FALSE
