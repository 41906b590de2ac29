SPECIFICATION Spec
CONSTANTS
  Pids = {p1, p2}
  NoPid = NoPid
  MaxJobs = 2
  JidCap = 3
  MaxKeys = 0
  Builtins = {"FG"}
INVARIANT AtMostOneFg
CHECK_DEADLOCK FALSE
