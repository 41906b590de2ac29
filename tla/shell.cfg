SPECIFICATION Spec
CONSTANTS
  Pids = {p1, p2, p3}
  NoPid = NoPid
  MaxJobs = 2
  JidCap = 3
  MaxKeys = 0
  Builtins = {"BG"}
SYMMETRY MCSymmetry
INVARIANTS TypeOK AtMostOneFg PromptMeansNoFg NoStaleEntry PidsUnique ChildrenTracked CrashOnlyIfDropped
PROPERTY RefinesJobControl
CHECK_DEADLOCK FALSE
