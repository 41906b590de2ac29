SPECIFICATION FairSpec
CONSTANTS
  Pids = {p1, p2}
  NoPid = NoPid
  MaxJobs = 3
  JidCap = 3
  MaxKeys = 1
  Builtins = {}
INVARIANTS StatesTrue SlotsWhole NextJidFresh
PROPERTIES ZombiesReaped WakesOnSignal KeysSpareBackground
CHECK_DEADLOCK FALSE
