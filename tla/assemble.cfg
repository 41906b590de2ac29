SPECIFICATION Spec
CONSTANTS
  Scenes <- AllScenes
  MEM_SIZE = 8192
INVARIANTS Verdict PassesAgree LoadedMeansSource
\* the assembler and the loader end
CHECK_DEADLOCK FALSE
