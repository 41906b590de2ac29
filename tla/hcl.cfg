SPECIFICATION Spec
CONSTANTS
  Scenes <- AllScenes
  SYM_LIM = 2
  Endings <- SomeEndings
INVARIANTS Verdict GeneratedMeansHcl
\* the translator ends
CHECK_DEADLOCK FALSE
