SPECIFICATION FairGradeSpec
CONSTANTS
  Shapes <- AllShapes
  A <- Element
  B0 <- Junk
  ABase <- Linked
  ClockMax = 2147483647
  MaxAccesses = 20000
INVARIANTS TypeOK Transposed BlocksStayDone MissesAsReported
PROPERTIES Graded
\* the trace ends
CHECK_DEADLOCK FALSE
