SPECIFICATION FairSpec
CONSTANTS
  Half = 8
  BitAnd <- AndBits
  BitXor <- XorBits
  Registers = {"rax"}
  Text <- TextAddresses
  Data <- DataAddresses
  Instrs <- Menu
  Image <- Free3
  Quads = {3, 7}
  RNONE = RNONE
  NotYet = NotYet
INVARIANTS NoConflict RedirectsAlone
PROPERTIES RefinesIsa Retires CodesExact
\* the processor stops
CHECK_DEADLOCK FALSE
