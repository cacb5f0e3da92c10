SPECIFICATION Spec
CONSTANTS
  Op = {o1, o2}
  CqEntries = 2
  Scripts <- SafetyScripts
  ThreadStarts = {TRUE}
  MaxEmits = 1
  MaxSpurious = 1
  None = None
SYMMETRY OpSymmetry
INVARIANTS
  TypeOK
  OneHome
  StallHasOwner
  OneStallAtATime
  OneFinalCqe
  ChainOrder
PROPERTY
  KeepsPromise
CHECK_DEADLOCK FALSE
