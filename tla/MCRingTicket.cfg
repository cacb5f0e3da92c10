SPECIFICATION Spec
CONSTANTS
  Op = {o1, o2}
  CqEntries = 2
  Scripts <- WorkerChains
  ThreadStarts = {TRUE}
  MaxEmits = 1
  MaxSpurious = 1
  None = None
INVARIANT
  SettledOpIsPosted
