SPECIFICATION FairSpec
CONSTANTS
  Op = {o1, o2}
  CqEntries = 2
  Scripts <- LivenessScripts
  ThreadStarts = {TRUE}
  MaxEmits = 1
  MaxSpurious = 1
  None = None
PROPERTY
  EveryRequestAnswered
