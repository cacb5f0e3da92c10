SPECIFICATION Spec
CONSTANTS
  Op = {o1, o2, o3}
  CqEntries = 3
  Scripts <- QueuedCancels
  ThreadStarts = {TRUE}
  MaxEmits = 1
  MaxSpurious = 1
  None = None
PROPERTY
  KeepsPromise
