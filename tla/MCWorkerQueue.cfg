SPECIFICATION Spec
CONSTANTS
  o1 = o1
  o2 = o2
  o3 = o3
  o4 = o4
  Pool <- MCPool
  File = {f1, f2}
  MaxRequests = 4
  Null = Null
INVARIANT
  AnsweredOnce
CHECK_DEADLOCK FALSE
