SPECIFICATION Spec
CONSTANTS
  Fd = {f1, f2, f3, f4}
  MaxSlots = 4
  Empty = Empty
SYMMETRY FdSymmetry
INVARIANTS
  TypeOK
  EachDescriptorOnce
  SearchIsComplete
PROPERTY
  NoneReplaced
