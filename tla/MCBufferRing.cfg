SPECIFICATION Spec
CONSTANTS
  Bid = {b1, b2, b3, b4}
  Entries = 4
  Wrap = 8
  CqRoom = 2
  SkipSuccess = TRUE
  None = None
SYMMETRY BidSymmetry
INVARIANTS
  TypeOK
  EachBufferAccounted
  UngetRestores
