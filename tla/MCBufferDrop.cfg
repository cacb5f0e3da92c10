SPECIFICATION Spec
CONSTANTS
  Bid = {b1, b2, b3, b4}
  Entries = 4
  Wrap = 8
  CqRoom = 1
  SkipSuccess = FALSE
  None = None
SYMMETRY BidSymmetry
INVARIANTS
  EachBufferOnce
