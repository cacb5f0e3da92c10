SPECIFICATION FairSpec
CONSTANTS
  Op = {o1, o2}
  CqEntries = 2
  Wrap = 4
  MaxIssued = 7
  None = None
INVARIANTS
  TypeOK
  CqBounded
  OneHome
  CallerReadsWhatWasPosted
  EachCompletionOnce
  BacklogInOrder
PROPERTY
  EveryCompletionReaped
