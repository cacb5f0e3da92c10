SPECIFICATION FairSpec
CONSTANTS
  Arms = {"vnode", "changes"}
  Names <- MCNames
  NameLen <- MCNameLen
  Path = {"dir", "a"}
  Ino = {i1, i2}
  Masks <- MCMasks
  MaxWd = 2
  QueueMax = 5
  Buffers = {3}
  ReadMax = 2
  MaxChanges = 3
  CookieWrap = 2
  None = None
INVARIANTS
  TypeOK
  ReplayGivesListing
  AtRestUpToDate
  IgnoredOnceLast
  IgnoredTold
  CookiesPair
  LossIsTold
PROPERTIES
  GoneIsTold
