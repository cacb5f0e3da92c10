SPECIFICATION FairSpec
CONSTANTS
  Ring <- MCRing
  Op = {o1, o2}
  Fd = {1}
  Nothing = Nothing
INVARIANTS
  TypeOK
  ChainsAreParked
  KernelWatches
  OneKnock
  NewsKnocks
  FreedWhenQuiet
PROPERTIES
  PollSetSpec
  ReadyIsAnswered
  QuietsDown
