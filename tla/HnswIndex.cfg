SPECIFICATION FairSpec
CONSTANTS
  Indexes <- MCIndexes
INVARIANTS
  IndexInRange
  DegreeBound
  MaskedSearchFills
  WideBeamIsExact
PROPERTY
  CallsReturn
