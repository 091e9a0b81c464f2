SPECIFICATION Spec
CONSTANTS
  I64Min <- MCI64Min
  I64Max = 1
  Times <- MCTimes
  MaxLen = 3
  MaxChunk = 4
INVARIANTS
  ZonesSound
  PrunedIsFull
