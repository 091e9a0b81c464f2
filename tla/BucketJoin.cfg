SPECIFICATION Spec
CONSTANTS
  Times = {0, 1, 2, 4}
  MaxLeft = 4
  MaxRight = 3
  Chunk = 2
  Widths = {1, 2}
  Tolerances = {0, 1}
  Variants <- AllVariants
INVARIANTS
  UncheckedInRange
  MatchesReference
  WrittenExactlyOnce
