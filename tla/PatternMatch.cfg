SPECIFICATION SearchSpec
CONSTANTS
  NodeCount = 3
  Unbound = 9
  Graphs <- MCGraphs
  At = 2
  Patterns <- MCPatterns
  Starts = {0, 3, 9}
  Limits = {0, 1, 4}
INVARIANTS
  FoundExact
  FailsIffOutside
  StateFollowsRecursion
