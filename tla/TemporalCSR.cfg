SPECIFICATION Spec
CONSTANTS
  NodeCount = 2
  Rows <- MCRows
  MaxRows = 3
  NodeLists <- MCNodeLists
  MaxHops = 2
  Times = {0, 1, 2}
INVARIANTS
  IndexExact
  LookupsExact
  FailsIffOutOfRange
