SPECIFICATION Spec
CONSTANTS
  Times <- MCTimes
  MaxLeft = 3
  MaxRight = 4
  Calls = {"sorted", "any_order", "table"}
INVARIANT
  EveryLeftMatched
