SPECIFICATION FairSpec
CONSTANTS
  Clients = {c1, c2}
  Background = bg
  NoThread = nobody
  Edges = {e1, bad}
  BadEdges = {bad}
  InitEdges = {e1}
  NoEdge = noEdge
  NodeCount <- MCNodeCount
  SrcOf <- MCSrcOf
INVARIANTS
  TypeOK
  LockDiscipline
  FreshMerge
  HonestOutcome
  StoppedIsQuiet
PROPERTIES
  ImplementsEdgeSet
  BackgroundFolds
  StopReturns
