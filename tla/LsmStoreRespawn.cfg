SPECIFICATION FairSpec
CONSTANTS
  Clients = {c1}
  Background = bg
  NoThread = nobody
  Edges = {e1}
  BadEdges = {}
  InitEdges = {e1}
  NoEdge = noEdge
  NodeCount <- MCNodeCount
  SrcOf <- MCSrcOf
PROPERTY SpawnCompacts
