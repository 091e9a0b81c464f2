SPECIFICATION Spec
CONSTANTS
  Clients = {c1, c2}
  Scripts = {s1, s2}
  Pids = {q1, q2}
  Stmts <- MCStmts
  MaxBusy = 2
  None = None
INVARIANTS
  HonestAnswer
  NoOrphan
PROPERTIES
  StopStops
  OthersAreSafe
  ScriptsEnd
