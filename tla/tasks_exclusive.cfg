SPECIFICATION Spec
CONSTANTS
  Tasks = {t1, t2}
  Nodes = {n1, n2}
  Execs = {e1, e2, e3, e4}
  NoExec = NoExec
  NoTask = NoTask
  NoNode = NoNode
  MaxSlots = 1
  MaxRetries = 1
  MaxFaults = 1
  Tunnelled = {}
  Deletable = {}
  Timely = TRUE
SYMMETRY NodesAndExecs
INVARIANTS ExclusiveExecution
