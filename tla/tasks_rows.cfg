SPECIFICATION Spec
CONSTANTS
  Tasks = {t1}
  Nodes = {n1, n2}
  Execs = {e1, e2, e3}
  NoExec = NoExec
  NoTask = NoTask
  NoNode = NoNode
  MaxSlots = 1
  MaxRetries = 1
  MaxFaults = 1
  Tunnelled = {t1}
  Deletable = {t1}
  Timely = FALSE
SYMMETRY NodesAndExecs
INVARIANTS TypeOK RowConsistent OwnerSeesRunning
PROPERTIES EndedByOwner ImplementsLifecycle
