SPECIFICATION AdminSpec
CONSTANTS
  Tasks = {t1}
  Nodes = {n1}
  Execs = {e1, e2}
  NoExec = NoExec
  NoTask = NoTask
  NoNode = NoNode
  MaxSlots = 1
  MaxRetries = 1
  MaxFaults = 0
  Tunnelled = {}
  Deletable = {}
  Timely = TRUE
SYMMETRY ExecSymmetry
PROPERTIES CancelledStaysTerminal
