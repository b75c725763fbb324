SPECIFICATION FairSpec
CONSTANTS
  Tasks = {t1, t2}
  Nodes = {n1}
  Execs = {e1, e2, e3}
  NoExec = NoExec
  NoTask = NoTask
  NoNode = NoNode
  MaxSlots = 1
  MaxRetries = 0
  MaxFaults = 0
  Tunnelled = {t2}
  Deletable = {}
  Timely = TRUE
PROPERTIES PendingPickedUp
