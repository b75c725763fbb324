SPECIFICATION FairSpec
CONSTANTS
  Tasks = {t1, t2}
  Nodes = {n1}
  Execs = {e1, e2, e3}
  NoExec = NoExec
  NoTask = NoTask
  NoNode = NoNode
  MaxSlots = 2
  MaxRetries = 1
  MaxFaults = 1
  Tunnelled = {}
  Deletable = {}
  Timely = TRUE
INVARIANTS NeverRejected SlotConservation
PROPERTIES EventuallyDecided SlotsComeBack
