\* Two nodes claim both jobs; no sessions.
SPECIFICATION Spec
CONSTANTS
  n1 = n1
  n2 = n2
  noNode = noNode
  r1 = r1
  r2 = r2
  u1 = u1
  Nodes = {n1, n2}
  NoNode = noNode
  Runs = {r1, r2}
  Sessions = {}
  Users = {u1}
  Loner = u1
  LonerSessions = {}
  Other = u1
  Owner <- MCOwner
  Hour = 2
  Day = 3
  MaxTime = 3
  MaxFaults = 1
  MaxFailures = 0
  MaxResets = 1
SYMMETRY NodesAndRuns
INVARIANTS TypeOK NoOverlap
PROPERTY DailyPace
