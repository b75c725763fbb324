\* One node whose job threads may overlap, two sessions of two users.
SPECIFICATION Spec
CONSTANTS
  n1 = n1
  noNode = noNode
  r1 = r1
  r2 = r2
  s1 = s1
  s2 = s2
  u1 = u1
  u2 = u2
  Nodes = {n1}
  NoNode = noNode
  Runs = {r1, r2}
  Sessions = {s1, s2}
  Users = {u1, u2}
  Loner = u1
  LonerSessions = {s1}
  Other = u2
  Owner <- MCOwner
  Hour = 2
  Day = 3
  MaxTime = 3
  MaxFaults = 1
  MaxFailures = 1
  MaxResets = 0
SYMMETRY NodesAndRuns
INVARIANTS NoSessionSkippedUndisturbed
