SPECIFICATION Spec
CONSTANTS
  f1 = f1
  f2 = f2
  s1 = s1
  Null = Null
  Files <- MCFiles
  Snaps <- MCSnaps
  Names <- MCNames
  MaxWrites = 2
  MaxFaults = 1
INVARIANTS TypeOK ContentKept ReadsFind TextFresh SnapshotComplete NothingOverlooked
SYMMETRY Keys
CHECK_DEADLOCK FALSE
