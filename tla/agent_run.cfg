SPECIFICATION AgentSpec
CONSTANTS
  Subs = {s1}
  Null = Null
  Attempts = 2
  MaxTurns = 1
  MaxFaults = 1
  MaxRecoveries = 1
  Options <- MCOptions
  MaxRuns = 2
INVARIANTS TypeOK AuditOwed BackendOfSpawner FilesFollowResult AssertOnlyUntouched MemoryKept
PROPERTIES ImplementsRun
CHECK_DEADLOCK FALSE
