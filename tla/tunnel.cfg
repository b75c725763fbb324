SPECIFICATION RelaySpec
CONSTANTS
  Calls = {c1, c2}
  Sockets = {s1, s2}
  Null = Null
  MaxBroken = 1
INVARIANTS RelayTypeOK EntriesOfCalls TimelyAnswerTaken
PROPERTIES ImplementsRemoteCall
CHECK_DEADLOCK FALSE
