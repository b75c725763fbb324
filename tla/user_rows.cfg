SPECIFICATION RowsSpec
CONSTANTS
  Requests = {r1, r2}
  Loaders = {l1}
  Updates = {u1}
  Sites = {a, b}
  Null = Null
  MaxTokens = 3
  MaxLosses = 1
  Generators = {g1}
  Keepers = {k1, k2}
  Patches = {p1}
  Profiles = {"", "context"}
  Facts = {f1, f2}
  None = None
  Handlers = {h1, h2}
  Secrets = {w1, w2}
  Absent = Absent
  MaxResets = 2
  MaxDeaths = 1
INVARIANTS RowsTypeOK RefreshTokenKept QueuedRequestsServed BackgroundCurrent MemoriesKept AccountKept MailUses
CHECK_DEADLOCK FALSE
