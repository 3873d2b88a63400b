SPECIFICATION Spec
CONSTANTS
  Streams = {s1, s2}
  Users = {u1, u2}
  NoUser = NoUser
  Nobody = Nobody
  MaxWorkers = 2
  CleanupInterval = 1
  MaxLockWait = 1
  MaxInitialize = 1
  AgentHasCleanup = TRUE
  ClientRule = "any"
SYMMETRY StreamUserSymmetry
INVARIANTS TypeOK RetentionBound OwnConversation HistoryProvenance OrderlyEndReleases CleanupKeepsEntry
PROPERTY SweepSparesActive
\* the loop thread may wait for ever for the lock its own coroutine holds
CHECK_DEADLOCK FALSE
