SPECIFICATION Spec
CONSTANTS
  Streams = {s1, s2}
  Users = {u1, u2}
  NoUser = NoUser
  Nobody = Nobody
  MaxWorkers = 1
  CleanupInterval = 1
  MaxLockWait = 0
  MaxInitialize = 2
  AgentHasCleanup = FALSE
  ClientRule = "any"
SYMMETRY StreamUserSymmetry
INVARIANTS OwnConversation HistoryProvenance
\* all streams may be over
CHECK_DEADLOCK FALSE
