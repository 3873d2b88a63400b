SPECIFICATION FactorySpec
CONSTANTS
  Streams = {s1, s2}
  Users = {u1, u2}
  NoUser = NoUser
  Nobody = Nobody
  MaxWorkers = 2
  CleanupInterval = 1
  MaxLockWait = 0
  MaxInitialize = 1
  AgentHasCleanup = FALSE
  ClientRule = "exclusive"
SYMMETRY StreamUserSymmetry
INVARIANT AgentIsTheUsers
