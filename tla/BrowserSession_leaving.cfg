SPECIFICATION FairSpec
CONSTANTS
  Call = Call
  User = User
  NoUser = NoUser
  Nobody = Nobody
  CleanupInterval = 1
  MaxLockWait = 0
  AgentHasCleanup = FALSE
  MaxMessages = 2
INVARIANT TypeOK
PROPERTIES IsBridge LeavingFreesEverything
