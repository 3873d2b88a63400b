SPECIFICATION FairSpec
CONSTANTS
  e1 = e1
  p1 = p1
  p2 = p2
  Clients = {c1, c2}
  Credentials <- MCCredentials
  Nothing = Nothing
  TokenLife = 1
  MaxAccounts = 2
INVARIANTS TypeOK OneUserPerEmail TokensEarned
PROPERTIES OnlyOwnerActs EveryRequestAnswered DeletedLockedOut
