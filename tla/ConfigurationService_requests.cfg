SPECIFICATION Spec
CONSTANTS
  Requests = {r1, r2, r3}
  Users = {u1, u2}
  NoUser = NoUser
  Keys = {k1, k2}
  Unset = Unset
  NoCall = NoCall
SYMMETRY Symmetry
INVARIANTS TypeOK OneDocumentPerUser UpdateCreatesNothing NoForeignValue
PROPERTIES OnlyGivenFieldsChange SuccessMeansStored IsRegister
\* every request may have been answered
CHECK_DEADLOCK FALSE
