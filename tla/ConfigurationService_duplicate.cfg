SPECIFICATION Spec
CONSTANTS
  Requests = {r1, r2}
  Users = {u1}
  NoUser = NoUser
  Keys = {k1}
  Unset = Unset
  NoCall = NoCall
SYMMETRY Symmetry
INVARIANT UserIdUnique
\* every request may have been answered
CHECK_DEADLOCK FALSE
