SPECIFICATION Spec
CONSTANTS
  Calls = {c1, c2, c3, c4}
  Users = {u1}
  NoCall = NoCall
  AccessLife = 2
  RefreshLife = 2
  PruneAbove = 1
  MaxTime = 3
  MaxRedisFaults = 1
SYMMETRY Symmetry
INVARIANTS LoggedOutStaysOut TypeOK SessionsListed KeyOutlivesRefresh
PROPERTY TokensAreFinal
