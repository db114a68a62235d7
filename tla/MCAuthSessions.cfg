SPECIFICATION LSpec
CONSTANTS
  Users = {u1}
  Tokens = {t1, t2, t3}
  NoUser = NoUser
  NoToken = NoToken
  MaxBusy = 2
  Faults = TRUE
SYMMETRY Symmetry
INVARIANTS
  LTypeOK
  OneLivePerFamily
  CompromisedDead
PROPERTIES
  DeadStaysDead
  ImplementsChains
  LogoutAllReaches
