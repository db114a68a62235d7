SPECIFICATION LSpec
CONSTANTS
  Users = {u1}
  Tokens = {t1, t2, t3}
  NoUser = NoUser
  NoToken = NoToken
  MaxBusy = 2
  Faults = FALSE
SYMMETRY Symmetry
CHECK_DEADLOCK FALSE
PROPERTY ReuseRevokesFamily
