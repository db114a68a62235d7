SPECIFICATION FairGSpec
CONSTANTS
  Users = {u1}
  NoUser = NoUser
  Tokens = {t1}
  NoToken = NoToken
  Requests = {r1, r2, r3}
  NoRequest = NoRequest
  Lifetime = 2
  MaxTime = 2
INVARIANTS
  GTypeOK
  LoggedOutRefused
  ConnectionsAccounted
PROPERTIES
  DeadBridgesReturn
CHECK_DEADLOCK FALSE
