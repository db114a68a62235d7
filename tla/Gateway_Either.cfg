SPECIFICATION FairGSpec
CONSTANTS
  Users = {u1}
  NoUser = NoUser
  Tokens = {t1}
  NoToken = NoToken
  Requests = {r1}
  NoRequest = NoRequest
  Lifetime = 1
  MaxTime = 1
PROPERTIES
  EitherDirectionEnds
CHECK_DEADLOCK FALSE
