SPECIFICATION Spec
CONSTANTS
  Users = {u1, u2}
  Names = {n1, n2}
  NoName = NoName
  BatchSize = 2
  MaxRetry = 2
  MaxEvents = 3
  MaxRollbacks = 0
  MaxStops = 0
  PublishFails = FALSE
CHECK_DEADLOCK FALSE
INVARIANT DeactivationReachesAuth
