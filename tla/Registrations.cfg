SPECIFICATION RSpec
CONSTANTS
  Users = {u1, u2}
  Names = {n1, n2}
  NoName = NoName
  Requests = {q1, q2}
  NoRequest = NoRequest
  BatchSize = 2
  MaxRetry = 1
  MaxEvents = 3
  MaxRollbacks = 0
  MaxStops = 0
  PublishFails = FALSE
INVARIANTS
  RTypeOK
  OneUserPerRequest
PROPERTIES
  RejectionStands
  ImplementsUserSync
CHECK_DEADLOCK FALSE
