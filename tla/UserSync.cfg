SPECIFICATION FairSpec
CONSTANTS
  Users = {u1, u2}
  Names = {n1, n2}
  NoName = NoName
  BatchSize = 2
  MaxRetry = 1
  MaxEvents = 3
  MaxRollbacks = 1
  MaxStops = 1
  PublishFails = TRUE
INVARIANTS
  TypeOK
  RetiredWasPublished
  SettledAgree
PROPERTIES
  ImplementsCopies
  OldestMoves
  EventsRetire
CHECK_DEADLOCK FALSE
