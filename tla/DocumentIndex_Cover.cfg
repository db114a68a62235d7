SPECIFICATION Spec
CONSTANTS
  Docs = {d1}
  NoDoc = NoDoc
  MaxDeliver = 1
  MaxVersion = 2
  MaxWrites = 2
  MaxEvents = 2
  MaxFaults = 0
PROPERTIES
  CoverKeepsVersion
CHECK_DEADLOCK FALSE
