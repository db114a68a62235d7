SPECIFICATION FairSpec
CONSTANTS
  Docs = {d1}
  NoDoc = NoDoc
  MaxDeliver = 2
  MaxVersion = 2
  MaxWrites = 2
  MaxEvents = 3
  MaxFaults = 1
INVARIANTS
  TypeOK
  RowsBacked
  IndexedIsFound
  SettledIndexed
PROPERTIES
  IndexedInTheEnd
  CurrentKept
  OnlyCoverSetsBack
CHECK_DEADLOCK FALSE
