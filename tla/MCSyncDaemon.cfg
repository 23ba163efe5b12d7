SPECIFICATION Spec
CONSTANTS
  d1 = d1
  d2 = d2
  m1 = m1
  Devices <- MCDevices
  Contents <- MCContents
  MaxRows = 2
  MaxDeltas <- MCMaxDeltas
  Author <- MCAuthor
  MaxFaults = 1
INVARIANTS
  SyncInv
CHECK_DEADLOCK FALSE
PROPERTIES
  Arrives
