SPECIFICATION FairSpec
CONSTANTS
  None = None
  Package = {k1, k2}
  Worker = {w1, w2}
  Http = {h1, h2}
  Device = {d1}
  MaxTries = 3
  MaxStalls = 1
  MaxEdits = 2
  Incomplete = {1}
  MaxFaults = 1
  Environment = {"crash-http", "crash-building", "crash-committed", "throw", "close"}
INVARIANTS
  TypeOK
  KeysMatchUnlessRebuilt
PROPERTIES
  AvailabilityKept
  BuildSettles
  ReadyIsFrozen
