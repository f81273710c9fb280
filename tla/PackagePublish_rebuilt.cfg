SPECIFICATION Spec
CONSTANTS
  None = None
  Package = {k1, k2}
  Worker = {w1, w2}
  Http = {h1}
  Device = {d1}
  MaxTries = 3
  MaxStalls = 1
  MaxEdits = 2
  Incomplete = {}
  MaxFaults = 1
  Environment = {"crash-committed", "stall"}
INVARIANT KeysMatchDownload
