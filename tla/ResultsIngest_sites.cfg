SPECIFICATION Spec
CONSTANTS
  None = None
  s1 = s1  s2 = s2  b1 = b1  b2 = b2  a1 = a1  a2 = a2
  p1 = p1  p2 = p2  r1 = r1  r2 = r2
  Site = {s1, s2}
  Batch = {b1, b2}
  Attempt = {a1, a2}
  Seat = {p1, p2}
  Response = {r1, r2}
  Worker = {w1, w2}
  Http = {h1, h2}
  SiteOf <- SeatOwners
  Payload <- TwoSites
  MaxTries = 2
  MaxStalls = 1
  MaxReprocess = 0
  MaxFaults = 1
  Environment = {"crash-http"}
INVARIANTS
  StoredIsOneUpload
  RecordedHasPayload
