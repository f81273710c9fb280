SPECIFICATION Spec
CONSTANTS
  None = None
  q1 = q1  q2 = q2  r1 = r1  r2 = r2
  Attempt = {a1}
  Question = {q1, q2}
  ManualQuestion = {q2}
  Response = {r1, r2}
  Mark = {m1}
  Upload <- Uploads
  Worker = {w1, w2}
  Caller = {c1, c2}
  MaxTries = 2
  MaxStalls = 1
  MaxUploads = 2
  MaxRegrades = 1
  MaxEdits = 1
  MaxFaults = 0
  Environment = {}
INVARIANT NoDeadlock
