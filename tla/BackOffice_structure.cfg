SPECIFICATION Spec
CHECK_DEADLOCK FALSE
CONSTANTS
  None = None
  b1 = b1 b2 = b2 s1 = s1 q1 = q1 q2 = q2 e1 = e1 c1 = c1 c2 = c2 p1 = p1 p2 = p2
  d1 = d1 o1 = o1 o2 = o2 m1 = m1 f1 = f1 f2 = f2 u1 = u1 u2 = u2
  a1 = a1 a2 = a2 a3 = a3 l1 = l1 l2 = l2
  Bank = {b1, b2}
  Stimulus = {s1}
  Question = {q1, q2}
  Exam = {e1}
  Faulty = {"bad"}
  NewQuestion <- MCNewQuestion
  Patch <- MCPatch
  Structure <- MCStructure
  Author = {c1, c2}
  MaxVersion = 3
  MaxBegun = 3
  MaxPuts = 3
  Site = {o1}
  Participant = {p1, p2}
  Schedule = {d1}
  ImportRow <- MCImportRow
  Times = {1, 2, 3}
  Admin = {c1, c2}
  MaxPasswords = 3
  Media = {m1}
  Outpost = {o1, o2}
  File = {f1, f2}
  TooLarge = {f2}
  Upload = {u1, u2}
  MaxLost = 1
  MediaOf <- MCMediaOf
  User = {a1, a2, a3}
  Post = {o1}
  First = a1
  Deed = {l1, l2}
  Clerk = {c1, c2}
  MaxSecrets = 2
  MaxLists = 3
  MaxTrouble = 2
INVARIANT
  StructureIsOnePut
