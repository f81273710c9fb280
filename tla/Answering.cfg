SPECIFICATION Spec
CONSTANTS
  Null = Null
  Grain = 10
  Whole = 4
  Res = 100
  MaxItems = 5
  Definition <- Questions
  ScoringSet <- Scorings
  Typed <- TypedTexts
  Reading <- Readings
  Spot <- Spots
  File = {f1, f2, f3, f4}
  Pick = {p1, p2}
INVARIANTS
  AnswersAreValid
  FullMarksIffRight
  ScoreInRange
  ClearedIsUnanswered
  KeyIsAnswerable
  NoUploadLost
PROPERTY ProgressPays
CHECK_DEADLOCK FALSE
