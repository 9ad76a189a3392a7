SPECIFICATION FairSpec
CONSTANTS
  Kinds = {"profile"}
  s1 = s1
  Sessions = {s1}
  MaxWidth = 3
  w1 = w1
  Workers = {w1}
  Operator = operator
  NoOne = noone
  NoWindow = nowindow
  WindowIds = {1, 2, 3}
  KindOrder <- OneKindOrder
  OverflowKinds = {}
  MaxAttempts = 2
  Admissions <- UniformShapes
  MaxSeq = 2
  MaxRearms = 0
  Environment = {"crash"}
  Failures = {"ordinary", "provider", "effects"}
  Commands = {"retire"}
PROPERTIES EveryUrgentInputIsPassed EffectsAreSettled
CHECK_DEADLOCK FALSE
