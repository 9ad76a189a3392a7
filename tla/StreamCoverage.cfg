SPECIFICATION Spec
CONSTANTS
  Kinds = {"profile"}
  s1 = s1
  Sessions = {s1}
  MaxWidth = 3
  w1 = w1
  Workers = {w1}
  Operator = operator
  NoOne = noone
  NoWindow = nowindow
  WindowIds = {1, 2, 3, 4, 5}
  KindOrder <- OneKindOrder
  OverflowKinds = {}
  MaxAttempts = 2
  Admissions <- WindowShapes
  MaxSeq = 3
  MaxRearms = 0
  Environment = {"erase", "finish"}
  Failures = {}
  Commands = {}
INVARIANT PassedMeansPublished
PROPERTY ImplementsLog
CHECK_DEADLOCK FALSE
