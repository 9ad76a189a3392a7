SPECIFICATION Spec
CONSTANTS
  Kinds = {"profile"}
  s1 = s1
  Sessions = {s1}
  MaxWidth = 3
  w1 = w1
  Workers = {w1}
  Operator = operator
  NoOne = noone
  NoWindow = nowindow
  WindowIds = {1, 2}
  KindOrder <- OneKindOrder
  OverflowKinds = {}
  MaxAttempts = 1
  Admissions <- SingleShapes
  MaxSeq = 2
  MaxRearms = 0
  Environment = {"erase"}
  Failures = {}
  Commands = {}
INVARIANTS FreeCursorIsNotHeld
CHECK_DEADLOCK FALSE
