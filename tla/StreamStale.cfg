SPECIFICATION Spec
CONSTANTS
  Kinds = {"profile"}
  s1 = s1
  Sessions = {s1}
  MaxWidth = 3
  w1 = w1
  w2 = w2
  Workers = {w1, w2}
  Operator = operator
  NoOne = noone
  NoWindow = nowindow
  WindowIds = {1, 2, 3}
  KindOrder <- OneKindOrder
  OverflowKinds = {}
  MaxAttempts = 2
  Admissions <- SingleShapes
  MaxSeq = 2
  MaxRearms = 0
  Environment = {"erase", "lapse"}
  Failures = {"effects"}
  Commands = {}
SYMMETRY WorkerSymmetry
INVARIANTS HolderOwnsWindow DerivedHandoffAtMostOnce NoLostWakeup RetainedOutcomesSurvive
CHECK_DEADLOCK FALSE
