SPECIFICATION Spec
CONSTANTS
  Kinds = {"profile", "playbook"}
  s1 = s1
  Sessions = {s1}
  MaxWidth = 3
  w1 = w1
  Workers = {w1}
  Operator = operator
  NoOne = noone
  NoWindow = nowindow
  WindowIds = {1, 2, 3, 4}
  KindOrder <- TwoKindsOrder
  OverflowKinds = {"playbook"}
  MaxAttempts = 2
  Admissions <- SplitShapes
  MaxSeq = 2
  MaxRearms = 0
  Environment = {"age"}
  Failures = {"provider", "suspend", "discard"}
  Commands = {}
PROPERTIES FailureKeepsAging
CHECK_DEADLOCK FALSE
