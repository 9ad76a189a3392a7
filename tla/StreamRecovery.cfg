SPECIFICATION Spec
CONSTANTS
  Kinds = {"profile"}
  s1 = s1
  Sessions = {s1}
  MaxWidth = 3
  w1 = w1
  w2 = w2
  Workers = {w1, w2}
  Operator = operator
  NoOne = noone
  NoWindow = nowindow
  WindowIds = {1, 2, 3}
  KindOrder <- OneKindOrder
  OverflowKinds = {}
  MaxAttempts = 2
  Admissions <- SingleShapes
  MaxSeq = 1
  MaxRearms = 1
  Environment = {"crash", "lapse"}
  Failures = {"ordinary", "provider", "budget", "config", "park", "busy", "readiness", "effects", "postcommit"}
  Commands = {"rearm", "retire"}
SYMMETRY WorkerSymmetry
INVARIANTS TypeOK CeilingHolds DebitsAreKept TurnsKnowTheirCharge HeldIsRecoverable
CHECK_DEADLOCK FALSE
