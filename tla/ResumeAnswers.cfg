SPECIFICATION Spec
CONSTANTS
  c1 = c1
  c2 = c2
  k1 = k1
  k2 = k2
  NoOne = NoOne
  Workers = {w1, w2}
  Runs = {r1}
  Calls <- TwoCalls
  Keys <- TwoKeys
  KeyOf <- OwnKeys
  Asked <- AllAskC1
  Windows = {r1}
  Foreign = {}
  MaxResume = 2
  MaxFinalize = 2
  MaxVersion = 2
  Callbacks = {"resolve", "edit", "notApplicable", "stale", "deliver"}
  Failures = {"outage", "fault", "busy", "crash", "lapse"}
CONSTRAINT Apart
SYMMETRY WorkerSymmetry
INVARIANT TypeOK
INVARIANT ConsumedMeansUsed
INVARIANT ComputationsAreBounded
INVARIANT PreparationsAreBounded
PROPERTY NoOutputIsOverwritten
CHECK_DEADLOCK FALSE
