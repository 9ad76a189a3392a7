SPECIFICATION FairSpec
CONSTANTS
  c1 = c1
  c2 = c2
  k1 = k1
  k2 = k2
  NoOne = NoOne
  Workers = {w1}
  Runs = {r1}
  Calls <- TwoCalls
  Keys <- TwoKeys
  KeyOf <- OwnKeys
  Asked <- AllAskC1
  Windows = {r1}
  Foreign = {c2}
  MaxResume = 2
  MaxFinalize = 2
  MaxVersion = 2
  Callbacks = {"resolve", "edit", "cancel", "expire", "erase", "eraseSources", "deliver"}
  Failures = {"fault", "computeCrash"}
CHECK_DEADLOCK FALSE
INVARIANT NoAnsweredRunIsParked
PROPERTY AnsweredRunSettles
