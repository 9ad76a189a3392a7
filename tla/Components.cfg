SPECIFICATION ComponentsSpec
CONSTANTS
  Kinds = {"profile", "playbook"}
  Kind = "profile"
  Sessions = {s1, s2}
  MaxWidth = 3
  Policies <- MixedPolicies
  MaxSeq = 3
  Playbooks = {p1, p2, p3}
  Aggregators = {a1, a2}
  AgentIds = {g1, g2}
  NoAggregator = NoAggregator
  NoAgent = NoAgent
  MaxStale = 1
  TriggerCount = 2
  MinClusterSize = 2
  Keys = {k1, k2}
  NoKey = NoKey
  Workers = {w1, w2}
  QueueSize = 2
  MaxFires = 5
  Getters = {t1, t2}
  NoGetter = NoGetter
  MaxVersion = 2
  MaxInstances = 3
  Calls = {c1, c2, c3}
  OpenAfterFailures = 2
  MaxDoublings = 2
  Callers = {t1}
  NoCaller = NoCaller
  Turns = {t1, t2}
  NoTurn = NoTurn
  Chunks = 1
  AttemptLimit = 4
  MaxTruncated = 2
  SplitReserve = 1
SYMMETRY Interchangeable
INVARIANT ComponentsTypeOK
INVARIANT AgreesWithRows
INVARIANT ClustersMatchItems
INVARIANT RetiredMembersAreTracked
INVARIANT AgentsSpeakForClusters
INVARIANT NoFireIsForgotten
INVARIANT NoProbeIsForgotten
INVARIANT LostLeaseIsReported
INVARIANT CallsAreCounted
PROPERTY InvalidationIsSeen
PROPERTY FreshHitIsCurrent
PROPERTY ReceiptsAreReused
CHECK_DEADLOCK FALSE
