SPECIFICATION AggregationSpec
CONSTANTS
  Playbooks = {p1, p2}
  Aggregators = {a1}
  AgentIds = {g1, g2}
  NoAggregator = NoAggregator
  NoAgent = NoAgent
  MaxStale = 2
  TriggerCount = 2
  MinClusterSize = 2
INVARIANT NoOrphanedAgent
CHECK_DEADLOCK FALSE
