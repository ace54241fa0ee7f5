SPECIFICATION MCFairSpec
CONSTANTS
  MaxInstance = 2
  Clustered = {1}
  Nodes <- OneNode
  EngineOf <- TwoEngines
  Rounds = {r1, r2}
  MaxEdits = 2
  Mistyped <- OneNode
  Gone = Gone
  Sessions = {s1, s2}
  Pool = 1
INVARIANT RowsTyped
INVARIANT SummaryAgrees
INVARIANT NoOrphanConnection
PROPERTY ResultsSettle
PROPERTY ThreadsComeBack
CHECK_DEADLOCK FALSE
