SPECIFICATION MCSpec
CONSTANTS
  Instances = {i1, i2}
  MaxRows = 3
  MaxRuns = 4
  Clusters = {c1, c2}
  Engines = {mysql, oracle}
  Topologies = {"replication", "standalone"}
  Requests = {r1, r2}
  None = None
SYMMETRY Symmetry
INVARIANT RowsTyped
INVARIANT SinglePrimary
INVARIANT OneDefault
INVARIANT EngineAgrees
INVARIANT MembershipFits
INVARIANT OwnServerId
PROPERTY RegisteredLast
CHECK_DEADLOCK FALSE
