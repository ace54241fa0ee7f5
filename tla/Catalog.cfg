SPECIFICATION MCSpec
CONSTANTS
  MaxId = 3
  MaxList = 2
  Editors = {f1, f2}
  Gone = Gone
  MaxTemplate = 2
  MaxVersion = 3
  Majors = {v57, v80}
  Savers = {s1, s2}
  None = None
  MaxItems = 2
  ItemValue <- TwoItems
  MaxProbes = 2
SYMMETRY Symmetry
INVARIANT RowsTyped
INVARIANT HostFits
INVARIANT OneDefaultTemplate
INVARIANT AppliedFits
INVARIANT MyCnfWellFormed
INVARIANT Precedence
CHECK_DEADLOCK FALSE
