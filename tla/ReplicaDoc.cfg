SPECIFICATION Spec
CONSTANTS
  MaxRuns = 2
  None = None
INVARIANT RetryHasAccounts
CHECK_DEADLOCK FALSE
