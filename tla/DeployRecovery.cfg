SPECIFICATION Spec
CONSTANTS
  j1 = j1
  j2 = j2
  h1 = h1
  r1 = r1
  r2 = r2
  w1 = w1
  w2 = w2
  NoJob = NoJob
  NoOne = NoOne
  Jobs = {j1, j2}
  Workers = {w1, w2}
  Requests = {r1, r2}
  Hosts <- MCHosts
  HostOf <- OneHost
  EndpointOf <- OneEndpoint
  NSteps = 3
  MaxQueue = 2
  MaxRequests = 3
  Crashes = TRUE
INVARIANT EndpointExclusive
INVARIANT FailedIsResumable
INVARIANT NoLeftoverRebuild
PROPERTY KeepsPromise
SYMMETRY Interchangeable
CHECK_DEADLOCK FALSE
