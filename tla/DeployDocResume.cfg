SPECIFICATION Spec
CONSTANTS
  j1 = j1
  j2 = j2
  h1 = h1
  r1 = r1
  r2 = r2
  w1 = w1
  w2 = w2
  NoJob = NoJob
  NoOne = NoOne
  Jobs = {j1}
  Workers = {w1}
  Requests = {r1}
  Hosts <- MCHosts
  HostOf <- OneHost
  EndpointOf <- OneEndpoint
  NSteps = 3
  MaxQueue = 1
  MaxRequests = 3
  Crashes = FALSE
INVARIANT ResumeWipesNothing
CHECK_DEADLOCK FALSE
