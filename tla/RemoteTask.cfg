SPECIFICATION FairSpec
CONSTANTS
  Scripts = {s1}
  Files = {f1}
  Hosts = {h1, h2}
  Targets <- AllHosts
  Workers = {w1, w2}
  MaxTasks = 1
  MaxQueue = 2
  Crashes = TRUE
  NoTask = NoTask
INVARIANT TypeOK
INVARIANT RunCoversTargets
INVARIANT CountsAgree
INVARIANT DeleteIsFinal
INVARIANT NoHostLeftRunning
PROPERTY TaskEnds
CHECK_DEADLOCK FALSE
