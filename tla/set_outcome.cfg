SPECIFICATION FairSpec
CONSTANTS
  Servers <- MCServers
  Api <- MCApi
  Restart = TRUE
  Finalize = TRUE
  Tellable = FALSE
  Hands = {"edit", "restart", "set"}
  MaxVersions = 2
  Faults = {"read", "refused", "lost", "unproved", "restart", "finalize", "crash"}
  MaxFaults = 2
INVARIANTS
  TypeOK
  HonestOutcome
  FilesFirst
PROPERTIES
  KeepsPromise
  ChangeEnds
