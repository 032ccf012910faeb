SPECIFICATION Spec
CONSTANTS
  Servers <- MCServers
  Api <- MCApi
  Restart = TRUE
  Finalize = TRUE
  Tellable = FALSE
  Hands = {"restart"}
  MaxVersions = 1
  Faults = {"lost"}
  MaxFaults = 1
INVARIANTS
  StrictOutcome
