SPECIFICATION Spec
CONSTANTS
  Servers = {a, b}
  Services <- Dhcp4Only
  Workers = {v, w}
  NoOne = nobody
  MaxIncidents = 1
  Ceiling = 2
  Restarts = {TRUE, FALSE}
  MaxOps = 3
  MaxFaults = 0
  MaxHands = 0
SYMMETRY Alike
CHECK_DEADLOCK FALSE
INVARIANT ClearedOnProof
