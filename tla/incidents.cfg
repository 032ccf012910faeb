SPECIFICATION Spec
CONSTANTS
  Servers = {a, b}
  Services <- DhcpServices
  Workers = {v, w}
  NoOne = nobody
  MaxIncidents = 1
  Ceiling = 2
  Restarts = {TRUE, FALSE}
  MaxOps = 3
  MaxFaults = 2
  MaxHands = 1
SYMMETRY Alike
CHECK_DEADLOCK FALSE
INVARIANTS TypeOK UnresolvedIsOnRecord NoteIsBounded
PROPERTIES UnreadableIsKept
