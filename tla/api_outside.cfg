SPECIFICATION Spec
CONSTANTS
  base = base
  dflt = dflt
  opt = opt
  optDflt = optDflt
  hand = hand
  None = None
  Keys <- MCKeys
  Implied <- MCImplied
  Elements <- MCElements
  Managed <- MCManaged
  HandFiles <- MCHandFiles
  SshHosts = {TRUE, FALSE}
  WriteAttempts = 2
  Ops = {"change", "settle", "rollback"}
  Readers = TRUE
  SameSecond = TRUE
  Hands = {"edit", "set", "lateEdit", "rot"}
  MaxHands = 2
  Faults = {"lost", "refused", "capture", "crash"}
  MaxFaults = 1
INVARIANTS
  OkIsTrue
  RefusalChangesNothing
