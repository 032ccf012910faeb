SPECIFICATION Spec
CONSTANTS
  base = base
  dflt = dflt
  opt = opt
  optDflt = optDflt
  hand = hand
  None = None
  Keys <- MCKeys
  Implied <- MCImplied
  Elements <- MCKeysOnly
  Managed <- MCManaged
  HandFiles <- MCHandFiles
  SshHosts = {TRUE}
  WriteAttempts = 2
  Ops = {"change", "rollback"}
  Readers = FALSE
  SameSecond = FALSE
  Hands = {}
  MaxHands = 0
  Faults = {"lost"}
  MaxFaults = 1
INVARIANTS
  OkIsTrue
