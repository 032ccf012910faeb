SPECIFICATION Spec
CONSTANTS
  base = base
  dflt = dflt
  opt = opt
  optDflt = optDflt
  hand = hand
  None = None
  Keys <- MCKeys
  Implied <- MCImplied
  Elements <- MCKeysOnly
  Managed <- MCManaged
  HandFiles <- MCHandFiles
  SshHosts = {TRUE}
  WriteAttempts = 2
  Ops = {"change"}
  Readers = TRUE
  SameSecond = FALSE
  Hands = {}
  MaxHands = 0
  Faults = {}
  MaxFaults = 0
PROPERTIES
  OutsideRowsAreOutside
