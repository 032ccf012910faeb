SPECIFICATION FairSpec
CONSTANTS
  MaxTime = 2
  Reverify = 1
  ReloadTries = 1
  FullScan = 2
  Reloads = {TRUE, FALSE}
  MaxTurns = 1
  MaxOffs = 1
  MaxChanges = 1
  Hands = {"restart", "set", "unmark", "forget"}
  MaxHands = 1
  Faults <- AllFaults
  MaxFaults = 2
PROPERTIES HostEndsIt JenEndsIt
CHECK_DEADLOCK FALSE
