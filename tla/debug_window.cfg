SPECIFICATION Spec
CONSTANTS
  MaxTime = 3
  Reverify = 1
  ReloadTries = 1
  FullScan = 1
  Reloads = {TRUE, FALSE}
  MaxTurns = 2
  MaxOffs = 1
  MaxChanges = 1
  Hands = {"restart", "set", "unmark", "forget"}
  MaxHands = 1
  Faults <- AllFaults
  MaxFaults = 2
INVARIANTS TypeOK OwnLevelComesBack HostKeepsSession
PROPERTIES DroppedWhenRestored
CHECK_DEADLOCK FALSE
