SPECIFICATION Spec
CONSTANTS
  MaxTime = 3
  Reverify = 1
  ReloadTries = 1
  FullScan = 1
  Reloads = {TRUE, FALSE}
  MaxTurns = 2
  MaxOffs = 0
  MaxChanges = 0
  Hands = {}
  MaxHands = 0
  Faults <- AllFaults
  MaxFaults = 0
INVARIANTS ArmedUntilItsDeadline
CHECK_DEADLOCK FALSE
