SPECIFICATION FairSpec
CONSTANTS
  Kinds <- AllKinds
  Tries = 2
  Wait <- Backoff
  MaxWait = 2
  RepeatAfter = 3
  MaxChanges = 3
  Faults <- AllFaults
  MaxFaults = 3
INVARIANTS TypeOK RecordIsWhatWasHeard NoSecondWarning AllClearFollowsWarning
PROPERTIES OperatorHears
CHECK_DEADLOCK FALSE
