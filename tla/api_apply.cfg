SPECIFICATION FairSpec
CONSTANTS
  base = base
  dflt = dflt
  opt = opt
  optDflt = optDflt
  hand = hand
  None = None
  Keys <- MCKeys
  Implied <- MCImplied
  Elements <- MCKeysOnly
  Managed <- MCManaged
  HandFiles <- MCHandFiles
  SshHosts = {TRUE}
  WriteAttempts = 2
  Ops = {"change", "settle", "restore", "import"}
  Readers = FALSE
  SameSecond = FALSE
  Hands = {"edit", "restart", "rot"}
  MaxHands = 1
  Faults = {"lost", "refused", "store", "unread", "crash"}
  MaxFaults = 2
INVARIANTS
  TypeOK
  OkIsTrue
  RefusalChangesNothing
  JensChangesAreOnRecord
PROPERTIES
  ReplacedFilesAreInHistory
  RenderingsAreKeas
  OutsideRowsAreOutside
  ReplacedFilesWereLoaded
  FinishedWasTaken
  LockIsReleased
  WayOut
