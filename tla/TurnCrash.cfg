\* Two processes, one crash and restart, heartbeats; fair scheduling.
SPECIFICATION FairSpec
CONSTANTS
  t1 = t1
  t2 = t2
  i1 = i1
  i2 = i2
  n1 = n1
  None = None
  Turns = {t1, t2}
  Instances = {i1, i2}
  Counts = {n1}
  TTL = 2
  MaxBeats = 1
  MaxCrashes = 1
  CleanupOnReturn = FALSE
CHECK_DEADLOCK FALSE
INVARIANTS
  TypeOK
  CancelSafety
PROPERTIES
  EveryTurnEnds
  LeaseIsFreed
