\* One turn that may be cancelled anywhere, with failing storage commands.
SPECIFICATION FairSpec
CONSTANTS
  Concurrent = {"read"}
  Pausing = {"ask"}
  Batches <- MCBatches
  MaxRound = 2
  MaxDeltas = 1
  MaxFaults = 1
  MayCancel = TRUE
CHECK_DEADLOCK FALSE
INVARIANTS
  TypeOK
  CallsAreAnswered
  StreamFitsLog
PROPERTIES
  TurnEnds
