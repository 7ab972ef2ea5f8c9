\* A live browser, and a second one that resumes the stream at any point.
SPECIFICATION ReplayFairSpec
CONSTANTS
  Concurrent = {"read"}
  Pausing = {"ask"}
  Batches <- MCEither
  MaxRound = 2
  MaxDeltas = 1
  MaxFaults = 0
  MayCancel = TRUE
CHECK_DEADLOCK FALSE
INVARIANTS
  ReplayTypeOK
  ResumeIsExact
PROPERTIES
  AnswerClosesStreams
