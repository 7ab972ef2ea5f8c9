\* Two turns in any interleaving, counters and cache that get lost.
SPECIFICATION Spec
CONSTANTS
  r1 = r1
  r2 = r2
  Requests = {r1, r2}
  MaxMsgs = 1
  MaxLosses = 2
  MaxGaps = 1
SYMMETRY Symmetry
CHECK_DEADLOCK FALSE
INVARIANTS
  TypeOK
  NumbersAreSound
  PromptIsStored
