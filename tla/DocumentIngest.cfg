\* A creation and two edits by two writers, two ingestions, one failure.
SPECIFICATION Spec
CONSTANTS
  w1 = w1
  w2 = w2
  g1 = g1
  g2 = g2
  None = None
  Writers = {w1, w2}
  Ingests = {g1, g2}
  MaxEdits = 2
  MaxFaults = 1
SYMMETRY Symmetry
CHECK_DEADLOCK FALSE
INVARIANTS
  TypeOK
  WritesAreKept
  ChunksFollowText
