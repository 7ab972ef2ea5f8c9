\* Three requests of one process, a listener that stays subscribed.
SPECIFICATION Spec
CONSTANTS
  t1 = t1
  t2 = t2
  t3 = t3
  i1 = i1
  n1 = n1
  n2 = n2
  None = None
  Turns = {t1, t2, t3}
  Instances = {i1}
  Counts = {n1, n2}
  TTL = 1
  MaxBeats = 0
  MaxCrashes = 0
  CleanupOnReturn = FALSE
SYMMETRY Symmetry
CHECK_DEADLOCK FALSE
INVARIANTS
  LeaseSafety
PROPERTIES
  LeaseRefined
