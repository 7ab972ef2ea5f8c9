\* A conversation of a project with a turn under way, and one to be made.
SPECIFICATION Spec
CONSTANTS
  None = None
  Convs = {b, n}
  Projects = {p}
  Fresh = {n}
  Flying = {b}
  Grouped = {b}
  MaxRounds = 1
  MaxActs = 3
  MaxLoads = 1
CHECK_DEADLOCK FALSE
INVARIANTS
  TypeOK
  OneStreamIsHeld
  ShownIsStored
  ListIsComplete
