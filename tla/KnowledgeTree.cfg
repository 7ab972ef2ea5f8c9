\* Three folders, two documents of which a page shows one, two names; two operations,
\* together or in turn.
SPECIFICATION MCSpec
CONSTANTS
  f1 = f1
  f2 = f2
  f3 = f3
  c1 = c1
  c2 = c2
  a = a
  b = b
  Root = Root
  None = None
  Folders = {f1, f2, f3}
  Docs = {1, 2}
  Calls = {c1, c2}
  Names = {a, b}
  MaxFolderDepth = 2
  PageSize = 1
  MaxOps = 2
SYMMETRY Symmetry
CHECK_DEADLOCK FALSE
INVARIANTS
  TypeOK
  DamageNeedsRace
  DepthChecksAgree
  
  DeletionsAreTold
