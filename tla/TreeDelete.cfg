\* As KnowledgeTree.cfg, with one document.
SPECIFICATION Spec
CONSTANTS
  f1 = f1
  f2 = f2
  f3 = f3
  c1 = c1
  c2 = c2
  a = a
  b = b
  Root = Root
  None = None
  Folders = {f1, f2, f3}
  Docs = {1}
  Calls = {c1, c2}
  Names = {a, b}
  MaxFolderDepth = 2
  PageSize = 1
  MaxOps = 2
SYMMETRY Symmetry
CHECK_DEADLOCK FALSE
PROPERTIES
  DeletedFolderGoes
