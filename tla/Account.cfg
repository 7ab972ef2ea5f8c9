\* Two requests together, two agents, two lines; one token expires, one request fails.
SPECIFICATION AccountSpec
CONSTANTS
  c1 = c1
  c2 = c2
  a1 = a1
  a2 = a2
  Calls = {c1, c2}
  Agents = {a1, a2}
  MaxLines = 2
  MaxOps = 5
  MaxFailures = 1
  MaxExpiries = 1
SYMMETRY Symmetry
CHECK_DEADLOCK FALSE
INVARIANTS
  AccountTypeOK
  SessionFollowsUser
  PortraitIsKept
  MemoryIsKept
