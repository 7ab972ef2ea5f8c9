\* Two notes, the second one yet to be created, of which the list asks for one; six events of the user.
SPECIFICATION Spec
CONSTANTS
  n1 = n1
  n2 = n2
  None = None
  Notes = {n1, n2}
  Existing = {n1}
  Id <- Ids
  PageSize = 1
  MaxEdits = 1
  MaxEvents = 6
  MaxFaults = 1
CHECK_DEADLOCK FALSE
INVARIANTS
  TypeOK
  TextsAreKept
  ShownIsCurrent
  AddressRules
