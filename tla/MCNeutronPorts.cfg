SPECIFICATION Spec
CONSTANTS
  Calls = {c1, c2, c3, c4}
  Names = {name}
  Addresses = {a1, a2}
  PairsListed = TRUE
  None = None
SYMMETRY Symmetry
INVARIANTS
  TypeOK
  OnePortPerName
  DeletedByName
  AddedStays
PROPERTIES
  RemovesOnlyItsOwn
CHECK_DEADLOCK FALSE
