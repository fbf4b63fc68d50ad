SPECIFICATION Spec
CONSTANTS
  Calls = {c1, c2, c3, c4}
  Names = {name}
  Addresses = {a1, a2}
  PairsListed = TRUE
  None = None
SYMMETRY Symmetry
PROPERTIES
  AddOnlyAdds
CHECK_DEADLOCK FALSE
