SPECIFICATION Spec
CONSTANTS
  Agents = {a1, a2, a3}
  Groups = {0, 1}
  DefaultGroup = 1
  Scores = {0, 1, 2}
  Full = 2
  None = None
INVARIANTS
  TypeOK
PROPERTIES
  ImplementsChoice
CHECK_DEADLOCK FALSE
