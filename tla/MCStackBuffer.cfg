SPECIFICATION Spec
CONSTANTS
  Cell = {0, 1, 2}
  Row <- RowOf
  Value = {0, 1}
  Window = {"stack"}
  StackWindow = "stack"
  NoAccess = NoAccess
  NoValue = NoValue
INVARIANTS TypeOK Coherent
PROPERTIES HitSurvivesUnlessEvicted
