SPECIFICATION Spec
CONSTANTS
  Chars = {"x", "y", "|", " "}
  Space = " "
  Match = 2
  Inputs <- MCInputs
INVARIANTS
  TypeOK
  SplitIsRuns
  RowIsOptimal
  OrderIsMeasured
CHECK_DEADLOCK FALSE
