SPECIFICATION Spec
CONSTANTS
  Chars = {"x", "y", "|", " "}
  Space = " "
  Match = 2
  Inputs <- MCInputs
INVARIANT SequenceIsTree
CHECK_DEADLOCK FALSE
