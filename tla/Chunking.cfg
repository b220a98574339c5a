SPECIFICATION ChunkingSpec
CONSTANTS
  Target = 3
  Overlap = 1
  Lengths = {0, 1, 2, 4, 10}
  Inputs <- MCInputs
INVARIANTS
  TypeOK
  TextIsKept
  NothingLost
  StructureStands
  LongForAReason
  BlocksLongForAReason
  InOrder
PROPERTY ArmsAgree
CHECK_DEADLOCK FALSE
