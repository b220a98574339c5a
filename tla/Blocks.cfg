SPECIFICATION Spec
CONSTANTS
  Lines = {"", "header", "content", "clause", "item", "broken", "rest", "damaged", "null"}
  Blank = ""
  Short = {"", "header", "content", "item", "broken", "rest", "damaged", "null"}
  Broken = {"broken"}
  Continued = {"rest"}
  Mapped <- MCMapped
  MaxPages = 5
  LongPages = 8
  Documents <- MCDocuments
INVARIANTS
  TypeOK
  StructureIsKept
  
  BrokenWordsMeet
CHECK_DEADLOCK FALSE
