SPECIFICATION Spec
CONSTANTS
  fact = fact
  stray = stray
  gap = gap
  None = None
  Empty = Empty
  Missing = Missing
  NQuestions = 3
  Drafts = {fact, stray, gap}
  Kind <- MCKind
  Floor <- MCFloor
  WellFormed = {fact, stray, gap}
  Covered = {fact, gap}
  Revised = {1}
  Edited = {1}
  Size = 2
  Chosen <- MCChosen
  MaxAttempts = 3
INVARIANTS
  TypeOK
  VerifiedIsCovered
  SampleIsAnnotated
PROPERTY AnnotatingEnds
