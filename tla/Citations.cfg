SPECIFICATION Spec
CONSTANTS
  Digits = {1, 2}
  Gap = Gap
  Word = Word
  Distinctive = 3
  Extractions <- MCExtractions
  Questions <- MCQuestions
INVARIANT NothingIsGlued
CHECK_DEADLOCK FALSE
