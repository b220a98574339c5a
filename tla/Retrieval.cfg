SPECIFICATION Spec
CONSTANTS
  v1 = v1
  v2 = v2
  fixed = fixed
  section = section
  b1 = b1
  b2 = b2
  q1 = q1
  None = None
  Versions <- MCVersions
  Count <- MCCount
  MaxChunks = 2
  Runs = {fixed, section}
  Docs = {1}
  Builders = {b1, b2}
  Retrievers = {q1}
  K = 2
  Damping = 60
INVARIANTS
  TypeOK
  QuietAnswersAreCurrent
  FreshIndexMatches
PROPERTIES
  FusionIsFair
  
