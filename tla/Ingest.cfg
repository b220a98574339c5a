SPECIFICATION Spec
CONSTANTS
  v0 = v0
  v1 = v1
  v2 = v2
  i1 = i1
  i2 = i2
  fixed = fixed
  None = None
  Torn = Torn
  Offline = Offline
  Versions <- MCVersions
  Count <- MCCount
  MaxChunks = 2
  MaxSlips = 1
  MaxTorn = 1
  Runs = {fixed}
  Docs = {1}
  Ingesters = {i1, i2}
  Exclusive = TRUE
INVARIANTS
  TypeOK
  NeverMixed
  MisfiledOnlyBySlip
  WrittenIsCurrent
PROPERTY ImplementsChunkTable
SYMMETRY MCSymmetry
VIEW MCView
CONSTRAINT FewFaults
