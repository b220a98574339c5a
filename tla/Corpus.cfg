SPECIFICATION Spec
CONSTANTS
  printed = printed
  scan = scan
  None = None
  Torn = Torn
  NDocs = 2
  Contents = {printed, scan}
  Served <- MCServed
  TextLayer = {printed}
  Scanned = {scan}
  LastDay = 1
  Wanted = {2}
  Editable = {2}
INVARIANTS
  TypeOK
  NoSilentGap
  FinishedVerifies
  DatedNoLater
  OcrIsSkippedOnlyByDrift
