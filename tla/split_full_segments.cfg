SPECIFICATION Spec
CONSTANTS
  SectSize = 5
  SegSize = 2
  MaxLen = 11
  Parities = {1, 2}
  MaxRepeats = 0
INVARIANT
  FullSegmentsSurvive
CHECK_DEADLOCK FALSE
