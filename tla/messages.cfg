SPECIFICATION MessagesSpec
CONSTANTS
  SectSize = 5
  SegSize = 2
  MaxLen = 11
  Parities = {0, 1, 2}
  MaxRepeats = 2
  NameLen = 16
  Payloads = {0, 1, 3}
  CheckBytes = {0, 255, 90}
  IndexMod = 40
INVARIANTS
  LayoutContiguous JoinIsExact RoomIsEnough ReadsWhatWasWritten ReadsBack
CHECK_DEADLOCK FALSE
