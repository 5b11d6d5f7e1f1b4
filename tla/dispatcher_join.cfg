SPECIFICATION ReadySpec
CONSTANTS
  a = a
  b = b
  SectSize = 8
  MTU = 6
  SegSize = 2
  Parity = 2
  KeyLen = 1
  Lengths = {5}
  MaxSend = 1
  MaxDamaged = 0
  RekeyVolume = 30
  MaxPrv = 4
  Ping = 1
  TimeoutPingCount = 1
  MaxTime = 0
INVARIANTS
  KeepsRunning
CHECK_DEADLOCK FALSE
