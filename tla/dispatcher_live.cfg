SPECIFICATION ReadySpec
CONSTANTS
  a = a
  b = b
  SectSize = 8
  MTU = 3
  SegSize = 2
  Parity = 2
  KeyLen = 1
  Lengths = {1, 3}
  MaxSend = 1
  MaxDamaged = 0
  RekeyVolume = 3
  MaxPrv = 4
  Ping = 1
  TimeoutPingCount = 1
  MaxTime = 0
PROPERTIES
  OnionsArrive
  KeysSettle
CHECK_DEADLOCK FALSE
