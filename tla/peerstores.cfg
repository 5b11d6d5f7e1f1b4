SPECIFICATION PeerstoresSpec
CONSTANTS
  Peers = {p}
  IDs = {p}
  Addrs = {x, y}
  TTLs = {0, 1, 2}
  Seqs = {1, 2}
  MaxTime = 3
  Callers = {c1, c2}
  Protos = {"x", "y", "z"}
  MaxProtos = 2
  Names = {"n"}
  Values = {0}
  InlineKeys = {p}
  MaxFaults = 1
  Given = 20
  MaxWrites = 4
  MaxFailures = 2
INVARIANTS
  WritesKept
PROPERTIES
  ImplementsAddrBook ExpiredCollected IsAProtoBook MemRemovesThePeer
  DsChangesAreWhole
CHECK_DEADLOCK FALSE
