SPECIFICATION FairSpec
CONSTANTS
  Peers = {p}
  Addrs = {x, y}
  TTLs = {0, 1, 2}
  Seqs = {1, 2}
  MaxTime = 2
  MayLoseCache = TRUE
  Lookaheads = {0, 1}
INVARIANTS
  WriteThrough 
PROPERTIES
   ExpiredPurged
