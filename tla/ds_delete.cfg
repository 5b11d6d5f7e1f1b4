SPECIFICATION Spec
CONSTANTS
  Peers = {p}
  Addrs = {x, y, z}
  TTLs = {0, 1}
  Seqs = {1}
  MaxTime = 2
  MayLoseCache = FALSE
  Lookaheads = {0}
INVARIANT
  DeletesGiven
