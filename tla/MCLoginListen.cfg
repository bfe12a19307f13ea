SPECIFICATION FairSpec
CONSTANTS
  p1 = p1
  p2 = p2
  NoPack = NoPack
  Packs = {p1}
  Declined = {}
  Cached = {}
  ChunkCount = 2
  Settings <- ClientDrops
PROPERTY ListenEnds
CHECK_DEADLOCK FALSE
