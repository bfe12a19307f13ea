SPECIFICATION FairSpec
CONSTANTS
  p1 = p1
  p2 = p2
  NoPack = NoPack
  Packs = {p1, p2}
  Declined = {p2}
  Cached = {p1}
  ChunkCount = 2
  Settings <- EverySetting
INVARIANTS HandshakeNotDeferred FormatsAgree AnnouncedOnce SpawnsAgree
PROPERTIES LoginCompletes DialReturns
CHECK_DEADLOCK FALSE
