SPECIFICATION Spec
CONSTANTS
  r1 = r1
  r2 = r2
  Readers = {r1}
  Ops = {"ReadPacket"}
  NPackets = 2
  MaxBatch = 2
  MaxDeadlines = 1
  AdditionalCap = 1
  MaxConverted = 1
INVARIANT ReadFailsPastDeadline
