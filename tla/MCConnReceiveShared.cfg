SPECIFICATION FairSpec
CONSTANTS
  r1 = r1
  r2 = r2
  Readers = {r1, r2}
  Ops = {"Read"}
  NPackets = 2
  MaxBatch = 2
  MaxDeadlines = 0
  AdditionalCap = 1
  MaxConverted = 1
PROPERTY QueuedPacketWakes
