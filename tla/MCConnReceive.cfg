SPECIFICATION FairSpec
CONSTANTS
  r1 = r1
  r2 = r2
  Readers = {r1}
  Ops = {"Read", "ReadPacket"}
  NPackets = 3
  MaxBatch = 2
  MaxDeadlines = 1
  AdditionalCap = 1
  MaxConverted = 3
INVARIANTS TypeOK NoLostWakeup PayloadIntact ReadPacketInOrder BlocksOnlyOnItself
PROPERTIES ReceivesAsPipe CloseEndsReads
CHECK_DEADLOCK FALSE
