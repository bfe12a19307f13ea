SPECIFICATION FairSpec
CONSTANTS
  a1 = a1
  a2 = a2
  ticker = ticker
  handler = handler
  b1 = b1
  b2 = b2
  b3 = b3
  NoArray = NoArray
  Nobody = Nobody
  Apps = {a1}
  Ticker = ticker
  Handler = handler
  Arrays = {b1, b2}
  MaxPackets = 1
  MaxCalls = 2
CHECK_DEADLOCK FALSE
PROPERTIES KillReturns TickerEnds
