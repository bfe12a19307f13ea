SPECIFICATION Spec
CONSTANTS
  a1 = a1
  a2 = a2
  ticker = ticker
  handler = handler
  b1 = b1
  b2 = b2
  b3 = b3
  NoArray = NoArray
  Nobody = Nobody
  Apps = {a1, a2}
  Ticker = ticker
  Handler = handler
  Arrays = {b1, b2, b3}
  MaxPackets = 3
  MaxCalls = 3
SYMMETRY Symmetry
INVARIANTS TypeOK FlushNeverPanics CloseFlushes FormatFollowsSettings
PROPERTIES SendsAsPipe
CHECK_DEADLOCK FALSE
