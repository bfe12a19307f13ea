SPECIFICATION NbtSpec
CONSTANTS
  maximumNestingDepth = 3
  MaxDocuments = 1
INVARIANTS DepthErrorOnlyIfDeep
CHECK_DEADLOCK FALSE
