SPECIFICATION Spec
CONSTANTS
  Verifiers = {v1, v2}
  MaxRotations = 2
  Requests = {r1, r2}
  MaxPatch = 2
  CurrentVersion = 2
  maxVersionFallback = 1
  MaxUpsets = 2
  MaxAttempts = 2
  Addresses = {a1, a2}
  MaxRecords = 1
  Programs = {p1, p2}
  MaxFaults = 3
  maximumNestingDepth = 4
  MaxDocuments = 1
INVARIANTS
  RefreshesBounded
  NoSearchWhileCooling
  VersionReported
  ClientToldWhy
  DocumentsDecode
PROPERTIES
  CacheNeverRegresses
  RequestsReturn
  SettlesOnSupported
  FilesWhole
  TornFileHeals
  BothSidesEnd
CHECK_DEADLOCK FALSE
