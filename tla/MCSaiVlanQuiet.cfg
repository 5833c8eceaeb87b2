SPECIFICATION FairSpec
CONSTANTS
  p1 = p1
  p2 = p2
  p3 = p3
  Ports <- MCPorts3
  DefaultVid <- MCDefaultVid3
  UserVids = {100, 200}
  NoVid = 0
  NoPort = NoPort
  MaxMac = 1
  MaxBuckets = 3
  MaxFrames = 0
  RefCheck = TRUE
  TablesMayFill = FALSE
  UseFailedPorts = FALSE
INVARIANTS
  TypeOK
  LegalCallsSucceed
PROPERTY
  ImplementsVlanApi
