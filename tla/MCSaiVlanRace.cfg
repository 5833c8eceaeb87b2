SPECIFICATION Spec
CONSTANTS
  p1 = p1
  p2 = p2
  p3 = p3
  Ports <- MCPorts2
  DefaultVid <- MCDefaultVid2
  UserVids = {100}
  NoVid = 0
  NoPort = NoPort
  MaxMac = 1
  MaxBuckets = 3
  MaxFrames = 1
  RefCheck = TRUE
  TablesMayFill = FALSE
  UseFailedPorts = FALSE
INVARIANT
  AccessFlowsRemoved
CHECK_DEADLOCK FALSE
