SPECIFICATION FairSpec
CONSTANTS
  p1 = p1
  p2 = p2
  p3 = p3
  Ports <- MCPorts2
  DefaultVid <- MCDefaultVid2
  UserVids = {100}
  NoVid = 0
  NoPort = NoPort
  MaxMac = 2
  MaxBuckets = 3
  MaxFrames = 2
  RefCheck = TRUE
  TablesMayFill = FALSE
  UseFailedPorts = FALSE
INVARIANTS
  SettledPortIsExact
  FailuresComeFromTraffic
  AtMostOneStraggler
  LearnedIsKnown
PROPERTIES
  CallReturns
CHECK_DEADLOCK FALSE
