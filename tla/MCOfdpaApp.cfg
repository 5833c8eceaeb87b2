SPECIFICATION Spec
CONSTANTS
  own10 = own10
  own20 = own20
  a = a
  b = b
  m1 = m1
  m2 = m2
  Vlans = {10, 20}
  PortsOf <- MCPortsOf
  OwnIp <- MCOwnIp
  Macs = {m1, m2}
  Ips = {own10, a, b}
  NoIp = NoIp
  NoFrame = NoFrame
  RefCheck = TRUE
  MaxRuns = 2
  MaxFrames = 3
  MaxQueue = 2
SYMMETRY MCSymmetry
CHECK_DEADLOCK FALSE
INVARIANTS
  TypeOK
  FirstSetupSucceeds
  RestartNeedsCleanAgent
  LoopDiesOfRepeats
  HostsLeadToFirstStation
