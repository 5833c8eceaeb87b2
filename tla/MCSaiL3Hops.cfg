SPECIFICATION Spec
CONSTANTS
  ip1 = ip1
  ip2 = ip2
  m1 = m1
  m2 = m2
  PortNum = 2
  Vlans = {100}
  Ips = {ip1, ip2}
  Nets = {}
  Macs = {m1, m2}
  MaxNeighbors = 2
  MaxHops = 2
  RifOwners = {0}
  NeighborOwners = {0}
  Movers = {0}
  Learners = {}
  NoIp = NoIp
  NoMac = NoMac
  NoRoute = NoRoute
  Cpu = Cpu
  NoWant = NoWant
  Unset = Unset
  MayRefuse = {"group", "bucket", "flow"}
  CleanClient = TRUE
SYMMETRY MCSymmetry
INVARIANTS
  TypeOK
  HopsLeadToNeighbors
  FlowsHaveBuckets
  RouteFollowsRequest
