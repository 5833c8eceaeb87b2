SPECIFICATION Spec
CONSTANTS
  ip1 = ip1
  ip2 = ip2
  m1 = m1
  m2 = m2
  PortNum = 2
  Vlans = {100}
  Ips = {ip1}
  Nets = {}
  Macs = {m1}
  MaxNeighbors = 1
  MaxHops = 1
  RifOwners = {0, 1, 100}
  NeighborOwners = {100}
  Movers = {0, 1}
  Learners = {0, 1}
  NoIp = NoIp
  NoMac = NoMac
  NoRoute = NoRoute
  Cpu = Cpu
  NoWant = NoWant
  Unset = Unset
  MayRefuse = {"termination", "arp", "broadcast", "bucket", "flow"}
  CleanClient = TRUE
INVARIANTS
  RouterFlowsExact
  HopsLeadToNeighbors
