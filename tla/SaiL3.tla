------------------------------- MODULE SaiL3 -------------------------------
(***************************************************************************)
(* ofdpa-sai/sai.c: router interfaces, neighbours, next hops and routes of *)
(* the SAI adapter, and the OF-DPA tables they program.                    *)
(*                                                                         *)
(* A call is one step here: the receive thread shares only neigh_db with   *)
(* these calls, and a call reads it once.  What a call leaves behind when  *)
(* the agent refuses one of its requests is an outcome of the step.  An    *)
(* answer of EXISTS counts as success in sai.c, so an entry that is        *)
(* already there stays as it is.  remove_neighbor_entry and                *)
(* remove_next_hop do nothing: groups stay for good, and elements of a     *)
(* port's array of neighbours until a VLAN membership is created on the    *)
(* port.  That sets num_neighbor to 0 and leaves the elements as they are; *)
(* an element that is used again keeps its old oid and gid.                *)
(*                                                                         *)
(* VLANs and memberships are those of SaiVlan; here they are what their    *)
(* calls do to port->vid and port->num_neighbor.  A router interface is    *)
(* named after its owner, a port or a VLAN, since ids are not used twice.  *)
(* known, hop and want are the client's side: what it was told was done    *)
(* and has not taken back.                                                 *)
(***************************************************************************)
EXTENDS Integers, Sequences, FiniteSets

CONSTANTS
  PortNum,         \* port_num; ports are named after their place in ports[]
  Vlans,           \* the VLANs the client created
  Ips, Nets,       \* host addresses (/32) and shorter prefixes
  Macs,
  MaxNeighbors,    \* MAX_NEIGHBORS; sai.c does not test it, so the guard is a bound
  MaxHops,         \* bound: create_next_hop calls that get as far as a group
  RifOwners,       \* bound: the ports and VLANs that are given a router interface
  NeighborOwners,  \* bound: those of them whose router interface has neighbours
  Movers,          \* bound: the ports whose VLAN memberships change
  Learners,        \* bound: the ports that receive frames
  NoIp, NoMac, NoRoute, Cpu, NoWant, Unset,
  MayRefuse,       \* the adds that the agent may refuse with OFDPA_E_FULL
  CleanClient      \* the client removes the flow of a prefix before it asks for another

Ports == 0 .. (PortNum - 1)
Owners == Ports \union Vlans
Prefixes == Ips \union Nets
VLAN_OFFSET == 10
Vids == Vlans \union {p + VLAN_OFFSET : p \in Ports}
Gids == 1 .. MaxHops

\* SAI object ids of next hops; 0 is the oid of an element that never had one.
Oid(n) == MaxHops + n
Oids == 0 .. (2 * MaxHops)

\* An element of an array that malloc and memset have just made.
Blank == [ip |-> NoIp, mac |-> NoMac, oid |-> 0, gid |-> 0]

ASSUME SizesAssumption == PortNum \in Nat /\ MaxNeighbors \in Nat /\ MaxHops \in Nat
ASSUME VlansAssumption ==
  /\ Vlans \subseteq Nat
  /\ \A p \in Ports : p \notin Vlans /\ p + VLAN_OFFSET \notin Vlans
ASSUME BoundsAssumption ==
  /\ RifOwners \subseteq Owners /\ NeighborOwners \subseteq Owners /\ Movers \subseteq Ports
  /\ Learners \subseteq Ports
ASSUME NamesAssumption ==
  /\ NoIp \notin Ips /\ NoMac \notin Macs /\ Ips \intersect Nets = {}
  /\ NoRoute \notin Gids \union {Cpu} /\ Cpu \notin Gids
  /\ NoWant \notin {Cpu, Unset} /\ Cpu # Unset
  /\ {NoWant, Cpu, Unset} \intersect [owner : Owners, mac : Macs] = {}
ASSUME SwitchesAssumption ==
  /\ MayRefuse \subseteq {"termination", "arp", "broadcast", "group", "bucket", "flow"}
  /\ CleanClient \in BOOLEAN

VARIABLES
  \* The adapter's own state.
  vid,        \* port->vid
  neigh_db,   \* neigh_db[p]: addresses ever learned on p
  neighbors,  \* neighbors[o]: the array of a port or VLAN, [ip, mac, oid, gid]
  num_neighbor, \* num_neighbor[o]: how many of its elements are in use
  \* The agent's tables.
  rifFlows,   \* <<kind, vid, owner>>: MAC termination and ACL flows
  l3groups,   \* l3groups[g]: [filled, vid, port, mac] of the g-th L3 unicast group
  routing,    \* routing[x]: group of the unicast routing flow of x, Cpu or NoRoute
  \* The client's side.
  rif,        \* rif[o]: "none", "live", "broken" (a call on it failed)
  spoilt,     \* history: owners on which a call failed
  known,      \* known[<<o, ip>>]: MAC address of the neighbour, or NoMac
  hop,        \* hop[<<o, ip>>]: number of the next hop, or 0
  dropped,    \* history: <<o, ip>> that a membership took out of the array
  want        \* want[x]: [owner, mac] the flow of x should lead to, Cpu, NoWant,
              \* or Unset if the call for it named nothing

tables == <<rifFlows, l3groups, routing>>
arrays == <<neighbors, num_neighbor>>
client == <<rif, spoilt, known, hop, dropped, want>>
vars == <<vid, neigh_db, arrays, tables, client>>

l3_unicast_idx == Len(l3groups)
AccessVid(o) == IF o \in Ports THEN vid[o] ELSE o
Kinds == {"termination", "arp", "broadcast"}
RifKeys(o) == {<<k, AccessVid(o), o>> : k \in Kinds}
EntriesOf(o, ip) == {i \in 1 .. num_neighbor[o] : neighbors[o][i].ip = ip}
NoBucket == [filled |-> FALSE, vid |-> 0, port |-> 0, mac |-> NoMac]

-----------------------------------------------------------------------------
(* Mutants: plausible bugs, each of which breaks one of the properties.    *)

\* A removal that forgets the flow for ARP requests (sai.c:926).
DeletedBeforeNoBroadcast(missing) == IF missing = {} THEN {"arp", "termination"} ELSE {}
\* The port of a VLAN's neighbour is the first one, whatever it learned (sai.c:244).
EgressFirst(o, mac) == IF o \in Ports THEN {o} ELSE {0}
\* The search for an oid starts at the second element (sai.c:1661).
GidOfFromSecond(oid) ==
  LET found == {e \in Ports \X (2 .. MaxNeighbors) :
                  e[2] <= num_neighbor[e[1]] /\ neighbors[e[1]][e[2]].oid = oid}
  IN IF found = {} THEN 0 ELSE LET e == CHOOSE e \in found : TRUE IN neighbors[e[1]][e[2]].gid
\* The first element with the address, not the last (sai.c:2517).
IsNeighborOfFirst(k, o, ip) == k \in EntriesOf(o, ip) /\ \A i \in EntriesOf(o, ip) : k <= i
\* The answer to the request for the bucket is dropped (sai.c:2120).
GroupAddedUnfilled(refused) == refused # "group"
\* A route that was removed is left as group 0.
UnroutedZero(x) == [routing EXCEPT ![x] = 0]

-----------------------------------------------------------------------------
(* Router interfaces.                                                      *)

\* The requests of a call in order: those before the refused one are done.
AddedBefore(o, refused) ==
  CASE refused = "termination" -> {}
    [] refused = "arp" -> {"termination"}
    [] refused = "broadcast" -> {"termination", "arp"}
    [] refused = "none" -> Kinds

\* Of the requests of a removal: those before the first that finds no flow.
DeletedBefore(missing) ==
  CASE missing = {} -> Kinds
    [] "arp" \in missing -> {}
    [] missing \intersect {"arp", "broadcast"} = {"broadcast"} -> {"arp"}
    [] missing = {"termination"} -> {"arp", "broadcast"}

\* sai_create_router_interface; also a new attempt after a failed one.
CreateRouterInterface(o, refused) ==
  /\ rif[o] # "live"
  /\ refused # "none" => refused \in MayRefuse /\ <<refused, AccessVid(o), o>> \notin rifFlows
  /\ rifFlows' = rifFlows \union {<<k, AccessVid(o), o>> : k \in AddedBefore(o, refused)}
  /\ rif' = [rif EXCEPT ![o] = IF refused = "none" THEN "live" ELSE "broken"]
  /\ spoilt' = IF refused = "none" THEN spoilt ELSE spoilt \union {o}
  /\ UNCHANGED <<vid, neigh_db, arrays, l3groups, routing, known, hop, dropped, want>>

\* sai_remove_router_interface: the keys are made from the vid of today.
RemoveRouterInterface(o) ==
  /\ rif[o] = "live"
  /\ \A ip \in Ips : known[<<o, ip>>] = NoMac
  /\ LET missing == {k \in Kinds : <<k, AccessVid(o), o>> \notin rifFlows}
     IN
       /\ rifFlows' = rifFlows \ {<<k, AccessVid(o), o>> : k \in DeletedBefore(missing)}
       /\ rif' = [rif EXCEPT ![o] = IF missing = {} THEN "none" ELSE "broken"]
       /\ spoilt' = IF missing = {} THEN spoilt ELSE spoilt \union {o}
  /\ UNCHANGED <<vid, neigh_db, arrays, l3groups, routing, known, hop, dropped, want>>

-----------------------------------------------------------------------------
(* Neighbours and next hops.                                               *)

\* sai_create_neighbor_entry: always one more element, of which it sets the
\* addresses only.
CreateNeighbor(o, ip, mac) ==
  LET n == num_neighbor[o] + 1 IN
  /\ rif[o] = "live" /\ known[<<o, ip>>] = NoMac
  /\ n <= MaxNeighbors
  /\ num_neighbor' = [num_neighbor EXCEPT ![o] = n]
  /\ neighbors' = [neighbors EXCEPT ![o][n].ip = ip, ![o][n].mac = mac]
  /\ known' = [known EXCEPT ![<<o, ip>>] = mac]
  /\ UNCHANGED <<vid, neigh_db, tables, rif, spoilt, hop, dropped, want>>

\* sai_remove_neighbor_entry
RemoveNeighbor(o, ip) ==
  /\ known[<<o, ip>>] # NoMac /\ hop[<<o, ip>>] = 0
  /\ known' = [known EXCEPT ![<<o, ip>>] = NoMac]
  /\ dropped' = dropped \ {<<o, ip>>}
  /\ UNCHANGED <<vid, neigh_db, arrays, tables, rif, spoilt, hop, want>>

\* The port behind a router interface: its own, or for a VLAN the first one on
\* which the address was ever learned.
Egress(o, mac) ==
  IF o \in Ports THEN {o}
  ELSE {p \in Ports : mac \in neigh_db[p] /\ \A q \in 0 .. (p - 1) : mac \notin neigh_db[q]}

\* The element that the search for a neighbour ends with: the last one.
IsNeighborOf(k, o, ip) == k \in EntriesOf(o, ip) /\ \A i \in EntriesOf(o, ip) : i <= k

\* ofdpa_sai_add_l3_unicast_group succeeds: the group and its bucket are there.
GroupAdded(refused) == refused \notin {"group", "bucket"}

\* A flow that is added to the routing table: an old one of that prefix stays.
Routed(x, target) == [routing EXCEPT ![x] = IF @ = NoRoute THEN target ELSE @]

\* ofdpa_sai_delete_unicast_routing_flow
Unrouted(x) == [routing EXCEPT ![x] = NoRoute]

\* sai_create_next_hop finds its neighbour and its port; or it fails before
\* anything is changed.
CreateNextHop(o, ip, refused) ==
  /\ rif[o] = "live" /\ known[<<o, ip>>] # NoMac /\ hop[<<o, ip>>] = 0
  /\ CleanClient => routing[ip] = NoRoute
  /\ l3_unicast_idx < MaxHops
  /\ refused # "none" => refused \in MayRefuse
  /\ refused = "flow" => routing[ip] = NoRoute
  /\ \E k \in 1 .. num_neighbor[o] :
       /\ IsNeighborOf(k, o, ip)
       /\ \E p \in Egress(o, neighbors[o][k].mac) :
            LET g == l3_unicast_idx + 1
                n == neighbors[o][k]
                bucket == [filled |-> TRUE, vid |-> vid[p], port |-> p, mac |-> n.mac]
                done == GroupAdded(refused) /\ refused # "flow" IN
            /\ l3groups' = Append(l3groups,
                             IF refused \in {"group", "bucket"} THEN NoBucket ELSE bucket)
            /\ neighbors' = [neighbors EXCEPT
                               ![o][k].oid = Oid(g),
                               ![o][k].gid = IF GroupAdded(refused) THEN g ELSE n.gid]
            /\ routing' = IF done THEN Routed(ip, g) ELSE routing
            /\ hop' = IF done THEN [hop EXCEPT ![<<o, ip>>] = g] ELSE hop
            /\ want' = IF done THEN [want EXCEPT ![ip] = [owner |-> o, mac |-> known[<<o, ip>>]]]
                       ELSE want
  /\ UNCHANGED <<vid, neigh_db, num_neighbor, rifFlows, rif, spoilt, known, dropped>>

\* sai_remove_next_hop
RemoveNextHop(o, ip) ==
  /\ hop[<<o, ip>>] # 0
  /\ hop' = [hop EXCEPT ![<<o, ip>>] = 0]
  /\ UNCHANGED <<vid, neigh_db, arrays, tables, rif, spoilt, known, dropped, want>>

-----------------------------------------------------------------------------
(* Routes.                                                                 *)

\* The loop of sai_create_route_entry that looks for the group of a next hop: it
\* searches the arrays of the ports, not those of the VLANs.  No two elements have an
\* oid in common, but for 0, and those have no group.
GidOf(oid) ==
  LET found == {e \in Ports \X (1 .. MaxNeighbors) :
                  /\ e[2] <= num_neighbor[e[1]]
                  /\ neighbors[e[1]][e[2]].oid = oid}
  IN IF found = {} THEN 0 ELSE LET e == CHOOSE e \in found : TRUE IN neighbors[e[1]][e[2]].gid

\* A flow is added for x, as asked.
AddRoute(x, target, asked) ==
  /\ CleanClient => routing[x] = NoRoute
  /\ routing' = Routed(x, target)
  /\ want' = [want EXCEPT ![x] = asked]
  /\ UNCHANGED <<vid, neigh_db, arrays, rifFlows, l3groups, rif, spoilt, known, hop, dropped>>

\* sai_create_route_entry with a next hop.  A packet action behind it falls through
\* and replaces its oid; a search that finds no group is a success without a flow,
\* which changes nothing, as does a flow that the agent refuses.
CreateRoute(x, o, ip) ==
  LET gid == GidOf(Oid(hop[<<o, ip>>])) IN
  /\ hop[<<o, ip>>] # 0 /\ gid > 0
  /\ AddRoute(x, gid, [owner |-> o, mac |-> known[<<o, ip>>]])

\* sai_create_route_entry with the CPU port, and with FORWARD.
CreateCpuRoute(x) == AddRoute(x, Cpu, Cpu)

\* sai_create_route_entry without an attribute that sets its oid: neither a next hop
\* nor a packet action, or the CPU port alone.  The search is for what the stack held.
\* packet_in, once set, replaces whatever group is found.
CreateRouteUnset(x, packet_in) ==
  \E oid \in Oids :
    /\ GidOf(oid) > 0
    /\ AddRoute(x, IF packet_in THEN Cpu ELSE GidOf(oid), IF packet_in THEN Cpu ELSE Unset)

\* sai_remove_route_entry: host routes only; any other prefix is ignored.
RemoveRoute(x) ==
  /\ x \in Ips /\ routing[x] # NoRoute
  /\ routing' = Unrouted(x)
  /\ want' = [want EXCEPT ![x] = NoWant]
  /\ UNCHANGED <<vid, neigh_db, arrays, rifFlows, l3groups, rif, spoilt, known, hop, dropped>>

-----------------------------------------------------------------------------
(* What goes on beside these calls.                                        *)

\* The receive thread learns an address (SaiVlan's RxVid).
Learn(p, mac) ==
  /\ mac \notin neigh_db[p]
  /\ neigh_db' = [neigh_db EXCEPT ![p] = @ \union {mac}]
  /\ UNCHANGED <<vid, arrays, tables, client>>

\* sai_create_vlan_member, up to its first request (SaiVlan's CreateMember and Disable):
\* the port's array of neighbours counts as empty, for a tagged membership too.  A port
\* with a router interface is given no access membership.
CreateMember(p, v, tagged) ==
  /\ v # vid[p] /\ (tagged \/ rif[p] # "live")
  /\ vid' = IF tagged THEN vid ELSE [vid EXCEPT ![p] = v]
  /\ num_neighbor' = [num_neighbor EXCEPT ![p] = 0]
  /\ dropped' = dropped \union {<<p, ip>> : ip \in {i \in Ips : known[<<p, i>>] # NoMac}}
  /\ UNCHANGED <<neigh_db, neighbors, tables, rif, spoilt, known, hop, want>>

\* sai_remove_vlan_member, of an access membership (SaiVlan's ResetVid).
RemoveMember(p) ==
  /\ rif[p] # "live" /\ vid[p] \in Vlans
  /\ vid' = [vid EXCEPT ![p] = p + VLAN_OFFSET]
  /\ UNCHANGED <<neigh_db, arrays, tables, client>>

\* delete_vlan and append_new_vlan: the VLAN starts again with a new array.
RecreateVlan(v) ==
  /\ rif[v] # "live" /\ num_neighbor[v] > 0
  /\ \A p \in Ports : vid[p] # v
  /\ neighbors' = [neighbors EXCEPT ![v] = [i \in 1 .. MaxNeighbors |-> Blank]]
  /\ num_neighbor' = [num_neighbor EXCEPT ![v] = 0]
  /\ UNCHANGED <<vid, neigh_db, tables, client>>

-----------------------------------------------------------------------------
Init ==
  /\ vid = [p \in Ports |-> p + VLAN_OFFSET]
  /\ neigh_db = [p \in Ports |-> {}]
  /\ neighbors = [o \in Owners |-> [i \in 1 .. MaxNeighbors |-> Blank]]
  /\ num_neighbor = [o \in Owners |-> 0]
  /\ rifFlows = {} /\ l3groups = <<>>
  /\ routing = [x \in Prefixes |-> NoRoute]
  /\ rif = [o \in Owners |-> "none"]
  /\ spoilt = {}
  /\ known = [k \in Owners \X Ips |-> NoMac]
  /\ hop = [k \in Owners \X Ips |-> 0] /\ dropped = {}
  /\ want = [x \in Prefixes |-> NoWant]

Next ==
  \/ \E o \in RifOwners, refused \in Kinds \union {"none"} : CreateRouterInterface(o, refused)
  \/ \E o \in Owners : RemoveRouterInterface(o)
  \/ \E o \in NeighborOwners, ip \in Ips, mac \in Macs : CreateNeighbor(o, ip, mac)
  \/ \E o \in Owners, ip \in Ips : RemoveNeighbor(o, ip) \/ RemoveNextHop(o, ip)
  \/ \E o \in Owners, ip \in Ips, refused \in {"group", "bucket", "flow", "none"} :
       CreateNextHop(o, ip, refused)
  \/ \E x \in Prefixes, o \in Owners, ip \in Ips : CreateRoute(x, o, ip)
  \/ \E x \in Prefixes, packet_in \in BOOLEAN : CreateRouteUnset(x, packet_in)
  \/ \E x \in Prefixes : CreateCpuRoute(x) \/ RemoveRoute(x)
  \/ \E p \in Learners, mac \in Macs : Learn(p, mac)
  \/ \E p \in Movers, v \in Vlans, tagged \in BOOLEAN : CreateMember(p, v, tagged)
  \/ \E p \in Movers : RemoveMember(p)
  \/ \E v \in Vlans : RecreateVlan(v)

Spec == Init /\ [][Next]_vars

-----------------------------------------------------------------------------
(* Properties.                                                             *)

Entries == [ip : Ips \union {NoIp}, mac : Macs \union {NoMac}, oid : Oids, gid : 0 .. MaxHops]
Buckets == [filled : BOOLEAN, vid : Vids \union {0}, port : Ports, mac : Macs \union {NoMac}]

\* Every variable has its type.
TypeOK ==
  /\ vid \in [Ports -> Vids] /\ neigh_db \in [Ports -> SUBSET Macs]
  /\ neighbors \in [Owners -> [1 .. MaxNeighbors -> Entries]]
  /\ num_neighbor \in [Owners -> 0 .. MaxNeighbors]
  /\ rifFlows \subseteq Kinds \X Vids \X Owners
  /\ l3groups \in Seq(Buckets \union {NoBucket}) /\ Len(l3groups) <= MaxHops
  /\ routing \in [Prefixes -> Gids \union {Cpu, NoRoute}]
  /\ rif \in [Owners -> {"none", "live", "broken"}] /\ spoilt \subseteq Owners
  /\ known \in [Owners \X Ips -> Macs \union {NoMac}]
  /\ hop \in [Owners \X Ips -> 0 .. MaxHops] /\ dropped \subseteq Owners \X Ips
  /\ want \in [Prefixes -> [owner : Owners, mac : Macs] \union {Cpu, NoWant, Unset}]

\* The flows of a router interface that is in use are all there, even if an
\* earlier attempt failed half-way; and where no call failed they are the only
\* ones of that port or VLAN, and none is left after a removal: the keys that a
\* removal makes are the keys that the creation made (sai.c:862-884, 904-929).
RouterFlowsExact ==
  \A o \in Owners :
    /\ rif[o] = "live" => RifKeys(o) \subseteq rifFlows
    /\ o \notin spoilt =>
         {f \in rifFlows : f[3] = o} = IF rif[o] = "live" THEN RifKeys(o) ELSE {}

\* The group of a next hop that the client has exists, has a bucket, sends to the
\* address of its neighbour, out of the neighbour's port, which for a VLAN is one that
\* learned the address, and is no other next hop's, although elements are used again
\* with old oids and gids in them (sai.c:646, 2637).  A route finds the next hop of a
\* VLAN never (sai.c:1660), and that of a port always, unless a membership was created
\* on the port since: then it finds this group or none.
HopsLeadToNeighbors ==
  \A o \in Owners, ip \in Ips :
    LET h == hop[<<o, ip>>]  group == l3groups[h]  found == GidOf(Oid(h)) IN h # 0 =>
      /\ group.filled /\ group.mac = known[<<o, ip>>]
      /\ \A q \in Owners, a \in Ips : hop[<<q, a>>] = h => q = o /\ a = ip
      /\ IF o \in Ports
           THEN /\ group.port = o
                /\ found = h \/ (found = 0 /\ <<o, ip>> \in dropped)
           ELSE group.mac \in neigh_db[group.port] /\ found = 0

\* No routing flow refers to a group without a bucket, whatever the agent refused.
FlowsHaveBuckets ==
  \A x \in Prefixes : routing[x] \in Gids => l3groups[routing[x]].filled

\* The flow of a prefix leads where the call that added it asked: to the MAC address
\* the client last gave for the next hop's neighbour, out of the port of its router
\* interface, whatever has become of the element it was found by; for clients that
\* remove a flow before they replace it.  A call that named nothing may lead anywhere.
RouteFollowsRequest ==
  CleanClient => \A x \in Prefixes :
    /\ want[x] = NoWant <=> routing[x] = NoRoute
    /\ want[x] = Cpu <=> routing[x] = Cpu
    /\ want[x] = Unset => routing[x] \in Gids
    /\ routing[x] \in Gids /\ want[x] # Unset =>
         LET group == l3groups[routing[x]] IN
         /\ group.mac = want[x].mac
         /\ want[x].owner \in Ports => group.port = want[x].owner
=============================================================================
