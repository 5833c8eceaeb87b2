----------------------------- MODULE SaiL3Proofs -----------------------------
(***************************************************************************)
(* Proofs about SaiL3, for any number of ports, VLANs, neighbours and      *)
(* prefixes: the type invariant, the flows of router interfaces, the       *)
(* groups of next hops and of flows, and where routes lead.                *)
(*                                                                         *)
(* Three inductive invariants are used.  KnownHops is the order of the     *)
(* client's calls.  GroupsInv says that every group an element of an array *)
(* or a flow refers to has its bucket, elements that are not in use        *)
(* included.  HopsInv says what may be left of a next hop in the arrays:   *)
(* an element that has its oid, in use or not, belongs to its owner and    *)
(* has its group, and unless a membership emptied the array the last       *)
(* element with the neighbour's address is one.                            *)
(***************************************************************************)
EXTENDS SaiL3, SequenceTheorems, TLAPS

\* The order in which the client may make its calls.
KnownHops ==
  /\ \A o \in Owners, ip \in Ips : known[<<o, ip>>] # NoMac => rif[o] = "live"
  /\ \A o \in Owners, ip \in Ips : hop[<<o, ip>>] # 0 => known[<<o, ip>>] # NoMac

Slots == 1 .. MaxNeighbors

\* An element of an array has its type, and those in use are in the array.
LEMMA EntryType ==
  ASSUME TypeOK, NEW o \in Owners
  PROVE  /\ num_neighbor[o] \in Nat /\ 1 .. num_neighbor[o] \subseteq Slots
         /\ DOMAIN neighbors[o] = Slots
         /\ \A i \in Slots : /\ neighbors[o][i] \in Entries
                             /\ neighbors[o][i].oid \in Nat /\ neighbors[o][i].gid \in 0 .. MaxHops
<1>1. num_neighbor[o] \in 0 .. MaxNeighbors /\ neighbors[o] \in [Slots -> Entries]
  BY DEF TypeOK, Slots
<1>2. num_neighbor[o] \in Nat /\ 1 .. num_neighbor[o] \subseteq Slots
  BY <1>1, SizesAssumption DEF Slots
<1>3. \A i \in Slots : neighbors[o][i] \in Entries
  BY <1>1
<1>4. \A e \in Entries : e.oid \in Nat /\ e.gid \in 0 .. MaxHops
  BY SizesAssumption DEF Entries, Oids
<1> QED
  BY <1>1, <1>2, <1>3, <1>4

\* A step that changes element k of the array of o at most.
OneSlot(o, k) ==
  /\ neighbors' \in [Owners -> [Slots -> Entries]]
  /\ \A q \in Owners, i \in Slots : (q = o /\ i = k) \/ neighbors'[q][i] = neighbors[q][i]

LEMMA OneSlotEffect ==
  ASSUME TypeOK, NEW o \in Owners, NEW k \in Slots, NEW e \in Entries,
         neighbors' = [neighbors EXCEPT ![o] = [neighbors[o] EXCEPT ![k] = e]]
  PROVE  OneSlot(o, k) /\ neighbors'[o][k] = e
<1>1. neighbors \in [Owners -> [Slots -> Entries]]
  BY DEF TypeOK, Slots
<1>2. [neighbors[o] EXCEPT ![k] = e] \in [Slots -> Entries]
  BY <1>1
<1>3. neighbors' \in [Owners -> [Slots -> Entries]] /\ neighbors'[o] = [neighbors[o] EXCEPT ![k] = e]
      /\ \A q \in Owners \ {o} : neighbors'[q] = neighbors[q]
  BY <1>1, <1>2
<1>4. neighbors'[o][k] = e /\ \A i \in Slots \ {k} : neighbors'[o][i] = neighbors[o][i]
  BY <1>1, <1>3
<1> QED
  BY <1>3, <1>4 DEF OneSlot

\* What CreateNeighbor does: the next element gets the addresses and keeps the rest.
NeighborAdded(o, n, ip, mac) ==
  /\ n = num_neighbor[o] + 1 /\ OneSlot(o, n)
  /\ num_neighbor' = [num_neighbor EXCEPT ![o] = n]
  /\ neighbors'[o][n].ip = ip /\ neighbors'[o][n].mac = mac
  /\ neighbors'[o][n].oid = neighbors[o][n].oid
  /\ neighbors'[o][n].gid = neighbors[o][n].gid

LEMMA NeighborEffect ==
  ASSUME TypeOK, NEW o \in Owners, NEW ip \in Ips, NEW mac \in Macs, CreateNeighbor(o, ip, mac)
  PROVE  /\ rif[o] = "live" /\ known[<<o, ip>>] = NoMac
         /\ known' = [known EXCEPT ![<<o, ip>>] = mac]
         /\ UNCHANGED <<vid, neigh_db, tables, rif, spoilt, hop, dropped, want>>
         /\ \E n \in Slots : NeighborAdded(o, n, ip, mac)
<1> DEFINE n == num_neighbor[o] + 1
<1>1. /\ rif[o] = "live" /\ known[<<o, ip>>] = NoMac /\ n <= MaxNeighbors
      /\ num_neighbor' = [num_neighbor EXCEPT ![o] = n]
      /\ neighbors' = [neighbors EXCEPT ![o][n].ip = ip, ![o][n].mac = mac]
      /\ known' = [known EXCEPT ![<<o, ip>>] = mac]
      /\ UNCHANGED <<vid, neigh_db, tables, rif, spoilt, hop, dropped, want>>
  BY DEF CreateNeighbor
<1>2. n \in Slots
  BY <1>1, EntryType, SizesAssumption DEF Slots
<1> HIDE DEF n
<1>3. neighbors \in [Owners -> [Slots -> Entries]] /\ neighbors[o][n] \in Entries
  BY <1>2, EntryType DEF TypeOK, Slots
<1> DEFINE e == [neighbors[o][n] EXCEPT !.ip = ip, !.mac = mac]
<1>4. neighbors' = [neighbors EXCEPT ![o] = [neighbors[o] EXCEPT ![n] = e]]
  BY <1>1, <1>2, <1>3
<1>5. /\ e \in Entries /\ e.ip = ip /\ e.mac = mac
      /\ e.oid = neighbors[o][n].oid /\ e.gid = neighbors[o][n].gid
  BY <1>3 DEF Entries
<1> HIDE DEF e
<1>6. OneSlot(o, n) /\ neighbors'[o][n] = e
  BY <1>2, <1>4, <1>5, OneSlotEffect
<1> QED
  BY <1>1, <1>2, <1>5, <1>6 DEF n, NeighborAdded

\* What CreateNextHop does: element k of the array of o gets the number g ...
EntryNumbered(o, ip, k, g) ==
  /\ IsNeighborOf(k, o, ip) /\ OneSlot(o, k)
  /\ neighbors'[o][k].ip = neighbors[o][k].ip
  /\ neighbors'[o][k].mac = neighbors[o][k].mac
  /\ neighbors'[o][k].oid = Oid(g)

\* ... and either the group is left without a bucket, and nothing refers to it,
GroupRefused(o, k) ==
  /\ neighbors'[o][k].gid = neighbors[o][k].gid
  /\ l3groups' = Append(l3groups, NoBucket)
  /\ UNCHANGED <<routing, hop, want>>

\* or the element refers to it, and so does the host route unless that is refused.
GroupMade(o, ip, k, g) ==
  /\ neighbors'[o][k].gid = g
  /\ \E p \in Egress(o, neighbors[o][k].mac) :
       l3groups' = Append(l3groups, [filled |-> TRUE, vid |-> vid[p], port |-> p,
                                     mac |-> neighbors[o][k].mac])
  /\ \/ UNCHANGED <<routing, hop, want>>
     \/ /\ routing' = Routed(ip, g)
        /\ hop' = [hop EXCEPT ![<<o, ip>>] = g]
        /\ want' = [want EXCEPT ![ip] = [owner |-> o, mac |-> known[<<o, ip>>]]]

LEMMA NextHopEffect ==
  ASSUME TypeOK, NEW o \in Owners, NEW ip \in Ips, NEW refused \in {"group", "bucket", "flow", "none"},
         CreateNextHop(o, ip, refused)
  PROVE  /\ rif[o] = "live" /\ known[<<o, ip>>] # NoMac /\ hop[<<o, ip>>] = 0
         /\ CleanClient => routing[ip] = NoRoute
         /\ Len(l3groups) + 1 \in Gids
         /\ UNCHANGED <<vid, neigh_db, num_neighbor, rifFlows, rif, spoilt, known, dropped>>
         /\ \E k \in 1 .. num_neighbor[o] :
              /\ EntryNumbered(o, ip, k, Len(l3groups) + 1)
              /\ GroupRefused(o, k) \/ GroupMade(o, ip, k, Len(l3groups) + 1)
<1> DEFINE g == Len(l3groups) + 1
<1>1. /\ rif[o] = "live" /\ known[<<o, ip>>] # NoMac /\ hop[<<o, ip>>] = 0
      /\ CleanClient => routing[ip] = NoRoute
      /\ UNCHANGED <<vid, neigh_db, num_neighbor, rifFlows, rif, spoilt, known, dropped>>
      /\ Len(l3groups) < MaxHops
  BY DEF CreateNextHop, l3_unicast_idx
<1>2. g \in Gids
  <2>1. Len(l3groups) \in Nat
    BY LenProperties DEF TypeOK
  <2> QED
    BY <2>1, <1>1, SizesAssumption DEF Gids
<1> DEFINE Step(k, p) ==
        /\ l3groups' = Append(l3groups,
                             IF refused \in {"group", "bucket"} THEN NoBucket
                             ELSE [filled |-> TRUE, vid |-> vid[p], port |-> p,
                                   mac |-> neighbors[o][k].mac])
        /\ neighbors' = [neighbors EXCEPT ![o][k].oid = Oid(g),
                           ![o][k].gid = IF GroupAdded(refused) THEN g ELSE neighbors[o][k].gid]
        /\ IF GroupAdded(refused) /\ refused # "flow"
             THEN /\ routing' = Routed(ip, g)
                  /\ hop' = [hop EXCEPT ![<<o, ip>>] = g]
                  /\ want' = [want EXCEPT ![ip] = [owner |-> o, mac |-> known[<<o, ip>>]]]
             ELSE UNCHANGED <<routing, hop, want>>
<1>3. PICK k \in 1 .. num_neighbor[o] :
        IsNeighborOf(k, o, ip) /\ \E p \in Egress(o, neighbors[o][k].mac) : Step(k, p)
  BY DEF CreateNextHop, l3_unicast_idx
<1>3b. PICK p \in Egress(o, neighbors[o][k].mac) : Step(k, p)
  BY <1>3
<1> HIDE DEF g
<1>4. /\ neighbors \in [Owners -> [Slots -> Entries]] /\ k \in Slots
      /\ neighbors[o][k] \in Entries /\ neighbors[o][k].gid \in 0 .. MaxHops
  BY EntryType DEF TypeOK, Slots
<1> DEFINE gid == IF GroupAdded(refused) THEN g ELSE neighbors[o][k].gid
<1>5. /\ gid \in 0 .. MaxHops
      /\ neighbors' = [neighbors EXCEPT ![o][k].oid = Oid(g), ![o][k].gid = gid]
  BY <1>2, <1>3b, <1>4 DEF Gids
<1>5b. gid = IF GroupAdded(refused) THEN g ELSE neighbors[o][k].gid
  OBVIOUS
<1> HIDE DEF gid
<1> DEFINE e == [neighbors[o][k] EXCEPT !.oid = Oid(g), !.gid = gid]
<1>6. neighbors' = [neighbors EXCEPT ![o] = [neighbors[o] EXCEPT ![k] = e]]
  BY <1>4, <1>5
<1>7. /\ e \in Entries /\ e.ip = neighbors[o][k].ip /\ e.mac = neighbors[o][k].mac
      /\ e.oid = Oid(g) /\ e.gid = gid
  <2>1. Oid(g) \in Oids
    BY <1>2, SizesAssumption DEF Oid, Oids, Gids
  <2> QED
    BY <2>1, <1>4, <1>5 DEF Entries
<1> HIDE DEF e
<1>8. OneSlot(o, k) /\ neighbors'[o][k] = e
  BY <1>4, <1>6, <1>7, OneSlotEffect
<1>11. EntryNumbered(o, ip, k, g)
  BY <1>3, <1>7, <1>8 DEF EntryNumbered
<1>12. neighbors'[o][k].gid = gid
  BY <1>7, <1>8
<1>13. CASE refused \in {"group", "bucket"}
  <2>1. gid = neighbors[o][k].gid /\ l3groups' = Append(l3groups, NoBucket)
        /\ UNCHANGED <<routing, hop, want>>
    BY <1>3b, <1>5b, <1>13 DEF GroupAdded
  <2> QED
    BY <2>1, <1>1, <1>2, <1>11, <1>12 DEF g, GroupRefused
<1>14. CASE refused \notin {"group", "bucket"}
  <2>1. gid = g /\ l3groups' = Append(l3groups, [filled |-> TRUE, vid |-> vid[p], port |-> p,
                                                 mac |-> neighbors[o][k].mac])
        /\ \/ UNCHANGED <<routing, hop, want>>
           \/ /\ routing' = Routed(ip, g)
              /\ hop' = [hop EXCEPT ![<<o, ip>>] = g]
              /\ want' = [want EXCEPT ![ip] = [owner |-> o, mac |-> known[<<o, ip>>]]]
    BY <1>3b, <1>5b, <1>14 DEF GroupAdded
  <2>2. GroupMade(o, ip, k, g)
    BY <2>1, <1>12 DEF GroupMade
  <2> QED
    BY <2>2, <1>1, <1>2, <1>11 DEF g
<1> QED
  BY <1>13, <1>14

-----------------------------------------------------------------------------
(* Type correctness.                                                       *)

LEMMA InitTyped == Init => TypeOK /\ KnownHops
<1> SUFFICES ASSUME Init PROVE TypeOK /\ KnownHops
  OBVIOUS
<1>1. <<>> \in Seq(Buckets \union {NoBucket}) /\ Len(<<>>) = 0 /\ Blank \in Entries
  BY EmptySeq, SizesAssumption DEF Blank, Entries, Oids
<1>2. TypeOK
  BY <1>1, SizesAssumption DEF Init, TypeOK, Vids
<1>3. KnownHops
  BY NamesAssumption DEF Init, KnownHops
<1> QED
  BY <1>2, <1>3

LEMMA AccessVidTyped ==
  ASSUME TypeOK, NEW o \in Owners
  PROVE  AccessVid(o) \in Vids
BY DEF TypeOK, AccessVid, Owners, Vids

\* The search for a next hop by its oid finds the group of an element in use of a port's
\* array that has this oid, or none if there is no such element.
LEMMA GidOfFound ==
  ASSUME TypeOK, NEW oid
  PROVE  \/ /\ GidOf(oid) = 0
            /\ ~\E p \in Ports : \E i \in 1 .. num_neighbor[p] : neighbors[p][i].oid = oid
         \/ \E p \in Ports : \E i \in 1 .. num_neighbor[p] :
              neighbors[p][i].oid = oid /\ GidOf(oid) = neighbors[p][i].gid
<1> DEFINE found == {e \in Ports \X (1 .. MaxNeighbors) :
                       /\ e[2] <= num_neighbor[e[1]]
                       /\ neighbors[e[1]][e[2]].oid = oid}
<1>1. GidOf(oid) = IF found = {} THEN 0
                   ELSE neighbors[(CHOOSE e \in found : TRUE)[1]][(CHOOSE e \in found : TRUE)[2]].gid
  BY Zenon DEF GidOf
<1>2. \A p \in Ports : num_neighbor[p] \in Nat /\ 1 .. num_neighbor[p] \subseteq Slots
  BY EntryType DEF Owners
<1>3. \A e \in found : /\ e[1] \in Ports /\ e[2] \in 1 .. num_neighbor[e[1]]
                       /\ neighbors[e[1]][e[2]].oid = oid
  BY <1>2, SizesAssumption
<1>4. \A p \in Ports : \A i \in 1 .. num_neighbor[p] :
        neighbors[p][i].oid = oid => <<p, i>> \in found
  BY <1>2 DEF Slots
<1>5. found # {} => (CHOOSE e \in found : TRUE) \in found
  OBVIOUS
<1> HIDE DEF found
<1> QED
  BY <1>1, <1>3, <1>4, <1>5

LEMMA GidOfTyped ==
  ASSUME TypeOK, NEW oid
  PROVE  GidOf(oid) \in 0 .. MaxHops
<1>1. \A p \in Ports : \A i \in 1 .. num_neighbor[p] : neighbors[p][i].gid \in 0 .. MaxHops
  BY EntryType DEF Owners
<1> QED
  BY <1>1, GidOfFound, SizesAssumption

LEMMA TypedStep == TypeOK /\ KnownHops /\ [Next]_vars => TypeOK' /\ KnownHops'
<1> SUFFICES ASSUME TypeOK, KnownHops, [Next]_vars
             PROVE  TypeOK' /\ KnownHops'
  OBVIOUS
<1>1. ASSUME NEW o \in RifOwners, NEW refused \in Kinds \union {"none"},
             CreateRouterInterface(o, refused)
      PROVE  TypeOK' /\ KnownHops'
  <2> o \in Owners /\ AccessVid(o) \in Vids
    BY AccessVidTyped, BoundsAssumption
  <2>1. AddedBefore(o, refused) \subseteq Kinds
    BY DEF AddedBefore, Kinds
  <2>2. TypeOK'
    BY <1>1, <2>1 DEF TypeOK, CreateRouterInterface, arrays
  <2>3. KnownHops'
    BY <1>1 DEF TypeOK, KnownHops, CreateRouterInterface
  <2> QED
    BY <2>2, <2>3
<1>2. ASSUME NEW o \in Owners, RemoveRouterInterface(o)
      PROVE  TypeOK' /\ KnownHops'
  <2>1. TypeOK'
    BY <1>2 DEF TypeOK, RemoveRouterInterface, arrays
  <2>2. KnownHops'
    BY <1>2 DEF TypeOK, KnownHops, RemoveRouterInterface
  <2> QED
    BY <2>1, <2>2
<1>3. ASSUME NEW o \in Owners, NEW ip \in Ips, NEW mac \in Macs, CreateNeighbor(o, ip, mac)
      PROVE  TypeOK' /\ KnownHops'
  <2>1. PICK n \in Slots : NeighborAdded(o, n, ip, mac)
    BY <1>3, NeighborEffect
  <2>2. neighbors' \in [Owners -> [Slots -> Entries]]
    BY <2>1 DEF OneSlot, NeighborAdded
  <2>3. n \in 0 .. MaxNeighbors
    BY SizesAssumption DEF Slots
  <2>4. TypeOK'
    BY <1>3, <2>1, <2>2, <2>3 DEF TypeOK, CreateNeighbor, NeighborAdded, tables, Slots
  <2>5. KnownHops'
    BY <1>3 DEF TypeOK, KnownHops, CreateNeighbor
  <2> QED
    BY <2>4, <2>5
<1>4. ASSUME NEW o \in Owners, NEW ip \in Ips, RemoveNeighbor(o, ip)
      PROVE  TypeOK' /\ KnownHops'
  <2>1. TypeOK'
    BY <1>4 DEF TypeOK, RemoveNeighbor, tables, arrays
  <2>2. KnownHops'
    BY <1>4 DEF TypeOK, KnownHops, RemoveNeighbor
  <2> QED
    BY <2>1, <2>2
<1>5. ASSUME NEW o \in Owners, NEW ip \in Ips, RemoveNextHop(o, ip)
      PROVE  TypeOK' /\ KnownHops'
  <2>1. TypeOK'
    BY <1>5, SizesAssumption DEF TypeOK, RemoveNextHop, tables, arrays
  <2>2. KnownHops'
    BY <1>5 DEF TypeOK, KnownHops, RemoveNextHop
  <2> QED
    BY <2>1, <2>2
<1>6. ASSUME NEW o \in Owners, NEW ip \in Ips, NEW refused \in {"group", "bucket", "flow", "none"},
             CreateNextHop(o, ip, refused)
      PROVE  TypeOK' /\ KnownHops'
  <2> DEFINE g == Len(l3groups) + 1
  <2>1. /\ rif[o] = "live" /\ known[<<o, ip>>] # NoMac /\ g \in Gids
        /\ UNCHANGED <<vid, neigh_db, num_neighbor, rifFlows, rif, spoilt, known, dropped>>
    BY <1>6, NextHopEffect
  <2>2. PICK k \in 1 .. num_neighbor[o] :
          /\ EntryNumbered(o, ip, k, g)
          /\ GroupRefused(o, k) \/ GroupMade(o, ip, k, g)
    BY <1>6, NextHopEffect
  <2> HIDE DEF g
  <2>3. neighbors' \in [Owners -> [Slots -> Entries]] /\ k \in Slots
    BY <2>2, EntryType DEF EntryNumbered, OneSlot
  <2>4. /\ routing' \in [Prefixes -> Gids \union {Cpu, NoRoute}]
        /\ hop' \in [Owners \X Ips -> 0 .. MaxHops]
        /\ want' \in [Prefixes -> [owner : Owners, mac : Macs] \union {Cpu, NoWant, Unset}]
    <3>1. CASE UNCHANGED <<routing, hop, want>>
      BY <3>1 DEF TypeOK
    <3>2. CASE /\ routing' = Routed(ip, g)
               /\ hop' = [hop EXCEPT ![<<o, ip>>] = g]
               /\ want' = [want EXCEPT ![ip] = [owner |-> o, mac |-> known[<<o, ip>>]]]
      <4>1. known[<<o, ip>>] \in Macs /\ g \in 0 .. MaxHops
        BY <2>1, SizesAssumption DEF TypeOK, Gids
      <4> QED
        BY <4>1, <3>2, <2>1 DEF TypeOK, Routed, Prefixes
    <3> QED
      BY <3>1, <3>2, <2>2 DEF GroupRefused, GroupMade
  <2>5. l3groups' \in Seq(Buckets \union {NoBucket}) /\ Len(l3groups') <= MaxHops
    <3>1. PICK b \in Buckets \union {NoBucket} : l3groups' = Append(l3groups, b)
      <4>1. CASE GroupRefused(o, k)
        BY <4>1 DEF GroupRefused
      <4>2. CASE GroupMade(o, ip, k, g)
        <5>1. PICK p \in Egress(o, neighbors[o][k].mac) :
                l3groups' = Append(l3groups, [filled |-> TRUE, vid |-> vid[p], port |-> p,
                                              mac |-> neighbors[o][k].mac])
          BY <4>2 DEF GroupMade
        <5>2. p \in Ports /\ vid[p] \in Vids
          BY DEF Egress, TypeOK
        <5>3. neighbors[o][k].mac \in Macs \union {NoMac}
          BY <2>3, EntryType DEF Entries
        <5>4. [filled |-> TRUE, vid |-> vid[p], port |-> p, mac |-> neighbors[o][k].mac] \in Buckets
          BY <5>2, <5>3, Zenon DEF Buckets
        <5> QED
          BY <5>1, <5>4
      <4> QED
        BY <4>1, <4>2, <2>2
    <3>2. Append(l3groups, b) \in Seq(Buckets \union {NoBucket}) /\ Len(Append(l3groups, b)) = g
      BY AppendProperties DEF TypeOK, g
    <3> QED
      BY <3>1, <3>2, <2>1, SizesAssumption DEF Gids
  <2>6. TypeOK'
    BY <2>1, <2>3, <2>4, <2>5 DEF TypeOK, Slots
  <2>7. KnownHops'
    <3>1. CASE UNCHANGED hop
      BY <3>1, <2>1 DEF KnownHops
    <3>2. CASE hop' = [hop EXCEPT ![<<o, ip>>] = g]
      BY <3>2, <2>1 DEF KnownHops, TypeOK
    <3> QED
      BY <3>1, <3>2, <2>2 DEF GroupRefused, GroupMade
  <2> QED
    BY <2>6, <2>7
<1>7. ASSUME NEW x \in Prefixes, NEW target \in Gids \union {Cpu}, NEW asked,
             asked \in [owner : Owners, mac : Macs] \union {Cpu, Unset}, AddRoute(x, target, asked)
      PROVE  TypeOK' /\ KnownHops'
  <2>1. routing' \in [Prefixes -> Gids \union {Cpu, NoRoute}]
    BY <1>7 DEF TypeOK, AddRoute, Routed
  <2>2. want' \in [Prefixes -> [owner : Owners, mac : Macs] \union {Cpu, NoWant, Unset}]
    BY <1>7 DEF TypeOK, AddRoute
  <2>3. TypeOK'
    BY <1>7, <2>1, <2>2 DEF AddRoute, TypeOK, arrays
  <2>4. KnownHops'
    BY <1>7 DEF AddRoute, KnownHops
  <2> QED
    BY <2>3, <2>4
<1>8. ASSUME NEW x \in Prefixes,
             \/ \E o \in Owners, ip \in Ips : CreateRoute(x, o, ip)
             \/ CreateCpuRoute(x)
             \/ \E packet_in \in BOOLEAN : CreateRouteUnset(x, packet_in)
      PROVE  TypeOK' /\ KnownHops'
  <2>1. \A oid : GidOf(oid) > 0 => GidOf(oid) \in Gids
    BY GidOfTyped, SizesAssumption DEF Gids
  <2>2. ASSUME NEW o \in Owners, NEW ip \in Ips, CreateRoute(x, o, ip)
        PROVE  TypeOK' /\ KnownHops'
    <3>1. known[<<o, ip>>] \in Macs
      BY <2>2 DEF CreateRoute, KnownHops, TypeOK
    <3>2. GidOf(Oid(hop[<<o, ip>>])) \in Gids
      BY <2>1, <2>2 DEF CreateRoute
    <3>3. AddRoute(x, GidOf(Oid(hop[<<o, ip>>])), [owner |-> o, mac |-> known[<<o, ip>>]])
      BY <2>2 DEF CreateRoute
    <3> QED
      BY <3>1, <3>2, <3>3, <1>7
  <2>3. ASSUME NEW packet_in \in BOOLEAN, CreateRouteUnset(x, packet_in)
        PROVE  TypeOK' /\ KnownHops'
    <3>1. PICK oid \in Oids : GidOf(oid) > 0 /\
            AddRoute(x, IF packet_in THEN Cpu ELSE GidOf(oid), IF packet_in THEN Cpu ELSE Unset)
      BY <2>3 DEF CreateRouteUnset
    <3>2. GidOf(oid) \in Gids
      BY <2>1, <3>1
    <3>3. CASE packet_in
      BY <3>1, <3>3, <1>7
    <3>4. CASE ~packet_in
      BY <3>1, <3>2, <3>4, <1>7
    <3> QED
      BY <3>3, <3>4
  <2>4. CASE CreateCpuRoute(x)
    BY <2>4, <1>7 DEF CreateCpuRoute
  <2> QED
    BY <1>8, <2>2, <2>3, <2>4
<1>9. ASSUME NEW x \in Prefixes, RemoveRoute(x)
      PROVE  TypeOK' /\ KnownHops'
  <2>1. TypeOK'
    BY <1>9 DEF RemoveRoute, TypeOK, Unrouted, arrays
  <2>2. KnownHops'
    BY <1>9 DEF RemoveRoute, KnownHops
  <2> QED
    BY <2>1, <2>2
<1>10. ASSUME NEW p \in Ports, NEW mac \in Macs, Learn(p, mac)
       PROVE  TypeOK' /\ KnownHops'
  <2>1. TypeOK'
    BY <1>10 DEF Learn, TypeOK, arrays, tables, client
  <2>2. KnownHops'
    BY <1>10 DEF Learn, KnownHops, client
  <2> QED
    BY <2>1, <2>2
<1>11. ASSUME NEW p \in Movers, NEW v \in Vlans, NEW tagged \in BOOLEAN, CreateMember(p, v, tagged)
       PROVE  TypeOK' /\ KnownHops'
  <2>1. p \in Ports /\ v \in Vids
    BY BoundsAssumption DEF Vids
  <2>2. vid' \in [Ports -> Vids] /\ num_neighbor' \in [Owners -> 0 .. MaxNeighbors]
    <3>1. 0 \in 0 .. MaxNeighbors
      BY SizesAssumption
    <3>2. num_neighbor' = [num_neighbor EXCEPT ![p] = 0] /\ vid' \in {vid, [vid EXCEPT ![p] = v]}
      BY <1>11, Zenon DEF CreateMember
    <3> QED
      BY <2>1, <3>1, <3>2 DEF TypeOK
  <2>3. dropped' \subseteq Owners \X Ips
    <3>1. dropped' = dropped \union {<<p, ip>> : ip \in {i \in Ips : known[<<p, i>>] # NoMac}}
      BY <1>11 DEF CreateMember
    <3>2. \A ip \in {i \in Ips : known[<<p, i>>] # NoMac} : <<p, ip>> \in Owners \X Ips
      BY <2>1 DEF Owners
    <3>3. {<<p, ip>> : ip \in {i \in Ips : known[<<p, i>>] # NoMac}} \subseteq Owners \X Ips
      BY <3>2, Zenon
    <3> QED
      BY <3>1, <3>3 DEF TypeOK
  <2>4. TypeOK'
    BY <1>11, <2>2, <2>3 DEF CreateMember, TypeOK, tables
  <2>5. KnownHops'
    BY <1>11 DEF CreateMember, KnownHops
  <2> QED
    BY <2>4, <2>5
<1>12. ASSUME NEW p \in Movers, RemoveMember(p)
       PROVE  TypeOK' /\ KnownHops'
  <2>1. p \in Ports /\ p + VLAN_OFFSET \in Vids
    BY BoundsAssumption DEF Vids
  <2>2. TypeOK'
    <3>1. /\ vid' = [vid EXCEPT ![p] = p + VLAN_OFFSET]
          /\ UNCHANGED <<neigh_db, neighbors, num_neighbor, rifFlows, l3groups, routing,
                        rif, spoilt, known, hop, dropped, want>>
      BY <1>12 DEF RemoveMember, arrays, tables, client
    <3>2. vid' \in [Ports -> Vids]
      BY <2>1, <3>1 DEF TypeOK
    <3> QED
      BY <3>1, <3>2 DEF TypeOK
  <2>3. KnownHops'
    BY <1>12 DEF RemoveMember, KnownHops, client
  <2> QED
    BY <2>2, <2>3
<1>13. ASSUME NEW v \in Vlans, RecreateVlan(v)
       PROVE  TypeOK' /\ KnownHops'
  <2>1. Blank \in Entries
    BY SizesAssumption DEF Blank, Entries, Oids
  <2>2. TypeOK'
    <3>1. /\ neighbors' = [neighbors EXCEPT ![v] = [i \in 1 .. MaxNeighbors |-> Blank]]
          /\ num_neighbor' = [num_neighbor EXCEPT ![v] = 0]
          /\ UNCHANGED <<vid, neigh_db, rifFlows, l3groups, routing, rif, spoilt, known, hop,
                        dropped, want>>
      BY <1>13 DEF RecreateVlan, tables, client
    <3>2. neighbors' \in [Owners -> [1 .. MaxNeighbors -> Entries]]
      BY <2>1, <3>1 DEF TypeOK
    <3>3. num_neighbor' \in [Owners -> 0 .. MaxNeighbors]
      <4>1. 0 \in 0 .. MaxNeighbors
        BY SizesAssumption
      <4> QED
        BY <3>1, <4>1 DEF TypeOK
    <3> QED
      BY <3>1, <3>2, <3>3 DEF TypeOK
  <2>3. KnownHops'
    BY <1>13 DEF RecreateVlan, KnownHops, client
  <2> QED
    BY <2>2, <2>3
<1>14. CASE UNCHANGED vars
  <2>1. TypeOK'
    BY <1>14 DEF vars, TypeOK, arrays, tables, client
  <2>2. KnownHops'
    BY <1>14 DEF vars, KnownHops, client
  <2> QED
    BY <2>1, <2>2
<1>15. Learners \subseteq Ports /\ NeighborOwners \subseteq Owners
  BY BoundsAssumption
<1> QED
  BY <1>1, <1>2, <1>3, <1>4, <1>5, <1>6, <1>8, <1>9, <1>10, <1>11, <1>12, <1>13, <1>14, <1>15 DEF Next

\* Every variable has its type at all times, whatever the sizes.
THEOREM TypeCorrect == Spec => []TypeOK
<1>1. Spec => [](TypeOK /\ KnownHops)
  BY InitTyped, TypedStep, PTL DEF Spec
<1> QED
  BY <1>1, PTL

-----------------------------------------------------------------------------
(* The flows of the router interfaces.  The property is inductive: the     *)
(* client's failed calls are in spoilt, and a port that moves is not live. *)

LEMMA FlowsStep == TypeOK /\ RouterFlowsExact /\ [Next]_vars => RouterFlowsExact'
<1> SUFFICES ASSUME TypeOK, RouterFlowsExact, [Next]_vars
             PROVE  RouterFlowsExact'
  OBVIOUS
<1>1. ASSUME UNCHANGED <<vid, rifFlows, rif, spoilt>>
      PROVE  RouterFlowsExact'
  BY <1>1 DEF RouterFlowsExact, RifKeys, AccessVid
<1>2. ASSUME NEW o \in RifOwners, NEW refused \in Kinds \union {"none"},
             CreateRouterInterface(o, refused)
      PROVE  RouterFlowsExact'
  <2>1. o \in Owners /\ rif[o] # "live" /\ \A q \in Owners : RifKeys(q)' = RifKeys(q)
    BY <1>2, BoundsAssumption DEF CreateRouterInterface, RifKeys, AccessVid
  <2>2. \A q \in Owners \ {o} :
          /\ rif'[q] = rif[q] /\ (q \in spoilt' <=> q \in spoilt)
          /\ {f \in rifFlows' : f[3] = q} = {f \in rifFlows : f[3] = q}
    BY <1>2, <2>1 DEF CreateRouterInterface, TypeOK
  <2>3. CASE refused = "none"
    <3>1. rifFlows' = rifFlows \union RifKeys(o) /\ rif'[o] = "live" /\ spoilt' = spoilt
      BY <1>2, <2>1, <2>3 DEF CreateRouterInterface, AddedBefore, RifKeys, TypeOK, Kinds
    <3>2. o \notin spoilt => {f \in rifFlows' : f[3] = o} = RifKeys(o)
      BY <2>1, <3>1 DEF RouterFlowsExact, RifKeys
    <3> SUFFICES ASSUME NEW q \in Owners
                 PROVE  /\ rif'[q] = "live" => RifKeys(q)' \subseteq rifFlows'
                        /\ q \notin spoilt' => {f \in rifFlows' : f[3] = q}
                                               = IF rif'[q] = "live" THEN RifKeys(q)' ELSE {}
      BY Zenon DEF RouterFlowsExact
    <3>3. CASE q = o
      BY <2>1, <3>1, <3>2, <3>3
    <3>4. CASE q # o
      <4>1. rif[q] = "live" => RifKeys(q) \subseteq rifFlows
        BY DEF RouterFlowsExact
      <4>2. q \notin spoilt => {f \in rifFlows : f[3] = q} = IF rif[q] = "live" THEN RifKeys(q) ELSE {}
        BY DEF RouterFlowsExact
      <4> QED
        BY <2>1, <2>2, <3>1, <3>4, <4>1, <4>2
    <3> QED
      BY <3>3, <3>4
  <2>4. CASE refused # "none"
    <3>1. rif'[o] = "broken" /\ o \in spoilt' /\ rifFlows \subseteq rifFlows'
      BY <1>2, <2>1, <2>4 DEF CreateRouterInterface, TypeOK
    <3> SUFFICES ASSUME NEW q \in Owners
                 PROVE  /\ rif'[q] = "live" => RifKeys(q)' \subseteq rifFlows'
                        /\ q \notin spoilt' => {f \in rifFlows' : f[3] = q}
                                               = IF rif'[q] = "live" THEN RifKeys(q)' ELSE {}
      BY Zenon DEF RouterFlowsExact
    <3>3. CASE q = o
      BY <3>1, <3>3
    <3>4. CASE q # o
      <4>1. rif[q] = "live" => RifKeys(q) \subseteq rifFlows
        BY DEF RouterFlowsExact
      <4>2. q \notin spoilt => {f \in rifFlows : f[3] = q} = IF rif[q] = "live" THEN RifKeys(q) ELSE {}
        BY DEF RouterFlowsExact
      <4> QED
        BY <2>1, <2>2, <3>1, <3>4, <4>1, <4>2
    <3> QED
      BY <3>3, <3>4
  <2> QED
    BY <2>3, <2>4
<1>3. ASSUME NEW o \in Owners, RemoveRouterInterface(o)
      PROVE  RouterFlowsExact'
  <2>1. rif[o] = "live" /\ RifKeys(o) \subseteq rifFlows /\ \A q \in Owners : RifKeys(q)' = RifKeys(q)
    BY <1>3 DEF RemoveRouterInterface, RouterFlowsExact, RifKeys, AccessVid
  <2>2. rifFlows' = rifFlows \ RifKeys(o) /\ rif' = [rif EXCEPT ![o] = "none"] /\ spoilt' = spoilt
    <3>1. {k \in Kinds : <<k, AccessVid(o), o>> \notin rifFlows} = {}
      BY <2>1 DEF RifKeys
    <3>2. DeletedBefore({}) = Kinds
      BY DEF DeletedBefore
    <3> QED
      BY <1>3, <3>1, <3>2 DEF RemoveRouterInterface, RifKeys
  <2>3. \A q \in Owners \ {o} :
          /\ rif'[q] = rif[q]
          /\ {f \in rifFlows' : f[3] = q} = {f \in rifFlows : f[3] = q}
          /\ RifKeys(q) \subseteq rifFlows => RifKeys(q) \subseteq rifFlows'
    BY <2>2 DEF RifKeys, TypeOK
  <2>4. rif'[o] = "none" /\ (o \notin spoilt => {f \in rifFlows' : f[3] = o} = {})
    BY <2>1, <2>2 DEF RouterFlowsExact, TypeOK
  <2> QED
    BY <2>1, <2>2, <2>3, <2>4 DEF RouterFlowsExact
<1>4. ASSUME NEW p \in Movers,
             \/ \E v \in Vlans, tagged \in BOOLEAN : CreateMember(p, v, tagged)
             \/ RemoveMember(p)
      PROVE  RouterFlowsExact'
  <2>1. UNCHANGED <<rifFlows, rif, spoilt>>
    BY <1>4 DEF CreateMember, RemoveMember, tables, client
  <2>2. \A q \in Ports : rif[q] = "live" => vid'[q] = vid[q]
    BY <1>4, BoundsAssumption DEF CreateMember, RemoveMember, TypeOK
  <2>3. \A q \in Owners : rif[q] = "live" => RifKeys(q)' = RifKeys(q)
    BY <2>2 DEF RifKeys, AccessVid
  <2> QED
    BY <2>1, <2>3 DEF RouterFlowsExact
<1>5. \/ UNCHANGED <<vid, rifFlows, rif, spoilt>>
      \/ \E o \in RifOwners, refused \in Kinds \union {"none"} : CreateRouterInterface(o, refused)
      \/ \E o \in Owners : RemoveRouterInterface(o)
      \/ \E p \in Movers : \/ \E v \in Vlans, tagged \in BOOLEAN : CreateMember(p, v, tagged)
                          \/ RemoveMember(p)
  <2>1. ASSUME NEW o \in Owners, NEW ip \in Ips, NEW mac \in Macs,
               CreateNeighbor(o, ip, mac)
        PROVE  UNCHANGED <<vid, rifFlows, rif, spoilt>>
    BY <2>1 DEF CreateNeighbor, tables
  <2>2. ASSUME NEW o \in Owners, NEW ip \in Ips, RemoveNeighbor(o, ip) \/ RemoveNextHop(o, ip)
        PROVE  UNCHANGED <<vid, rifFlows, rif, spoilt>>
    BY <2>2 DEF RemoveNeighbor, RemoveNextHop, tables
  <2>3. ASSUME NEW o \in Owners, NEW ip \in Ips, NEW refused \in {"group", "bucket", "flow", "none"},
               CreateNextHop(o, ip, refused)
        PROVE  UNCHANGED <<vid, rifFlows, rif, spoilt>>
    BY <2>3 DEF CreateNextHop
  <2>4. ASSUME NEW x \in Prefixes,
               \/ \E o \in Owners, ip \in Ips : CreateRoute(x, o, ip)
               \/ \E packet_in \in BOOLEAN : CreateRouteUnset(x, packet_in)
               \/ CreateCpuRoute(x) \/ RemoveRoute(x)
        PROVE  UNCHANGED <<vid, rifFlows, rif, spoilt>>
    BY <2>4, Zenon DEF CreateRoute, CreateRouteUnset, CreateCpuRoute, AddRoute, RemoveRoute
  <2>5. ASSUME NEW p \in Ports, NEW mac \in Macs, Learn(p, mac)
        PROVE  UNCHANGED <<vid, rifFlows, rif, spoilt>>
    BY <2>5 DEF Learn, tables, client
  <2>6. ASSUME NEW v \in Vlans, RecreateVlan(v)
        PROVE  UNCHANGED <<vid, rifFlows, rif, spoilt>>
    BY <2>6 DEF RecreateVlan, tables, client
  <2>7. CASE UNCHANGED vars
    BY <2>7 DEF vars, tables, client
  <2>8. Learners \subseteq Ports /\ NeighborOwners \subseteq Owners
    BY BoundsAssumption
  <2> QED
    BY <2>1, <2>2, <2>3, <2>4, <2>5, <2>6, <2>7, <2>8 DEF Next
<1> QED
  BY <1>1, <1>2, <1>3, <1>4, <1>5

\* The flows of a router interface in use are all there, and where no call failed no
\* others are, also after removals, and whatever the port's VLAN was in between.
THEOREM RouterFlowsAlwaysExact == Spec => []RouterFlowsExact
<1>1. Init => RouterFlowsExact
  BY DEF Init, RouterFlowsExact
<1>2. Spec => [](TypeOK /\ KnownHops /\ RouterFlowsExact)
  BY <1>1, InitTyped, TypedStep, FlowsStep, PTL DEF Spec
<1> QED
  BY <1>2, PTL

-----------------------------------------------------------------------------
(* Groups have buckets.  The invariant covers elements that are not in use *)
(* too, because an element that is used again keeps its gid.               *)

GidsFilled ==
  \A o \in Owners, i \in Slots : neighbors[o][i].gid # 0 =>
    neighbors[o][i].gid <= Len(l3groups) /\ l3groups[neighbors[o][i].gid].filled

FlowsRight ==
  \A x \in Prefixes : routing[x] \in Gids =>
    routing[x] <= Len(l3groups) /\ l3groups[routing[x]].filled

GroupsInv == GidsFilled /\ FlowsRight

LEMMA GroupsStep == TypeOK /\ GroupsInv /\ [Next]_vars => GroupsInv'
<1> SUFFICES ASSUME TypeOK, GroupsInv, [Next]_vars
             PROVE  GroupsInv'
  OBVIOUS
<1> USE DEF GroupsInv
<1>1. ASSUME UNCHANGED l3groups,
             \A q \in Owners, i \in Slots : neighbors'[q][i].gid \in {0, neighbors[q][i].gid}
      PROVE  GidsFilled'
  BY <1>1, Zenon DEF GidsFilled
<1>2. ASSUME UNCHANGED <<l3groups, neighbors>>
      PROVE  GidsFilled'
  BY <1>2, Zenon DEF GidsFilled
<1>3. ASSUME UNCHANGED <<l3groups, routing>>
      PROVE  FlowsRight'
  BY <1>3, Zenon DEF FlowsRight
<1>4. ASSUME NEW o \in Owners, NEW ip \in Ips, NEW mac \in Macs, CreateNeighbor(o, ip, mac)
      PROVE  GroupsInv'
  <2>1. PICK n \in Slots : NeighborAdded(o, n, ip, mac)
    BY <1>4, NeighborEffect
  <2>2. UNCHANGED <<l3groups, routing>>
    BY <1>4 DEF CreateNeighbor, tables
  <2>3. \A q \in Owners, i \in Slots : neighbors'[q][i].gid \in {0, neighbors[q][i].gid}
    BY <2>1 DEF NeighborAdded, OneSlot
  <2> QED
    BY <1>1, <1>3, <2>2, <2>3
<1>5. ASSUME NEW v \in Vlans, RecreateVlan(v)
      PROVE  GroupsInv'
  <2>1. /\ neighbors' = [neighbors EXCEPT ![v] = [i \in 1 .. MaxNeighbors |-> Blank]]
        /\ UNCHANGED <<l3groups, routing>>
    BY <1>5 DEF RecreateVlan, tables
  <2>2. \A q \in Owners, i \in Slots : neighbors'[q][i].gid \in {0, neighbors[q][i].gid}
    <3> SUFFICES ASSUME NEW q \in Owners, NEW i \in Slots
                 PROVE  neighbors'[q][i].gid \in {0, neighbors[q][i].gid}
      OBVIOUS
    <3>1. Blank.gid = 0
      BY DEF Blank
    <3>2. CASE q = v
      BY <2>1, <3>1, <3>2 DEF TypeOK, Slots
    <3>3. CASE q # v
      BY <2>1, <3>3 DEF TypeOK
    <3> QED
      BY <3>2, <3>3
  <2> QED
    BY <1>1, <1>3, <2>1, <2>2
\* A flow that is added leads to the CPU or to the group of an element.
<1>6. ASSUME NEW x \in Prefixes, NEW target, NEW asked, AddRoute(x, target, asked),
             target = Cpu \/ \E oid : target = GidOf(oid) /\ GidOf(oid) > 0
      PROVE  GroupsInv'
  <2>1. /\ UNCHANGED <<neighbors, l3groups>>
        /\ routing' = Routed(x, target)
    BY <1>6 DEF AddRoute, arrays
  <2>2. \A y \in Prefixes : routing'[y] = routing[y] \/ routing'[y] = target
    BY <2>1 DEF Routed, TypeOK
  <2>3. target = Cpu \/ (target <= Len(l3groups) /\ l3groups[target].filled)
    <3> SUFFICES ASSUME NEW oid, target = GidOf(oid), GidOf(oid) > 0
                 PROVE  target <= Len(l3groups) /\ l3groups[target].filled
      BY <1>6
    <3>1. PICK p \in Ports : \E i \in 1 .. num_neighbor[p] : GidOf(oid) = neighbors[p][i].gid
      BY GidOfFound
    <3>2. PICK i \in 1 .. num_neighbor[p] : GidOf(oid) = neighbors[p][i].gid
      BY <3>1
    <3>3. p \in Owners /\ i \in Slots /\ target = neighbors[p][i].gid /\ target # 0
      BY <3>2, EntryType DEF Owners
    <3> QED
      BY <3>3, Zenon DEF GidsFilled
  <2>4. FlowsRight'
    <3> SUFFICES ASSUME NEW y \in Prefixes, routing'[y] \in Gids
                 PROVE  routing'[y] <= Len(l3groups) /\ l3groups[routing'[y]].filled
      BY <2>1, Zenon DEF FlowsRight
    <3>1. CASE routing'[y] = routing[y]
      BY <3>1, Zenon DEF FlowsRight
    <3>2. CASE routing'[y] = target
      <4>1. target # Cpu
        BY <3>2, NamesAssumption
      <4> QED
        BY <3>2, <4>1, <2>3, Zenon
    <3> QED
      BY <3>1, <3>2, <2>2
  <2> QED
    BY <1>2, <2>1, <2>4
<1>7. ASSUME NEW x \in Prefixes,
             \/ \E o \in Owners, ip \in Ips : CreateRoute(x, o, ip)
             \/ CreateCpuRoute(x)
             \/ \E packet_in \in BOOLEAN : CreateRouteUnset(x, packet_in)
      PROVE  GroupsInv'
  <2>1. ASSUME NEW o \in Owners, NEW ip \in Ips, CreateRoute(x, o, ip)
        PROVE  GroupsInv'
    BY <2>1, <1>6 DEF CreateRoute
  <2>2. ASSUME NEW packet_in \in BOOLEAN, CreateRouteUnset(x, packet_in)
        PROVE  GroupsInv'
    <3>1. PICK oid \in Oids : GidOf(oid) > 0 /\
            AddRoute(x, IF packet_in THEN Cpu ELSE GidOf(oid), IF packet_in THEN Cpu ELSE Unset)
      BY <2>2 DEF CreateRouteUnset
    <3>2. CASE packet_in
      BY <3>1, <3>2, <1>6
    <3>3. CASE ~packet_in
      BY <3>1, <3>3, <1>6
    <3> QED
      BY <3>2, <3>3
  <2>3. CASE CreateCpuRoute(x)
    BY <2>3, <1>6 DEF CreateCpuRoute
  <2> QED
    BY <1>7, <2>1, <2>2, <2>3
<1>8. ASSUME NEW x \in Prefixes, RemoveRoute(x)
      PROVE  GroupsInv'
  <2>1. UNCHANGED <<neighbors, l3groups>> /\ routing' = Unrouted(x)
    BY <1>8 DEF RemoveRoute, arrays
  <2>2. \A y \in Prefixes : routing'[y] \in Gids => routing'[y] = routing[y]
    BY <2>1, NamesAssumption DEF Unrouted, TypeOK
  <2>3. FlowsRight'
    BY <2>1, <2>2, Zenon DEF FlowsRight
  <2> QED
    BY <1>2, <2>1, <2>3
<1>9. ASSUME NEW o \in Owners, NEW ip \in Ips, NEW refused \in {"group", "bucket", "flow", "none"},
             CreateNextHop(o, ip, refused)
      PROVE  GroupsInv'
  <2> DEFINE g == Len(l3groups) + 1
  <2>1. PICK k \in 1 .. num_neighbor[o] :
          /\ EntryNumbered(o, ip, k, g)
          /\ GroupRefused(o, k) \/ GroupMade(o, ip, k, g)
    BY <1>9, NextHopEffect
  <2>2. Len(l3groups) \in Nat /\ l3groups \in Seq(Buckets \union {NoBucket})
    BY LenProperties DEF TypeOK
  <2>3. PICK b : l3groups' = Append(l3groups, b)
    BY <2>1 DEF GroupRefused, GroupMade
  <2>4. Len(l3groups') = g /\ \A i \in 1 .. Len(l3groups) : l3groups'[i] = l3groups[i]
    BY <2>2, <2>3
  <2>5. GroupMade(o, ip, k, g) => l3groups'[g].filled
    <3> SUFFICES ASSUME GroupMade(o, ip, k, g) PROVE l3groups'[g].filled
      OBVIOUS
    <3>1. PICK p \in Egress(o, neighbors[o][k].mac) :
            l3groups' = Append(l3groups, [filled |-> TRUE, vid |-> vid[p], port |-> p,
                                          mac |-> neighbors[o][k].mac])
      BY DEF GroupMade
    <3> DEFINE c == [filled |-> TRUE, vid |-> vid[p], port |-> p, mac |-> neighbors[o][k].mac]
    <3>2. c.filled = TRUE
      OBVIOUS
    <3> HIDE DEF c
    <3>3. l3groups' = Append(l3groups, c)
      BY <3>1 DEF c
    <3>4. l3groups'[g] = c
      BY <3>3, <2>2
    <3> QED
      BY <3>2, <3>4, Zenon
  \* What was right stays right.
  <2>6. ASSUME NEW n \in Nat, n # 0, n <= Len(l3groups), l3groups[n].filled
        PROVE  n <= Len(l3groups') /\ l3groups'[n].filled
    <3>1. n \in 1 .. Len(l3groups) /\ n <= g
      BY <2>6, <2>2
    <3> QED
      BY <2>6, <3>1, <2>4
  <2>7. g <= g
    BY <2>2
  <2> HIDE DEF g
  <2>8. GidsFilled'
    <3> SUFFICES ASSUME NEW q \in Owners, NEW i \in Slots, neighbors'[q][i].gid # 0
                 PROVE  neighbors'[q][i].gid <= Len(l3groups') /\ l3groups'[neighbors'[q][i].gid].filled
      BY Zenon DEF GidsFilled
    <3>1. CASE neighbors'[q][i].gid = neighbors[q][i].gid
      <4>1. neighbors[q][i].gid \in Nat /\ neighbors[q][i].gid # 0
        BY <3>1, EntryType, SizesAssumption
      <4>2. neighbors[q][i].gid <= Len(l3groups) /\ l3groups[neighbors[q][i].gid].filled
        BY <4>1, Zenon DEF GidsFilled
      <4> QED
        BY <3>1, <4>1, <4>2, <2>6
    <3>2. CASE neighbors'[q][i].gid # neighbors[q][i].gid
      <4>1. q = o /\ i = k /\ GroupMade(o, ip, k, g)
        BY <3>2, <2>1 DEF EntryNumbered, OneSlot, GroupRefused
      <4>2. neighbors'[q][i].gid = g
        BY <4>1 DEF GroupMade
      <4> QED
        BY <4>1, <4>2, <2>4, <2>5, <2>7, Zenon
    <3> QED
      BY <3>1, <3>2
  <2>9. FlowsRight'
    <3> SUFFICES ASSUME NEW y \in Prefixes, routing'[y] \in Gids
                 PROVE  routing'[y] <= Len(l3groups') /\ l3groups'[routing'[y]].filled
      BY Zenon DEF FlowsRight
    <3>1. CASE routing'[y] = routing[y]
      <4>1. routing[y] \in Nat /\ routing[y] # 0
        BY <3>1, SizesAssumption DEF Gids
      <4>2. routing[y] <= Len(l3groups) /\ l3groups[routing[y]].filled
        BY <3>1, Zenon DEF FlowsRight
      <4> QED
        BY <3>1, <4>1, <4>2, <2>6
    <3>2. CASE routing'[y] # routing[y]
      <4>1. GroupMade(o, ip, k, g) /\ routing' = Routed(ip, g)
        BY <3>2, <2>1 DEF GroupRefused, GroupMade
      <4>2. routing'[y] = g
        BY <4>1, <3>2 DEF Routed, TypeOK
      <4> QED
        BY <4>1, <4>2, <2>4, <2>5, <2>7, Zenon
    <3> QED
      BY <3>1, <3>2
  <2> QED
    BY <2>8, <2>9
<1>10. ASSUME NEW o \in RifOwners, NEW refused \in Kinds \union {"none"},
              CreateRouterInterface(o, refused)
       PROVE  GroupsInv'
  BY <1>10, <1>2, <1>3 DEF CreateRouterInterface, arrays
<1>11. ASSUME NEW o \in Owners, RemoveRouterInterface(o)
       PROVE  GroupsInv'
  BY <1>11, <1>2, <1>3 DEF RemoveRouterInterface, arrays
<1>12. ASSUME NEW o \in Owners, NEW ip \in Ips, RemoveNeighbor(o, ip) \/ RemoveNextHop(o, ip)
       PROVE  GroupsInv'
  BY <1>12, <1>2, <1>3 DEF RemoveNeighbor, RemoveNextHop, tables, arrays
<1>13. ASSUME NEW p \in Movers,
              \/ \E v \in Vlans, tagged \in BOOLEAN : CreateMember(p, v, tagged)
              \/ RemoveMember(p)
       PROVE  GroupsInv'
  BY <1>13, <1>2, <1>3 DEF CreateMember, RemoveMember, tables, arrays
<1>14. ASSUME NEW p \in Learners, NEW mac \in Macs, Learn(p, mac)
       PROVE  GroupsInv'
  BY <1>14, <1>2, <1>3 DEF Learn, tables, arrays
<1>15. CASE UNCHANGED vars
  BY <1>15, <1>2, <1>3 DEF vars, tables, arrays
<1>16. NeighborOwners \subseteq Owners
  BY BoundsAssumption
<1> HIDE DEF GroupsInv
<1> QED
  BY <1>4, <1>5, <1>7, <1>8, <1>9, <1>10, <1>11, <1>12, <1>13, <1>14, <1>15, <1>16 DEF Next

LEMMA GroupsAlwaysRight == Spec => []GroupsInv
<1>1. Init => GroupsInv
  <2> SUFFICES ASSUME Init PROVE GroupsInv
    OBVIOUS
  <2>1. \A o \in Owners, i \in Slots : neighbors[o][i].gid = 0
    BY DEF Init, Slots, Blank
  <2>2. \A x \in Prefixes : routing[x] \notin Gids
    BY NamesAssumption DEF Init
  <2> QED
    BY <2>1, <2>2 DEF GroupsInv, GidsFilled, FlowsRight
<1>2. Spec => [](TypeOK /\ KnownHops /\ GroupsInv)
  BY <1>1, InitTyped, TypedStep, GroupsStep, PTL DEF Spec
<1> QED
  BY <1>2, PTL

\* No routing flow ever refers to a group without a bucket, although elements are used
\* again with old gids in them, and a route may be asked for without a next hop.
THEOREM FlowsAlwaysHaveBuckets == Spec => []FlowsHaveBuckets
<1>1. GroupsInv => FlowsHaveBuckets
  BY Zenon DEF GroupsInv, FlowsRight, FlowsHaveBuckets
<1> QED
  BY <1>1, GroupsAlwaysRight, PTL

-----------------------------------------------------------------------------
(* Next hops.  A route finds the group of a hop by the hop's oid, which may *)
(* be in an element that is no longer in use, or is in use again for        *)
(* another neighbour.                                                       *)

\* The group h leads to a neighbour of o with the address mac, given the groups and what
\* was learned.
HopRight(o, mac, h, groups, learned) ==
  /\ h <= Len(groups) /\ groups[h].filled /\ groups[h].mac = mac
  /\ IF o \in Ports THEN groups[h].port = o
     ELSE groups[h].port \in Ports /\ mac \in learned[groups[h].port]

HopsRight ==
  \A o \in Owners, ip \in Ips : hop[<<o, ip>>] # 0 =>
    HopRight(o, known[<<o, ip>>], hop[<<o, ip>>], l3groups, neigh_db)

HopsUnshared ==
  \A o, q \in Owners, ip, a \in Ips :
    hop[<<o, ip>>] # 0 /\ hop[<<q, a>>] = hop[<<o, ip>>] => q = o /\ a = ip

\* No element, in use or not, has an oid that is still to be given.
OidsNumbered ==
  \A o \in Owners, i \in Slots : neighbors[o][i].oid <= Oid(Len(l3groups))

\* An element, in use or not, that has the oid of a hop is its owner's and has its group.
OidsOwned ==
  \A o, q \in Owners, ip \in Ips, i \in Slots :
    hop[<<o, ip>>] # 0 /\ neighbors[q][i].oid = Oid(hop[<<o, ip>>])
      => q = o /\ neighbors[q][i].gid = hop[<<o, ip>>]

\* Unless a membership emptied the array, the neighbour's element has the oid of its hop.
HopsInUse ==
  \A o \in Owners, ip \in Ips : hop[<<o, ip>>] # 0 /\ <<o, ip>> \notin dropped =>
    \E k \in 1 .. num_neighbor[o] :
      IsNeighborOf(k, o, ip) /\ neighbors[o][k].oid = Oid(hop[<<o, ip>>])

\* The element that is found for a neighbour has the address that the client gave.
NeighborsAsTold ==
  \A o \in Owners, ip \in Ips : \A k \in 1 .. num_neighbor[o] :
    known[<<o, ip>>] # NoMac /\ IsNeighborOf(k, o, ip) => neighbors[o][k].mac = known[<<o, ip>>]

HopsInv ==
  HopsRight /\ HopsUnshared /\ OidsNumbered /\ OidsOwned /\ HopsInUse /\ NeighborsAsTold

\* A hop that the client has no longer is no obstacle: it may give up hops and what it
\* knows of neighbours without hops, and addresses may be learned.
LEMMA HopsFewer ==
  ASSUME TypeOK, HopsInv,
         UNCHANGED <<arrays, l3groups>>,
         \A p \in Ports : neigh_db[p] \subseteq neigh_db'[p],
         \A o \in Owners, ip \in Ips :
           /\ hop'[<<o, ip>>] # 0 => /\ hop'[<<o, ip>>] = hop[<<o, ip>>]
                                    /\ known'[<<o, ip>>] = known[<<o, ip>>]
                                    /\ (<<o, ip>> \in dropped => <<o, ip>> \in dropped')
           /\ known'[<<o, ip>>] # NoMac => known'[<<o, ip>>] = known[<<o, ip>>]
  PROVE  HopsInv'
<1>1. UNCHANGED <<neighbors, num_neighbor>>
  BY DEF arrays
<1>2. \A o \in Owners, ip \in Ips : \A k : IsNeighborOf(k, o, ip)' <=> IsNeighborOf(k, o, ip)
  BY <1>1 DEF IsNeighborOf, EntriesOf
<1>3. HopsRight'
  <2> SUFFICES ASSUME NEW o \in Owners, NEW ip \in Ips, hop'[<<o, ip>>] # 0
               PROVE  HopRight(o, known'[<<o, ip>>], hop'[<<o, ip>>], l3groups', neigh_db')
    BY Zenon DEF HopsRight
  <2>1. known'[<<o, ip>>] = known[<<o, ip>>] /\ hop'[<<o, ip>>] = hop[<<o, ip>>]
    OBVIOUS
  <2>2. HopRight(o, known[<<o, ip>>], hop[<<o, ip>>], l3groups, neigh_db)
    BY <2>1, Zenon DEF HopsInv, HopsRight
  <2>3. HopRight(o, known[<<o, ip>>], hop[<<o, ip>>], l3groups, neigh_db')
    BY <2>2, Zenon DEF HopRight
  <2> QED
    BY <2>1, <2>3
<1>4. HopsUnshared' /\ OidsNumbered' /\ OidsOwned'
  <2>1. HopsUnshared'
    BY DEF HopsInv, HopsUnshared
  <2>2. OidsNumbered'
    BY <1>1, Zenon DEF HopsInv, OidsNumbered, Oid
  <2>3. OidsOwned'
    BY <1>1 DEF HopsInv, OidsOwned
  <2> QED
    BY <2>1, <2>2, <2>3
<1>5. HopsInUse' /\ NeighborsAsTold'
  <2>1. HopsInUse'
    BY <1>1, <1>2 DEF HopsInv, HopsInUse
  <2>2. NeighborsAsTold'
    BY <1>1, <1>2 DEF HopsInv, NeighborsAsTold
  <2> QED
    BY <2>1, <2>2
<1> QED
  BY <1>3, <1>4, <1>5, Zenon DEF HopsInv

\* An element more for another neighbour.
LEMMA HopsKeptByNeighbor ==
  ASSUME TypeOK, KnownHops, HopsInv,
         NEW o \in Owners, NEW ip \in Ips, NEW mac \in Macs, CreateNeighbor(o, ip, mac)
  PROVE  HopsInv'
<1>1. /\ rif[o] = "live" /\ known[<<o, ip>>] = NoMac
      /\ known' = [known EXCEPT ![<<o, ip>>] = mac]
      /\ UNCHANGED <<neigh_db, l3groups, hop, dropped>>
  BY NeighborEffect DEF tables
<1>2. PICK n \in Slots : NeighborAdded(o, n, ip, mac)
  BY NeighborEffect
<1>3. /\ n = num_neighbor[o] + 1 /\ num_neighbor[o] \in Nat /\ n \notin 1 .. num_neighbor[o]
      /\ num_neighbor'[o] = n /\ 1 .. n = (1 .. num_neighbor[o]) \union {n}
      /\ \A q \in Owners \ {o} : num_neighbor'[q] = num_neighbor[q]
  <2>1. num_neighbor[o] \in Nat /\ num_neighbor \in [Owners -> 0 .. MaxNeighbors]
    BY EntryType DEF TypeOK
  <2> QED
    BY <1>2, <2>1 DEF NeighborAdded
<1>4. /\ neighbors'[o][n].ip = ip /\ neighbors'[o][n].mac = mac
      /\ neighbors'[o][n].oid = neighbors[o][n].oid /\ neighbors'[o][n].gid = neighbors[o][n].gid
      /\ \A q \in Owners, i \in Slots : (q = o /\ i = n) \/ neighbors'[q][i] = neighbors[q][i]
  BY <1>2 DEF NeighborAdded, OneSlot
<1>5. \A q \in Owners, i \in Slots : /\ neighbors'[q][i].oid = neighbors[q][i].oid
                                    /\ neighbors'[q][i].gid = neighbors[q][i].gid
  BY <1>4
<1>6. hop[<<o, ip>>] = 0
  BY <1>1 DEF KnownHops
<1>7. \A q \in Owners, a \in Ips : hop[<<q, a>>] # 0 => known'[<<q, a>>] = known[<<q, a>>]
  BY <1>1, <1>6 DEF TypeOK
<1>8. HopsRight'
  <2> SUFFICES ASSUME NEW q \in Owners, NEW a \in Ips, hop'[<<q, a>>] # 0
               PROVE  HopRight(q, known'[<<q, a>>], hop'[<<q, a>>], l3groups', neigh_db')
    BY Zenon DEF HopsRight
  <2>1. hop[<<q, a>>] # 0 /\ known'[<<q, a>>] = known[<<q, a>>]
    BY <1>1, <1>7
  <2>2. HopRight(q, known[<<q, a>>], hop[<<q, a>>], l3groups, neigh_db)
    BY <2>1, Zenon DEF HopsInv, HopsRight
  <2> QED
    BY <1>1, <2>1, <2>2
<1>9. HopsUnshared' /\ OidsNumbered' /\ OidsOwned'
  <2>1. HopsUnshared'
    BY <1>1 DEF HopsInv, HopsUnshared
  <2>2. OidsNumbered'
    BY <1>1, <1>5 DEF HopsInv, OidsNumbered, Oid
  <2>3. OidsOwned'
    BY <1>1, <1>5 DEF HopsInv, OidsOwned
  <2> QED
    BY <2>1, <2>2, <2>3
\* Searches for other neighbours end where they did.
<1>10. ASSUME NEW q \in Owners, NEW a \in Ips, ~(q = o /\ a = ip)
       PROVE  EntriesOf(q, a)' = EntriesOf(q, a)
  <2>1. 1 .. num_neighbor[q] \subseteq Slots
    BY EntryType
  <2>2. CASE q # o
    BY <1>3, <1>4, <2>1, <2>2 DEF EntriesOf
  <2>3. CASE q = o
    BY <1>3, <1>4, <1>10, <2>1, <2>3 DEF EntriesOf
  <2> QED
    BY <2>2, <2>3
<1>11. HopsInUse'
  <2> SUFFICES ASSUME NEW q \in Owners, NEW a \in Ips, hop[<<q, a>>] # 0, <<q, a>> \notin dropped
               PROVE  \E k \in 1 .. num_neighbor'[q] :
                        IsNeighborOf(k, q, a)' /\ neighbors'[q][k].oid = Oid(hop[<<q, a>>])
    BY <1>1, Zenon DEF HopsInUse, Oid
  <2>1. PICK k \in 1 .. num_neighbor[q] :
          IsNeighborOf(k, q, a) /\ neighbors[q][k].oid = Oid(hop[<<q, a>>])
    BY DEF HopsInv, HopsInUse
  <2>2. IsNeighborOf(k, q, a)'
    BY <1>6, <1>10, <2>1 DEF IsNeighborOf
  <2>3. k \in Slots /\ k \in 1 .. num_neighbor'[q]
    BY <1>3, EntryType
  <2> QED
    BY <1>5, <2>1, <2>2, <2>3
<1>12. NeighborsAsTold'
  <2> SUFFICES ASSUME NEW q \in Owners, NEW a \in Ips, NEW k \in 1 .. num_neighbor'[q],
                      known'[<<q, a>>] # NoMac, IsNeighborOf(k, q, a)'
               PROVE  neighbors'[q][k].mac = known'[<<q, a>>]
    BY Zenon DEF NeighborsAsTold
  <2>1. CASE q = o /\ a = ip
    <3>1. n \in EntriesOf(o, ip)'
      BY <1>3, <1>4 DEF EntriesOf
    <3>2. n <= k /\ k \in 1 .. n
      BY <1>3, <2>1, <3>1 DEF IsNeighborOf
    <3>3. k = n
      BY <1>3, <3>2
    <3>4. known'[<<o, ip>>] = mac
      BY <1>1 DEF TypeOK
    <3> QED
      BY <2>1, <3>3, <3>4, <1>4
  <2>2. CASE ~(q = o /\ a = ip)
    <3>1. k \in EntriesOf(q, a) /\ IsNeighborOf(k, q, a)
      BY <1>10, <2>2 DEF IsNeighborOf
    <3>2. k \in 1 .. num_neighbor[q] /\ k \in Slots
      BY <3>1, EntryType DEF EntriesOf
    <3>3. neighbors'[q][k] = neighbors[q][k]
      BY <1>3, <1>4, <3>2
    <3>4. known'[<<q, a>>] = known[<<q, a>>]
      BY <1>1, <2>2 DEF TypeOK
    <3> QED
      BY <3>1, <3>2, <3>3, <3>4 DEF HopsInv, NeighborsAsTold
  <2> QED
    BY <2>1, <2>2
<1> QED
  BY <1>8, <1>9, <1>11, <1>12, Zenon DEF HopsInv

\* A new hop, or one that is refused half-way.
LEMMA HopsKeptByNextHop ==
  ASSUME TypeOK, HopsInv, NEW o \in Owners, NEW ip \in Ips,
         NEW refused \in {"group", "bucket", "flow", "none"}, CreateNextHop(o, ip, refused)
  PROVE  HopsInv'
<1> DEFINE g == Len(l3groups) + 1
<1>1. /\ known[<<o, ip>>] # NoMac /\ hop[<<o, ip>>] = 0 /\ g \in Gids
      /\ UNCHANGED <<neigh_db, num_neighbor, known, dropped>>
  BY NextHopEffect
<1>2. PICK k \in 1 .. num_neighbor[o] :
        /\ EntryNumbered(o, ip, k, g)
        /\ GroupRefused(o, k) \/ GroupMade(o, ip, k, g)
  BY NextHopEffect
<1>3. Len(l3groups) \in Nat /\ l3groups \in Seq(Buckets \union {NoBucket}) /\ k \in Slots
  BY LenProperties, EntryType DEF TypeOK
<1>4. PICK b : l3groups' = Append(l3groups, b)
  BY <1>2 DEF GroupRefused, GroupMade
<1>5. Len(l3groups') = g /\ \A i \in 1 .. Len(l3groups) : l3groups'[i] = l3groups[i]
  BY <1>3, <1>4
<1>6. IsNeighborOf(k, o, ip) /\ neighbors'[o][k].oid = Oid(g)
      /\ neighbors'[o][k].ip = neighbors[o][k].ip /\ neighbors'[o][k].mac = neighbors[o][k].mac
      /\ \A q \in Owners, i \in Slots : (q = o /\ i = k) \/ neighbors'[q][i] = neighbors[q][i]
  BY <1>2 DEF EntryNumbered, OneSlot
<1>7. \A q \in Owners, a \in Ips : hop[<<q, a>>] # 0 => hop[<<q, a>>] \in 1 .. Len(l3groups)
  <2> SUFFICES ASSUME NEW q \in Owners, NEW a \in Ips, hop[<<q, a>>] # 0
               PROVE  hop[<<q, a>>] \in 1 .. Len(l3groups)
    OBVIOUS
  <2>1. hop[<<q, a>>] <= Len(l3groups)
    BY Zenon DEF HopsInv, HopsRight, HopRight
  <2>2. hop[<<q, a>>] \in Nat
    BY SizesAssumption DEF TypeOK
  <2> QED
    BY <1>3, <2>1, <2>2
\* Either the hop is made, or the client's hops are what they were.
<1>8. \/ UNCHANGED hop
      \/ GroupMade(o, ip, k, g) /\ hop' = [hop EXCEPT ![<<o, ip>>] = g]
  BY <1>2 DEF GroupRefused, GroupMade
<1>9. \A q \in Owners, a \in Ips :
        \/ hop'[<<q, a>>] = hop[<<q, a>>]
        \/ q = o /\ a = ip /\ hop'[<<q, a>>] = g /\ GroupMade(o, ip, k, g)
  BY <1>8 DEF TypeOK
<1>10. GroupMade(o, ip, k, g) => HopRight(o, known[<<o, ip>>], g, l3groups', neigh_db)
  <2> SUFFICES ASSUME GroupMade(o, ip, k, g)
               PROVE  HopRight(o, known[<<o, ip>>], g, l3groups', neigh_db)
    OBVIOUS
  <2>1. PICK p \in Egress(o, neighbors[o][k].mac) :
          l3groups' = Append(l3groups, [filled |-> TRUE, vid |-> vid[p], port |-> p,
                                        mac |-> neighbors[o][k].mac])
    BY DEF GroupMade
  <2> DEFINE c == [filled |-> TRUE, vid |-> vid[p], port |-> p, mac |-> neighbors[o][k].mac]
  <2>2. c.filled = TRUE /\ c.mac = neighbors[o][k].mac /\ c.port = p
    OBVIOUS
  <2> HIDE DEF c
  <2>3. l3groups' = Append(l3groups, c)
    BY <2>1 DEF c
  <2>4. l3groups'[g] = c
    BY <2>3, <1>3
  <2>5. neighbors[o][k].mac = known[<<o, ip>>]
    BY <1>1, <1>6 DEF HopsInv, NeighborsAsTold
  <2>6. IF o \in Ports THEN p = o ELSE p \in Ports /\ neighbors[o][k].mac \in neigh_db[p]
    BY DEF Egress
  <2>7. g <= Len(l3groups')
    BY <1>3, <1>5
  <2> HIDE DEF g
  <2> QED
    BY <2>2, <2>4, <2>5, <2>6, <2>7, Zenon DEF HopRight
<1> HIDE DEF g
\* Groups that are there stay as they are.
<1>11. \A h \in 1 .. Len(l3groups) : h <= Len(l3groups') /\ l3groups'[h] = l3groups[h] /\ h # g
  BY <1>3, <1>5 DEF g
<1>12. HopsRight'
  <2> SUFFICES ASSUME NEW q \in Owners, NEW a \in Ips, hop'[<<q, a>>] # 0
               PROVE  HopRight(q, known'[<<q, a>>], hop'[<<q, a>>], l3groups', neigh_db')
    BY Zenon DEF HopsRight
  <2>1. CASE hop'[<<q, a>>] = hop[<<q, a>>]
    <3>1. HopRight(q, known[<<q, a>>], hop[<<q, a>>], l3groups, neigh_db)
      BY <2>1, Zenon DEF HopsInv, HopsRight
    <3>2. hop[<<q, a>>] \in 1 .. Len(l3groups)
      BY <2>1, <1>7
    <3>3. HopRight(q, known[<<q, a>>], hop[<<q, a>>], l3groups', neigh_db)
      BY <3>1, <3>2, <1>11, Zenon DEF HopRight
    <3> QED
      BY <3>3, <2>1, <1>1
  <2>2. CASE q = o /\ a = ip /\ hop'[<<q, a>>] = g /\ GroupMade(o, ip, k, g)
    BY <2>2, <1>1, <1>10
  <2> QED
    BY <2>1, <2>2, <1>9
<1>13. HopsUnshared'
  BY <1>1, <1>7, <1>9, <1>11 DEF HopsInv, HopsUnshared
<1>14. \A q \in Owners, i \in Slots : neighbors[q][i].oid \in Nat /\ neighbors[q][i].oid < Oid(g)
  <2> SUFFICES ASSUME NEW q \in Owners, NEW i \in Slots
               PROVE  neighbors[q][i].oid \in Nat /\ neighbors[q][i].oid < Oid(g)
    OBVIOUS
  <2>1. neighbors[q][i].oid \in Nat /\ neighbors[q][i].oid <= Oid(Len(l3groups))
    BY EntryType DEF HopsInv, OidsNumbered
  <2> QED
    BY <2>1, <1>3, SizesAssumption DEF Oid, g
<1>15. Oid(g) = Oid(Len(l3groups')) /\ Oid(g) \in Nat
       /\ \A h \in 1 .. Len(l3groups) : Oid(h) # Oid(g)
  BY <1>1, <1>3, <1>5, <1>11, SizesAssumption DEF Oid, Gids
<1>16. OidsNumbered'
  <2> SUFFICES ASSUME NEW q \in Owners, NEW i \in Slots
               PROVE  neighbors'[q][i].oid <= Oid(g)
    BY <1>5 DEF OidsNumbered, Oid
  <2> QED
    BY <1>6, <1>14, <1>15
<1>17. OidsOwned'
  <2> SUFFICES ASSUME NEW q \in Owners, NEW a \in Ips, NEW r \in Owners, NEW i \in Slots,
                      hop'[<<q, a>>] # 0, neighbors'[r][i].oid = Oid(hop'[<<q, a>>])
               PROVE  r = q /\ neighbors'[r][i].gid = hop'[<<q, a>>]
    BY DEF OidsOwned, Oid
  <2>1. CASE hop'[<<q, a>>] = hop[<<q, a>>]
    <3>1. hop[<<q, a>>] \in 1 .. Len(l3groups)
      BY <2>1, <1>7
    <3>2. ~(r = o /\ i = k)
      BY <2>1, <3>1, <1>6, <1>15
    <3>3. neighbors'[r][i] = neighbors[r][i]
      BY <3>2, <1>6
    <3> QED
      BY <2>1, <3>3 DEF HopsInv, OidsOwned
  <2>2. CASE q = o /\ a = ip /\ hop'[<<q, a>>] = g /\ GroupMade(o, ip, k, g)
    <3>1. r = o /\ i = k
      BY <2>2, <1>6, <1>14
    <3> QED
      BY <2>2, <3>1 DEF GroupMade
  <2> QED
    BY <2>1, <2>2, <1>9
<1>18. \A q \in Owners, a \in Ips : EntriesOf(q, a)' = EntriesOf(q, a)
  <2>1. \A q \in Owners, i \in Slots : neighbors'[q][i].ip = neighbors[q][i].ip
    BY <1>6
  <2>2. \A q \in Owners : 1 .. num_neighbor[q] \subseteq Slots
    BY EntryType
  <2> QED
    BY <1>1, <2>1, <2>2 DEF EntriesOf
<1>19. HopsInUse'
  <2> SUFFICES ASSUME NEW q \in Owners, NEW a \in Ips, hop'[<<q, a>>] # 0, <<q, a>> \notin dropped
               PROVE  \E i \in 1 .. num_neighbor[q] :
                        IsNeighborOf(i, q, a)' /\ neighbors'[q][i].oid = Oid(hop'[<<q, a>>])
    BY <1>1, Zenon DEF HopsInUse, Oid
  <2>1. CASE hop'[<<q, a>>] = hop[<<q, a>>]
    <3>1. PICK i \in 1 .. num_neighbor[q] :
            IsNeighborOf(i, q, a) /\ neighbors[q][i].oid = Oid(hop[<<q, a>>])
      BY <2>1 DEF HopsInv, HopsInUse
    <3>2. CASE q = o /\ a = ip
      BY <3>2, <2>1, <1>1
    <3>3. CASE ~(q = o /\ a = ip)
      <4>1. ~(q = o /\ i = k)
        BY <3>1, <3>3, <1>6 DEF IsNeighborOf, EntriesOf
      <4>2. i \in Slots
        BY EntryType
      <4>3. neighbors'[q][i] = neighbors[q][i]
        BY <4>1, <4>2, <1>6
      <4>4. IsNeighborOf(i, q, a)'
        BY <3>1, <1>18 DEF IsNeighborOf
      <4> QED
        BY <2>1, <3>1, <4>3, <4>4
    <3> QED
      BY <3>2, <3>3
  <2>2. CASE q = o /\ a = ip /\ hop'[<<q, a>>] = g /\ GroupMade(o, ip, k, g)
    <3>1. IsNeighborOf(k, o, ip)'
      BY <1>6, <1>18 DEF IsNeighborOf
    <3> QED
      BY <2>2, <3>1, <1>6
  <2> QED
    BY <2>1, <2>2, <1>9
<1>20. NeighborsAsTold'
  <2> SUFFICES ASSUME NEW q \in Owners, NEW a \in Ips, NEW i \in 1 .. num_neighbor[q],
                      known[<<q, a>>] # NoMac, IsNeighborOf(i, q, a)'
               PROVE  neighbors'[q][i].mac = known[<<q, a>>]
    BY <1>1, Zenon DEF NeighborsAsTold
  <2>1. IsNeighborOf(i, q, a) /\ i \in Slots
    BY <1>18, EntryType DEF IsNeighborOf
  <2>2. neighbors'[q][i].mac = neighbors[q][i].mac
    BY <2>1, <1>6
  <2> QED
    BY <2>1, <2>2 DEF HopsInv, NeighborsAsTold
<1> QED
  BY <1>12, <1>13, <1>16, <1>17, <1>19, <1>20, Zenon DEF HopsInv

\* Memberships and VLANs: only elements that no hop needs go out of use.
LEMMA HopsKeptByMember ==
  ASSUME TypeOK, KnownHops, HopsInv, NEW p \in Ports,
         neighbors' = neighbors, num_neighbor' = [num_neighbor EXCEPT ![p] = 0],
         dropped' = dropped \union {<<p, ip>> : ip \in {i \in Ips : known[<<p, i>>] # NoMac}},
         UNCHANGED <<neigh_db, l3groups, known, hop>>
  PROVE  HopsInv'
<1>1. p \in Owners /\ num_neighbor'[p] = 0 /\ 1 .. 0 = {}
      /\ \A q \in Owners \ {p} : num_neighbor'[q] = num_neighbor[q]
  BY DEF TypeOK, Owners
<1>2. HopsRight'
  BY Zenon DEF HopsInv, HopsRight
<1>3. HopsUnshared' /\ OidsNumbered' /\ OidsOwned'
  <2>1. HopsUnshared'
    BY DEF HopsInv, HopsUnshared
  <2>2. OidsNumbered'
    BY DEF HopsInv, OidsNumbered, Oid
  <2>3. OidsOwned'
    BY DEF HopsInv, OidsOwned
  <2> QED
    BY <2>1, <2>2, <2>3
<1>4. \A q \in Owners \ {p}, a \in Ips : \A k : IsNeighborOf(k, q, a)' <=> IsNeighborOf(k, q, a)
  BY <1>1 DEF IsNeighborOf, EntriesOf
<1>5. \A a \in Ips : hop[<<p, a>>] # 0 => <<p, a>> \in dropped'
  BY <1>1 DEF KnownHops
<1>6. HopsInUse'
  BY <1>1, <1>4, <1>5 DEF HopsInv, HopsInUse
<1>7. NeighborsAsTold'
  BY <1>1, <1>4 DEF HopsInv, NeighborsAsTold
<1> QED
  BY <1>2, <1>3, <1>6, <1>7, Zenon DEF HopsInv

LEMMA HopsKeptByVlan ==
  ASSUME TypeOK, KnownHops, HopsInv, NEW v \in Vlans, RecreateVlan(v)
  PROVE  HopsInv'
<1>1. /\ neighbors' = [neighbors EXCEPT ![v] = [i \in 1 .. MaxNeighbors |-> Blank]]
      /\ num_neighbor' = [num_neighbor EXCEPT ![v] = 0]
      /\ UNCHANGED <<neigh_db, l3groups, known, hop, dropped>> /\ v \in Owners /\ rif[v] # "live"
  BY DEF RecreateVlan, tables, client, Owners
<1>2. \A a \in Ips : hop[<<v, a>>] = 0
  BY <1>1 DEF KnownHops
<1>3. /\ num_neighbor'[v] = 0 /\ 1 .. 0 = {}
      /\ \A q \in Owners \ {v} : num_neighbor'[q] = num_neighbor[q] /\ neighbors'[q] = neighbors[q]
      /\ \A i \in Slots : neighbors'[v][i].oid = 0
  <2>1. Blank.oid = 0
    BY DEF Blank
  <2> QED
    BY <1>1, <2>1 DEF TypeOK, Slots
<1>4. HopsRight'
  BY <1>1, Zenon DEF HopsInv, HopsRight
<1>5. HopsUnshared'
  BY <1>1 DEF HopsInv, HopsUnshared
<1>6. OidsNumbered'
  <2>1. 0 <= Oid(Len(l3groups)) /\ Oid(Len(l3groups))' = Oid(Len(l3groups))
    BY <1>1, LenProperties, SizesAssumption DEF Oid, TypeOK
  <2> QED
    BY <1>3, <2>1 DEF HopsInv, OidsNumbered
<1>7. OidsOwned'
  <2>1. \A q \in Owners, a \in Ips : hop[<<q, a>>] # 0 => Oid(hop[<<q, a>>]) # 0
    BY SizesAssumption DEF Oid, TypeOK
  <2> SUFFICES ASSUME NEW q \in Owners, NEW r \in Owners, NEW a \in Ips, NEW i \in Slots,
                      hop'[<<q, a>>] # 0, neighbors'[r][i].oid = Oid(hop'[<<q, a>>])
               PROVE  r = q /\ neighbors'[r][i].gid = hop'[<<q, a>>]
    BY DEF OidsOwned, Oid
  <2>2. hop' = hop
    BY <1>1
  <2>3. r # v /\ neighbors'[r] = neighbors[r]
    BY <1>3, <2>1, <2>2
  <2> QED
    BY <2>2, <2>3 DEF HopsInv, OidsOwned
<1>8. \A q \in Owners \ {v}, a \in Ips : \A k : IsNeighborOf(k, q, a)' <=> IsNeighborOf(k, q, a)
  BY <1>3 DEF IsNeighborOf, EntriesOf
<1>9. HopsInUse'
  BY <1>1, <1>2, <1>3, <1>8 DEF HopsInv, HopsInUse, Oid
<1>10. NeighborsAsTold'
  BY <1>1, <1>3, <1>8 DEF HopsInv, NeighborsAsTold
<1> QED
  BY <1>4, <1>5, <1>6, <1>7, <1>9, <1>10, Zenon DEF HopsInv

LEMMA HopsStep == TypeOK /\ KnownHops /\ HopsInv /\ [Next]_vars => HopsInv'
<1> SUFFICES ASSUME TypeOK, KnownHops, HopsInv, [Next]_vars
             PROVE  HopsInv'
  OBVIOUS
<1>1. ASSUME UNCHANGED <<arrays, l3groups, neigh_db, known, hop, dropped>>
      PROVE  HopsInv'
  BY <1>1, HopsFewer
<1>2. ASSUME NEW o \in RifOwners, NEW refused \in Kinds \union {"none"},
             CreateRouterInterface(o, refused)
      PROVE  HopsInv'
  BY <1>1, <1>2 DEF CreateRouterInterface
<1>3. ASSUME NEW o \in Owners, RemoveRouterInterface(o)
      PROVE  HopsInv'
  BY <1>1, <1>3 DEF RemoveRouterInterface
<1>4. ASSUME NEW o \in NeighborOwners, NEW ip \in Ips, NEW mac \in Macs, CreateNeighbor(o, ip, mac)
      PROVE  HopsInv'
  BY <1>4, HopsKeptByNeighbor, BoundsAssumption
<1>5. ASSUME NEW o \in Owners, NEW ip \in Ips, RemoveNeighbor(o, ip)
      PROVE  HopsInv'
  <2>1. /\ UNCHANGED <<arrays, l3groups, neigh_db, hop>> /\ hop[<<o, ip>>] = 0
        /\ known' = [known EXCEPT ![<<o, ip>>] = NoMac] /\ dropped' = dropped \ {<<o, ip>>}
    BY <1>5 DEF RemoveNeighbor, tables
  <2>2. \A q \in Owners, a \in Ips :
          /\ hop'[<<q, a>>] # 0 => /\ hop'[<<q, a>>] = hop[<<q, a>>]
                                  /\ known'[<<q, a>>] = known[<<q, a>>]
                                  /\ (<<q, a>> \in dropped => <<q, a>> \in dropped')
          /\ known'[<<q, a>>] # NoMac => known'[<<q, a>>] = known[<<q, a>>]
    BY <2>1 DEF TypeOK
  <2> QED
    BY <2>1, <2>2, HopsFewer
<1>6. ASSUME NEW o \in Owners, NEW ip \in Ips, RemoveNextHop(o, ip)
      PROVE  HopsInv'
  <2>1. /\ UNCHANGED <<arrays, l3groups, neigh_db, known, dropped>>
        /\ hop' = [hop EXCEPT ![<<o, ip>>] = 0]
    BY <1>6 DEF RemoveNextHop, tables
  <2>2. \A q \in Owners, a \in Ips : hop'[<<q, a>>] # 0 => hop'[<<q, a>>] = hop[<<q, a>>]
    BY <2>1 DEF TypeOK
  <2> QED
    BY <2>1, <2>2, HopsFewer
<1>7. ASSUME NEW o \in Owners, NEW ip \in Ips, NEW refused \in {"group", "bucket", "flow", "none"},
             CreateNextHop(o, ip, refused)
      PROVE  HopsInv'
  BY <1>7, HopsKeptByNextHop
<1>8. ASSUME NEW x \in Prefixes,
             \/ \E o \in Owners, ip \in Ips : CreateRoute(x, o, ip)
             \/ \E packet_in \in BOOLEAN : CreateRouteUnset(x, packet_in)
             \/ CreateCpuRoute(x) \/ RemoveRoute(x)
      PROVE  HopsInv'
  BY <1>1, <1>8, Zenon DEF CreateRoute, CreateRouteUnset, CreateCpuRoute, AddRoute, RemoveRoute
<1>9. ASSUME NEW p \in Learners, NEW mac \in Macs, Learn(p, mac)
      PROVE  HopsInv'
  <2>1. UNCHANGED <<arrays, l3groups, known, hop, dropped>>
    BY <1>9 DEF Learn, tables, client
  <2>2. \A q \in Ports : neigh_db[q] \subseteq neigh_db'[q]
    BY <1>9 DEF Learn, TypeOK
  <2> QED
    BY <2>1, <2>2, HopsFewer
<1>10. ASSUME NEW p \in Movers, NEW v \in Vlans, NEW tagged \in BOOLEAN, CreateMember(p, v, tagged)
       PROVE  HopsInv'
  BY <1>10, HopsKeptByMember, BoundsAssumption DEF CreateMember, tables
<1>11. ASSUME NEW p \in Movers, RemoveMember(p)
       PROVE  HopsInv'
  BY <1>1, <1>11 DEF RemoveMember, tables, client
<1>12. ASSUME NEW v \in Vlans, RecreateVlan(v)
       PROVE  HopsInv'
  BY <1>12, HopsKeptByVlan
<1>13. CASE UNCHANGED vars
  BY <1>1, <1>13 DEF vars, tables, client
<1> QED
  BY <1>2, <1>3, <1>4, <1>5, <1>6, <1>7, <1>8, <1>9, <1>10, <1>11, <1>12, <1>13 DEF Next

LEMMA HopsAlwaysRight == Spec => [](TypeOK /\ KnownHops /\ HopsInv)
<1>1. Init => HopsInv
  <2> SUFFICES ASSUME Init PROVE HopsInv
    OBVIOUS
  <2>1. /\ \A o \in Owners, ip \in Ips : known[<<o, ip>>] = NoMac /\ hop[<<o, ip>>] = 0
        /\ \A o \in Owners, i \in Slots : neighbors[o][i].oid = 0
        /\ 0 <= Oid(Len(l3groups))
    BY SizesAssumption DEF Init, Slots, Blank, Oid
  <2> QED
    BY <2>1 DEF HopsInv, HopsRight, HopsUnshared, OidsNumbered, OidsOwned, HopsInUse, NeighborsAsTold
<1> QED
  BY <1>1, InitTyped, TypedStep, HopsStep, PTL DEF Spec

\* What a route finds when it looks for the group of a hop.
LEMMA HopFound ==
  ASSUME TypeOK, HopsInv, NEW o \in Owners, NEW ip \in Ips, hop[<<o, ip>>] # 0
  PROVE  LET found == GidOf(Oid(hop[<<o, ip>>])) IN
         IF o \in Ports THEN found = hop[<<o, ip>>] \/ (found = 0 /\ <<o, ip>> \in dropped)
         ELSE found = 0
<1> DEFINE h == hop[<<o, ip>>]
           found == GidOf(Oid(h))
<1>1. ASSUME NEW p \in Ports, NEW i \in 1 .. num_neighbor[p],
             neighbors[p][i].oid = Oid(h), found = neighbors[p][i].gid
      PROVE  p = o /\ found = h
  <2>1. p \in Owners /\ i \in Slots
    BY EntryType DEF Owners
  <2> QED
    BY <1>1, <2>1 DEF HopsInv, OidsOwned
<1>2. \/ found = 0 /\ ~\E p \in Ports : \E i \in 1 .. num_neighbor[p] : neighbors[p][i].oid = Oid(h)
      \/ o \in Ports /\ found = h
  BY <1>1, GidOfFound
<1>3. <<o, ip>> \notin dropped => \E i \in 1 .. num_neighbor[o] : neighbors[o][i].oid = Oid(h)
  BY DEF HopsInv, HopsInUse
<1> HIDE DEF found, h
<1>4. IF o \in Ports THEN found = h \/ (found = 0 /\ <<o, ip>> \in dropped) ELSE found = 0
  <2>1. CASE o \in Ports
    BY <1>2, <1>3, <2>1
  <2>2. CASE o \notin Ports
    BY <1>2, <2>2
  <2> QED
    BY <2>1, <2>2
<1> QED
  BY <1>4 DEF found, h

\* A next hop that the client has always has a group of its own that leads to its
\* neighbour, whatever the agent refused, whatever memberships emptied the array of its
\* port and however elements were used again; and a route finds this group or none.
THEOREM HopsAlwaysLead == Spec => []HopsLeadToNeighbors
<1>1. TypeOK /\ KnownHops /\ HopsInv => HopsLeadToNeighbors
  <2> SUFFICES ASSUME TypeOK, HopsInv, NEW o \in Owners, NEW ip \in Ips, hop[<<o, ip>>] # 0
               PROVE  LET h == hop[<<o, ip>>]  group == l3groups[h]  found == GidOf(Oid(h)) IN
                      /\ group.filled /\ group.mac = known[<<o, ip>>]
                      /\ \A q \in Owners, a \in Ips : hop[<<q, a>>] = h => q = o /\ a = ip
                      /\ IF o \in Ports
                           THEN /\ group.port = o
                                /\ found = h \/ (found = 0 /\ <<o, ip>> \in dropped)
                           ELSE group.mac \in neigh_db[group.port] /\ found = 0
    BY Zenon DEF HopsLeadToNeighbors
  <2> DEFINE h == hop[<<o, ip>>]
             group == l3groups[h]
             found == GidOf(Oid(h))
  <2>1. /\ group.filled /\ group.mac = known[<<o, ip>>]
        /\ IF o \in Ports THEN group.port = o ELSE group.mac \in neigh_db[group.port]
    <3>1. HopRight(o, known[<<o, ip>>], h, l3groups, neigh_db)
      BY Zenon DEF HopsInv, HopsRight
    <3> QED
      BY <3>1, Zenon DEF HopRight
  <2>2. \A q \in Owners, a \in Ips : hop[<<q, a>>] = h => q = o /\ a = ip
    BY DEF HopsInv, HopsUnshared
  <2>3. IF o \in Ports THEN found = h \/ (found = 0 /\ <<o, ip>> \in dropped) ELSE found = 0
    BY HopFound
  <2> HIDE DEF h, group, found
  <2>4. /\ group.filled /\ group.mac = known[<<o, ip>>]
        /\ \A q \in Owners, a \in Ips : hop[<<q, a>>] = h => q = o /\ a = ip
        /\ IF o \in Ports
             THEN /\ group.port = o
                  /\ found = h \/ (found = 0 /\ <<o, ip>> \in dropped)
             ELSE group.mac \in neigh_db[group.port] /\ found = 0
    BY <2>1, <2>2, <2>3, Zenon
  <2> QED
    BY <2>4, Zenon DEF h, group, found
<1> QED
  BY <1>1, HopsAlwaysRight, PTL

-----------------------------------------------------------------------------
(* Routes.                                                                 *)

\* The flow of x leads where target says, given the groups.
RouteRight(flow, target, groups) ==
  /\ (target = NoWant <=> flow = NoRoute)
  /\ (target = Cpu <=> flow = Cpu)
  /\ (target = Unset => flow \in Gids)
  /\ flow \in Gids /\ target # Unset =>
       /\ groups[flow].mac = target.mac
       /\ target.owner \in Ports => groups[flow].port = target.owner

LEMMA RoutesRight ==
  RouteFollowsRequest <=> (CleanClient => \A x \in Prefixes : RouteRight(routing[x], want[x], l3groups))
BY Zenon DEF RouteFollowsRequest, RouteRight

LEMMA RoutesStep ==
  ASSUME TypeOK, KnownHops, GroupsInv, HopsInv, RouteFollowsRequest, [Next]_vars, CleanClient
  PROVE  \A x \in Prefixes : RouteRight(routing'[x], want'[x], l3groups')
<1>1. /\ routing \in [Prefixes -> Gids \union {Cpu, NoRoute}]
      /\ want \in [Prefixes -> [owner : Owners, mac : Macs] \union {Cpu, NoWant, Unset}]
      /\ Len(l3groups) \in Nat
  BY LenProperties DEF TypeOK
<1>2. \A x \in Prefixes : RouteRight(routing[x], want[x], l3groups)
  BY RoutesRight, Zenon
<1>3. ASSUME UNCHANGED <<routing, want, l3groups>>
      PROVE  \A x \in Prefixes : RouteRight(routing'[x], want'[x], l3groups')
  BY <1>2, <1>3
\* What is asked for by a call on a next hop is none of the other answers.
<1>4. ASSUME NEW o \in Owners, NEW ip \in Ips, known[<<o, ip>>] # NoMac
      PROVE  /\ known[<<o, ip>>] \in Macs
             /\ [owner |-> o, mac |-> known[<<o, ip>>]] \notin {Cpu, NoWant, Unset}
  <2>1. known[<<o, ip>>] \in Macs
    BY <1>4 DEF TypeOK
  <2>2. [owner |-> o, mac |-> known[<<o, ip>>]] \in [owner : Owners, mac : Macs]
    BY <2>1
  <2> QED
    BY <2>1, <2>2, NamesAssumption
\* The element of a neighbour has the address that the client gave.
<1>5. ASSUME NEW o \in Owners, NEW ip \in Ips, known[<<o, ip>>] # NoMac,
             NEW k \in 1 .. num_neighbor[o], IsNeighborOf(k, o, ip)
      PROVE  neighbors[o][k].mac = known[<<o, ip>>]
  BY <1>5 DEF HopsInv, NeighborsAsTold
\* A flow that is added leads where its call says.
<1>6. ASSUME NEW x \in Prefixes, NEW target, NEW asked, AddRoute(x, target, asked),
             RouteRight(target, asked, l3groups)
      PROVE  \A y \in Prefixes : RouteRight(routing'[y], want'[y], l3groups')
  <2>1. /\ routing[x] = NoRoute /\ routing' = Routed(x, target)
        /\ want' = [want EXCEPT ![x] = asked] /\ UNCHANGED l3groups
    BY <1>6 DEF AddRoute
  <2> SUFFICES ASSUME NEW y \in Prefixes
               PROVE  RouteRight(routing'[y], want'[y], l3groups)
    BY <2>1
  <2>2. CASE y = x
    BY <1>1, <1>6, <2>1, <2>2 DEF Routed
  <2>3. CASE y # x
    BY <1>1, <1>2, <2>1, <2>3 DEF Routed
  <2> QED
    BY <2>2, <2>3
<1>7. ASSUME NEW x \in Prefixes,
             \/ \E o \in Owners, ip \in Ips : CreateRoute(x, o, ip)
             \/ CreateCpuRoute(x)
             \/ \E packet_in \in BOOLEAN : CreateRouteUnset(x, packet_in)
      PROVE  \A y \in Prefixes : RouteRight(routing'[y], want'[y], l3groups')
  <2>1. ASSUME NEW o \in Owners, NEW ip \in Ips, CreateRoute(x, o, ip)
        PROVE  \A y \in Prefixes : RouteRight(routing'[y], want'[y], l3groups')
    <3> DEFINE gid == GidOf(Oid(hop[<<o, ip>>]))
               asked == [owner |-> o, mac |-> known[<<o, ip>>]]
    <3>1. hop[<<o, ip>>] # 0 /\ gid > 0 /\ AddRoute(x, gid, asked)
      BY <2>1 DEF CreateRoute
    <3>2. gid \in Gids
      BY <3>1, GidOfTyped, SizesAssumption DEF Gids
    \* The search found the group of the hop, or nothing.
    <3>3. o \in Ports /\ gid = hop[<<o, ip>>]
      BY <3>1, HopFound
    <3>4. HopRight(o, known[<<o, ip>>], hop[<<o, ip>>], l3groups, neigh_db)
      BY <3>1, Zenon DEF HopsInv, HopsRight
    <3>5. l3groups[gid].mac = known[<<o, ip>>] /\ l3groups[gid].port = o
      BY <3>3, <3>4, Zenon DEF HopRight
    <3>6. asked.mac = known[<<o, ip>>] /\ asked.owner = o /\ asked \notin {Cpu, NoWant, Unset}
      BY <1>4, <3>1 DEF KnownHops
    <3> HIDE DEF gid, asked
    <3>7. RouteRight(gid, asked, l3groups)
      BY <3>2, <3>5, <3>6, NamesAssumption, Zenon DEF RouteRight
    <3> QED
      BY <3>1, <3>7, <1>6
  <2>2. RouteRight(Cpu, Cpu, l3groups)
    BY NamesAssumption DEF RouteRight
  <2>3. CASE CreateCpuRoute(x)
    BY <2>2, <2>3, <1>6 DEF CreateCpuRoute
  <2>4. ASSUME NEW packet_in \in BOOLEAN, CreateRouteUnset(x, packet_in)
        PROVE  \A y \in Prefixes : RouteRight(routing'[y], want'[y], l3groups')
    <3>1. PICK oid \in Oids : GidOf(oid) > 0 /\
            AddRoute(x, IF packet_in THEN Cpu ELSE GidOf(oid), IF packet_in THEN Cpu ELSE Unset)
      BY <2>4 DEF CreateRouteUnset
    <3>2. GidOf(oid) \in Gids
      BY <3>1, GidOfTyped, SizesAssumption DEF Gids
    <3>3. RouteRight(GidOf(oid), Unset, l3groups)
      BY <3>2, NamesAssumption, Zenon DEF RouteRight
    <3>4. CASE packet_in
      BY <3>1, <3>4, <2>2, <1>6
    <3>5. CASE ~packet_in
      BY <3>1, <3>3, <3>5, <1>6
    <3> QED
      BY <3>4, <3>5
  <2> QED
    BY <1>7, <2>1, <2>3, <2>4
<1>8. ASSUME NEW x \in Prefixes, RemoveRoute(x)
      PROVE  \A y \in Prefixes : RouteRight(routing'[y], want'[y], l3groups')
  <2>1. /\ routing' = Unrouted(x) /\ want' = [want EXCEPT ![x] = NoWant] /\ UNCHANGED l3groups
    BY <1>8 DEF RemoveRoute
  <2>2. RouteRight(NoRoute, NoWant, l3groups)
    BY NamesAssumption DEF RouteRight
  <2> SUFFICES ASSUME NEW y \in Prefixes
               PROVE  RouteRight(routing'[y], want'[y], l3groups)
    BY <2>1
  <2>3. CASE y = x
    BY <1>1, <2>1, <2>2, <2>3 DEF Unrouted
  <2>4. CASE y # x
    BY <1>1, <1>2, <2>1, <2>4 DEF Unrouted
  <2> QED
    BY <2>3, <2>4
<1>9. ASSUME NEW o \in Owners, NEW ip \in Ips, NEW refused \in {"group", "bucket", "flow", "none"},
             CreateNextHop(o, ip, refused)
      PROVE  \A y \in Prefixes : RouteRight(routing'[y], want'[y], l3groups')
  <2> DEFINE g == Len(l3groups) + 1
             target == [owner |-> o, mac |-> known[<<o, ip>>]]
  <2>1. known[<<o, ip>>] # NoMac /\ routing[ip] = NoRoute /\ g \in Gids
    BY <1>9, NextHopEffect
  <2>2. PICK k \in 1 .. num_neighbor[o] :
          /\ EntryNumbered(o, ip, k, g)
          /\ GroupRefused(o, k) \/ GroupMade(o, ip, k, g)
    BY <1>9, NextHopEffect
  <2>3. /\ \A i \in 1 .. Len(l3groups) : l3groups'[i] = l3groups[i]
    <3>1. \E b : l3groups' = Append(l3groups, b)
      BY <2>2 DEF GroupRefused, GroupMade
    <3> QED
      BY <3>1, <1>1 DEF TypeOK
  \* The flows that are there lead to groups that stay as they are.
  <2>4. \A y \in Prefixes : RouteRight(routing[y], want[y], l3groups')
    <3> TAKE y \in Prefixes
    <3>1. RouteRight(routing[y], want[y], l3groups)
      BY <1>2
    <3>2. routing[y] \in Gids => routing[y] <= Len(l3groups)
      BY Zenon DEF GroupsInv, FlowsRight
    <3>3. routing[y] \in Gids => l3groups'[routing[y]] = l3groups[routing[y]]
      BY <3>2, <2>3, <1>1, SizesAssumption DEF Gids
    <3> QED
      BY <3>1, <3>3, Zenon DEF RouteRight
  <2>5. CASE UNCHANGED <<routing, want>>
    BY <2>4, <2>5
  <2>6. CASE ~UNCHANGED <<routing, want>>
    <3>1. /\ GroupMade(o, ip, k, g) /\ routing' = Routed(ip, g) /\ want' = [want EXCEPT ![ip] = target]
      BY <2>2, <2>6 DEF GroupRefused, GroupMade
    <3>2. PICK p \in Egress(o, neighbors[o][k].mac) :
            l3groups' = Append(l3groups, [filled |-> TRUE, vid |-> vid[p], port |-> p,
                                          mac |-> neighbors[o][k].mac])
      BY <3>1 DEF GroupMade
    <3> DEFINE b == [filled |-> TRUE, vid |-> vid[p], port |-> p, mac |-> neighbors[o][k].mac]
    <3>3. b.port = p /\ b.mac = neighbors[o][k].mac
      OBVIOUS
    <3> HIDE DEF b
    <3>4. l3groups' = Append(l3groups, b)
      BY <3>2 DEF b
    <3>5. l3groups'[g] = b
      BY <3>4, <1>1 DEF TypeOK
    <3>6. neighbors[o][k].mac = known[<<o, ip>>]
      BY <2>1, <2>2, <1>5 DEF EntryNumbered
    <3>7. o \in Ports => p = o
      BY DEF Egress
    <3>8. target.mac = known[<<o, ip>>] /\ target.owner = o /\ target \notin {Cpu, NoWant, Unset}
      BY <1>4, <2>1
    <3> HIDE DEF g, target
    <3>9. RouteRight(g, target, l3groups')
      BY <2>1, <3>3, <3>5, <3>6, <3>7, <3>8, NamesAssumption, Zenon DEF RouteRight
    <3> SUFFICES ASSUME NEW y \in Prefixes
                 PROVE  RouteRight(routing'[y], want'[y], l3groups')
      OBVIOUS
    <3>10. CASE y = ip
      BY <1>1, <2>1, <3>1, <3>9, <3>10 DEF Routed
    <3>11. CASE y # ip
      BY <1>1, <2>4, <3>1, <3>11 DEF Routed
    <3> QED
      BY <3>10, <3>11
  <2> QED
    BY <2>5, <2>6
<1>10. ASSUME NEW o \in RifOwners, NEW refused \in Kinds \union {"none"},
              CreateRouterInterface(o, refused)
       PROVE  UNCHANGED <<routing, want, l3groups>>
  BY <1>10 DEF CreateRouterInterface
<1>11. ASSUME NEW o \in Owners, RemoveRouterInterface(o)
       PROVE  UNCHANGED <<routing, want, l3groups>>
  BY <1>11 DEF RemoveRouterInterface
<1>12. ASSUME NEW o \in Owners, NEW ip \in Ips, NEW mac \in Macs, CreateNeighbor(o, ip, mac)
       PROVE  UNCHANGED <<routing, want, l3groups>>
  BY <1>12 DEF CreateNeighbor, tables
<1>13. ASSUME NEW o \in Owners, NEW ip \in Ips, RemoveNeighbor(o, ip) \/ RemoveNextHop(o, ip)
       PROVE  UNCHANGED <<routing, want, l3groups>>
  BY <1>13 DEF RemoveNeighbor, RemoveNextHop, tables
<1>14. ASSUME NEW p \in Learners, NEW mac \in Macs, Learn(p, mac)
       PROVE  UNCHANGED <<routing, want, l3groups>>
  BY <1>14 DEF Learn, tables, client
<1>15. ASSUME NEW p \in Movers,
              \/ \E v \in Vlans, tagged \in BOOLEAN : CreateMember(p, v, tagged)
              \/ RemoveMember(p)
       PROVE  UNCHANGED <<routing, want, l3groups>>
  BY <1>15 DEF CreateMember, RemoveMember, tables, client
<1>16. ASSUME NEW v \in Vlans, RecreateVlan(v)
       PROVE  UNCHANGED <<routing, want, l3groups>>
  BY <1>16 DEF RecreateVlan, tables, client
<1>17. CASE UNCHANGED vars
  BY <1>17, <1>3 DEF vars, tables, client
<1>18. NeighborOwners \subseteq Owners
  BY BoundsAssumption
<1> QED
  BY <1>3, <1>7, <1>8, <1>9, <1>10, <1>11, <1>12, <1>13, <1>14, <1>15, <1>16, <1>17, <1>18 DEF Next

\* For a client that removes the flow of a prefix before it asks for another, the flow
\* of a call that named a next hop leads to the address that the client last gave for
\* the hop's neighbour, out of the port of its router interface, and goes on doing so
\* when memberships empty the array and elements are used again for other neighbours.
THEOREM RoutesAlwaysFollowRequests == Spec => []RouteFollowsRequest
<1>1. Init => RouteFollowsRequest
  <2> SUFFICES ASSUME Init, NEW x \in Prefixes
               PROVE  RouteRight(routing[x], want[x], l3groups)
    BY RoutesRight, Zenon
  <2>1. routing[x] = NoRoute /\ want[x] = NoWant
    BY DEF Init
  <2> QED
    BY <2>1, NamesAssumption DEF RouteRight
<1>2. TypeOK /\ KnownHops /\ GroupsInv /\ HopsInv /\ RouteFollowsRequest /\ [Next]_vars
        => RouteFollowsRequest'
  <2> SUFFICES ASSUME TypeOK, KnownHops, GroupsInv, HopsInv, RouteFollowsRequest, [Next]_vars
               PROVE  RouteFollowsRequest'
    OBVIOUS
  <2>1. CleanClient => \A x \in Prefixes : RouteRight(routing'[x], want'[x], l3groups')
    BY RoutesStep
  <2> QED
    BY <2>1, Zenon DEF RouteFollowsRequest, RouteRight
<1> QED
  BY <1>1, <1>2, HopsAlwaysRight, GroupsAlwaysRight, PTL DEF Spec
=============================================================================
