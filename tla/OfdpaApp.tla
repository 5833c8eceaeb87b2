------------------------------ MODULE OfdpaApp ------------------------------
(***************************************************************************)
(* ofdpa/main.go, flow.go, group.go: the agent application in Go.          *)
(*                                                                         *)
(* It sets up its VLANs, one request to the OF-DPA agent after the other,  *)
(* then handles the frames that the agent sends it: from the source lookup *)
(* it learns stations, from the others it makes routes to hosts.  Every    *)
(* request that is not answered with NONE ends the process, EXISTS         *)
(* included.  The agent and its tables outlive the process.                *)
(*                                                                         *)
(* A request is the key of the entry that it adds.  main ranges over a map *)
(* of VLANs, so their order is any.  The tap devices are made anew by each *)
(* run and get new MAC addresses: the number of the run stands for them.   *)
(* The agent is external: it refuses a key that exists, may refuse what    *)
(* refers to a missing group, and sends a frame for learning unless its    *)
(* station is known on that port; frames wait until they are received.     *)
(***************************************************************************)
EXTENDS Integers, Sequences, FiniteSets

CONSTANTS
  Vlans,
  PortsOf,      \* v.ports: for each VLAN the sequence of its ports
  OwnIp,        \* v.host: the application's own address in each VLAN
  Macs, Ips,    \* of stations; a station may use one of the application's addresses
  NoIp,         \* a frame that is neither ARP nor IPv4
  NoFrame,
  RefCheck,     \* the agent refuses references to missing groups
  MaxRuns,      \* bound: times that the process is started
  MaxFrames,    \* bound: frames that the agent sends
  MaxQueue      \* frames that wait for ofdpaPktReceive

Ports(v) == {PortsOf[v][i] : i \in DOMAIN PortsOf[v]}
AllPorts == UNION {Ports(v) : v \in Vlans}
VlanOf(p) == CHOOSE v \in Vlans : p \in Ports(v)     \* ifMap[p].vid

ASSUME VlansAssumption ==
  /\ Vlans \subseteq Nat \ {0} /\ Vlans # {} /\ IsFiniteSet(Vlans)
  /\ \A v \in Vlans : PortsOf[v] \in Seq(Nat \ {0})
  /\ \E v \in Vlans : PortsOf[v] # <<>>
  /\ \A v \in Vlans : \A i, j \in DOMAIN PortsOf[v] : PortsOf[v][i] = PortsOf[v][j] => i = j
  /\ \A v, w \in Vlans : v # w => Ports(v) \intersect Ports(w) = {} /\ OwnIp[v] # OwnIp[w]
ASSUME NamesAssumption ==
  /\ NoIp \notin Ips /\ RefCheck \in BOOLEAN
  /\ MaxRuns \in Nat \ {0} /\ MaxFrames \in Nat /\ MaxQueue \in Nat

VARIABLES
  \* The process.
  pc,           \* "setup", "serve" or "dead"
  todo,         \* VLANs that main has still to set up
  script,       \* requests before the next VLAN
  exists,       \* exists: hosts seen
  idx,          \* idx: number of the next L3 unicast group
  \* The agent.
  tables,       \* entries made by a set-up
  bridging,     \* bridging flows: [vid, mac, port]
  l3groups,     \* L3 unicast groups with their bucket: [idx, vid, port, mac]
  hostFlows,    \* unicast routing flows of hosts: [ip, idx]
  rxq,          \* frames sent to the process
  \* History.
  run,          \* number of this run
  sent,         \* number of frames
  cause,        \* why the process ended
  last,         \* the frame handled last
  first,        \* the frames that a host was first seen in
  builder       \* the run that added the first L2 interface group, or 0

app == <<pc, todo, script, exists, idx>>
agent == <<tables, bridging, l3groups, hostFlows>>
vars == <<app, agent, rxq, run, sent, cause, last, first, builder>>

R(kind, vid, port, mac) == [kind |-> kind, vid |-> vid, port |-> port, mac |-> mac]

-----------------------------------------------------------------------------
(* Mutants: plausible bugs, each of which breaks one of the properties.    *)

\* idx is not counted up (main.go:331).
NextIdxForgotten(i) == i
\* Frames that carry no address make a host too (main.go:320).
MakesHostAlways(f) == f.ip \notin exists
\* The host's group is that of the VLAN's first port (main.go:328).
EgressFirst(p) == PortsOf[VlanOf(p)][1]
\* An entry that exists is taken for done (main.go:30).
RefusedUnlessExists(r) == FALSE

-----------------------------------------------------------------------------
(* Set-up.                                                                 *)

\* The requests of main for a port, with the MAC address of its tap.
PortRequests(v, p) ==
  <<R("termination", v, p, run), R("acl", 0, p, run),
    R("l2group", v, p, 0), R("l2bucket", v, p, 0),
    R("tagged", v, p, 0), R("untagged", 0, p, 0)>>

\* The requests for the ports of a VLAN, six for one port after the other.
PortsRequests(v) ==
  [i \in 1 .. 6 * Len(PortsOf[v]) |->
     PortRequests(v, PortsOf[v][(i + 5) \div 6])[((i + 5) % 6) + 1]]

\* Mutant: the flood group is made before the groups of its ports (main.go:244).
VlanRequestsFloodFirst(v) ==
  <<R("flood", v, 0, 0)>>
    \o [i \in DOMAIN PortsOf[v] |-> R("floodbucket", v, PortsOf[v][i], 0)]
    \o PortsRequests(v)

VlanRequests(v) ==
  PortsRequests(v)
    \o <<R("flood", v, 0, 0)>>
    \o [i \in DOMAIN PortsOf[v] |-> R("floodbucket", v, PortsOf[v][i], 0)]
    \o <<R("hostroute", v, 0, 0)>>

BroadcastAcl == R("acl", 0, 0, 0)

\* The groups that an entry refers to or belongs to.
Needs(r) ==
  CASE r.kind = "l2bucket" -> {R("l2group", r.vid, r.port, 0)}
    [] r.kind = "floodbucket" -> {R("flood", r.vid, 0, 0), R("l2group", r.vid, r.port, 0)}
    [] OTHER -> {}

Refused(r) == r \in tables \/ (RefCheck /\ ~(Needs(r) \subseteq tables))

Die(why) == pc' = "dead" /\ cause' = why

\* main goes on to another VLAN, to the flow for ARP requests, or to the loop.
NextVlan ==
  /\ pc = "setup" /\ script = <<>>
  /\ IF todo # {}
       THEN \E v \in todo : todo' = todo \ {v} /\ script' = VlanRequests(v) /\ UNCHANGED pc
       ELSE IF BroadcastAcl \in tables
         THEN pc' = "serve" /\ UNCHANGED <<todo, script>>
         ELSE script' = <<BroadcastAcl>> /\ UNCHANGED <<pc, todo>>
  /\ UNCHANGED <<exists, idx, agent, rxq, run, sent, cause, last, first, builder>>

\* The next request of the set-up, or log.Fatal.
Request ==
  /\ pc = "setup" /\ script # <<>>
  /\ IF Refused(Head(script))
       THEN Die("setup") /\ UNCHANGED <<script, tables>>
       ELSE /\ tables' = tables \union {Head(script)}
            /\ script' = Tail(script)
            /\ UNCHANGED <<pc, cause>>
  /\ builder' = IF builder = 0 /\ Head(script).kind = "l2group" THEN run ELSE builder
  /\ UNCHANGED <<todo, exists, idx, bridging, l3groups, hostFlows, rxq, run, sent, last, first>>

-----------------------------------------------------------------------------
(* The loop.                                                               *)

\* The agent sends a frame, from the source lookup or from another table.
\* fresh (history): no frame of the station is learned or on its way.
Arrive(table, p, mac, ip) ==
  LET v == VlanOf(p)
      OfStation(b) == b.vid = v /\ b.mac = mac
      fresh == /\ \A b \in bridging : ~OfStation(b)
               /\ \A i \in DOMAIN rxq :
                    ~(rxq[i].table = "lookup" /\ rxq[i].mac = mac /\ VlanOf(rxq[i].port) = v) IN
  /\ pc = "serve" /\ sent < MaxFrames /\ Len(rxq) < MaxQueue
  /\ table = "lookup" => [vid |-> v, mac |-> mac, port |-> p] \notin bridging
  /\ sent' = sent + 1
  /\ rxq' = Append(rxq, [table |-> table, port |-> p, mac |-> mac, ip |-> ip, fresh |-> fresh])
  /\ UNCHANGED <<app, agent, run, cause, last, first, builder>>

\* AddBridgingFlow: its key is the VLAN and the address.
Learn(f) ==
  LET v == VlanOf(f.port) IN
  /\ IF \E b \in bridging : b.vid = v /\ b.mac = f.mac
       THEN Die("learn") /\ UNCHANGED bridging
       ELSE /\ bridging' = bridging \union {[vid |-> v, mac |-> f.mac, port |-> f.port]}
            /\ UNCHANGED <<pc, cause>>
  /\ UNCHANGED <<exists, idx, l3groups, hostFlows, first>>

\* A frame with an address that was not seen before.
MakesHost(f) == f.ip # NoIp /\ f.ip \notin exists
\* The port whose L2 interface group the host's group refers to.
Egress(p) == p
\* idx++
NextIdx(i) == i + 1

\* AddL3UnicastGroup, then AddUnicastRoutingFlow.
MakeHost(f) ==
  LET group == [idx |-> idx, vid |-> VlanOf(f.port), port |-> Egress(f.port), mac |-> f.mac]
      groupThere == \E g \in l3groups : g.idx = idx
      flowThere == \/ \E v \in Vlans : OwnIp[v] = f.ip /\ R("hostroute", v, 0, 0) \in tables
                   \/ \E h \in hostFlows : h.ip = f.ip IN
  /\ exists' = exists \union {f.ip}
  /\ idx' = NextIdx(idx)
  /\ first' = first \union {f}
  /\ l3groups' = IF groupThere THEN l3groups ELSE l3groups \union {group}
  /\ IF groupThere \/ flowThere
       THEN Die("host") /\ UNCHANGED hostFlows
       ELSE /\ hostFlows' = hostFlows \union {[ip |-> f.ip, idx |-> idx]}
            /\ UNCHANGED <<pc, cause>>
  /\ UNCHANGED bridging

\* One turn of the loop.
Receive ==
  /\ pc = "serve" /\ rxq # <<>>
  /\ LET f == Head(rxq) IN
       /\ IF f.table = "lookup" THEN Learn(f)
          ELSE IF MakesHost(f) THEN MakeHost(f)
          ELSE UNCHANGED <<pc, exists, idx, bridging, l3groups, hostFlows, cause, first>>
       /\ last' = f
  /\ rxq' = Tail(rxq)
  /\ UNCHANGED <<todo, script, tables, run, sent, builder>>

-----------------------------------------------------------------------------
(* The process ends and is started again; the agent keeps its tables.      *)

\* Somebody ends the process.
Kill == pc # "dead" /\ Die("killed")
        /\ UNCHANGED <<todo, script, exists, idx, agent, rxq, run, sent, last, first, builder>>

Start ==
  /\ pc = "dead" /\ run < MaxRuns
  /\ run' = run + 1
  /\ pc' = "setup" /\ todo' = Vlans /\ script' = <<>> /\ exists' = {} /\ idx' = 0
  /\ rxq' = <<>> /\ cause' = "none" /\ last' = NoFrame /\ first' = {}
  /\ UNCHANGED <<agent, sent, builder>>

Init ==
  /\ pc = "setup" /\ todo = Vlans /\ script = <<>> /\ exists = {} /\ idx = 0
  /\ tables = {} /\ bridging = {} /\ l3groups = {} /\ hostFlows = {}
  /\ rxq = <<>> /\ run = 1 /\ sent = 0 /\ cause = "none" /\ last = NoFrame /\ first = {}
  /\ builder = 0

Next ==
  \/ NextVlan \/ Request \/ Receive \/ Kill \/ Start
  \/ \E table \in {"lookup", "other"}, p \in AllPorts, mac \in Macs, ip \in Ips \union {NoIp} :
       Arrive(table, p, mac, ip)

Spec == Init /\ [][Next]_vars

-----------------------------------------------------------------------------
(* Properties.                                                             *)

Frames == [table : {"lookup", "other"}, port : AllPorts, mac : Macs,
           ip : Ips \union {NoIp}, fresh : BOOLEAN]

\* Every variable has its type.
TypeOK ==
  /\ pc \in {"setup", "serve", "dead"} /\ todo \subseteq Vlans
  /\ cause \in {"none", "setup", "learn", "host", "killed"}
  /\ exists \subseteq Ips /\ idx \in 0 .. MaxFrames
  /\ rxq \in Seq(Frames) /\ Len(rxq) <= MaxQueue /\ last \in Frames \union {NoFrame}
  /\ first \subseteq Frames
  /\ run \in 1 .. MaxRuns /\ builder \in 0 .. MaxRuns /\ sent \in 0 .. MaxFrames
  /\ bridging \subseteq [vid : Vlans, mac : Macs, port : AllPorts]
  /\ l3groups \subseteq [idx : 0 .. MaxFrames, vid : Vlans, port : AllPorts, mac : Macs]
  /\ hostFlows \subseteq [ip : Ips, idx : 0 .. MaxFrames]

\* On an agent with empty tables the set-up succeeds, in whatever order main takes the
\* VLANs: no key comes twice, and each group is there before it is referred to
\* (main.go:205-255).
FirstSetupSucceeds == run = 1 => cause # "setup"

\* A process that is started again serves only if no earlier run got as far as its
\* first L2 interface group: the agent keeps it, and answers EXISTS (main.go:234).
RestartNeedsCleanAgent ==
  pc = "serve" => builder = run

\* The loop ends the process only for a station whose first frame was learned or on its
\* way already when the agent sent this one, or for a host that uses an address of
\* the application's own (main.go:293-337): not for any first frame, in any order.
LoopDiesOfRepeats ==
  /\ cause = "learn" => ~last.fresh
  /\ cause = "host" => \E v \in Vlans : last.ip = OwnIp[v]

\* The flow of a host leads to a group of its own, to the station and out of the port that
\* the host was first seen with, and that port's L2 interface group is there.
HostsLeadToFirstStation ==
  pc = "serve" => \A h \in hostFlows :
    \E g \in l3groups, f \in first :
      /\ g.idx = h.idx /\ f.ip = h.ip
      /\ g.mac = f.mac /\ g.port = f.port
      /\ R("l2bucket", g.vid, g.port, 0) \in tables
      /\ \A k \in hostFlows : k.idx = h.idx => k = h
=============================================================================
