------------------------------ MODULE SaiVlan ------------------------------
(***************************************************************************)
(* ofdpa-sai/sai.c: VLANs, VLAN members and host interfaces of the SAI     *)
(* adapter, the OF-DPA tables they program, and the packet receive thread  *)
(* that learns MAC addresses into one of those tables at the same time.    *)
(*                                                                         *)
(* Two threads act.  The API thread runs one SAI call at a time; a step of *)
(* it is one call into OF-DPA or one write of a field that the receive     *)
(* thread reads.  The receive thread (pkt_recv_loop) tests port->disabled, *)
(* reads port->vid and adds a bridging flow in three steps, with no lock   *)
(* in between.  The OF-DPA agent answers each request atomically and ages  *)
(* out the idle bridging flows; it is outside the repository and modelled  *)
(* from the calls in sai.c.                                                *)
(*                                                                         *)
(* The caller's side of the SAI contract is in the guards of the calls: a  *)
(* port has its host interface before it gets members, at most one         *)
(* untagged membership and one membership per VLAN, a VLAN is removed when *)
(* it has no members left.                                                 *)
(***************************************************************************)
EXTENDS Naturals, FiniteSets

CONSTANTS
  Ports,           \* the switch ports
  UserVids,        \* the VLAN ids the SAI client may create
  DefaultVid,      \* DefaultVid[p]: i + VLAN_OFFSET, the vid of a port of its own
  NoVid, NoPort,   \* "no VLAN", "no port"
  MaxMac,          \* bound: stations have the MAC addresses 1 .. MaxMac
  MaxBuckets,      \* MAX_PORTS: bucket indexes of a flood group
  MaxFrames,       \* bound: frames handed to the receive thread
  RefCheck,        \* the agent refuses a reference to a missing group and the
                   \*   deletion of a group that is still referenced
  TablesMayFill,   \* the agent may answer OFDPA_E_FULL to an add
  UseFailedPorts   \* the client goes on using a port after a call failed on it

Macs == 1 .. MaxMac
Vids == UserVids \union {DefaultVid[p] : p \in Ports}
Indexes == 0 .. (MaxBuckets - 1)

ASSUME PortsAssumption == NoPort \notin Ports

\* A failure is recorded by its object, which is a port or a VLAN.
ASSUME ObjectsAssumption == Ports \intersect UserVids = {}

\* Nothing in sai.c keeps a client off the vids 10, 11, ... of the ports'
\* own VLANs; a client that uses one is outside this model.
ASSUME VidsAssumption ==
  /\ \A p, q \in Ports : DefaultVid[p] = DefaultVid[q] => p = q
  /\ \A p \in Ports : DefaultVid[p] \notin UserVids
  /\ NoVid \notin Vids

ASSUME BoundsAssumption ==
  /\ MaxMac \in Nat
  /\ MaxFrames \in Nat
  /\ MaxBuckets \in Nat \ {0}

ASSUME SwitchesAssumption ==
  RefCheck \in BOOLEAN /\ TablesMayFill \in BOOLEAN /\ UseFailedPorts \in BOOLEAN

VARIABLES
  \* The adapter's own state.
  vlans,      \* vids of the list of VLANs
  members,    \* members[p]: the list port->vlans, as [vid, tagged]
  vid,        \* port->vid
  disabled,   \* port->disabled
  hostif,     \* ports for which create_hostif was called
  neigh_db,   \* neigh_db[p]: addresses ever learned on p
  \* The API thread.
  pc,         \* the next step of the call in progress, or "idle"
  call,       \* [op, port, old, vid, tagged] of the call in progress
  cursor,     \* the entry the flush loop has reached
  failures,   \* history: [obj, op, step] of every call that failed
  \* The receive thread.
  rx,         \* [at, port, mac, tag, vid] of the frame being handled
  frames,     \* how many frames it was handed
  \* The agent's tables.
  group,      \* group[<<v, p>>]: L2 interface group: "none", "empty" (without a
              \*   bucket), "pop" or "keep"
  flood,      \* vids with an L2 flood group
  dlf,        \* vids with a bridging flow for unknown destinations
  bucket,     \* bucket[<<v, i>>]: the port of bucket i of flood group v, or NoPort
  taggedFlow, \* <<v, p>>: VLAN flow that lets frames tagged v in on p
  untaggedFlow, \* untaggedFlow[p]: vid given to untagged frames, or NoVid
  learned     \* learned[<<v, m>>]: port of the bridging flow for m in v, or NoPort

adapter == <<vlans, members, vid, disabled, hostif>>
api == <<pc, call, cursor, failures>>
recv == <<rx, frames, neigh_db>>
vlanTables == <<group, flood, dlf, bucket, taggedFlow, untaggedFlow>>
vars == <<adapter, api, recv, vlanTables, learned>>

MemberVids(p) == {m.vid : m \in members[p]}
NoCall == [op |-> "none", port |-> NoPort, old |-> NoVid, vid |-> NoVid, tagged |-> FALSE]
NoFrame == [at |-> "receive", port |-> NoPort, mac |-> 0, tag |-> NoVid, vid |-> NoVid]

Failed(x) == \E f \in failures : f.obj = x
Usable(p) == UseFailedPorts \/ ~Failed(p)

-----------------------------------------------------------------------------
(* The API thread: entering and leaving a call.                            *)

Enter(step, newCall) ==
  /\ pc = "idle"
  /\ pc' = step
  /\ call' = newCall
  /\ cursor' = 0
  /\ UNCHANGED failures

\* The call of OF-DPA succeeded (or said EXISTS, which ofdpa_err2sai_status
\* turns into success): go on.
Continue(step) ==
  /\ pc' = step
  /\ call' = IF step = "idle" THEN NoCall ELSE call
  /\ UNCHANGED <<cursor, failures>>

\* Any other answer: "return err" at once, with everything as it is now.
Abort ==
  /\ pc' = "idle"
  /\ call' = NoCall
  /\ failures' = failures \union {[obj |-> IF call.port = NoPort THEN call.vid ELSE call.port,
                                op |-> call.op, step |-> pc]}
  /\ UNCHANGED cursor

\* sai_create_vlan
CreateVlan(v) ==
  /\ v \notin vlans
  /\ Enter("addFlood", [NoCall EXCEPT !.op = "createVlan", !.vid = v])
  /\ vlans' = vlans \union {v}
  /\ UNCHANGED <<members, vid, disabled, hostif, recv, vlanTables, learned>>

\* sai_remove_vlan
RemoveVlan(v) ==
  /\ v \in vlans /\ ~Failed(v)
  /\ \A p \in Ports : v \notin MemberVids(p)
  /\ Enter("delDlf", [NoCall EXCEPT !.op = "removeVlan", !.vid = v])
  /\ UNCHANGED <<adapter, recv, vlanTables, learned>>

\* sai_create_hostif
CreateHostif(p) ==
  /\ p \notin hostif /\ ~Failed(p)
  /\ Enter("addGroup", [op |-> "hostif", port |-> p, old |-> NoVid,
                        vid |-> vid[p], tagged |-> FALSE])
  /\ hostif' = hostif \union {p}
  /\ UNCHANGED <<vlans, members, vid, disabled, recv, vlanTables, learned>>

\* sai_create_vlan_member: the vid of the port changes before it is disabled.
CreateMember(p, v, tagged) ==
  /\ v \in vlans /\ ~Failed(v)
  /\ p \in hostif /\ Usable(p)
  /\ v \notin MemberVids(p)
  /\ ~tagged => \A m \in members[p] : m.tagged
  /\ Enter("disable", [op |-> "create", port |-> p, old |-> vid[p],
                       vid |-> v, tagged |-> tagged])
  /\ vid' = IF tagged THEN vid ELSE [vid EXCEPT ![p] = v]
  /\ members' = [members EXCEPT ![p] = @ \union {[vid |-> v, tagged |-> tagged]}]
  /\ UNCHANGED <<vlans, disabled, hostif, recv, vlanTables, learned>>

\* sai_remove_vlan_member
RemoveMember(p, m) ==
  /\ m \in members[p] /\ Usable(p)
  /\ Enter("flush", [op |-> "remove", port |-> p, old |-> m.vid,
                     vid |-> DefaultVid[p], tagged |-> m.tagged])
  /\ disabled' = [disabled EXCEPT ![p] = TRUE]
  /\ UNCHANGED <<vlans, members, vid, hostif, recv, vlanTables, learned>>

-----------------------------------------------------------------------------
(* Mutants: steps of the code below with a plausible bug each.             *)

\* A tagged membership replaces the access VLAN as well.
DisableAlwaysAccess ==
  /\ pc = "disable"
  /\ disabled' = [disabled EXCEPT ![call.port] = TRUE]
  /\ Continue("delUntagged")
  /\ UNCHANGED <<vlans, members, vid, hostif, recv, vlanTables, learned>>

\* The port stays enabled during the call.
DisableForgotten ==
  /\ pc = "disable"
  /\ Continue(IF call.tagged THEN "addGroup" ELSE "delUntagged")
  /\ UNCHANGED <<adapter, recv, vlanTables, learned>>

\* Every ofdpaFlowNextGet starts from the beginning of the table.
FlushNextFromStart ==
  LET next == {m \in Macs : learned[<<call.old, m>>] # NoPort} IN
  /\ pc = "flush"
  /\ IF next = {}
       THEN Continue(IF call.op = "create" THEN "delGroup" ELSE "delBucket")
       ELSE \E m \in next :
              /\ \A k \in next : m <= k
              /\ cursor' = m
              /\ pc' = IF learned[<<call.old, m>>] = call.port THEN "flushDelete" ELSE "flush"
              /\ UNCHANGED <<call, failures>>
  /\ UNCHANGED <<adapter, recv, vlanTables, learned>>

\* The first bucket of the group goes, whatever it refers to.
DelBucketFirst ==
  LET used == {i \in Indexes : bucket[<<call.old, i>>] # NoPort} IN
  /\ pc = "delBucket"
  /\ \E i \in used :
       /\ \A j \in used : i <= j
       /\ bucket' = [bucket EXCEPT ![<<call.old, i>>] = NoPort]
       /\ Continue(IF call.tagged THEN "delTagged" ELSE "delUntagged")
  /\ UNCHANGED <<adapter, recv, group, flood, dlf, taggedFlow, untaggedFlow, learned>>

\* The bucket is not deleted.
DelBucketForgotten ==
  /\ pc = "delBucket"
  /\ Continue(IF call.tagged THEN "delTagged" ELSE "delUntagged")
  /\ UNCHANGED <<adapter, recv, vlanTables, learned>>

\* port->vid = 0 when the access membership goes.
ResetVidZero ==
  /\ pc = "resetVid"
  /\ vid' = [vid EXCEPT ![call.port] = NoVid]
  /\ Continue("addGroup")
  /\ UNCHANGED <<vlans, members, disabled, hostif, recv, vlanTables, learned>>

\* port->vid stays the vid of the removed membership.
ResetVidForgotten ==
  /\ pc = "resetVid"
  /\ Continue("addGroup")
  /\ UNCHANGED <<adapter, recv, vlanTables, learned>>

\* The receive thread does not test port->disabled.
RxCheckForgotten ==
  /\ rx.at = "check"
  /\ rx' = [rx EXCEPT !.at = "vid"]
  /\ UNCHANGED <<adapter, api, frames, neigh_db, vlanTables, learned>>

\* The address is not added to the port's list.
RxVidOnly ==
  /\ rx.at = "vid"
  /\ rx' = [rx EXCEPT !.at = "learn",
                      !.vid = IF rx.tag = NoVid THEN vid[rx.port] ELSE rx.tag]
  /\ UNCHANGED <<adapter, api, frames, neigh_db, vlanTables, learned>>

-----------------------------------------------------------------------------
(* The API thread: the steps of the calls, in the order of the code.  "The *)
(* old VLAN" is call.old: the port's previous vid in create_vlan_member,   *)
(* the member's vid in remove_vlan_member.                                 *)

\* An add may be refused because the table is full, unless the key exists.
TableFull == TablesMayFill /\ Abort

\* port->disabled = true in create_vlan_member; only an access VLAN replaces
\* what is programmed for untagged frames.  The reset of port->num_neighbor beside it
\* matters to neighbours only: SaiL3's CreateMember.
Disable ==
  /\ pc = "disable"
  /\ disabled' = [disabled EXCEPT ![call.port] = TRUE]
  /\ Continue(IF call.tagged THEN "addGroup" ELSE "delUntagged")
  /\ UNCHANGED <<vlans, members, vid, hostif, recv, vlanTables, learned>>

\* ofdpa_sai_delete_untagged_vlan_flow_entry: the entry is found by its port
\* alone, whatever vid it gives.
DelUntagged ==
  /\ pc = "delUntagged"
  /\ IF untaggedFlow[call.port] # NoVid
       THEN /\ untaggedFlow' = [untaggedFlow EXCEPT ![call.port] = NoVid]
            /\ Continue(IF call.op = "create" THEN "flush" ELSE "delTagged")
       ELSE Abort /\ UNCHANGED untaggedFlow
  /\ UNCHANGED <<adapter, recv, group, flood, dlf, bucket, taggedFlow, learned>>

\* ofdpa_sai_flush_bridging_flows, ofdpaFlowNextGet: the next entry of the old
\* VLAN behind the cursor; entries that point elsewhere are passed over.
FlushNext ==
  LET next == {m \in Macs : m > cursor /\ learned[<<call.old, m>>] # NoPort} IN
  /\ pc = "flush"
  /\ IF next = {}
       THEN Continue(IF call.op = "create" THEN "delGroup" ELSE "delBucket")
       ELSE \E m \in next :
              /\ \A k \in next : m <= k
              /\ cursor' = m
              /\ pc' = IF learned[<<call.old, m>>] = call.port THEN "flushDelete" ELSE "flush"
              /\ UNCHANGED <<call, failures>>
  /\ UNCHANGED <<adapter, recv, vlanTables, learned>>

\* ofdpa_sai_flush_bridging_flows, ofdpaFlowDelete: the entry may have aged out
\* since, which the code takes for a failure of the whole call.
FlushDelete ==
  /\ pc = "flushDelete"
  /\ IF learned[<<call.old, cursor>>] # NoPort
       THEN /\ learned' = [learned EXCEPT ![<<call.old, cursor>>] = NoPort]
            /\ Continue("flush")
       ELSE Abort /\ UNCHANGED learned
  /\ UNCHANGED <<adapter, recv, vlanTables>>

\* ofdpa_sai_delete_dlf_bucket, with get_bucket_by_reference_gid: the first
\* bucket of the old VLAN's flood group that refers to the port.
DelBucket ==
  LET mine == {i \in Indexes : bucket[<<call.old, i>>] = call.port} IN
  /\ pc = "delBucket"
  /\ IF mine # {}
       THEN \E i \in mine :
              /\ \A j \in mine : i <= j
              /\ bucket' = [bucket EXCEPT ![<<call.old, i>>] = NoPort]
              /\ Continue(IF call.tagged THEN "delTagged" ELSE "delUntagged")
       ELSE Abort /\ UNCHANGED bucket
  /\ UNCHANGED <<adapter, recv, group, flood, dlf, taggedFlow, untaggedFlow, learned>>

\* The tagged half of ofdpa_sai_delete_vlan_flow_entry.
DelTagged ==
  /\ pc = "delTagged"
  /\ IF <<call.old, call.port>> \in taggedFlow
       THEN /\ taggedFlow' = taggedFlow \ {<<call.old, call.port>>}
            /\ Continue("delGroup")
       ELSE Abort /\ UNCHANGED taggedFlow
  /\ UNCHANGED <<adapter, recv, group, flood, dlf, bucket, untaggedFlow, learned>>

\* What still refers to the L2 interface group of v on p.
Referenced(v, p) ==
  \/ \E m \in Macs : learned[<<v, m>>] = p
  \/ \E i \in Indexes : bucket[<<v, i>>] = p

\* ofdpa_sai_delete_l2_interface_group
DelGroup ==
  /\ pc = "delGroup"
  /\ IF /\ group[<<call.old, call.port>>] # "none"
        /\ RefCheck => ~Referenced(call.old, call.port)
       THEN /\ group' = [group EXCEPT ![<<call.old, call.port>>] = "none"]
            /\ Continue(CASE call.op = "create" -> "addGroup"
                          [] call.op = "remove" /\ call.tagged -> "enable"
                          [] call.op = "remove" /\ ~call.tagged -> "resetVid")
       ELSE Abort /\ UNCHANGED group
  /\ UNCHANGED <<adapter, recv, flood, dlf, bucket, taggedFlow, untaggedFlow, learned>>

\* remove_vlan_member: port->vid = port->i + VLAN_OFFSET
ResetVid ==
  /\ pc = "resetVid"
  /\ vid' = [vid EXCEPT ![call.port] = DefaultVid[call.port]]
  /\ Continue("addGroup")
  /\ UNCHANGED <<vlans, members, disabled, hostif, recv, vlanTables, learned>>

\* ofdpa_sai_add_l2_interface_group: the group, then its bucket; a bucket that exists
\* stays.  Nothing else is done between the two requests that a step could see.
AddGroup ==
  LET p == call.port  v == call.vid IN
  /\ pc = "addGroup"
  /\ \/ /\ group' = [group EXCEPT ![<<v, p>>] =
              IF @ \in {"pop", "keep"} THEN @ ELSE IF call.tagged THEN "keep" ELSE "pop"]
        /\ Continue(IF call.op = "remove" THEN "addUntagged" ELSE "addTagged")
     \/ /\ group[<<v, p>>] \in {"none", "empty"}
        /\ TableFull
        /\ group' \in {group, [group EXCEPT ![<<v, p>>] = "empty"]}
  /\ UNCHANGED <<adapter, recv, flood, dlf, bucket, taggedFlow, untaggedFlow, learned>>

\* The tagged half of ofdpa_sai_add_vlan_flow_entry.
AddTagged ==
  LET key == <<call.vid, call.port>> IN
  /\ pc = "addTagged"
  /\ \/ /\ taggedFlow' = taggedFlow \union {key}
        /\ Continue(IF call.tagged THEN "addBucket" ELSE "addUntagged")
     \/ key \notin taggedFlow /\ TableFull /\ UNCHANGED taggedFlow
  /\ UNCHANGED <<adapter, recv, group, flood, dlf, bucket, untaggedFlow, learned>>

\* The untagged half, and ofdpa_sai_add_untagged_vlan_flow_entry: the first
\* entry of a port stays.
AddUntagged ==
  LET p == call.port IN
  /\ pc = "addUntagged"
  /\ \/ /\ untaggedFlow' = [untaggedFlow EXCEPT ![p] = IF @ = NoVid THEN call.vid ELSE @]
        /\ Continue(CASE call.op = "create" -> "addBucket"
                      [] call.op = "remove" -> "enable"
                      [] call.op = "hostif" -> "idle")
     \/ untaggedFlow[p] = NoVid /\ TableFull /\ UNCHANGED untaggedFlow
  /\ UNCHANGED <<adapter, recv, group, flood, dlf, bucket, taggedFlow, learned>>

\* ofdpa_sai_add_dlf_bucket: the first free index below MAX_PORTS.
AddBucket ==
  LET p == call.port  v == call.vid
      free == {i \in Indexes : bucket[<<v, i>>] = NoPort} IN
  /\ pc = "addBucket"
  /\ \/ \E i \in free :
           /\ \A j \in free : i <= j
           /\ v \in flood
           /\ RefCheck => group[<<v, p>>] # "none"
           /\ bucket' = [bucket EXCEPT ![<<v, i>>] = p]
           /\ Continue("enable")
     \/ /\ free = {} \/ v \notin flood \/ (RefCheck /\ group[<<v, p>>] = "none")
        /\ Abort /\ UNCHANGED bucket
     \/ TableFull /\ UNCHANGED bucket
  /\ UNCHANGED <<adapter, recv, group, flood, dlf, taggedFlow, untaggedFlow, learned>>

\* port->disabled = false, and in remove_vlan_member ofdpa_sai_delete_vlan_member.
Enable ==
  LET p == call.port IN
  /\ pc = "enable"
  /\ disabled' = [disabled EXCEPT ![p] = FALSE]
  /\ members' = IF call.op = "create" THEN members
                ELSE [members EXCEPT ![p] = {m \in @ : m.vid # call.old}]
  /\ Continue("idle")
  /\ UNCHANGED <<vlans, vid, hostif, recv, vlanTables, learned>>

\* ofdpa_sai_add_dlf_flow: the flood group, then the flow that refers to it.
AddFlood ==
  /\ pc = "addFlood"
  /\ \/ flood' = flood \union {call.vid} /\ Continue("addDlf")
     \/ call.vid \notin flood /\ TableFull /\ UNCHANGED flood
  /\ UNCHANGED <<adapter, recv, group, dlf, bucket, taggedFlow, untaggedFlow, learned>>

AddDlf ==
  /\ pc = "addDlf"
  /\ \/ dlf' = dlf \union {call.vid} /\ Continue("idle")
     \/ call.vid \notin dlf /\ TableFull /\ UNCHANGED dlf
  /\ UNCHANGED <<adapter, recv, group, flood, bucket, taggedFlow, untaggedFlow, learned>>

\* ofdpa_sai_delete_dlf_flow, then delete_vlan.
DelDlf ==
  /\ pc = "delDlf"
  /\ IF call.vid \in dlf
       THEN dlf' = dlf \ {call.vid} /\ Continue("delFlood")
       ELSE Abort /\ UNCHANGED dlf
  /\ UNCHANGED <<adapter, recv, group, flood, bucket, taggedFlow, untaggedFlow, learned>>

DelFlood ==
  /\ pc = "delFlood"
  /\ IF call.vid \in flood
       THEN /\ flood' = flood \ {call.vid}
            /\ bucket' = [k \in DOMAIN bucket |-> IF k[1] = call.vid THEN NoPort ELSE bucket[k]]
            /\ vlans' = vlans \ {call.vid}
            /\ Continue("idle")
       ELSE Abort /\ UNCHANGED <<flood, bucket, vlans>>
  /\ UNCHANGED <<members, vid, disabled, hostif, recv, group, dlf, taggedFlow,
                 untaggedFlow, learned>>

-----------------------------------------------------------------------------
(* The receive thread.                                                     *)

\* ofdpaPktReceive hands over a frame that the tables let in on p: an unknown
\* source, or a broadcast that the ACL table copies.
RxReceive(p, m, tag) ==
  /\ rx.at = "receive" /\ frames < MaxFrames
  /\ IF tag = NoVid THEN untaggedFlow[p] # NoVid ELSE <<tag, p>> \in taggedFlow
  /\ rx' = [at |-> "check", port |-> p, mac |-> m, tag |-> tag, vid |-> NoVid]
  /\ frames' = frames + 1
  /\ UNCHANGED <<adapter, api, neigh_db, vlanTables, learned>>

\* ofdpaPktReceive fails: the thread is gone.
RxEnd ==
  /\ rx.at = "receive" /\ MaxFrames > 0
  /\ rx' = [rx EXCEPT !.at = "ended"]
  /\ UNCHANGED <<adapter, api, frames, neigh_db, vlanTables, learned>>

\* if ( port->disabled ) continue;
RxCheck ==
  /\ rx.at = "check"
  /\ rx' = IF disabled[rx.port] THEN NoFrame ELSE [rx EXCEPT !.at = "vid"]
  /\ UNCHANGED <<adapter, api, frames, neigh_db, vlanTables, learned>>

\* The vid of the tag, or port->vid; the address goes to the port's list.
RxVid ==
  /\ rx.at = "vid"
  /\ rx' = [rx EXCEPT !.at = "learn",
                      !.vid = IF rx.tag = NoVid THEN vid[rx.port] ELSE rx.tag]
  /\ neigh_db' = [neigh_db EXCEPT ![rx.port] = @ \union {rx.mac}]
  /\ UNCHANGED <<adapter, api, frames, vlanTables, learned>>

\* ofdpa_sai_add_bridging_flow: an entry for the address that exists stays as
\* it is, and a failure is only logged.
RxLearn ==
  /\ rx.at = "learn"
  /\ \/ /\ RefCheck => group[<<rx.vid, rx.port>>] # "none"
        /\ learned' = [learned EXCEPT ![<<rx.vid, rx.mac>>] = IF @ = NoPort THEN rx.port ELSE @]
     \/ /\ TablesMayFill \/ (RefCheck /\ group[<<rx.vid, rx.port>>] = "none")
        /\ UNCHANGED learned
  /\ rx' = NoFrame
  /\ UNCHANGED <<adapter, api, frames, neigh_db, vlanTables>>

\* The agent removes a bridging flow that was idle for its idle_time.
AgeOut(v, m) ==
  /\ learned[<<v, m>>] # NoPort
  /\ learned' = [learned EXCEPT ![<<v, m>>] = NoPort]
  /\ UNCHANGED <<adapter, api, recv, vlanTables>>

-----------------------------------------------------------------------------
Init ==
  /\ vlans = {} /\ hostif = {} /\ failures = {}
  /\ members = [p \in Ports |-> {}]
  /\ vid = [p \in Ports |-> DefaultVid[p]]
  /\ disabled = [p \in Ports |-> FALSE]
  /\ neigh_db = [p \in Ports |-> {}]
  /\ pc = "idle" /\ call = NoCall /\ cursor = 0
  /\ rx = NoFrame /\ frames = 0
  /\ group = [k \in Vids \X Ports |-> "none"]
  /\ flood = {} /\ dlf = {} /\ taggedFlow = {}
  /\ bucket = [k \in Vids \X Indexes |-> NoPort]
  /\ untaggedFlow = [p \in Ports |-> NoVid]
  /\ learned = [k \in Vids \X Macs |-> NoPort]

\* The client calls the adapter.
Request ==
  \/ \E v \in UserVids : CreateVlan(v) \/ RemoveVlan(v)
  \/ \E p \in Ports : CreateHostif(p)
  \/ \E p \in Ports, v \in UserVids, tagged \in BOOLEAN : CreateMember(p, v, tagged)
  \/ \E p \in Ports : \E m \in members[p] : RemoveMember(p, m)

\* The adapter carries the call out.
Work ==
  \/ Disable \/ DelUntagged \/ FlushNext \/ FlushDelete \/ DelBucket \/ DelTagged
  \/ DelGroup \/ ResetVid \/ AddGroup \/ AddTagged \/ AddUntagged \/ AddBucket
  \/ Enable \/ AddFlood \/ AddDlf \/ DelDlf \/ DelFlood

Receive ==
  \/ \E p \in Ports, m \in Macs, tag \in Vids \union {NoVid} : RxReceive(p, m, tag)
  \/ RxEnd \/ RxCheck \/ RxVid \/ RxLearn

Next == Request \/ Work \/ Receive \/ \E v \in Vids, m \in Macs : AgeOut(v, m)

Spec == Init /\ [][Next]_vars

\* OF-DPA answers every request, so a call that has begun goes on.
FairSpec == Spec /\ WF_vars(Work)

-----------------------------------------------------------------------------
(* Properties.                                                             *)

Ops == {"hostif", "create", "remove", "createVlan", "removeVlan"}
PortSteps == {"disable", "delUntagged", "flush", "flushDelete", "delBucket", "delTagged",
              "delGroup", "resetVid", "addGroup", "addTagged", "addUntagged", "addBucket",
              "enable"}
VlanSteps == {"addFlood", "addDlf", "delDlf", "delFlood"}

AdapterOK ==
  /\ vlans \subseteq UserVids /\ hostif \subseteq Ports
  /\ members \in [Ports -> SUBSET [vid : UserVids, tagged : BOOLEAN]]
  /\ vid \in [Ports -> Vids]
  /\ disabled \in [Ports -> BOOLEAN]

PortCalls == [op : {"hostif", "create", "remove"}, port : Ports,
              old : Vids \union {NoVid}, vid : Vids, tagged : BOOLEAN]
VlanCalls == [op : {"createVlan", "removeVlan"}, port : {NoPort},
              old : {NoVid}, vid : UserVids, tagged : {FALSE}]

CallOK ==
  \/ pc = "idle" /\ call = NoCall
  \/ /\ pc \in PortSteps /\ call \in PortCalls
     /\ call.op = "hostif" =>
          ~call.tagged /\ pc \in {"addGroup", "addTagged", "addUntagged"}
     /\ call.op # "hostif" => call.old \in Vids
     /\ call.op = "remove" => call.old \in UserVids
  \/ pc \in VlanSteps /\ call \in VlanCalls

ApiOK ==
  /\ CallOK
  /\ cursor \in Macs \union {0}
  /\ pc = "flushDelete" => cursor \in Macs
  /\ failures \subseteq [obj : Ports \union UserVids, op : Ops, step : PortSteps \union VlanSteps]

Frames(at, vids) ==
  [at : at, port : Ports, mac : Macs, tag : Vids \union {NoVid}, vid : vids]

RecvOK ==
  /\ \/ rx = NoFrame \/ rx = [NoFrame EXCEPT !.at = "ended"]
     \/ rx \in Frames({"check", "vid"}, {NoVid}) \/ rx \in Frames({"learn"}, Vids)
  /\ frames \in 0 .. MaxFrames
  /\ neigh_db \in [Ports -> SUBSET Macs]

TablesOK ==
  /\ group \in [Vids \X Ports -> {"none", "empty", "pop", "keep"}]
  /\ flood \subseteq UserVids /\ dlf \subseteq UserVids
  /\ bucket \in [Vids \X Indexes -> Ports \union {NoPort}]
  /\ taggedFlow \subseteq Vids \X Ports
  /\ untaggedFlow \in [Ports -> Vids \union {NoVid}]
  /\ learned \in [Vids \X Macs -> Ports \union {NoPort}]

\* Every variable has its type, and the call in progress is one of the
\* calls of the step the API thread has reached.
TypeOK == AdapterOK /\ ApiOK /\ RecvOK /\ TablesOK

\* The VLAN of the port's untagged frames, as the client configured it.
AccessVid(p) ==
  IF \E m \in members[p] : ~m.tagged
    THEN (CHOOSE m \in members[p] : ~m.tagged).vid
    ELSE DefaultVid[p]

\* When no call is at work on a port and none failed on it, the port is
\* enabled and the tables hold exactly what its memberships ask for: one
\* group per VLAN, popping the tag in the access VLAN only, VLAN flows for
\* the member VLANs and the port's own, one flood bucket per membership
\* (sai.c:603-759, 2222-2289).
SettledPortIsExact ==
  \A p \in hostif : (call.port # p /\ ~Failed(p)) =>
    /\ ~disabled[p]
    /\ vid[p] = AccessVid(p)
    /\ untaggedFlow[p] = AccessVid(p)
    /\ \A v \in Vids :
         /\ group[<<v, p>>] = IF v = AccessVid(p) THEN "pop"
                          ELSE IF v \in MemberVids(p) THEN "keep" ELSE "none"
         /\ <<v, p>> \in taggedFlow <=> v \in MemberVids(p) \union {DefaultVid[p]}
         /\ Cardinality({i \in Indexes : bucket[<<v, i>>] = p}) =
              IF v \in MemberVids(p) THEN 1 ELSE 0

\* What a client of the VLAN API sees of the adapter and the tables.
Service(p) ==
  IF Failed(p) THEN "lost"
  ELSE IF call.port = p THEN IF call.op = "hostif" THEN "new" ELSE "down"
  ELSE IF p \in hostif THEN "up" ELSE "none"

SettledMembers(p) ==
  IF Failed(p) THEN {}
  ELSE IF call.port = p /\ call.op = "create" THEN {m \in members[p] : m.vid # call.vid}
  ELSE members[p]

Flooded == flood \intersect dlf
TablesOf(p) ==
  [untagged |-> untaggedFlow[p],
   tagged   |-> {v \in Vids : <<v, p>> \in taggedFlow},
   out      |-> [v \in Vids |-> group[<<v, p>>]],
   copies   |-> [v \in Vids |-> IF v \notin Flooded THEN 0
                                ELSE Cardinality({i \in Indexes : bucket[<<v, i>>] = p})],
   learns   |-> IF disabled[p] THEN NoVid ELSE vid[p]]

Nothing == [untagged |-> 0, tagged |-> {}, out |-> [v \in Vids |-> "none"],
            copies |-> [v \in Vids |-> 0], learns |-> 0]

Api == INSTANCE VlanApi WITH
  vlans <- Flooded,
  members <- [p \in Ports |-> SettledMembers(p)],
  service <- [p \in Ports |-> Service(p)],
  forwards <- [p \in Ports |-> IF Service(p) = "up" THEN TablesOf(p) ELSE Nothing]

\* To its client, the adapter is VlanApi: a membership is added or removed at one
\* moment, with all that the port's tables say of it; at no step of a call, of a
\* failure or of the receive thread does a port change that no call is at work on; and
\* a port on which a call failed stays out (sai.c:603-759, 2222-2289).
ImplementsVlanApi == Api!Spec

\* Without frames and with room in the tables, no call of a client that keeps
\* to the contract fails: the steps of each call come in an order in which
\* the agent never sees a missing or a still referenced entry.
LegalCallsSucceed == failures = {}

\* A member call that fails leaves its port disabled, so that the receive
\* thread learns nothing on half-programmed tables (sai.c:645, 715, 1281).
FailedMemberCallDisables ==
  \A f \in failures : f.op \in {"create", "remove"} => disabled[f.obj]

\* When tables have room, a call can fail at two steps only: an entry aged out
\* between ofdpaFlowNextGet and ofdpaFlowDelete (sai.c:1849-1860), or the group
\* is still referenced by an entry learned during the call (sai.c:664, 735).
FailuresComeFromTraffic ==
  \A f \in failures : f.step \in {"flushDelete", "delGroup"}

LeftBehind == {m \in Macs : learned[<<call.old, m>>] = call.port}

\* The flush removes every learned entry of the old VLAN on the port but the
\* one whose frame had passed the test of port->disabled before the call.
AtMostOneStraggler ==
  (/\ call.op = "remove" \/ (call.op = "create" /\ ~call.tagged)
   /\ pc \notin {"disable", "delUntagged", "flush", "flushDelete"})
     => Cardinality(LeftBehind) <= 1

\* The neighbour calls look a MAC address up in the port's list: every station
\* a bridging flow points to is in the list of that port (sai.c:1306-1309).
LearnedIsKnown ==
  \A v \in Vids, m \in Macs :
    learned[<<v, m>>] # NoPort => m \in neigh_db[learned[<<v, m>>]]

\* A call returns, whatever is learned and aged out while its flush loop runs.
CallReturns == pc # "idle" ~> pc = "idle"

\* sai.c:136: port->vid is the "current access vid": untagged frames that come
\* in on an enabled port belong to it.
VidIsAccessVid ==
  \A p \in hostif :
    (~disabled[p] /\ call.port # p /\ ~\E f \in failures : f.obj = p /\ f.op = "hostif")
      => untaggedFlow[p] = vid[p]

\* sai.c:649-650: "if this vlan is for access, we need to remove existing flows
\* for vlan access".
AccessFlowsRemoved ==
  (call.op = "create" /\ pc = "delGroup") =>
    LeftBehind = {}
=============================================================================
