------------------------------- MODULE VlanApi -------------------------------
(***************************************************************************)
(* What the VLAN part of the SAI adapter promises its client, without the  *)
(* tables, the steps and the receive thread of SaiVlan.                    *)
(*                                                                         *)
(* A port forwards what its memberships say, all of it or nothing: a call  *)
(* takes the port out of service and puts it back with one membership      *)
(* more or less, in one step.  A call never changes how another port       *)
(* forwards.  A port whose call failed is lost: it does not come back.     *)
(***************************************************************************)
EXTENDS Naturals

CONSTANTS
  Ports,        \* the switch ports
  UserVids,     \* the VLAN ids the client may create
  DefaultVid    \* DefaultVid[p]: the VLAN that untagged frames of p get otherwise

VARIABLES
  vlans,        \* the VLANs in which frames for unknown addresses are flooded
  members,      \* members[p]: the memberships of p, as [vid, tagged]
  service,      \* service[p]: "none", "new" (gets its host interface), "up", "down", "lost"
  forwards      \* forwards[p]: how a port in service treats frames, else Nothing

vars == <<vlans, members, service, forwards>>

Vids == UserVids \union {DefaultVid[p] : p \in Ports}
MemberVids(M) == {m.vid : m \in M}

AccessVid(p, M) ==
  IF \E m \in M : ~m.tagged THEN (CHOOSE m \in M : ~m.tagged).vid ELSE DefaultVid[p]

Nothing == [untagged |-> 0, tagged |-> {}, out |-> [v \in Vids |-> "none"],
            copies |-> [v \in Vids |-> 0], learns |-> 0]

\* Untagged frames belong to the access VLAN and leave without a tag; frames tagged
\* with a member VLAN, or with the port's own, are let in; a flooded frame is sent once;
\* sources of untagged frames are learned in the access VLAN.
Forwarding(p, M) ==
  [untagged |-> AccessVid(p, M),
   tagged   |-> MemberVids(M) \union {DefaultVid[p]},
   out      |-> [v \in Vids |-> IF v = AccessVid(p, M) THEN "pop"
                                ELSE IF v \in MemberVids(M) THEN "keep" ELSE "none"],
   copies   |-> [v \in Vids |-> IF v \in MemberVids(M) THEN 1 ELSE 0],
   learns   |-> AccessVid(p, M)]

Init ==
  /\ vlans = {}
  /\ members = [p \in Ports |-> {}]
  /\ service = [p \in Ports |-> "none"]
  /\ forwards = [p \in Ports |-> Nothing]

CreateVlan(v) ==
  /\ vlans' = vlans \union {v}
  /\ UNCHANGED <<members, service, forwards>>

RemoveVlan(v) ==
  /\ \A p \in Ports : v \notin MemberVids(members[p])
  /\ vlans' = vlans \ {v}
  /\ UNCHANGED <<members, service, forwards>>

\* A call begins on a port: its host interface, or a membership.
Connect(p) ==
  /\ service[p] = "none"
  /\ service' = [service EXCEPT ![p] = "new"]
  /\ UNCHANGED <<vlans, members, forwards>>

Interrupt(p) ==
  /\ service[p] = "up"
  /\ service' = [service EXCEPT ![p] = "down"]
  /\ forwards' = [forwards EXCEPT ![p] = Nothing]
  /\ UNCHANGED <<vlans, members>>

\* It ends: the port is in service with the memberships M.
Resume(p, M) ==
  /\ MemberVids(M) \subseteq vlans
  /\ members' = [members EXCEPT ![p] = M]
  /\ service' = [service EXCEPT ![p] = "up"]
  /\ forwards' = [forwards EXCEPT ![p] = Forwarding(p, M)]
  /\ UNCHANGED vlans

Connected(p) == service[p] = "new" /\ Resume(p, {})

Join(p, m) ==
  /\ service[p] = "down"
  /\ m.vid \notin MemberVids(members[p])
  /\ ~m.tagged => \A k \in members[p] : k.tagged
  /\ Resume(p, members[p] \union {m})

Leave(p, m) ==
  /\ service[p] = "down"
  /\ m \in members[p]
  /\ Resume(p, members[p] \ {m})

\* The call fails.
Lose(p) ==
  /\ service[p] \in {"new", "down"}
  /\ service' = [service EXCEPT ![p] = "lost"]
  /\ members' = [members EXCEPT ![p] = {}]
  /\ UNCHANGED <<vlans, forwards>>

Next ==
  \/ \E v \in UserVids : CreateVlan(v) \/ RemoveVlan(v)
  \/ \E p \in Ports : Connect(p) \/ Connected(p) \/ Interrupt(p) \/ Lose(p)
  \/ \E p \in Ports, m \in [vid : UserVids, tagged : BOOLEAN] : Join(p, m) \/ Leave(p, m)

Spec == Init /\ [][Next]_vars
=============================================================================
