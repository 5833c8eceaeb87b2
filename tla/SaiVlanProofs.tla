--------------------------- MODULE SaiVlanProofs ---------------------------
(***************************************************************************)
(* Theorems about SaiVlan, for any set of ports, VLANs and addresses and   *)
(* any number of frames: the types; what the receive thread and the        *)
(* failing calls leave behind; that the tables of a port at rest hold      *)
(* exactly what its memberships ask for; which calls can fail, and where;  *)
(* and that to its client the adapter is VlanApi.                          *)
(***************************************************************************)
EXTENDS SaiVlan, FiniteSetTheorems, TLAPS

-----------------------------------------------------------------------------
(* Types, one lemma per group of variables.                                *)

\* The agent's tables keep their types.
LEMMA TablesStep == TypeOK /\ [Next]_vars => TablesOK'
<1> SUFFICES ASSUME TypeOK, [Next]_vars PROVE TablesOK'
  OBVIOUS
<1> USE PortsAssumption, VidsAssumption, BoundsAssumption
<1>t. TablesOK /\ ApiOK /\ RecvOK
  BY DEF TypeOK
<1>c. /\ pc \in PortSteps => call \in PortCalls
      /\ pc \in VlanSteps => call \in VlanCalls
      /\ pc \in PortSteps \ {"addGroup", "addTagged", "addUntagged"} => call.old \in Vids
  BY <1>t DEF ApiOK, CallOK, PortSteps, VlanSteps, PortCalls
<1> USE DEF TablesOK, PortSteps, VlanSteps, PortCalls, VlanCalls
<1>1. CASE UNCHANGED <<vlanTables, learned>>
  BY <1>1, <1>t DEF vlanTables
<1>2. CASE DelUntagged
  BY <1>2, <1>t, <1>c DEF DelUntagged
<1>3. CASE FlushDelete
  BY <1>3, <1>t, <1>c DEF ApiOK, FlushDelete, vlanTables
<1>4. CASE DelBucket
  BY <1>4, <1>t, <1>c, ZenonT(30) DEF DelBucket
<1>5. CASE DelTagged
  BY <1>5, <1>t, <1>c DEF DelTagged
<1>6. CASE DelGroup
  BY <1>6, <1>t, <1>c DEF DelGroup
<1>7. CASE AddGroup
  <2>1. /\ call.port \in Ports
        /\ call.vid \in Vids
    BY <1>7, <1>t, <1>c DEF AddGroup
  <2>2. PICK g \in {"none", "empty", "pop", "keep"} :
          group' = [group EXCEPT ![<<call.vid, call.port>>] = g]
    <3> DEFINE k == <<call.vid, call.port>>
    <3>1. k \in Vids \X Ports
      BY <2>1
    <3>2. /\ group[k] \in {"none", "empty", "pop", "keep"}
          /\ group = [group EXCEPT ![k] = group[k]]
      BY <3>1, <1>t
    <3>3. \/ group' = [group EXCEPT ![k] =
                         IF @ \in {"pop", "keep"} THEN @
                         ELSE IF call.tagged THEN "keep" ELSE "pop"]
          \/ group' = group
          \/ group' = [group EXCEPT ![k] = "empty"]
      BY <1>7 DEF AddGroup
    <3> QED
      BY <3>2, <3>3
  <2>3. group' \in [Vids \X Ports -> {"none", "empty", "pop", "keep"}]
    BY <2>2, <1>t
  <2> QED
    BY <1>7, <2>3, <1>t DEF AddGroup
<1>8. CASE AddTagged
  BY <1>8, <1>t, <1>c DEF AddTagged
<1>9. CASE AddUntagged
  BY <1>9, <1>t, <1>c DEF AddUntagged
<1>10. CASE AddBucket
  BY <1>10, <1>t, <1>c DEF AddBucket
<1>11. CASE AddFlood
  BY <1>11, <1>t, <1>c DEF AddFlood
<1>12. CASE AddDlf
  BY <1>12, <1>t, <1>c DEF AddDlf
<1>13. CASE DelDlf
  BY <1>13, <1>t, <1>c DEF DelDlf
<1>14. CASE DelFlood
  BY <1>14, <1>t, <1>c DEF DelFlood
<1>15. CASE RxLearn
  <2>1. /\ rx.vid \in Vids /\ rx.mac \in Macs /\ rx.port \in Ports
        /\ UNCHANGED vlanTables
    BY <1>15, <1>t DEF RxLearn, RecvOK, NoFrame, Frames
  <2>2. learned' \in [Vids \X Macs -> Ports \union {NoPort}]
    BY <1>15, <1>t, <2>1 DEF RxLearn
  <2> QED
    BY <1>t, <2>1, <2>2 DEF vlanTables
<1>16. ASSUME NEW v \in Vids, NEW m \in Macs, AgeOut(v, m) PROVE TablesOK'
  BY <1>16, <1>t DEF AgeOut, vlanTables
<1> QED
  BY <1>1, <1>2, <1>3, <1>4, <1>5, <1>6, <1>7, <1>8, <1>9, <1>10, <1>11, <1>12,
     <1>13, <1>14, <1>15, <1>16
     DEF Next, vars, Request, Work, Receive, CreateVlan, RemoveVlan, CreateHostif,
         CreateMember, RemoveMember, Disable, FlushNext, ResetVid, Enable, RxReceive,
         RxEnd, RxCheck, RxVid

\* The adapter's own state keeps its types.
LEMMA AdapterStep == TypeOK /\ [Next]_vars => AdapterOK'
<1> SUFFICES ASSUME TypeOK, [Next]_vars PROVE AdapterOK'
  OBVIOUS
<1>t. AdapterOK /\ ApiOK
  BY DEF TypeOK
<1>c. /\ pc \in PortSteps => call \in PortCalls
      /\ pc \in VlanSteps => call \in VlanCalls
  BY <1>t DEF ApiOK, CallOK, PortSteps, VlanSteps
<1> USE DEF AdapterOK, PortSteps, VlanSteps, PortCalls, VlanCalls
<1>0. CASE UNCHANGED adapter
  BY <1>0, <1>t DEF adapter
<1>1. ASSUME NEW v \in UserVids, CreateVlan(v) PROVE AdapterOK'
  BY <1>1, <1>t DEF CreateVlan
<1>2. ASSUME NEW p \in Ports, CreateHostif(p) PROVE AdapterOK'
  BY <1>2, <1>t DEF CreateHostif
<1>3. ASSUME NEW p \in Ports, NEW v \in UserVids, NEW tagged \in BOOLEAN,
             CreateMember(p, v, tagged)
      PROVE  AdapterOK'
  <2>1. members' \in [Ports -> SUBSET [vid : UserVids, tagged : BOOLEAN]]
    BY <1>3, <1>t DEF CreateMember
  <2>2. vid' \in [Ports -> Vids]
    BY <1>3, <1>t DEF CreateMember, Vids
  <2> QED
    BY <1>3, <2>1, <2>2, <1>t DEF CreateMember
<1>4. ASSUME NEW p \in Ports, NEW m \in members[p], RemoveMember(p, m)
      PROVE  AdapterOK'
  BY <1>4, <1>t, Zenon DEF RemoveMember
<1>5. CASE Disable
  BY <1>5, <1>t, <1>c, Zenon DEF Disable
<1>6. CASE ResetVid
  BY <1>6, <1>t, <1>c DEF ResetVid, Vids
<1>7. CASE Enable
  <2>1. disabled' \in [Ports -> BOOLEAN]
    BY <1>7, <1>t, <1>c, Zenon DEF Enable
  <2>2. members' \in [Ports -> SUBSET [vid : UserVids, tagged : BOOLEAN]]
    BY <1>7, <1>t, <1>c DEF Enable
  <2> QED
    BY <1>7, <2>1, <2>2, <1>t DEF Enable
<1>8. CASE DelFlood
  BY <1>8, <1>t DEF DelFlood
<1> QED
  BY <1>0, <1>1, <1>2, <1>3, <1>4, <1>5, <1>6, <1>7, <1>8
     DEF Next, vars, Request, Work, Receive, RemoveVlan, DelUntagged, FlushNext,
         FlushDelete, DelBucket, DelTagged, DelGroup, AddGroup, AddTagged, AddUntagged,
         AddBucket, AddFlood, AddDlf, DelDlf, RxReceive, RxEnd, RxCheck, RxVid, RxLearn,
         AgeOut

\* The receive thread's frame and the addresses it collects keep their types.
LEMMA RecvStep == TypeOK /\ [Next]_vars => RecvOK'
<1> SUFFICES ASSUME TypeOK, [Next]_vars PROVE RecvOK'
  OBVIOUS
<1>t. AdapterOK /\ RecvOK
  BY DEF TypeOK
<1> USE BoundsAssumption DEF RecvOK, NoFrame, Frames
<1>0. CASE UNCHANGED recv
  BY <1>0, <1>t DEF recv
<1>1. ASSUME NEW p \in Ports, NEW m \in Macs, NEW tag \in Vids \union {NoVid},
             RxReceive(p, m, tag)
      PROVE  RecvOK'
  BY <1>1, <1>t DEF RxReceive
<1>2. CASE RxEnd
  BY <1>2, <1>t DEF RxEnd
<1>3. CASE RxCheck
  <2>1. rx' = NoFrame \/ rx' = [rx EXCEPT !.at = "vid"]
    BY <1>3 DEF RxCheck
  <2> QED
    BY <1>3, <2>1, <1>t DEF RxCheck
<1>4. CASE RxVid
  <2>1. rx \in Frames({"check", "vid"}, {NoVid})
    BY <1>4, <1>t DEF RxVid
  <2>2. (IF rx.tag = NoVid THEN vid[rx.port] ELSE rx.tag) \in Vids
    BY <2>1, <1>t DEF AdapterOK
  <2>3. rx' \in Frames({"learn"}, Vids)
    BY <1>4, <2>1, <2>2 DEF RxVid
  <2>4. neigh_db' \in [Ports -> SUBSET Macs]
    BY <1>4, <2>1, <1>t DEF RxVid
  <2> QED
    BY <1>4, <2>3, <2>4, <1>t DEF RxVid
<1>5. CASE RxLearn
  BY <1>5, <1>t DEF RxLearn
<1> QED
  BY <1>0, <1>1, <1>2, <1>3, <1>4, <1>5
     DEF Next, vars, Request, Work, Receive, CreateVlan, RemoveVlan, CreateHostif,
         CreateMember, RemoveMember, Disable, DelUntagged, FlushNext, FlushDelete,
         DelBucket, DelTagged, DelGroup, ResetVid, AddGroup, AddTagged, AddUntagged,
         AddBucket, Enable, AddFlood, AddDlf, DelDlf, DelFlood, AgeOut

\* A call that fails leaves a record of its object, its operation and its step.
LEMMA AbortStep ==
  ASSUME ApiOK, pc # "idle", Abort PROVE ApiOK'
<1>1. [obj |-> IF call.port = NoPort THEN call.vid ELSE call.port, op |-> call.op, step |-> pc]
        \in [obj : Ports \union UserVids, op : Ops, step : PortSteps \union VlanSteps]
  BY PortsAssumption DEF ApiOK, CallOK, PortCalls, VlanCalls, Ops
<1> QED
  BY <1>1 DEF Abort, ApiOK, CallOK

\* The call in progress, its step and the failures keep their types.
LEMMA ApiStep == TypeOK /\ [Next]_vars => ApiOK'
<1> SUFFICES ASSUME TypeOK, [Next]_vars PROVE ApiOK'
  OBVIOUS
<1> USE PortsAssumption, VidsAssumption, BoundsAssumption
<1>t. AdapterOK /\ ApiOK
  BY DEF TypeOK
<1> USE DEF PortSteps, VlanSteps, PortCalls, VlanCalls
<1>0. CASE UNCHANGED api
  BY <1>0, <1>t DEF api, ApiOK, CallOK
<1>1. ASSUME NEW v \in UserVids, CreateVlan(v) \/ RemoveVlan(v) PROVE ApiOK'
  BY <1>1, <1>t DEF CreateVlan, RemoveVlan, Enter, ApiOK, CallOK, NoCall
<1>2. ASSUME NEW p \in Ports, CreateHostif(p) PROVE ApiOK'
  BY <1>2, <1>t DEF CreateHostif, Enter, ApiOK, CallOK, AdapterOK
<1>3. ASSUME NEW p \in Ports, NEW v \in UserVids, NEW tagged \in BOOLEAN,
             CreateMember(p, v, tagged)
      PROVE  ApiOK'
  BY <1>3, <1>t DEF CreateMember, Enter, ApiOK, CallOK, AdapterOK, Vids
<1>4. ASSUME NEW p \in Ports, NEW m \in members[p], RemoveMember(p, m)
      PROVE  ApiOK'
  BY <1>4, <1>t DEF RemoveMember, Enter, ApiOK, CallOK, AdapterOK, Vids
<1>5. CASE Abort /\ pc # "idle"
  BY <1>5, <1>t, AbortStep
<1>6. CASE Disable
  BY <1>6, <1>t DEF Disable, Continue, ApiOK, CallOK
<1>7. CASE DelUntagged
  BY <1>7, <1>5, <1>t DEF DelUntagged, Continue, ApiOK, CallOK
<1>8. CASE FlushNext
  BY <1>8, <1>t DEF FlushNext, Continue, ApiOK, CallOK, Macs
<1>9. CASE FlushDelete
  BY <1>9, <1>5, <1>t DEF FlushDelete, Continue, ApiOK, CallOK
<1>10. CASE DelBucket
  BY <1>10, <1>5, <1>t DEF DelBucket, Continue, ApiOK, CallOK
<1>11. CASE DelTagged
  BY <1>11, <1>5, <1>t DEF DelTagged, Continue, ApiOK, CallOK
<1>12. CASE DelGroup
  BY <1>12, <1>5, <1>t DEF DelGroup, Continue, ApiOK, CallOK
<1>13. CASE ResetVid
  BY <1>13, <1>t DEF ResetVid, Continue, ApiOK, CallOK
<1>14. CASE AddGroup
  BY <1>14, <1>5, <1>t DEF AddGroup, TableFull, Continue, ApiOK, CallOK
<1>15. CASE AddTagged
  <2>1. CASE TableFull
    BY <2>1, <1>5, <1>15 DEF TableFull, AddTagged
  <2>2. CASE Continue(IF call.tagged THEN "addBucket" ELSE "addUntagged")
    <3>1. \/ pc' = "addBucket" /\ call.tagged
          \/ pc' = "addUntagged" /\ ~call.tagged
      BY <2>2 DEF Continue
    <3>2. UNCHANGED <<call, cursor, failures>>
      BY <2>2, <3>1 DEF Continue
    <3>3. call \in PortCalls /\ call.op = "hostif" => ~call.tagged
      BY <1>15, <1>t DEF AddTagged, ApiOK, CallOK
    <3> QED
      BY <1>15, <1>t, <3>1, <3>2, <3>3 DEF AddTagged, ApiOK, CallOK
  <2> QED
    BY <1>15, <2>1, <2>2 DEF AddTagged
<1>16. CASE AddUntagged
  BY <1>16, <1>5, <1>t DEF AddUntagged, TableFull, Continue, ApiOK, CallOK
<1>17. CASE AddBucket
  BY <1>17, <1>5, <1>t DEF AddBucket, TableFull, Continue, ApiOK, CallOK
<1>18. CASE Enable
  BY <1>18, <1>t DEF Enable, Continue, ApiOK, CallOK
<1>19. CASE AddFlood \/ AddDlf
  BY <1>19, <1>5, <1>t DEF AddFlood, AddDlf, TableFull, Continue, ApiOK, CallOK
<1>20. CASE DelDlf \/ DelFlood
  BY <1>20, <1>5, <1>t DEF DelDlf, DelFlood, Continue, ApiOK, CallOK
<1> QED
  BY <1>0, <1>1, <1>2, <1>3, <1>4, <1>6, <1>7, <1>8, <1>9, <1>10, <1>11, <1>12,
     <1>13, <1>14, <1>15, <1>16, <1>17, <1>18, <1>19, <1>20
     DEF Next, vars, Request, Work, Receive, RxReceive, RxEnd, RxCheck, RxVid, RxLearn,
         AgeOut

\* The types hold throughout, and the fields of the call in progress fit the
\* step it has reached (sai.c:603-759).
THEOREM TypeCorrect == Spec => []TypeOK
<1>1. Init => AdapterOK
  BY DEF Init, AdapterOK, Vids
<1>2. Init => ApiOK
  BY DEF Init, ApiOK, CallOK
<1>3. Init => RecvOK
  BY BoundsAssumption DEF Init, RecvOK
<1>4. Init => TablesOK
  BY DEF Init, TablesOK
<1>5. Init => TypeOK
  BY <1>1, <1>2, <1>3, <1>4 DEF TypeOK
<1>6. TypeOK /\ [Next]_vars => TypeOK'
  BY AdapterStep, ApiStep, RecvStep, TablesStep DEF TypeOK
<1> QED
  BY <1>5, <1>6, PTL DEF Spec

-----------------------------------------------------------------------------
(* Every learned address is in its port's list.                            *)

\* The address of a frame that is about to be learned is in the list already.
FrameIsKnown == rx.at = "learn" => rx.mac \in neigh_db[rx.port]

\* A step preserves LearnedIsKnown together with FrameIsKnown.
LEMMA KnownStep ==
  TypeOK /\ FrameIsKnown /\ LearnedIsKnown /\ [Next]_vars
    => FrameIsKnown' /\ LearnedIsKnown'
<1> SUFFICES ASSUME TypeOK, FrameIsKnown, LearnedIsKnown, [Next]_vars
             PROVE  FrameIsKnown' /\ LearnedIsKnown'
  OBVIOUS
<1>t. TablesOK /\ RecvOK /\ ApiOK
  BY DEF TypeOK
<1> USE PortsAssumption DEF FrameIsKnown, LearnedIsKnown
<1>0. CASE UNCHANGED <<rx, neigh_db, learned>>
  BY <1>0
<1>1. ASSUME NEW p \in Ports, NEW m \in Macs, NEW tag \in Vids \union {NoVid},
             RxReceive(p, m, tag)
      PROVE  FrameIsKnown' /\ LearnedIsKnown'
  BY <1>1 DEF RxReceive
<1>2. CASE RxEnd \/ RxCheck
  BY <1>2, <1>t DEF RxEnd, RxCheck, RecvOK, NoFrame, Frames
<1>3. CASE RxVid
  <2>1. rx \in Frames({"check", "vid"}, {NoVid})
    BY <1>3, <1>t DEF RxVid, RecvOK, NoFrame, Frames
  <2>2. /\ rx'.mac = rx.mac /\ rx'.port = rx.port /\ learned' = learned
        /\ neigh_db' = [neigh_db EXCEPT ![rx.port] = @ \union {rx.mac}]
    BY <1>3, <2>1 DEF RxVid, Frames
  <2>3. \A p \in Ports : neigh_db[p] \subseteq neigh_db'[p]
    BY <2>2, <1>t DEF RecvOK
  <2>4. rx.mac \in neigh_db'[rx.port]
    BY <2>1, <2>2, <1>t DEF RecvOK, Frames
  <2>5. \A v \in Vids, m \in Macs : learned[<<v, m>>] # NoPort => learned[<<v, m>>] \in Ports
    BY <1>t DEF TablesOK
  <2> QED
    BY <2>2, <2>3, <2>4, <2>5
<1>4. CASE RxLearn
  <2>1. rx \in Frames({"learn"}, Vids) /\ rx.mac \in neigh_db[rx.port]
    BY <1>4, <1>t DEF RxLearn, RecvOK, NoFrame, Frames
  <2>2. rx'.at # "learn" /\ neigh_db' = neigh_db
    BY <1>4 DEF RxLearn, NoFrame
  <2>3. \/ learned' = learned
        \/ learned' = [learned EXCEPT ![<<rx.vid, rx.mac>>] = IF @ = NoPort THEN rx.port ELSE @]
    BY <1>4 DEF RxLearn
  <2>4. \A v \in Vids, m \in Macs :
          \/ learned'[<<v, m>>] = learned[<<v, m>>]
          \/ m = rx.mac /\ learned'[<<v, m>>] = rx.port
    BY <2>1, <2>3, <1>t DEF TablesOK, Frames
  <2> QED
    BY <2>1, <2>2, <2>4
<1>5. CASE FlushDelete
  <2>1. \A v \in Vids, m \in Macs :
          learned'[<<v, m>>] = learned[<<v, m>>] \/ learned'[<<v, m>>] = NoPort
    BY <1>5, <1>t DEF FlushDelete, TablesOK, ApiOK, CallOK, PortCalls, PortSteps, VlanSteps
  <2> QED
    BY <1>5, <2>1 DEF FlushDelete, recv
<1>6. ASSUME NEW v \in Vids, NEW m \in Macs, AgeOut(v, m)
      PROVE  FrameIsKnown' /\ LearnedIsKnown'
  <2>1. \A w \in Vids, k \in Macs :
          learned'[<<w, k>>] = learned[<<w, k>>] \/ learned'[<<w, k>>] = NoPort
    BY <1>6, <1>t DEF AgeOut, TablesOK
  <2> QED
    BY <1>6, <2>1 DEF AgeOut, recv
<1> QED
  BY <1>0, <1>1, <1>2, <1>3, <1>4, <1>5, <1>6
     DEF Next, vars, recv, Request, Work, Receive, CreateVlan, RemoveVlan, CreateHostif,
         CreateMember, RemoveMember, Disable, DelUntagged, FlushNext, DelBucket,
         DelTagged, DelGroup, ResetVid, AddGroup, AddTagged, AddUntagged, AddBucket,
         Enable, AddFlood, AddDlf, DelDlf, DelFlood

\* Whatever is learned, flushed and aged out, the port a bridging flow points
\* to has the address in its list (sai.c:1306-1309).
THEOREM LearnedAreKnown == Spec => []LearnedIsKnown
<1>1. Init => FrameIsKnown /\ LearnedIsKnown
  BY DEF Init, FrameIsKnown, LearnedIsKnown, NoFrame
<1> QED
  BY <1>1, KnownStep, TypeCorrect, PTL DEF Spec

-----------------------------------------------------------------------------
(* A port is disabled during a membership call and after a failed one.     *)

MemberOps == {"create", "remove"}

\* From its second step to its end a membership call works on a disabled port.
DisabledDuring ==
  (call.op \in MemberOps /\ pc # "disable") => disabled[call.port]

\* A client that gives failed ports up starts no membership call on one.
NoRetry == ~UseFailedPorts => (call.op \in MemberOps => ~Failed(call.port))

DisabledInv ==
  DisabledDuring /\ NoRetry /\ (~UseFailedPorts => FailedMemberCallDisables)

\* A call that fails after its first step leaves its port disabled.
LEMMA AbortDisabled ==
  ASSUME ApiOK, DisabledInv, pc \notin {"idle", "disable"}, Abort, disabled' = disabled
  PROVE  DisabledInv'
<1> USE PortsAssumption
<1>1. call' = NoCall
  BY DEF Abort
<1>2. DisabledDuring' /\ NoRetry'
  BY <1>1 DEF DisabledDuring, NoRetry, NoCall, MemberOps
<1>3. ASSUME ~UseFailedPorts, NEW f \in failures', f.op \in MemberOps
      PROVE  disabled[f.obj]
  <2>1. CASE f \in failures
    BY <2>1, <1>3 DEF DisabledInv, FailedMemberCallDisables, MemberOps
  <2>2. CASE f = [obj |-> IF call.port = NoPort THEN call.vid ELSE call.port,
                  op |-> call.op, step |-> pc]
    <3>1. call.op \in MemberOps
      BY <2>2, <1>3
    <3>2. f.obj = call.port
      BY <2>2, <3>1 DEF ApiOK, CallOK, PortCalls, VlanCalls, NoCall, MemberOps
    <3> QED
      BY <3>1, <3>2 DEF DisabledInv, DisabledDuring
  <2> QED
    BY <2>1, <2>2, <1>3 DEF Abort
<1> QED
  BY <1>2, <1>3 DEF DisabledInv, FailedMemberCallDisables, MemberOps

\* A step preserves DisabledInv.
LEMMA DisabledStep == TypeOK /\ DisabledInv /\ [Next]_vars => DisabledInv'
<1> SUFFICES ASSUME TypeOK, DisabledInv, [Next]_vars PROVE DisabledInv'
  OBVIOUS
<1>t. ApiOK /\ AdapterOK
  BY DEF TypeOK
<1> USE DEF DisabledInv, MemberOps
<1>0. CASE UNCHANGED <<disabled, api>>
  BY <1>0 DEF api, DisabledDuring, NoRetry, FailedMemberCallDisables, Failed
<1>1. CASE Abort /\ pc \notin {"idle", "disable"} /\ disabled' = disabled
  BY <1>1, <1>t, AbortDisabled
<1>2. ASSUME NEW step, step # "disable", pc \notin {"idle", "disable"}, Continue(step),
             disabled' = disabled
      PROVE  DisabledInv'
  <2>1. failures' = failures /\ (call' = call \/ call' = NoCall) /\ pc' = step
    BY <1>2 DEF Continue
  <2> QED
    BY <1>2, <2>1
       DEF DisabledDuring, NoRetry, FailedMemberCallDisables, Failed, NoCall
<1>3. ASSUME NEW v \in UserVids, CreateVlan(v) \/ RemoveVlan(v) PROVE DisabledInv'
  <2>1. call'.op \in {"createVlan", "removeVlan"}
    BY <1>3 DEF CreateVlan, RemoveVlan, Enter, NoCall
  <2>2. disabled' = disabled /\ failures' = failures
    BY <1>3 DEF CreateVlan, RemoveVlan, Enter, adapter
  <2> QED
    BY <2>1, <2>2 DEF DisabledDuring, NoRetry, FailedMemberCallDisables
<1>4. ASSUME NEW p \in Ports, CreateHostif(p) PROVE DisabledInv'
  BY <1>4 DEF CreateHostif, Enter, DisabledDuring, NoRetry, FailedMemberCallDisables,
              Failed
<1>5. ASSUME NEW p \in Ports, NEW v \in UserVids, NEW tagged \in BOOLEAN,
             CreateMember(p, v, tagged)
      PROVE  DisabledInv'
  BY <1>5 DEF CreateMember, Enter, Usable, DisabledDuring, NoRetry,
              FailedMemberCallDisables, Failed
<1>6. ASSUME NEW p \in Ports, NEW m \in members[p], RemoveMember(p, m)
      PROVE  DisabledInv'
  <2>1. /\ disabled'[p] /\ \A q : disabled[q] => disabled'[q]
        /\ failures' = failures /\ call'.port = p /\ call'.op = "remove"
        /\ UseFailedPorts \/ ~Failed(p)
    BY <1>6, <1>t DEF RemoveMember, Enter, Usable, AdapterOK
  <2> QED
    BY <2>1 DEF DisabledDuring, NoRetry, FailedMemberCallDisables, Failed
<1>7. CASE Disable
  <2>1. call.port \in Ports /\ call' = call /\ failures' = failures
    BY <1>7, <1>t DEF Disable, Continue, ApiOK, CallOK, PortCalls, VlanSteps
  <2>2. disabled'[call.port] /\ \A q : disabled[q] => disabled'[q]
    BY <1>7, <2>1, <1>t DEF Disable, AdapterOK
  <2> QED
    BY <2>1, <2>2 DEF DisabledDuring, NoRetry, FailedMemberCallDisables, Failed
<1>8. CASE Enable
  <2>1. /\ call.op \in MemberOps /\ call.port \in Ports
        /\ call' = NoCall /\ failures' = failures
    BY <1>8, <1>t DEF Enable, Continue, ApiOK, CallOK, PortCalls, VlanSteps
  <2>2. ~UseFailedPorts => \A f \in failures : f.obj # call.port
    BY <2>1 DEF NoRetry, Failed
  <2> QED
    BY <1>8, <2>1, <2>2
       DEF Enable, DisabledDuring, NoRetry, FailedMemberCallDisables, Failed, NoCall
<1>9. CASE FlushNext
  BY <1>9, <1>2 DEF FlushNext, adapter, DisabledDuring, NoRetry,
              FailedMemberCallDisables, Failed
<1>10. CASE DelUntagged \/ FlushDelete \/ DelBucket \/ DelTagged \/ ResetVid
  BY <1>10, <1>1, <1>2
     DEF DelUntagged, FlushDelete, DelBucket, DelTagged, ResetVid, adapter
<1>11. CASE DelGroup
  <2>1. /\ pc = "delGroup" /\ disabled' = disabled
        /\ Abort \/ \E step \in {"addGroup", "enable", "resetVid"} : Continue(step)
    BY <1>11, <1>t DEF DelGroup, adapter, ApiOK, CallOK, PortCalls, VlanSteps
  <2> QED
    BY <2>1, <1>1, <1>2
<1>12. CASE AddUntagged
  <2>1. /\ pc = "addUntagged" /\ disabled' = disabled
        /\ Abort \/ \E step \in {"addBucket", "enable", "idle"} : Continue(step)
    BY <1>12, <1>t DEF AddUntagged, TableFull, adapter, ApiOK, CallOK, PortCalls, VlanSteps
  <2> QED
    BY <2>1, <1>1, <1>2
<1>13. CASE AddGroup \/ AddTagged \/ AddBucket
  BY <1>13, <1>1, <1>2 DEF AddGroup, AddTagged, AddBucket, TableFull, adapter
<1>14. CASE AddFlood \/ AddDlf \/ DelDlf \/ DelFlood
  BY <1>14, <1>1, <1>2 DEF AddFlood, AddDlf, DelDlf, DelFlood, TableFull, adapter
<1>15. CASE Receive
  BY <1>15, <1>0
     DEF Receive, adapter, RxReceive, RxEnd, RxCheck, RxVid, RxLearn
<1>16. ASSUME NEW v \in Vids, NEW m \in Macs, AgeOut(v, m) PROVE DisabledInv'
  BY <1>16, <1>0 DEF AgeOut, adapter
<1>17. CASE UNCHANGED vars
  BY <1>17, <1>0 DEF vars, adapter
<1> QED
  BY <1>3, <1>4, <1>5, <1>6, <1>7, <1>8, <1>9, <1>10, <1>11, <1>12, <1>13, <1>14,
     <1>15, <1>16, <1>17 DEF Next, Request, Work

\* DisabledInv holds throughout.
LEMMA DisabledAlways == Spec => []DisabledInv
<1>1. Init => DisabledInv
  BY DEF Init, DisabledInv, DisabledDuring, NoRetry, FailedMemberCallDisables, NoCall,
         MemberOps
<1> QED
  BY <1>1, DisabledStep, TypeCorrect, PTL DEF Spec

\* While the client gives failed ports up, a failed membership call leaves the
\* port disabled for good (sai.c:645, 715, 757, 1281).
THEOREM FailuresDisable == Spec => [](~UseFailedPorts => FailedMemberCallDisables)
<1>1. DisabledInv => (~UseFailedPorts => FailedMemberCallDisables)
  BY DEF DisabledInv
<1> QED
  BY <1>1, DisabledAlways, PTL

-----------------------------------------------------------------------------
(* The flush leaves at most one entry behind.                              *)

\* The call replaces or removes a VLAN of its port, and has disabled the port.
Flushing ==
  \/ call.op = "remove"
  \/ call.op = "create" /\ ~call.tagged /\ pc \notin {"disable", "delUntagged"}

\* The entries of the old VLAN on the port that the flush has passed already.
Behind ==
  {m \in Macs : /\ learned[<<call.old, m>>] = call.port
                /\ pc = "flush" => m <= cursor
                /\ pc = "flushDelete" => m < cursor}

\* The receive thread has a frame of the port that passed the test of disabled.
InFlight == rx.at \in {"vid", "learn"} /\ rx.port = call.port

\* The strengthening of AtMostOneStraggler: one entry was left behind the
\* flush, or one frame may still leave one, but never both.
OneStraggler ==
  /\ Flushing => \A m, k \in Behind : m = k
  /\ Flushing /\ InFlight => Behind = {}
  /\ call.op = "create" /\ pc \in {"disable", "delUntagged"} => cursor = 0
  /\ pc = "delBucket" => call.op = "remove"
  /\ pc = "disable" => call.op = "create"

\* What is to be shown of a step that leaves nothing new behind.
LEMMA NothingNew ==
  ASSUME OneStraggler,
         Flushing' => Flushing /\ Behind' \subseteq Behind /\ (InFlight' => InFlight),
         (call'.op = "create" /\ pc' \in {"disable", "delUntagged"}) => cursor' = 0,
         pc' = "delBucket" => call'.op = "remove",
         pc' # "disable"
  PROVE  OneStraggler'
BY DEF OneStraggler

\* A step preserves OneStraggler.
LEMMA StragglerStep ==
  TypeOK /\ DisabledInv /\ OneStraggler /\ [Next]_vars => OneStraggler'
<1> SUFFICES ASSUME TypeOK, DisabledInv, OneStraggler, [Next]_vars PROVE OneStraggler'
  OBVIOUS
<1> USE PortsAssumption, BoundsAssumption
<1>t. ApiOK /\ TablesOK /\ RecvOK /\ CallOK /\ AdapterOK
  BY DEF TypeOK, ApiOK
<1>p. pc \in PortSteps => call.port \in Ports /\ call.port # NoPort
  BY <1>t DEF CallOK, PortCalls, PortSteps, VlanSteps
<1>f. Flushing => call.port \in Ports /\ call.port # NoPort /\ call.old \in Vids
  <2>1. call.op \in {"create", "remove"} => call \in PortCalls /\ call.old \in Vids
    <3>1. call.op \in {"create", "remove"} => call # NoCall /\ call \notin VlanCalls
      <4>1. call \in VlanCalls => call.op \in {"createVlan", "removeVlan"}
        BY DEF VlanCalls
      <4>2. NoCall.op = "none"
        BY DEF NoCall
      <4> QED
        BY <4>1, <4>2
    <3>2. call.op \in {"create", "remove"} => call.op # "hostif"
      OBVIOUS
    <3> QED
      BY <1>t, <3>1, <3>2, Zenon DEF CallOK
  <2>2. call \in PortCalls => call.port \in Ports /\ call.port # NoPort
    BY DEF PortCalls
  <2>3. Flushing => call.op \in {"create", "remove"}
    BY DEF Flushing
  <2> QED
    BY <2>1, <2>2, <2>3
<1>0. CASE UNCHANGED <<rx, learned, api>>
  BY <1>0 DEF api, OneStraggler, Flushing, Behind, InFlight
<1>1. CASE /\ UNCHANGED <<rx, learned, cursor>> /\ call' \in {call, NoCall}
           /\ pc \notin {"disable", "delUntagged", "flush", "flushDelete"}
           /\ pc' \notin {"disable", "flush", "flushDelete", "delBucket"}
           /\ pc' = "delUntagged" => call.op = "remove"
  <2>1. Flushing' => call' = call /\ Flushing
    BY <1>1 DEF Flushing, NoCall
  <2>2. Flushing' => Behind' = Behind /\ InFlight' = InFlight
    BY <1>1, <2>1 DEF Behind, InFlight
  <2> QED
    BY <1>1, <2>1, <2>2, NothingNew DEF NoCall
<1>2. CASE call' = NoCall /\ pc' = "idle"
  BY <1>2 DEF OneStraggler, Flushing, NoCall
<1>3. ASSUME NEW v \in UserVids, CreateVlan(v) \/ RemoveVlan(v) PROVE OneStraggler'
  BY <1>3 DEF CreateVlan, RemoveVlan, Enter, OneStraggler, Flushing, NoCall
<1>4. ASSUME NEW p \in Ports, CreateHostif(p) PROVE OneStraggler'
  BY <1>4 DEF CreateHostif, Enter, OneStraggler, Flushing
<1>5. ASSUME NEW p \in Ports, NEW v \in UserVids, NEW tagged \in BOOLEAN,
             CreateMember(p, v, tagged)
      PROVE  OneStraggler'
  BY <1>5 DEF CreateMember, Enter, OneStraggler, Flushing
<1>6. ASSUME NEW p \in Ports, NEW m \in members[p], RemoveMember(p, m)
      PROVE  OneStraggler'
  <2>1. cursor' = 0 /\ pc' = "flush" /\ call'.op = "remove"
    BY <1>6 DEF RemoveMember, Enter
  <2>2. Behind' = {}
    BY <2>1 DEF Behind, Macs
  <2> QED
    BY <2>1, <2>2 DEF OneStraggler
<1>7. CASE Disable
  <2>1. /\ UNCHANGED <<rx, learned, call, cursor>> /\ pc = "disable"
        /\ \/ pc' = "addGroup" /\ call.tagged
           \/ pc' = "delUntagged" /\ ~call.tagged
    BY <1>7 DEF Disable, Continue, recv
  <2>2. Flushing' => Flushing
    BY <2>1 DEF Flushing
  <2>3. Behind' = Behind /\ InFlight' = InFlight
    BY <2>1 DEF Behind, InFlight
  <2>4. call'.op = "create" /\ pc' \in {"disable", "delUntagged"} => cursor' = 0
    BY <2>1 DEF OneStraggler
  <2> QED
    BY <2>1, <2>2, <2>3, <2>4, NothingNew
<1>8. CASE DelUntagged
  <2>1. CASE Abort
    BY <2>1, <1>2 DEF Abort
  <2>2. CASE call.op = "create" /\ Continue("flush")
    <3>1. cursor' = 0 /\ pc' = "flush" /\ call' = call
      BY <2>2, <1>8 DEF Continue, DelUntagged, OneStraggler
    <3>2. Behind' = {}
      BY <3>1 DEF Behind, Macs
    <3> QED
      BY <3>1, <3>2 DEF OneStraggler
  <2>3. CASE call.op # "create" /\ Continue("delTagged")
    <3>1. /\ UNCHANGED <<rx, learned, call, cursor>>
          /\ pc = "delUntagged" /\ pc' = "delTagged"
      BY <2>3, <1>8 DEF Continue, DelUntagged, recv
    <3>2. (Flushing' => Flushing) /\ Behind' = Behind /\ InFlight' = InFlight
      BY <3>1, <2>3 DEF Flushing, Behind, InFlight
    <3> QED
      BY <3>1, <3>2, NothingNew
  <2> QED
    BY <1>8, <2>1, <2>2, <2>3 DEF DelUntagged
<1>9. CASE FlushNext
  <2> DEFINE next == {m \in Macs : m > cursor /\ learned[<<call.old, m>>] # NoPort}
  <2>1. pc = "flush" /\ UNCHANGED <<rx, learned, call>> /\ cursor \in Nat
    <3>1. UNCHANGED call
      BY <1>9 DEF FlushNext, Continue
    <3> QED
      BY <1>9, <3>1, <1>t DEF FlushNext, recv, ApiOK, Macs
  <2>2. InFlight' = InFlight /\ (Flushing' => Flushing)
    BY <2>1 DEF InFlight, Flushing
  <2>3. CASE next = {}
    <3>1. pc' = IF call.op = "create" THEN "delGroup" ELSE "delBucket"
      BY <1>9, <2>3 DEF FlushNext, Continue
    <3>2. ASSUME NEW m \in Behind' PROVE m \in Behind
      <4>1. m \in Macs /\ learned[<<call.old, m>>] = call.port
        BY <2>1 DEF Behind
      <4>2. m <= cursor
        BY <4>1, <2>1, <2>3, <1>p DEF Macs, PortSteps
      <4> QED
        BY <4>1, <4>2, <2>1 DEF Behind
    <3>3. call.op # "create" => call.op = "remove"
      BY <2>1, <1>t DEF CallOK, PortCalls, VlanSteps
    <3> QED
      BY <2>1, <2>2, <3>1, <3>2, <3>3, NothingNew
  <2>4. CASE next # {}
    <3>1. PICK m \in next :
            /\ \A k \in next : m <= k
            /\ cursor' = m
            /\ pc' = IF learned[<<call.old, m>>] = call.port THEN "flushDelete" ELSE "flush"
      BY <1>9, <2>4 DEF FlushNext
    <3>2. ASSUME NEW k \in Behind' PROVE k \in Behind
      <4>1. /\ k \in Macs /\ learned[<<call.old, k>>] = call.port
            /\ (pc' = "flush" => k <= m) /\ (pc' = "flushDelete" => k < m)
        BY <2>1, <3>1 DEF Behind
      <4>2. k # m
        BY <4>1, <3>1 DEF Macs
      <4>3. k < m
        BY <4>1, <4>2, <3>1 DEF Macs
      <4>4. k <= cursor
        BY <4>1, <4>3, <3>1, <2>1, <1>p DEF Macs, PortSteps
      <4> QED
        BY <4>1, <4>4, <2>1 DEF Behind
    <3> QED
      BY <2>1, <2>2, <3>1, <3>2, NothingNew
  <2> QED
    BY <2>3, <2>4
<1>10. CASE FlushDelete
  <2>1. CASE Abort
    BY <2>1, <1>2 DEF Abort
  <2>2. CASE Continue("flush")
    <3>1. /\ pc = "flushDelete" /\ pc' = "flush" /\ UNCHANGED <<rx, call, cursor>>
          /\ learned' = [learned EXCEPT ![<<call.old, cursor>>] = NoPort]
          /\ cursor \in Macs /\ call.old \in Vids
      BY <1>10, <2>2, <1>t
         DEF FlushDelete, Continue, Abort, recv, ApiOK, CallOK, VlanSteps, PortCalls
    <3>2. InFlight' = InFlight /\ (Flushing' => Flushing)
      BY <3>1 DEF InFlight, Flushing
    <3>3. ASSUME NEW k \in Behind' PROVE k \in Behind
      <4>1. k \in Macs /\ learned'[<<call.old, k>>] = call.port /\ k <= cursor
        BY <3>1 DEF Behind
      <4>2. k # cursor /\ learned[<<call.old, k>>] = call.port
        BY <4>1, <3>1, <1>t, <1>p DEF TablesOK, PortSteps
      <4> QED
        BY <4>1, <4>2, <3>1 DEF Behind, Macs
    <3> QED
      BY <3>1, <3>2, <3>3, NothingNew
  <2> QED
    BY <1>10, <2>1, <2>2 DEF FlushDelete
<1>11. ASSUME NEW step \in {"delTagged", "delGroup", "addGroup", "resetVid", "addTagged",
                            "addUntagged", "addBucket", "enable", "idle", "addDlf", "delFlood"},
              Continue(step), UNCHANGED <<rx, learned>>,
              pc \notin {"disable", "delUntagged", "flush", "flushDelete"}
       PROVE  OneStraggler'
  BY <1>11, <1>1 DEF Continue
<1>12. CASE Abort
  BY <1>12, <1>2 DEF Abort
<1>13. CASE DelBucket
  <2>1. pc = "delBucket" /\ call.op = "remove" /\ UNCHANGED <<rx, learned>>
    BY <1>13 DEF DelBucket, OneStraggler, recv
  <2>2. CASE Continue("delUntagged")
    BY <2>1, <2>2, <1>1 DEF Continue
  <2> QED
    BY <2>1, <2>2, <1>11, <1>12, <1>13 DEF DelBucket
<1>14. CASE DelTagged \/ ResetVid \/ AddGroup \/ AddTagged \/ AddBucket \/ Enable
  BY <1>14, <1>11, <1>12
     DEF DelTagged, ResetVid, AddGroup, AddTagged, AddBucket, Enable, TableFull, recv
<1>15. CASE DelGroup
  <2>1. /\ pc = "delGroup" /\ UNCHANGED <<rx, learned>>
        /\ Abort \/ \E step \in {"addGroup", "enable", "resetVid"} : Continue(step)
    BY <1>15, <1>t DEF DelGroup, recv, CallOK, PortCalls, VlanSteps
  <2> QED
    BY <2>1, <1>11, <1>12
<1>16. CASE AddUntagged
  <2>1. /\ pc = "addUntagged" /\ UNCHANGED <<rx, learned>>
        /\ Abort \/ \E step \in {"addBucket", "enable", "idle"} : Continue(step)
    BY <1>16, <1>t DEF AddUntagged, TableFull, recv, CallOK, PortCalls, VlanSteps
  <2> QED
    BY <2>1, <1>11, <1>12
<1>17. CASE AddFlood \/ AddDlf \/ DelDlf \/ DelFlood
  BY <1>17, <1>11, <1>12 DEF AddFlood, AddDlf, DelDlf, DelFlood, TableFull, recv
<1>18. CASE UNCHANGED <<learned, api>> /\ (Flushing /\ InFlight' => InFlight)
  <2>1. Flushing' = Flushing /\ Behind' = Behind
    BY <1>18 DEF api, Flushing, Behind
  <2> QED
    BY <1>18, <2>1 DEF api, OneStraggler
<1>19. ASSUME NEW p \in Ports, NEW m \in Macs, NEW tag \in Vids \union {NoVid},
              RxReceive(p, m, tag)
       PROVE  OneStraggler'
  BY <1>19, <1>18 DEF RxReceive, InFlight
<1>20. CASE RxEnd
  BY <1>20, <1>18, <1>t DEF RxEnd, InFlight, RecvOK, NoFrame, Frames
<1>21. CASE RxCheck
  <2>1. Flushing => disabled[call.port]
    BY DEF Flushing, DisabledInv, DisabledDuring, MemberOps, OneStraggler
  <2>2. Flushing /\ InFlight' => InFlight
    BY <1>21, <2>1, <1>t DEF RxCheck, InFlight, RecvOK, NoFrame, Frames, api
  <2> QED
    BY <1>21, <2>2, <1>18 DEF RxCheck
<1>22. CASE RxVid
  BY <1>22, <1>18, <1>t DEF RxVid, InFlight, RecvOK, NoFrame, Frames, api
<1>23. CASE RxLearn
  <2>1. rx \in Frames({"learn"}, Vids) /\ UNCHANGED api /\ ~InFlight'
    BY <1>23, <1>t DEF RxLearn, RecvOK, NoFrame, Frames, InFlight
  <2>2. \/ learned' = learned
        \/ learned' = [learned EXCEPT ![<<rx.vid, rx.mac>>] = IF @ = NoPort THEN rx.port ELSE @]
    BY <1>23 DEF RxLearn
  <2>3. ASSUME Flushing, NEW m \in Behind', m \notin Behind
        PROVE  m = rx.mac /\ rx.port = call.port
    <3>1. /\ m \in Macs /\ learned'[<<call.old, m>>] = call.port
          /\ learned[<<call.old, m>>] # call.port
      BY <2>1, <2>3 DEF Behind, api
    <3> QED
      BY <3>1, <2>1, <2>2, <2>3, <1>f, <1>t DEF TablesOK, Frames
  <2>4. Flushing' = Flushing
    BY <2>1 DEF Flushing, api
  <2>5. CASE rx.port = call.port
    <3>1. Flushing => Behind = {}
      BY <2>1, <2>5 DEF OneStraggler, InFlight, Frames
    <3> QED
      BY <2>1, <2>3, <2>4, <3>1 DEF OneStraggler, api
  <2>6. CASE rx.port # call.port
    BY <2>1, <2>3, <2>4, <2>6 DEF OneStraggler, api
  <2> QED
    BY <2>5, <2>6
<1>24. ASSUME NEW v \in Vids, NEW m \in Macs, AgeOut(v, m) PROVE OneStraggler'
  <2>1. UNCHANGED <<api, rx>> /\ learned' = [learned EXCEPT ![<<v, m>>] = NoPort]
    BY <1>24 DEF AgeOut, recv
  <2>2. Flushing' = Flushing /\ InFlight' = InFlight
    BY <2>1 DEF Flushing, InFlight, api
  <2>3. ASSUME Flushing, NEW k \in Behind' PROVE k \in Behind
    <3>1. k \in Macs /\ learned'[<<call.old, k>>] = call.port
      BY <2>1, <2>3 DEF Behind, api
    <3>2. learned[<<call.old, k>>] = call.port
      BY <3>1, <2>1, <2>3, <1>f, <1>t DEF TablesOK
    <3> QED
      BY <3>1, <3>2, <2>1, <2>3 DEF Behind, api
  <2> QED
    BY <2>1, <2>2, <2>3 DEF OneStraggler, api
<1>25. CASE UNCHANGED vars
  BY <1>25, <1>0 DEF vars, recv
<1> QED
  BY <1>3, <1>4, <1>5, <1>6, <1>7, <1>8, <1>9, <1>10, <1>13, <1>14, <1>15, <1>16,
     <1>17, <1>19, <1>20, <1>21, <1>22, <1>23, <1>24, <1>25
     DEF Next, Request, Work, Receive

\* However frames, ageing and the flush loop interleave, at most one entry of
\* the old VLAN survives on the port (sai.c:1281-1309, 1842-1864).
THEOREM OneStragglerAtMost == Spec => []AtMostOneStraggler
<1>1. Init => OneStraggler
  BY DEF Init, OneStraggler, Flushing, NoCall
<1>2. OneStraggler => AtMostOneStraggler
  <2> SUFFICES ASSUME OneStraggler,
                      \/ call.op = "remove"
                      \/ call.op = "create" /\ ~call.tagged,
                      pc \notin {"disable", "delUntagged", "flush", "flushDelete"}
               PROVE  Cardinality(LeftBehind) <= 1
    BY DEF AtMostOneStraggler
  <2>1. LeftBehind = Behind
    BY DEF LeftBehind, Behind
  <2>3. \A m, k \in LeftBehind : m = k
    BY <2>1 DEF OneStraggler, Flushing
  <2>4. CASE LeftBehind = {}
    <3>1. Cardinality(LeftBehind) = 0
      BY <2>4, FS_EmptySet, Zenon
    <3> QED
      BY <3>1
  <2>5. CASE LeftBehind # {}
    <3>1. PICK m \in LeftBehind : LeftBehind = {m}
      BY <2>3, <2>5
    <3>2. Cardinality(LeftBehind) = 1
      BY <3>1, FS_Singleton, Zenon
    <3> QED
      BY <3>2
  <2> QED
    BY <2>4, <2>5
<1> QED
  BY <1>1, <1>2, StragglerStep, TypeCorrect, DisabledAlways, PTL DEF Spec

-----------------------------------------------------------------------------
(* The memberships of a port as two sets of VLANs.                         *)

\* The VLANs p is a member of, with and without a tag.
TaggedVids(p) == {v \in UserVids : [vid |-> v, tagged |-> TRUE] \in members[p]}
UntaggedVids(p) == {v \in UserVids : [vid |-> v, tagged |-> FALSE] \in members[p]}

\* What SaiVlan says of a port's memberships, in terms of these two sets.
LEMMA Memberships ==
  ASSUME AdapterOK, NEW p \in Ports
  PROVE  /\ MemberVids(p) = TaggedVids(p) \union UntaggedVids(p)
         /\ \A m \in members[p] :
              \/ /\ m.tagged = TRUE /\ m.vid \in TaggedVids(p)
                 /\ m = [vid |-> m.vid, tagged |-> TRUE]
              \/ /\ m.tagged = FALSE /\ m.vid \in UntaggedVids(p)
                 /\ m = [vid |-> m.vid, tagged |-> FALSE]
         /\ TaggedVids(p) \subseteq UserVids /\ UntaggedVids(p) \subseteq UserVids
         /\ members[p] = {} <=> TaggedVids(p) \union UntaggedVids(p) = {}
<1>1. members[p] \subseteq [vid : UserVids, tagged : BOOLEAN]
  BY DEF AdapterOK
<1>2. \A m \in members[p] :
        \/ /\ m.tagged = TRUE /\ m.vid \in TaggedVids(p)
           /\ m = [vid |-> m.vid, tagged |-> TRUE]
        \/ /\ m.tagged = FALSE /\ m.vid \in UntaggedVids(p)
           /\ m = [vid |-> m.vid, tagged |-> FALSE]
  <2> SUFFICES ASSUME NEW m \in members[p]
               PROVE  \/ /\ m.tagged = TRUE /\ m.vid \in TaggedVids(p)
                         /\ m = [vid |-> m.vid, tagged |-> TRUE]
                      \/ /\ m.tagged = FALSE /\ m.vid \in UntaggedVids(p)
                         /\ m = [vid |-> m.vid, tagged |-> FALSE]
    OBVIOUS
  <2>1. m = [vid |-> m.vid, tagged |-> m.tagged] /\ m.vid \in UserVids /\ m.tagged \in BOOLEAN
    BY <1>1
  <2>2. m.tagged = TRUE \/ m.tagged = FALSE
    BY <2>1
  <2> QED
    BY <2>1, <2>2, Zenon DEF TaggedVids, UntaggedVids
<1>3. \A v \in TaggedVids(p) \union UntaggedVids(p) : \E m \in members[p] : m.vid = v
  BY DEF TaggedVids, UntaggedVids
<1> QED
  BY <1>2, <1>3 DEF TaggedVids, UntaggedVids, MemberVids

\* The access VLAN of a port is its untagged membership, or else the port's own VLAN
\* (sai.c:136).
LEMMA Access ==
  ASSUME AdapterOK, NEW p \in Ports, \A v, w \in UntaggedVids(p) : v = w
  PROVE  /\ \A v \in UntaggedVids(p) : AccessVid(p) = v
         /\ UntaggedVids(p) = {} => AccessVid(p) = DefaultVid[p]
<1>1. ASSUME NEW v \in UntaggedVids(p) PROVE AccessVid(p) = v
  <2>1. [vid |-> v, tagged |-> FALSE] \in members[p]
    BY DEF UntaggedVids
  <2>2. \E m \in members[p] : ~m.tagged
    BY <2>1
  <2>3. (CHOOSE m \in members[p] : ~m.tagged) \in members[p]
       /\ ~(CHOOSE m \in members[p] : ~m.tagged).tagged
    BY <2>2
  <2>4. (CHOOSE m \in members[p] : ~m.tagged).vid \in UntaggedVids(p)
    BY <2>3, Memberships
  <2> QED
    BY <2>2, <2>4, Zenon DEF AccessVid
<1>2. ASSUME UntaggedVids(p) = {} PROVE AccessVid(p) = DefaultVid[p]
  <2>1. ~ \E m \in members[p] : ~m.tagged
    BY <1>2, Memberships
  <2> QED
    BY <2>1, Zenon DEF AccessVid
<1> QED
  BY <1>1, <1>2

\* What a step makes of these sets: nothing, when it leaves the list port->vlans alone.
LEMMA MembersKept ==
  ASSUME NEW p \in Ports, members'[p] = members[p]
  PROVE  TaggedVids(p)' = TaggedVids(p) /\ UntaggedVids(p)' = UntaggedVids(p)
BY DEF TaggedVids, UntaggedVids

\* A membership more (sai.c:603-643), ...
LEMMA MembersCreated ==
  ASSUME AdapterOK, NEW p \in Ports, NEW v \in UserVids, NEW tagged \in BOOLEAN,
         members' = [members EXCEPT ![p] = @ \union {[vid |-> v, tagged |-> tagged]}],
         NEW q \in Ports
  PROVE  /\ TaggedVids(q)' = IF q = p /\ tagged THEN TaggedVids(q) \union {v}
                             ELSE TaggedVids(q)
         /\ UntaggedVids(q)' = IF q = p /\ ~tagged THEN UntaggedVids(q) \union {v}
                               ELSE UntaggedVids(q)
<1>1. CASE q # p
  BY <1>1, MembersKept DEF AdapterOK
<1>2. CASE q = p /\ tagged = TRUE
  <2>1. members'[q] = members[q] \union {[vid |-> v, tagged |-> TRUE]}
    BY <1>2 DEF AdapterOK
  <2> QED
    BY <1>2, <2>1 DEF TaggedVids, UntaggedVids
<1>3. CASE q = p /\ tagged = FALSE
  <2>1. members'[q] = members[q] \union {[vid |-> v, tagged |-> FALSE]}
    BY <1>3 DEF AdapterOK
  <2> QED
    BY <1>3, <2>1 DEF TaggedVids, UntaggedVids
<1> QED
  BY <1>1, <1>2, <1>3

\* ... and one less (sai.c:758).
LEMMA MembersRemoved ==
  ASSUME NEW q \in Ports, NEW v, members'[q] = {m \in members[q] : m.vid # v}
  PROVE  /\ TaggedVids(q)' = TaggedVids(q) \ {v}
         /\ UntaggedVids(q)' = UntaggedVids(q) \ {v}
BY DEF TaggedVids, UntaggedVids

-----------------------------------------------------------------------------
(* The steps of a call, table by table rather than step by step.           *)

\* A step of a call that goes on.
Advance ==
  /\ pc # "idle"
  /\ UNCHANGED <<hostif, failures>>
  /\ call' = IF pc' = "idle" THEN NoCall ELSE call
  /\ pc = "disable" => pc' = IF call.tagged THEN "addGroup" ELSE "delUntagged"
  /\ pc = "delUntagged" => pc' = IF call.op = "create" THEN "flush" ELSE "delTagged"
  /\ pc = "flush" =>
       pc' \in {"flush", "flushDelete", IF call.op = "create" THEN "delGroup" ELSE "delBucket"}
  /\ pc = "flushDelete" => pc' = "flush"
  /\ pc = "delBucket" => pc' = IF call.tagged THEN "delTagged" ELSE "delUntagged"
  /\ pc = "delTagged" => pc' = "delGroup"
  /\ pc = "delGroup" => pc' = IF call.op = "create" THEN "addGroup"
                              ELSE IF call.tagged THEN "enable" ELSE "resetVid"
  /\ pc = "resetVid" => pc' = "addGroup"
  /\ pc = "addGroup" => pc' = IF call.op = "remove" THEN "addUntagged" ELSE "addTagged"
  /\ pc = "addTagged" => pc' = IF call.tagged THEN "addBucket" ELSE "addUntagged"
  /\ pc = "addUntagged" => pc' = IF call.op = "create" THEN "addBucket"
                                 ELSE IF call.op = "remove" THEN "enable" ELSE "idle"
  /\ pc = "addBucket" => pc' = "enable"
  /\ pc \in {"enable", "addDlf", "delFlood"} => pc' = "idle"
  /\ pc = "addFlood" => pc' = "addDlf"
  /\ pc = "delDlf" => pc' = "delFlood"
  /\ vlans' = IF pc = "delFlood" THEN vlans \ {call.vid} ELSE vlans
  /\ members' = IF pc = "enable" /\ call.op # "create"
                  THEN [members EXCEPT ![call.port] = {m \in @ : m.vid # call.old}]
                  ELSE members
  /\ vid' = IF pc = "resetVid" THEN [vid EXCEPT ![call.port] = DefaultVid[call.port]] ELSE vid
  /\ pc \notin {"disable", "enable"} => disabled' = disabled
  /\ pc = "disable" => disabled' = [disabled EXCEPT ![call.port] = TRUE]
  /\ pc = "enable" => disabled' = [disabled EXCEPT ![call.port] = FALSE]
  /\ pc \notin {"delGroup", "addGroup"} => group' = group
  /\ pc = "delGroup" => /\ group[<<call.old, call.port>>] # "none"
                        /\ group' = [group EXCEPT ![<<call.old, call.port>>] = "none"]
  /\ pc = "addGroup" =>
       group' = [group EXCEPT ![<<call.vid, call.port>>] =
                   IF @ \in {"pop", "keep"} THEN @ ELSE IF call.tagged THEN "keep" ELSE "pop"]
  /\ flood' = CASE pc = "addFlood" -> flood \union {call.vid}
                [] pc = "delFlood" -> flood \ {call.vid}
                [] OTHER -> flood
  /\ dlf' = CASE pc = "addDlf" -> dlf \union {call.vid}
              [] pc = "delDlf" -> dlf \ {call.vid}
              [] OTHER -> dlf
  /\ taggedFlow' = CASE pc = "delTagged" -> taggedFlow \ {<<call.old, call.port>>}
                     [] pc = "addTagged" -> taggedFlow \union {<<call.vid, call.port>>}
                     [] OTHER -> taggedFlow
  /\ pc \notin {"delUntagged", "addUntagged"} => untaggedFlow' = untaggedFlow
  /\ pc = "delUntagged" => untaggedFlow' = [untaggedFlow EXCEPT ![call.port] = NoVid]
  /\ pc = "addUntagged" =>
       untaggedFlow' = [untaggedFlow EXCEPT ![call.port] = IF @ = NoVid THEN call.vid ELSE @]
  /\ pc \notin {"delBucket", "addBucket", "delFlood"} => bucket' = bucket
  /\ pc = "delBucket" => \E i \in Indexes :
                           /\ bucket[<<call.old, i>>] = call.port
                           /\ bucket' = [bucket EXCEPT ![<<call.old, i>>] = NoPort]
  /\ pc = "addBucket" => \E i \in Indexes :
                           /\ bucket[<<call.vid, i>>] = NoPort
                           /\ bucket' = [bucket EXCEPT ![<<call.vid, i>>] = call.port]
  /\ pc = "delFlood" =>
       bucket' = [k \in DOMAIN bucket |-> IF k[1] = call.vid THEN NoPort ELSE bucket[k]]

\* A step that ends its call with a failure changes neither port nor table, but that it
\* may leave a group without its bucket.
GivesUp ==
  /\ Abort /\ pc # "idle"
  /\ UNCHANGED <<adapter, flood, dlf, bucket, taggedFlow, untaggedFlow>>
  /\ \/ UNCHANGED group
     \/ pc = "addGroup" /\ group' = [group EXCEPT ![<<call.vid, call.port>>] = "empty"]

\* What the type invariant says of the call in progress.
LEMMA CallTypes ==
  ASSUME TypeOK
  PROVE  /\ pc \in PortSteps =>
              /\ call.port \in Ports /\ call.port # NoPort
              /\ call.op \in {"hostif", "create", "remove"} /\ call.tagged \in BOOLEAN
              /\ call.vid \in Vids
              /\ call.op = "hostif" => /\ call.tagged = FALSE
                                       /\ pc \in {"addGroup", "addTagged", "addUntagged"}
              /\ call.op # "hostif" => call.old \in Vids
              /\ call.op = "remove" => call.old \in UserVids
         /\ pc \in VlanSteps =>
              /\ call.port = NoPort /\ call.vid \in UserVids /\ call.tagged = FALSE
              /\ call.op \in {"createVlan", "removeVlan"}
         /\ pc = "idle" => call = NoCall
         /\ pc \in PortSteps \union VlanSteps \union {"idle"}
<1> ApiOK
  BY DEF TypeOK
<1> USE PortsAssumption DEF ApiOK, CallOK
<1>1. pc = "idle" => call = NoCall
  BY DEF PortSteps, VlanSteps
<1>2. pc \in PortSteps => call \in PortCalls /\ call.port # NoPort
  BY DEF PortSteps, VlanSteps, PortCalls
<1>3. pc \in VlanSteps => call \in VlanCalls
  BY DEF PortSteps, VlanSteps
<1>4. pc \in PortSteps => (call.op = "hostif" =>
          call.tagged = FALSE /\ pc \in {"addGroup", "addTagged", "addUntagged"})
  <2>1. call \in PortCalls => call.tagged \in BOOLEAN
    BY DEF PortCalls
  <2> QED
    BY <1>2, <2>1 DEF PortSteps, VlanSteps
<1>5. pc \in PortSteps => (call.op # "hostif" => call.old \in Vids)
                          /\ (call.op = "remove" => call.old \in UserVids)
  BY DEF PortSteps, VlanSteps
<1> QED
  BY <1>1, <1>2, <1>3, <1>4, <1>5 DEF PortCalls, VlanCalls

\* Every step of the adapter is one of the two.
LEMMA WorkAdvances == TypeOK /\ Work => Advance \/ GivesUp
<1> SUFFICES ASSUME TypeOK, Work PROVE Advance \/ GivesUp
  OBVIOUS
<1>c. pc \in PortSteps =>
              /\ call.port \in Ports
              /\ call.op \in {"hostif", "create", "remove"} /\ call.tagged \in BOOLEAN
              /\ call.op = "hostif" => pc \in {"addGroup", "addTagged", "addUntagged"}
  BY CallTypes
<1> USE DEF Advance, GivesUp, Continue, adapter, vlanTables, TableFull
<1>1. CASE Disable
  BY <1>1 DEF Disable
<1>2. CASE DelUntagged
  BY <1>2 DEF DelUntagged
<1>3. CASE FlushNext
  BY <1>3 DEF FlushNext
<1>4. CASE FlushDelete
  BY <1>4 DEF FlushDelete
<1>5. CASE DelBucket
  BY <1>5 DEF DelBucket
<1>6. CASE DelTagged
  BY <1>6 DEF DelTagged
<1>7. CASE DelGroup
  BY <1>7, <1>c DEF DelGroup, PortSteps
<1>8. CASE ResetVid
  BY <1>8 DEF ResetVid
<1>9. CASE AddGroup
  BY <1>9 DEF AddGroup
<1>10. CASE AddTagged
  BY <1>10 DEF AddTagged
<1>11. CASE AddUntagged
  BY <1>11, <1>c DEF AddUntagged, PortSteps
<1>12. CASE AddBucket
  BY <1>12 DEF AddBucket
<1>13. CASE Enable
  BY <1>13 DEF Enable
<1>14. CASE AddFlood
  BY <1>14 DEF AddFlood
<1>15. CASE AddDlf
  BY <1>15 DEF AddDlf
<1>16. CASE DelDlf
  BY <1>16 DEF DelDlf
<1>17. CASE DelFlood
  BY <1>17 DEF DelFlood
<1> QED
  BY <1>1, <1>2, <1>3, <1>4, <1>5, <1>6, <1>7, <1>8, <1>9, <1>10, <1>11, <1>12, <1>13,
     <1>14, <1>15, <1>16, <1>17 DEF Work

-----------------------------------------------------------------------------
(* The inductive invariant: what every table holds of a port at every step *)
(* of the calls, from the code sai.c:603-759 and 2222-2289.                *)

\* A port has one membership at most per VLAN and one untagged membership; before its
\* host interface is created it has none; its VLANs exist and are flooded.
MembersInv ==
  \A p \in Ports :
    /\ TaggedVids(p) \intersect UntaggedVids(p) = {}
    /\ \A v, w \in UntaggedVids(p) : v = w
    /\ p \notin hostif => TaggedVids(p) = {} /\ UntaggedVids(p) = {}
    /\ TaggedVids(p) \union UntaggedVids(p) \subseteq vlans \intersect flood \intersect dlf

\* A VLAN has its flood group and its flow unless its creation or removal is under way,
\* or failed; one that is being removed has no members.
VlanInv ==
  /\ \A v \in vlans : ~Failed(v) =>
       /\ v \in flood \/ (call.vid = v /\ pc = "addFlood")
       /\ v \in dlf \/ (call.vid = v /\ pc \in {"addFlood", "addDlf", "delFlood"})
  /\ pc \in {"addFlood", "addDlf"} => call.op = "createVlan"
  /\ pc \in {"delDlf", "delFlood"} =>
       /\ call.op = "removeVlan" /\ call.vid \in vlans /\ ~Failed(call.vid)
       /\ \A p \in Ports : call.vid \notin TaggedVids(p) \union UntaggedVids(p)

\* The steps of the calls on a port, with and without a tag.
TaggedCreate == {"disable", "addGroup", "addTagged", "addBucket", "enable"}
UntaggedCreate == {"disable", "delUntagged", "flush", "flushDelete", "delGroup", "addGroup",
                   "addTagged", "addUntagged", "addBucket", "enable"}
TaggedRemove == {"flush", "flushDelete", "delBucket", "delTagged", "delGroup", "enable"}
UntaggedRemove == {"flush", "flushDelete", "delBucket", "delUntagged", "delTagged", "delGroup",
                   "resetVid", "addGroup", "addUntagged", "enable"}

\* Which memberships the call in progress is about.  The old VLAN of a new access VLAN
\* is the port's own, on a port where no call failed: there was no untagged membership.
CallInv ==
  LET p == call.port IN
  /\ call.op = "none" <=> pc = "idle"
  /\ call.op \in {"hostif", "create", "remove"} => p \in hostif
  /\ (call.op = "hostif" \/ (call.op \in MemberOps /\ ~UseFailedPorts)) => ~Failed(p)
  /\ call.op = "hostif" => /\ TaggedVids(p) = {} /\ UntaggedVids(p) = {}
                           /\ call.vid = DefaultVid[p]
  /\ call.op = "create" =>
       IF call.tagged THEN pc \in TaggedCreate /\ call.vid \in TaggedVids(p)
       ELSE /\ pc \in UntaggedCreate /\ call.vid \in UntaggedVids(p)
            /\ ~Failed(p) => call.old = DefaultVid[p]
  /\ call.op = "remove" =>
       /\ call.vid = DefaultVid[p]
       /\ IF call.tagged THEN pc \in TaggedRemove /\ call.old \in TaggedVids(p)
          ELSE pc \in UntaggedRemove /\ call.old \in UntaggedVids(p)

\* The port is disabled from the second step of a membership call to its end.
DisabledExact(p) ==
  disabled[p] <=> call.port = p /\ call.op \in MemberOps /\ pc # "disable"

\* port->vid is the access VLAN but for the last steps of its removal.
VidExact(p) ==
  vid[p] = IF /\ call.port = p /\ call.op = "remove" /\ ~call.tagged
              /\ pc \in {"addGroup", "addUntagged", "enable"}
             THEN DefaultVid[p] ELSE AccessVid(p)

\* Frames with the tag of a member VLAN, or of the port's own, are let in, but for the
\* one VLAN whose flow the call has still to add, or has removed already.
MissingFlow(p) ==
  CASE call.port = p /\ call.op \in {"hostif", "create"}
         /\ pc \notin {"addUntagged", "addBucket", "enable"}
         -> call.vid
    [] call.port = p /\ call.op = "remove"
         /\ pc \notin {"flush", "flushDelete", "delBucket", "delUntagged", "delTagged"}
         -> call.old
    [] OTHER -> NoVid

TaggedExact(p) ==
  \A v \in Vids :
    <<v, p>> \in taggedFlow <=>
      /\ p \in hostif /\ v # MissingFlow(p)
      /\ v \in TaggedVids(p) \union UntaggedVids(p) \union {DefaultVid[p]}

\* A call that replaces the access VLAN of p is at work.
UntaggedCall(p) == call.port = p /\ ~call.tagged

\* The VLAN given to untagged frames: the old one, none for a while, then the new one.
UntaggedExact(p) ==
  untaggedFlow[p] =
    CASE p \notin hostif -> NoVid
      [] p \in hostif /\ ~UntaggedCall(p) -> AccessVid(p)
      [] UntaggedCall(p) /\ pc \in {"disable", "delUntagged"} -> call.old
      [] UntaggedCall(p) /\ call.op = "remove" /\ pc \in {"flush", "flushDelete", "delBucket"}
           -> call.old
      [] UntaggedCall(p) /\ pc \in {"addBucket", "enable"} -> call.vid
      [] OTHER -> NoVid

\* The VLAN whose group pops the tag, likewise ...
PopVid(p) ==
    CASE p \notin hostif -> NoVid
      [] p \in hostif /\ ~UntaggedCall(p) -> AccessVid(p)
      [] UntaggedCall(p)
           /\ pc \in {"disable", "delUntagged", "flush", "flushDelete", "delBucket",
                     "delTagged", "delGroup"}
           -> call.old
      [] UntaggedCall(p) /\ pc \in {"addTagged", "addUntagged", "addBucket", "enable"} -> call.vid
      [] OTHER -> NoVid

\* ... and the VLANs whose group keeps it.
Keeps(p, v) ==
  /\ v \in TaggedVids(p)
  /\ ~ /\ call.port = p /\ call.tagged
       /\ \/ call.op = "create" /\ v = call.vid /\ pc \in {"disable", "addGroup"}
          \/ call.op = "remove" /\ v = call.old /\ pc = "enable"

GroupExact(p) ==
  \A v \in Vids :
    group[<<v, p>>] = IF v = PopVid(p) THEN "pop" ELSE IF Keeps(p, v) THEN "keep" ELSE "none"

\* A member VLAN floods to the port through one bucket, but for the VLAN whose bucket the
\* call has still to add, or has removed already; the other VLANs do not.
MissingBucket(p) ==
  CASE call.port = p /\ call.op = "create" /\ pc # "enable" -> call.vid
    [] call.port = p /\ call.op = "remove"
         /\ pc \notin {"flush", "flushDelete", "delBucket"}
         -> call.old
    [] OTHER -> NoVid

BucketExact(p) ==
  \A v \in Vids :
     IF v \in TaggedVids(p) \union UntaggedVids(p) /\ v # MissingBucket(p)
     THEN \E i \in Indexes : \A j \in Indexes : bucket[<<v, j>>] = p <=> j = i
     ELSE \A i \in Indexes : bucket[<<v, i>>] # p

\* All of it, for the ports on which no call failed.
PortExact(p) ==
  /\ DisabledExact(p) /\ VidExact(p) /\ TaggedExact(p)
  /\ UntaggedExact(p) /\ GroupExact(p) /\ BucketExact(p)

PortsExact == \A p \in Ports : ~Failed(p) => PortExact(p)

ExactInv == MembersInv /\ VlanInv /\ CallInv /\ PortsExact

-----------------------------------------------------------------------------
(* The steps preserve the invariant, one lemma per part of it.             *)

\* A step begins a call, carries it on, gives it up, or leaves ports, calls and tables
\* alone: the receive thread writes the learned addresses only.
LEMMA NextCases ==
  TypeOK /\ [Next]_vars =>
    Request \/ Advance \/ GivesUp \/ UNCHANGED <<adapter, api, vlanTables>>
<1>1. Receive => UNCHANGED <<adapter, api, vlanTables>>
  BY DEF Receive, RxReceive, RxEnd, RxCheck, RxVid, RxLearn
<1>2. ASSUME NEW v \in Vids, NEW m \in Macs, AgeOut(v, m)
      PROVE  UNCHANGED <<adapter, api, vlanTables>>
  BY <1>2 DEF AgeOut
<1> QED
  BY <1>1, <1>2, WorkAdvances DEF Next, vars

\* What a failing call leaves behind: a record of its object and everything else as it is.
LEMMA GivenUp ==
  ASSUME TypeOK, GivesUp
  PROVE  /\ call' = NoCall /\ pc' = "idle"
         /\ failures \subseteq failures'
         /\ \A x : Failed(x) => Failed(x)'
         /\ \A x : pc \in PortSteps /\ x = call.port => Failed(x)'
         /\ \A x : pc \in VlanSteps /\ x = call.vid => Failed(x)'
         /\ pc \in PortSteps \union VlanSteps
         /\ UNCHANGED <<vlans, members, vid, disabled, hostif>>
         /\ UNCHANGED <<flood, dlf, bucket, taggedFlow, untaggedFlow>>
         /\ pc \in VlanSteps => UNCHANGED group
         /\ \A p \in Ports, v \in Vids : p # call.port => group'[<<v, p>>] = group[<<v, p>>]
<1>1. /\ pc \in PortSteps => call.port # NoPort
      /\ pc \in VlanSteps => call.port = NoPort
      /\ pc \in PortSteps \union VlanSteps
  BY CallTypes DEF GivesUp
<1>2. /\ call' = NoCall /\ pc' = "idle"
      /\ UNCHANGED <<vlans, members, vid, disabled, hostif>>
      /\ UNCHANGED <<flood, dlf, bucket, taggedFlow, untaggedFlow>>
  BY DEF GivesUp, Abort, adapter
<1>2b. /\ pc \in VlanSteps => UNCHANGED group
       /\ \A p \in Ports, v \in Vids : p # call.port => group'[<<v, p>>] = group[<<v, p>>]
  BY DEF GivesUp, VlanSteps, TypeOK, TablesOK
<1> DEFINE f == [obj |-> IF call.port = NoPort THEN call.vid ELSE call.port,
                 op |-> call.op, step |-> pc]
<1>3. failures' = failures \union {f}
  BY DEF GivesUp, Abort
<1>4. f.obj = IF call.port = NoPort THEN call.vid ELSE call.port
  OBVIOUS
<1>5. /\ pc \in PortSteps => f.obj = call.port
      /\ pc \in VlanSteps => f.obj = call.vid
  BY <1>1, <1>4
<1> HIDE DEF f
<1>6. \A x : f.obj = x => \E g \in failures' : g.obj = x
  BY <1>3
<1>7. /\ pc \in PortSteps => \E g \in failures' : g.obj = call.port
      /\ pc \in VlanSteps => \E g \in failures' : g.obj = call.vid
  BY <1>5, <1>6
<1>8. failures \subseteq failures'
  BY <1>3
<1>9. /\ \A x : Failed(x) => Failed(x)'
      /\ \A x : pc \in PortSteps /\ x = call.port => Failed(x)'
      /\ \A x : pc \in VlanSteps /\ x = call.vid => Failed(x)'
  BY <1>7, <1>8 DEF Failed
<1> QED
  BY <1>1, <1>2, <1>2b, <1>8, <1>9

\* The memberships change at the last step of a removal only (sai.c:758).
LEMMA AdvanceMembers ==
  ASSUME TypeOK, Advance, NEW q \in Ports
  PROVE  IF pc = "enable" /\ call.op = "remove" /\ q = call.port
           THEN /\ TaggedVids(q)' = TaggedVids(q) \ {call.old}
                /\ UntaggedVids(q)' = UntaggedVids(q) \ {call.old}
           ELSE TaggedVids(q)' = TaggedVids(q) /\ UntaggedVids(q)' = UntaggedVids(q)
<1>1. pc = "enable" =>
        call.port \in Ports /\ (call.op # "create" => call.op = "remove")
  BY CallTypes DEF PortSteps
<1>2. /\ pc = "enable" /\ call.op # "create" =>
            members' = [members EXCEPT ![call.port] = {m \in @ : m.vid # call.old}]
      /\ ~(pc = "enable" /\ call.op # "create") => members' = members
  BY DEF Advance
<1>3. CASE pc = "enable" /\ call.op # "create" /\ q = call.port
  <2>1. members'[q] = {m \in members[q] : m.vid # call.old}
    BY <1>2, <1>3 DEF TypeOK, AdapterOK
  <2> QED
    BY <1>1, <1>3, <2>1, MembersRemoved
<1>4. CASE ~(pc = "enable" /\ call.op # "create" /\ q = call.port)
  <2>1. members'[q] = members[q]
    BY <1>1, <1>2, <1>4 DEF TypeOK, AdapterOK
  <2>2. ~(pc = "enable" /\ call.op = "remove" /\ q = call.port)
    BY <1>4
  <2> QED
    BY <2>1, <2>2, MembersKept
<1> QED
  BY <1>3, <1>4

\* A step preserves MembersInv.
LEMMA MembersStep ==
  TypeOK /\ ExactInv /\ [Next]_vars => MembersInv'
<1> SUFFICES ASSUME TypeOK, ExactInv, [Next]_vars PROVE MembersInv'
  OBVIOUS
<1>t. AdapterOK /\ MembersInv /\ VlanInv
  BY DEF TypeOK, ExactInv
<1>0. CASE /\ UNCHANGED <<members, flood, dlf>> /\ hostif \subseteq hostif'
           /\ vlans \subseteq vlans'
  <2>1. \A q \in Ports : TaggedVids(q)' = TaggedVids(q) /\ UntaggedVids(q)' = UntaggedVids(q)
    BY <1>0, MembersKept
  <2> QED
    BY <2>1, <1>0, <1>t DEF MembersInv
<1>1. ASSUME NEW v \in UserVids, CreateVlan(v) \/ RemoveVlan(v) PROVE MembersInv'
  BY <1>1, <1>0 DEF CreateVlan, RemoveVlan, adapter, vlanTables
<1>2. ASSUME NEW p \in Ports, CreateHostif(p) PROVE MembersInv'
  BY <1>2, <1>0 DEF CreateHostif, vlanTables
<1>3. ASSUME NEW p \in Ports, NEW v \in UserVids, NEW tagged \in BOOLEAN,
             CreateMember(p, v, tagged)
      PROVE  MembersInv'
  <2>1. /\ v \in vlans /\ v \in flood /\ v \in dlf
        /\ p \in hostif /\ UNCHANGED <<vlans, hostif, flood, dlf>>
    BY <1>3, <1>t DEF CreateMember, Enter, VlanInv, vlanTables
  <2>2. v \notin TaggedVids(p) \union UntaggedVids(p)
    BY <1>3, <1>t, Memberships DEF CreateMember
  <2>3. ~tagged => UntaggedVids(p) = {}
    BY <1>3, <1>t DEF CreateMember, UntaggedVids
  <2>4. \A q \in Ports :
          /\ TaggedVids(q)' = IF q = p /\ tagged THEN TaggedVids(q) \union {v}
                              ELSE TaggedVids(q)
          /\ UntaggedVids(q)' = IF q = p /\ ~tagged THEN UntaggedVids(q) \union {v}
                                ELSE UntaggedVids(q)
    BY <1>3, <1>t, MembersCreated DEF CreateMember
  <2> QED
    BY <2>1, <2>2, <2>3, <2>4, <1>t DEF MembersInv
<1>4. ASSUME NEW p \in Ports, NEW m \in members[p], RemoveMember(p, m)
      PROVE  MembersInv'
  BY <1>4, <1>0 DEF RemoveMember, vlanTables
<1>5. CASE Advance
  <2>1. \A q \in Ports : /\ TaggedVids(q)' \subseteq TaggedVids(q)
                         /\ UntaggedVids(q)' \subseteq UntaggedVids(q)
    BY <1>5, AdvanceMembers
  <2>2. hostif' = hostif
    BY <1>5 DEF Advance
  <2>3. \A v \in vlans \intersect flood \intersect dlf :
          v \in vlans' \intersect flood' \intersect dlf'
            \/ (pc \in {"delDlf", "delFlood"} /\ v = call.vid)
    BY <1>5 DEF Advance
  <2> QED
    BY <2>1, <2>2, <2>3, <1>t DEF MembersInv, VlanInv
<1>6. CASE GivesUp
  BY <1>6, <1>0, GivenUp
<1>7. CASE UNCHANGED <<adapter, api, vlanTables>>
  BY <1>7, <1>0 DEF adapter, vlanTables
<1> QED
  BY <1>1, <1>2, <1>3, <1>4, <1>5, <1>6, <1>7, NextCases DEF Request

\* A step preserves VlanInv.
LEMMA VlanStep ==
  TypeOK /\ ExactInv /\ [Next]_vars => VlanInv'
<1> SUFFICES ASSUME TypeOK, ExactInv, [Next]_vars PROVE VlanInv'
  OBVIOUS
<1>t. AdapterOK /\ MembersInv /\ VlanInv
  BY DEF TypeOK, ExactInv
<1>1. ASSUME NEW v \in UserVids, CreateVlan(v) PROVE VlanInv'
  BY <1>1, <1>t DEF CreateVlan, Enter, vlanTables, VlanInv, NoCall, Failed
<1>2. ASSUME NEW v \in UserVids, RemoveVlan(v) PROVE VlanInv'
  <2>1. \A p \in Ports : v \notin TaggedVids(p) \union UntaggedVids(p)
    BY <1>2, <1>t, Memberships DEF RemoveVlan
  <2>2. \A q \in Ports : TaggedVids(q)' = TaggedVids(q) /\ UntaggedVids(q)' = UntaggedVids(q)
    BY <1>2, MembersKept DEF RemoveVlan, adapter
  <2> QED
    BY <1>2, <2>1, <2>2, <1>t DEF RemoveVlan, Enter, adapter, vlanTables, VlanInv, NoCall,
       Failed
<1>3. ASSUME pc = "idle", UNCHANGED <<failures, vlans, flood, dlf>>,
             pc' \notin {"addFlood", "addDlf", "delDlf", "delFlood"}
      PROVE  VlanInv'
  BY <1>3, <1>t DEF VlanInv, Failed
<1>4. ASSUME NEW p \in Ports, CreateHostif(p) PROVE VlanInv'
  BY <1>4, <1>3 DEF CreateHostif, Enter, vlanTables
<1>5. ASSUME NEW p \in Ports, NEW v \in UserVids, NEW tagged \in BOOLEAN,
             CreateMember(p, v, tagged)
      PROVE  VlanInv'
  BY <1>5, <1>3 DEF CreateMember, Enter, vlanTables
<1>6. ASSUME NEW p \in Ports, NEW m \in members[p], RemoveMember(p, m) PROVE VlanInv'
  BY <1>6, <1>3 DEF RemoveMember, Enter, vlanTables
<1>7. CASE Advance
  <2>1. CASE pc \in PortSteps
    <3>1. /\ UNCHANGED <<failures, vlans, flood, dlf>>
          /\ pc' \notin {"addFlood", "addDlf", "delDlf", "delFlood"}
          /\ pc \notin {"addFlood", "addDlf", "delDlf", "delFlood"}
      BY <1>7, <2>1 DEF Advance, PortSteps
    <3> QED
      BY <3>1, <1>t DEF VlanInv, Failed
  <2>2. CASE pc \in VlanSteps
    <3>1. /\ UNCHANGED <<failures, members>>
          /\ vlans' = IF pc = "delFlood" THEN vlans \ {call.vid} ELSE vlans
          /\ flood' = CASE pc = "addFlood" -> flood \union {call.vid}
                [] pc = "delFlood" -> flood \ {call.vid}
                [] OTHER -> flood
          /\ dlf' = CASE pc = "addDlf" -> dlf \union {call.vid}
              [] pc = "delDlf" -> dlf \ {call.vid}
              [] OTHER -> dlf
      BY <1>7, <2>2 DEF Advance, VlanSteps
    <3>2. /\ pc = "addFlood" => pc' = "addDlf" /\ call' = call
          /\ pc = "addDlf" => pc' = "idle"
          /\ pc = "delDlf" => pc' = "delFlood" /\ call' = call
          /\ pc = "delFlood" => pc' = "idle"
      BY <1>7 DEF Advance
    <3>3. \A q \in Ports : TaggedVids(q)' = TaggedVids(q) /\ UntaggedVids(q)' = UntaggedVids(q)
      BY <3>1, MembersKept
    <3>4. \A v : Failed(v)' = Failed(v)
      BY <3>1 DEF Failed
    <3> QED
      BY <2>2, <3>1, <3>2, <3>3, <3>4, <1>t DEF VlanInv, VlanSteps
  <2> QED
    BY <1>7, <2>1, <2>2, CallTypes DEF Advance
<1>8. CASE GivesUp
  <2>1. UNCHANGED <<vlans, flood, dlf>> /\ pc' = "idle"
    BY <1>8, GivenUp
  <2>2. \A v : ~Failed(v)' => ~Failed(v) /\ (pc \in VlanSteps => v # call.vid)
    BY <1>8, GivenUp
  <2> QED
    BY <2>1, <2>2, <1>t DEF VlanInv, VlanSteps
<1>9. CASE UNCHANGED <<adapter, api, vlanTables>>
  <2>1. \A q \in Ports : TaggedVids(q)' = TaggedVids(q) /\ UntaggedVids(q)' = UntaggedVids(q)
    BY <1>9, MembersKept DEF adapter
  <2> QED
    BY <1>9, <2>1, <1>t DEF VlanInv, Failed, adapter, api, vlanTables
<1> QED
  BY <1>1, <1>2, <1>4, <1>5, <1>6, <1>7, <1>8, <1>9, NextCases DEF Request

\* The access VLAN is the one untagged membership, if there is one.
AccessOK ==
  \A p \in Ports : /\ \A v \in UntaggedVids(p) : AccessVid(p) = v
                   /\ UntaggedVids(p) = {} => AccessVid(p) = DefaultVid[p]

\* So it is while MembersInv holds, ...
LEMMA AccessIs == AdapterOK /\ MembersInv => AccessOK
BY Access DEF MembersInv, AccessOK

\* ... and after the step as well.
LEMMA AccessAfter == TypeOK /\ ExactInv /\ [Next]_vars => AccessOK'
BY AdapterStep, MembersStep, AccessIs, PTL

\* A step preserves CallInv.
LEMMA CallStep ==
  TypeOK /\ ExactInv /\ [Next]_vars => CallInv'
<1> SUFFICES ASSUME TypeOK, ExactInv, [Next]_vars PROVE CallInv'
  OBVIOUS
<1> USE PortsAssumption
<1>t. AdapterOK /\ MembersInv /\ CallInv /\ PortsExact
  BY DEF TypeOK, ExactInv
<1>1. ASSUME NEW v \in UserVids, CreateVlan(v) \/ RemoveVlan(v) PROVE CallInv'
  BY <1>1 DEF CreateVlan, RemoveVlan, Enter, NoCall, CallInv, MemberOps
<1>i. pc = "idle" => \A p \in Ports : ~Failed(p) => vid[p] = AccessVid(p)
  <2>1. pc = "idle" => \A p \in Ports : call.port # p
    BY CallTypes DEF NoCall
  <2> QED
    BY <2>1, <1>t DEF PortsExact, PortExact, VidExact
<1>2. ASSUME NEW p \in Ports, CreateHostif(p) PROVE CallInv'
  <2>1. TaggedVids(p)' = {} /\ UntaggedVids(p)' = {}
    BY <1>2, <1>t, MembersKept DEF CreateHostif, MembersInv
  <2>2. vid[p] = DefaultVid[p]
    BY <1>2, <1>t, <1>i, AccessIs DEF CreateHostif, Enter, MembersInv, AccessOK
  <2>3. call'.op = "hostif" /\ call'.port = p /\ call'.vid = DefaultVid[p] /\ pc' = "addGroup"
    BY <1>2, <2>2 DEF CreateHostif, Enter
  <2>4. ~Failed(p)' /\ p \in hostif'
    BY <1>2 DEF CreateHostif, Enter, Failed
  <2> QED
    BY <2>1, <2>3, <2>4 DEF CallInv, MemberOps
<1>3. ASSUME NEW p \in Ports, NEW v \in UserVids, NEW tagged \in BOOLEAN,
             CreateMember(p, v, tagged)
      PROVE  CallInv'
  <2>1. /\ call'.op = "create" /\ call'.port = p /\ call'.vid = v
        /\ call'.tagged = tagged /\ call'.old = vid[p] /\ pc' = "disable"
    BY <1>3 DEF CreateMember, Enter
  <2>2. IF tagged THEN v \in TaggedVids(p)' ELSE v \in UntaggedVids(p)'
    <3>1. \A q \in Ports :
          /\ TaggedVids(q)' = IF q = p /\ tagged THEN TaggedVids(q) \union {v}
                              ELSE TaggedVids(q)
          /\ UntaggedVids(q)' = IF q = p /\ ~tagged THEN UntaggedVids(q) \union {v}
                                ELSE UntaggedVids(q)
      BY <1>3, <1>t, MembersCreated DEF CreateMember
    <3> QED
      BY <3>1
  <2>3. ~tagged => UntaggedVids(p) = {}
    BY <1>3, <1>t DEF CreateMember, UntaggedVids
  <2>4. ~tagged /\ ~Failed(p) => vid[p] = DefaultVid[p]
    BY <1>3, <2>3, <1>t, <1>i, AccessIs DEF CreateMember, Enter, AccessOK
  <2>5. (Failed(p)' <=> Failed(p)) /\ p \in hostif' /\ (~UseFailedPorts => ~Failed(p))
    BY <1>3 DEF CreateMember, Enter, Failed, Usable
  <2> QED
    BY <2>1, <2>2, <2>4, <2>5 DEF CallInv, MemberOps, TaggedCreate, UntaggedCreate
<1>4. ASSUME NEW p \in Ports, NEW m \in members[p], RemoveMember(p, m) PROVE CallInv'
  <2>1. /\ call'.op = "remove" /\ call'.port = p /\ call'.vid = DefaultVid[p]
        /\ call'.tagged = m.tagged /\ call'.old = m.vid /\ pc' = "flush"
    BY <1>4 DEF RemoveMember, Enter
  <2>2. \/ m.tagged = TRUE /\ m.vid \in TaggedVids(p)
        \/ m.tagged = FALSE /\ m.vid \in UntaggedVids(p)
    BY <1>t, Memberships
  <2>3. TaggedVids(p)' = TaggedVids(p) /\ UntaggedVids(p)' = UntaggedVids(p)
    BY <1>4, MembersKept DEF RemoveMember
  <2>4. p \in hostif /\ hostif' = hostif
    BY <1>4, <1>t, <2>2 DEF RemoveMember, MembersInv
  <2>5. (Failed(p)' <=> Failed(p)) /\ (~UseFailedPorts => ~Failed(p))
    BY <1>4 DEF RemoveMember, Enter, Failed, Usable
  <2> QED
    BY <2>1, <2>2, <2>3, <2>4, <2>5 DEF CallInv, MemberOps, TaggedRemove, UntaggedRemove
<1>5. CASE Advance
  <2>1. CASE pc' = "idle"
    BY <2>1, <1>5 DEF Advance, CallInv, NoCall, MemberOps
  <2>2. CASE pc' # "idle"
    <3>1. /\ call' = call /\ pc # "idle" /\ pc # "enable"
          /\ hostif' = hostif /\ failures' = failures
      BY <2>2, <1>5 DEF Advance
    <3>2. CASE pc \in VlanSteps
      BY <2>2, <3>1, <3>2, CallTypes DEF CallInv, MemberOps
    <3>3. CASE pc \in PortSteps
      <4> DEFINE p == call.port
      <4>1. /\ p \in Ports /\ call.tagged \in BOOLEAN
            /\ call.op \in {"hostif", "create", "remove"}
        BY <3>3, CallTypes
      <4>2. TaggedVids(call.port)' = TaggedVids(call.port)
           /\ UntaggedVids(call.port)' = UntaggedVids(call.port)
        BY <3>1, <4>1, <1>5, AdvanceMembers
      <4>3. Failed(call.port)' <=> Failed(call.port)
        BY <3>1 DEF Failed
      <4>4. /\ call.op = "create" =>
                 IF call.tagged THEN pc' \in TaggedCreate ELSE pc' \in UntaggedCreate
            /\ call.op = "remove" =>
                 IF call.tagged THEN pc' \in TaggedRemove ELSE pc' \in UntaggedRemove
        BY <1>5, <2>2, <4>1, <1>t
           DEF Advance, CallInv, TaggedCreate, UntaggedCreate, TaggedRemove, UntaggedRemove
      <4> QED
        BY <2>2, <3>1, <4>1, <4>2, <4>3, <4>4, <1>t DEF CallInv, MemberOps
    <3> QED
      BY <3>1, <3>2, <3>3, CallTypes
  <2> QED
    BY <2>1, <2>2
<1>6. CASE GivesUp
  BY <1>6, GivenUp DEF CallInv, NoCall, MemberOps
<1>7. CASE UNCHANGED <<adapter, api, vlanTables>>
  <2>1. call.op \in {"hostif", "create", "remove"} => call.port \in Ports
    <3>1. call.op \in {"hostif", "create", "remove"} => pc # "idle"
      BY <1>t DEF CallInv
    <3> QED
      BY <3>1, CallTypes
  <2>2. \A q \in Ports : TaggedVids(q)' = TaggedVids(q) /\ UntaggedVids(q)' = UntaggedVids(q)
    BY <1>7, MembersKept DEF adapter
  <2>3. \A q : Failed(q)' = Failed(q)
    BY <1>7 DEF Failed, api
  <2>4. call' = call /\ pc' = pc /\ hostif' = hostif
    BY <1>7 DEF api, adapter
  <2> QED
    BY <2>1, <2>2, <2>3, <2>4, <1>t DEF CallInv, MemberOps
<1> QED
  BY <1>1, <1>2, <1>3, <1>4, <1>5, <1>6, <1>7, NextCases DEF Request

\* Nothing that PortExact(p) speaks of changes but for the call.
Untouched(p) ==
  /\ members'[p] = members[p] /\ vid'[p] = vid[p] /\ disabled'[p] = disabled[p]
  /\ p \in hostif' <=> p \in hostif
  /\ untaggedFlow'[p] = untaggedFlow[p]
  /\ \A v \in Vids : /\ group'[<<v, p>>] = group[<<v, p>>]
                     /\ <<v, p>> \in taggedFlow' <=> <<v, p>> \in taggedFlow
  /\ \A v \in Vids, i \in Indexes : bucket'[<<v, i>>] = p <=> bucket[<<v, i>>] = p

\* A call changes no other port: the keys of its groups, flows and buckets hold the port
\* they are about, and a flood group that goes has no members (sai.c:1866-1960).
LEMMA UntouchedElsewhere ==
  ASSUME TypeOK, ExactInv, [Next]_vars, NEW p \in Ports,
         call.port # p, call'.port # p, ~Failed(p)
  PROVE  Untouched(p)
<1> USE PortsAssumption DEF Untouched
<1>t. AdapterOK /\ TablesOK /\ VlanInv /\ BucketExact(p)
  BY DEF TypeOK, ExactInv, PortsExact, PortExact
<1>1. ASSUME NEW v \in UserVids, CreateVlan(v) \/ RemoveVlan(v) PROVE Untouched(p)
  BY <1>1 DEF CreateVlan, RemoveVlan, adapter, vlanTables
<1>2. ASSUME NEW q \in Ports, CreateHostif(q) PROVE Untouched(p)
  <2>1. call'.port = q
    BY <1>2 DEF CreateHostif, Enter
  <2> QED
    BY <1>2, <2>1 DEF CreateHostif, vlanTables
<1>3. ASSUME NEW q \in Ports, NEW v \in UserVids, NEW tagged \in BOOLEAN,
             CreateMember(q, v, tagged)
      PROVE  Untouched(p)
  <2>1. call'.port = q
    BY <1>3 DEF CreateMember, Enter
  <2>2. members'[p] = members[p] /\ vid'[p] = vid[p]
    BY <1>3, <2>1, <1>t DEF CreateMember, AdapterOK
  <2> QED
    BY <1>3, <2>2 DEF CreateMember, vlanTables
<1>4. ASSUME NEW q \in Ports, NEW m \in members[q], RemoveMember(q, m) PROVE Untouched(p)
  <2>1. call'.port = q
    BY <1>4 DEF RemoveMember, Enter
  <2>2. disabled'[p] = disabled[p]
    BY <1>4, <2>1, <1>t DEF RemoveMember, AdapterOK
  <2> QED
    BY <1>4, <2>2 DEF RemoveMember, vlanTables
<1>5. CASE Advance
  <2>1. members'[p] = members[p] /\ vid'[p] = vid[p] /\ (p \in hostif' <=> p \in hostif)
    BY <1>5, <1>t DEF Advance, AdapterOK
  <2>2. disabled'[p] = disabled[p]
    BY <1>5, <1>t DEF Advance, AdapterOK
  <2>3. untaggedFlow'[p] = untaggedFlow[p]
    BY <1>5, <1>t DEF Advance, TablesOK
  <2>4. ASSUME NEW v \in Vids
        PROVE  /\ group'[<<v, p>>] = group[<<v, p>>]
               /\ <<v, p>> \in taggedFlow' <=> <<v, p>> \in taggedFlow
    <3>1. group'[<<v, p>>] = group[<<v, p>>]
      BY <1>5, <1>t DEF Advance, TablesOK
    <3>2. <<v, p>> \in taggedFlow' <=> <<v, p>> \in taggedFlow
      BY <1>5 DEF Advance
    <3> QED
      BY <3>1, <3>2
  <2>5. ASSUME NEW v \in Vids, NEW i \in Indexes
        PROVE  bucket'[<<v, i>>] = p <=> bucket[<<v, i>>] = p
    <3>1. CASE pc = "delBucket"
      BY <3>1, <1>5, <1>t DEF Advance, TablesOK
    <3>2. CASE pc = "addBucket"
      BY <3>2, <1>5, <1>t DEF Advance, TablesOK
    <3>3. CASE pc = "delFlood"
      <4>1. call.vid \notin TaggedVids(p) \union UntaggedVids(p)
        BY <3>3, <1>t DEF VlanInv
      <4>2. v = call.vid => bucket[<<v, i>>] # p
        BY <4>1, <1>t DEF BucketExact
      <4>3. bucket'[<<v, i>>] = IF v = call.vid THEN NoPort ELSE bucket[<<v, i>>]
        BY <3>3, <1>5, <1>t DEF Advance, TablesOK
      <4> QED
        BY <4>2, <4>3
    <3>4. CASE pc \notin {"delBucket", "addBucket", "delFlood"}
      BY <3>4, <1>5 DEF Advance
    <3> QED
      BY <3>1, <3>2, <3>3, <3>4
  <2> QED
    BY <2>1, <2>2, <2>3, <2>4, <2>5
<1>6. CASE GivesUp
  BY <1>6, GivenUp
<1>7. CASE UNCHANGED <<adapter, api, vlanTables>>
  BY <1>7 DEF adapter, vlanTables
<1> QED
  BY <1>1, <1>2, <1>3, <1>4, <1>5, <1>6, <1>7, NextCases DEF Request

\* What is untouched stays exact.
LEMMA ExactElsewhere ==
  ASSUME NEW p \in Ports, Untouched(p), PortExact(p), call.port # p, call'.port # p
  PROVE  PortExact(p)'
<1> USE DEF Untouched
<1>1. /\ TaggedVids(p)' = TaggedVids(p) /\ UntaggedVids(p)' = UntaggedVids(p)
      /\ AccessVid(p)' = AccessVid(p)
  BY MembersKept DEF AccessVid
<1>2. DisabledExact(p)'
  BY DEF PortExact, DisabledExact
<1>3. VidExact(p)'
  BY <1>1 DEF PortExact, VidExact
<1>4. TaggedExact(p)'
  BY <1>1 DEF PortExact, TaggedExact, MissingFlow
<1>5. UntaggedExact(p)'
  BY <1>1 DEF PortExact, UntaggedExact, UntaggedCall
<1>6. GroupExact(p)'
  <2>1. PopVid(p)' = PopVid(p)
    BY <1>1 DEF PopVid, UntaggedCall
  <2>2. \A v \in Vids : Keeps(p, v)' <=> Keeps(p, v)
    BY <1>1 DEF Keeps
  <2> QED
    BY <2>1, <2>2 DEF PortExact, GroupExact
<1>7. BucketExact(p)'
  <2>1. MissingBucket(p)' = MissingBucket(p)
    BY DEF MissingBucket
  <2> QED
    BY <1>1, <2>1 DEF PortExact, BucketExact
<1> QED
  BY <1>2, <1>3, <1>4, <1>5, <1>6, <1>7 DEF PortExact

\* The port whose host interface is created has empty tables still.
LEMMA ExactConnecting ==
  ASSUME TypeOK, ExactInv, NEW p \in Ports, ~Failed(p), CreateHostif(p)
  PROVE  PortExact(p)'
<1> USE PortsAssumption, VidsAssumption
<1>t. MembersInv /\ AdapterOK /\ PortExact(p)
  BY DEF TypeOK, ExactInv, PortsExact
<1>1. /\ call.port # p /\ p \notin hostif /\ TaggedVids(p) = {} /\ UntaggedVids(p) = {}
      /\ AccessVid(p) = DefaultVid[p] /\ DefaultVid[p] \in Vids
  BY <1>t, AccessIs, CallTypes DEF CreateHostif, Enter, NoCall, MembersInv, AccessOK, Vids
<1>2. /\ TaggedVids(p)' = {} /\ UntaggedVids(p)' = {} /\ AccessVid(p)' = DefaultVid[p]
  BY <1>1, MembersKept DEF CreateHostif, AccessVid
<1>3. /\ call'.op = "hostif" /\ call'.port = p /\ call'.vid = DefaultVid[p]
      /\ call'.tagged = FALSE /\ pc' = "addGroup"
      /\ p \in hostif'
      /\ UNCHANGED <<vid, disabled, group, bucket, taggedFlow, untaggedFlow>>
  BY <1>1, <1>t DEF CreateHostif, Enter, vlanTables, PortExact, VidExact
<1>4. DisabledExact(p)'
  BY <1>1, <1>3, <1>t DEF PortExact, DisabledExact, MemberOps
<1>5. VidExact(p)'
  BY <1>1, <1>2, <1>3, <1>t DEF PortExact, VidExact
<1>6. TaggedExact(p)'
  <2>1. MissingFlow(p)' = DefaultVid[p]
    BY <1>3 DEF MissingFlow
  <2> QED
    BY <2>1, <1>1, <1>2, <1>3, <1>t DEF PortExact, TaggedExact
<1>7. UntaggedExact(p)'
  BY <1>1, <1>3, <1>t DEF PortExact, UntaggedExact, UntaggedCall
<1>8. GroupExact(p)'
  <2>1. PopVid(p)' = NoVid /\ PopVid(p) = NoVid
    BY <1>1, <1>3 DEF PopVid, UntaggedCall
  <2> QED
    BY <2>1, <1>1, <1>2, <1>3, <1>t DEF PortExact, GroupExact, Keeps
<1>9. BucketExact(p)'
  BY <1>1, <1>2, <1>3, <1>t DEF PortExact, BucketExact
<1> QED
  BY <1>4, <1>5, <1>6, <1>7, <1>8, <1>9 DEF PortExact

\* The new membership is missing in every table as the call begins (sai.c:603-643).
LEMMA ExactCreating ==
  ASSUME TypeOK, ExactInv, [Next]_vars,
         NEW p \in Ports, NEW v \in UserVids, NEW tagged \in BOOLEAN,
         ~Failed(p), CreateMember(p, v, tagged)
  PROVE  PortExact(p)'
<1> USE PortsAssumption, VidsAssumption
<1>t. MembersInv /\ AdapterOK /\ PortExact(p) /\ AccessOK /\ AccessOK'
  BY AccessIs, AccessAfter DEF TypeOK, ExactInv, PortsExact
<1>1. /\ call.port # p /\ p \in hostif
      /\ v # DefaultVid[p] /\ v \in Vids /\ v # NoVid
  BY CallTypes DEF CreateMember, Enter, NoCall, Vids
<1>2. /\ call'.op = "create" /\ call'.port = p /\ call'.vid = v
      /\ call'.tagged = tagged /\ call'.old = vid[p] /\ pc' = "disable" /\ hostif' = hostif
      /\ UNCHANGED <<disabled, group, bucket, taggedFlow, untaggedFlow>>
  BY DEF CreateMember, Enter, vlanTables
<1>3. v \notin TaggedVids(p) \union UntaggedVids(p)
  BY <1>t, Memberships DEF CreateMember
<1>4. \A q \in Ports :
          /\ TaggedVids(q)' = IF q = p /\ tagged THEN TaggedVids(q) \union {v}
                              ELSE TaggedVids(q)
          /\ UntaggedVids(q)' = IF q = p /\ ~tagged THEN UntaggedVids(q) \union {v}
                                ELSE UntaggedVids(q)
  BY <1>t, MembersCreated DEF CreateMember
<1>5. TaggedVids(p)' \union UntaggedVids(p)' = TaggedVids(p) \union UntaggedVids(p) \union {v}
  BY <1>4
<1>6. \A w \in Vids : Keeps(p, w)' <=> Keeps(p, w)
  <2>1. CASE tagged = TRUE
    BY <2>1, <1>1, <1>2, <1>3, <1>4 DEF Keeps
  <2>2. CASE tagged = FALSE
    BY <2>2, <1>1, <1>2, <1>4 DEF Keeps
  <2> QED
    BY <2>1, <2>2
<1>7. vid[p] = AccessVid(p) /\ untaggedFlow[p] = AccessVid(p) /\ PopVid(p) = AccessVid(p)
  BY <1>1, <1>t DEF PortExact, VidExact, UntaggedExact, PopVid, UntaggedCall
<1>8. /\ VidExact(p)'
      /\ untaggedFlow'[p] = AccessVid(p)
      /\ PopVid(p)' = AccessVid(p)
      /\ UntaggedExact(p)'
  <2>1. CASE tagged = TRUE
    <3>1. UntaggedVids(p)' = UntaggedVids(p)
      BY <2>1, <1>4
    <3>2. AccessVid(p)' = AccessVid(p)
      BY <3>1, <1>t DEF AccessOK
    <3>3. vid' = vid
      BY <2>1 DEF CreateMember
    <3> QED
      BY <2>1, <3>2, <3>3, <1>1, <1>2, <1>7 DEF VidExact, PopVid, UntaggedExact, UntaggedCall
  <2>2. CASE tagged = FALSE
    <3>1. UntaggedVids(p)' = UntaggedVids(p) \union {v}
      BY <2>2, <1>4
    <3>2. AccessVid(p)' = v
      BY <3>1, <1>t DEF AccessOK
    <3>3. vid'[p] = v
      BY <2>2, <1>t DEF CreateMember, AdapterOK
    <3> QED
      BY <2>2, <3>2, <3>3, <1>1, <1>2, <1>7 DEF VidExact, PopVid, UntaggedExact, UntaggedCall
  <2> QED
    BY <2>1, <2>2
<1>9. DisabledExact(p)'
  BY <1>1, <1>2, <1>t DEF PortExact, DisabledExact
<1>10. TaggedExact(p)'
  <2>1. MissingFlow(p)' = v /\ MissingFlow(p) = NoVid
    BY <1>1, <1>2 DEF MissingFlow
  <2> QED
    BY <2>1, <1>1, <1>2, <1>3, <1>5, <1>t DEF PortExact, TaggedExact
<1>11. GroupExact(p)'
  BY <1>2, <1>6, <1>7, <1>8, <1>t DEF PortExact, GroupExact
<1>12. BucketExact(p)'
  <2>1. MissingBucket(p)' = v /\ MissingBucket(p) = NoVid
    BY <1>1, <1>2 DEF MissingBucket
  <2>2. \A w \in Vids : (w \in TaggedVids(p)' \union UntaggedVids(p)' /\ w # MissingBucket(p)')
                        <=> (w \in TaggedVids(p) \union UntaggedVids(p) /\ w # MissingBucket(p))
    BY <2>1, <1>1, <1>3, <1>5
  <2> QED
    BY <2>2, <1>2, <1>t DEF PortExact, BucketExact
<1> QED
  BY <1>8, <1>9, <1>10, <1>11, <1>12 DEF PortExact

\* As the removal begins, only port->disabled changes (sai.c:715).
LEMMA ExactRemoving ==
  ASSUME TypeOK, ExactInv, NEW p \in Ports, NEW m \in members[p],
         ~Failed(p), RemoveMember(p, m)
  PROVE  PortExact(p)'
<1> USE PortsAssumption, VidsAssumption
<1>t. MembersInv /\ AdapterOK /\ PortExact(p) /\ AccessOK
  BY AccessIs DEF TypeOK, ExactInv, PortsExact
<1>1. \/ m.tagged = TRUE /\ m.vid \in TaggedVids(p)
      \/ m.tagged = FALSE /\ m.vid \in UntaggedVids(p)
  BY <1>t, Memberships
<1>2. /\ call'.op = "remove" /\ call'.port = p /\ call'.vid = DefaultVid[p]
      /\ call'.tagged = m.tagged /\ call'.old = m.vid /\ pc' = "flush" /\ hostif' = hostif
      /\ UNCHANGED <<vid, group, bucket, taggedFlow, untaggedFlow>>
  BY DEF RemoveMember, Enter, vlanTables
<1>3. call.port # p /\ p \in hostif
  BY <1>1, <1>t, CallTypes DEF RemoveMember, Enter, NoCall, MembersInv
<1>4. /\ TaggedVids(p)' = TaggedVids(p) /\ UntaggedVids(p)' = UntaggedVids(p)
      /\ AccessVid(p)' = AccessVid(p)
  BY MembersKept DEF RemoveMember, AccessVid
<1>5. m.tagged = FALSE => AccessVid(p) = m.vid
  BY <1>1, <1>t DEF AccessOK
<1>6. DisabledExact(p)'
  BY <1>2, <1>t DEF RemoveMember, DisabledExact, MemberOps, AdapterOK
<1>7. VidExact(p)'
  BY <1>2, <1>3, <1>4, <1>t DEF PortExact, VidExact
<1>8. TaggedExact(p)'
  <2>1. MissingFlow(p)' = MissingFlow(p)
    BY <1>2, <1>3 DEF MissingFlow
  <2> QED
    BY <2>1, <1>2, <1>4, <1>t DEF PortExact, TaggedExact
<1>9. UntaggedExact(p)'
  BY <1>1, <1>2, <1>3, <1>4, <1>5, <1>t DEF PortExact, UntaggedExact, UntaggedCall
<1>10. GroupExact(p)'
  <2>1. PopVid(p)' = PopVid(p)
    BY <1>1, <1>2, <1>3, <1>4, <1>5 DEF PopVid, UntaggedCall
  <2>2. \A v \in Vids : Keeps(p, v)' <=> Keeps(p, v)
    BY <1>2, <1>3, <1>4 DEF Keeps
  <2> QED
    BY <2>1, <2>2, <1>2, <1>t DEF PortExact, GroupExact
<1>11. BucketExact(p)'
  <2>1. MissingBucket(p)' = MissingBucket(p)
    BY <1>2, <1>3 DEF MissingBucket
  <2> QED
    BY <2>1, <1>2, <1>4, <1>t DEF PortExact, BucketExact
<1> QED
  BY <1>6, <1>7, <1>8, <1>9, <1>10, <1>11 DEF PortExact

\* The call at work on p, with its VLANs and the access VLAN of the port.
AtWork(p) ==
  /\ call.port = p /\ call.tagged \in BOOLEAN
  /\ call.vid \in Vids /\ DefaultVid[p] \in Vids \ UserVids
  /\ p \in hostif
  /\ \/ /\ call.op = "hostif" /\ call.tagged = FALSE
        /\ pc \in {"addGroup", "addTagged", "addUntagged"}
        /\ TaggedVids(p) = {} /\ UntaggedVids(p) = {}
        /\ call.vid = DefaultVid[p] /\ AccessVid(p) = DefaultVid[p]
     \/ /\ call.op = "create" /\ call.tagged = TRUE /\ pc \in TaggedCreate
        /\ call.vid \in TaggedVids(p) /\ call.vid \in UserVids /\ call.vid # AccessVid(p)
        /\ AccessVid(p) \in Vids
     \/ /\ call.op = "create" /\ call.tagged = FALSE /\ pc \in UntaggedCreate
        /\ call.vid \in UntaggedVids(p) /\ call.vid \in UserVids
        /\ call.vid \notin TaggedVids(p)
        /\ call.old = DefaultVid[p] /\ AccessVid(p) = call.vid
     \/ /\ call.op = "remove" /\ call.tagged = TRUE /\ pc \in TaggedRemove
        /\ call.old \in TaggedVids(p) /\ call.old \in UserVids /\ call.old # AccessVid(p)
        /\ AccessVid(p) \in Vids /\ call.vid = DefaultVid[p]
     \/ /\ call.op = "remove" /\ call.tagged = FALSE /\ pc \in UntaggedRemove
        /\ call.old \in UntaggedVids(p) /\ call.old \in UserVids
        /\ call.old \notin TaggedVids(p)
        /\ AccessVid(p) = call.old /\ call.vid = DefaultVid[p]

\* On a port without failure the call in progress is one of these five.
LEMMA CallAtWork ==
  ASSUME TypeOK, ExactInv, NEW p \in Ports, call.port = p, ~Failed(p)
  PROVE  AtWork(p)
<1> USE PortsAssumption, VidsAssumption
<1>t. MembersInv /\ CallInv /\ AccessOK
  BY AccessIs DEF TypeOK, ExactInv
<1>1. /\ pc \in PortSteps /\ call.tagged \in BOOLEAN
      /\ call.op \in {"hostif", "create", "remove"}
      /\ call.vid \in Vids
      /\ call.op = "hostif" =>
            call.tagged = FALSE /\ pc \in {"addGroup", "addTagged", "addUntagged"}
  <2>1. pc # "idle" /\ pc \notin VlanSteps
    <3>1. call = NoCall => call.port = NoPort
      BY DEF NoCall
    <3> QED
      BY <3>1, CallTypes
  <2>2. pc \in PortSteps
    BY <2>1, CallTypes
  <2> QED
    BY <2>2, CallTypes
<1>2. DefaultVid[p] \in Vids \ UserVids /\ UserVids \subseteq Vids
  BY DEF Vids
<1>3. /\ TaggedVids(p) \subseteq UserVids /\ UntaggedVids(p) \subseteq UserVids
      /\ TaggedVids(p) \intersect UntaggedVids(p) = {}
      /\ \A v \in UntaggedVids(p) : AccessVid(p) = v
      /\ UntaggedVids(p) = {} => AccessVid(p) = DefaultVid[p]
  BY <1>t DEF MembersInv, AccessOK, TaggedVids, UntaggedVids
<1>4. /\ AccessVid(p) \in Vids /\ AccessVid(p) \notin TaggedVids(p)
  BY <1>2, <1>3
<1>5. CASE call.op = "hostif"
  BY <1>1, <1>2, <1>3, <1>5, <1>t DEF AtWork, CallInv
<1>6. CASE call.op = "create"
  <2>1. /\ p \in hostif
        /\ call.tagged = TRUE => pc \in TaggedCreate /\ call.vid \in TaggedVids(p)
        /\ call.tagged = FALSE => /\ pc \in UntaggedCreate /\ call.vid \in UntaggedVids(p)
                                 /\ call.old = DefaultVid[p]
    BY <1>6, <1>t DEF CallInv
  <2>2. CASE call.tagged = TRUE
    BY <1>1, <1>2, <1>3, <1>4, <1>6, <2>1, <2>2 DEF AtWork
  <2>3. CASE call.tagged = FALSE
    BY <1>1, <1>2, <1>3, <1>4, <1>6, <2>1, <2>3 DEF AtWork
  <2> QED
    BY <1>1, <2>2, <2>3
<1>7. CASE call.op = "remove"
  <2>1. /\ p \in hostif /\ call.vid = DefaultVid[p]
        /\ call.tagged = TRUE => pc \in TaggedRemove /\ call.old \in TaggedVids(p)
        /\ call.tagged = FALSE => pc \in UntaggedRemove /\ call.old \in UntaggedVids(p)
    BY <1>7, <1>t DEF CallInv
  <2>2. CASE call.tagged = TRUE
    BY <1>1, <1>2, <1>3, <1>4, <1>7, <2>1, <2>2 DEF AtWork
  <2>3. CASE call.tagged = FALSE
    BY <1>1, <1>2, <1>3, <1>4, <1>7, <2>1, <2>3 DEF AtWork
  <2> QED
    BY <1>1, <2>2, <2>3
<1> QED
  BY <1>1, <1>5, <1>6, <1>7

\* A step of the call on p leaves each table as the next step expects it: the heart of
\* the proof, by table and, where a table changes, by step.
LEMMA ExactWorking ==
  ASSUME TypeOK, ExactInv, [Next]_vars, NEW p \in Ports, call.port = p, ~Failed(p), Advance
  PROVE  PortExact(p)'
<1> USE PortsAssumption, VidsAssumption
<1>t. AdapterOK /\ TablesOK /\ PortExact(p) /\ AccessOK'
  BY AccessAfter DEF TypeOK, ExactInv, PortsExact
<1>w. AtWork(p)
  BY CallAtWork
<1> USE DEF TaggedCreate, UntaggedCreate, TaggedRemove, UntaggedRemove
<1>m. IF pc = "enable" /\ call.op = "remove"
        THEN /\ TaggedVids(p)' = TaggedVids(p) \ {call.old}
             /\ UntaggedVids(p)' = UntaggedVids(p) \ {call.old}
        ELSE TaggedVids(p)' = TaggedVids(p) /\ UntaggedVids(p)' = UntaggedVids(p)
  BY AdvanceMembers
<1>a. AccessVid(p)' = IF pc = "enable" /\ call.op = "remove" /\ call.tagged = FALSE
                        THEN DefaultVid[p] ELSE AccessVid(p)
  <2>1. AccessOK /\ MembersInv
    BY AccessIs DEF TypeOK, ExactInv
  <2>2. CASE pc = "enable" /\ call.op = "remove" /\ call.tagged = FALSE
    <3>1. UntaggedVids(p)' = {}
      BY <2>1, <2>2, <1>w, <1>m DEF AtWork, MembersInv
    <3> QED
      BY <2>2, <3>1, <1>t DEF AccessOK
  <2>3. CASE ~(pc = "enable" /\ call.op = "remove" /\ call.tagged = FALSE)
    <3>1. UntaggedVids(p)' = UntaggedVids(p)
      <4>1. CASE pc = "enable" /\ call.op = "remove"
        <5>1. call.tagged = TRUE /\ call.old \in TaggedVids(p)
          BY <2>3, <4>1, <1>w DEF AtWork
        <5>2. call.old \notin UntaggedVids(p)
          BY <2>1, <5>1 DEF MembersInv
        <5>3. UntaggedVids(p)' = UntaggedVids(p) \ {call.old}
          BY <4>1, <1>m
        <5> QED
          BY <5>2, <5>3
      <4> QED
        BY <4>1, <1>m
    <3> QED
      BY <2>1, <2>3, <3>1, <1>t DEF AccessOK
  <2> QED
    BY <2>2, <2>3
<1>1. DisabledExact(p)'
  BY <1>w, <1>t DEF AtWork, PortExact, DisabledExact, MemberOps, Advance, AdapterOK, NoCall
<1>2. VidExact(p)'
  BY <1>w, <1>t, <1>a DEF AtWork, PortExact, VidExact, Advance, AdapterOK, NoCall
<1>3. TaggedExact(p)'
  BY <1>w, <1>t, <1>m DEF AtWork, PortExact, TaggedExact, MissingFlow, Advance, NoCall
<1>4. UntaggedExact(p)'
  BY <1>w, <1>t, <1>a DEF AtWork, PortExact, UntaggedExact, UntaggedCall, Advance, TablesOK,
     NoCall
<1>5. GroupExact(p)'
  <2>1. PopVid(p)' = IF pc = "delGroup" /\ call.tagged = FALSE THEN NoVid
                     ELSE IF pc = "addGroup" /\ call.tagged = FALSE THEN call.vid
                     ELSE PopVid(p)
    BY <1>w, <1>a DEF AtWork, PopVid, UntaggedCall, Advance, NoCall
  <2>2. \A v \in Vids :
          Keeps(p, v)' <=> IF pc = "delGroup" /\ call.tagged = TRUE /\ v = call.old THEN FALSE
                           ELSE IF pc = "addGroup" /\ call.tagged = TRUE /\ v = call.vid THEN TRUE
                           ELSE Keeps(p, v)
    BY <1>w, <1>m DEF AtWork, Keeps, Advance, NoCall
  <2>3. \A v \in Vids :
          group'[<<v, p>>] =
            IF pc = "delGroup" /\ v = call.old THEN "none"
            ELSE IF pc = "addGroup" /\ v = call.vid /\ group[<<v, p>>] \notin {"pop", "keep"}
              THEN IF call.tagged THEN "keep" ELSE "pop"
            ELSE group[<<v, p>>]
    BY <1>w, <1>t DEF AtWork, Advance, TablesOK
  <2>4. /\ pc = "delGroup" /\ call.tagged = FALSE => PopVid(p) = call.old
        /\ pc = "addGroup" /\ call.tagged = FALSE => PopVid(p) = NoVid
        /\ pc \in {"addGroup", "delGroup"} /\ call.tagged = TRUE => PopVid(p) = AccessVid(p)
        /\ ~Keeps(p, call.vid) \/ pc # "addGroup"
        /\ pc = "delGroup" /\ call.tagged = FALSE => ~Keeps(p, call.old)
    <3>1. TaggedVids(p) \subseteq UserVids
      BY DEF TaggedVids
    <3> QED
      BY <1>w, <3>1 DEF AtWork, PopVid, UntaggedCall, Keeps
  <2>5. \A v \in Vids :
          group[<<v, p>>] =
            IF v = PopVid(p) THEN "pop" ELSE IF Keeps(p, v) THEN "keep" ELSE "none"
    BY <1>t DEF PortExact, GroupExact
  <2>6. \A v \in Vids :
          group'[<<v, p>>] =
            IF v = PopVid(p)' THEN "pop" ELSE IF Keeps(p, v)' THEN "keep" ELSE "none"
    <3>1. CASE pc = "delGroup"
      BY <3>1, <2>1, <2>2, <2>3, <2>4, <2>5, <1>w DEF AtWork
    <3>2. CASE pc = "addGroup"
      BY <3>2, <2>1, <2>2, <2>3, <2>4, <2>5, <1>w DEF AtWork
    <3>3. CASE pc \notin {"delGroup", "addGroup"}
      BY <3>3, <2>1, <2>2, <2>3, <2>5
    <3> QED
      BY <3>1, <3>2, <3>3
  <2> QED
    BY <2>6 DEF GroupExact
<1>6. BucketExact(p)'
  <2> DEFINE Has(v) == v \in TaggedVids(p) \union UntaggedVids(p) /\ v # MissingBucket(p)
  <2>1. \A v \in Vids : Has(v)' <=> IF pc = "delBucket" /\ v = call.old THEN FALSE
                                    ELSE IF pc = "addBucket" /\ v = call.vid THEN TRUE
                                    ELSE Has(v)
    BY <1>w, <1>m DEF AtWork, MissingBucket, Advance, NoCall
  <2>2. pc = "addBucket" => ~Has(call.vid)
    BY <1>w DEF AtWork, MissingBucket
  <2>3. \A v \in Vids : IF Has(v)
                        THEN \E i \in Indexes : \A j \in Indexes : bucket[<<v, j>>] = p <=> j = i
                        ELSE \A i \in Indexes : bucket[<<v, i>>] # p
    BY <1>t DEF PortExact, BucketExact
  <2>4. ASSUME NEW v \in Vids
        PROVE  IF Has(v)'
                 THEN \E i \in Indexes : \A j \in Indexes : bucket'[<<v, j>>] = p <=> j = i
                 ELSE \A i \in Indexes : bucket'[<<v, i>>] # p
    <3>1. CASE pc = "delBucket" /\ v = call.old
      <4>1. PICK k \in Indexes : /\ bucket[<<v, k>>] = p
                                 /\ bucket' = [bucket EXCEPT ![<<v, k>>] = NoPort]
        BY <3>1, <1>w DEF AtWork, Advance
      <4>2. \A i \in Indexes : bucket[<<v, i>>] = p => i = k
        BY <4>1, <2>3
      <4>3. \A i \in Indexes : bucket'[<<v, i>>] # p
        BY <4>1, <4>2, <1>t DEF TablesOK
      <4> QED
        BY <3>1, <4>3, <2>1
    <3>2. CASE pc = "addBucket" /\ v = call.vid
      <4>1. PICK k \in Indexes : /\ bucket[<<v, k>>] = NoPort
                                 /\ bucket' = [bucket EXCEPT ![<<v, k>>] = p]
        BY <3>2, <1>w DEF AtWork, Advance
      <4>2. \A i \in Indexes : bucket[<<v, i>>] # p
        BY <3>2, <2>2, <2>3
      <4>3. \A i \in Indexes : bucket'[<<v, i>>] = p <=> i = k
        BY <4>1, <4>2, <1>t DEF TablesOK
      <4> QED
        BY <3>2, <4>3, <2>1
    <3>3. CASE ~(pc = "delBucket" /\ v = call.old) /\ ~(pc = "addBucket" /\ v = call.vid)
      <4>1. pc # "delFlood"
        BY <1>w DEF AtWork
      <4>2. \A i \in Indexes : bucket'[<<v, i>>] = bucket[<<v, i>>]
        <5>1. CASE pc = "delBucket"
          BY <5>1, <3>3, <1>w, <1>t DEF AtWork, Advance, TablesOK
        <5>2. CASE pc = "addBucket"
          BY <5>2, <3>3, <1>w, <1>t DEF AtWork, Advance, TablesOK
        <5>3. CASE pc \notin {"delBucket", "addBucket"}
          BY <5>3, <4>1 DEF Advance
        <5> QED
          BY <5>1, <5>2, <5>3
      <4>3. Has(v)' <=> Has(v)
        BY <3>3, <2>1
      <4> QED
        BY <4>2, <4>3, <2>3
    <3> QED
      BY <3>1, <3>2, <3>3
  <2> QED
    BY <2>4 DEF BucketExact
<1> QED
  BY <1>1, <1>2, <1>3, <1>4, <1>5, <1>6 DEF PortExact

\* The steps of the receive thread and the ageing of flows touch none of these tables.
LEMMA ExactUnchanged ==
  ASSUME NEW p \in Ports, PortExact(p), UNCHANGED <<adapter, api, vlanTables>>
  PROVE  PortExact(p)'
<1>1. /\ UNCHANGED <<members, vid, disabled, hostif, pc, call>>
      /\ UNCHANGED <<group, bucket, taggedFlow, untaggedFlow>>
  BY DEF adapter, api, vlanTables
<1>2. /\ TaggedVids(p)' = TaggedVids(p) /\ UntaggedVids(p)' = UntaggedVids(p)
      /\ AccessVid(p)' = AccessVid(p)
  BY <1>1, MembersKept DEF AccessVid
<1>3. DisabledExact(p)' /\ VidExact(p)'
  BY <1>1, <1>2 DEF PortExact, DisabledExact, VidExact
<1>4. TaggedExact(p)' /\ UntaggedExact(p)'
  BY <1>1, <1>2 DEF PortExact, TaggedExact, MissingFlow, UntaggedExact, UntaggedCall
<1>5. GroupExact(p)'
  BY <1>1, <1>2 DEF PortExact, GroupExact, PopVid, UntaggedCall, Keeps
<1>6. BucketExact(p)'
  BY <1>1, <1>2 DEF PortExact, BucketExact, MissingBucket
<1> QED
  BY <1>3, <1>4, <1>5, <1>6 DEF PortExact

\* No failure is ever forgotten.
LEMMA FailuresStay ==
  TypeOK /\ [Next]_vars => \A x : Failed(x) => Failed(x)'
<1> SUFFICES ASSUME TypeOK, [Next]_vars PROVE failures \subseteq failures'
  BY DEF Failed
<1>1. Request => failures' = failures
  BY DEF Request, CreateVlan, RemoveVlan, CreateHostif, CreateMember, RemoveMember, Enter
<1>2. Advance => failures' = failures
  BY DEF Advance
<1>3. GivesUp => failures \subseteq failures'
  BY GivenUp
<1> QED
  BY <1>1, <1>2, <1>3, NextCases DEF api

\* A step preserves PortsExact.
LEMMA PortsStep == TypeOK /\ ExactInv /\ [Next]_vars => PortsExact'
<1> SUFFICES ASSUME TypeOK, ExactInv, [Next]_vars, NEW p \in Ports, ~Failed(p)'
             PROVE  PortExact(p)'
  BY DEF PortsExact
<1> USE PortsAssumption
<1>1. ~Failed(p) /\ PortExact(p)
  BY FailuresStay DEF ExactInv, PortsExact
<1>2. CASE call.port # p /\ call'.port # p
  BY <1>1, <1>2, UntouchedElsewhere, ExactElsewhere
<1>3. CASE UNCHANGED <<adapter, api, vlanTables>>
  BY <1>1, <1>3, ExactUnchanged
<1>4. CASE GivesUp
  <2>1. call.port # p
    <3>1. pc \in VlanSteps => call.port = NoPort
      BY CallTypes
    <3> QED
      BY <1>4, <3>1, GivenUp
  <2>2. call'.port # p
    BY <1>4, GivenUp DEF NoCall
  <2> QED
    BY <2>1, <2>2, <1>2
<1>5. CASE Advance
  <2>1. CASE call.port = p
    BY <2>1, <1>1, <1>5, ExactWorking
  <2>2. CASE call.port # p
    BY <2>2, <1>2, <1>5 DEF Advance, NoCall
  <2> QED
    BY <2>1, <2>2
<1>6. CASE Request
  <2>1. call.port # p
    <3>1. pc = "idle"
      BY <1>6 DEF Request, CreateVlan, RemoveVlan, CreateHostif, CreateMember, RemoveMember,
         Enter
    <3>2. call.port = NoPort
      BY <3>1, CallTypes DEF NoCall
    <3> QED
      BY <3>2
  <2>2. ASSUME NEW v \in UserVids, CreateVlan(v) \/ RemoveVlan(v) PROVE PortExact(p)'
    BY <2>1, <2>2, <1>2 DEF CreateVlan, RemoveVlan, Enter, NoCall
  <2>3. ASSUME NEW q \in Ports, CreateHostif(q) PROVE PortExact(p)'
    <3>1. call'.port = q
      BY <2>3 DEF CreateHostif, Enter
    <3> QED
      BY <2>1, <2>3, <3>1, <1>1, <1>2, ExactConnecting
  <2>4. ASSUME NEW q \in Ports, NEW v \in UserVids, NEW tagged \in BOOLEAN,
               CreateMember(q, v, tagged)
        PROVE  PortExact(p)'
    <3>1. call'.port = q
      BY <2>4 DEF CreateMember, Enter
    <3> QED
      BY <2>1, <2>4, <3>1, <1>1, <1>2, ExactCreating
  <2>5. ASSUME NEW q \in Ports, NEW m \in members[q], RemoveMember(q, m)
        PROVE  PortExact(p)'
    <3>1. call'.port = q
      BY <2>5 DEF RemoveMember, Enter
    <3> QED
      BY <2>1, <2>5, <3>1, <1>1, <1>2, ExactRemoving
  <2> QED
    BY <1>6, <2>2, <2>3, <2>4, <2>5 DEF Request
<1> QED
  BY <1>3, <1>4, <1>5, <1>6, NextCases

\* The invariant holds initially, ...
LEMMA ExactInit == Init => ExactInv
<1> SUFFICES ASSUME Init PROVE ExactInv
  OBVIOUS
<1> USE PortsAssumption, VidsAssumption
<1>1. \A p \in Ports : /\ TaggedVids(p) = {} /\ UntaggedVids(p) = {}
                       /\ AccessVid(p) = DefaultVid[p]
  BY DEF Init, TaggedVids, UntaggedVids, AccessVid
<1>2. MembersInv /\ VlanInv /\ CallInv
  BY <1>1 DEF Init, MembersInv, VlanInv, CallInv, NoCall, MemberOps
<1>3. ASSUME NEW p \in Ports PROVE PortExact(p)
  <2>1. /\ call.port # p /\ p \notin hostif /\ call.op = "none"
        /\ \A v \in Vids : group[<<v, p>>] = "none" /\ <<v, p>> \notin taggedFlow
        /\ \A v \in Vids, i \in Indexes : bucket[<<v, i>>] # p
        /\ untaggedFlow[p] = NoVid /\ vid[p] = DefaultVid[p] /\ disabled[p] = FALSE
    BY DEF Init, NoCall
  <2>2. DisabledExact(p) /\ VidExact(p)
    BY <1>1, <2>1 DEF DisabledExact, VidExact, MemberOps
  <2>3. TaggedExact(p)
    BY <2>1 DEF TaggedExact
  <2>6. UntaggedExact(p)
    BY <2>1 DEF UntaggedExact, UntaggedCall
  <2>4. GroupExact(p)
    <3>1. PopVid(p) = NoVid /\ \A v \in Vids : v # NoVid /\ ~Keeps(p, v)
      BY <1>1, <2>1 DEF PopVid, UntaggedCall, Keeps
    <3> QED
      BY <2>1, <3>1 DEF GroupExact
  <2>5. BucketExact(p)
    BY <1>1, <2>1 DEF BucketExact
  <2> QED
    BY <2>2, <2>3, <2>4, <2>5, <2>6 DEF PortExact
<1> QED
  BY <1>2, <1>3 DEF ExactInv, PortsExact

\* ... and throughout.
LEMMA ExactAlways == Spec => []ExactInv
<1>1. TypeOK /\ ExactInv /\ [Next]_vars => ExactInv'
  BY MembersStep, VlanStep, CallStep, PortsStep DEF ExactInv
<1> QED
  BY <1>1, ExactInit, TypeCorrect, PTL DEF Spec

\* The buckets of v that refer to p, counted.
LEMMA BucketCount ==
  ASSUME NEW p \in Ports, BucketExact(p), NEW v \in Vids, call.port # p
  PROVE  Cardinality({i \in Indexes : bucket[<<v, i>>] = p}) =
           IF v \in TaggedVids(p) \union UntaggedVids(p) THEN 1 ELSE 0
<1> DEFINE used == {i \in Indexes : bucket[<<v, i>>] = p}
<1> USE VidsAssumption
<1>1. MissingBucket(p) = NoVid /\ v # NoVid
  BY DEF MissingBucket
<1>2. CASE v \in TaggedVids(p) \union UntaggedVids(p)
  <2>1. PICK i \in Indexes : \A j \in Indexes : bucket[<<v, j>>] = p <=> j = i
    BY <1>1, <1>2 DEF BucketExact
  <2>2. used = {i}
    BY <2>1
  <2>3. Cardinality({i}) = 1
    BY FS_Singleton, Zenon
  <2> QED
    BY <1>2, <2>2, <2>3
<1>3. CASE v \notin TaggedVids(p) \union UntaggedVids(p)
  <2>1. used = {}
    BY <1>1, <1>3 DEF BucketExact
  <2> QED
    BY <1>3, <2>1, FS_EmptySet, Zenon
<1> QED
  BY <1>2, <1>3

\* Where no call is at work the invariant says what SettledPortIsExact says.
LEMMA ExactSettled == TypeOK /\ ExactInv => SettledPortIsExact
<1> SUFFICES ASSUME TypeOK, ExactInv, NEW p \in hostif, call.port # p, ~Failed(p)
             PROVE  /\ ~disabled[p]
                    /\ vid[p] = AccessVid(p)
                    /\ untaggedFlow[p] = AccessVid(p)
                    /\ \A v \in Vids :
                         /\ group[<<v, p>>] = IF v = AccessVid(p) THEN "pop"
                                              ELSE IF v \in MemberVids(p) THEN "keep" ELSE "none"
                         /\ <<v, p>> \in taggedFlow <=> v \in MemberVids(p) \union {DefaultVid[p]}
                         /\ Cardinality({i \in Indexes : bucket[<<v, i>>] = p}) =
                              IF v \in MemberVids(p) THEN 1 ELSE 0
  BY DEF SettledPortIsExact
<1>t. p \in Ports /\ AdapterOK /\ PortExact(p) /\ AccessOK /\ MembersInv
  BY AccessIs DEF TypeOK, AdapterOK, ExactInv, PortsExact
<1>m. MemberVids(p) = TaggedVids(p) \union UntaggedVids(p)
  BY <1>t, Memberships
<1>1. ~disabled[p] /\ vid[p] = AccessVid(p) /\ untaggedFlow[p] = AccessVid(p)
  BY <1>t DEF PortExact, DisabledExact, VidExact, UntaggedExact, UntaggedCall
<1>2. ASSUME NEW v \in Vids
      PROVE  /\ group[<<v, p>>] = IF v = AccessVid(p) THEN "pop"
                                  ELSE IF v \in MemberVids(p) THEN "keep" ELSE "none"
             /\ <<v, p>> \in taggedFlow <=> v \in MemberVids(p) \union {DefaultVid[p]}
             /\ Cardinality({i \in Indexes : bucket[<<v, i>>] = p}) =
                  IF v \in MemberVids(p) THEN 1 ELSE 0
  <2>1. PopVid(p) = AccessVid(p) /\ (Keeps(p, v) <=> v \in TaggedVids(p))
    BY <1>t DEF PopVid, UntaggedCall, Keeps
  <2>2. v \in UntaggedVids(p) => v = AccessVid(p)
    BY <1>t DEF AccessOK
  <2>3. group[<<v, p>>] = IF v = AccessVid(p) THEN "pop"
                          ELSE IF v \in MemberVids(p) THEN "keep" ELSE "none"
    BY <1>t, <1>m, <2>1, <2>2 DEF PortExact, GroupExact
  <2>4. <<v, p>> \in taggedFlow <=> v \in MemberVids(p) \union {DefaultVid[p]}
    <3>1. MissingFlow(p) = NoVid /\ v # NoVid
      BY VidsAssumption DEF MissingFlow
    <3> QED
      BY <3>1, <1>t, <1>m DEF PortExact, TaggedExact
  <2>5. Cardinality({i \in Indexes : bucket[<<v, i>>] = p}) =
        IF v \in MemberVids(p) THEN 1 ELSE 0
    BY <1>t, <1>m, BucketCount DEF PortExact
  <2> QED
    BY <2>3, <2>4, <2>5
<1> QED
  BY <1>1, <1>2

\* Whatever calls came before, on whatever ports, and whichever of them failed: a port at
\* rest on which none failed is enabled, and its tables hold exactly what its memberships
\* ask for (sai.c:603-759, 2222-2289).
THEOREM SettledPortIsAlwaysExact == Spec => []SettledPortIsExact
BY ExactSettled, ExactAlways, TypeCorrect, PTL

-----------------------------------------------------------------------------
(* Why a call fails.                                                       *)

\* sai.c keeps its ports in an array of MAX_PORTS entries.
PortsFit == IsFiniteSet(Ports) /\ Cardinality(Ports) <= MaxBuckets

\* No port has two buckets in a group.
OneBucketEach ==
  \A v \in Vids : \A i, j \in Indexes :
    (bucket[<<v, i>>] = bucket[<<v, j>>] /\ bucket[<<v, i>>] # NoPort) => i = j

\* The client has no failed port to go on with.
NoFailedPortInUse == ~UseFailedPorts \/ failures = {}

\* A group without a bucket for p has a free one: by the pigeonhole principle, as there
\* are no more ports than buckets and no port has two.
LEMMA FreeBucket ==
  ASSUME TablesOK, PortsFit, OneBucketEach, NEW v \in Vids, NEW p \in Ports,
         \A i \in Indexes : bucket[<<v, i>>] # p
  PROVE  \E i \in Indexes : bucket[<<v, i>>] = NoPort
<1> SUFFICES ASSUME \A i \in Indexes : bucket[<<v, i>>] # NoPort PROVE FALSE
  OBVIOUS
<1> USE BoundsAssumption
<1>1. IsFiniteSet(Indexes) /\ Cardinality(Indexes) = MaxBuckets
  <2>1. IsFiniteSet(0 .. (MaxBuckets - 1))
        /\ Cardinality(0 .. (MaxBuckets - 1)) =
             IF 0 > MaxBuckets - 1 THEN 0 ELSE (MaxBuckets - 1) - 0 + 1
    BY FS_Interval
  <2> QED
    BY <2>1 DEF Indexes
<1>2. IsFiniteSet(Ports \ {p}) /\ Cardinality(Ports \ {p}) = Cardinality(Ports) - 1
  BY FS_RemoveElement DEF PortsFit
<1>3. Cardinality(Ports) \in Nat
  BY FS_CardinalityType DEF PortsFit
<1>4. Cardinality(Ports \ {p}) < Cardinality(Indexes)
  BY <1>1, <1>2, <1>3 DEF PortsFit
<1> DEFINE f == [i \in Indexes |-> bucket[<<v, i>>]]
<1>5. f \in [Indexes -> Ports \ {p}]
  BY DEF TablesOK
<1>6. \E x, y \in Indexes : x # y /\ f[x] = f[y]
  <2> HIDE DEF f
  <2> QED
    BY <1>1, <1>2, <1>4, <1>5, FS_PigeonHole
<1> QED
  BY <1>6 DEF OneBucketEach

\* The port of the call in progress is in the state that the invariant describes.
LEMMA PortInUse ==
  ASSUME TypeOK, ExactInv, NoFailedPortInUse, pc \in PortSteps
  PROVE  call.port \in Ports /\ AtWork(call.port) /\ PortExact(call.port)
<1>1. call.port \in Ports /\ call.op \in {"hostif", "create", "remove"}
  BY CallTypes
<1>2. ~Failed(call.port)
  BY <1>1 DEF ExactInv, CallInv, NoFailedPortInUse, MemberOps, Failed
<1> QED
  BY <1>1, <1>2, CallAtWork DEF ExactInv, PortsExact

\* A step preserves OneBucketEach.
LEMMA OneBucketStep ==
  ASSUME TypeOK, ExactInv, [Next]_vars, NoFailedPortInUse, OneBucketEach
  PROVE  OneBucketEach'
<1> USE PortsAssumption
<1>t. TablesOK
  BY DEF TypeOK
<1>0. CASE bucket' = bucket
  BY <1>0 DEF OneBucketEach
<1>1. CASE Advance /\ bucket' # bucket
  <2>1. CASE pc = "delBucket"
    <3>1. call.old \in Vids
      BY <2>1, CallTypes DEF PortSteps
    <3>2. \A v \in Vids, i \in Indexes :
            bucket'[<<v, i>>] = bucket[<<v, i>>] \/ bucket'[<<v, i>>] = NoPort
      BY <1>1, <2>1, <3>1, <1>t DEF Advance, TablesOK
    <3> QED
      BY <3>2 DEF OneBucketEach
  <2>2. CASE pc = "addBucket"
    <3>1. call.port \in Ports /\ AtWork(call.port) /\ BucketExact(call.port)
      BY <2>2, PortInUse DEF PortSteps, PortExact
    <3>2. call.vid \in Vids /\ \A i \in Indexes : bucket[<<call.vid, i>>] # call.port
      BY <2>2, <3>1
         DEF AtWork, BucketExact, MissingBucket, TaggedRemove, UntaggedRemove
    <3>3. PICK k \in Indexes :
            bucket' = [bucket EXCEPT ![<<call.vid, k>>] = call.port]
      BY <1>1, <2>2 DEF Advance
    <3>4. \A v \in Vids, i \in Indexes :
            bucket'[<<v, i>>] = IF v = call.vid /\ i = k THEN call.port ELSE bucket[<<v, i>>]
      BY <3>2, <3>3, <1>t DEF TablesOK
    <3> QED
      BY <3>2, <3>4 DEF OneBucketEach
  <2>3. CASE pc = "delFlood"
    <3>1. \A v \in Vids, i \in Indexes :
            bucket'[<<v, i>>] = IF v = call.vid THEN NoPort ELSE bucket[<<v, i>>]
      BY <1>1, <2>3, <1>t DEF Advance, TablesOK
    <3> QED
      BY <3>1 DEF OneBucketEach
  <2> QED
    BY <1>1, <2>1, <2>2, <2>3 DEF Advance
<1>2. Request => bucket' = bucket
  BY DEF Request, CreateVlan, RemoveVlan, CreateHostif, CreateMember, RemoveMember,
     vlanTables
<1> QED
  BY <1>0, <1>1, <1>2, GivenUp, NextCases DEF vlanTables

\* With room in the tables, a call fails where traffic can make it fail, or not at all.
LEMMA FailsFromTraffic ==
  ASSUME TypeOK, ExactInv, [Next]_vars, NoFailedPortInUse, OneBucketEach, PortsFit,
         ~TablesMayFill
  PROVE  \/ failures' = failures
         \/ /\ pc \in {"flushDelete", "delGroup"} /\ (FlushDelete \/ DelGroup)
            /\ \A f \in failures' \ failures : f.step = pc
<1> USE PortsAssumption, VidsAssumption DEF Continue, TableFull
<1>p. pc \in PortSteps => call.port \in Ports /\ AtWork(call.port) /\ PortExact(call.port)
  BY PortInUse
<1>v. VlanInv /\ MembersInv /\ TablesOK
  BY DEF ExactInv, TypeOK
<1>1. CASE DelUntagged
  <2>1. untaggedFlow[call.port] # NoVid
    BY <1>1, <1>p DEF DelUntagged, PortSteps, AtWork, PortExact, UntaggedExact, UntaggedCall,
       UntaggedCreate, UntaggedRemove, TaggedCreate, TaggedRemove, Vids
  <2> QED
    BY <1>1, <2>1 DEF DelUntagged
<1>2. CASE DelBucket
  <2>1. \E i \in Indexes : bucket[<<call.old, i>>] = call.port
    BY <1>2, <1>p DEF DelBucket, PortSteps, AtWork, PortExact, BucketExact, MissingBucket,
       UntaggedCreate, UntaggedRemove, TaggedCreate, TaggedRemove, Vids
  <2> QED
    BY <1>2, <2>1 DEF DelBucket
<1>3. CASE DelTagged
  <2>1. <<call.old, call.port>> \in taggedFlow
    BY <1>3, <1>p DEF DelTagged, PortSteps, AtWork, PortExact, TaggedExact, MissingFlow,
       UntaggedCreate, UntaggedRemove, TaggedCreate, TaggedRemove, Vids
  <2> QED
    BY <1>3, <2>1 DEF DelTagged
<1>4. CASE AddBucket
  <2>1. pc = "addBucket" /\ call.port \in Ports /\ AtWork(call.port) /\ PortExact(call.port)
    BY <1>4, <1>p DEF AddBucket, PortSteps
  <2>2. call.op = "create" /\ call.vid \in Vids
        /\ call.vid \in TaggedVids(call.port) \union UntaggedVids(call.port)
    BY <2>1 DEF AtWork, TaggedRemove, UntaggedRemove
  <2>3. call.vid \in flood
    BY <2>1, <2>2, <1>v DEF MembersInv
  <2>4. group[<<call.vid, call.port>>] # "none"
    BY <2>1, <2>2 DEF AtWork, PortExact, GroupExact, PopVid, Keeps, UntaggedCall,
       TaggedRemove, UntaggedRemove
  <2>5. \A i \in Indexes : bucket[<<call.vid, i>>] # call.port
    BY <2>1, <2>2 DEF PortExact, BucketExact, MissingBucket
  <2>6. \E i \in Indexes : bucket[<<call.vid, i>>] = NoPort
    BY <2>1, <2>2, <2>5, <1>v, FreeBucket
  <2> QED
    BY <1>4, <2>3, <2>4, <2>6 DEF AddBucket
<1>5. CASE DelDlf
  <2>1. call.vid \in dlf
    BY <1>5, <1>v DEF DelDlf, VlanInv
  <2> QED
    BY <1>5, <2>1 DEF DelDlf
<1>6. CASE DelFlood
  <2>1. call.vid \in flood
    BY <1>6, <1>v DEF DelFlood, VlanInv
  <2> QED
    BY <1>6, <2>1 DEF DelFlood
<1>7. CASE FlushDelete
  BY <1>7 DEF FlushDelete, Abort
<1>8. CASE DelGroup
  BY <1>8 DEF DelGroup, Abort
<1>9. CASE \/ Disable \/ FlushNext \/ ResetVid \/ AddGroup \/ AddTagged \/ AddUntagged
           \/ Enable \/ AddFlood \/ AddDlf
  BY <1>9 DEF Disable, FlushNext, ResetVid, AddGroup, AddTagged, AddUntagged, Enable,
     AddFlood, AddDlf
<1>10. CASE Request
  BY <1>10 DEF Request, CreateVlan, RemoveVlan, CreateHostif, CreateMember, RemoveMember,
     Enter
<1>11. CASE Receive
  BY <1>11 DEF Receive, RxReceive, RxEnd, RxCheck, RxVid, RxLearn, api
<1>12. ASSUME NEW v \in Vids, NEW m \in Macs, AgeOut(v, m) PROVE failures' = failures
  BY <1>12 DEF AgeOut, api
<1>13. CASE UNCHANGED vars
  BY <1>13 DEF vars, api
<1> QED
  BY <1>1, <1>2, <1>3, <1>4, <1>5, <1>6, <1>7, <1>8, <1>9, <1>10, <1>11, <1>12, <1>13
     DEF Next, Work

\* With room in the tables, and a client that gives a port up when a call fails on it, a
\* call fails at two steps only: when an entry it flushes has aged out, or when one was
\* learned behind its back (sai.c:664, 735, 1849-1860).  sai.c keeps its ports in an array
\* of MAX_PORTS, which is the number of buckets of a group (PortsFit).
THEOREM FailuresAlwaysComeFromTraffic ==
  ASSUME ~TablesMayFill, ~UseFailedPorts, PortsFit
  PROVE  Spec => []FailuresComeFromTraffic
<1> DEFINE I == OneBucketEach /\ FailuresComeFromTraffic
<1>1. Init => I
  BY DEF Init, OneBucketEach, FailuresComeFromTraffic
<1>2. TypeOK /\ ExactInv /\ I /\ [Next]_vars => I'
  <2> SUFFICES ASSUME TypeOK, ExactInv, I, [Next]_vars PROVE I'
    OBVIOUS
  <2>1. NoFailedPortInUse
    BY DEF NoFailedPortInUse
  <2>2. OneBucketEach'
    BY <2>1, OneBucketStep
  <2>3. \/ failures' = failures
        \/ /\ pc \in {"flushDelete", "delGroup"}
           /\ \A f \in failures' \ failures : f.step = pc
    BY <2>1, FailsFromTraffic
  <2>4. FailuresComeFromTraffic'
    BY <2>3 DEF FailuresComeFromTraffic
  <2> QED
    BY <2>2, <2>4
<1>3. I => FailuresComeFromTraffic
  OBVIOUS
<1> HIDE DEF I
<1> QED
  BY <1>1, <1>2, <1>3, ExactAlways, TypeCorrect, PTL DEF Spec

\* No frame was handed over and nothing is learned.
Quiet ==
  /\ \A v \in Vids, m \in Macs : learned[<<v, m>>] = NoPort
  /\ rx.at \in {"receive", "ended"}
  /\ pc # "flushDelete"

\* A step preserves Quiet where no frame is handed over.
LEMMA QuietStep ==
  ASSUME TypeOK, ExactInv, MaxFrames = 0, Quiet, [Next]_vars
  PROVE  Quiet'
<1> USE PortsAssumption DEF Quiet
<1>1. CASE Receive
  <2>1. frames \in 0 .. 0
    BY DEF TypeOK, RecvOK
  <2>2. ~RxEnd
    BY DEF RxEnd
  <2>3. \A p \in Ports, m \in Macs, tag \in Vids \union {NoVid} : ~RxReceive(p, m, tag)
    BY <2>1 DEF RxReceive
  <2>4. ~RxCheck /\ ~RxVid /\ ~RxLearn
    BY DEF RxCheck, RxVid, RxLearn
  <2> QED
    BY <1>1, <2>2, <2>3, <2>4 DEF Receive
<1>2. ASSUME NEW v \in Vids, NEW m \in Macs, AgeOut(v, m) PROVE Quiet'
  BY <1>2 DEF AgeOut
<1>3. CASE Request
  BY <1>3 DEF Request, CreateVlan, RemoveVlan, CreateHostif, CreateMember, RemoveMember,
     Enter, recv
<1>4. CASE FlushDelete
  BY <1>4 DEF FlushDelete
<1>5. CASE FlushNext
  <2>1. call.old \in Vids
    BY <1>5, CallTypes DEF FlushNext, PortSteps
  <2>2. {m \in Macs : m > cursor /\ learned[<<call.old, m>>] # NoPort} = {}
    BY <2>1
  <2>3. pc' # "flushDelete"
    BY <1>5, <2>2 DEF FlushNext, Continue
  <2> QED
    BY <1>5, <2>3 DEF FlushNext, recv
<1>6. CASE Work /\ ~FlushNext /\ ~FlushDelete
  <2>1. Advance \/ GivesUp
    BY <1>6, WorkAdvances
  <2>2. learned' = learned /\ rx' = rx
    BY <1>6 DEF Work, Disable, DelUntagged, DelBucket, DelTagged, DelGroup, ResetVid,
       AddGroup,
       AddTagged, AddUntagged, AddBucket, Enable, AddFlood, AddDlf, DelDlf, DelFlood, recv
  <2>3. CASE pc = "flush"
    BY <1>6, <2>3 DEF Work, Disable, DelUntagged, DelBucket, DelTagged, DelGroup, ResetVid,
       AddGroup,
       AddTagged, AddUntagged, AddBucket, Enable, AddFlood, AddDlf, DelDlf, DelFlood
  <2>4. CASE pc # "flush"
    BY <2>1, <2>2, <2>4, GivenUp, CallTypes DEF Advance, PortSteps, VlanSteps
  <2> QED
    BY <2>3, <2>4
<1>7. CASE UNCHANGED vars
  BY <1>7 DEF vars, recv, api
<1> QED
  BY <1>1, <1>2, <1>3, <1>4, <1>5, <1>6, <1>7 DEF Next

\* A group is unreferenced when the call deletes it.
LEMMA GroupIsFree ==
  ASSUME TypeOK, ExactInv, Quiet, NoFailedPortInUse, pc = "delGroup"
  PROVE  group[<<call.old, call.port>>] # "none" /\ ~Referenced(call.old, call.port)
<1> DEFINE p == call.port
<1>1. call.port \in Ports /\ call.old \in Vids /\ call.port # NoPort
      /\ AtWork(call.port) /\ PortExact(call.port)
  <2>1. pc \in PortSteps
    BY DEF PortSteps
  <2> QED
    BY <2>1, PortInUse, CallTypes
<1> USE DEF AtWork, TaggedCreate, UntaggedCreate, TaggedRemove, UntaggedRemove
<1>2. group[<<call.old, call.port>>] # "none"
  BY <1>1 DEF PortExact, GroupExact, PopVid, Keeps, UntaggedCall
<1>3. \A i \in Indexes : bucket[<<call.old, i>>] # call.port
  <2>1. TaggedVids(call.port) \subseteq UserVids
       /\ UntaggedVids(call.port) \subseteq UserVids
    BY DEF TaggedVids, UntaggedVids
  <2>2. ~(call.old \in TaggedVids(call.port) \union UntaggedVids(call.port)
          /\ call.old # MissingBucket(call.port))
    BY <1>1, <2>1 DEF MissingBucket
  <2> QED
    BY <1>1, <2>2 DEF PortExact, BucketExact
<1> QED
  BY <1>1, <1>2, <1>3 DEF Referenced, Quiet

\* Without frames, with room in the tables and no more ports than MAX_PORTS, no call of a
\* client that keeps to the contract fails, whichever calls came before
\* (sai.c:529-759, 2222-2289).
THEOREM LegalCallsAlwaysSucceed ==
  ASSUME MaxFrames = 0, ~TablesMayFill, PortsFit
  PROVE  Spec => []LegalCallsSucceed
<1> DEFINE I == OneBucketEach /\ Quiet /\ LegalCallsSucceed
<1>1. Init => I
  BY DEF Init, OneBucketEach, Quiet, LegalCallsSucceed, NoFrame
<1>2. TypeOK /\ ExactInv /\ I /\ [Next]_vars => I'
  <2> SUFFICES ASSUME TypeOK, ExactInv, I, [Next]_vars PROVE I'
    OBVIOUS
  <2>1. NoFailedPortInUse
    BY DEF NoFailedPortInUse, LegalCallsSucceed
  <2>2. OneBucketEach' /\ Quiet'
    BY <2>1, OneBucketStep, QuietStep
  <2>3. \/ failures' = failures
        \/ pc \in {"flushDelete", "delGroup"} /\ (FlushDelete \/ DelGroup)
    BY <2>1, FailsFromTraffic
  <2>4. ~FlushDelete
    BY DEF FlushDelete, Quiet
  <2>5. DelGroup => failures' = failures
    BY <2>1, GroupIsFree DEF DelGroup, Continue
  <2>6. LegalCallsSucceed'
    BY <2>3, <2>4, <2>5 DEF LegalCallsSucceed
  <2> QED
    BY <2>2, <2>6
<1>3. I => LegalCallsSucceed
  OBVIOUS
<1> HIDE DEF I
<1> QED
  BY <1>1, <1>2, <1>3, ExactAlways, TypeCorrect, PTL DEF Spec

-----------------------------------------------------------------------------
(* To its client the adapter is VlanApi: each step maps to a step of VlanApi, or*)
(* to none.                                                                *)

\* What forwards[p] of VlanApi stands for.
Forwards(p) == IF Service(p) = "up" THEN TablesOf(p) ELSE Nothing

\* A port in service forwards what its memberships ask for.
ForwardsOK ==
  \A p \in Ports :
    Forwards(p) = IF Service(p) = "up" THEN Api!Forwarding(p, SettledMembers(p)) ELSE Nothing

\* The tables of a port in service, as SettledPortIsExact gives them, are the record that
\* VlanApi calls Forwarding.
LEMMA UpForwards ==
  ASSUME TypeOK, ExactInv, NEW p \in Ports, Service(p) = "up"
  PROVE  TablesOf(p) = Api!Forwarding(p, SettledMembers(p))
<1>1. ~Failed(p) /\ call.port # p /\ p \in hostif
  BY DEF Service
<1>2. SettledMembers(p) = members[p]
  BY <1>1 DEF SettledMembers
<1>t. AdapterOK /\ PortExact(p) /\ AccessOK /\ MembersInv
  BY <1>1, AccessIs DEF TypeOK, ExactInv, PortsExact
<1>m. MemberVids(p) = TaggedVids(p) \union UntaggedVids(p)
  BY <1>t, Memberships
<1>a. Api!AccessVid(p, members[p]) = AccessVid(p) /\ Api!MemberVids(members[p]) = MemberVids(p)
  BY DEF Api!AccessVid, AccessVid, Api!MemberVids, MemberVids
<1>v. Api!Vids = Vids
  BY DEF Api!Vids, Vids
<1>e. SettledPortIsExact
  BY ExactSettled
<1>3. /\ ~disabled[p] /\ vid[p] = AccessVid(p) /\ untaggedFlow[p] = AccessVid(p)
      /\ \A v \in Vids :
           /\ group[<<v, p>>] = IF v = AccessVid(p) THEN "pop"
                                ELSE IF v \in MemberVids(p) THEN "keep" ELSE "none"
           /\ <<v, p>> \in taggedFlow <=> v \in MemberVids(p) \union {DefaultVid[p]}
           /\ Cardinality({i \in Indexes : bucket[<<v, i>>] = p}) =
                IF v \in MemberVids(p) THEN 1 ELSE 0
  BY <1>1, <1>e DEF SettledPortIsExact
<1>4. MemberVids(p) \union {DefaultVid[p]} \subseteq Vids
  BY <1>m DEF Vids, TaggedVids, UntaggedVids
<1>5. MemberVids(p) \subseteq Flooded
  BY <1>t, <1>m DEF Flooded, MembersInv
<1>6. {v \in Vids : <<v, p>> \in taggedFlow} = MemberVids(p) \union {DefaultVid[p]}
  BY <1>3, <1>4
<1>7. [v \in Vids |-> group[<<v, p>>]] =
        [v \in Vids |-> IF v = AccessVid(p) THEN "pop"
                        ELSE IF v \in MemberVids(p) THEN "keep" ELSE "none"]
  BY <1>3
<1>8. [v \in Vids |-> IF v \notin Flooded THEN 0
                      ELSE Cardinality({i \in Indexes : bucket[<<v, i>>] = p})] =
        [v \in Vids |-> IF v \in MemberVids(p) THEN 1 ELSE 0]
  BY <1>3, <1>5
<1> DEFINE out == [v \in Vids |-> IF v = AccessVid(p) THEN "pop"
                                 ELSE IF v \in MemberVids(p) THEN "keep" ELSE "none"]
           copies == [v \in Vids |-> IF v \in MemberVids(p) THEN 1 ELSE 0]
<1>9. TablesOf(p) = [untagged |-> AccessVid(p),
                     tagged |-> MemberVids(p) \union {DefaultVid[p]},
                     out |-> out, copies |-> copies, learns |-> AccessVid(p)]
  BY <1>3, <1>6, <1>7, <1>8 DEF TablesOf
<1>10. Api!Forwarding(p, members[p]) =
         [untagged |-> AccessVid(p), tagged |-> MemberVids(p) \union {DefaultVid[p]},
          out |-> out, copies |-> copies, learns |-> AccessVid(p)]
  BY <1>a, <1>v DEF Api!Forwarding
<1> QED
  BY <1>2, <1>9, <1>10

\* So it is in every state of the invariant.
LEMMA ForwardsIs == TypeOK /\ ExactInv => ForwardsOK
BY UpForwards DEF ForwardsOK, Forwards

\* The client sees no change of p.
SameToClient(p) ==
  Service(p)' = Service(p) /\ SettledMembers(p)' = SettledMembers(p)

\* A call fails on its own port only: a failure is recorded by its object.
LEMMA FailuresElsewhere ==
  ASSUME TypeOK, [Next]_vars, NEW p \in Ports, call.port # p
  PROVE  Failed(p)' <=> Failed(p)
<1> USE PortsAssumption
<1>1. CASE failures' = failures
  BY <1>1 DEF Failed
<1>2. CASE GivesUp
  <2> DEFINE f == [obj |-> IF call.port = NoPort THEN call.vid ELSE call.port,
                   op |-> call.op, step |-> pc]
  <2>1. failures' = failures \union {f}
       /\ f.obj = IF call.port = NoPort THEN call.vid ELSE call.port
    BY <1>2 DEF GivesUp, Abort
  <2>2. f.obj # p
    BY <2>1, <1>2, CallTypes, ObjectsAssumption DEF GivesUp
  <2> HIDE DEF f
  <2> QED
    BY <2>1, <2>2 DEF Failed
<1>3. Request => failures' = failures
  BY DEF Request, CreateVlan, RemoveVlan, CreateHostif, CreateMember, RemoveMember, Enter
<1> QED
  BY <1>1, <1>2, <1>3, NextCases DEF Advance, api

\* A step of a call on another port, or on none, is not seen at p.
LEMMA SameElsewhere ==
  ASSUME TypeOK, ExactInv, [Next]_vars, NEW p \in Ports, call.port # p, call'.port # p
  PROVE  SameToClient(p)
<1>1. Failed(p)' <=> Failed(p)
  BY FailuresElsewhere
<1>2. CASE Failed(p)
  BY <1>1, <1>2 DEF SameToClient, Service, SettledMembers
<1>3. CASE ~Failed(p)
  <2>1. Untouched(p)
    BY <1>3, UntouchedElsewhere
  <2> QED
    BY <1>1, <1>3, <2>1 DEF SameToClient, Service, SettledMembers, Untouched
<1> QED
  BY <1>2, <1>3

\* The state of VlanApi.
ApiMembers == [p \in Ports |-> SettledMembers(p)]
ApiService == [p \in Ports |-> Service(p)]
ApiForwards == [p \in Ports |-> Forwards(p)]

\* If the client sees no port change, the state of VlanApi is the same but for the VLANs.
LEMMA ClientSeesNothing ==
  ASSUME ForwardsOK, ForwardsOK', \A q \in Ports : SameToClient(q)
  PROVE  UNCHANGED <<ApiMembers, ApiService, ApiForwards>>
<1>1. \A q \in Ports : Forwards(q)' = Forwards(q)
  BY DEF ForwardsOK, SameToClient
<1> QED
  BY <1>1 DEF ApiMembers, ApiService, ApiForwards, SameToClient

\* If it sees p change, the state of VlanApi changes at p alone.
LEMMA ClientSeesPort ==
  ASSUME ForwardsOK, ForwardsOK', NEW p \in Ports,
         \A q \in Ports : q # p => SameToClient(q)
  PROVE  /\ ApiService' = [ApiService EXCEPT ![p] = Service(p)']
         /\ ApiMembers' = [ApiMembers EXCEPT ![p] = SettledMembers(p)']
         /\ ApiForwards' = [ApiForwards EXCEPT ![p] = Forwards(p)']
         /\ SettledMembers(p)' = SettledMembers(p) => ApiMembers' = ApiMembers
         /\ Forwards(p)' = Forwards(p) => ApiForwards' = ApiForwards
         /\ Service(p)' = "up" => Forwards(p)' = Api!Forwarding(p, SettledMembers(p)')
         /\ Service(p)' # "up" => Forwards(p)' = Nothing
         /\ Service(p) # "up" => Forwards(p) = Nothing
<1>1. \A q \in Ports : q # p => Forwards(q)' = Forwards(q)
  BY DEF ForwardsOK, SameToClient
<1>2. /\ Service(p)' = "up" => Forwards(p)' = Api!Forwarding(p, SettledMembers(p)')
      /\ Service(p)' # "up" => Forwards(p)' = Nothing
      /\ Service(p) # "up" => Forwards(p) = Nothing
  BY DEF ForwardsOK, Nothing
<1>3. ApiService' = [ApiService EXCEPT ![p] = Service(p)']
  BY DEF ApiService, SameToClient
<1>4. ApiMembers' = [ApiMembers EXCEPT ![p] = SettledMembers(p)']
  BY DEF ApiMembers, SameToClient
<1>5. ApiForwards' = [ApiForwards EXCEPT ![p] = Forwards(p)']
  BY <1>1 DEF ApiForwards
<1>6. SettledMembers(p)' = SettledMembers(p) => ApiMembers' = ApiMembers
  BY DEF ApiMembers, SameToClient
<1>7. Forwards(p)' = Forwards(p) => ApiForwards' = ApiForwards
  BY <1>1 DEF ApiForwards
<1> QED
  BY <1>2, <1>3, <1>4, <1>5, <1>6, <1>7

\* The steps of VlanApi, in terms of what the client sees of p.
LEMMA ClientConnects ==
  ASSUME ForwardsOK, ForwardsOK', NEW p \in Ports, \A q \in Ports : q # p => SameToClient(q),
         Flooded' = Flooded, SettledMembers(p)' = SettledMembers(p),
         Service(p) = "none", Service(p)' = "new"
  PROVE  Api!Connect(p)
<1>1. /\ ApiService' = [ApiService EXCEPT ![p] = "new"]
      /\ UNCHANGED <<ApiMembers, ApiForwards>>
  BY ClientSeesPort
<1> QED
  BY <1>1 DEF Api!Connect, ApiService, ApiMembers, ApiForwards, Forwards

\* A membership call begins,
LEMMA ClientInterrupted ==
  ASSUME ForwardsOK, ForwardsOK', NEW p \in Ports, \A q \in Ports : q # p => SameToClient(q),
         Flooded' = Flooded, SettledMembers(p)' = SettledMembers(p),
         Service(p) = "up", Service(p)' = "down"
  PROVE  Api!Interrupt(p)
<1>1. /\ ApiService' = [ApiService EXCEPT ![p] = "down"]
      /\ ApiForwards' = [ApiForwards EXCEPT ![p] = Nothing]
      /\ ApiMembers' = ApiMembers
  BY ClientSeesPort
<1>2. Api!Nothing = Nothing
  BY DEF Api!Nothing, Nothing, Api!Vids, Vids
<1> QED
  BY <1>1, <1>2 DEF Api!Interrupt, ApiService, ApiMembers, ApiForwards, Forwards

\* it fails,
LEMMA ClientLoses ==
  ASSUME ForwardsOK, ForwardsOK', NEW p \in Ports, \A q \in Ports : q # p => SameToClient(q),
         Flooded' = Flooded, Service(p) \in {"new", "down"}, Service(p)' = "lost",
         SettledMembers(p)' = {}
  PROVE  Api!Lose(p)
<1>1. /\ ApiService' = [ApiService EXCEPT ![p] = "lost"]
      /\ ApiMembers' = [ApiMembers EXCEPT ![p] = {}]
      /\ ApiForwards' = ApiForwards
  BY ClientSeesPort
<1> QED
  BY <1>1 DEF Api!Lose, ApiService, ApiMembers, ApiForwards, Forwards

\* or it ends.
LEMMA ClientResumes ==
  ASSUME ForwardsOK, ForwardsOK', NEW p \in Ports, \A q \in Ports : q # p => SameToClient(q),
         Flooded' = Flooded, Service(p)' = "up", NEW M, SettledMembers(p)' = M,
         Api!MemberVids(M) \subseteq Flooded
  PROVE  Api!Resume(p, M)
<1>1. /\ ApiService' = [ApiService EXCEPT ![p] = "up"]
      /\ ApiMembers' = [ApiMembers EXCEPT ![p] = M]
      /\ ApiForwards' = [ApiForwards EXCEPT ![p] = Api!Forwarding(p, M)]
  BY ClientSeesPort
<1> QED
  BY <1>1 DEF Api!Resume, ApiService, ApiMembers, ApiForwards, Forwards

\* The client sees nothing of the step.
Stutters == UNCHANGED <<Flooded, ApiMembers, ApiService, ApiForwards>>

\* The steps of a call on a VLAN: it is flooded from the step on that adds the flow and
\* until the step that deletes it (sai.c:529-563, 1910-1960).
LEMMA VlanToClient ==
  ASSUME TypeOK, ExactInv, ForwardsOK, ForwardsOK', \A q \in Ports : SameToClient(q),
         Advance, pc \in VlanSteps
  PROVE  Api!Next \/ Stutters
<1>1. UNCHANGED <<ApiMembers, ApiService, ApiForwards>>
  BY ClientSeesNothing
<1>2. call.vid \in UserVids
  BY CallTypes
<1>3. CASE Flooded' = Flooded
  BY <1>1, <1>3 DEF Stutters
<1>4. CASE Flooded' = Flooded \union {call.vid}
  <2>1. Api!CreateVlan(call.vid)
    BY <1>1, <1>4 DEF Api!CreateVlan, ApiMembers, ApiService, ApiForwards, Forwards
  <2> QED
    BY <2>1, <1>2 DEF Api!Next
<1>5. CASE pc \in {"delDlf", "delFlood"} /\ Flooded' = Flooded \ {call.vid}
  <2>1. \A p \in Ports : call.vid \notin Api!MemberVids(SettledMembers(p))
    <3>1. \A p \in Ports : call.vid \notin MemberVids(p)
      BY <1>5, Memberships DEF TypeOK, ExactInv, VlanInv
    <3>2. \A p \in Ports : SettledMembers(p) \subseteq members[p]
      BY DEF SettledMembers
    <3> QED
      BY <3>1, <3>2 DEF MemberVids, Api!MemberVids
  <2>2. Api!RemoveVlan(call.vid)
    BY <1>1, <1>5, <2>1 DEF Api!RemoveVlan, ApiMembers, ApiService, ApiForwards, Forwards
  <2> QED
    BY <2>2, <1>2 DEF Api!Next
<1>6. CASE pc = "addFlood"
  <2>1. flood' = flood \union {call.vid} /\ dlf' = dlf
    BY <1>6 DEF Advance
  <2>2. Flooded' = Flooded \/ Flooded' = Flooded \union {call.vid}
    BY <2>1 DEF Flooded
  <2> QED
    BY <2>2, <1>3, <1>4
<1>7. CASE pc = "addDlf"
  <2>1. dlf' = dlf \union {call.vid} /\ flood' = flood
    BY <1>7 DEF Advance
  <2>2. Flooded' = Flooded \/ Flooded' = Flooded \union {call.vid}
    BY <2>1 DEF Flooded
  <2> QED
    BY <2>2, <1>3, <1>4
<1>8. CASE pc = "delDlf"
  <2>1. dlf' = dlf \ {call.vid} /\ flood' = flood
    BY <1>8 DEF Advance
  <2>2. Flooded' = Flooded \ {call.vid}
    BY <2>1 DEF Flooded
  <2> QED
    BY <2>2, <1>5, <1>8
<1>9. CASE pc = "delFlood"
  <2>1. flood' = flood \ {call.vid} /\ dlf' = dlf
    BY <1>9 DEF Advance
  <2>2. Flooded' = Flooded \ {call.vid}
    BY <2>1 DEF Flooded
  <2> QED
    BY <2>2, <1>5, <1>9
<1> QED
  BY <1>6, <1>7, <1>8, <1>9 DEF VlanSteps

\* The end of a call on p that adds a membership (sai.c:690): the port comes back with it.
LEMMA ClientJoins ==
  ASSUME TypeOK, ExactInv, ForwardsOK, ForwardsOK', NEW p \in Ports,
         \A q \in Ports : q # p => SameToClient(q),
         Flooded' = Flooded, call.port = p, ~Failed(p), Service(p)' = "up",
         call.op = "create", SettledMembers(p)' = members[p]
  PROVE  Api!Join(p, [vid |-> call.vid, tagged |-> call.tagged])
<1>t. AdapterOK /\ MembersInv /\ AtWork(p)
  BY CallAtWork DEF TypeOK, ExactInv
<1> DEFINE m == [vid |-> call.vid, tagged |-> call.tagged]
           M == SettledMembers(p)
<1>1. Service(p) = "down" /\ M = {k \in members[p] : k.vid # call.vid}
  BY DEF Service, SettledMembers
<1>2. m \in members[p] /\ \A k \in members[p] : k.vid = call.vid => k = m
  <2>1. CASE call.tagged = TRUE
    <3>1. call.vid \in TaggedVids(p) /\ call.vid \notin UntaggedVids(p)
      BY <1>t, <2>1 DEF AtWork, MembersInv
    <3>2. m = [vid |-> call.vid, tagged |-> TRUE]
      BY <2>1, Zenon
    <3>3. m \in members[p]
      BY <3>1, <3>2, Zenon DEF TaggedVids
    <3>4. ASSUME NEW k \in members[p], k.vid = call.vid PROVE k = m
      <4>1. k.vid \notin UntaggedVids(p)
        BY <3>1, <3>4
      <4>2. k = [vid |-> k.vid, tagged |-> TRUE]
        BY <1>t, <4>1, Memberships, Zenon
      <4> QED
        BY <3>2, <3>4, <4>2
    <3> QED
      BY <3>3, <3>4
  <2>2. CASE call.tagged = FALSE
    <3>1. call.vid \in UntaggedVids(p) /\ call.vid \notin TaggedVids(p)
      BY <1>t, <2>2 DEF AtWork
    <3>2. m = [vid |-> call.vid, tagged |-> FALSE]
      BY <2>2, Zenon
    <3>3. m \in members[p]
      BY <3>1, <3>2, Zenon DEF UntaggedVids
    <3>4. ASSUME NEW k \in members[p], k.vid = call.vid PROVE k = m
      <4>1. k.vid \notin TaggedVids(p)
        BY <3>1, <3>4
      <4>2. k = [vid |-> k.vid, tagged |-> FALSE]
        BY <1>t, <4>1, Memberships, Zenon
      <4> QED
        BY <3>2, <3>4, <4>2
    <3> QED
      BY <3>3, <3>4
  <2> QED
    BY <1>t, <2>1, <2>2 DEF AtWork
<1>3. M \union {m} = members[p]
  BY <1>1, <1>2
<1>4. m.vid \notin Api!MemberVids(M)
  BY <1>1 DEF Api!MemberVids
<1>5. ~m.tagged => \A k \in M : k.tagged
  <2> SUFFICES ASSUME call.tagged = FALSE, NEW k \in M PROVE k.tagged
    BY <1>t DEF AtWork
  <2>1. call.vid \in UntaggedVids(p) /\ k \in members[p] /\ k.vid # call.vid
    BY <1>t, <1>1 DEF AtWork
  <2>2. \A v, w \in UntaggedVids(p) : v = w
    BY <1>t DEF MembersInv
  <2>3. k.vid \notin UntaggedVids(p)
    BY <2>1, <2>2
  <2>4. k.tagged = TRUE
    BY <1>t, <2>1, <2>3, Memberships
  <2> QED
    BY <2>4
<1>6. Api!MemberVids(members[p]) \subseteq Flooded
  BY <1>t, Memberships DEF MembersInv, MemberVids, Api!MemberVids, Flooded
<1>7. Api!Resume(p, members[p])
  BY <1>6, ClientResumes
<1>8. ApiService[p] = "down" /\ ApiMembers[p] = M
  BY <1>1 DEF ApiService, ApiMembers
<1> QED
  BY <1>3, <1>4, <1>5, <1>7, <1>8 DEF Api!Join, ApiService, ApiMembers

\* Likewise for a removal.
LEMMA ClientLeaves ==
  ASSUME TypeOK, ExactInv, ForwardsOK, ForwardsOK', NEW p \in Ports,
         \A q \in Ports : q # p => SameToClient(q),
         Flooded' = Flooded, call.port = p, ~Failed(p), Service(p)' = "up",
         call.op = "remove",
         SettledMembers(p)' = {k \in members[p] : k.vid # call.old}
  PROVE  Api!Leave(p, [vid |-> call.old, tagged |-> call.tagged])
<1>t. AdapterOK /\ MembersInv /\ AtWork(p)
  BY CallAtWork DEF TypeOK, ExactInv
<1> DEFINE m == [vid |-> call.old, tagged |-> call.tagged]
           M == {k \in members[p] : k.vid # call.old}
<1>1. Service(p) = "down" /\ SettledMembers(p) = members[p]
  BY DEF Service, SettledMembers
<1>2. m \in members[p] /\ \A k \in members[p] : k.vid = call.old => k = m
  <2>1. CASE call.tagged = TRUE
    <3>1. call.old \in TaggedVids(p) /\ call.old \notin UntaggedVids(p)
      BY <1>t, <2>1 DEF AtWork, MembersInv
    <3>2. m = [vid |-> call.old, tagged |-> TRUE]
      BY <2>1, Zenon
    <3>3. m \in members[p]
      BY <3>1, <3>2, Zenon DEF TaggedVids
    <3>4. ASSUME NEW k \in members[p], k.vid = call.old PROVE k = m
      <4>1. k.vid \notin UntaggedVids(p)
        BY <3>1, <3>4
      <4>2. k = [vid |-> k.vid, tagged |-> TRUE]
        BY <1>t, <4>1, Memberships, Zenon
      <4> QED
        BY <3>2, <3>4, <4>2
    <3> QED
      BY <3>3, <3>4
  <2>2. CASE call.tagged = FALSE
    <3>1. call.old \in UntaggedVids(p) /\ call.old \notin TaggedVids(p)
      BY <1>t, <2>2 DEF AtWork, MembersInv
    <3>2. m = [vid |-> call.old, tagged |-> FALSE]
      BY <2>2, Zenon
    <3>3. m \in members[p]
      BY <3>1, <3>2, Zenon DEF UntaggedVids
    <3>4. ASSUME NEW k \in members[p], k.vid = call.old PROVE k = m
      <4>1. k.vid \notin TaggedVids(p)
        BY <3>1, <3>4
      <4>2. k = [vid |-> k.vid, tagged |-> FALSE]
        BY <1>t, <4>1, Memberships, Zenon
      <4> QED
        BY <3>2, <3>4, <4>2
    <3> QED
      BY <3>3, <3>4
  <2> QED
    BY <1>t, <2>1, <2>2 DEF AtWork
<1>3. members[p] \ {m} = M
  BY <1>2
<1>4. Api!MemberVids(M) \subseteq Flooded
  <2>1. MemberVids(p) \subseteq Flooded
    <3>1. MemberVids(p) = TaggedVids(p) \union UntaggedVids(p)
      BY <1>t, Memberships
    <3> QED
      BY <1>t, <3>1 DEF MembersInv, Flooded
  <2> QED
    BY <2>1 DEF MemberVids, Api!MemberVids
<1>5. Api!Resume(p, M)
  BY <1>4, ClientResumes
<1>6. ApiService[p] = "down" /\ ApiMembers[p] = members[p]
  BY <1>1 DEF ApiService, ApiMembers
<1> QED
  BY <1>2, <1>3, <1>5, <1>6 DEF Api!Leave, ApiService, ApiMembers

\* The steps of a call on p: the last one is seen, and the others are not.
LEMMA PortToClient ==
  ASSUME TypeOK, ExactInv, ForwardsOK, ForwardsOK', NEW p \in Ports,
         \A q \in Ports : q # p => SameToClient(q),
         Advance, call.port = p, pc \in PortSteps
  PROVE  Api!Next \/ Stutters
<1>f. Flooded' = Flooded
  BY DEF Advance, Flooded, PortSteps
<1>g. Failed(p)' <=> Failed(p)
  BY DEF Advance, Failed
<1>1. ASSUME SameToClient(p) PROVE Stutters
  BY <1>1, <1>f, ClientSeesNothing DEF Stutters
<1>2. CASE Failed(p)
  BY <1>g, <1>2, <1>1 DEF SameToClient, Service, SettledMembers
<1>3. CASE ~Failed(p) /\ pc' # "idle"
  <2>1. call' = call
    BY <1>3 DEF Advance
  <2>2. pc # "enable" /\ members' = members
    BY <1>3 DEF Advance
  <2> QED
    BY <1>g, <1>1, <2>1, <2>2 DEF SameToClient, Service, SettledMembers
<1>4. CASE ~Failed(p) /\ pc' = "idle"
  <2>1. AtWork(p) /\ AdapterOK
    BY <1>4, CallAtWork DEF TypeOK
  <2>2. call'.port # p /\ p \in hostif'
    BY <1>4, <2>1, PortsAssumption DEF Advance, NoCall, AtWork
  <2>3. Service(p)' = "up" /\ SettledMembers(p)' = members'[p]
    BY <1>4, <1>g, <2>2 DEF Service, SettledMembers
  <2>4. call.tagged \in BOOLEAN
    BY <2>1 DEF AtWork
  <2>5. CASE call.op = "hostif"
    <3>1. members'[p] = {} /\ members[p] = {}
      <4>1. pc # "enable"
        BY <2>5, <2>1 DEF AtWork
      <4>2. members' = members
        BY <4>1 DEF Advance
      <4>3. TaggedVids(p) \union UntaggedVids(p) = {}
        BY <2>1, <2>5 DEF AtWork
      <4> QED
        BY <2>1, <4>2, <4>3, Memberships
    <3>2. Api!MemberVids({}) \subseteq Flooded
      BY DEF Api!MemberVids
    <3>3. Api!Resume(p, {})
      BY <1>f, <2>3, <3>1, <3>2, ClientResumes
    <3>4. ApiService[p] = "new"
      BY <1>4, <2>5 DEF ApiService, Service
    <3>5. Api!Connected(p)
      BY <3>3, <3>4 DEF Api!Connected, ApiService
    <3> QED
      BY <3>5 DEF Api!Next
  <2>6. \/ pc = "addUntagged" /\ call.op = "hostif"
        \/ pc = "enable" /\ call.op \in {"create", "remove"}
    BY <1>4, <2>1 DEF AtWork, Advance, TaggedCreate, UntaggedCreate, TaggedRemove,
       UntaggedRemove
  <2>7. CASE call.op = "create"
    <3>1. members' = members
      BY <2>7 DEF Advance
    <3>2. Api!Join(p, [vid |-> call.vid, tagged |-> call.tagged])
      BY <1>f, <1>4, <2>3, <2>7, <3>1, ClientJoins
    <3>3. [vid |-> call.vid, tagged |-> call.tagged] \in [vid : UserVids, tagged : BOOLEAN]
      BY <2>1, <2>4, <2>7 DEF AtWork
    <3> QED
      BY <3>2, <3>3 DEF Api!Next
  <2>8. CASE call.op = "remove"
    <3>1. members'[p] = {k \in members[p] : k.vid # call.old}
      BY <2>1, <2>6, <2>8 DEF Advance, AdapterOK
    <3>2. Api!Leave(p, [vid |-> call.old, tagged |-> call.tagged])
      BY <1>f, <1>4, <2>3, <2>8, <3>1, ClientLeaves
    <3>3. call.old \in UserVids
      BY <2>8, CallTypes
    <3>4. [vid |-> call.old, tagged |-> call.tagged] \in [vid : UserVids, tagged : BOOLEAN]
      BY <2>4, <3>3
    <3> QED
      BY <3>2, <3>4 DEF Api!Next
  <2> QED
    BY <2>5, <2>6, <2>7, <2>8
<1> QED
  BY <1>1, <1>2, <1>3, <1>4

\* A failing call loses its port, unless it was lost already.
LEMMA FailureToClient ==
  ASSUME TypeOK, ExactInv, ForwardsOK, ForwardsOK', NEW p \in Ports,
         \A q \in Ports : q # p => SameToClient(q),
         GivesUp, call.port = p, pc \in PortSteps
  PROVE  Api!Next \/ Stutters
<1>f. Flooded' = Flooded
  BY GivenUp DEF Flooded
<1>g. Failed(p)'
  BY GivenUp
<1>s. Service(p)' = "lost" /\ SettledMembers(p)' = {}
  BY <1>g DEF Service, SettledMembers
<1>1. CASE Failed(p)
  <2>1. SameToClient(p)
    BY <1>1, <1>s DEF SameToClient, Service, SettledMembers
  <2> QED
    BY <2>1, <1>f, ClientSeesNothing DEF Stutters
<1>2. CASE ~Failed(p)
  <2>1. Service(p) \in {"new", "down"}
    BY <1>2 DEF Service
  <2>2. Api!Lose(p)
    BY <1>f, <1>s, <2>1, ClientLoses
  <2> QED
    BY <2>2 DEF Api!Next
<1> QED
  BY <1>1, <1>2

\* A call that begins takes its port out of service.
LEMMA RequestToClient ==
  ASSUME TypeOK, ExactInv, [Next]_vars, ForwardsOK, ForwardsOK', Request
  PROVE  Api!Next \/ Stutters
<1> USE PortsAssumption
<1>t. AdapterOK /\ MembersInv
  BY DEF TypeOK, ExactInv
<1>i. pc = "idle" /\ failures' = failures /\ vlanTables' = vlanTables
  BY DEF Request, CreateVlan, RemoveVlan, CreateHostif, CreateMember, RemoveMember, Enter
<1>n. call.port = NoPort
  BY <1>i, CallTypes DEF NoCall
<1>f. Flooded' = Flooded
  BY <1>i DEF vlanTables, Flooded
<1>g. \A q \in Ports : Failed(q)' <=> Failed(q)
  BY <1>i DEF Failed
<1>e. \A q \in Ports : call'.port # q => SameToClient(q)
  BY <1>n, SameElsewhere
<1>s. (\A q \in Ports : SameToClient(q)) => Stutters
  BY <1>f, ClientSeesNothing DEF Stutters
<1>1. ASSUME NEW v \in UserVids, CreateVlan(v) \/ RemoveVlan(v) PROVE Stutters
  <2>1. call'.port = NoPort
    BY <1>1 DEF CreateVlan, RemoveVlan, Enter, NoCall
  <2> QED
    BY <2>1, <1>e, <1>s
<1>2. ASSUME NEW p \in Ports, CreateHostif(p) PROVE Api!Next
  <2>1. call'.port = p /\ call'.op = "hostif" /\ members' = members
       /\ p \notin hostif /\ ~Failed(p)
    BY <1>2 DEF CreateHostif, Enter
  <2>2. Service(p) = "none" /\ Service(p)' = "new"
    BY <1>g, <1>n, <2>1 DEF Service
  <2>3. SettledMembers(p)' = SettledMembers(p)
    BY <1>g, <1>n, <2>1 DEF SettledMembers
  <2>4. Api!Connect(p)
    BY <1>e, <1>f, <2>1, <2>2, <2>3, ClientConnects
  <2> QED
    BY <2>4 DEF Api!Next
<1>3. ASSUME NEW p \in Ports, call'.port = p, call'.op \in MemberOps, p \in hostif,
             SettledMembers(p)' = SettledMembers(p)
      PROVE  Api!Next \/ Stutters
  <2>1. CASE Failed(p)
    <3>1. Service(p)' = Service(p)
      BY <2>1, <1>g DEF Service
    <3> QED
      BY <1>3, <1>e, <1>s, <3>1 DEF SameToClient
  <2>2. CASE ~Failed(p)
    <3>1. Service(p) = "up" /\ Service(p)' = "down"
      BY <2>2, <1>3, <1>g, <1>n DEF Service, MemberOps
    <3>2. Api!Interrupt(p)
      BY <1>3, <1>e, <1>f, <3>1, ClientInterrupted
    <3> QED
      BY <3>2 DEF Api!Next
  <2> QED
    BY <2>1, <2>2
<1>4. ASSUME NEW p \in Ports, NEW v \in UserVids, NEW tagged \in BOOLEAN,
             CreateMember(p, v, tagged)
      PROVE  Api!Next \/ Stutters
  <2>1. /\ call'.port = p /\ call'.op = "create" /\ call'.vid = v /\ p \in hostif
        /\ v \notin MemberVids(p)
        /\ members'[p] = members[p] \union {[vid |-> v, tagged |-> tagged]}
    BY <1>t, <1>4 DEF CreateMember, Enter, AdapterOK
  <2>2. {m \in members'[p] : m.vid # v} = members[p]
    BY <2>1 DEF MemberVids
  <2>3. SettledMembers(p)' = SettledMembers(p)
    BY <1>g, <1>n, <2>1, <2>2 DEF SettledMembers
  <2> QED
    BY <1>3, <2>1, <2>3 DEF MemberOps
<1>5. ASSUME NEW p \in Ports, NEW m \in members[p], RemoveMember(p, m)
      PROVE  Api!Next \/ Stutters
  <2>1. call'.port = p /\ call'.op = "remove" /\ members' = members
    BY <1>5 DEF RemoveMember, Enter
  <2>2. p \in hostif
    <3>1. TaggedVids(p) \union UntaggedVids(p) # {}
      BY <1>t, Memberships
    <3> QED
      BY <1>t, <3>1 DEF MembersInv
  <2>3. SettledMembers(p)' = SettledMembers(p)
    BY <1>g, <1>n, <2>1 DEF SettledMembers
  <2> QED
    BY <1>3, <2>1, <2>2, <2>3 DEF MemberOps
<1> QED
  BY <1>1, <1>2, <1>4, <1>5 DEF Request

\* Every step of the adapter is a step of VlanApi or is not seen.
LEMMA ClientStep ==
  ASSUME TypeOK, ExactInv, [Next]_vars, ForwardsOK, ForwardsOK'
  PROVE  Api!Next \/ Stutters
<1> USE PortsAssumption
<1>1. CASE UNCHANGED <<adapter, api, vlanTables>>
  <2>1. Flooded' = Flooded /\ \A q \in Ports : SameToClient(q)
    BY <1>1 DEF adapter, api, vlanTables, Flooded, SameToClient, Service, SettledMembers,
       Failed
  <2> QED
    BY <2>1, ClientSeesNothing DEF Stutters
<1>2. CASE (Advance \/ GivesUp) /\ pc \in PortSteps
  <2>1. PICK p \in Ports : call.port = p
    BY <1>2, CallTypes
  <2>2. call'.port = p \/ call'.port = NoPort
    BY <1>2, <2>1, GivenUp DEF Advance, NoCall
  <2>3. \A q \in Ports : q # p => SameToClient(q)
    BY <2>1, <2>2, SameElsewhere
  <2> QED
    BY <1>2, <2>1, <2>3, PortToClient, FailureToClient
<1>3. CASE (Advance \/ GivesUp) /\ pc \in VlanSteps
  <2>1. call.port = NoPort /\ call'.port = NoPort
    BY <1>3, CallTypes, GivenUp DEF Advance, NoCall
  <2>2. \A q \in Ports : SameToClient(q)
    BY <2>1, SameElsewhere
  <2>3. ASSUME GivesUp PROVE Stutters
    <3>1. Flooded' = Flooded
      BY <2>3, GivenUp DEF Flooded
    <3> QED
      BY <2>2, <3>1, ClientSeesNothing DEF Stutters
  <2> QED
    BY <1>3, <2>2, <2>3, VlanToClient
<1>4. Advance \/ GivesUp => pc \in PortSteps \union VlanSteps
  BY CallTypes, GivenUp DEF Advance
<1> QED
  BY <1>1, <1>2, <1>3, <1>4, RequestToClient, NextCases

\* Initially no port is in service.
LEMMA ClientInit == Init => Api!Init
<1> SUFFICES ASSUME Init PROVE Api!Init
  OBVIOUS
<1> USE PortsAssumption
<1>1. ASSUME NEW p \in Ports PROVE Service(p) = "none" /\ SettledMembers(p) = {}
  BY DEF Init, Service, SettledMembers, Failed, NoCall
<1>2. Api!Nothing = Nothing
  BY DEF Api!Nothing, Nothing, Api!Vids, Vids
<1>3. Flooded = {}
  BY DEF Init, Flooded
<1> QED
  BY <1>1, <1>2, <1>3 DEF Api!Init

\* To its client, the adapter is VlanApi: a call changes how its port forwards all at
\* once, at its last step; no step of a call, of a failing call, of the receive thread or
\* of the ageing changes how another port forwards; and a port on which a call failed does
\* not come back (sai.c:603-759, 2222-2289).
THEOREM AdapterImplementsVlanApi == Spec => ImplementsVlanApi
<1>1. TypeOK /\ ExactInv /\ [Next]_vars => ForwardsOK /\ ForwardsOK'
  <2>1. TypeOK /\ ExactInv /\ [Next]_vars => TypeOK'
    BY AdapterStep, ApiStep, RecvStep, TablesStep DEF TypeOK
  <2>2. TypeOK /\ ExactInv /\ [Next]_vars => ExactInv'
    BY MembersStep, VlanStep, CallStep, PortsStep DEF ExactInv
  <2> QED
    BY <2>1, <2>2, ForwardsIs, PTL
<1>2. TypeOK /\ ExactInv /\ [Next]_vars => [Api!Next]_(Api!vars)
  <2> SUFFICES ASSUME TypeOK, ExactInv, [Next]_vars PROVE Api!Next \/ UNCHANGED Api!vars
    OBVIOUS
  <2>1. Api!Next \/ Stutters
    BY <1>1, ClientStep
  <2> QED
    BY <2>1 DEF Stutters, Api!vars, ApiMembers, ApiService, ApiForwards, Forwards
<1> QED
  BY <1>2, ClientInit, TypeCorrect, ExactAlways, PTL DEF Spec, ImplementsVlanApi, Api!Spec
=============================================================================
