--------------------------- MODULE OfdpaAppProofs ---------------------------
(***************************************************************************)
(* Theorems about OfdpaApp, for every set of VLANs, ports, stations and    *)
(* addresses, and any number of runs and frames.                           *)
(*                                                                         *)
(* The first part says what the script of a VLAN is made of.  From it:     *)
(* the agent keeps the group of an earlier run and this run has to ask for *)
(* it again (BuilderInv), what is asked for in the first run is not there  *)
(* (SetupInv).  The loop: numbers and hosts in use (HostsInv), buckets in  *)
(* place (BucketsInv), first frames ahead of any other (FreshInv).         *)
(***************************************************************************)
EXTENDS OfdpaApp, SequenceTheorems, TLAPS

-----------------------------------------------------------------------------
(* The requests of a VLAN.                                                 *)

RequestKinds == {"termination", "acl", "l2group", "l2bucket", "tagged", "untagged",
                 "flood", "floodbucket", "hostroute"}
Requests == [kind : RequestKinds, vid : Nat, port : Nat, mac : Nat]

\* What main may ask for a VLAN in the run r.
RequestsOf(v, r) ==
  {R("termination", v, p, r) : p \in Ports(v)} \union {R("acl", 0, p, r) : p \in Ports(v)}
    \union {R(kind, v, p, 0) : kind \in {"l2group", "l2bucket", "tagged", "floodbucket"}, p \in Ports(v)}
    \union {R("untagged", 0, p, 0) : p \in Ports(v)}
    \union {R("flood", v, 0, 0), R("hostroute", v, 0, 0)}

NPorts(v) == Len(PortsOf[v])

\* The ports of a VLAN, and its requests port by port.
LEMMA PortsTyped ==
  ASSUME NEW v \in Vlans
  PROVE  /\ v \in Nat \ {0} /\ NPorts(v) \in Nat /\ DOMAIN PortsOf[v] = 1 .. NPorts(v)
         /\ \A j \in 1 .. NPorts(v) : PortsOf[v][j] \in Nat \ {0} /\ PortsOf[v][j] \in Ports(v)
         /\ \A p \in Ports(v) : p \in Nat \ {0} /\ \E j \in 1 .. NPorts(v) : p = PortsOf[v][j]
<1>1. v \in Nat \ {0} /\ PortsOf[v] \in Seq(Nat \ {0})
  BY VlansAssumption
<1>2. Len(PortsOf[v]) \in Nat /\ DOMAIN PortsOf[v] = 1 .. Len(PortsOf[v])
  BY <1>1, LenProperties
<1>3. \A j \in 1 .. Len(PortsOf[v]) : PortsOf[v][j] \in Nat \ {0}
  BY <1>1, <1>2, ElementOfSeq
<1> QED
  BY <1>1, <1>2, <1>3 DEF Ports, NPorts

\* The kinds of a port's requests, in order.
KindAt(k) == <<"termination", "acl", "l2group", "l2bucket", "tagged", "untagged">>[k]

LEMMA KindsAt ==
  /\ \A k \in 1 .. 6 : KindAt(k) \notin {"flood", "floodbucket", "hostroute"}
  /\ \A k, l \in 1 .. 6 : KindAt(k) = KindAt(l) => k = l
<1>1. \A k \in 1 .. 6 : k = 1 \/ k = 2 \/ k = 3 \/ k = 4 \/ k = 5 \/ k = 6
  OBVIOUS
<1> QED
  BY <1>1 DEF KindAt

LEMMA PortRequestsTyped ==
  ASSUME NEW v \in Nat, NEW p \in Nat, run \in Nat
  PROVE  /\ \A k \in 1 .. 6 : /\ PortRequests(v, p)[k] \in Requests
                            /\ PortRequests(v, p)[k].kind = KindAt(k)
                            /\ PortRequests(v, p)[k].port = p
         /\ PortRequests(v, p)[1] = R("termination", v, p, run)
         /\ PortRequests(v, p)[2] = R("acl", 0, p, run)
         /\ PortRequests(v, p)[3] = R("l2group", v, p, 0)
         /\ PortRequests(v, p)[4] = R("l2bucket", v, p, 0)
         /\ PortRequests(v, p)[5] = R("tagged", v, p, 0)
         /\ PortRequests(v, p)[6] = R("untagged", 0, p, 0)
<1>1. /\ PortRequests(v, p)[1] = R("termination", v, p, run)
      /\ PortRequests(v, p)[2] = R("acl", 0, p, run)
      /\ PortRequests(v, p)[3] = R("l2group", v, p, 0)
      /\ PortRequests(v, p)[4] = R("l2bucket", v, p, 0)
      /\ PortRequests(v, p)[5] = R("tagged", v, p, 0)
      /\ PortRequests(v, p)[6] = R("untagged", 0, p, 0)
  BY DEF PortRequests
<1>2. \A kind \in RequestKinds, a, b, c \in Nat : R(kind, a, b, c) \in Requests
  BY DEF R, Requests
<1>3. \A k \in 1 .. 6 : k = 1 \/ k = 2 \/ k = 3 \/ k = 4 \/ k = 5 \/ k = 6
  OBVIOUS
<1>4. \A k \in 1 .. 6 : PortRequests(v, p)[k] \in Requests
  BY <1>1, <1>2, <1>3 DEF RequestKinds
<1>5. \A k \in 1 .. 6 : PortRequests(v, p)[k].kind = KindAt(k) /\ PortRequests(v, p)[k].port = p
  BY <1>1, <1>3 DEF R, KindAt
<1> QED
  BY <1>1, <1>4, <1>5

LEMMA PlacesOfPorts ==
  ASSUME NEW n \in Nat
  PROVE  /\ \A i \in 1 .. 6 * n : /\ (i + 5) \div 6 \in 1 .. n /\ ((i + 5) % 6) + 1 \in 1 .. 6
                                  /\ i = 6 * (((i + 5) \div 6) - 1) + (((i + 5) % 6) + 1)
         /\ \A j \in 1 .. n, k \in 1 .. 6 :
              /\ 6 * (j - 1) + k \in 1 .. 6 * n
              /\ ((6 * (j - 1) + k) + 5) \div 6 = j
              /\ ((((6 * (j - 1) + k) + 5) % 6) + 1) = k
  OBVIOUS

\* The elements of a concatenation.
LEMMA ConcatPlaces ==
  ASSUME NEW S, NEW s \in Seq(S), NEW t \in Seq(S)
  PROVE  /\ s \o t \in Seq(S) /\ Len(s \o t) = Len(s) + Len(t)
         /\ \A i \in 1 .. Len(s) : (s \o t)[i] = s[i]
         /\ \A j \in 1 .. Len(t) : (s \o t)[Len(s) + j] = t[j]
<1> DEFINE m == Len(s)
           n == Len(t)
<1>1. m \in Nat /\ n \in Nat
  BY LenProperties
<1>2. /\ s \o t \in Seq(S) /\ Len(s \o t) = m + n
      /\ \A i \in 1 .. m + n : (s \o t)[i] = IF i <= m THEN s[i] ELSE t[i - m]
  BY ConcatProperties
<1>3. \A j \in 1 .. n : /\ m + j \in 1 .. m + n /\ ~(m + j <= m) /\ (m + j) - m = j
  BY <1>1
<1> QED
  BY <1>1, <1>2, <1>3

\* Where each request is in the script of a VLAN.
LEMMA ScriptPlaces ==
  ASSUME NEW v \in Vlans, run \in Nat
  PROVE  /\ VlanRequests(v) \in Seq(Requests)
         /\ DOMAIN VlanRequests(v) = 1 .. 7 * NPorts(v) + 2
         /\ \A j \in 1 .. NPorts(v), k \in 1 .. 6 :
              VlanRequests(v)[6 * (j - 1) + k] = PortRequests(v, PortsOf[v][j])[k]
         /\ VlanRequests(v)[6 * NPorts(v) + 1] = R("flood", v, 0, 0)
         /\ \A j \in 1 .. NPorts(v) :
              VlanRequests(v)[(6 * NPorts(v) + 1) + j] = R("floodbucket", v, PortsOf[v][j], 0)
         /\ VlanRequests(v)[7 * NPorts(v) + 2] = R("hostroute", v, 0, 0)
<1> DEFINE n == NPorts(v)
           s1 == PortsRequests(v)
           s2 == <<R("flood", v, 0, 0)>>
           s3 == [i \in DOMAIN PortsOf[v] |-> R("floodbucket", v, PortsOf[v][i], 0)]
           s4 == <<R("hostroute", v, 0, 0)>>
<1>1. /\ n \in Nat /\ v \in Nat /\ DOMAIN PortsOf[v] = 1 .. n
      /\ \A j \in 1 .. n : PortsOf[v][j] \in Nat
  BY PortsTyped
<1>0. PortsRequests(v) = [i \in 1 .. 6 * n |->
                             PortRequests(v, PortsOf[v][(i + 5) \div 6])[((i + 5) % 6) + 1]]
  BY DEF PortsRequests, NPorts
<1> HIDE DEF n
<1>2. s1 \in Seq(Requests) /\ Len(s1) = 6 * n
      /\ \A j \in 1 .. n, k \in 1 .. 6 : s1[6 * (j - 1) + k] = PortRequests(v, PortsOf[v][j])[k]
  <2>1. \A i \in 1 .. 6 * n : PortRequests(v, PortsOf[v][(i + 5) \div 6])[((i + 5) % 6) + 1] \in Requests
    BY <1>1, PlacesOfPorts, PortRequestsTyped
  <2>2. s1 \in [1 .. 6 * n -> Requests]
    BY <1>0, <2>1
  <2>3. s1 \in Seq(Requests) /\ Len(s1) = 6 * n
    BY <1>1, <2>2
  <2>4. \A j \in 1 .. n, k \in 1 .. 6 : s1[6 * (j - 1) + k] = PortRequests(v, PortsOf[v][j])[k]
    <3> TAKE j \in 1 .. n, k \in 1 .. 6
    <3> DEFINE i == 6 * (j - 1) + k
    <3>1. i \in 1 .. 6 * n /\ (i + 5) \div 6 = j /\ ((i + 5) % 6) + 1 = k
      BY <1>1, PlacesOfPorts
    <3> HIDE DEF i
    <3>2. s1[i] = PortRequests(v, PortsOf[v][(i + 5) \div 6])[((i + 5) % 6) + 1]
      BY <1>0, <3>1
    <3> QED
      BY <3>1, <3>2 DEF i
  <2> QED
    BY <2>3, <2>4
<1>3. s2 \in Seq(Requests) /\ Len(s2) = 1 /\ s2[1] = R("flood", v, 0, 0)
  <2>1. R("flood", v, 0, 0) \in Requests
    BY <1>1 DEF R, Requests, RequestKinds
  <2> QED
    BY <2>1
<1>4. s3 \in Seq(Requests) /\ Len(s3) = n
      /\ \A j \in 1 .. n : s3[j] = R("floodbucket", v, PortsOf[v][j], 0)
  <2>1. \A j \in 1 .. n : R("floodbucket", v, PortsOf[v][j], 0) \in Requests
    BY <1>1 DEF R, Requests, RequestKinds
  <2>2. s3 \in [1 .. n -> Requests]
    BY <1>1, <2>1
  <2> QED
    BY <1>1, <2>2
<1>5. s4 \in Seq(Requests) /\ Len(s4) = 1 /\ s4[1] = R("hostroute", v, 0, 0)
  <2>1. R("hostroute", v, 0, 0) \in Requests
    BY <1>1 DEF R, Requests, RequestKinds
  <2> QED
    BY <2>1
<1> DEFINE s12 == s1 \o s2
           s123 == s12 \o s3
<1>6. VlanRequests(v) = s123 \o s4
  BY DEF VlanRequests
<1> HIDE DEF s1, s2, s3, s4
<1>7. s12 \in Seq(Requests) /\ Len(s12) = 6 * n + 1
      /\ (\A i \in 1 .. 6 * n : s12[i] = s1[i]) /\ s12[6 * n + 1] = s2[1]
  <2>1. /\ s12 \in Seq(Requests) /\ Len(s12) = Len(s1) + Len(s2)
        /\ \A i \in 1 .. Len(s1) : s12[i] = s1[i]
        /\ \A j \in 1 .. Len(s2) : s12[Len(s1) + j] = s2[j]
    <3>1. s1 \in Seq(Requests) /\ s2 \in Seq(Requests)
      BY <1>2, <1>3
    <3>2. s1 \o s2 \in Seq(Requests)
      BY <3>1, ConcatPlaces
    <3>3. Len(s1 \o s2) = Len(s1) + Len(s2)
      BY <3>1, ConcatPlaces
    <3>4. \A i \in 1 .. Len(s1) : (s1 \o s2)[i] = s1[i]
      BY <3>1, ConcatPlaces
    <3>5. \A j \in 1 .. Len(s2) : (s1 \o s2)[Len(s1) + j] = s2[j]
      BY <3>1, ConcatPlaces
    <3> QED
      BY <3>2, <3>3, <3>4, <3>5
  <2> HIDE DEF s12
  <2> QED
    BY <1>1, <1>2, <1>3, <2>1
<1> HIDE DEF s12
<1>8. s123 \in Seq(Requests) /\ Len(s123) = 7 * n + 1
      /\ (\A i \in 1 .. 6 * n + 1 : s123[i] = s12[i])
      /\ \A j \in 1 .. n : s123[(6 * n + 1) + j] = s3[j]
  <2>1. /\ s123 \in Seq(Requests) /\ Len(s123) = Len(s12) + Len(s3)
        /\ \A i \in 1 .. Len(s12) : s123[i] = s12[i]
        /\ \A j \in 1 .. Len(s3) : s123[Len(s12) + j] = s3[j]
    <3>1. s12 \in Seq(Requests) /\ s3 \in Seq(Requests)
      BY <1>4, <1>7
    <3>2. s12 \o s3 \in Seq(Requests)
      BY <3>1, ConcatPlaces
    <3>3. Len(s12 \o s3) = Len(s12) + Len(s3)
      BY <3>1, ConcatPlaces
    <3>4. \A i \in 1 .. Len(s12) : (s12 \o s3)[i] = s12[i]
      BY <3>1, ConcatPlaces
    <3>5. \A j \in 1 .. Len(s3) : (s12 \o s3)[Len(s12) + j] = s3[j]
      BY <3>1, ConcatPlaces
    <3> QED
      BY <3>2, <3>3, <3>4, <3>5
  <2> HIDE DEF s123
  <2> QED
    BY <1>1, <1>4, <1>7, <2>1
<1> HIDE DEF s123
<1>9. s123 \o s4 \in Seq(Requests) /\ Len(s123 \o s4) = 7 * n + 2
      /\ (\A i \in 1 .. 7 * n + 1 : (s123 \o s4)[i] = s123[i])
      /\ (s123 \o s4)[7 * n + 2] = s4[1]
  <2> DEFINE s == s123 \o s4
  <2>1. /\ s \in Seq(Requests) /\ Len(s) = Len(s123) + Len(s4)
        /\ \A i \in 1 .. Len(s123) : s[i] = s123[i]
        /\ \A j \in 1 .. Len(s4) : s[Len(s123) + j] = s4[j]
    <3>1. s123 \in Seq(Requests) /\ s4 \in Seq(Requests)
      BY <1>5, <1>8
    <3>2. s123 \o s4 \in Seq(Requests)
      BY <3>1, ConcatPlaces
    <3>3. Len(s123 \o s4) = Len(s123) + Len(s4)
      BY <3>1, ConcatPlaces
    <3>4. \A i \in 1 .. Len(s123) : (s123 \o s4)[i] = s123[i]
      BY <3>1, ConcatPlaces
    <3>5. \A j \in 1 .. Len(s4) : (s123 \o s4)[Len(s123) + j] = s4[j]
      BY <3>1, ConcatPlaces
    <3> QED
      BY <3>2, <3>3, <3>4, <3>5
  <2> HIDE DEF s
  <2>2. s \in Seq(Requests) /\ Len(s) = 7 * n + 2
        /\ (\A i \in 1 .. 7 * n + 1 : s[i] = s123[i]) /\ s[7 * n + 2] = s4[1]
    BY <1>1, <1>5, <1>8, <2>1
  <2> QED
    BY <2>2 DEF s
<1>10. \A j \in 1 .. n, k \in 1 .. 6 : 6 * (j - 1) + k \in 1 .. 6 * n
  BY <1>1
<1>11. \A i \in 1 .. 6 * n : VlanRequests(v)[i] = s1[i]
  BY <1>1, <1>6, <1>7, <1>8, <1>9
<1>12. \A j \in 1 .. n : VlanRequests(v)[(6 * n + 1) + j] = s3[j]
  <2>1. \A j \in 1 .. n : (6 * n + 1) + j \in 1 .. 7 * n + 1
    BY <1>1
  <2> QED
    BY <1>6, <1>8, <1>9, <2>1
<1>13. VlanRequests(v)[6 * n + 1] = s2[1]
  <2>1. 6 * n + 1 \in 1 .. 6 * n + 1 /\ 6 * n + 1 \in 1 .. 7 * n + 1
    BY <1>1
  <2> QED
    BY <1>6, <1>7, <1>8, <1>9, <2>1
<1>14. DOMAIN VlanRequests(v) = 1 .. 7 * n + 2
  BY <1>6, <1>9, LenProperties
<1> QED
  BY <1>2, <1>3, <1>4, <1>5, <1>6, <1>9, <1>10, <1>11, <1>12, <1>13, <1>14 DEF n

\* Every place of a script holds a request of one of four forms.
LEMMA ScriptForms ==
  ASSUME NEW v \in Vlans, run \in Nat, NEW i \in DOMAIN VlanRequests(v)
  PROVE  LET r == VlanRequests(v)[i]  n == NPorts(v) IN
         \/ \E j \in 1 .. n, k \in 1 .. 6 :
              /\ i = 6 * (j - 1) + k /\ r = PortRequests(v, PortsOf[v][j])[k]
              /\ r.kind = KindAt(k) /\ r.port = PortsOf[v][j]
         \/ i = 6 * n + 1 /\ r = R("flood", v, 0, 0)
         \/ \E j \in 1 .. n : i = (6 * n + 1) + j /\ r = R("floodbucket", v, PortsOf[v][j], 0)
         \/ i = 7 * n + 2 /\ r = R("hostroute", v, 0, 0)
<1> DEFINE r == VlanRequests(v)[i]
           n == NPorts(v)
<1>1. /\ n \in Nat /\ v \in Nat /\ \A j \in 1 .. n : PortsOf[v][j] \in Nat
  BY PortsTyped
<1>2. i \in 1 .. 7 * n + 2
  BY ScriptPlaces
<1>3. CASE i \in 1 .. 6 * n
  <2>1. PICK j \in 1 .. n, k \in 1 .. 6 : i = 6 * (j - 1) + k
    BY <1>1, <1>3, PlacesOfPorts
  <2>2. r = PortRequests(v, PortsOf[v][j])[k]
    BY <2>1, ScriptPlaces
  <2>3. r.kind = KindAt(k) /\ r.port = PortsOf[v][j]
    <3> DEFINE p == PortsOf[v][j]
    <3>1. p \in Nat
      BY <1>1
    <3>2. PortRequests(v, p)[k].kind = KindAt(k) /\ PortRequests(v, p)[k].port = p
      <4> HIDE DEF p
      <4> QED
        BY <1>1, <3>1, PortRequestsTyped
    <3> QED
      BY <2>2, <3>2
  <2> QED
    BY <2>1, <2>2, <2>3
<1>4. CASE i = 6 * n + 1
  BY <1>4, ScriptPlaces
<1>5. CASE i \in 6 * n + 2 .. 7 * n + 1
  <2>1. PICK j \in 1 .. n : i = (6 * n + 1) + j
    <3> HIDE DEF n
    <3>1. i - (6 * n + 1) \in 1 .. n /\ i = (6 * n + 1) + (i - (6 * n + 1))
      BY <1>1, <1>2, <1>5
    <3> QED
      BY <3>1
  <2> QED
    BY <2>1, ScriptPlaces
<1>6. CASE i = 7 * n + 2
  BY <1>6, ScriptPlaces
<1>7. i \in 1 .. 6 * n \/ i = 6 * n + 1 \/ i \in 6 * n + 2 .. 7 * n + 1 \/ i = 7 * n + 2
  BY <1>1, <1>2
<1> QED
  BY <1>3, <1>4, <1>5, <1>6, <1>7

\* A script asks for what belongs to its VLAN ...
LEMMA ScriptOfVlan ==
  ASSUME NEW v \in Vlans, run \in Nat, NEW i \in DOMAIN VlanRequests(v)
  PROVE  VlanRequests(v)[i] \in RequestsOf(v, run)
<1> DEFINE n == NPorts(v)
           r == VlanRequests(v)[i]
<1>1. /\ n \in Nat /\ v \in Nat
      /\ \A j \in 1 .. n : PortsOf[v][j] \in Nat /\ PortsOf[v][j] \in Ports(v)
  BY PortsTyped
<1>2. ASSUME NEW j \in 1 .. n, NEW k \in 1 .. 6, r = PortRequests(v, PortsOf[v][j])[k]
      PROVE  r \in RequestsOf(v, run)
  <2> DEFINE p == PortsOf[v][j]
  <2>1. p \in Ports(v) /\ p \in Nat
    BY <1>1
  <2> HIDE DEF p, r
  <2>2. k = 1 \/ k = 2 \/ k = 3 \/ k = 4 \/ k = 5 \/ k = 6
    OBVIOUS
  <2>3. r = PortRequests(v, p)[k]
    BY <1>2 DEF p
  <2>4. \/ r = R("termination", v, p, run) \/ r = R("acl", 0, p, run)
        \/ r = R("l2group", v, p, 0) \/ r = R("l2bucket", v, p, 0)
        \/ r = R("tagged", v, p, 0) \/ r = R("untagged", 0, p, 0)
    BY <1>1, <2>1, <2>2, <2>3, PortRequestsTyped
  <2>5. p \in Ports(v) => /\ R("termination", v, p, run) \in RequestsOf(v, run)
                         /\ R("acl", 0, p, run) \in RequestsOf(v, run)
                         /\ R("l2group", v, p, 0) \in RequestsOf(v, run)
                         /\ R("l2bucket", v, p, 0) \in RequestsOf(v, run)
                         /\ R("tagged", v, p, 0) \in RequestsOf(v, run)
                         /\ R("untagged", 0, p, 0) \in RequestsOf(v, run)
    BY DEF RequestsOf
  <2> QED
    BY <2>1, <2>4, <2>5
<1>3. ASSUME NEW j \in 1 .. n, r = R("floodbucket", v, PortsOf[v][j], 0)
      PROVE  r \in RequestsOf(v, run)
  <2>1. \A p \in Ports(v) : R("floodbucket", v, p, 0) \in RequestsOf(v, run)
    BY DEF RequestsOf
  <2> QED
    BY <1>1, <1>3, <2>1
<1>4. ASSUME r \in {R("flood", v, 0, 0), R("hostroute", v, 0, 0)}
      PROVE  r \in RequestsOf(v, run)
  <2>1. R("flood", v, 0, 0) \in RequestsOf(v, run) /\ R("hostroute", v, 0, 0) \in RequestsOf(v, run)
    BY DEF RequestsOf
  <2> HIDE DEF r
  <2> QED
    BY <1>4, <2>1
<1>5. \/ \E j \in 1 .. n, k \in 1 .. 6 : r = PortRequests(v, PortsOf[v][j])[k]
      \/ \E j \in 1 .. n : r = R("floodbucket", v, PortsOf[v][j], 0)
      \/ r \in {R("flood", v, 0, 0), R("hostroute", v, 0, 0)}
  BY ScriptForms
<1> HIDE DEF r, n
<1>6. r \in RequestsOf(v, run)
  BY <1>2, <1>3, <1>4, <1>5, Zenon
<1> QED
  BY <1>6 DEF r

\* ... for the group and the bucket of each of its ports among others, ...
LEMMA ScriptHasGroups ==
  ASSUME NEW v \in Vlans, run \in Nat, NEW p \in Ports(v), NEW kind \in {"l2group", "l2bucket"}
  PROVE  \E i \in DOMAIN VlanRequests(v) : VlanRequests(v)[i] = R(kind, v, p, 0)
<1> DEFINE n == NPorts(v)
           k == IF kind = "l2group" THEN 3 ELSE 4
<1>1. n \in Nat /\ v \in Nat /\ p \in Nat
  BY PortsTyped
<1>2. PICK j \in 1 .. n : p = PortsOf[v][j]
  BY PortsTyped
<1>3. DOMAIN VlanRequests(v) = 1 .. 7 * n + 2
  BY ScriptPlaces
<1>4. VlanRequests(v)[6 * (j - 1) + k] = PortRequests(v, p)[k]
  <2>1. k \in 1 .. 6
    OBVIOUS
  <2> HIDE DEF k
  <2> QED
    BY <1>2, <2>1, ScriptPlaces
<1>5. PortRequests(v, p)[k] = R(kind, v, p, 0)
  BY <1>1, PortRequestsTyped
<1>6. 6 * (j - 1) + k \in 1 .. 7 * n + 2
  BY <1>1
<1> QED
  BY <1>3, <1>4, <1>5, <1>6

\* ... for nothing twice, ...
LEMMA ScriptHasNoRepeats ==
  ASSUME NEW v \in Vlans, run \in Nat,
         NEW a \in DOMAIN VlanRequests(v), NEW b \in DOMAIN VlanRequests(v),
         VlanRequests(v)[a] = VlanRequests(v)[b]
  PROVE  a = b
<1> DEFINE n == NPorts(v)
           r == VlanRequests(v)[a]
           Form(i, q) == \/ \E j \in 1 .. n, k \in 1 .. 6 :
                             i = 6 * (j - 1) + k /\ q.kind = KindAt(k) /\ q.port = PortsOf[v][j]
                         \/ i = 6 * n + 1 /\ q.kind = "flood"
                         \/ \E j \in 1 .. n : i = (6 * n + 1) + j /\ q.kind = "floodbucket"
                                               /\ q.port = PortsOf[v][j]
                         \/ i = 7 * n + 2 /\ q.kind = "hostroute"
<1>1. \A i \in DOMAIN VlanRequests(v) : Form(i, VlanRequests(v)[i])
  BY ScriptForms DEF R
<1>2. Form(a, r) /\ Form(b, r)
  BY <1>1
<1>3. \A i, j \in 1 .. n : PortsOf[v][i] = PortsOf[v][j] => i = j
  BY VlansAssumption, PortsTyped
<1> HIDE DEF r, n
<1> QED
  BY <1>2, <1>3, KindsAt

\* ... and for a group before anything that refers to it.
LEMMA ScriptOrdered ==
  ASSUME NEW v \in Vlans, run \in Nat, NEW i \in DOMAIN VlanRequests(v),
         NEW need \in Needs(VlanRequests(v)[i])
  PROVE  \E j \in 1 .. i - 1 : VlanRequests(v)[j] = need
<1> DEFINE n == NPorts(v)
           r == VlanRequests(v)[i]
<1>1. /\ n \in Nat /\ v \in Nat /\ \A j \in 1 .. n : PortsOf[v][j] \in Nat
  BY PortsTyped
<1>2. r.kind \in {"l2bucket", "floodbucket"}
  BY DEF Needs
<1>3. \A j \in 1 .. n : VlanRequests(v)[6 * (j - 1) + 3] = R("l2group", v, PortsOf[v][j], 0)
  <2> TAKE j \in 1 .. n
  <2>1. VlanRequests(v)[6 * (j - 1) + 3] = PortRequests(v, PortsOf[v][j])[3]
    BY ScriptPlaces
  <2> QED
    BY <1>1, <2>1, PortRequestsTyped
<1>4. CASE \E j \in 1 .. n, k \in 1 .. 6 :
             /\ i = 6 * (j - 1) + k /\ r = PortRequests(v, PortsOf[v][j])[k]
             /\ r.kind = KindAt(k) /\ r.port = PortsOf[v][j]
  <2>1. PICK j \in 1 .. n, k \in 1 .. 6 :
             /\ i = 6 * (j - 1) + k /\ r = PortRequests(v, PortsOf[v][j])[k]
             /\ r.kind = KindAt(k) /\ r.port = PortsOf[v][j]
    BY <1>4
  <2>2. k = 4
    <3>1. r.kind = KindAt(4)
      BY <1>2, <2>1, KindsAt DEF KindAt
    <3>2. KindAt(k) = KindAt(4) /\ 4 \in 1 .. 6
      BY <2>1, <3>1
    <3> QED
      BY <3>2, KindsAt
  <2>3. r = R("l2bucket", v, PortsOf[v][j], 0)
    BY <1>1, <2>1, <2>2, PortRequestsTyped
  <2>4. need = R("l2group", v, PortsOf[v][j], 0)
    BY <2>3 DEF Needs, R
  <2>5. 6 * (j - 1) + 3 \in 1 .. i - 1
    BY <1>1, <2>1, <2>2
  <2> QED
    BY <1>3, <2>4, <2>5
<1>5. CASE \E j \in 1 .. n : i = (6 * n + 1) + j /\ r = R("floodbucket", v, PortsOf[v][j], 0)
  <2>1. PICK j \in 1 .. n : i = (6 * n + 1) + j /\ r = R("floodbucket", v, PortsOf[v][j], 0)
    BY <1>5
  <2>2. need \in {R("flood", v, 0, 0), R("l2group", v, PortsOf[v][j], 0)}
    BY <2>1 DEF Needs, R
  <2>3. 6 * n + 1 \in 1 .. i - 1 /\ 6 * (j - 1) + 3 \in 1 .. i - 1
    BY <1>1, <2>1
  <2> QED
    BY <1>3, <2>2, <2>3, ScriptPlaces
<1>6. CASE r \in {R("flood", v, 0, 0), R("hostroute", v, 0, 0)}
  BY <1>2, <1>6 DEF R
<1> QED
  BY <1>4, <1>5, <1>6, ScriptForms

\* The keys of two VLANs differ, and that of the last flow is none of them.
LEMMA VlansApart ==
  ASSUME NEW v \in Vlans, NEW w \in Vlans, v # w, NEW r \in Nat
  PROVE  /\ RequestsOf(v, r) \intersect RequestsOf(w, r) = {}
         /\ BroadcastAcl \notin RequestsOf(v, r)
<1>1. Ports(v) \intersect Ports(w) = {} /\ v # 0 /\ w # 0
  BY VlansAssumption
<1>2. \A p \in Ports(v) \union Ports(w) : p # 0
  BY PortsTyped
\* Either the VLAN or the port is in the key, and tells where it belongs.
<1>3. ASSUME NEW x \in Vlans, NEW q \in RequestsOf(x, r)
      PROVE  q.vid = x \/ (q.vid = 0 /\ q.port \in Ports(x))
  BY <1>3 DEF RequestsOf, R
<1>4. BroadcastAcl.vid = 0 /\ BroadcastAcl.port = 0
  BY DEF BroadcastAcl, R
<1>5. BroadcastAcl \notin RequestsOf(v, r)
  BY <1>1, <1>2, <1>3, <1>4
<1>6. \A q \in RequestsOf(v, r) : q \notin RequestsOf(w, r)
  <2> SUFFICES ASSUME NEW q \in RequestsOf(v, r), q \in RequestsOf(w, r) PROVE FALSE
    OBVIOUS
  <2> QED
    BY <1>1, <1>3
<1> QED
  BY <1>5, <1>6
-----------------------------------------------------------------------------
(* Types.                                                                  *)

LEMMA HeadAndTail ==
  ASSUME NEW S, NEW s \in Seq(S), s # <<>>
  PROVE  /\ Len(s) \in Nat \ {0} /\ DOMAIN s = 1 .. Len(s) /\ 1 \in DOMAIN s
         /\ Head(s) = s[1] /\ Head(s) \in S
         /\ Tail(s) \in Seq(S) /\ Len(Tail(s)) = Len(s) - 1 /\ DOMAIN Tail(s) = 1 .. Len(s) - 1
         /\ \A i \in 1 .. Len(s) - 1 : i + 1 \in DOMAIN s /\ Tail(s)[i] = s[i + 1]
<1>1. Len(s) \in Nat /\ DOMAIN s = 1 .. Len(s)
  BY LenProperties
<1>2. Len(s) # 0
  BY EmptySeq
<1>3. Head(s) \in S /\ Tail(s) \in Seq(S)
  BY HeadTailProperties
<1>4. Len(Tail(s)) = Len(s) - 1 /\ \A i \in 1 .. Len(s) - 1 : Tail(s)[i] = s[i + 1]
  BY HeadTailProperties
<1>5. DOMAIN Tail(s) = 1 .. Len(s) - 1
  BY <1>3, <1>4, LenProperties
<1> QED
  BY <1>1, <1>2, <1>3, <1>4, <1>5

LEMMA VlanOfPort ==
  ASSUME NEW p \in AllPorts
  PROVE  VlanOf(p) \in Vlans /\ p \in Ports(VlanOf(p))
  BY DEF AllPorts, VlanOf

\* A group number was used up by each frame that made a host, and a frame that waits can
\* use up one more.
Counted == idx + Len(rxq) <= sent /\ builder <= run

Typed == TypeOK /\ script \in Seq(Requests) /\ Counted

LEMMA TypedInit == Init => Typed
  BY VlansAssumption, NamesAssumption DEF Init, Typed, TypeOK, Counted

LEMMA TypedStep == Typed /\ [Next]_vars => Typed'
<1> SUFFICES ASSUME Typed, [Next]_vars PROVE Typed'
  OBVIOUS
<1> USE DEF Typed, TypeOK, Counted
<1>0. /\ Len(rxq) \in Nat /\ idx \in Nat /\ run \in Nat /\ sent \in Nat /\ builder \in Nat
      /\ MaxRuns \in Nat /\ MaxFrames \in Nat /\ MaxQueue \in Nat
  BY NamesAssumption, LenProperties
<1>1. ASSUME NextVlan PROVE Typed'
  <2>1. \A v \in Vlans : VlanRequests(v) \in Seq(Requests)
    BY <1>0, ScriptPlaces
  <2>2. <<BroadcastAcl>> \in Seq(Requests)
    BY DEF BroadcastAcl, R, Requests, RequestKinds
  <2>3. script' \in Seq(Requests)
    BY <1>1, <2>1, <2>2 DEF NextVlan
  <2>4. todo' \subseteq Vlans /\ pc' \in {"setup", "serve", "dead"}
    BY <1>1 DEF NextVlan
  <2> QED
    BY <1>1, <2>3, <2>4 DEF NextVlan, agent
<1>2. ASSUME Request PROVE Typed'
  <2>1. Tail(script) \in Seq(Requests)
    BY <1>2, HeadAndTail DEF Request
  <2>2. script' \in Seq(Requests)
    BY <1>2, <2>1 DEF Request
  <2>3. /\ pc' \in {"setup", "serve", "dead"}
        /\ cause' \in {"none", "setup", "learn", "host", "killed"}
    BY <1>2 DEF Request, Die
  <2>4. builder' \in 0 .. MaxRuns /\ builder' <= run
    BY <1>0, <1>2 DEF Request
  <2> QED
    BY <1>2, <2>2, <2>3, <2>4 DEF Request
<1>3. ASSUME Receive PROVE Typed'
  <2> DEFINE f == Head(rxq)
  <2>1. /\ f \in Frames /\ rxq' \in Seq(Frames) /\ Len(rxq') = Len(rxq) - 1 /\ Len(rxq) > 0
    BY <1>0, <1>3, HeadAndTail DEF Receive
  <2>2. f.port \in AllPorts /\ f.mac \in Macs /\ f.ip \in Ips \union {NoIp}
        /\ VlanOf(f.port) \in Vlans
    BY <2>1, VlanOfPort DEF Frames
  <2>3. UNCHANGED <<todo, script, tables, run, sent, builder>> /\ last' = f
    BY <1>3 DEF Receive
  <2> HIDE DEF f
  <2>4. CASE Learn(f)
    <3>1. bridging' \subseteq [vid : Vlans, mac : Macs, port : AllPorts]
      BY <2>2, <2>4 DEF Learn
    <3>2. pc' \in {"setup", "serve", "dead"}
          /\ cause' \in {"none", "setup", "learn", "host", "killed"}
      BY <2>4 DEF Learn, Die
    <3> QED
      BY <1>0, <2>1, <2>3, <2>4, <3>1, <3>2 DEF Learn
  <2>5. CASE MakesHost(f) /\ MakeHost(f)
    <3>1. f.ip \in Ips
      BY <2>2, <2>5 DEF MakesHost
    <3>2. exists' \subseteq Ips /\ first' \subseteq Frames
      BY <2>1, <2>5, <3>1 DEF MakeHost
    <3>3. idx' = idx + 1 /\ idx' \in 0 .. MaxFrames
      BY <1>0, <2>1, <2>5 DEF MakeHost, NextIdx
    <3>4. idx \in 0 .. MaxFrames
      OBVIOUS
    <3>5. l3groups' \subseteq [idx : 0 .. MaxFrames, vid : Vlans, port : AllPorts, mac : Macs]
      BY <2>2, <2>5 DEF MakeHost, Egress
    <3>6. hostFlows' \subseteq [ip : Ips, idx : 0 .. MaxFrames]
      BY <2>5, <3>1 DEF MakeHost
    <3>7. pc' \in {"setup", "serve", "dead"}
          /\ cause' \in {"none", "setup", "learn", "host", "killed"}
      BY <2>5 DEF MakeHost, Die
    <3>8. bridging' = bridging
      BY <2>5 DEF MakeHost
    <3> QED
      BY <1>0, <2>1, <2>3, <3>2, <3>3, <3>5, <3>6, <3>7, <3>8
  <2>6. CASE UNCHANGED <<pc, exists, idx, bridging, l3groups, hostFlows, cause, first>>
    BY <1>0, <2>1, <2>3, <2>6
  <2> QED
    BY <1>3, <2>4, <2>5, <2>6 DEF Receive, f
<1>4. ASSUME Kill PROVE Typed'
  BY <1>4 DEF Kill, Die, agent
<1>5. ASSUME Start PROVE Typed'
  <2>1. rxq' = <<>> /\ script' = <<>> /\ run' = run + 1 /\ run' \in 1 .. MaxRuns
    BY <1>0, <1>5 DEF Start
  <2>2. rxq' \in Seq(Frames) /\ Len(rxq') = 0 /\ script' \in Seq(Requests)
    BY <2>1
  <2> QED
    BY <1>0, <1>5, <2>1, <2>2 DEF Start, agent
<1>6. ASSUME NEW table \in {"lookup", "other"}, NEW p \in AllPorts, NEW mac \in Macs,
             NEW ip \in Ips \union {NoIp}, Arrive(table, p, mac, ip)
      PROVE  Typed'
  <2>1. PICK fresh \in BOOLEAN :
          rxq' = Append(rxq, [table |-> table, port |-> p, mac |-> mac, ip |-> ip, fresh |-> fresh])
    BY <1>6 DEF Arrive
  <2>2. [table |-> table, port |-> p, mac |-> mac, ip |-> ip, fresh |-> fresh] \in Frames
    BY DEF Frames
  <2>3. rxq' \in Seq(Frames) /\ Len(rxq') = Len(rxq) + 1
    BY <2>1, <2>2, AppendProperties
  <2>4. UNCHANGED <<app, agent, run, cause, last, first, builder>>
        /\ sent' = sent + 1 /\ sent < MaxFrames /\ Len(rxq) < MaxQueue
    BY <1>6 DEF Arrive
  <2> QED
    BY <1>0, <2>3, <2>4 DEF app, agent
<1>7. ASSUME UNCHANGED vars PROVE Typed'
  BY <1>7 DEF vars, app, agent
<1> QED
  BY <1>1, <1>2, <1>3, <1>4, <1>5, <1>6, <1>7 DEF Next

LEMMA TypedAlways == Spec => []Typed
  BY TypedInit, TypedStep, PTL DEF Spec

\* Every variable has its type.  That idx stays within the number of frames follows from
\* Counted: main.go:331 counts up once for a frame that it takes from the queue.
THEOREM TypeCorrect == Spec => []TypeOK
<1>1. Typed => TypeOK
  BY DEF Typed
<1> QED
  BY <1>1, TypedAlways, PTL

-----------------------------------------------------------------------------
(* The keys of the L2 interface groups, across runs.                       *)

\* Whether the set-up has still to ask for the entry of a port.
Pending(kind, v, p) == v \in todo \/ \E i \in DOMAIN script : script[i] = R(kind, v, p, 0)

\* The script belongs to one of the VLANs begun, or it is the last request.
ScriptInv == \A i \in DOMAIN script :
  script[i] = BroadcastAcl \/ \E v \in Vlans \ todo : script[i] \in RequestsOf(v, run)

\* No L2 interface group, then none that would need one.
NothingYet == builder = 0 =>
  l3groups = {} /\ hostFlows = {} /\ \A r \in tables : r.kind # "l2group"
\* The first group of an earlier run is still there ...
GroupKept == builder # 0 => \E v \in Vlans : \E p \in Ports(v) : R("l2group", v, p, 0) \in tables
\* ... and this run has to ask for it again: the agent will refuse.
GroupAhead == pc = "setup" /\ builder # run =>
  \E v \in Vlans : \E p \in Ports(v) :
    Pending("l2group", v, p) /\ (builder # 0 => R("l2group", v, p, 0) \in tables)

BuilderInv == ScriptInv /\ NothingYet /\ GroupKept /\ GroupAhead /\ RestartNeedsCleanAgent

LEMMA SomePort == \E v \in Vlans : \E p \in Ports(v) : TRUE
<1>1. PICK v \in Vlans : PortsOf[v] # <<>> /\ PortsOf[v] \in Seq(Nat \ {0})
  BY VlansAssumption
<1>2. 1 \in DOMAIN PortsOf[v]
  BY <1>1, HeadAndTail
<1> QED
  BY <1>2 DEF Ports

LEMMA BuilderInit == Init => BuilderInv
<1> SUFFICES ASSUME Init PROVE BuilderInv
  OBVIOUS
<1>1. script = <<>> /\ DOMAIN script = {} /\ tables = {} /\ todo = Vlans /\ builder = 0
  BY DEF Init
<1>2. ScriptInv /\ GroupKept
  BY <1>1 DEF ScriptInv, GroupKept
<1>3. NothingYet
  BY <1>1 DEF Init, NothingYet
<1>4. GroupAhead
  BY <1>1, SomePort DEF GroupAhead, Pending
<1>5. RestartNeedsCleanAgent
  BY DEF Init, RestartNeedsCleanAgent
<1> QED
  BY <1>2, <1>3, <1>4, <1>5 DEF BuilderInv

\* Where nothing of the set-up happens.
LEMMA BuilderKept ==
  ASSUME BuilderInv, UNCHANGED <<todo, script, tables, run, builder>>,
         pc' = pc \/ pc' = "dead",
         builder = 0 => l3groups' = l3groups /\ hostFlows' = hostFlows
  PROVE  BuilderInv'
<1> USE DEF BuilderInv
<1>1. ScriptInv'
  BY DEF ScriptInv, RequestsOf
<1>2. NothingYet'
  BY DEF NothingYet
<1>3. GroupKept'
  BY DEF GroupKept
<1>4. GroupAhead'
  BY DEF GroupAhead, Pending
<1>5. RestartNeedsCleanAgent'
  BY DEF RestartNeedsCleanAgent
<1> QED
  BY <1>1, <1>2, <1>3, <1>4, <1>5

LEMMA BuilderNextVlan ==
  ASSUME Typed, BuilderInv, NextVlan
  PROVE  BuilderInv'
<1> USE DEF BuilderInv
<1>1. /\ pc = "setup" /\ script = <<>> /\ DOMAIN script = {} /\ run \in Nat
      /\ UNCHANGED <<tables, l3groups, hostFlows, run, builder>>
  BY NamesAssumption DEF NextVlan, agent, Typed, TypeOK
<1>2. NothingYet' /\ GroupKept'
  BY <1>1 DEF NothingYet, GroupKept
<1>3. ASSUME NEW v \in todo, todo' = todo \ {v}, script' = VlanRequests(v), pc' = pc
      PROVE  ScriptInv' /\ GroupAhead' /\ RestartNeedsCleanAgent'
  <2>1. v \in Vlans
    BY <1>3 DEF Typed, TypeOK
  <2>2. ScriptInv'
    <3>1. \A i \in DOMAIN script' : script'[i] \in RequestsOf(v, run')
      BY <1>1, <1>3, <2>1, ScriptOfVlan
    <3>2. v \in Vlans \ todo'
      BY <1>3, <2>1
    <3> QED
      BY <3>1, <3>2 DEF ScriptInv, RequestsOf
  <2>3. GroupAhead'
    <3>1. \A w \in Vlans : \A p \in Ports(w) : Pending("l2group", w, p) => Pending("l2group", w, p)'
      <4> SUFFICES ASSUME NEW w \in Vlans, NEW p \in Ports(w), Pending("l2group", w, p)
                   PROVE  Pending("l2group", w, p)'
        OBVIOUS
      <4>1. w \in todo
        BY <1>1 DEF Pending
      <4>2. CASE w # v
        BY <1>3, <4>1, <4>2 DEF Pending
      <4>3. CASE w = v
        BY <1>1, <1>3, <2>1, <4>3, ScriptHasGroups DEF Pending
      <4> QED
        BY <4>2, <4>3
    <3> HIDE DEF Pending
    <3> QED
      BY <1>1, <1>3, <3>1 DEF GroupAhead
  <2>4. RestartNeedsCleanAgent'
    BY <1>1, <1>3 DEF RestartNeedsCleanAgent
  <2> QED
    BY <2>2, <2>3, <2>4
<1>4. ASSUME todo = {} PROVE builder = run
  BY <1>1, <1>4 DEF GroupAhead, Pending
<1>5. ASSUME todo = {}, pc' = "serve", UNCHANGED <<todo, script>>
      PROVE  ScriptInv' /\ GroupAhead' /\ RestartNeedsCleanAgent'
  BY <1>1, <1>4, <1>5 DEF ScriptInv, GroupAhead, RestartNeedsCleanAgent
<1>6. ASSUME todo = {}, script' = <<BroadcastAcl>>, UNCHANGED <<pc, todo>>
      PROVE  ScriptInv' /\ GroupAhead' /\ RestartNeedsCleanAgent'
  BY <1>1, <1>4, <1>6 DEF ScriptInv, GroupAhead, RestartNeedsCleanAgent
<1>7. ScriptInv' /\ GroupAhead' /\ RestartNeedsCleanAgent'
  <2>1. \/ \E v \in todo : todo' = todo \ {v} /\ script' = VlanRequests(v) /\ pc' = pc
        \/ todo = {} /\ pc' = "serve" /\ UNCHANGED <<todo, script>>
        \/ todo = {} /\ script' = <<BroadcastAcl>> /\ UNCHANGED <<pc, todo>>
    BY DEF NextVlan
  <2> QED
    BY <1>3, <1>5, <1>6, <2>1
<1> QED
  BY <1>2, <1>7

LEMMA BuilderRequest ==
  ASSUME Typed, BuilderInv, Request
  PROVE  BuilderInv'
<1> USE DEF BuilderInv
<1> DEFINE h == Head(script)
<1>1. /\ pc = "setup" /\ script # <<>> /\ script \in Seq(Requests) /\ run \in Nat \ {0}
      /\ UNCHANGED <<todo, run, l3groups, hostFlows>>
      /\ builder' = IF builder = 0 /\ h.kind = "l2group" THEN run ELSE builder
  BY NamesAssumption DEF Request, Typed, TypeOK
<1>2. /\ 1 \in DOMAIN script /\ h = script[1] /\ Tail(script) \in Seq(Requests)
      /\ DOMAIN script = 1 .. Len(script) /\ DOMAIN Tail(script) = 1 .. Len(script) - 1
      /\ Len(script) \in Nat
      /\ \A i \in 1 .. Len(script) - 1 : i + 1 \in DOMAIN script /\ Tail(script)[i] = script[i + 1]
  BY <1>1, HeadAndTail
<1>3. /\ Refused(h) => pc' = "dead" /\ UNCHANGED <<script, tables>>
      /\ ~Refused(h) => tables' = tables \union {h} /\ script' = Tail(script) /\ pc' = pc
  BY DEF Request, Die
<1> HIDE DEF h
\* While there is no group, the request for one is not refused.
<1>4. builder = 0 /\ h.kind = "l2group" => ~Refused(h)
  BY DEF NothingYet, Refused, Needs
<1>5. h.kind = "l2group" => \E v \in Vlans : \E p \in Ports(v) : h = R("l2group", v, p, 0)
  <2>1. h = BroadcastAcl \/ \E v \in Vlans \ todo : h \in RequestsOf(v, run)
    BY <1>2 DEF ScriptInv
  <2> QED
    BY <2>1 DEF BroadcastAcl, RequestsOf, R
<1>6. ScriptInv'
  <2>1. CASE Refused(h)
    BY <1>1, <1>3, <2>1 DEF ScriptInv, RequestsOf
  <2>2. CASE ~Refused(h)
    <3>1. \A i \in DOMAIN script' : \E j \in DOMAIN script : script'[i] = script[j]
      BY <1>2, <1>3, <2>2
    <3> QED
      BY <1>1, <3>1 DEF ScriptInv, RequestsOf
  <2> QED
    BY <2>1, <2>2
<1>7. NothingYet'
  BY <1>1, <1>3, <1>4 DEF NothingYet
<1>8. GroupKept'
  <2>1. tables \subseteq tables'
    BY <1>3
  <2>2. CASE builder = 0 /\ h.kind = "l2group"
    BY <1>3, <1>4, <1>5, <2>2 DEF GroupKept
  <2>3. CASE ~(builder = 0 /\ h.kind = "l2group")
    BY <1>1, <2>1, <2>3 DEF GroupKept
  <2> QED
    BY <2>2, <2>3
<1>9. GroupAhead'
  <2> SUFFICES ASSUME pc' = "setup", builder' # run'
               PROVE  \E v \in Vlans : \E p \in Ports(v) :
                        Pending("l2group", v, p)' /\ (builder' # 0 => R("l2group", v, p, 0) \in tables')
    BY DEF GroupAhead
  <2>1. ~Refused(h) /\ builder' = builder /\ builder # run /\ ~(builder = 0 /\ h.kind = "l2group")
    BY <1>1, <1>3
  <2>2. PICK v \in Vlans : \E p \in Ports(v) :
          Pending("l2group", v, p) /\ (builder # 0 => R("l2group", v, p, 0) \in tables)
    BY <1>1, <2>1 DEF GroupAhead
  <2>3. PICK p \in Ports(v) :
          Pending("l2group", v, p) /\ (builder # 0 => R("l2group", v, p, 0) \in tables)
    BY <2>2
  <2>4. h # R("l2group", v, p, 0)
    <3>1. CASE builder = 0
      BY <2>1, <3>1 DEF R
    <3>2. CASE builder # 0
      BY <2>1, <2>3, <3>2 DEF Refused
    <3> QED
      BY <3>1, <3>2
  <2>5. Pending("l2group", v, p)'
    <3>1. CASE v \in todo
      BY <1>1, <3>1 DEF Pending
    <3>2. ASSUME NEW i \in DOMAIN script, script[i] = R("l2group", v, p, 0)
          PROVE  Pending("l2group", v, p)'
      <4>1. i - 1 \in 1 .. Len(script) - 1 /\ (i - 1) + 1 = i
        BY <1>2, <2>4, <3>2
      <4>2. script'[i - 1] = R("l2group", v, p, 0) /\ i - 1 \in DOMAIN script'
        BY <1>2, <1>3, <2>1, <3>2, <4>1
      <4> QED
        BY <4>2 DEF Pending
    <3> QED
      BY <2>3, <3>1, <3>2 DEF Pending
  <2>6. builder' # 0 => R("l2group", v, p, 0) \in tables'
    BY <1>3, <2>1, <2>3
  <2> QED
    BY <2>5, <2>6
<1>10. RestartNeedsCleanAgent'
  BY <1>1, <1>3 DEF RestartNeedsCleanAgent
<1> QED
  BY <1>6, <1>7, <1>8, <1>9, <1>10

LEMMA BuilderStart ==
  ASSUME Typed, BuilderInv, Start
  PROVE  BuilderInv'
<1> USE DEF BuilderInv
<1>1. /\ pc' = "setup" /\ todo' = Vlans /\ script' = <<>> /\ DOMAIN script' = {} /\ run' = run + 1
      /\ UNCHANGED <<tables, l3groups, hostFlows, builder>>
  BY DEF Start, agent
<1>2. ScriptInv' /\ RestartNeedsCleanAgent'
  BY <1>1 DEF ScriptInv, RestartNeedsCleanAgent
<1>3. NothingYet' /\ GroupKept'
  BY <1>1 DEF NothingYet, GroupKept
<1>4. GroupAhead'
  BY <1>1, SomePort DEF GroupAhead, Pending, GroupKept
<1> QED
  BY <1>2, <1>3, <1>4

LEMMA BuilderAlways == Spec => []BuilderInv
<1>1. Typed /\ BuilderInv /\ [Next]_vars => BuilderInv'
  <2> SUFFICES ASSUME Typed, BuilderInv, [Next]_vars PROVE BuilderInv'
    OBVIOUS
  <2>1. ASSUME Receive PROVE BuilderInv'
    <3>1. /\ UNCHANGED <<todo, script, tables, run, builder>> /\ (pc' = pc \/ pc' = "dead")
          /\ builder = run /\ run # 0
      BY <2>1 DEF Receive, Learn, MakeHost, Die, BuilderInv, RestartNeedsCleanAgent, Typed, TypeOK
    <3> QED
      BY <3>1, BuilderKept
  <2>2. ASSUME Kill PROVE BuilderInv'
    BY <2>2, BuilderKept DEF Kill, Die, agent
  <2>3. ASSUME NEW table \in {"lookup", "other"}, NEW p \in AllPorts, NEW mac \in Macs,
               NEW ip \in Ips \union {NoIp}, Arrive(table, p, mac, ip)
        PROVE  BuilderInv'
    BY <2>3, BuilderKept DEF Arrive, app, agent
  <2>4. ASSUME UNCHANGED vars PROVE BuilderInv'
    BY <2>4, BuilderKept DEF vars, app, agent
  <2> QED
    BY <2>1, <2>2, <2>3, <2>4, BuilderNextVlan, BuilderRequest, BuilderStart DEF Next
<1> QED
  BY <1>1, BuilderInit, TypedAlways, PTL DEF Spec

\* A process that was started again serves only if no earlier run added an L2 interface
\* group: the key is a constant of the port and its VLAN (group.go:90), this run asks for
\* it again (main.go:234), and an EXISTS ends the process.
THEOREM RestartsNeedCleanAgent == Spec => []RestartNeedsCleanAgent
<1>1. BuilderInv => RestartNeedsCleanAgent
  BY DEF BuilderInv
<1> QED
  BY <1>1, BuilderAlways, PTL

-----------------------------------------------------------------------------
(* The loop.                                                               *)

\* The L2 interface group of every port is there once the set-up is past it.
BucketsInv == \A v \in Vlans : \A p \in Ports(v) :
  pc = "serve" \/ (pc = "setup" /\ ~Pending("l2bucket", v, p)) => R("l2bucket", v, p, 0) \in tables

LEMMA BucketsInit == Init => BucketsInv
  BY DEF Init, BucketsInv, Pending

LEMMA BucketsStep == Typed /\ BucketsInv /\ [Next]_vars => BucketsInv'
<1> SUFFICES ASSUME Typed, BucketsInv, [Next]_vars,
                    NEW v \in Vlans, NEW p \in Ports(v),
                    pc' = "serve" \/ (pc' = "setup" /\ ~Pending("l2bucket", v, p)')
             PROVE  R("l2bucket", v, p, 0) \in tables'
  BY DEF BucketsInv
<1> DEFINE b == R("l2bucket", v, p, 0)
<1>0. b \in tables \/ pc = "dead" \/ (pc = "setup" /\ Pending("l2bucket", v, p))
  BY DEF BucketsInv, Typed, TypeOK
<1>1. ASSUME NextVlan PROVE b \in tables'
  <2>1. pc = "setup" /\ script = <<>> /\ DOMAIN script = {} /\ tables' = tables /\ run \in Nat
    BY <1>1, NamesAssumption DEF NextVlan, agent, Typed, TypeOK
  <2>2. SUFFICES ASSUME v \in todo PROVE FALSE
    BY <1>0, <2>1 DEF Pending
  <2>3. PICK w \in todo : todo' = todo \ {w} /\ script' = VlanRequests(w) /\ pc' = pc
    BY <1>1, <2>2 DEF NextVlan
  <2>4. v \in todo' \/ \E i \in DOMAIN script' : script'[i] = R("l2bucket", v, p, 0)
    BY <2>1, <2>2, <2>3, ScriptHasGroups
  <2> QED
    BY <2>1, <2>3, <2>4 DEF Pending
<1>2. ASSUME Request PROVE b \in tables'
  <2>1. /\ pc = "setup" /\ script # <<>> /\ script \in Seq(Requests) /\ todo' = todo
        /\ pc' = "setup" /\ tables' = tables \union {Head(script)} /\ script' = Tail(script)
    BY <1>2 DEF Request, Die, Typed
  <2>2. CASE v \in todo
    BY <2>1, <2>2 DEF Pending
  <2>3. ASSUME NEW i \in DOMAIN script, script[i] = b, b # Head(script) PROVE FALSE
    <3>1. /\ Len(script) \in Nat /\ i \in 1 .. Len(script) /\ i # 1
          /\ DOMAIN Tail(script) = 1 .. Len(script) - 1
          /\ \A k \in 1 .. Len(script) - 1 : Tail(script)[k] = script[k + 1]
      BY <2>1, <2>3, HeadAndTail
    <3>2. i - 1 \in 1 .. Len(script) - 1 /\ (i - 1) + 1 = i
      BY <3>1
    <3>3. i - 1 \in DOMAIN script' /\ script'[i - 1] = b
      BY <2>1, <2>3, <3>1, <3>2
    <3> QED
      BY <2>1, <3>3 DEF Pending
  <2> QED
    BY <1>0, <2>1, <2>2, <2>3 DEF Pending
<1>3. ASSUME Receive PROVE b \in tables'
  BY <1>0, <1>3 DEF Receive
<1>4. ASSUME Kill PROVE b \in tables'
  BY <1>4 DEF Kill, Die
<1>5. ASSUME Start PROVE b \in tables'
  BY <1>5 DEF Start, Pending
<1>6. ASSUME UNCHANGED <<app, agent>> PROVE b \in tables'
  BY <1>0, <1>6 DEF app, agent, Pending
<1> QED
  BY <1>1, <1>2, <1>3, <1>4, <1>5, <1>6 DEF Next, Arrive, vars

\* A new group's number is not in use, and a new host has no flow.
HostsInv ==
  /\ pc = "setup" => exists = {} /\ idx = 0 /\ first = {} /\ rxq = <<>>
  /\ pc = "setup" /\ builder = run => l3groups = {} /\ hostFlows = {}
  /\ pc = "serve" => /\ \A g \in l3groups : g.idx < idx
                     /\ \A h \in hostFlows : h.ip \in exists /\ h.idx < idx

LEMMA HostsInit == Init => HostsInv
  BY DEF Init, HostsInv

LEMMA HostsStep == Typed /\ BuilderInv /\ HostsInv /\ [Next]_vars => HostsInv'
<1> SUFFICES ASSUME Typed, BuilderInv, HostsInv, [Next]_vars PROVE HostsInv'
  OBVIOUS
<1>0. idx \in Nat /\ run \in Nat \ {0} /\ builder \in Nat /\ builder <= run
  BY NamesAssumption DEF Typed, TypeOK, Counted
<1>1. ASSUME NextVlan PROVE HostsInv'
  <2>1. pc' \in {"setup", "serve"} /\ pc = "setup"
        /\ UNCHANGED <<exists, idx, l3groups, hostFlows, rxq, run, first, builder>>
    BY <1>1 DEF NextVlan, agent
  <2>2. pc' = "serve" => builder = run
    <3>1. pc' = "serve" => todo = {} /\ script = <<>>
      BY <1>1 DEF NextVlan
    <3>2. todo = {} /\ script = <<>> => builder = run
      BY <2>1 DEF BuilderInv, GroupAhead, Pending
    <3> QED
      BY <3>1, <3>2
  <2> QED
    BY <2>1, <2>2 DEF HostsInv
<1>2. ASSUME Request PROVE HostsInv'
  <2>1. pc' \in {"setup", "dead"} /\ pc = "setup"
        /\ UNCHANGED <<exists, idx, l3groups, hostFlows, rxq, run, first>>
        /\ (builder' = builder \/ builder = 0)
    BY <1>2 DEF Request, Die
  <2> QED
    BY <2>1 DEF HostsInv, BuilderInv, NothingYet
<1>3. ASSUME Receive PROVE HostsInv'
  <2> DEFINE f == Head(rxq)
  <2>1. pc = "serve" /\ (pc' = "serve" \/ pc' = "dead")
    BY <1>3 DEF Receive, Learn, MakeHost, Die
  <2>2. SUFFICES ASSUME pc' = "serve"
                 PROVE  /\ \A g \in l3groups' : g.idx < idx'
                        /\ \A h \in hostFlows' : h.ip \in exists' /\ h.idx < idx'
    BY <2>1 DEF HostsInv
  <2>3. CASE MakeHost(f)
    <3> DEFINE g == [idx |-> idx, vid |-> VlanOf(f.port), port |-> Egress(f.port), mac |-> f.mac]
               h == [ip |-> f.ip, idx |-> idx]
    <3>1. /\ idx' = idx + 1 /\ exists' = exists \union {f.ip}
          /\ l3groups' \subseteq l3groups \union {g} /\ hostFlows' \subseteq hostFlows \union {h}
      BY <2>3 DEF MakeHost, NextIdx
    <3>2. g.idx = idx /\ h.idx = idx /\ h.ip = f.ip
      OBVIOUS
    <3>3. \A k \in l3groups \union hostFlows : k.idx \in Nat
      BY DEF Typed, TypeOK
    <3> HIDE DEF f, g, h
    <3>4. \A k \in l3groups' : k.idx < idx'
      BY <1>0, <2>1, <3>1, <3>2, <3>3 DEF HostsInv
    <3>5. \A k \in hostFlows' : k.ip \in exists' /\ k.idx < idx'
      BY <1>0, <2>1, <3>1, <3>2, <3>3 DEF HostsInv
    <3> QED
      BY <3>4, <3>5
  <2>4. CASE UNCHANGED <<exists, idx, l3groups, hostFlows>>
    BY <2>1, <2>4 DEF HostsInv
  <2> QED
    BY <1>3, <2>3, <2>4 DEF Receive, Learn
<1>4. ASSUME Kill PROVE HostsInv'
  BY <1>4 DEF Kill, Die, HostsInv
<1>5. ASSUME Start PROVE HostsInv'
  BY <1>0, <1>5 DEF Start, HostsInv
<1>6. ASSUME NEW table \in {"lookup", "other"}, NEW p \in AllPorts, NEW mac \in Macs,
             NEW ip \in Ips \union {NoIp}, Arrive(table, p, mac, ip)
      PROVE  HostsInv'
  BY <1>6 DEF Arrive, app, agent, HostsInv
<1>7. ASSUME UNCHANGED vars PROVE HostsInv'
  BY <1>7 DEF vars, app, agent, HostsInv
<1> QED
  BY <1>1, <1>2, <1>3, <1>4, <1>5, <1>6, <1>7 DEF Next

\* What the runs leave behind, together.
LoopInv == BucketsInv /\ HostsInv

LEMMA LoopAlways == Spec => []LoopInv
<1>1. Init => LoopInv
  BY BucketsInit, HostsInit DEF LoopInv
<1>2. Typed /\ BuilderInv /\ LoopInv /\ [Next]_vars => LoopInv'
  BY BucketsStep, HostsStep DEF LoopInv
<1> QED
  BY <1>1, <1>2, TypedAlways, BuilderAlways, PTL DEF Spec

LEMMA HostsLeadStep ==
  ASSUME Typed, BuilderInv, LoopInv, HostsLeadToFirstStation, [Next]_vars
  PROVE  HostsLeadToFirstStation'
<1> USE DEF LoopInv
<1>1. ASSUME NextVlan PROVE HostsLeadToFirstStation'
  <2> SUFFICES ASSUME pc' = "serve" PROVE hostFlows' = {}
    BY DEF HostsLeadToFirstStation
  <2>1. pc = "setup" /\ todo = {} /\ DOMAIN script = {} /\ hostFlows' = hostFlows
    BY <1>1 DEF NextVlan, agent
  <2>2. builder = run
    BY <2>1 DEF BuilderInv, GroupAhead, Pending
  <2> QED
    BY <2>1, <2>2 DEF HostsInv
<1>2. ASSUME Request \/ Kill \/ Start PROVE HostsLeadToFirstStation'
  BY <1>2 DEF Request, Kill, Start, Die, HostsLeadToFirstStation
<1>3. ASSUME Receive PROVE HostsLeadToFirstStation'
  <2> DEFINE f == Head(rxq)
             g == [idx |-> idx, vid |-> VlanOf(f.port), port |-> Egress(f.port), mac |-> f.mac]
             h == [ip |-> f.ip, idx |-> idx]
  <2> SUFFICES ASSUME pc' = "serve" PROVE HostsLeadToFirstStation'
    BY DEF HostsLeadToFirstStation
  <2>1. pc = "serve" /\ tables' = tables
    BY <1>3 DEF Receive
  <2>2. f \in Frames /\ f.port \in AllPorts
    <3>1. rxq # <<>> /\ rxq \in Seq(Frames)
      BY <1>3 DEF Receive, Typed, TypeOK
    <3>2. f \in Frames
      BY <3>1, HeadAndTail
    <3> QED
      BY <3>2 DEF Frames
  <2>3. CASE MakeHost(f)
    <3>1. hostFlows' = hostFlows \union {h} /\ l3groups' = l3groups \union {g} /\ first' = first \union {f}
      BY <2>1, <2>3 DEF MakeHost, Die
    <3>2. g.idx = idx /\ g.port = f.port /\ g.mac = f.mac /\ g.vid = VlanOf(f.port) /\ h.idx = idx /\ h.ip = f.ip
      BY DEF Egress
    <3>3. R("l2bucket", g.vid, g.port, 0) \in tables
      BY <2>1, <2>2, <3>2, VlanOfPort DEF BucketsInv
    <3>4. \A k \in hostFlows : k.idx < idx /\ k.idx \in Nat
      BY <2>1 DEF HostsInv, Typed, TypeOK
    <3>5. idx \in Nat
      BY DEF Typed, TypeOK
    <3> HIDE DEF f, g, h
    <3>6. \A k \in hostFlows' : k.idx = idx => k = h
      BY <3>1, <3>2, <3>4, <3>5
    <3>7. ASSUME NEW e \in hostFlows
          PROVE  \E y \in l3groups', x \in first' :
                   /\ y.idx = e.idx /\ x.ip = e.ip /\ y.mac = x.mac /\ y.port = x.port
                   /\ R("l2bucket", y.vid, y.port, 0) \in tables'
                   /\ \A k \in hostFlows' : k.idx = e.idx => k = e
      <4>1. PICK y \in l3groups, x \in first :
                   /\ y.idx = e.idx /\ x.ip = e.ip /\ y.mac = x.mac /\ y.port = x.port
                   /\ R("l2bucket", y.vid, y.port, 0) \in tables
                   /\ \A k \in hostFlows : k.idx = e.idx => k = e
        BY <2>1 DEF HostsLeadToFirstStation
      <4>2. \A k \in hostFlows' : k.idx = e.idx => k = e
        BY <3>1, <3>2, <3>4, <3>5, <4>1
      <4> QED
        BY <2>1, <3>1, <4>1, <4>2
    <3>8. \E y \in l3groups', x \in first' :
            /\ y.idx = h.idx /\ x.ip = h.ip /\ y.mac = x.mac /\ y.port = x.port
            /\ R("l2bucket", y.vid, y.port, 0) \in tables'
            /\ \A k \in hostFlows' : k.idx = h.idx => k = h
      <4>1. g \in l3groups' /\ f \in first'
        BY <3>1
      <4> QED
        BY <2>1, <3>2, <3>3, <3>6, <4>1
    <3> QED
      BY <3>1, <3>7, <3>8 DEF HostsLeadToFirstStation
  <2>4. CASE UNCHANGED <<l3groups, hostFlows, first>>
    BY <2>1, <2>4 DEF HostsLeadToFirstStation
  <2> QED
    BY <1>3, <2>3, <2>4 DEF Receive, Learn
<1>4. ASSUME UNCHANGED <<app, agent, first>> PROVE HostsLeadToFirstStation'
  BY <1>4 DEF app, agent, HostsLeadToFirstStation
<1> QED
  BY <1>1, <1>2, <1>3, <1>4 DEF Next, Arrive, vars

\* The flow of a host leads to a group of its own with the station and the port of the
\* frame that it was first seen in, behind which there is an L2 interface group
\* (main.go:320-337): whatever the ports, addresses and frames, and in every run.
THEOREM HostsAlwaysLeadToFirstStation == Spec => []HostsLeadToFirstStation
<1>1. Init => HostsLeadToFirstStation
  BY DEF Init, HostsLeadToFirstStation
<1>2. Typed /\ BuilderInv /\ LoopInv /\ HostsLeadToFirstStation /\ [Next]_vars
        => HostsLeadToFirstStation'
  BY HostsLeadStep
<1> QED
  BY <1>1, <1>2, TypedAlways, BuilderAlways, LoopAlways, PTL DEF Spec

-----------------------------------------------------------------------------
(* What ends the process.                                                  *)

LookupOf(f, vid, mac) == f.table = "lookup" /\ f.mac = mac /\ VlanOf(f.port) = vid

\* While a first frame of a station waits, its station is not learned, and no earlier
\* frame will make it so.
FreshInv == \A i \in DOMAIN rxq : rxq[i].table = "lookup" /\ rxq[i].fresh =>
  /\ \A b \in bridging : ~(b.vid = VlanOf(rxq[i].port) /\ b.mac = rxq[i].mac)
  /\ \A j \in 1 .. i - 1 : ~LookupOf(rxq[j], VlanOf(rxq[i].port), rxq[i].mac)

\* A process that runs has not ended.
CauseInv == pc # "dead" => cause = "none"

DiesInv == FreshInv /\ CauseInv /\ LoopDiesOfRepeats

LEMMA FreshArrive ==
  ASSUME Typed, FreshInv, NEW table, NEW p, NEW mac, NEW ip, Arrive(table, p, mac, ip)
  PROVE  FreshInv'
<1> DEFINE n == Len(rxq)
           v == VlanOf(p)
           fresh == /\ \A b \in bridging : ~(b.vid = v /\ b.mac = mac)
                    /\ \A i \in DOMAIN rxq :
                         ~(rxq[i].table = "lookup" /\ rxq[i].mac = mac /\ VlanOf(rxq[i].port) = v)
           f == [table |-> table, port |-> p, mac |-> mac, ip |-> ip, fresh |-> fresh]
<1>1. rxq' = Append(rxq, f) /\ bridging' = bridging
  BY DEF Arrive, agent
<1>2. f.port = p /\ f.mac = mac
  OBVIOUS
<1>3. f.fresh => fresh
  BY Zenon
<1> HIDE DEF f
<1>4. n \in Nat /\ DOMAIN rxq = 1 .. n /\ DOMAIN rxq' = 1 .. n + 1
      /\ rxq'[n + 1] = f /\ \A i \in 1 .. n : rxq'[i] = rxq[i]
  BY <1>1, LenProperties DEF Typed, TypeOK
<1> HIDE DEF n, fresh
<1> SUFFICES ASSUME NEW i \in 1 .. n + 1, rxq'[i].table = "lookup", rxq'[i].fresh
             PROVE  /\ \A b \in bridging : ~(b.vid = VlanOf(rxq'[i].port) /\ b.mac = rxq'[i].mac)
                    /\ \A j \in 1 .. i - 1 : ~LookupOf(rxq'[j], VlanOf(rxq'[i].port), rxq'[i].mac)
  BY <1>1, <1>4, Zenon DEF FreshInv, LookupOf, VlanOf
<1>5. CASE i \in 1 .. n
  <2>1. \A j \in 1 .. i - 1 : rxq'[j] = rxq[j]
    BY <1>4, <1>5
  <2>2. rxq'[i] = rxq[i] /\ i \in DOMAIN rxq
    BY <1>4, <1>5
  <2>3. rxq[i].fresh
    BY <2>2, Zenon
  <2> QED
    BY <2>1, <2>2, <2>3 DEF FreshInv
<1>6. CASE i = n + 1
  <2>1. \A j \in 1 .. i - 1 : j \in DOMAIN rxq /\ rxq'[j] = rxq[j]
    BY <1>4, <1>6
  <2>2. rxq'[i] = f
    BY <1>4, <1>6
  <2>3. fresh
    BY <1>3, <2>2, Zenon
  <2> QED
    BY <1>2, <2>1, <2>2, <2>3 DEF fresh, LookupOf
<1> QED
  BY <1>4, <1>5, <1>6

LEMMA FreshKept ==
  ASSUME FreshInv, bridging' = bridging, rxq' = rxq
  PROVE  FreshInv'
  BY Zenon DEF FreshInv

LEMMA FreshReceive ==
  ASSUME Typed, FreshInv, Receive
  PROVE  FreshInv'
<1> DEFINE f == Head(rxq)
           n == Len(rxq)
<1>1. /\ pc = "serve" /\ n \in Nat \ {0} /\ f = rxq[1] /\ DOMAIN rxq = 1 .. n
      /\ DOMAIN rxq' = 1 .. n - 1 /\ \A i \in 1 .. n - 1 : rxq'[i] = rxq[i + 1] /\ i + 1 \in DOMAIN rxq
  BY HeadAndTail DEF Receive, Typed, TypeOK
<1>2. \A b \in bridging' : b \in bridging \/ (f.table = "lookup" /\ b.vid = VlanOf(f.port) /\ b.mac = f.mac)
  BY <1>1 DEF Receive, Learn, MakeHost, Die
<1> HIDE DEF f, n
<1> SUFFICES ASSUME NEW i \in 1 .. n - 1, rxq'[i].table = "lookup", rxq'[i].fresh
             PROVE  /\ \A b \in bridging' : ~(b.vid = VlanOf(rxq'[i].port) /\ b.mac = rxq'[i].mac)
                    /\ \A j \in 1 .. i - 1 : ~LookupOf(rxq'[j], VlanOf(rxq'[i].port), rxq'[i].mac)
  BY <1>1, Zenon DEF FreshInv, LookupOf, VlanOf
<1>3. rxq'[i] = rxq[i + 1] /\ i + 1 \in DOMAIN rxq
  BY <1>1
<1>4. rxq[i + 1].fresh
  BY <1>3, Zenon
<1>5. /\ \A b \in bridging : ~(b.vid = VlanOf(rxq[i + 1].port) /\ b.mac = rxq[i + 1].mac)
      /\ \A j \in 1 .. (i + 1) - 1 : ~LookupOf(rxq[j], VlanOf(rxq[i + 1].port), rxq[i + 1].mac)
  BY <1>3, <1>4 DEF FreshInv
\* The frame received is an earlier one: it is not of the same station.
<1>6. ~LookupOf(f, VlanOf(rxq[i + 1].port), rxq[i + 1].mac)
  <2>1. 1 \in 1 .. (i + 1) - 1
    BY <1>1
  <2> QED
    BY <1>1, <1>5, <2>1
<1>7. \A b \in bridging' : ~(b.vid = VlanOf(rxq[i + 1].port) /\ b.mac = rxq[i + 1].mac)
  BY <1>2, <1>5, <1>6 DEF LookupOf
<1>8. \A j \in 1 .. i - 1 : ~LookupOf(rxq'[j], VlanOf(rxq[i + 1].port), rxq[i + 1].mac)
  <2> TAKE j \in 1 .. i - 1
  <2>1. j + 1 \in 1 .. (i + 1) - 1 /\ j \in 1 .. n - 1
    BY <1>1
  <2>2. rxq'[j] = rxq[j + 1]
    BY <1>1, <2>1
  <2> QED
    BY <1>5, <2>1, <2>2
<1> QED
  BY <1>3, <1>7, <1>8

LEMMA DiesAlways == Spec => []DiesInv
<1>1. Init => DiesInv
  BY DEF Init, DiesInv, FreshInv, CauseInv, LoopDiesOfRepeats
<1>2. Typed /\ LoopInv /\ DiesInv /\ [Next]_vars => DiesInv'
  <2> SUFFICES ASSUME Typed, LoopInv, DiesInv, [Next]_vars PROVE DiesInv'
    OBVIOUS
  <2> USE DEF DiesInv
  <2>1. ASSUME Receive PROVE DiesInv'
    <3> DEFINE f == Head(rxq)
    <3>1. FreshInv'
      BY <2>1, FreshReceive
    <3>2. pc = "serve" /\ cause = "none" /\ last' = f /\ rxq # <<>>
      BY <2>1 DEF Receive, CauseInv
    <3>3. CauseInv'
      BY <2>1, <3>2 DEF Receive, Learn, MakeHost, Die, CauseInv
    <3>4. 1 \in DOMAIN rxq /\ f = rxq[1]
      BY <3>2, HeadAndTail DEF Typed, TypeOK
    <3>5. cause' = "learn" => ~last'.fresh
      <4>1. SUFFICES ASSUME cause' = "learn", f.fresh PROVE FALSE
        BY <3>2, Zenon
      <4>2. rxq[1].fresh
        BY <3>4, <4>1, Zenon
      <4>3. f.table = "lookup" /\ Learn(f)
        BY <2>1, <3>2, <4>1 DEF Receive, MakeHost, Die
      <4>4. \E b \in bridging : b.vid = VlanOf(f.port) /\ b.mac = f.mac
        BY <3>2, <4>1, <4>3 DEF Learn
      <4> QED
        BY <3>4, <4>2, <4>3, <4>4 DEF FreshInv
    <3>6. cause' = "host" => \E v \in Vlans : last'.ip = OwnIp[v]
      <4>1. SUFFICES ASSUME cause' = "host" PROVE \E v \in Vlans : f.ip = OwnIp[v]
        BY <3>2
      <4>2. MakesHost(f) /\ MakeHost(f)
        BY <2>1, <3>2, <4>1 DEF Receive, Learn, Die
      <4>3. \/ \E g \in l3groups : g.idx = idx
            \/ \E v \in Vlans : OwnIp[v] = f.ip
            \/ \E h \in hostFlows : h.ip = f.ip
        BY <3>2, <4>1, <4>2 DEF MakeHost
      <4>4. \A g \in l3groups : g.idx # idx
        BY <3>2 DEF LoopInv, HostsInv, Typed, TypeOK
      <4>5. \A h \in hostFlows : h.ip # f.ip
        BY <3>2, <4>2 DEF LoopInv, HostsInv, MakesHost
      <4> QED
        BY <4>3, <4>4, <4>5
    <3> QED
      BY <3>1, <3>3, <3>5, <3>6, Zenon DEF LoopDiesOfRepeats
  <2>2. ASSUME NEW table \in {"lookup", "other"}, NEW p \in AllPorts, NEW mac \in Macs,
               NEW ip \in Ips \union {NoIp}, Arrive(table, p, mac, ip)
        PROVE  DiesInv'
    <3>1. FreshInv'
      BY <2>2, FreshArrive
    <3>2. UNCHANGED <<pc, cause, last>>
      BY <2>2 DEF Arrive, app
    <3> QED
      BY <3>1, <3>2, Zenon DEF CauseInv, LoopDiesOfRepeats
  <2>3. ASSUME NextVlan \/ Request \/ Kill PROVE DiesInv'
    <3>1. bridging' = bridging /\ rxq' = rxq /\ last' = last
      BY <2>3 DEF NextVlan, Request, Kill, agent
    <3>2. FreshInv'
      BY <3>1, FreshKept
    <3>3. CauseInv'
      BY <2>3 DEF NextVlan, Request, Kill, Die, CauseInv
    <3>4. cause' \in {"learn", "host"} => cause' = cause
      BY <2>3 DEF NextVlan, Request, Kill, Die
    <3>5. LoopDiesOfRepeats'
      <4>1. (cause' = "learn" => cause = "learn") /\ (cause' = "host" => cause = "host")
        BY <3>4
      <4> QED
        BY <3>1, <4>1, Zenon DEF LoopDiesOfRepeats
    <3> QED
      BY <3>2, <3>3, <3>5
  <2>4. ASSUME Start PROVE DiesInv'
    BY <2>4 DEF Start, FreshInv, CauseInv, LoopDiesOfRepeats
  <2>5. ASSUME UNCHANGED vars PROVE DiesInv'
    <3>1. bridging' = bridging /\ rxq' = rxq /\ last' = last /\ pc' = pc /\ cause' = cause
      BY <2>5 DEF vars, app, agent
    <3>2. CauseInv' /\ LoopDiesOfRepeats'
      BY <3>1, Zenon DEF CauseInv, LoopDiesOfRepeats
    <3> QED
      BY <3>1, <3>2, FreshKept
  <2> QED
    BY <2>1, <2>2, <2>3, <2>4, <2>5 DEF Next
<1> QED
  BY <1>1, <1>2, TypedAlways, LoopAlways, PTL DEF Spec

\* The loop ends only for a station that was learned or on its way already when the frame
\* was sent, or for a host with one of the application's own addresses (main.go:293-337).
THEOREM LoopAlwaysDiesOfRepeats == Spec => []LoopDiesOfRepeats
<1>1. DiesInv => LoopDiesOfRepeats
  BY DEF DiesInv
<1> QED
  BY <1>1, DiesAlways, PTL

\* In the first run the agent has nothing of what is still to be asked for, and all that
\* a request refers to is there or asked for before it.
SetupInv == run = 1 /\ pc = "setup" =>
  /\ \A i \in DOMAIN script : script[i] \notin tables
  /\ \A i, j \in DOMAIN script : script[i] = script[j] => i = j
  /\ \A i \in DOMAIN script : \A need \in Needs(script[i]) :
       need \in tables \/ \E j \in 1 .. i - 1 : script[j] = need
  /\ \A v \in todo : RequestsOf(v, 1) \intersect tables = {}
  /\ \A v \in todo : \A i \in DOMAIN script : script[i] \notin RequestsOf(v, 1)

LEMMA SetupNextVlan ==
  ASSUME Typed, SetupInv, NextVlan, run = 1
  PROVE  SetupInv'
<1>1. pc = "setup" /\ tables' = tables /\ run' = 1 /\ script = <<>> /\ DOMAIN script = {}
  BY DEF NextVlan, agent
<1> SUFFICES ASSUME pc' = "setup"
             PROVE  /\ \A i \in DOMAIN script' : script'[i] \notin tables
                    /\ \A i, j \in DOMAIN script' : script'[i] = script'[j] => i = j
                    /\ \A i \in DOMAIN script' : \A need \in Needs(script'[i]) :
                         \E j \in 1 .. i - 1 : script'[j] = need
                    /\ \A v \in todo' : RequestsOf(v, 1) \intersect tables = {}
                    /\ \A v \in todo' : \A i \in DOMAIN script' : script'[i] \notin RequestsOf(v, 1)
  BY <1>1 DEF SetupInv
<1>2. ASSUME NEW v \in todo, todo' = todo \ {v}, script' = VlanRequests(v)
      PROVE  /\ \A i \in DOMAIN script' : script'[i] \in RequestsOf(v, 1)
             /\ \A i, j \in DOMAIN script' : script'[i] = script'[j] => i = j
             /\ \A i \in DOMAIN script' : \A need \in Needs(script'[i]) :
                  \E j \in 1 .. i - 1 : script'[j] = need
  <2>1. v \in Vlans /\ run \in Nat
    BY <1>2 DEF Typed, TypeOK
  <2>2. \A i \in DOMAIN VlanRequests(v) : VlanRequests(v)[i] \in RequestsOf(v, run)
    BY <2>1, ScriptOfVlan
  <2>3. \A i, j \in DOMAIN VlanRequests(v) : VlanRequests(v)[i] = VlanRequests(v)[j] => i = j
    BY <2>1, ScriptHasNoRepeats
  <2>4. \A i \in DOMAIN VlanRequests(v) : \A need \in Needs(VlanRequests(v)[i]) :
          \E j \in 1 .. i - 1 : VlanRequests(v)[j] = need
    BY <2>1, ScriptOrdered
  <2> QED
    BY <1>2, <2>2, <2>3, <2>4
<1>3. CASE todo = {}
  <2>1. BroadcastAcl \notin tables /\ script' = <<BroadcastAcl>> /\ todo' = {}
    BY <1>1, <1>3 DEF NextVlan
  <2>2. Needs(BroadcastAcl) = {}
    BY DEF Needs, BroadcastAcl, R
  <2> QED
    BY <2>1, <2>2
<1>4. CASE todo # {}
  <2>1. PICK v \in todo : todo' = todo \ {v} /\ script' = VlanRequests(v)
    BY <1>1, <1>4 DEF NextVlan
  <2>2. \A w \in todo : RequestsOf(w, 1) \intersect tables = {}
    BY <1>1 DEF SetupInv
  <2>3. \A i \in DOMAIN script' : script'[i] \in RequestsOf(v, 1)
    BY <1>2, <2>1
  <2>4. \A w \in todo' : RequestsOf(v, 1) \intersect RequestsOf(w, 1) = {}
    BY <2>1, VlansApart DEF Typed, TypeOK
  <2> QED
    BY <1>2, <2>1, <2>2, <2>3, <2>4
<1> QED
  BY <1>3, <1>4

\* In the first run no request is refused.
LEMMA NotRefused ==
  ASSUME Typed, SetupInv, run = 1, pc = "setup", script # <<>>
  PROVE  ~Refused(Head(script))
<1>1. Head(script) = script[1] /\ 1 \in DOMAIN script
  BY HeadAndTail DEF Typed
<1>2. \A need \in Needs(script[1]) : need \in tables
  <2>1. \A j \in 1 .. 1 - 1 : FALSE
    OBVIOUS
  <2> QED
    BY <1>1, <2>1 DEF SetupInv
<1> QED
  BY <1>1, <1>2 DEF SetupInv, Refused

LEMMA SetupRequest ==
  ASSUME Typed, SetupInv, Request, run = 1
  PROVE  SetupInv' /\ cause' = cause
<1> DEFINE h == Head(script)
           n == Len(script)
<1>1. pc = "setup" /\ script # <<>> /\ script \in Seq(Requests)
  BY DEF Request, Typed
<1>2. /\ tables' = tables \union {h} /\ script' = Tail(script) /\ todo' = todo /\ run' = 1
      /\ pc' = "setup" /\ cause' = cause
  BY <1>1, NotRefused DEF Request
<1>3. /\ 1 \in DOMAIN script /\ h = script[1] /\ n \in Nat
      /\ DOMAIN script = 1 .. n /\ DOMAIN script' = 1 .. n - 1
      /\ \A i \in 1 .. n - 1 : i + 1 \in DOMAIN script /\ script'[i] = script[i + 1]
  BY <1>1, <1>2, HeadAndTail
<1> HIDE DEF h, n
<1>4. /\ \A i \in DOMAIN script : script[i] \notin tables
      /\ \A i, j \in DOMAIN script : script[i] = script[j] => i = j
      /\ \A i \in DOMAIN script : \A need \in Needs(script[i]) :
           need \in tables \/ \E j \in 1 .. i - 1 : script[j] = need
      /\ \A v \in todo : RequestsOf(v, 1) \intersect tables = {}
      /\ \A v \in todo : \A i \in DOMAIN script : script[i] \notin RequestsOf(v, 1)
  BY <1>1 DEF SetupInv
<1>5. \A i \in DOMAIN script' : script'[i] \notin tables'
  <2> SUFFICES ASSUME NEW i \in 1 .. n - 1 PROVE script[i + 1] \notin tables /\ script[i + 1] # h
    BY <1>2, <1>3
  <2>1. i + 1 # 1 /\ i + 1 \in DOMAIN script
    BY <1>3
  <2> QED
    BY <1>3, <1>4, <2>1
<1>6. \A i, j \in DOMAIN script' : script'[i] = script'[j] => i = j
  <2> SUFFICES ASSUME NEW i \in 1 .. n - 1, NEW j \in 1 .. n - 1, script[i + 1] = script[j + 1]
               PROVE  i = j
    BY <1>3
  <2>1. i + 1 = j + 1
    BY <1>3, <1>4
  <2> QED
    BY <2>1
<1>7. \A i \in DOMAIN script' : \A need \in Needs(script'[i]) :
        need \in tables' \/ \E j \in 1 .. i - 1 : script'[j] = need
  <2> SUFFICES ASSUME NEW i \in 1 .. n - 1, NEW need \in Needs(script[i + 1]), need \notin tables'
               PROVE  \E j \in 1 .. i - 1 : script'[j] = need
    BY <1>3
  <2>1. PICK j \in 1 .. (i + 1) - 1 : script[j] = need
    BY <1>2, <1>3, <1>4
  <2>2. j # 1
    BY <1>2, <1>3, <2>1
  <2>3. j - 1 \in 1 .. i - 1 /\ j - 1 \in 1 .. n - 1 /\ (j - 1) + 1 = j
    BY <1>3, <2>2
  <2>4. script'[j - 1] = need
    BY <1>3, <2>1, <2>3
  <2> QED
    BY <2>3, <2>4
<1>8. \A v \in todo : RequestsOf(v, 1) \intersect tables' = {}
  BY <1>2, <1>3, <1>4
<1>9. \A v \in todo : \A i \in DOMAIN script' : script'[i] \notin RequestsOf(v, 1)
  BY <1>3, <1>4
<1> QED
  BY <1>2, <1>5, <1>6, <1>7, <1>8, <1>9 DEF SetupInv

\* On an agent with empty tables no request of the set-up is refused, whatever the VLANs
\* and the order in which main goes through their map (main.go:205-255): no key is asked
\* for twice, and a group is there before anything refers to it.
THEOREM FirstSetupAlwaysSucceeds == Spec => []FirstSetupSucceeds
<1> DEFINE FirstInv == SetupInv /\ FirstSetupSucceeds
<1>1. Init => FirstInv
  BY DEF Init, SetupInv, FirstSetupSucceeds
<1>2. Typed /\ FirstInv /\ [Next]_vars => FirstInv'
  <2> SUFFICES ASSUME Typed, FirstInv, [Next]_vars PROVE FirstInv'
    OBVIOUS
  <2>1. run \in Nat \ {0}
    BY NamesAssumption DEF Typed, TypeOK
  <2>2. CASE run' # 1
    BY <2>2 DEF SetupInv, FirstSetupSucceeds
  <2>3. CASE run' = 1
    <3>1. run = 1 /\ ~Start
      <4>1. Start => run' = run + 1
        BY DEF Start
      <4>2. (NextVlan \/ Request \/ Receive \/ Kill) => run' = run
        BY DEF NextVlan, Request, Receive, Kill
      <4>3. \A table, p, mac, ip : Arrive(table, p, mac, ip) => run' = run
        BY DEF Arrive
      <4>4. Start \/ run' = run
        BY <4>2, <4>3 DEF Next, vars
      <4> QED
        BY <2>1, <2>3, <4>1, <4>4
    <3>2. ASSUME NextVlan PROVE FirstInv'
      BY <3>1, <3>2, SetupNextVlan DEF NextVlan, FirstSetupSucceeds
    <3>3. ASSUME Request PROVE FirstInv'
      BY <3>1, <3>3, SetupRequest DEF FirstSetupSucceeds
    <3>4. ASSUME Receive \/ Kill PROVE FirstInv'
      <4>1. pc' # "setup"
        BY <3>4 DEF Receive, Learn, MakeHost, Kill, Die
      <4>2. cause' # "setup" \/ cause' = cause
        BY <3>4 DEF Receive, Learn, MakeHost, Kill, Die
      <4> QED
        BY <3>1, <4>1, <4>2 DEF SetupInv, FirstSetupSucceeds
    <3>5. ASSUME UNCHANGED <<app, tables, cause>> PROVE FirstInv'
      BY <2>3, <3>1, <3>5 DEF app, SetupInv, FirstSetupSucceeds, Needs, RequestsOf
    <3> QED
      BY <3>1, <3>2, <3>3, <3>4, <3>5 DEF Next, Arrive, agent, vars
  <2> QED
    BY <2>2, <2>3
<1> QED
  <2>1. FirstInv => FirstSetupSucceeds
    OBVIOUS
  <2> QED
    BY <1>1, <1>2, <2>1, TypedAlways, PTL DEF Spec
=============================================================================
