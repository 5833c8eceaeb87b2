-------------------------- MODULE PortNotifyProofs --------------------------
(***************************************************************************)
(* Theorems about PortNotify, for any ports and any number of calls and of *)
(* changes: the types, and that the client, once nothing is under way, was *)
(* last told the state that its port is in.  The proof follows a piece of  *)
(* news on its way: the last event queued for a port tells its state       *)
(* (EventsAreNewest), an object id names one port (OidsAreUnique), and so  *)
(* what the client heard of a port is true or news of it is still coming   *)
(* (HeardOrComing).  The provers treat Boolean variables apart from the    *)
(* others, and so do the lemmas on types.                                  *)
(***************************************************************************)
EXTENDS PortNotify, SequenceTheorems, TLAPS

\* The variables that are Boolean, or functions to BOOLEAN.
FlagsOK ==
  /\ cable \in [Ports -> BOOLEAN] /\ admin \in [Ports -> BOOLEAN]
  /\ notified \in BOOLEAN /\ bound \in BOOLEAN /\ callback \in BOOLEAN

\* The others.
ValuesOK ==
  /\ events \in Seq([port : Ports, state : States])
  /\ port_oid \in [Ports -> {0} \union Oids]
  /\ api \in [pc : {"off", "bound", "idle", "oid", "read", "report"}, port : Ports,
              oid : {0} \union Oids, state : States]
  /\ evt \in [pc : {"none", "wait", "next", "find", "report"}, port : Ports,
              oid : {0} \union Oids, state : States]
  /\ api.pc \in {"oid", "read", "report"} => api.oid # 0
  /\ evt.pc = "report" => evt.oid # 0
  /\ created \in {0} \union Oids /\ live \subseteq Oids /\ overtaken \subseteq Oids
  /\ heard \in [Oids -> States \union {"none"}]
  /\ changes \in 0 .. MaxChanges

\* TypeOK is the two of them together.
LEMMA TypeParts == TypeOK <=> FlagsOK /\ ValuesOK
  BY Zenon DEF TypeOK, FlagsOK, ValuesOK

\* A port is up or down.
LEMMA StateIsState == \A p \in Ports : State(p) \in States
  BY DEF State, States

\* A step preserves the types of the Boolean variables.
LEMMA FlagsStep == FlagsOK /\ [Next]_vars => FlagsOK'
<1> SUFFICES ASSUME FlagsOK, [Next]_vars PROVE FlagsOK'
  OBVIOUS
<1>1. ASSUME NEW p \in Ports, NEW c \in BOOLEAN, NEW a \in BOOLEAN, Announce(p, c, a)
      PROVE  /\ cable' \in [Ports -> BOOLEAN] /\ admin' \in [Ports -> BOOLEAN]
             /\ notified' \in BOOLEAN
  BY <1>1, Zenon DEF FlagsOK, Announce
<1>2. ASSUME NEW p \in Ports, CableChanges(p) \/ SetAdmin(p) PROVE FlagsOK'
  <2>1. cable[p] \in BOOLEAN /\ admin[p] \in BOOLEAN
    BY DEF FlagsOK
  <2>n. (~cable[p]) \in BOOLEAN /\ (~admin[p]) \in BOOLEAN
    OBVIOUS
  <2>2. bound' = bound /\ callback' = callback
    BY <1>2, Zenon DEF CableChanges, SetAdmin
  <2>3. Announce(p, ~cable[p], admin[p]) \/ Announce(p, cable[p], ~admin[p])
    BY <1>2, Zenon DEF CableChanges, SetAdmin
  <2> QED
    BY <1>1, <2>1, <2>n, <2>2, <2>3, Zenon DEF FlagsOK
<1>3. ASSUME NEW cb \in BOOLEAN, BindSwitch(cb) PROVE FlagsOK'
  BY <1>3, Zenon DEF FlagsOK, BindSwitch, agent
<1>4. CASE EventReceive
  BY <1>4, Zenon DEF FlagsOK, EventReceive
<1>5. CASE UNCHANGED <<cable, admin, notified, bound, callback>>
  BY <1>5, Zenon DEF FlagsOK
<1> QED
  BY <1>2, <1>3, <1>4, <1>5 DEF Next, vars, agent, ApiStep, EventStep, StartSwitch, SetOid, ReadState, ReportState,
     NextEvent, FindPort, ReportEvent, EventReceiveFails, CreatePort, RemovePort

\* A step preserves the types of the others.
LEMMA ValuesStep == ValuesOK /\ [Next]_vars => ValuesOK'
<1> SUFFICES ASSUME ValuesOK, [Next]_vars PROVE ValuesOK'
  OBVIOUS
<1> USE BoundsAssumption DEF Oids, agent, client
<1>1. ASSUME NEW p \in Ports, CableChanges(p) \/ SetAdmin(p) PROVE ValuesOK'
  <2>1. /\ UNCHANGED <<port_oid, api, evt, created, live, heard, overtaken>>
        /\ changes < MaxChanges /\ changes' = changes + 1
    BY <1>1 DEF CableChanges, SetAdmin, Announce
  <2>2. PICK st \in States :
          \/ events' = events
          \/ events' = Append(events, [port |-> p, state |-> st])
          \/ \E i \in DOMAIN events : events' = [events EXCEPT ![i] = [port |-> p, state |-> st]]
    BY <1>1 DEF CableChanges, SetAdmin, Announce, States
  <2>3. events' \in Seq([port : Ports, state : States])
    <3>1. events \in Seq([port : Ports, state : States]) /\ DOMAIN events = 1 .. Len(events)
      BY LenProperties DEF ValuesOK
    <3>2. [port |-> p, state |-> st] \in [port : Ports, state : States]
      OBVIOUS
    <3>3. CASE events' = Append(events, [port |-> p, state |-> st])
      BY <3>1, <3>2, <3>3, AppendProperties
    <3>4. ASSUME NEW i \in DOMAIN events, events' = [events EXCEPT ![i] = [port |-> p, state |-> st]]
          PROVE  events' \in Seq([port : Ports, state : States])
      BY <3>1, <3>2, <3>4, ExceptSeq
    <3> QED
      BY <2>2, <3>1, <3>3, <3>4
  <2> QED
    BY <2>1, <2>3 DEF ValuesOK
<1>2. ASSUME NEW p \in Ports, CreatePort(p) PROVE ValuesOK'
  <2>1. created + 1 \in Oids
    BY <1>2 DEF ValuesOK, CreatePort
  <2>2. api' \in [pc : {"off", "bound", "idle", "oid", "read", "report"}, port : Ports,
                  oid : {0} \union Oids, state : States] /\ api'.oid # 0
    <3>1. After("enter") = "oid"
      BY DEF After
    <3>2. PICK o \in Oids : o = created + 1 /\ o # 0
      BY <2>1
    <3>3. api' = [api EXCEPT !.pc = "oid", !.port = p, !.oid = o]
      BY <1>2, <3>1, <3>2 DEF CreatePort
    <3> QED
      BY <3>2, <3>3 DEF ValuesOK
  <2> QED
    BY <1>2, <2>1, <2>2 DEF ValuesOK, CreatePort
<1>3. ASSUME NEW p \in Ports, RemovePort(p) PROVE ValuesOK'
  BY <1>3 DEF ValuesOK, RemovePort
<1>4. ASSUME NEW cb \in BOOLEAN, BindSwitch(cb) PROVE ValuesOK'
  BY <1>4 DEF ValuesOK, BindSwitch
<1>5. CASE StartSwitch
  BY <1>5 DEF ValuesOK, StartSwitch
<1>6. CASE SetOid
  BY <1>6 DEF ValuesOK, SetOid, After
<1>7. CASE ReadState
  <2>1. State(api.port) \in States
    BY StateIsState DEF ValuesOK
  <2> QED
    BY <1>7, <2>1 DEF ValuesOK, ReadState, After
<1>8. CASE ReportState
  BY <1>8 DEF ValuesOK, ReportState, After
<1>9. CASE EventReceive \/ EventReceiveFails
  BY <1>9 DEF ValuesOK, EventReceive, EventReceiveFails
<1>10. CASE NextEvent
  <2>1. events # <<>> => /\ Head(events) \in [port : Ports, state : States]
                         /\ Tail(events) \in Seq([port : Ports, state : States])
    BY HeadTailProperties DEF ValuesOK
  <2>2. CASE events = <<>>
    BY <1>10, <2>2 DEF ValuesOK, NextEvent
  <2>3. CASE events # <<>>
    <3>1. Head(events).port \in Ports /\ Head(events).state \in States
      BY <2>1, <2>3
    <3>2. /\ evt' = [evt EXCEPT !.pc = "find", !.port = Head(events).port,
                                !.state = Head(events).state]
          /\ events' = Tail(events)
      BY <1>10, <2>3 DEF NextEvent
    <3>3. evt' \in [pc : {"none", "wait", "next", "find", "report"}, port : Ports,
                    oid : {0} \union Oids, state : States] /\ evt'.pc = "find"
      BY <3>1, <3>2 DEF ValuesOK
    <3> QED
      BY <1>10, <2>1, <2>3, <3>2, <3>3 DEF ValuesOK, NextEvent
  <2> QED
    BY <2>2, <2>3
<1>11. CASE FindPort
  BY <1>11 DEF ValuesOK, FindPort, IsReported
<1>12. CASE ReportEvent
  BY <1>12 DEF ValuesOK, ReportEvent, AfterEvent
<1>13. CASE UNCHANGED vars
  BY <1>13 DEF ValuesOK, vars
<1> QED
  BY <1>1, <1>2, <1>3, <1>4, <1>5, <1>6, <1>7, <1>8, <1>9, <1>10, <1>11, <1>12, <1>13
     DEF Next, ApiStep, EventStep
\* The types hold throughout; a thread that is about to call the client back has an
\* object id to report (sai.c:995-1004, 1364-1385).
THEOREM TypeCorrect == Spec => []TypeOK
<1>1. Init => TypeOK
  <2>1. Init => FlagsOK
    <3>1. \A p \in Ports : TRUE \in BOOLEAN
      OBVIOUS
    <3> QED
      BY Zenon DEF Init, FlagsOK
  <2>2. Init => ValuesOK
    BY BoundsAssumption DEF Init, ValuesOK, NewThread, Oids, States
  <2> QED
    BY <2>1, <2>2, TypeParts
<1>2. TypeOK /\ [Next]_vars => TypeOK'
  <2>1. FlagsOK' /\ ValuesOK' => TypeOK'
    BY Zenon DEF TypeOK, FlagsOK, ValuesOK
  <2> QED
    BY <2>1, FlagsStep, ValuesStep, TypeParts
<1> QED
  BY <1>1, <1>2, PTL DEF Spec

-----------------------------------------------------------------------------
(* The queue of the agent.                                                 *)

Queued(p) == \E i \in DOMAIN events : events[i].port = p

\* What is queued last of a port, or else what the event thread has in hand, is the
\* state that the port is in; before the socket is bound nothing is queued.
EventsAreNewest ==
  /\ ~bound => events = <<>> /\ evt.pc = "none" /\ api.pc = "off"
  /\ \A p \in Ports : \A i \in DOMAIN events : IsLastOf(p, i) => events[i].state = State(p)
  /\ evt.pc \in {"find", "report"} /\ ~Queued(evt.port) => evt.state = State(evt.port)

\* What a change of port p does to the states and to the queue.
LEMMA AnnounceEffect ==
  ASSUME TypeOK, NEW p \in Ports, CableChanges(p) \/ SetAdmin(p)
  PROVE  /\ \A q \in Ports \ {p} : State(q)' = State(q)
         /\ UNCHANGED <<bound, callback, port_oid, api, evt, client>>
         /\ \/ events' = events /\ (~bound \/ State(p)' = State(p))
            \/ bound /\ events' = Append(events, [port |-> p, state |-> State(p)'])
            \/ bound /\ \E i \in DOMAIN events :
                 /\ IsLastOf(p, i)
                 /\ events' = [events EXCEPT ![i] = [port |-> p, state |-> State(p)']]
<1>1. PICK c \in BOOLEAN, a \in BOOLEAN : Announce(p, c, a)
  <2>1. cable[p] \in BOOLEAN /\ admin[p] \in BOOLEAN
    BY DEF TypeOK
  <2>n. (~cable[p]) \in BOOLEAN /\ (~admin[p]) \in BOOLEAN
    OBVIOUS
  <2> QED
    BY <2>1, <2>n, Zenon DEF CableChanges, SetAdmin
<1>2. cable' = [cable EXCEPT ![p] = c] /\ admin' = [admin EXCEPT ![p] = a]
  BY <1>1, Zenon DEF Announce
<1>3. cable \in [Ports -> BOOLEAN] /\ admin \in [Ports -> BOOLEAN]
  BY Zenon DEF TypeOK
<1>4. cable'[p] = c /\ admin'[p] = a
  BY <1>2, <1>3, Zenon
<1>5. \A q \in Ports \ {p} : cable'[q] = cable[q] /\ admin'[q] = admin[q]
  BY <1>2, <1>3
<1>6. State(p)' = IF c /\ a THEN "up" ELSE "down"
  BY <1>4, Zenon DEF State
<1>7. \A q \in Ports \ {p} : State(q)' = State(q)
  BY <1>5, Zenon DEF State
<1>8. \/ events' = events /\ (~bound \/ State(p)' = State(p))
      \/ bound /\ events' = Append(events, [port |-> p, state |-> State(p)'])
      \/ bound /\ \E i \in DOMAIN events :
                 /\ IsLastOf(p, i)
                 /\ events' = [events EXCEPT ![i] = [port |-> p, state |-> State(p)']]
  BY <1>1, <1>6, Zenon DEF Announce
<1>9. UNCHANGED <<bound, callback, port_oid, api, evt, client>>
  BY Zenon DEF CableChanges, SetAdmin
<1> QED
  BY <1>7, <1>8, <1>9

\* Every action but a change leaves the states of the ports alone.
LEMMA StateKept ==
  ASSUME UNCHANGED <<cable, admin>> PROVE \A p \in Ports : State(p)' = State(p)
  BY Zenon DEF State

\* The queue keeps the places of its events but for those named.
LEMMA QueueFacts ==
  ASSUME TypeOK
  PROVE  /\ events \in Seq([port : Ports, state : States])
         /\ Len(events) \in Nat /\ DOMAIN events = 1 .. Len(events)
         /\ \A i \in DOMAIN events : events[i].port \in Ports /\ events[i].state \in States
<1>1. events \in Seq([port : Ports, state : States])
  BY DEF TypeOK
<1>2. Len(events) \in Nat /\ DOMAIN events = 1 .. Len(events)
  BY <1>1, LenProperties
<1>3. \A i \in DOMAIN events : events[i] \in [port : Ports, state : States]
  BY <1>1, <1>2, ElementOfSeq
<1> QED
  BY <1>1, <1>2, <1>3

\* A step preserves EventsAreNewest.
LEMMA NewestStep == TypeOK /\ EventsAreNewest /\ [Next]_vars => EventsAreNewest'
<1> SUFFICES ASSUME TypeOK, EventsAreNewest, [Next]_vars PROVE EventsAreNewest'
  OBVIOUS
<1>q. /\ events \in Seq([port : Ports, state : States])
      /\ Len(events) \in Nat /\ DOMAIN events = 1 .. Len(events)
      /\ \A i \in DOMAIN events : events[i].port \in Ports /\ events[i].state \in States
  BY QueueFacts
<1>t. /\ evt \in [pc : {"none", "wait", "next", "find", "report"}, port : Ports,
                  oid : {0} \union Oids, state : States]
  BY DEF TypeOK
<1>n. \A p \in Ports : \A i \in DOMAIN events : IsLastOf(p, i) => events[i].state = State(p)
  BY DEF EventsAreNewest
<1>1. ASSUME NEW p \in Ports, CableChanges(p) \/ SetAdmin(p) PROVE EventsAreNewest'
  <2>1. /\ \A q \in Ports \ {p} : State(q)' = State(q)
        /\ UNCHANGED <<bound, callback, port_oid, api, evt, client>>
    BY <1>1, AnnounceEffect
  <2>2. CASE events' = events /\ State(p)' = State(p)
    <3>1. \A q \in Ports : State(q)' = State(q)
      BY <2>1, <2>2
    <3>2. \A q \in Ports : \A i \in DOMAIN events' : IsLastOf(q, i)' => events'[i].state = State(q)'
      BY <3>1, <2>2, <1>n DEF IsLastOf
    <3>3. evt'.pc \in {"find", "report"} /\ ~Queued(evt.port)' => evt'.state = State(evt.port)'
      BY <3>1, <2>1, <2>2, <1>t DEF EventsAreNewest, Queued
    <3> QED
      BY <2>1, <2>2, <3>2, <3>3, Zenon DEF EventsAreNewest
  <2>3. CASE events' = events /\ ~bound
    <3>1. events = <<>> /\ evt.pc = "none" /\ api.pc = "off" /\ DOMAIN events' = {}
      BY <2>3, <1>q DEF EventsAreNewest
    <3>2. evt' = evt /\ events' = events /\ api' = api
      BY <2>1, <2>3
    <3> QED
      BY <3>1, <3>2 DEF EventsAreNewest
  <2>4. CASE bound /\ events' = Append(events, [port |-> p, state |-> State(p)'])
    <3> DEFINE new == [port |-> p, state |-> State(p)']
    <3>1. State(p)' \in States
      BY DEF State, States
    <3>2. new \in [port : Ports, state : States]
      BY <3>1
    <3>3. /\ DOMAIN events' = 1 .. Len(events) + 1
          /\ \A i \in 1 .. Len(events) : events'[i] = events[i]
          /\ events'[Len(events) + 1] = new
      <4>1. Append(events, new) \in Seq([port : Ports, state : States])
            /\ Len(Append(events, new)) = Len(events) + 1
        BY <3>2, <1>q, AppendProperties
      <4> QED
        BY <4>1, <3>2, <1>q, <2>4, AppendProperties, LenProperties
    <3>4. ASSUME NEW q \in Ports, NEW i \in DOMAIN events', IsLastOf(q, i)'
          PROVE  events'[i].state = State(q)'
      <4>1. CASE q = p
        <5>1. i = Len(events) + 1
          BY <4>1, <3>3, <3>4, <1>q DEF IsLastOf
        <5> QED
          BY <5>1, <4>1, <3>3
      <4>2. CASE q # p
        <5>1. i # Len(events) + 1
          BY <4>2, <3>3, <3>4 DEF IsLastOf
        <5>2. i \in DOMAIN events /\ events'[i] = events[i]
          BY <5>1, <3>3, <1>q
        <5>3. IsLastOf(q, i)
          BY <5>2, <3>3, <3>4, <1>q DEF IsLastOf
        <5> QED
          BY <5>2, <5>3, <4>2, <2>1, <1>n
      <4> QED
        BY <4>1, <4>2
    <3>5. Queued(p)' /\ \A q \in Ports : Queued(q) => Queued(q)'
      BY <3>3, <1>q DEF Queued
    <3>6. evt'.pc \in {"find", "report"} /\ ~Queued(evt.port)' => evt'.state = State(evt.port)'
      BY <3>5, <2>1, <1>t DEF EventsAreNewest
    <3> QED
      BY <2>1, <2>4, <3>4, <3>6, Zenon DEF EventsAreNewest
  <2>5. ASSUME bound, NEW n \in DOMAIN events, IsLastOf(p, n),
               events' = [events EXCEPT ![n] = [port |-> p, state |-> State(p)']]
        PROVE  EventsAreNewest'
    <3>1. /\ DOMAIN events' = DOMAIN events
          /\ \A i \in DOMAIN events : i # n => events'[i] = events[i]
          /\ events'[n] = [port |-> p, state |-> State(p)']
      BY <2>5, <1>q
    <3>2. \A i \in DOMAIN events : events'[i].port = events[i].port
      BY <3>1, <2>5 DEF IsLastOf
    <3>3. ASSUME NEW q \in Ports, NEW i \in DOMAIN events', IsLastOf(q, i)'
          PROVE  events'[i].state = State(q)'
      <4>1. IsLastOf(q, i)
        BY <3>1, <3>2, <3>3 DEF IsLastOf
      <4>2. CASE q = p
        <5>1. i = n
          BY <4>1, <4>2, <3>1, <2>5, <1>q DEF IsLastOf
        <5> QED
          BY <5>1, <4>2, <3>1
      <4>3. CASE q # p
        <5>1. i # n
          BY <4>1, <4>3, <2>5 DEF IsLastOf
        <5> QED
          BY <5>1, <4>1, <4>3, <3>1, <2>1, <1>n
      <4> QED
        BY <4>2, <4>3
    <3>4. Queued(p)' /\ \A q \in Ports : Queued(q) => Queued(q)'
      BY <3>1, <3>2, <2>5 DEF Queued, IsLastOf
    <3>5. evt'.pc \in {"find", "report"} /\ ~Queued(evt.port)' => evt'.state = State(evt.port)'
      BY <3>4, <2>1, <1>t DEF EventsAreNewest
    <3> QED
      BY <2>1, <2>5, <3>3, <3>5, Zenon DEF EventsAreNewest
  <2> QED
    BY <1>1, <2>2, <2>3, <2>4, <2>5, AnnounceEffect
<1>s. UNCHANGED <<cable, admin>> => \A p \in Ports : State(p)' = State(p)
  BY StateKept
<1>2. CASE NextEvent
  <2>1. /\ \A p \in Ports : State(p)' = State(p)
        /\ evt.pc = "next" /\ UNCHANGED <<bound, api>>
    BY <1>2, <1>s, Zenon DEF NextEvent
  <2>b. bound
    BY <2>1 DEF EventsAreNewest
  <2>2. CASE events = <<>>
    <3>1. events' = events /\ evt' = [evt EXCEPT !.pc = "wait"]
      BY <1>2, <2>2 DEF NextEvent
    <3>2. evt'.pc = "wait"
      BY <3>1, <1>t
    <3>3. \A q \in Ports : \A i \in DOMAIN events' : IsLastOf(q, i)' => events'[i].state = State(q)'
      BY <3>1, <2>1, <1>n DEF IsLastOf
    <3> QED
      BY <2>1, <2>b, <3>2, <3>3, Zenon DEF EventsAreNewest
  <2>3. CASE events # <<>>
    <3>1. /\ events' = Tail(events)
          /\ evt' = [evt EXCEPT !.pc = "find", !.port = Head(events).port,
                                !.state = Head(events).state]
      BY <1>2, <2>3 DEF NextEvent
    <3>2. /\ Head(events) = events[1] /\ 1 \in DOMAIN events
          /\ Len(events') = Len(events) - 1 /\ DOMAIN events' = 1 .. Len(events) - 1
          /\ \A i \in DOMAIN events' : events'[i] = events[i + 1] /\ i + 1 \in DOMAIN events
      BY <3>1, <2>3, <1>q, HeadTailProperties, LenProperties, EmptySeq
    <3>3. /\ evt'.port = events[1].port /\ evt'.state = events[1].state
          /\ events[1].port \in Ports
      BY <3>1, <3>2, <1>t, <1>q
    <3>4. ASSUME NEW q \in Ports, NEW i \in DOMAIN events', IsLastOf(q, i)'
          PROVE  events'[i].state = State(q)'
      <4>1. i + 1 \in DOMAIN events /\ events'[i] = events[i + 1]
        BY <3>2
      <4>2. ASSUME NEW j \in DOMAIN events, j > i + 1 PROVE events[j].port # q
        <5>1. j - 1 \in DOMAIN events' /\ events'[j - 1] = events[j] /\ j - 1 > i
          BY <4>1, <4>2, <3>2, <1>q
        <5> QED
          BY <5>1, <3>4 DEF IsLastOf
      <4>3. IsLastOf(q, i + 1)
        BY <4>1, <4>2, <3>4 DEF IsLastOf
      <4> QED
        BY <4>1, <4>3, <2>1, <1>n
    <3>5. ~Queued(evt.port)' => IsLastOf(evt'.port, 1)
      <4> SUFFICES ASSUME ~Queued(evt.port)', NEW j \in DOMAIN events, j > 1
                   PROVE  events[j].port # evt'.port
        BY <3>3 DEF IsLastOf
      <4>1. j - 1 \in DOMAIN events' /\ events'[j - 1] = events[j]
        BY <3>2, <1>q
      <4> QED
        BY <4>1 DEF Queued
    <3>6. ~Queued(evt.port)' => evt'.state = State(evt.port)'
      BY <3>2, <3>3, <3>5, <2>1, <1>n
    <3> QED
      BY <2>1, <2>b, <3>4, <3>6, Zenon DEF EventsAreNewest
  <2> QED
    BY <2>2, <2>3
\* The other steps keep the queue, and the event that the event thread has in hand.
<1>3. ASSUME UNCHANGED <<cable, admin, events>>, bound => bound',
             bound \/ bound' \/ UNCHANGED <<evt, api>>, 
             evt'.pc \in {"find", "report"} =>
               evt.pc \in {"find", "report"} /\ evt'.port = evt.port /\ evt'.state = evt.state
      PROVE  EventsAreNewest'
  <2>1. \A p \in Ports : State(p)' = State(p)
    BY <1>3, <1>s
  <2>2. \A q \in Ports : \A i \in DOMAIN events' : IsLastOf(q, i)' => events'[i].state = State(q)'
    BY <1>3, <2>1, <1>n DEF IsLastOf
  <2>3. evt'.pc \in {"find", "report"} /\ ~Queued(evt.port)' => evt'.state = State(evt.port)'
    BY <1>3, <2>1, <1>t DEF EventsAreNewest, Queued
  <2>4. ~bound' => events' = <<>> /\ evt'.pc = "none" /\ api'.pc = "off"
    BY <1>3 DEF EventsAreNewest
  <2> QED
    BY <2>2, <2>3, <2>4, Zenon DEF EventsAreNewest
<1>4. ASSUME NEW cb \in BOOLEAN, BindSwitch(cb) PROVE EventsAreNewest'
  <2>1. UNCHANGED <<cable, admin, events, evt>> /\ bound'
    BY <1>4, Zenon DEF BindSwitch, agent
  <2> QED
    BY <2>1, <1>3
<1>5. CASE StartSwitch
  <2>1. UNCHANGED <<cable, admin, events, bound>> /\ api.pc = "bound"
    BY <1>5, Zenon DEF StartSwitch, agent
  <2>2. bound /\ evt'.pc \notin {"find", "report"}
    <3>1. evt'.pc \in {"wait", "none"}
      BY <1>5, <1>t DEF StartSwitch
    <3> QED
      BY <2>1, <3>1 DEF EventsAreNewest
  <2> QED
    BY <2>1, <2>2, <1>3
<1>6. ASSUME NEW p \in Ports,
             SetOid \/ ReadState \/ ReportState \/ CreatePort(p) \/ RemovePort(p)
      PROVE  EventsAreNewest'
  <2>1. UNCHANGED <<cable, admin, events, bound, evt>> /\ api.pc # "off"
    BY <1>6, Zenon DEF SetOid, ReadState, ReportState, CreatePort, RemovePort, agent
  <2>2. bound
    BY <2>1 DEF EventsAreNewest
  <2> QED
    BY <2>1, <2>2, <1>3
<1>7. CASE EventReceive \/ EventReceiveFails \/ ReportEvent
  <2>1. UNCHANGED <<cable, admin, events, bound, api>> /\ evt.pc # "none"
    BY <1>7, Zenon DEF EventReceive, EventReceiveFails, ReportEvent, agent
  <2>2. evt'.pc \in {"next", "none"}
    BY <1>7, <1>t DEF EventReceive, EventReceiveFails, ReportEvent, AfterEvent
  <2>3. bound
    BY <2>1 DEF EventsAreNewest
  <2> QED
    BY <2>1, <2>2, <2>3, <1>3
<1>8. CASE FindPort
  <2>1. UNCHANGED <<cable, admin, events, bound, api>> /\ evt.pc = "find"
    BY <1>8, Zenon DEF FindPort, agent
  <2>2. evt'.port = evt.port /\ evt'.state = evt.state
    BY <1>8, <1>t DEF FindPort
  <2>3. bound
    BY <2>1 DEF EventsAreNewest
  <2> QED
    BY <2>1, <2>2, <2>3, <1>3
<1>9. CASE UNCHANGED vars
  <2>1. UNCHANGED <<cable, admin, events, bound, evt, api>>
    BY <1>9, Zenon DEF vars, agent
  <2> QED
    BY <2>1, <1>3
<1> QED
  BY <1>1, <1>2, <1>4, <1>5, <1>6, <1>7, <1>8, <1>9, <1>t DEF Next, ApiStep, EventStep

-----------------------------------------------------------------------------
(* Object ids.                                                             *)

\* An object id was given to one port only, and the event thread reports to an id what
\* belongs to its port; the id that create_port is giving is not in use yet.
OidsAreUnique ==
  /\ \A p, q \in Ports : port_oid[p] = port_oid[q] /\ port_oid[p] # 0 => p = q
  /\ \A p \in Ports : port_oid[p] <= created
  /\ \A o \in live : o <= created
  /\ api.oid <= created
  /\ evt.pc = "report" =>
       evt.oid <= created /\ \A p \in Ports : evt.oid = port_oid[p] => evt.port = p
  /\ api.pc \in {"off", "bound"} => live = {}
  /\ api.pc = "oid" => /\ api.oid \notin live
                       /\ \A p \in Ports : port_oid[p] # api.oid
                       /\ evt.pc = "report" => evt.oid # api.oid
  /\ api.pc = "oid" => port_oid[api.port] \notin live
  /\ api.pc \in {"read", "report"} => port_oid[api.port] = api.oid /\ api.oid \notin live

\* A step preserves OidsAreUnique.
LEMMA OidsStep == TypeOK /\ OidsAreUnique /\ [Next]_vars => OidsAreUnique'
<1> SUFFICES ASSUME TypeOK, OidsAreUnique, [Next]_vars PROVE OidsAreUnique'
  OBVIOUS
<1> USE DEF OidsAreUnique, client
<1>t. /\ port_oid \in [Ports -> {0} \union Oids]
      /\ api \in [pc : {"off", "bound", "idle", "oid", "read", "report"}, port : Ports,
              oid : {0} \union Oids, state : States]
      /\ evt \in [pc : {"none", "wait", "next", "find", "report"}, port : Ports,
              oid : {0} \union Oids, state : States]
      /\ api.pc \in {"oid", "read", "report"} => api.oid # 0
      /\ evt.pc = "report" => evt.oid # 0
      /\ created \in Nat /\ live \subseteq Nat
      /\ {0} \union Oids \subseteq Nat
  BY BoundsAssumption DEF TypeOK, Oids
<1>1. ASSUME NEW p \in Ports, CreatePort(p) PROVE OidsAreUnique'
  <2>1. After("enter") = "oid"
    BY DEF After
  <2>2. /\ api'.pc = "oid" /\ api'.port = p /\ api'.oid = created + 1 /\ created' = created + 1
        /\ UNCHANGED <<port_oid, evt, live>> /\ port_oid[p] \notin live
    BY <1>1, <2>1, <1>t DEF CreatePort
  <2>3. \A n \in Nat : n <= created => n <= created + 1 /\ n # created + 1
    BY <1>t
  <2> QED
    BY <2>2, <2>3, <1>t
<1>2. CASE SetOid
  <2>1. /\ api.pc = "oid" /\ port_oid' = [port_oid EXCEPT ![api.port] = api.oid]
        /\ UNCHANGED <<created, evt>> /\ api'.oid = api.oid /\ api'.port = api.port
        /\ \/ api'.pc = "read" /\ live' = live
           \/ api'.pc = "idle" /\ live' = live \union {api.oid}
    BY <1>2, <1>t DEF SetOid, After
  <2>2. port_oid'[api.port] = api.oid /\ \A p \in Ports \ {api.port} : port_oid'[p] = port_oid[p]
    BY <2>1, <1>t
  <2> QED
    BY <2>1, <2>2, <1>t
<1>3. CASE ReadState
  BY <1>3, <1>t DEF ReadState, After
<1>4. CASE ReportState
  BY <1>4, <1>t DEF ReportState, After
<1>5. CASE FindPort
  <2>1. /\ UNCHANGED <<port_oid, api, created, live>> /\ evt.pc = "find"
        /\ \/ evt'.pc = "next"
           \/ evt'.pc = "report" /\ evt'.port = evt.port /\ evt'.oid = port_oid[evt.port] /\ evt'.oid # 0
    BY <1>5, <1>t DEF FindPort, IsReported
  <2> QED
    BY <2>1, <1>t
<1>6. ASSUME NEW p \in Ports, RemovePort(p) PROVE OidsAreUnique'
  BY <1>6, <1>t DEF RemovePort
<1>7. ASSUME NEW cb \in BOOLEAN, BindSwitch(cb) PROVE OidsAreUnique'
  BY <1>7, <1>t DEF BindSwitch
<1>8. CASE StartSwitch
  BY <1>8, <1>t DEF StartSwitch
<1>9. CASE EventReceive \/ EventReceiveFails \/ NextEvent \/ ReportEvent
  <2>1. UNCHANGED <<port_oid, api, created, live>> /\ evt'.pc # "report"
    BY <1>9, <1>t DEF EventReceive, EventReceiveFails, NextEvent, ReportEvent, AfterEvent
  <2> QED
    BY <2>1
<1>10. CASE UNCHANGED <<port_oid, api, created, live, evt>>
  BY <1>10
<1> QED
  BY <1>1, <1>2, <1>3, <1>4, <1>5, <1>6, <1>7, <1>8, <1>9, <1>10
    DEF Next, ApiStep, EventStep, vars, CableChanges, SetAdmin

-----------------------------------------------------------------------------
(* What the client was told.                                               *)

\* The event thread has still something to say of port p, whose object id is o.
Coming(p, o) ==
  \/ Queued(p)
  \/ evt.pc = "find" /\ evt.port = p
  \/ evt.pc = "report" /\ evt.port = p /\ evt.oid = o

\* What create_port has read, and what the client was last told, is true unless it was
\* overtaken or the event thread has still something to say.
HeardOrComing ==
  /\ api.pc \in {"read", "report"} => callback
  /\ api.pc = "report" =>
       \/ api.state = State(api.port) \/ api.oid \in overtaken \/ Coming(api.port, api.oid)
  /\ \A p \in Ports : Watched(p) =>
       \/ heard[port_oid[p]] = State(p) \/ port_oid[p] \in overtaken \/ Coming(p, port_oid[p])

\* A change is news for the event thread, unless the port is as it was before.
LEMMA ChangeIsQueued ==
  ASSUME TypeOK, NEW p \in Ports, CableChanges(p) \/ SetAdmin(p)
  PROVE  /\ \A q \in Ports : Queued(q) => Queued(q)'
         /\ bound => Queued(p)' \/ State(p)' = State(p)
<1>q. /\ events \in Seq([port : Ports, state : States])
      /\ Len(events) \in Nat /\ DOMAIN events = 1 .. Len(events)
      /\ \A i \in DOMAIN events : events[i].port \in Ports /\ events[i].state \in States
  BY QueueFacts
<1>1. CASE events' = events /\ (~bound \/ State(p)' = State(p))
  BY <1>1 DEF Queued
<1>2. CASE events' = Append(events, [port |-> p, state |-> State(p)'])
  <2> DEFINE new == [port |-> p, state |-> State(p)']
  <2>1. State(p)' \in States
    BY DEF State, States
  <2>2. new \in [port : Ports, state : States]
    BY <2>1
  <2>3. /\ Append(events, new) \in Seq([port : Ports, state : States])
        /\ Len(Append(events, new)) = Len(events) + 1
        /\ \A i \in 1 .. Len(events) : Append(events, new)[i] = events[i]
        /\ Append(events, new)[Len(events) + 1] = new
    BY <2>2, <1>q, AppendProperties
  <2>4. DOMAIN Append(events, new) = 1 .. Len(events) + 1
    BY <2>3, LenProperties
  <2> QED
    BY <2>3, <2>4, <1>2, <1>q DEF Queued
<1>3. ASSUME NEW n \in DOMAIN events, IsLastOf(p, n),
             events' = [events EXCEPT ![n] = [port |-> p, state |-> State(p)']]
      PROVE  /\ \A q \in Ports : Queued(q) => Queued(q)'
             /\ bound => Queued(p)' \/ State(p)' = State(p)
  BY <1>3, <1>q DEF Queued, IsLastOf
<1> QED
  BY <1>1, <1>2, <1>3, AnnounceEffect

\* A step preserves HeardOrComing.
LEMMA HeardStep ==
  TypeOK /\ EventsAreNewest /\ OidsAreUnique /\ HeardOrComing /\ [Next]_vars => HeardOrComing'
<1> SUFFICES ASSUME TypeOK, EventsAreNewest, OidsAreUnique, HeardOrComing, [Next]_vars
             PROVE  HeardOrComing'
  OBVIOUS
<1> USE DEF client
<1>t. /\ port_oid \in [Ports -> {0} \union Oids]
      /\ api \in [pc : {"off", "bound", "idle", "oid", "read", "report"}, port : Ports,
              oid : {0} \union Oids, state : States]
      /\ evt \in [pc : {"none", "wait", "next", "find", "report"}, port : Ports,
              oid : {0} \union Oids, state : States]
      /\ api.pc \in {"oid", "read", "report"} => api.oid # 0
      /\ evt.pc = "report" => evt.oid # 0
      /\ live \subseteq Oids /\ heard \in [Oids -> States \union {"none"}] /\ 0 \notin Oids
  BY BoundsAssumption DEF TypeOK, Oids
<1>s. UNCHANGED <<cable, admin>> => \A p \in Ports : State(p)' = State(p)
  BY StateKept
<1>c. api.pc \in {"read", "report"} => callback
  BY Zenon DEF HeardOrComing
<1>h. /\ api.pc = "report" =>
         \/ api.state = State(api.port) \/ api.oid \in overtaken \/ Coming(api.port, api.oid)
      /\ \A p \in Ports : Watched(p) =>
         \/ heard[port_oid[p]] = State(p) \/ port_oid[p] \in overtaken \/ Coming(p, port_oid[p])
  BY Zenon DEF HeardOrComing
<1>w. \A p \in Ports : Watched(p) => port_oid[p] \in live /\ port_oid[p] # 0 /\ callback
  BY <1>t, Zenon DEF Watched
<1>1. ASSUME NEW p \in Ports, CableChanges(p) \/ SetAdmin(p) PROVE HeardOrComing'
  <2>1. /\ \A q \in Ports \ {p} : State(q)' = State(q)
        /\ UNCHANGED <<bound, callback, port_oid, api, evt, live, heard, overtaken>>
    BY <1>1, AnnounceEffect
  <2>2. /\ \A q \in Ports : Queued(q) => Queued(q)'
        /\ bound => Queued(p)' \/ State(p)' = State(p)
    BY <1>1, ChangeIsQueued
  <2>3. \A q \in Ports, o \in Oids : Coming(q, o) => Coming(q, o)'
    BY <2>1, <2>2 DEF Coming
  <2>4. bound => \A o \in Oids : Coming(p, o)' \/ State(p)' = State(p)
    BY <2>2 DEF Coming
  <2>5. api.pc \in {"read", "report"} => callback'
    BY <2>1, <1>c, Zenon
  <2>6. api.pc = "report" =>
         \/ api.state = State(api.port)' \/ api.oid \in overtaken \/ Coming(api.port, api.oid)'
    BY <2>1, <2>3, <2>4, <1>h, <1>t DEF EventsAreNewest
  <2>7. ASSUME NEW q \in Ports, Watched(q)'
        PROVE  \/ heard[port_oid[q]] = State(q)' \/ port_oid[q] \in overtaken
               \/ Coming(q, port_oid[q])'
    <3>1. Watched(q)
      BY <2>1, <2>7, Zenon DEF Watched
    <3>2. bound /\ port_oid[q] \in Oids
      <4>1. api.pc # "off"
        BY <3>1, <1>w DEF OidsAreUnique
      <4> QED
        BY <4>1, <3>1, <1>w, <1>t DEF EventsAreNewest
    <3> QED
      BY <3>1, <3>2, <2>1, <2>3, <2>4, <1>h
  <2> QED
    BY <2>1, <2>5, <2>6, <2>7 DEF HeardOrComing
<1>2. ASSUME NEW p \in Ports, CreatePort(p) \/ RemovePort(p) PROVE HeardOrComing'
  <2>1. /\ UNCHANGED <<cable, admin, events, callback, port_oid, evt, heard, overtaken>>
        /\ live' \subseteq live
    BY <1>2, Zenon DEF CreatePort, RemovePort, agent
  <2>2. api'.pc \notin {"read", "report"}
    BY <1>2, <1>t DEF CreatePort, RemovePort, After
  <2>3. \A q \in Ports : State(q)' = State(q)
    BY <2>1, <1>s
  <2>4. \A q \in Ports : \A o \in Oids : Coming(q, o) => Coming(q, o)'
    BY <2>1 DEF Coming, Queued
  <2>5. \A q \in Ports : Watched(q)' => Watched(q)
    BY <2>1, Zenon DEF Watched
  <2>6. ASSUME NEW q \in Ports, Watched(q)'
        PROVE  \/ heard'[port_oid'[q]] = State(q)' \/ port_oid'[q] \in overtaken'
               \/ Coming(q, port_oid[q])'
    <3>1. Watched(q) /\ port_oid[q] \in Oids
      BY <2>5, <2>6, <1>w, <1>t
    <3> QED
      BY <3>1, <2>1, <2>3, <2>4, <1>h DEF Coming, Queued
  <2> QED
    BY <2>2, <2>6 DEF HeardOrComing
<1>3. ASSUME NEW cb \in BOOLEAN, BindSwitch(cb) PROVE HeardOrComing'
  <2>1. api.pc = "off" /\ UNCHANGED live
    BY <1>3, Zenon DEF BindSwitch
  <2>2. live' = {} /\ api'.pc = "bound"
    BY <1>3, <2>1, <1>t DEF BindSwitch, OidsAreUnique
  <2>3. \A q \in Ports : ~Watched(q)'
    BY <2>2, Zenon DEF Watched
  <2> QED
    BY <2>2, <2>3 DEF HeardOrComing
<1>4. CASE StartSwitch
  <2>1. api.pc = "bound" /\ UNCHANGED live
    BY <1>4, Zenon DEF StartSwitch
  <2>2. live' = {} /\ api'.pc = "idle"
    BY <1>4, <2>1, <1>t DEF StartSwitch, OidsAreUnique
  <2>3. \A q \in Ports : ~Watched(q)'
    BY <2>2, Zenon DEF Watched
  <2> QED
    BY <2>2, <2>3 DEF HeardOrComing
<1>5. CASE SetOid
  <2>1. /\ UNCHANGED <<cable, admin, events, callback, evt, heard, overtaken>>
        /\ api.pc = "oid" /\ port_oid' = [port_oid EXCEPT ![api.port] = api.oid]
        /\ \/ callback /\ live' = live
           \/ ~callback
    BY <1>5, Zenon DEF SetOid, agent
  <2>2. api'.pc # "report" /\ (api'.pc = "read" => callback)
    <3>1. CASE callback
      BY <1>5, <3>1, <1>t DEF SetOid, After
    <3>2. CASE ~callback
      <4>1. api' = [api EXCEPT !.pc = "idle"]
        BY <1>5, <3>2 DEF SetOid
      <4> QED
        BY <4>1, <1>t
    <3> QED
      BY <3>1, <3>2
  <2>3. ASSUME NEW q \in Ports, Watched(q)'
        PROVE  /\ Watched(q) /\ port_oid'[q] = port_oid[q]
    <3>1. callback /\ live' = live /\ port_oid'[q] \in live
      BY <2>1, <2>3, Zenon DEF Watched
    <3>2. q # api.port
      BY <3>1, <2>1, <1>t DEF OidsAreUnique
    <3>3. port_oid'[q] = port_oid[q]
      BY <3>2, <2>1, <1>t
    <3> QED
      BY <3>1, <3>3, Zenon DEF Watched
  <2>4. \A q \in Ports : State(q)' = State(q)
    BY <2>1, <1>s
  <2>5. \A q \in Ports : \A o \in Oids : Coming(q, o) => Coming(q, o)'
    BY <2>1 DEF Coming, Queued
  <2>6. ASSUME NEW q \in Ports, Watched(q)'
        PROVE  \/ heard'[port_oid'[q]] = State(q)' \/ port_oid'[q] \in overtaken'
               \/ Coming(q, port_oid[q])'
    <3>1. Watched(q) /\ port_oid'[q] = port_oid[q] /\ port_oid[q] \in Oids
      BY <2>3, <2>6, <1>w, <1>t
    <3> QED
      BY <3>1, <2>1, <2>4, <1>h DEF Coming, Queued
  <2>7. api'.pc \in {"read", "report"} => callback'
    BY <2>1, <2>2, Zenon
  <2> QED
    BY <2>2, <2>6, <2>7 DEF HeardOrComing
<1>6. CASE ReadState
  <2>1. UNCHANGED <<cable, admin, events, callback, port_oid, evt, live, heard, overtaken>>
        /\ api.pc = "read"
    BY <1>6, Zenon DEF ReadState, agent
  <2>2. /\ api'.pc \in {"report", "idle"}
        /\ api'.pc = "report" => api'.state = State(api.port) /\ api'.port = api.port
    BY <1>6, <1>t DEF ReadState, After
  <2>3. \A q \in Ports : State(q)' = State(q)
    BY <2>1, <1>s
  <2>4. api'.pc = "report" => api'.state = State(api.port)'
    BY <2>2, <2>3, <1>t
  <2>5. \A q \in Ports : Watched(q)' => Watched(q)
    BY <2>1, Zenon DEF Watched
  <2>6. ASSUME NEW q \in Ports, Watched(q)'
        PROVE  \/ heard'[port_oid'[q]] = State(q)' \/ port_oid'[q] \in overtaken'
               \/ Coming(q, port_oid[q])'
    BY <2>1, <2>3, <2>5, <2>6, <1>h DEF Coming, Queued
  <2>7. api'.pc \in {"read", "report"} => callback'
    BY <2>1, <1>c, Zenon
  <2> QED
    BY <2>2, <2>4, <2>6, <2>7 DEF HeardOrComing
<1>7. CASE ReportState
  <2>1. /\ UNCHANGED <<cable, admin, events, callback, port_oid, evt, overtaken>>
        /\ api.pc = "report" /\ live' = live \union {api.oid}
        /\ heard' = [heard EXCEPT ![api.oid] = api.state]
    BY <1>7, Zenon DEF ReportState, agent
  <2>2. api'.pc = "idle"
    BY <1>7, <1>t DEF ReportState, After
  <2>3. \A q \in Ports : State(q)' = State(q)
    BY <2>1, <1>s
  <2>4. /\ port_oid[api.port] = api.oid /\ api.oid \in Oids /\ api.port \in Ports
    BY <2>1, <1>t DEF OidsAreUnique
  <2>5. ASSUME NEW q \in Ports, Watched(q)'
        PROVE  \/ heard'[port_oid'[q]] = State(q)' \/ port_oid'[q] \in overtaken'
               \/ Coming(q, port_oid[q])'
    <3>1. CASE q = api.port
      <4>1. heard'[port_oid'[q]] = api.state
        BY <3>1, <2>1, <2>4, <1>t
      <4> QED
        BY <4>1, <3>1, <2>1, <2>3, <2>4, <1>h DEF Coming, Queued
    <3>2. CASE q # api.port
      <4>1. port_oid[q] # api.oid
        BY <3>2, <2>4, <1>t DEF OidsAreUnique
      <4>2. Watched(q)
        BY <4>1, <2>1, <2>5, Zenon DEF Watched
      <4>3. heard'[port_oid'[q]] = heard[port_oid[q]]
        BY <4>1, <4>2, <2>1, <1>w, <1>t
      <4> QED
        BY <4>2, <4>3, <2>1, <2>3, <1>h DEF Coming, Queued
    <3> QED
      BY <3>1, <3>2
  <2> QED
    BY <2>2, <2>5 DEF HeardOrComing
<1>8. CASE EventReceive \/ EventReceiveFails \/ NextEvent \/ FindPort
  <2>1. /\ UNCHANGED <<cable, admin, callback, port_oid, api, live, heard, overtaken>>
    BY <1>8, Zenon DEF EventReceive, EventReceiveFails, NextEvent, FindPort, agent
  <2>2. ASSUME NEW q \in Ports, port_oid[q] # 0, callback, Coming(q, port_oid[q])
        PROVE  Coming(q, port_oid[q])'
    <3>1. CASE EventReceive \/ EventReceiveFails
      <4>1. evt.pc = "wait" /\ events' = events
        BY <3>1 DEF EventReceive, EventReceiveFails, agent
      <4> QED
        BY <4>1, <2>2 DEF Coming, Queued
    <3>2. CASE NextEvent
      <4>1. Queued(q) /\ events # <<>>
        BY <3>2, <2>2, QueueFacts DEF NextEvent, Coming, Queued
      <4>2. /\ events' = Tail(events) /\ evt'.pc = "find" /\ evt'.port = Head(events).port
        BY <3>2, <4>1, <1>t DEF NextEvent
      <4>3. /\ Head(events) = events[1] /\ DOMAIN events = 1 .. Len(events) /\ Len(events) \in Nat
            /\ DOMAIN events' = 1 .. Len(events) - 1
            /\ \A i \in DOMAIN events' : events'[i] = events[i + 1]
        BY <4>1, <4>2, QueueFacts, HeadTailProperties, LenProperties, EmptySeq
      <4>4. PICK i \in DOMAIN events : events[i].port = q
        BY <4>1 DEF Queued
      <4>5. CASE i = 1
        BY <4>2, <4>3, <4>4, <4>5 DEF Coming
      <4>6. CASE i # 1
        <5>1. i - 1 \in DOMAIN events' /\ events'[i - 1] = events[i]
          BY <4>3, <4>6
        <5> QED
          BY <5>1, <4>4 DEF Coming, Queued
      <4> QED
        BY <4>5, <4>6
    <3>3. CASE FindPort
      <4>1. evt.pc = "find" /\ events' = events
        BY <3>3 DEF FindPort, agent
      <4>2. CASE Queued(q)
        BY <4>1, <4>2 DEF Coming, Queued
      <4>3. CASE evt.port = q
        <5>1. IsReported(evt.port)
          BY <4>3, <2>2, Zenon DEF IsReported
        <5>2. evt' = [evt EXCEPT !.pc = "report", !.oid = port_oid[evt.port]]
          BY <5>1, <3>3 DEF FindPort
        <5>3. evt'.pc = "report" /\ evt'.port = q /\ evt'.oid = port_oid[q]
          BY <5>2, <4>3, <1>t
        <5> QED
          BY <5>3, <2>1 DEF Coming
      <4> QED
        BY <4>1, <4>2, <4>3, <2>2 DEF Coming
    <3> QED
      BY <1>8, <3>1, <3>2, <3>3
  <2>3. \A q \in Ports : State(q)' = State(q)
    BY <2>1, <1>s
  <2>4. ASSUME NEW q \in Ports, Watched(q)'
        PROVE  \/ heard'[port_oid'[q]] = State(q)' \/ port_oid'[q] \in overtaken'
               \/ Coming(q, port_oid[q])'
    <3>1. Watched(q)
      BY <2>1, <2>4, Zenon DEF Watched
    <3> QED
      BY <3>1, <2>1, <2>2, <2>3, <1>h, <1>w
  <2>5. api.pc = "report" =>
         \/ api.state = State(api.port)' \/ api.oid \in overtaken \/ Coming(api.port, api.oid)'
    <3> SUFFICES ASSUME api.pc = "report", Coming(api.port, api.oid)
                 PROVE  Coming(api.port, api.oid)'
      BY <2>1, <2>3, <1>h, <1>t
    <3>1. api.port \in Ports /\ port_oid[api.port] = api.oid /\ api.oid # 0 /\ callback
      BY <1>c, <1>t DEF OidsAreUnique
    <3> QED
      BY <3>1, <2>1, <2>2
  <2>6. api'.pc \in {"read", "report"} => callback'
    BY <2>1, <1>c, Zenon
  <2> QED
    BY <2>1, <2>4, <2>5, <2>6 DEF HeardOrComing
<1>9. CASE ReportEvent
  <2>1. /\ UNCHANGED <<cable, admin, events, callback, port_oid, api, live>>
        /\ evt.pc = "report" /\ heard' = [heard EXCEPT ![evt.oid] = evt.state]
        /\ overtaken' = IF api.pc = "report" /\ api.oid = evt.oid
                          THEN overtaken \union {evt.oid} ELSE overtaken \ {evt.oid}
    BY <1>9, Zenon DEF ReportEvent, agent
  <2>2. evt.oid \in Oids /\ evt.port \in Ports
    BY <2>1, <1>t
  <2>3. \A q \in Ports : State(q)' = State(q)
    BY <2>1, <1>s
  <2>4. \A q \in Ports, o \in Oids : o # evt.oid /\ Coming(q, o) => Coming(q, o)'
    BY <2>1 DEF Coming, Queued
  <2>5. ASSUME NEW q \in Ports, Watched(q)'
        PROVE  \/ heard'[port_oid'[q]] = State(q)' \/ port_oid'[q] \in overtaken'
               \/ Coming(q, port_oid[q])'
    <3>1. Watched(q) /\ port_oid[q] \in Oids /\ port_oid' = port_oid
      BY <2>1, <2>5, <1>w, <1>t, Zenon DEF Watched
    <3>2. CASE port_oid[q] = evt.oid
      <4>1. evt.port = q
        BY <3>2, <2>1 DEF OidsAreUnique
      <4>2. heard'[port_oid'[q]] = evt.state
        BY <3>1, <3>2, <2>1, <1>t
      <4>3. Queued(q) => Coming(q, port_oid[q])'
        BY <2>1 DEF Queued, Coming
      <4>4. ~Queued(q) => evt.state = State(q)
        BY <4>1, <2>1 DEF EventsAreNewest
      <4> QED
        BY <4>2, <4>3, <4>4, <2>3
    <3>3. CASE port_oid[q] # evt.oid
      <4>1. heard'[port_oid'[q]] = heard[port_oid[q]]
        BY <3>1, <3>3, <2>1, <2>2, <1>t
      <4>2. port_oid[q] \in overtaken => port_oid[q] \in overtaken'
        BY <3>3, <2>1
      <4>3. Coming(q, port_oid[q]) => Coming(q, port_oid[q])'
        BY <3>1, <3>3, <2>1 DEF Coming, Queued
      <4> QED
        BY <4>1, <4>2, <4>3, <3>1, <2>3, <1>h
    <3> QED
      BY <3>2, <3>3
  <2>6. api.pc = "report" =>
         \/ api.state = State(api.port)' \/ api.oid \in overtaken' \/ Coming(api.port, api.oid)'
    <3> SUFFICES ASSUME api.pc = "report", api.oid # evt.oid
                 PROVE  \/ api.state = State(api.port)' \/ api.oid \in overtaken'
                        \/ Coming(api.port, api.oid)'
      BY <2>1
    <3>1. api.oid \in overtaken => api.oid \in overtaken'
      BY <2>1
    <3>2. Coming(api.port, api.oid) => Coming(api.port, api.oid)'
      BY <2>1 DEF Coming, Queued
    <3> QED
      BY <3>1, <3>2, <2>1, <2>3, <1>h, <1>t
  <2>7. api'.pc \in {"read", "report"} => callback'
    BY <2>1, <1>c, Zenon
  <2> QED
    BY <2>1, <2>5, <2>6, <2>7 DEF HeardOrComing
<1>10. CASE UNCHANGED vars
  <2>1. UNCHANGED <<cable, admin, events, callback, port_oid, api, evt, live, heard, overtaken>>
    BY <1>10, Zenon DEF vars, agent
  <2>2. \A q \in Ports : State(q)' = State(q)
    BY <2>1, <1>s
  <2>3. \A q \in Ports : Watched(q)' => Watched(q)
    BY <2>1, Zenon DEF Watched
  <2>4. \A q \in Ports : \A o : Coming(q, o) => Coming(q, o)'
    BY <2>1 DEF Coming, Queued
  <2>5. api'.pc \in {"read", "report"} => callback'
    BY <2>1, <1>c, Zenon
  <2>6. api.pc = "report" =>
         \/ api.state = State(api.port)' \/ api.oid \in overtaken' \/ Coming(api.port, api.oid)'
    BY <2>1, <2>2, <2>4, <1>h, <1>t
  <2> QED
    BY <2>1, <2>2, <2>3, <2>4, <2>5, <2>6, <1>h DEF HeardOrComing, Coming, Queued
<1> QED
  BY <1>1, <1>2, <1>3, <1>4, <1>5, <1>6, <1>7, <1>8, <1>9, <1>10
    DEF Next, ApiStep, EventStep

\* News of a port are never lost between the threads: the inductive invariant behind
\* LastHeardIsTrue, which holds also while calls and events are under way.
THEOREM ReportsAreHeardOrComing ==
  Spec => [](EventsAreNewest /\ OidsAreUnique /\ HeardOrComing)
<1>1. Init => EventsAreNewest
  <2>1. Init => events = <<>> /\ evt.pc = "none" /\ api.pc = "off"
    BY DEF Init, NewThread
  <2> QED
    BY <2>1 DEF EventsAreNewest, IsLastOf
<1>2. Init => OidsAreUnique
  BY DEF Init, NewThread, OidsAreUnique
<1>3. Init => HeardOrComing
  <2>1. Init => api.pc = "off" /\ \A p \in Ports : ~Watched(p)
    BY DEF Init, NewThread, Watched
  <2> QED
    BY <2>1 DEF HeardOrComing
<1>4. TypeOK /\ EventsAreNewest /\ OidsAreUnique /\ HeardOrComing /\ [Next]_vars
        => EventsAreNewest' /\ OidsAreUnique' /\ HeardOrComing'
  BY NewestStep, OidsStep, HeardStep
<1> QED
  BY <1>1, <1>2, <1>3, <1>4, TypeCorrect, PTL DEF Spec

\* When nothing is under way the client was last told the state its port is in, but for
\* a report of create_port that an event has overtaken (sai.c:995-1004, 1364).
THEOREM LastHeardIsAlwaysTrue == Spec => []LastHeardIsTrue
<1>1. TypeOK /\ HeardOrComing => LastHeardIsTrue
  <2> SUFFICES ASSUME HeardOrComing, NEW p \in Ports, Watched(p),
                      evt.pc \in {"wait", "next"}, events = <<>>
               PROVE  heard[port_oid[p]] = State(p) \/ port_oid[p] \in overtaken
    BY DEF LastHeardIsTrue
  <2>1. ~Coming(p, port_oid[p])
    BY DEF Coming, Queued
  <2> QED
    BY <2>1 DEF HeardOrComing
<1> QED
  BY <1>1, TypeCorrect, ReportsAreHeardOrComing, PTL
=============================================================================
