----------------------------- MODULE PortNotify -----------------------------
(***************************************************************************)
(* ofdpa-sai/sai.c: how the SAI client learns whether a port is up.        *)
(*                                                                         *)
(* Two threads call the client back.  sai_create_port, on the client's own *)
(* thread, reads the state of the new port from the agent and reports it.  *)
(* ofdpa_sai_event_recv_loop, started by sai_create_switch, reports every  *)
(* change of a port that has an object id.  No lock orders the two.        *)
(*                                                                         *)
(* The agent is external: it keeps the state of the ports, queues an event *)
(* for each change once the client's socket is bound (it may take the      *)
(* place of the last one of that port that is still queued) and makes      *)
(* ofdpaEventReceive return.  Object ids come from the client, 1, 2, ...   *)
(***************************************************************************)
EXTENDS Naturals, Sequences

CONSTANTS
  Ports,
  MaxOid,       \* bound: create_port calls
  MaxChanges,   \* bound: changes of a cable or of an admin state
  MayFail       \* the agent may fail to answer a request for a state or an event

ASSUME BoundsAssumption == MaxOid \in Nat /\ MaxChanges \in Nat /\ MayFail \in BOOLEAN

Oids == 1 .. MaxOid
States == {"up", "down"}

VARIABLES
  \* The agent.
  cable, admin, \* what makes a port be up: its link partner, and its configuration
  events,       \* port events queued for this client: [port, state]
  notified,     \* ofdpaEventReceive has something to return for
  bound,        \* ofdpaClientEventSockBind was called
  \* The adapter.
  callback,     \* g_port_state_callback is set
  port_oid,     \* port->port_oid, 0 when there is none
  api,          \* the call in progress: [pc, port, oid, state]
  evt,          \* the event thread: [pc, port, oid, state]
  \* The client, and history.
  created,      \* the number of object ids used
  live,         \* the ports it has: ids whose create_port succeeded, until it removes them
  heard,        \* heard[o]: the last state that it was told of o, or "none"
  overtaken,    \* ids whose create_port read a state and reported it after an event of theirs
  changes

agent == <<cable, admin, events, notified>>
client == <<created, live, heard, overtaken>>
vars == <<agent, bound, callback, port_oid, api, evt, client, changes>>

State(p) == IF cable[p] /\ admin[p] THEN "up" ELSE "down"

-----------------------------------------------------------------------------
(* Mutants: plausible bugs, each of which breaks one of the properties.    *)

\* create_port reads the state before it stores the object id (sai.c:995).
AfterSwapped(step) ==
  CASE step = "enter" -> "read" [] step = "read" -> "oid"
    [] step = "oid" -> "report" [] step = "report" -> "idle"
\* The event thread waits again after one event (sai.c:1359).
AfterEventWaits == "wait"
\* A port without an object id is reported all the same (sai.c:1364).
IsReportedAlways(p) == callback

-----------------------------------------------------------------------------
(* The agent.                                                              *)

\* events[i] is the last event of port p in the queue.
IsLastOf(p, i) ==
  events[i].port = p /\ \A j \in DOMAIN events : j > i => events[j].port # p

\* A port that changes between up and down makes an event.
Announce(p, c, a) ==
  LET new == [port |-> p, state |-> IF c /\ a THEN "up" ELSE "down"] IN
  /\ cable' = [cable EXCEPT ![p] = c]
  /\ admin' = [admin EXCEPT ![p] = a]
  /\ changes < MaxChanges /\ changes' = changes + 1
  /\ IF bound /\ new.state # State(p)
       THEN /\ notified' = TRUE
            /\ \/ events' = Append(events, new)
               \/ \E i \in DOMAIN events :
                    IsLastOf(p, i) /\ events' = [events EXCEPT ![i] = new]
       ELSE UNCHANGED <<events, notified>>

\* Somebody plugs or unplugs the cable of a port.
CableChanges(p) ==
  /\ Announce(p, ~cable[p], admin[p])
  /\ UNCHANGED <<bound, callback, port_oid, api, evt, client>>

-----------------------------------------------------------------------------
(* The client's thread.                                                    *)

\* sai_create_switch up to ofdpaClientEventSockBind, with or without a function
\* for changes of a port's state.
BindSwitch(cb) ==
  /\ api.pc = "off"
  /\ callback' = cb /\ bound' = TRUE
  /\ api' = [api EXCEPT !.pc = "bound"]
  /\ UNCHANGED <<agent, port_oid, evt, client, changes>>

\* The rest of sai_create_switch: the event thread is for those with a function.
StartSwitch ==
  /\ api.pc = "bound"
  /\ api' = [api EXCEPT !.pc = "idle"]
  /\ evt' = [evt EXCEPT !.pc = IF callback THEN "wait" ELSE "none"]
  /\ UNCHANGED <<agent, bound, callback, port_oid, client, changes>>

\* The order of the steps of sai_create_port.
After(step) ==
  CASE step = "enter" -> "oid" [] step = "oid" -> "read"
    [] step = "read" -> "report" [] step = "report" -> "idle"

\* sai_create_port is called on a port that the client does not have.
CreatePort(p) ==
  /\ api.pc = "idle" /\ created < MaxOid /\ port_oid[p] \notin live
  /\ created' = created + 1
  /\ api' = [api EXCEPT !.pc = After("enter"), !.port = p, !.oid = created + 1]
  /\ UNCHANGED <<agent, bound, callback, port_oid, evt, live, heard, overtaken, changes>>

\* port->port_oid = *port_id; without a function the call is done.
SetOid ==
  /\ api.pc = "oid"
  /\ port_oid' = [port_oid EXCEPT ![api.port] = api.oid]
  /\ IF callback
       THEN api' = [api EXCEPT !.pc = After("oid")] /\ UNCHANGED live
       ELSE api' = [api EXCEPT !.pc = "idle"] /\ live' = live \union {api.oid}
  /\ UNCHANGED <<agent, bound, callback, evt, created, heard, overtaken, changes>>

\* ofdpa_sai_get_port_oper_status
ReadState ==
  /\ api.pc = "read"
  /\ \/ api' = [api EXCEPT !.pc = After("read"), !.state = State(api.port)]
     \/ MayFail /\ api' = [api EXCEPT !.pc = "idle"]
  /\ UNCHANGED <<agent, bound, callback, port_oid, evt, client, changes>>

\* create_port calls g_port_state_callback and returns.
ReportState ==
  /\ api.pc = "report"
  /\ heard' = [heard EXCEPT ![api.oid] = api.state]
  /\ live' = live \union {api.oid}
  /\ api' = [api EXCEPT !.pc = After("report")]
  /\ UNCHANGED <<agent, bound, callback, port_oid, evt, created, overtaken, changes>>

\* sai_remove_port: the object id stays where it is.
RemovePort(p) ==
  /\ api.pc = "idle" /\ port_oid[p] \in live
  /\ live' = live \ {port_oid[p]}
  /\ UNCHANGED <<agent, bound, callback, port_oid, api, evt, created, heard, overtaken, changes>>

\* sai_set_port_attribute: the admin state of a port that the client has.
SetAdmin(p) ==
  /\ api.pc = "idle" /\ port_oid[p] \in live
  /\ Announce(p, cable[p], ~admin[p])
  /\ UNCHANGED <<bound, callback, port_oid, api, evt, client>>

-----------------------------------------------------------------------------
(* ofdpa_sai_event_recv_loop.                                              *)

\* ofdpaEventReceive returns.
EventReceive ==
  /\ evt.pc = "wait" /\ notified
  /\ notified' = FALSE
  /\ evt' = [evt EXCEPT !.pc = "next"]
  /\ UNCHANGED <<cable, admin, events, bound, callback, port_oid, api, client, changes>>

\* ofdpaEventReceive returns an error: the thread ends.
EventReceiveFails ==
  /\ evt.pc = "wait" /\ MayFail
  /\ evt' = [evt EXCEPT !.pc = "none"]
  /\ UNCHANGED <<agent, bound, callback, port_oid, api, client, changes>>

\* ofdpaPortEventNextGet
NextEvent ==
  /\ evt.pc = "next"
  /\ IF events = <<>>
       THEN evt' = [evt EXCEPT !.pc = "wait"] /\ UNCHANGED events
       ELSE /\ evt' = [evt EXCEPT !.pc = "find", !.port = Head(events).port,
                                  !.state = Head(events).state]
            /\ events' = Tail(events)
  /\ UNCHANGED <<cable, admin, notified, bound, callback, port_oid, api, client, changes>>

IsReported(p) == callback /\ port_oid[p] # 0

\* The port of the event, and its object id of now.
FindPort ==
  /\ evt.pc = "find"
  /\ evt' = IF IsReported(evt.port)
              THEN [evt EXCEPT !.pc = "report", !.oid = port_oid[evt.port]]
              ELSE [evt EXCEPT !.pc = "next"]
  /\ UNCHANGED <<agent, bound, callback, port_oid, api, client, changes>>

AfterEvent == "next"

\* The event thread calls g_port_state_callback.
ReportEvent ==
  /\ evt.pc = "report"
  /\ heard' = [heard EXCEPT ![evt.oid] = evt.state]
  /\ overtaken' = IF api.pc = "report" /\ api.oid = evt.oid
                    THEN overtaken \union {evt.oid} ELSE overtaken \ {evt.oid}
  /\ evt' = [evt EXCEPT !.pc = AfterEvent]
  /\ UNCHANGED <<agent, bound, callback, port_oid, api, created, live, changes>>

-----------------------------------------------------------------------------
NewThread(pc, p) == [pc |-> pc, port |-> p, oid |-> 0, state |-> "down"]

Init ==
  /\ cable \in [Ports -> BOOLEAN] /\ admin = [p \in Ports |-> TRUE]
  /\ events = <<>> /\ notified = FALSE /\ bound = FALSE /\ callback = FALSE
  /\ port_oid = [p \in Ports |-> 0]
  /\ \E p \in Ports : api = NewThread("off", p) /\ evt = NewThread("none", p)
  /\ created = 0 /\ live = {} /\ heard = [o \in Oids |-> "none"] /\ overtaken = {}
  /\ changes = 0

ApiStep == StartSwitch \/ SetOid \/ ReadState \/ ReportState
EventStep == EventReceive \/ NextEvent \/ FindPort \/ ReportEvent

Next ==
  \/ \E cb \in BOOLEAN : BindSwitch(cb)
  \/ ApiStep \/ EventStep \/ EventReceiveFails
  \/ \E p \in Ports : CableChanges(p) \/ CreatePort(p) \/ RemovePort(p) \/ SetAdmin(p)

\* A call that has begun goes on, and so does the event thread, which need not fail.
Spec == Init /\ [][Next]_vars /\ WF_vars(ApiStep) /\ WF_vars(EventStep)

-----------------------------------------------------------------------------
(* Properties.                                                             *)

\* Every variable has its type, and a thread about to report has an object id.
TypeOK ==
  /\ cable \in [Ports -> BOOLEAN] /\ admin \in [Ports -> BOOLEAN]
  /\ events \in Seq([port : Ports, state : States])
  /\ notified \in BOOLEAN /\ bound \in BOOLEAN /\ callback \in BOOLEAN
  /\ port_oid \in [Ports -> {0} \union Oids]
  /\ api \in [pc : {"off", "bound", "idle", "oid", "read", "report"}, port : Ports,
              oid : {0} \union Oids, state : States]
  /\ evt \in [pc : {"none", "wait", "next", "find", "report"}, port : Ports,
              oid : {0} \union Oids, state : States]
  /\ api.pc \in {"oid", "read", "report"} => api.oid # 0
  /\ evt.pc = "report" => evt.oid # 0
  /\ created \in {0} \union Oids /\ live \subseteq Oids /\ overtaken \subseteq Oids
  /\ heard \in [Oids -> States \union {"none"}]
  /\ changes \in 0 .. MaxChanges

\* The client has port p, and its function is called for changes.
Watched(p) == callback /\ port_oid[p] \in live

\* When nothing is under way, the client was last told the state that a port is in,
\* whatever changed while create_port ran, and events that came before the port had
\* its object id were not needed (sai.c:995-1004, 1364); the one exception is
\* a create_port whose report an event of the same port has overtaken.
LastHeardIsTrue ==
  \A p \in Ports :
    Watched(p) /\ api.pc = "idle" /\ evt.pc \in {"wait", "next"} /\ events = <<>> =>
      heard[port_oid[p]] = State(p) \/ port_oid[p] \in overtaken

\* A client that has a port gets to know every state the port stays in, unless the
\* event thread ended or its report was overtaken (sai.c:1356-1385).
ChangesAreHeard ==
  \A p \in Ports :
    Watched(p) ~> \/ ~Watched(p) \/ evt.pc = "none" \/ port_oid[p] \in overtaken
                  \/ heard[port_oid[p]] = State(p)
=============================================================================
