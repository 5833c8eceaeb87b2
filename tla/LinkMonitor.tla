---------------------------- MODULE LinkMonitor ----------------------------
(***************************************************************************)
(* link.cc: LinkServiceImpl::Monitor and the threads behind it.  Every     *)
(* Monitor call runs in a gRPC handler thread of its own; the first one    *)
(* starts a loop thread and registers linkscan_handler with the SDK, which *)
(* from then on pushes link events into the global queue q.  A loop thread *)
(* pops them and writes each to the stream of every attached request,      *)
(* under mutex_; a request whose stream is broken is dropped and its       *)
(* handler is woken up, so that the call returns and its writer dies.      *)
(*                                                                         *)
(* q is a Queue<T> of queue.h: here the abstract Fifo that MsgQueue        *)
(* implements.  A loop thread is named after the handler that started it.  *)
(* The SDK and the gRPC streams are outside the repository.                *)
(***************************************************************************)
EXTENDS Naturals, Sequences, FiniteSets

CONSTANTS
  Handlers,     \* Monitor calls, each with its handler thread
  NoHandler,    \* "nobody holds mutex_"
  MaxEvents     \* bound: link events the SDK reports

ASSUME HandlersAssumption == IsFiniteSet(Handlers) /\ NoHandler \notin Handlers
ASSUME MaxEventsAssumption == MaxEvents \in Nat

VARIABLES
  monitoring,   \* the member of the service; no constructor sets it
  registered,   \* the SDK calls linkscan_handler
  line, taken, got, \* q: events pushed, how many were popped, and by whom
  mutex_,       \* the thread that holds the mutex
  reqs,         \* the attached requests, in the order of arrival
  pc,           \* where each handler is in Monitor
  lpc,          \* where each loop thread is
  todo,         \* todo[l]: what is left of "for ( auto req : reqs )"
  _reqs,        \* _reqs[l]: the requests that loop l keeps
  wakes,        \* wakes[h]: length of the queue request->q
  open,         \* open[h]: the client still holds its end of the stream
  sent          \* history: sent[h], the events written to the stream of h

service == <<monitoring, registered>>
queue == <<line, taken, got>>
loop == <<lpc, todo, _reqs>>
vars == <<service, queue, mutex_, reqs, pc, loop, wakes, open, sent>>

Events == 1 .. MaxEvents
Q == INSTANCE Fifo WITH Items <- Events, Consumers <- Handlers

Info(l) == got[l][Len(got[l])]
Contents(seq) == {seq[i] : i \in DOMAIN seq}
Loops == {l \in Handlers : lpc[l] # "none"}

Init ==
  /\ monitoring \in BOOLEAN
  /\ registered = FALSE
  /\ Q!Init
  /\ mutex_ = NoHandler
  /\ reqs = <<>>
  /\ pc = [h \in Handlers |-> "idle"]
  /\ lpc = [l \in Handlers |-> "none"]
  /\ todo = [l \in Handlers |-> <<>>]
  /\ _reqs = [l \in Handlers |-> <<>>]
  /\ wakes = [h \in Handlers |-> 0]
  /\ open = [h \in Handlers |-> TRUE]
  /\ sent = [h \in Handlers |-> <<>>]

Goto(h, from, to) ==
  /\ pc[h] = from
  /\ pc' = [pc EXCEPT ![h] = to]

-----------------------------------------------------------------------------
(* Mutants: steps of the code below with a plausible bug each.             *)

\* The requests are read and replaced, but mutex_ is not taken.
LockForgotten(l) ==
  /\ lpc[l] = "lock"
  /\ lpc' = [lpc EXCEPT ![l] = "write"]
  /\ todo' = [todo EXCEPT ![l] = reqs]
  /\ _reqs' = [_reqs EXCEPT ![l] = <<>>]
  /\ UNCHANGED <<service, queue, mutex_, reqs, pc, wakes, open, sent>>

\* A request whose stream is broken is woken up but stays attached.
WriteKeepsAll(l) ==
  LET h == Head(todo[l]) IN
  /\ lpc[l] = "write" /\ todo[l] # <<>>
  /\ todo' = [todo EXCEPT ![l] = Tail(@)]
  /\ _reqs' = [_reqs EXCEPT ![l] = Append(@, h)]
  /\ IF open[h]
       THEN sent' = [sent EXCEPT ![h] = Append(@, Info(l))] /\ UNCHANGED wakes
       ELSE wakes' = [wakes EXCEPT ![h] = @ + 1] /\ UNCHANGED sent
  /\ UNCHANGED <<service, queue, mutex_, reqs, pc, lpc, open>>

\* A request whose stream is broken is dropped but its handler is not woken.
WriteWakesNobody(l) ==
  LET h == Head(todo[l]) IN
  /\ lpc[l] = "write" /\ todo[l] # <<>>
  /\ todo' = [todo EXCEPT ![l] = Tail(@)]
  /\ IF open[h]
       THEN /\ _reqs' = [_reqs EXCEPT ![l] = Append(@, h)]
            /\ sent' = [sent EXCEPT ![h] = Append(@, Info(l))]
       ELSE UNCHANGED <<_reqs, sent>>
  /\ UNCHANGED <<service, queue, mutex_, reqs, pc, lpc, wakes, open>>

\* A request is kept only if it is the first one that can be written to.
WriteKeepsOne(l) ==
  LET h == Head(todo[l]) IN
  /\ lpc[l] = "write" /\ todo[l] # <<>>
  /\ todo' = [todo EXCEPT ![l] = Tail(@)]
  /\ IF open[h]
       THEN /\ _reqs' = [_reqs EXCEPT ![l] = <<h>>]
            /\ sent' = [sent EXCEPT ![h] = Append(@, Info(l))]
            /\ UNCHANGED wakes
       ELSE wakes' = [wakes EXCEPT ![h] = @ + 1] /\ UNCHANGED <<_reqs, sent>>
  /\ UNCHANGED <<service, queue, mutex_, reqs, pc, lpc, open>>

\* The newest event is popped first.
PopNewest(l) ==
  /\ lpc[l] = "pop" /\ taken < Len(line)
  /\ got' = [got EXCEPT ![l] = Append(@, line[Len(line)])]
  /\ line' = [line EXCEPT ![taken + 1] = line[Len(line)], ![Len(line)] = line[taken + 1]]
  /\ taken' = taken + 1
  /\ lpc' = [lpc EXCEPT ![l] = "lock"]
  /\ UNCHANGED <<service, mutex_, reqs, pc, todo, _reqs, wakes, open, sent>>

\* The event is looked at, but stays in the queue.
PopKeeps(l) ==
  /\ lpc[l] = "pop" /\ taken < Len(line)
  /\ got' = [got EXCEPT ![l] = Append(@, line[taken + 1])]
  /\ Len(got[l]) <= MaxEvents
  /\ lpc' = [lpc EXCEPT ![l] = "lock"]
  /\ UNCHANGED <<service, line, taken, mutex_, reqs, pc, todo, _reqs, wakes, open, sent>>

\* monitoring is set first, for the other calls to see.
SpawnSets(h) ==
  /\ Goto(h, "spawn", "register")
  /\ lpc' = [lpc EXCEPT ![h] = "pop"]
  /\ monitoring' = TRUE
  /\ UNCHANGED <<registered, queue, mutex_, reqs, todo, _reqs, wakes, open, sent>>

-----------------------------------------------------------------------------
(* Monitor, in the handler thread h.                                       *)

\* if ( !monitoring )
Check(h) ==
  /\ Goto(h, "idle", IF monitoring THEN "attach" ELSE "spawn")
  /\ UNCHANGED <<service, queue, mutex_, reqs, loop, wakes, open, sent>>

\* th = new std::thread(&LinkServiceImpl::loop, this);
Spawn(h) ==
  /\ Goto(h, "spawn", "register")
  /\ lpc' = [lpc EXCEPT ![h] = "pop"]
  /\ UNCHANGED <<service, queue, mutex_, reqs, todo, _reqs, wakes, open, sent>>

\* opennsl_linkscan_register(req->unit(), linkscan_handler) and the error return,
\* which leaves the loop thread behind.
Register(h) ==
  /\ \/ Goto(h, "register", "set") /\ registered' = TRUE
     \/ Goto(h, "register", "unavailable") /\ UNCHANGED registered
  /\ UNCHANGED <<monitoring, queue, mutex_, reqs, loop, wakes, open, sent>>

\* monitoring = true;
SetMonitoring(h) ==
  /\ Goto(h, "set", "attach")
  /\ monitoring' = TRUE
  /\ UNCHANGED <<registered, queue, mutex_, reqs, loop, wakes, open, sent>>

\* new linkscan_request(); the push_back between lock and unlock of mutex_.
Attach(h) ==
  /\ mutex_ = NoHandler
  /\ Goto(h, "attach", "wait")
  /\ reqs' = Append(reqs, h)
  /\ UNCHANGED <<service, queue, mutex_, loop, wakes, open, sent>>

\* request->q.pop(); return grpc::Status::OK;
Return(h) ==
  /\ wakes[h] > 0
  /\ Goto(h, "wait", "ok")
  /\ wakes' = [wakes EXCEPT ![h] = @ - 1]
  /\ UNCHANGED <<service, queue, mutex_, reqs, loop, open, sent>>

-----------------------------------------------------------------------------
(* linkscan_handler, called by the SDK, and the clients.                   *)

LinkscanHandler(e) ==
  /\ registered
  /\ e = Len(line) + 1
  /\ Q!Push(e)
  /\ UNCHANGED <<service, mutex_, reqs, pc, loop, wakes, open, sent>>

\* The client cancels the call or goes away: every later Write fails.
Disconnect(h) ==
  /\ open[h] /\ pc[h] # "idle"
  /\ open' = [open EXCEPT ![h] = FALSE]
  /\ UNCHANGED <<service, queue, mutex_, reqs, pc, loop, wakes, sent>>

-----------------------------------------------------------------------------
(* loop and handle_info, in the loop thread l.                             *)

\* handle_info(q.pop())
Pop(l) ==
  /\ lpc[l] = "pop"
  /\ Q!Pop(l)
  /\ lpc' = [lpc EXCEPT ![l] = "lock"]
  /\ UNCHANGED <<service, mutex_, reqs, pc, todo, _reqs, wakes, open, sent>>

\* std::unique_lock<std::mutex> mlock(mutex_); for ( auto req : reqs )
Lock(l) ==
  /\ lpc[l] = "lock" /\ mutex_ = NoHandler
  /\ mutex_' = l
  /\ lpc' = [lpc EXCEPT ![l] = "write"]
  /\ todo' = [todo EXCEPT ![l] = reqs]
  /\ _reqs' = [_reqs EXCEPT ![l] = <<>>]
  /\ UNCHANGED <<service, queue, reqs, pc, wakes, open, sent>>

\* req->writer->Write(res, option): keep the request, or wake its handler.
Write(l) ==
  LET h == Head(todo[l]) IN
  /\ lpc[l] = "write" /\ todo[l] # <<>>
  /\ todo' = [todo EXCEPT ![l] = Tail(@)]
  /\ IF open[h]
       THEN /\ _reqs' = [_reqs EXCEPT ![l] = Append(@, h)]
            /\ sent' = [sent EXCEPT ![h] = Append(@, Info(l))]
            /\ UNCHANGED wakes
       ELSE wakes' = [wakes EXCEPT ![h] = @ + 1] /\ UNCHANGED <<_reqs, sent>>
  /\ UNCHANGED <<service, queue, mutex_, reqs, pc, lpc, open>>

\* reqs = _reqs; and the destructor of mlock.
Replace(l) ==
  /\ lpc[l] = "write" /\ todo[l] = <<>>
  /\ reqs' = _reqs[l]
  /\ mutex_' = NoHandler
  /\ lpc' = [lpc EXCEPT ![l] = "pop"]
  /\ UNCHANGED <<service, queue, pc, todo, _reqs, wakes, open, sent>>

Handler(h) ==
  Spawn(h) \/ Register(h) \/ SetMonitoring(h) \/ Attach(h) \/ Return(h)
Loop(l) == Pop(l) \/ Lock(l) \/ Write(l) \/ Replace(l)

Next ==
  \/ \E h \in Handlers : Check(h) \/ Handler(h) \/ Disconnect(h) \/ Loop(h)
  \/ \E e \in Events : LinkscanHandler(e)

Spec == Init /\ [][Next]_vars

\* A thread that can run does; a thread that waits for mutex_ gets it in the
\* end, because every holder gives it back and calls are finitely many.
FairSpec == Spec /\ \A h \in Handlers : WF_vars(Handler(h)) /\ WF_vars(Loop(h))

-----------------------------------------------------------------------------
(* Properties.                                                             *)

HandlerStates == {"idle", "spawn", "register", "set", "attach", "wait", "ok", "unavailable"}
LoopStates == {"none", "pop", "lock", "write"}

FlagsOK ==
  monitoring \in BOOLEAN /\ registered \in BOOLEAN /\ open \in [Handlers -> BOOLEAN]

\* Every variable has its type, and mutex_ is held by exactly the loop thread
\* that is between its lock and its unlock (link.cc:69-77).
TypeOK ==
  /\ FlagsOK
  /\ line \in Seq(Events) /\ taken \in 0 .. Len(line)
  /\ got \in [Handlers -> Seq(Events)]
  /\ mutex_ \in Handlers \union {NoHandler}
  /\ reqs \in Seq(Handlers)
  /\ pc \in [Handlers -> HandlerStates]
  /\ lpc \in [Handlers -> LoopStates]
  /\ \A l \in Handlers : mutex_ = l <=> lpc[l] = "write"
  /\ todo \in [Handlers -> Seq(Handlers)]
  /\ _reqs \in [Handlers -> Seq(Handlers)]
  /\ wakes \in [Handlers -> Nat]
  /\ sent \in [Handlers -> Seq(Events)]
  /\ \A l \in Handlers : lpc[l] \in {"lock", "write"} => got[l] # <<>>
  /\ \A h \in Handlers : pc[h] \in {"idle", "spawn"} => lpc[h] = "none"

\* A loop thread writes only through the writer of a call that has not returned:
\* the writer lives in the handler's call (link.cc:72, 100-110).
WriterAlive ==
  \A l \in Handlers :
    (lpc[l] = "write" /\ todo[l] # <<>>) => pc[Head(todo[l])] = "wait"

\* No event is written twice to a stream, however many loop threads there are.
NoDuplicates ==
  \A h \in Handlers : \A i, j \in DOMAIN sent[h] : sent[h][i] = sent[h][j] => i = j

\* The streams carry the events in the order the SDK reported them as long as
\* no second loop thread was started: the test of monitoring and its
\* assignment are not one step, and a failed registration leaves its loop
\* thread running (link.cc:92-99).
OneLoopKeepsOrder ==
  Cardinality(Loops) <= 1 =>
    \A h \in Handlers : \A i, j \in DOMAIN sent[h] : i < j => sent[h][i] < sent[h][j]

\* A service whose monitoring happens to be false at first never leaves a call waiting
\* for events that cannot come, whatever fails in the calls before it: the handler is
\* registered and a loop thread pops its events.  With the other value, which the
\* missing constructor allows as well, every call waits forever (link.h:37, link.cc:92-98).
WaitersAreServed ==
  ~monitoring => [](\A h \in Handlers : pc[h] = "wait" => registered /\ Loops # {})

\* An event that is in the queue while a request is attached is written to the
\* stream of the request, unless the client leaves.
EventsArrive ==
  \A h \in Handlers, e \in Events :
    (pc[h] = "wait" /\ taken < e /\ e <= Len(line))
      ~> (e \in Contents(sent[h]) \/ ~open[h])

\* The call of a client that has left returns once there is one more event; it
\* is the event that makes the loop notice (link.cc:72-76, 109).
AbandonedCallReturns ==
  \A h \in Handlers :
    (pc[h] = "wait" /\ ~open[h] /\ taken < Len(line)) ~> pc[h] = "ok"
=============================================================================
