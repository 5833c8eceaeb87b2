------------------------- MODULE LinkMonitorProofs -------------------------
(***************************************************************************)
(* Theorems about LinkMonitor, for any finite number of Monitor calls and  *)
(* of events: the types with the discipline of mutex_; that no loop thread *)
(* ever uses the writer of a call that has returned; that no stream gets   *)
(* an event twice, and all of them in order as long as there is one loop   *)
(* thread; and that a call waits only where events can come.               *)
(***************************************************************************)
EXTENDS LinkMonitor, SequenceTheorems, FiniteSetTheorems, TLAPS

-----------------------------------------------------------------------------
(* Types and the discipline of mutex_.                                     *)

\* A list with an element added is not the empty list.
LEMMA AppendIsNotEmpty ==
  ASSUME NEW S, NEW seq \in Seq(S), NEW x \in S PROVE Append(seq, x) # <<>>
<1>1. Len(Append(seq, x)) = Len(seq) + 1 /\ Len(seq) \in Nat
  BY AppendProperties, LenProperties
<1> QED
  BY <1>1, Len(<<>>) = 0

\* A step of a handler, a loop thread, the SDK or a client preserves the types.
LEMMA TypeStep == TypeOK /\ [Next]_vars => TypeOK'
<1> SUFFICES ASSUME TypeOK, [Next]_vars PROVE TypeOK'
  OBVIOUS
<1> USE HandlersAssumption, MaxEventsAssumption
        DEF Events, service, queue, loop, HandlerStates, LoopStates
<1>t. /\ FlagsOK /\ line \in Seq(Events) /\ taken \in 0 .. Len(line) /\ Len(line) \in Nat
      /\ got \in [Handlers -> Seq(Events)] /\ sent \in [Handlers -> Seq(Events)]
      /\ todo \in [Handlers -> Seq(Handlers)] /\ _reqs \in [Handlers -> Seq(Handlers)]
      /\ wakes \in [Handlers -> Nat]
      /\ \A l \in Handlers : lpc[l] \in {"lock", "write"} => got[l] # <<>>
  BY LenProperties DEF TypeOK
<1>f. FlagsOK'
  <2>1. monitoring' \in BOOLEAN /\ registered' \in BOOLEAN
    BY <1>t DEF FlagsOK, Next, vars, Handler, Loop, Check, Spawn, Register, SetMonitoring,
           Attach, Return, Disconnect, Pop, Lock, Write, Replace, LinkscanHandler
  <2>2. open' \in [Handlers -> BOOLEAN]
    BY <1>t, Zenon DEF FlagsOK, Next, vars, Handler, Loop, Check, Spawn, Register,
           SetMonitoring, Attach, Return, Disconnect, Pop, Lock, Write, Replace,
           LinkscanHandler
  <2> QED
    BY <2>1, <2>2 DEF FlagsOK
<1>1. ASSUME NEW h \in Handlers, Check(h) PROVE TypeOK'
  BY <1>1, <1>f DEF TypeOK, Check, Goto
<1>2. ASSUME NEW h \in Handlers, Spawn(h) PROVE TypeOK'
  BY <1>2, <1>f DEF TypeOK, Spawn, Goto
<1>3. ASSUME NEW h \in Handlers, Register(h) PROVE TypeOK'
  BY <1>3, <1>f DEF TypeOK, Register, Goto
<1>4. ASSUME NEW h \in Handlers, SetMonitoring(h) PROVE TypeOK'
  BY <1>4, <1>f DEF TypeOK, SetMonitoring, Goto
<1>5. ASSUME NEW h \in Handlers, Attach(h) PROVE TypeOK'
  BY <1>5, <1>f, AppendProperties DEF TypeOK, Attach, Goto
<1>6. ASSUME NEW h \in Handlers, Return(h) PROVE TypeOK'
  <2>1. wakes' \in [Handlers -> Nat]
    <3>1. wakes[h] \in Nat
      BY <1>t
    <3> QED
      BY <1>6, <1>t, <3>1 DEF Return
  <2> QED
    BY <1>6, <1>f, <2>1 DEF TypeOK, Return, Goto
<1>7. ASSUME NEW h \in Handlers, Disconnect(h) PROVE TypeOK'
  BY <1>7, <1>f DEF TypeOK, Disconnect
<1>8. ASSUME NEW l \in Handlers, Pop(l) PROVE TypeOK'
  <2>1. taken + 1 \in 1 .. Len(line) /\ line[taken + 1] \in Events
    <3>1. taken < Len(line)
      BY <1>8 DEF Pop, Q!Pop
    <3>2. taken + 1 \in 1 .. Len(line)
      BY <3>1, <1>t
    <3> QED
      BY <3>2, <1>t, ElementOfSeq
  <2>2. taken' \in 0 .. Len(line) /\ line' = line
    BY <1>8, <2>1, <1>t DEF Pop, Q!Pop
  <2>3. got' = [got EXCEPT ![l] = Append(@, line[taken + 1])]
    BY <1>8 DEF Pop, Q!Pop
  <2>4. /\ Append(got[l], line[taken + 1]) \in Seq(Events)
        /\ Append(got[l], line[taken + 1]) # <<>>
    <3>1. got[l] \in Seq(Events) /\ line[taken + 1] \in Events
      BY <2>1, <1>t
    <3> QED
      BY <3>1, AppendProperties, AppendIsNotEmpty
  <2>5. /\ got' \in [Handlers -> Seq(Events)]
        /\ got'[l] # <<>> /\ \A k \in Handlers \ {l} : got'[k] = got[k]
    BY <2>3, <2>4, <1>t
  <2> QED
    BY <1>8, <1>f, <2>2, <2>5 DEF TypeOK, Pop
<1>9. ASSUME NEW l \in Handlers, Lock(l) PROVE TypeOK'
  <2>1. <<>> \in Seq(Handlers) /\ reqs \in Seq(Handlers)
    BY EmptySeq DEF TypeOK
  <2>2. todo' \in [Handlers -> Seq(Handlers)] /\ _reqs' \in [Handlers -> Seq(Handlers)]
    BY <1>9, <1>t, <2>1 DEF Lock
  <2>3. /\ mutex_' \in Handlers \union {NoHandler}
        /\ lpc' \in [Handlers -> LoopStates]
        /\ \A k \in Handlers : mutex_' = k <=> lpc'[k] = "write"
    BY <1>9 DEF TypeOK, Lock
  <2>4. /\ \A k \in Handlers : lpc'[k] \in {"lock", "write"} => got'[k] # <<>>
        /\ \A k \in Handlers : pc'[k] \in {"idle", "spawn"} => lpc'[k] = "none"
    BY <1>9 DEF TypeOK, Lock
  <2> QED
    BY <1>9, <1>f, <2>2, <2>3, <2>4 DEF TypeOK, Lock
<1>10. ASSUME NEW l \in Handlers, Write(l) PROVE TypeOK'
  <2> DEFINE h == Head(todo[l])
  <2>1. /\ lpc[l] = "write" /\ todo[l] # <<>> /\ todo' = [todo EXCEPT ![l] = Tail(@)]
    BY <1>10 DEF Write
  <2>2. h \in Handlers /\ todo' \in [Handlers -> Seq(Handlers)]
    BY <2>1, <1>t, HeadTailProperties
  <2>3. Info(l) \in Events
    <3>1. got[l] \in Seq(Events) /\ got[l] # <<>>
      BY <2>1, <1>t
    <3>2. Len(got[l]) \in 1 .. Len(got[l])
      BY <3>1, EmptySeq, LenProperties
    <3> QED
      BY <3>1, <3>2, ElementOfSeq DEF Info
  <2>4. /\ Append(sent[h], Info(l)) \in Seq(Events)
        /\ Append(_reqs[l], h) \in Seq(Handlers)
    BY <2>2, <2>3, <1>t, AppendProperties
  <2>5. sent' = sent \/ sent' = [sent EXCEPT ![h] = Append(@, Info(l))]
    BY <1>10 DEF Write
  <2>6. _reqs' = _reqs \/ _reqs' = [_reqs EXCEPT ![l] = Append(@, h)]
    BY <1>10 DEF Write
  <2>7. wakes' = wakes \/ wakes' = [wakes EXCEPT ![h] = @ + 1]
    BY <1>10 DEF Write
  <2> HIDE DEF h
  <2>8. sent' \in [Handlers -> Seq(Events)]
    BY <2>2, <2>4, <2>5, <1>t
  <2>9. _reqs' \in [Handlers -> Seq(Handlers)]
    BY <2>4, <2>6, <1>t
  <2>10. wakes' \in [Handlers -> Nat]
    <3>1. wakes[h] + 1 \in Nat
      BY <2>2, <1>t
    <3> QED
      BY <2>2, <2>7, <3>1, <1>t
  <2> QED
    BY <1>10, <1>f, <2>2, <2>8, <2>9, <2>10 DEF TypeOK, Write
<1>11. ASSUME NEW l \in Handlers, Replace(l) PROVE TypeOK'
  BY <1>11, <1>f DEF TypeOK, Replace
<1>12. ASSUME NEW e \in Events, LinkscanHandler(e) PROVE TypeOK'
  BY <1>12, <1>f, AppendProperties, LenProperties DEF TypeOK, LinkscanHandler, Q!Push
<1>13. CASE UNCHANGED vars
  BY <1>13, <1>f DEF TypeOK, vars
<1> QED
  BY <1>1, <1>2, <1>3, <1>4, <1>5, <1>6, <1>7, <1>8, <1>9, <1>10, <1>11, <1>12,
     <1>13 DEF Next, Handler, Loop

\* The types hold throughout, and mutex_ is held by exactly the loop thread
\* that is inside handle_info's critical section (link.cc:69-77).
THEOREM TypeCorrect == Spec => []TypeOK
<1>1. Init => FlagsOK
  BY Zenon DEF Init, FlagsOK
<1>2. Init => TypeOK
  BY <1>1, HandlersAssumption, MaxEventsAssumption
     DEF Init, Q!Init, TypeOK, Events, HandlerStates, LoopStates
<1> QED
  BY <1>2, TypeStep, PTL DEF Spec

-----------------------------------------------------------------------------
(* Writers outlive their use.                                              *)

\* seq lists each request once, and the calls they belong to wait un-notified.
Attached(seq) ==
  \A i \in DOMAIN seq :
    /\ pc[seq[i]] = "wait" /\ wakes[seq[i]] = 0
    /\ \A j \in DOMAIN seq : seq[i] = seq[j] => i = j

\* The strengthening of WriterAlive: whoever may touch the requests finds only
\* such lists, and a request is either still to be written or already kept.
RequestsAttached ==
  /\ mutex_ = NoHandler => Attached(reqs)
  /\ \A l \in Handlers : lpc[l] = "write" =>
       /\ Attached(todo[l]) /\ Attached(_reqs[l])
       /\ \A i \in DOMAIN todo[l], j \in DOMAIN _reqs[l] : todo[l][i] # _reqs[l][j]
  /\ \A h \in Handlers : pc[h] \notin {"wait", "ok"} => wakes[h] = 0


\* A step preserves RequestsAttached.
LEMMA AttachedStep ==
  TypeOK /\ RequestsAttached /\ [Next]_vars => RequestsAttached'
<1> SUFFICES ASSUME TypeOK, RequestsAttached, [Next]_vars PROVE RequestsAttached'
  OBVIOUS
<1> USE HandlersAssumption DEF service, queue, loop
<1>t. /\ pc \in [Handlers -> HandlerStates] /\ wakes \in [Handlers -> Nat]
      /\ reqs \in Seq(Handlers) /\ lpc \in [Handlers -> LoopStates]
      /\ todo \in [Handlers -> Seq(Handlers)] /\ _reqs \in [Handlers -> Seq(Handlers)]
      /\ \A l \in Handlers : mutex_ = l <=> lpc[l] = "write"
  BY DEF TypeOK
<1>e. \A seq \in Seq(Handlers) : \A i \in DOMAIN seq : seq[i] \in Handlers
  BY ElementOfSeq
<1>1. ASSUME NEW h \in Handlers, Check(h) \/ Spawn(h) \/ Register(h) \/ SetMonitoring(h)
      PROVE  RequestsAttached'
  <2>1. /\ pc[h] \notin {"wait", "ok"} /\ pc'[h] \notin {"wait", "ok"}
        /\ \A k \in Handlers \ {h} : pc'[k] = pc[k]
        /\ UNCHANGED <<mutex_, reqs, todo, _reqs, wakes>>
        /\ \A l \in Handlers : lpc'[l] = "write" => lpc[l] = "write"
    BY <1>1, <1>t DEF Check, Spawn, Register, SetMonitoring, Goto
  <2>2. \A seq \in Seq(Handlers) : Attached(seq) => Attached(seq)'
    BY <2>1, <1>e, <1>t DEF Attached
  <2>3. mutex_' = NoHandler => Attached(reqs)'
    BY <2>1, <2>2, <1>t DEF RequestsAttached
  <2>4. ASSUME NEW l \in Handlers, lpc'[l] = "write"
        PROVE  /\ Attached(todo[l])' /\ Attached(_reqs[l])'
               /\ \A i \in DOMAIN todo'[l], j \in DOMAIN _reqs'[l] : todo'[l][i] # _reqs'[l][j]
    BY <2>1, <2>2, <2>4, <1>t DEF RequestsAttached
  <2>5. \A k \in Handlers : pc'[k] \notin {"wait", "ok"} => wakes'[k] = 0
    BY <2>1 DEF RequestsAttached
  <2> QED
    BY <2>3, <2>4, <2>5 DEF RequestsAttached
<1>2. ASSUME NEW h \in Handlers, Attach(h) PROVE RequestsAttached'
  <2>1. /\ mutex_ = NoHandler /\ pc[h] = "attach" /\ pc' = [pc EXCEPT ![h] = "wait"]
        /\ reqs' = Append(reqs, h) /\ UNCHANGED <<mutex_, lpc, wakes>>
    BY <1>2 DEF Attach, Goto
  <2>2. Attached(reqs) /\ wakes[h] = 0
    BY <2>1 DEF RequestsAttached
  <2>3. /\ DOMAIN reqs' = 1 .. Len(reqs) + 1 /\ DOMAIN reqs = 1 .. Len(reqs)
        /\ Len(reqs) \in Nat
        /\ \A i \in DOMAIN reqs : reqs'[i] = reqs[i]
        /\ reqs'[Len(reqs) + 1] = h
    BY <2>1, <1>t, AppendProperties, LenProperties, SMTT(20)
  <2>4. \A i \in DOMAIN reqs : reqs[i] \in Handlers \ {h}
    BY <2>1, <2>2, <1>t, <1>e DEF Attached
  <2>5. Attached(reqs)'
    <3>1. /\ \A i \in DOMAIN reqs : pc'[reqs[i]] = "wait" /\ wakes'[reqs[i]] = 0
          /\ pc'[h] = "wait" /\ wakes'[h] = 0
      BY <2>1, <2>2, <2>4, <1>t DEF Attached
    <3>2. \A i \in DOMAIN reqs' : i \in DOMAIN reqs \/ i = Len(reqs) + 1
      BY <2>3
    <3>3. \A i \in DOMAIN reqs' : pc'[reqs'[i]] = "wait" /\ wakes'[reqs'[i]] = 0
      BY <3>1, <3>2, <2>3
    <3>4. ASSUME NEW i \in DOMAIN reqs', NEW j \in DOMAIN reqs', reqs'[i] = reqs'[j]
          PROVE  i = j
      BY <3>2, <3>4, <2>2, <2>3, <2>4 DEF Attached
    <3> QED
      BY <3>3, <3>4 DEF Attached
  <2>6. \A l \in Handlers : lpc'[l] # "write"
    BY <2>1, <1>t
  <2>7. \A k \in Handlers : pc'[k] \notin {"wait", "ok"} => wakes'[k] = 0
    BY <2>1, <1>t DEF RequestsAttached
  <2> QED
    BY <2>5, <2>6, <2>7 DEF RequestsAttached
<1>3. ASSUME NEW h \in Handlers, Return(h) PROVE RequestsAttached'
  <2>1. /\ wakes[h] > 0 /\ pc' = [pc EXCEPT ![h] = "ok"]
        /\ wakes' = [wakes EXCEPT ![h] = @ - 1]
        /\ UNCHANGED <<mutex_, reqs, lpc, todo, _reqs>>
    BY <1>3 DEF Return, Goto
  <2>2. \A seq \in Seq(Handlers) : Attached(seq) => Attached(seq)'
    BY <2>1, <1>e, <1>t DEF Attached
  <2>3. \A k \in Handlers : pc'[k] \notin {"wait", "ok"} => wakes'[k] = 0
    BY <2>1, <1>t DEF RequestsAttached
  <2> QED
    BY <2>1, <2>2, <2>3, <1>t DEF RequestsAttached
<1>4. ASSUME NEW l \in Handlers, Lock(l) PROVE RequestsAttached'
  <2>1. /\ mutex_ = NoHandler /\ mutex_' = l /\ UNCHANGED <<pc, wakes>>
        /\ lpc' = [lpc EXCEPT ![l] = "write"]
        /\ todo' = [todo EXCEPT ![l] = reqs] /\ _reqs' = [_reqs EXCEPT ![l] = <<>>]
    BY <1>4 DEF Lock
  <2>2. \A k \in Handlers : lpc'[k] = "write" => k = l
    BY <2>1, <1>t
  <2>3. Attached(reqs) /\ todo'[l] = reqs /\ _reqs'[l] = <<>>
    BY <2>1, <1>t DEF RequestsAttached
  <2>4. Attached(todo[l])' /\ Attached(_reqs[l])'
    BY <2>1, <2>3 DEF Attached
  <2> QED
    BY <2>1, <2>2, <2>3, <2>4 DEF RequestsAttached
<1>5. ASSUME NEW l \in Handlers, Write(l) PROVE RequestsAttached'
  <2> DEFINE h == Head(todo[l])
  <2>1. /\ lpc[l] = "write" /\ todo[l] # <<>> /\ UNCHANGED <<mutex_, pc, lpc>>
        /\ todo' = [todo EXCEPT ![l] = Tail(@)]
    BY <1>5 DEF Write
  <2>2. /\ mutex_ = l /\ \A k \in Handlers : lpc'[k] = "write" => k = l
    BY <2>1, <1>t
  <2>3. /\ Attached(todo[l]) /\ Attached(_reqs[l])
        /\ \A i \in DOMAIN todo[l], j \in DOMAIN _reqs[l] : todo[l][i] # _reqs[l][j]
    BY <2>1 DEF RequestsAttached
  <2>4. /\ Len(todo[l]) \in Nat /\ DOMAIN todo[l] = 1 .. Len(todo[l])
        /\ 1 \in DOMAIN todo[l] /\ h = todo[l][1] /\ h \in Handlers
        /\ todo'[l] \in Seq(Handlers) /\ DOMAIN todo'[l] = 1 .. Len(todo[l]) - 1
        /\ \A i \in DOMAIN todo'[l] : i + 1 \in DOMAIN todo[l] /\ todo'[l][i] = todo[l][i + 1]
    BY <2>1, <1>t, HeadTailProperties, LenProperties, EmptySeq
  <2>5. ASSUME NEW i \in DOMAIN todo'[l] PROVE todo'[l][i] # h
    <3>1. i + 1 # 1 /\ i + 1 \in DOMAIN todo[l] /\ todo'[l][i] = todo[l][i + 1]
      BY <2>4
    <3> QED
      BY <3>1, <2>3, <2>4 DEF Attached
  <2>6. Attached(todo'[l])
    BY <2>3, <2>4 DEF Attached
  <2>7. pc[h] = "wait" /\ wakes[h] = 0
    BY <2>3, <2>4 DEF Attached
  <2>8. \A j \in DOMAIN _reqs[l] : _reqs[l][j] # h
    BY <2>3, <2>4
  <2>9. CASE open[h]
    <3>1. wakes' = wakes /\ _reqs' = [_reqs EXCEPT ![l] = Append(@, h)]
      BY <1>5, <2>9 DEF Write
    <3>a. _reqs'[l] = Append(_reqs[l], h) /\ _reqs[l] \in Seq(Handlers)
      BY <3>1, <1>t
    <3>2. /\ Len(_reqs[l]) \in Nat /\ DOMAIN _reqs[l] = 1 .. Len(_reqs[l])
          /\ DOMAIN _reqs'[l] = 1 .. Len(_reqs[l]) + 1
          /\ \A i \in DOMAIN _reqs[l] : _reqs'[l][i] = _reqs[l][i]
          /\ _reqs'[l][Len(_reqs[l]) + 1] = h
      BY <3>a, <2>4, AppendProperties, LenProperties
    <3>3. Attached(todo[l])'
      BY <2>1, <2>6, <3>1 DEF Attached
    <3>4. Attached(_reqs[l])'
      BY <2>1, <2>3, <2>7, <2>8, <3>1, <3>2 DEF Attached
    <3>5. \A i \in DOMAIN todo'[l], j \in DOMAIN _reqs'[l] : todo'[l][i] # _reqs'[l][j]
      <4>1. \A j \in DOMAIN _reqs'[l] : j \in DOMAIN _reqs[l] \/ _reqs'[l][j] = h
        BY <3>2
      <4>2. \A i \in DOMAIN todo'[l], j \in DOMAIN _reqs[l] : todo'[l][i] # _reqs[l][j]
        BY <2>3, <2>4
      <4> QED
        BY <4>1, <4>2, <2>5, <3>2
    <3>6. \A k \in Handlers : pc'[k] \notin {"wait", "ok"} => wakes'[k] = 0
      BY <2>1, <3>1 DEF RequestsAttached
    <3> QED
      BY <2>1, <2>2, <3>3, <3>4, <3>5, <3>6 DEF RequestsAttached
  <2>10. CASE ~open[h]
    <3>1. wakes' = [wakes EXCEPT ![h] = @ + 1] /\ _reqs' = _reqs
      BY <1>5, <2>10 DEF Write
    <3>2. \A k \in Handlers : k # h => wakes'[k] = wakes[k]
      BY <3>1, <1>t
    <3>3. Attached(todo[l])'
      BY <2>1, <2>4, <2>5, <2>6, <3>2, <1>e DEF Attached
    <3>4. Attached(_reqs[l])'
      BY <2>1, <2>3, <2>8, <3>1, <3>2, <1>t, <1>e DEF Attached
    <3>5. \A i \in DOMAIN todo'[l], j \in DOMAIN _reqs'[l] : todo'[l][i] # _reqs'[l][j]
      BY <2>3, <2>4, <3>1
    <3>6. \A k \in Handlers : pc'[k] \notin {"wait", "ok"} => wakes'[k] = 0
      BY <2>1, <2>7, <3>2 DEF RequestsAttached
    <3> QED
      BY <2>1, <2>2, <3>3, <3>4, <3>5, <3>6 DEF RequestsAttached
  <2> QED
    BY <2>9, <2>10
<1>6. ASSUME NEW l \in Handlers, Replace(l) PROVE RequestsAttached'
  <2>1. /\ lpc[l] = "write" /\ mutex_ = l /\ lpc' = [lpc EXCEPT ![l] = "pop"]
        /\ reqs' = _reqs[l] /\ UNCHANGED <<pc, wakes>>
    BY <1>6, <1>t DEF Replace
  <2>2. \A k \in Handlers : lpc'[k] # "write"
    BY <2>1, <1>t
  <2>3. Attached(reqs)'
    BY <2>1 DEF RequestsAttached, Attached
  <2> QED
    BY <2>1, <2>2, <2>3 DEF RequestsAttached
<1>7. ASSUME NEW l \in Handlers, Pop(l) PROVE RequestsAttached'
  <2>1. /\ UNCHANGED <<mutex_, reqs, todo, _reqs, pc, wakes>>
        /\ \A k \in Handlers : lpc'[k] = "write" => lpc[k] = "write"
    BY <1>7, <1>t DEF Pop
  <2> QED
    BY <2>1 DEF RequestsAttached, Attached
<1>8. CASE UNCHANGED <<mutex_, reqs, pc, loop, wakes>>
  BY <1>8 DEF RequestsAttached, Attached
<1> QED
  BY <1>1, <1>2, <1>3, <1>4, <1>5, <1>6, <1>7, <1>8
     DEF Next, Handler, Loop, vars, Disconnect, LinkscanHandler

\* Every list a thread may walk holds waiting calls, each once, none of them
\* notified: the inductive invariant behind WriterAlive.
THEOREM ListsAreAttached == Spec => []RequestsAttached
<1>1. Init => RequestsAttached
  BY DEF Init, RequestsAttached, Attached
<1> QED
  BY <1>1, AttachedStep, TypeCorrect, PTL DEF Spec

\* No event is written through the writer of a call that has returned, however
\* many loop threads and clients there are (link.cc:68-77, 100-111).
THEOREM WritersAreAlive == Spec => []WriterAlive
<1>1. TypeOK /\ RequestsAttached => WriterAlive
  <2> SUFFICES ASSUME TypeOK, RequestsAttached, NEW l \in Handlers,
                      lpc[l] = "write", todo[l] # <<>>
               PROVE  pc[Head(todo[l])] = "wait"
    BY DEF WriterAlive
  <2>1. todo[l] \in Seq(Handlers) /\ Attached(todo[l])
    BY DEF TypeOK, RequestsAttached
  <2>2. 1 \in DOMAIN todo[l] /\ Head(todo[l]) = todo[l][1]
    BY <2>1, EmptySeq, LenProperties, HeadTailProperties
  <2> QED
    BY <2>1, <2>2 DEF Attached
<1> QED
  BY <1>1, TypeCorrect, ListsAreAttached, PTL

-----------------------------------------------------------------------------
(* Every event at most once on each stream.                                *)

Busy(l) == lpc[l] \in {"lock", "write"}
Unsent(e, h) == \A i \in DOMAIN sent[h] : sent[h][i] # e

\* The strengthening of NoDuplicates: the events are taken one by one, each loop
\* thread is busy with an event of its own, and none of the requests that it has
\* still to serve has got that event.
EventsOnce ==
  /\ \A i \in DOMAIN line : line[i] = i
  /\ \A h \in Handlers : \A i \in DOMAIN sent[h] : sent[h][i] <= taken
  /\ \A l \in Handlers : Busy(l) => Info(l) <= taken
  /\ \A l, m \in Handlers : Busy(l) /\ Busy(m) /\ Info(l) = Info(m) => l = m
  /\ \A l \in Handlers : lpc[l] = "lock" => \A h \in Handlers : Unsent(Info(l), h)
  /\ \A l \in Handlers : lpc[l] = "write" =>
       \A k \in DOMAIN todo[l] : Unsent(Info(l), todo[l][k])
  /\ NoDuplicates

\* The event a busy loop thread is busy with is one of the events.
LEMMA InfoIsEvent ==
  ASSUME TypeOK, NEW l \in Handlers, Busy(l) PROVE Info(l) \in Events
<1>1. got[l] \in Seq(Events) /\ got[l] # <<>>
  BY DEF TypeOK, Busy
<1>2. Len(got[l]) \in 1 .. Len(got[l])
  BY <1>1, EmptySeq, LenProperties
<1> QED
  BY <1>1, <1>2, ElementOfSeq DEF Info

\* What Pop does: event taken + 1 becomes the one that l is busy with.
LEMMA PopTakesNext ==
  ASSUME TypeOK, \A i \in DOMAIN line : line[i] = i, NEW l \in Handlers, Pop(l)
  PROVE  /\ taken \in Nat /\ taken' = taken + 1 /\ line' = line
         /\ lpc[l] = "pop" /\ lpc' = [lpc EXCEPT ![l] = "lock"]
         /\ Info(l)' = taken + 1
         /\ \A k \in Handlers \ {l} : Info(k)' = Info(k)
<1>1. /\ line \in Seq(Events) /\ Len(line) \in Nat /\ DOMAIN line = 1 .. Len(line)
      /\ taken \in 0 .. Len(line) /\ got \in [Handlers -> Seq(Events)]
  BY LenProperties DEF TypeOK
<1>2. /\ lpc[l] = "pop" /\ lpc' = [lpc EXCEPT ![l] = "lock"]
      /\ taken < Len(line) /\ taken' = taken + 1 /\ line' = line
      /\ got' = [got EXCEPT ![l] = Append(@, line[taken + 1])]
  BY DEF Pop, Q!Pop
<1>3. taken + 1 \in DOMAIN line /\ taken + 1 \in 1 .. Len(line)
  BY <1>1, <1>2
<1>4. line[taken + 1] = taken + 1 /\ line[taken + 1] \in Events
  BY <1>1, <1>3, ElementOfSeq
<1>5. /\ got'[l] = Append(got[l], line[taken + 1]) /\ got[l] \in Seq(Events)
      /\ \A k \in Handlers \ {l} : got'[k] = got[k]
  BY <1>1, <1>2
<1>6. Len(got'[l]) = Len(got[l]) + 1 /\ got'[l][Len(got[l]) + 1] = line[taken + 1]
  BY <1>4, <1>5, AppendProperties
<1>7. Info(l)' = taken + 1
  BY <1>4, <1>6 DEF Info
<1>8. \A k \in Handlers \ {l} : Info(k)' = Info(k)
  BY <1>5 DEF Info
<1>9. taken \in Nat
  BY <1>1
<1> QED
  BY <1>2, <1>7, <1>8, <1>9

\* What Write does to the streams: at most one of them, the first on the list,
\* gets the event, at its end.
LEMMA WriteSendsInfo ==
  ASSUME TypeOK, NEW l \in Handlers, Write(l)
  PROVE  /\ lpc[l] = "write" /\ 1 \in DOMAIN todo[l] /\ todo[l][1] \in Handlers
         /\ UNCHANGED <<line, taken, got, lpc, mutex_>>
         /\ \A k \in Handlers : Info(k)' = Info(k)
         /\ \A k \in Handlers \ {l} : todo'[k] = todo[k]
         /\ \A i \in DOMAIN todo'[l] :
              i + 1 \in DOMAIN todo[l] /\ i + 1 # 1 /\ todo'[l][i] = todo[l][i + 1]
         /\ \A h \in Handlers : DOMAIN sent[h] = 1 .. Len(sent[h]) /\ Len(sent[h]) \in Nat
         /\ \A h \in Handlers :
              \/ sent'[h] = sent[h]
              \/ /\ h = todo[l][1]
                 /\ DOMAIN sent'[h] = 1 .. Len(sent[h]) + 1
                 /\ \A i \in DOMAIN sent[h] : sent'[h][i] = sent[h][i]
                 /\ sent'[h][Len(sent[h]) + 1] = Info(l)
<1> DEFINE h == Head(todo[l])
<1>1. /\ lpc[l] = "write" /\ todo[l] # <<>> /\ todo' = [todo EXCEPT ![l] = Tail(@)]
      /\ UNCHANGED <<line, taken, got, lpc, mutex_>>
      /\ sent' = sent \/ sent' = [sent EXCEPT ![h] = Append(@, Info(l))]
  BY DEF Write, queue
<1>2. /\ todo \in [Handlers -> Seq(Handlers)] /\ sent \in [Handlers -> Seq(Events)]
  BY DEF TypeOK
<1>3. /\ Len(todo[l]) \in Nat /\ DOMAIN todo[l] = 1 .. Len(todo[l])
      /\ 1 \in DOMAIN todo[l] /\ h = todo[l][1] /\ h \in Handlers
      /\ DOMAIN todo'[l] = 1 .. Len(todo[l]) - 1
      /\ \A i \in DOMAIN todo'[l] :
           i + 1 \in DOMAIN todo[l] /\ i + 1 # 1 /\ todo'[l][i] = todo[l][i + 1]
  BY <1>1, <1>2, HeadTailProperties, LenProperties, EmptySeq
<1>4. Info(l) \in Events
  BY <1>1, InfoIsEvent DEF Busy
<1>5. \A k \in Handlers : DOMAIN sent[k] = 1 .. Len(sent[k]) /\ Len(sent[k]) \in Nat
  BY <1>2, LenProperties
<1> HIDE DEF h
<1>6. ASSUME NEW k \in Handlers, sent'[k] # sent[k]
      PROVE  /\ k = h
             /\ DOMAIN sent'[k] = 1 .. Len(sent[k]) + 1
             /\ \A i \in DOMAIN sent[k] : sent'[k][i] = sent[k][i]
             /\ sent'[k][Len(sent[k]) + 1] = Info(l)
  <2>1. k = h /\ sent'[k] = Append(sent[k], Info(l)) /\ sent[k] \in Seq(Events)
    BY <1>1, <1>2, <1>6
  <2>2. sent'[k] \in Seq(Events) /\ Len(sent'[k]) = Len(sent[k]) + 1
    BY <2>1, <1>4, AppendProperties
  <2>3. DOMAIN sent'[k] = 1 .. Len(sent[k]) + 1
    BY <2>2, LenProperties
  <2> QED
    BY <2>1, <2>3, <1>4, <1>5, AppendProperties
<1>7. \A k \in Handlers : Info(k)' = Info(k)
  BY <1>1 DEF Info
<1>8. \A k \in Handlers \ {l} : todo'[k] = todo[k]
  BY <1>1, <1>2
<1> QED
  BY <1>1, <1>3, <1>5, <1>6, <1>7, <1>8

\* A step preserves EventsOnce.
LEMMA EventsOnceStep ==
  TypeOK /\ RequestsAttached /\ EventsOnce /\ [Next]_vars => EventsOnce'
<1> SUFFICES ASSUME TypeOK, RequestsAttached, EventsOnce, [Next]_vars PROVE EventsOnce'
  OBVIOUS
<1>t. /\ lpc \in [Handlers -> LoopStates] /\ taken \in Nat
      /\ \A l \in Handlers : mutex_ = l <=> lpc[l] = "write"
      /\ sent \in [Handlers -> Seq(Events)] /\ reqs \in Seq(Handlers)
      /\ todo \in [Handlers -> Seq(Handlers)]
      /\ line \in Seq(Events) /\ Len(line) \in Nat /\ DOMAIN line = 1 .. Len(line)
      /\ \A l \in Handlers : Busy(l) => Info(l) \in Nat
      /\ NoHandler \notin Handlers
  BY LenProperties, InfoIsEvent, HandlersAssumption DEF TypeOK, Events
<1>s. \A h \in Handlers : \A i \in DOMAIN sent[h] : sent[h][i] \in Nat
  <2> SUFFICES ASSUME NEW h \in Handlers, NEW i \in DOMAIN sent[h] PROVE sent[h][i] \in Nat
    OBVIOUS
  <2>1. sent[h] \in Seq(Events)
    BY <1>t
  <2>2. DOMAIN sent[h] = 1 .. Len(sent[h])
    BY <2>1, LenProperties
  <2>3. sent[h][i] \in Events
    BY <2>1, <2>2, ElementOfSeq
  <2> QED
    BY <2>3, MaxEventsAssumption DEF Events
<1>1. ASSUME NEW l \in Handlers, Pop(l) PROVE EventsOnce'
  <2>1. /\ taken' = taken + 1 /\ line' = line /\ lpc[l] = "pop"
        /\ lpc' = [lpc EXCEPT ![l] = "lock"] /\ UNCHANGED <<todo, sent>>
        /\ Info(l)' = taken + 1 /\ \A k \in Handlers \ {l} : Info(k)' = Info(k)
    BY <1>1, PopTakesNext DEF EventsOnce, Pop
  <2>2. \A h \in Handlers : \A i \in DOMAIN sent[h] : sent[h][i] <= taken
    BY DEF EventsOnce
  <2>3. \A h \in Handlers : Unsent(taken + 1, h)
    BY <2>2, <1>t, <1>s DEF Unsent
  <2>4. \A k \in Handlers : Busy(k)' => k = l \/ Busy(k)
    BY <2>1, <1>t DEF Busy
  <2>5. \A k \in Handlers : Busy(k) => Info(k) <= taken
    BY DEF EventsOnce
  <2>6. \A h \in Handlers : \A i \in DOMAIN sent'[h] : sent'[h][i] <= taken'
    BY <2>1, <2>2, <1>s, <1>t
  <2>7. ASSUME NEW k \in Handlers, Busy(k)' PROVE Info(k)' <= taken'
    <3>1. CASE k = l
      BY <3>1, <2>1, <1>t
    <3>2. CASE k # l
      <4>1. Busy(k) /\ Info(k)' = Info(k)
        BY <3>2, <2>1, <2>4, <2>7
      <4> QED
        BY <4>1, <2>1, <2>5, <1>t
    <3> QED
      BY <3>1, <3>2
  <2>8. \A k, m \in Handlers : Busy(k)' /\ Busy(m)' /\ Info(k)' = Info(m)' => k = m
    <3> SUFFICES ASSUME NEW k \in Handlers, NEW m \in Handlers, Busy(k)', Busy(m)',
                        Info(k)' = Info(m)'
                 PROVE  k = m
      OBVIOUS
    <3>1. k # l /\ m # l => k = m
      BY <2>1, <2>4 DEF EventsOnce
    <3>2. k # l => Info(k)' <= taken /\ Info(k)' \in Nat
      BY <2>1, <2>4, <2>5, <1>t
    <3>3. m # l => Info(m)' <= taken /\ Info(m)' \in Nat
      BY <2>1, <2>4, <2>5, <1>t
    <3> QED
      BY <3>1, <3>2, <3>3, <2>1, <1>t
  <2>9. \A k \in Handlers : lpc'[k] = "lock" => \A h \in Handlers : Unsent(Info(k), h)'
    <3>1. \A k \in Handlers : lpc'[k] = "lock" => k = l \/ lpc[k] = "lock"
      BY <2>1, <1>t
    <3> QED
      BY <3>1, <2>1, <2>3 DEF EventsOnce, Unsent
  <2>10. \A k \in Handlers : lpc'[k] = "write" =>
           \A i \in DOMAIN todo'[k] : Unsent(Info(k), todo[k][i])'
    <3>1. \A k \in Handlers : lpc'[k] = "write" => k # l /\ lpc[k] = "write"
      BY <2>1, <1>t
    <3> QED
      BY <3>1, <2>1 DEF EventsOnce, Unsent
  <2> QED
    BY <2>1, <2>6, <2>7, <2>8, <2>9, <2>10 DEF EventsOnce, NoDuplicates
<1>2. ASSUME NEW l \in Handlers, Lock(l) PROVE EventsOnce'
  <2>1. /\ lpc[l] = "lock" /\ lpc' = [lpc EXCEPT ![l] = "write"]
        /\ todo' = [todo EXCEPT ![l] = reqs] /\ UNCHANGED <<line, taken, got, sent>>
    BY <1>2 DEF Lock, queue
  <2>2. /\ \A k \in Handlers : Info(k)' = Info(k)
        /\ \A k \in Handlers : Busy(k)' <=> Busy(k)
        /\ \A k \in Handlers : lpc'[k] = "lock" => lpc[k] = "lock"
        /\ \A k \in Handlers : lpc'[k] = "write" => k = l \/ (lpc[k] = "write" /\ todo'[k] = todo[k])
        /\ todo'[l] = reqs
    BY <2>1, <1>t DEF Info, Busy
  <2>3. \A i \in DOMAIN reqs : reqs[i] \in Handlers
    BY <1>t, ElementOfSeq, LenProperties
  <2>4. \A i \in DOMAIN todo'[l] : Unsent(Info(l), todo[l][i])'
    BY <2>1, <2>2, <2>3 DEF EventsOnce, Unsent
  <2>5. \A k \in Handlers : lpc'[k] = "write" =>
           \A i \in DOMAIN todo'[k] : Unsent(Info(k), todo[k][i])'
    BY <2>1, <2>2, <2>4 DEF EventsOnce, Unsent
  <2> QED
    BY <2>1, <2>2, <2>5 DEF EventsOnce, Unsent, NoDuplicates
<1>3. ASSUME NEW l \in Handlers, Write(l) PROVE EventsOnce'
  <2> DEFINE h == todo[l][1]
  <2>1. /\ lpc[l] = "write" /\ 1 \in DOMAIN todo[l] /\ h \in Handlers
        /\ UNCHANGED <<line, taken, got, lpc, mutex_>>
        /\ \A k \in Handlers : Info(k)' = Info(k)
        /\ \A k \in Handlers \ {l} : todo'[k] = todo[k]
        /\ \A i \in DOMAIN todo'[l] :
             i + 1 \in DOMAIN todo[l] /\ i + 1 # 1 /\ todo'[l][i] = todo[l][i + 1]
    BY <1>3, WriteSendsInfo
  <2>2. /\ \A k \in Handlers : DOMAIN sent[k] = 1 .. Len(sent[k]) /\ Len(sent[k]) \in Nat
        /\ \A k \in Handlers :
              \/ sent'[k] = sent[k]
              \/ /\ k = h
                 /\ DOMAIN sent'[k] = 1 .. Len(sent[k]) + 1
                 /\ \A i \in DOMAIN sent[k] : sent'[k][i] = sent[k][i]
                 /\ sent'[k][Len(sent[k]) + 1] = Info(l)
    BY <1>3, WriteSendsInfo
  <2>3. Unsent(Info(l), h) /\ Info(l) <= taken /\ Info(l) \in Nat
    BY <2>1, <1>t DEF EventsOnce, Busy
  <2>4. \A i \in DOMAIN todo'[l] : todo'[l][i] # h
    <3>1. Attached(todo[l])
      BY <2>1 DEF RequestsAttached
    <3> QED
      BY <2>1, <3>1 DEF Attached
  <2> HIDE DEF h
  <2>5. \A k \in Handlers : \A i \in DOMAIN sent'[k] :
          \/ i \in DOMAIN sent[k] /\ sent'[k][i] = sent[k][i]
          \/ k = h /\ i = Len(sent[k]) + 1 /\ sent'[k][i] = Info(l)
    BY <2>2
  <2>6. \A k \in Handlers : \A i \in DOMAIN sent'[k] : sent'[k][i] <= taken'
    BY <2>1, <2>3, <2>5 DEF EventsOnce
  <2>7. NoDuplicates'
    <3> SUFFICES ASSUME NEW k \in Handlers, NEW i \in DOMAIN sent'[k], NEW j \in DOMAIN sent'[k],
                        sent'[k][i] = sent'[k][j]
                 PROVE  i = j
      BY DEF NoDuplicates
    <3>1. i \in DOMAIN sent[k] /\ j \in DOMAIN sent[k] => i = j
      BY <2>2, <2>5 DEF EventsOnce, NoDuplicates
    <3>2. k = h => \A n \in DOMAIN sent[k] : sent[k][n] # Info(l)
      BY <2>3 DEF Unsent
    <3> QED
      BY <3>1, <3>2, <2>5, <2>2
  <2>8. ASSUME NEW k \in Handlers, lpc'[k] = "lock", NEW c \in Handlers
        PROVE  Unsent(Info(k), c)'
    <3>1. Unsent(Info(k), c) /\ Info(k)' = Info(k) /\ Info(k) # Info(l)
      BY <2>1, <2>8 DEF EventsOnce, Busy
    <3> QED
      BY <3>1, <2>5 DEF Unsent
  <2>9. ASSUME NEW k \in Handlers, lpc'[k] = "write", NEW i \in DOMAIN todo'[k]
        PROVE  Unsent(Info(k), todo[k][i])'
    <3>1. k = l
      BY <2>1, <2>9, <1>t
    <3>2. todo'[l][i] # h /\ i + 1 \in DOMAIN todo[l] /\ todo'[l][i] = todo[l][i + 1]
      BY <2>1, <2>4, <2>9, <3>1
    <3>3. todo[l][i + 1] \in Handlers
      BY <3>2, <1>t, ElementOfSeq, LenProperties
    <3>4. sent'[todo'[l][i]] = sent[todo[l][i + 1]]
      BY <3>2, <3>3, <2>2
    <3>5. Unsent(Info(l), todo[l][i + 1])
      BY <2>1, <3>2 DEF EventsOnce
    <3> QED
      BY <3>1, <3>4, <3>5, <2>1 DEF Unsent
  <2> QED
    BY <2>1, <2>6, <2>7, <2>8, <2>9 DEF EventsOnce, Busy
<1>4. ASSUME NEW e \in Events, LinkscanHandler(e) PROVE EventsOnce'
  <2>1. /\ line' = Append(line, e) /\ e = Len(line) + 1
        /\ UNCHANGED <<taken, got, lpc, todo, sent>>
    BY <1>4 DEF LinkscanHandler, Q!Push, loop
  <2>2. DOMAIN line' = 1 .. Len(line) + 1 /\ \A i \in DOMAIN line' : line'[i] = i
    <3>1. /\ line' \in Seq(Events) /\ Len(line') = Len(line) + 1
          /\ \A i \in 1 .. Len(line) : line'[i] = line[i]
          /\ line'[Len(line) + 1] = e
      BY <2>1, <1>t, AppendProperties
    <3>2. DOMAIN line' = 1 .. Len(line) + 1
      BY <3>1, LenProperties
    <3> QED
      BY <3>1, <3>2, <2>1, <1>t DEF EventsOnce
  <2> QED
    BY <2>1, <2>2 DEF EventsOnce, Busy, Info, Unsent, NoDuplicates
<1>q. ASSUME UNCHANGED <<line, taken, got, todo, sent>>,
             \A k \in Handlers : lpc'[k] \in {"lock", "write"} => lpc'[k] = lpc[k]
      PROVE  EventsOnce'
  <2>1. \A k \in Handlers : Info(k)' = Info(k) /\ (Busy(k)' => Busy(k))
    BY <1>q DEF Info, Busy
  <2>3. ASSUME NEW k \in Handlers, lpc'[k] = "lock", NEW h \in Handlers
        PROVE  Unsent(Info(k), h)'
    BY <1>q, <2>3 DEF EventsOnce, Info, Unsent
  <2>4. ASSUME NEW k \in Handlers, lpc'[k] = "write", NEW i \in DOMAIN todo'[k]
        PROVE  Unsent(Info(k), todo[k][i])'
    BY <1>q, <2>4 DEF EventsOnce, Info, Unsent
  <2>5. NoDuplicates'
    BY <1>q DEF EventsOnce, NoDuplicates
  <2> QED
    BY <1>q, <2>1, <2>3, <2>4, <2>5 DEF EventsOnce
<1>5. ASSUME NEW h \in Handlers, Spawn(h) PROVE EventsOnce'
  <2>1. /\ lpc' = [lpc EXCEPT ![h] = "pop"] /\ UNCHANGED <<line, taken, got, todo, sent>>
    BY <1>5 DEF Spawn, queue
  <2>2. \A k \in Handlers : lpc'[k] \in {"lock", "write"} => lpc'[k] = lpc[k]
    BY <2>1, <1>t
  <2> QED
    BY <2>1, <2>2, <1>q
<1>6. ASSUME NEW l \in Handlers, Replace(l) PROVE EventsOnce'
  <2>1. /\ lpc' = [lpc EXCEPT ![l] = "pop"] /\ UNCHANGED <<line, taken, got, todo, sent>>
    BY <1>6 DEF Replace, queue
  <2>2. \A k \in Handlers : lpc'[k] \in {"lock", "write"} => lpc'[k] = lpc[k]
    BY <2>1, <1>t
  <2> QED
    BY <2>1, <2>2, <1>q
<1>7. CASE UNCHANGED <<line, taken, got, lpc, todo, sent>>
  BY <1>7 DEF EventsOnce, Busy, Info, Unsent, NoDuplicates
<1> QED
  BY <1>1, <1>2, <1>3, <1>4, <1>5, <1>6, <1>7
     DEF Next, Handler, Loop, vars, queue, loop, Disconnect, Check, Register, SetMonitoring,
         Attach, Return

\* No stream carries an event twice, however many loop threads take turns: the
\* inductive invariant behind NoDuplicates.
THEOREM EventsAreOnce == Spec => []EventsOnce
<1>1. Init => EventsOnce
  BY DEF Init, Q!Init, EventsOnce, Busy, NoDuplicates
<1> QED
  BY <1>1, EventsOnceStep, TypeCorrect, ListsAreAttached, PTL DEF Spec

\* No event is written twice to a stream (link.cc:57-77).
THEOREM StreamsHaveNoDuplicates == Spec => []NoDuplicates
<1>1. EventsOnce => NoDuplicates
  BY DEF EventsOnce
<1> QED
  BY <1>1, EventsAreOnce, PTL

-----------------------------------------------------------------------------
(* The order of the events.                                                *)

OneLoop == \A l, m \in Loops : l = m
Increasing(seq) == \A i, j \in DOMAIN seq : i < j => seq[i] < seq[j]

\* The strengthening of OneLoopKeepsOrder: while there is only one loop thread,
\* nothing newer than the event it is busy with was written.
InOrder ==
  OneLoop =>
    /\ \A l, h \in Handlers : Busy(l) => \A i \in DOMAIN sent[h] : sent[h][i] <= Info(l)
    /\ \A h \in Handlers : Increasing(sent[h])

\* A step preserves InOrder.
LEMMA InOrderStep ==
  TypeOK /\ EventsOnce /\ InOrder /\ [Next]_vars => InOrder'
<1> SUFFICES ASSUME TypeOK, EventsOnce, InOrder, [Next]_vars, OneLoop'
             PROVE  /\ \A l, h \in Handlers : Busy(l)' =>
                         \A i \in DOMAIN sent'[h] : sent'[h][i] <= Info(l)'
                    /\ \A h \in Handlers : Increasing(sent[h])'
  BY DEF InOrder
<1>t. /\ lpc \in [Handlers -> LoopStates] /\ sent \in [Handlers -> Seq(Events)]
  BY DEF TypeOK
<1>s. \A h \in Handlers : \A i \in DOMAIN sent[h] : sent[h][i] \in Nat
  <2> SUFFICES ASSUME NEW h \in Handlers, NEW i \in DOMAIN sent[h] PROVE sent[h][i] \in Nat
    OBVIOUS
  <2>1. sent[h] \in Seq(Events)
    BY <1>t
  <2>2. DOMAIN sent[h] = 1 .. Len(sent[h])
    BY <2>1, LenProperties
  <2>3. sent[h][i] \in Events
    BY <2>1, <2>2, ElementOfSeq
  <2> QED
    BY <2>3, MaxEventsAssumption DEF Events
\* No loop thread ever ends.
<1>1. Loops \subseteq Loops'
  BY <1>t DEF Next, Handler, Loop, vars, loop, Disconnect, Check, Register, SetMonitoring,
         Attach, Return, Spawn, Pop, Lock, Write, Replace, LinkscanHandler, Loops
<1>2. OneLoop
  BY <1>1 DEF OneLoop
<1>3. /\ \A l, h \in Handlers : Busy(l) => \A i \in DOMAIN sent[h] : sent[h][i] <= Info(l)
      /\ \A h \in Handlers : Increasing(sent[h])
  BY <1>2 DEF InOrder
<1>4. ASSUME NEW l \in Handlers, Pop(l)
      PROVE  /\ UNCHANGED sent
             /\ \A m, h \in Handlers : Busy(m)' =>
                  \A i \in DOMAIN sent'[h] : sent'[h][i] <= Info(m)'
  <2>1. /\ taken \in Nat /\ Info(l)' = taken + 1 /\ UNCHANGED sent
        /\ lpc' = [lpc EXCEPT ![l] = "lock"]
    BY <1>4, PopTakesNext DEF EventsOnce, Pop
  <2>2. \A m \in Handlers : Busy(m)' => m = l
    <3>1. \A m \in Handlers : Busy(m)' => m \in Loops'
      BY DEF Busy, Loops
    <3>2. l \in Loops'
      BY <2>1, <1>t DEF Loops
    <3> QED
      BY <3>1, <3>2 DEF OneLoop
  <2>3. \A h \in Handlers : \A i \in DOMAIN sent[h] : sent[h][i] <= taken
    BY DEF EventsOnce
  <2>4. \A h \in Handlers : \A i \in DOMAIN sent[h] : sent[h][i] <= taken + 1
    BY <2>1, <2>3, <1>s
  <2> QED
    BY <2>1, <2>2, <2>4
<1>5. ASSUME NEW l \in Handlers, Write(l)
      PROVE  /\ \A m, h \in Handlers : Busy(m)' =>
                  \A i \in DOMAIN sent'[h] : sent'[h][i] <= Info(m)'
             /\ \A h \in Handlers : Increasing(sent[h])'
  <2>1. /\ lpc[l] = "write" /\ UNCHANGED lpc /\ 1 \in DOMAIN todo[l]
        /\ \A k \in Handlers : Info(k)' = Info(k)
        /\ \A h \in Handlers : DOMAIN sent[h] = 1 .. Len(sent[h]) /\ Len(sent[h]) \in Nat
        /\ \A h \in Handlers :
              \/ sent'[h] = sent[h]
              \/ /\ h = todo[l][1]
                 /\ DOMAIN sent'[h] = 1 .. Len(sent[h]) + 1
                 /\ \A i \in DOMAIN sent[h] : sent'[h][i] = sent[h][i]
                 /\ sent'[h][Len(sent[h]) + 1] = Info(l)
    BY <1>5, WriteSendsInfo
  <2>2. Busy(l) /\ Info(l) \in Nat
    BY <2>1, InfoIsEvent, MaxEventsAssumption DEF Busy, Events
  <2>3. \A m \in Handlers : Busy(m)' => m = l
    <3>1. \A m \in Handlers : Busy(m)' => m \in Loops
      BY <2>1 DEF Busy, Loops
    <3>2. l \in Loops
      BY <2>1 DEF Loops
    <3> QED
      BY <3>1, <3>2, <1>2 DEF OneLoop
  <2>4. \A h \in Handlers : \A i \in DOMAIN sent'[h] :
          \/ i \in DOMAIN sent[h] /\ sent'[h][i] = sent[h][i]
          \/ /\ h = todo[l][1] /\ i = Len(sent[h]) + 1 /\ sent'[h][i] = Info(l)
    BY <2>1
  <2>5. \A h \in Handlers : \A i \in DOMAIN sent'[h] : sent'[h][i] <= Info(l)'
    BY <2>1, <2>2, <2>4, <1>3
  <2>6. ASSUME NEW h \in Handlers, NEW i \in DOMAIN sent'[h], NEW j \in DOMAIN sent'[h], i < j
        PROVE  sent'[h][i] < sent'[h][j]
    <3>1. i \in DOMAIN sent[h] /\ sent'[h][i] = sent[h][i]
      BY <2>1, <2>4, <2>6
    <3>2. CASE j \in DOMAIN sent[h] /\ sent'[h][j] = sent[h][j]
      BY <3>1, <3>2, <2>6, <1>3 DEF Increasing
    <3>3. CASE h = todo[l][1] /\ sent'[h][j] = Info(l)
      <4>1. sent[h][i] # Info(l)
        BY <3>1, <3>3, <2>1 DEF EventsOnce, Unsent
      <4>2. sent[h][i] <= Info(l) /\ sent[h][i] \in Nat
        BY <3>1, <2>2, <1>3, <1>s
      <4> QED
        BY <4>1, <4>2, <3>1, <3>3, <2>2
    <3> QED
      BY <3>2, <3>3, <2>4
  <2> QED
    BY <2>3, <2>5, <2>6 DEF Increasing
<1>6. ASSUME UNCHANGED <<got, sent>>, \A l \in Handlers : Busy(l)' => Busy(l)
      PROVE  /\ \A l, h \in Handlers : Busy(l)' =>
                  \A i \in DOMAIN sent'[h] : sent'[h][i] <= Info(l)'
             /\ \A h \in Handlers : Increasing(sent[h])'
  BY <1>3, <1>6 DEF Info, Increasing
<1>7. ASSUME NEW l \in Handlers, Spawn(l) \/ Lock(l) \/ Replace(l)
      PROVE  UNCHANGED <<got, sent>> /\ \A k \in Handlers : Busy(k)' => Busy(k)
  BY <1>7, <1>t DEF Spawn, Lock, Replace, queue, Busy
<1>8. CASE UNCHANGED <<got, sent, lpc>>
  BY <1>3, <1>8 DEF Busy, Info, Increasing
<1>9. \A l \in Handlers : Pop(l) => \A h \in Handlers : Increasing(sent[h])'
  BY <1>3, <1>4 DEF Increasing
<1>10. \/ \E l \in Handlers : Pop(l) \/ Write(l) \/ Spawn(l) \/ Lock(l) \/ Replace(l)
       \/ UNCHANGED <<got, sent, lpc>>
  BY DEF Next, Handler, Loop, vars, queue, loop, Disconnect, Check, Register, SetMonitoring,
         Attach, Return, LinkscanHandler, Q!Push
<1> QED
  BY <1>4, <1>5, <1>6, <1>7, <1>8, <1>9, <1>10

\* With a single loop thread each stream carries the events in the order in which
\* the SDK reported them (link.cc:57-77, 92-99).
THEOREM OrderIsKept == Spec => []OneLoopKeepsOrder
<1>1. Init => InOrder
  BY DEF Init, InOrder, Busy, Increasing
<1>2. Spec => []InOrder
  BY <1>1, InOrderStep, TypeCorrect, EventsAreOnce, PTL DEF Spec
<1>3. ASSUME Cardinality(Loops) <= 1 PROVE OneLoop
  <2> SUFFICES ASSUME NEW l \in Loops, NEW m \in Loops, l # m PROVE FALSE
    BY DEF OneLoop
  <2>1. IsFiniteSet(Loops)
    BY FS_Subset, HandlersAssumption DEF Loops
  <2>2. IsFiniteSet({l}) /\ Cardinality({l}) = 1
    BY FS_Singleton
  <2>3. IsFiniteSet({l, m}) /\ Cardinality({l, m}) = 2
    <3>1. {l, m} = {l} \union {m} /\ m \notin {l}
      OBVIOUS
    <3> QED
      BY <3>1, <2>2, FS_AddElement
  <2>4. {l, m} \subseteq Loops
    OBVIOUS
  <2>5. Cardinality({l, m}) <= Cardinality(Loops) /\ Cardinality(Loops) \in Nat
    BY <2>1, <2>4, FS_Subset, FS_CardinalityType
  <2> QED
    BY <2>3, <2>5, <1>3
<1>4. InOrder => OneLoopKeepsOrder
  BY <1>3 DEF InOrder, OneLoopKeepsOrder, Increasing
<1> QED
  BY <1>2, <1>4, PTL

-----------------------------------------------------------------------------
(* Waiting calls are served.                                               *)

\* The strengthening of what WaitersAreServed says of a state.
Started ==
  /\ monitoring => registered /\ Loops # {}
  /\ \A h \in Handlers :
       /\ pc[h] \in {"register", "set", "unavailable"} => lpc[h] # "none"
       /\ pc[h] = "set" => registered
       /\ pc[h] \in {"attach", "wait", "ok"} => registered /\ Loops # {}

\* A step preserves Started.
LEMMA StartedStep == TypeOK /\ Started /\ [Next]_vars => Started'
<1> SUFFICES ASSUME TypeOK, Started, [Next]_vars PROVE Started'
  OBVIOUS
<1>t. /\ lpc \in [Handlers -> LoopStates] /\ pc \in [Handlers -> HandlerStates]
  BY DEF TypeOK
<1>l. \A h \in Handlers : lpc[h] # "none" => lpc'[h] # "none"
  BY <1>t DEF Next, Handler, Loop, vars, loop, Disconnect, Check, Register, SetMonitoring,
         Attach, Return, Spawn, Pop, Lock, Write, Replace, LinkscanHandler
<1>e. Loops # {} => Loops' # {}
  BY <1>l DEF Loops
<1>r. registered => registered'
  BY Zenon DEF Next, Handler, Loop, vars, service, Disconnect, Check, Register, SetMonitoring,
         Attach, Return, Spawn, Pop, Lock, Write, Replace, LinkscanHandler
<1>1. ASSUME NEW h \in Handlers, pc'[h] \in {"register", "set", "unavailable"}
      PROVE  lpc'[h] # "none"
  <2>1. \/ pc[h] \in {"register", "set", "unavailable"}
        \/ Spawn(h)
    BY <1>1, <1>t DEF Next, Handler, Loop, vars, Goto, Disconnect, Check, Register, SetMonitoring,
         Attach, Return, Spawn, Pop, Lock, Write, Replace, LinkscanHandler
  <2>2. Spawn(h) => lpc'[h] # "none"
    BY <1>t DEF Spawn
  <2> QED
    BY <2>1, <2>2, <1>l DEF Started
<1>2. ASSUME NEW h \in Handlers, pc'[h] = "set"
      PROVE  registered'
  <2>1. pc[h] = "set" \/ (Register(h) /\ pc'[h] = "set")
    BY <1>2, <1>t DEF Next, Handler, Loop, vars, Goto, Disconnect, Check, Register, SetMonitoring,
         Attach, Return, Spawn, Pop, Lock, Write, Replace, LinkscanHandler
  <2>2. Register(h) /\ pc'[h] = "set" => registered'
    <3>1. Goto(h, "register", "unavailable") => pc'[h] = "unavailable"
      BY <1>t DEF Goto
    <3> QED
      BY <3>1, Zenon DEF Register
  <2> QED
    BY <2>1, <2>2, <1>r DEF Started
<1>3. ASSUME NEW h \in Handlers, pc'[h] \in {"attach", "wait", "ok"}
      PROVE  registered' /\ Loops' # {}
  <2>1. \/ pc[h] \in {"attach", "wait", "ok"}
        \/ SetMonitoring(h) /\ pc[h] = "set"
        \/ Check(h) /\ monitoring
    BY <1>3, <1>t DEF Next, Handler, Loop, vars, Goto, Disconnect, Check, Register, SetMonitoring,
         Attach, Return, Spawn, Pop, Lock, Write, Replace, LinkscanHandler
  <2>2. registered /\ Loops # {}
    BY <2>1, Zenon DEF Started, Loops
  <2> QED
    BY <2>2, <1>e, <1>r
<1>4. ASSUME monitoring' PROVE registered' /\ Loops' # {}
  <2>1. monitoring \/ \E h \in Handlers : SetMonitoring(h) /\ pc[h] = "set"
    BY <1>4, Zenon DEF Next, Handler, Loop, vars, service, Goto, Disconnect, Check, Register,
         SetMonitoring, Attach, Return, Spawn, Pop, Lock, Write, Replace, LinkscanHandler
  <2>2. registered /\ Loops # {}
    BY <2>1 DEF Started, Loops
  <2> QED
    BY <2>2, <1>e, <1>r
<1> QED
  BY <1>1, <1>2, <1>3, <1>4 DEF Started

\* No call waits for events that cannot come, if monitoring happens to be false at
\* first (link.cc:92-98).
THEOREM WaitersAreServedAlways == Spec => WaitersAreServed
<1>1. Init /\ ~monitoring => Started
  BY Zenon DEF Init, Started
<1>2. Started => \A h \in Handlers : pc[h] = "wait" => registered /\ Loops # {}
  BY Zenon DEF Started
<1> QED
  BY <1>1, <1>2, StartedStep, TypeCorrect, PTL DEF Spec, WaitersAreServed
=============================================================================
