------------------------------ MODULE MsgQueue ------------------------------
(***************************************************************************)
(* queue.h: a blocking queue of unbounded length, guarded by mutex_, whose *)
(* pop() sleeps on the condition variable cond_ while the queue is empty.  *)
(* link.cc and l2.cc share one between the SDK's callback thread (which    *)
(* pushes events) and the service's loop threads (which pop them), and     *)
(* use one per Monitor call to wake the handler of that call.              *)
(*                                                                         *)
(* One step of a thread is what it does between two points where another   *)
(* thread can run: taking the mutex, the critical section, the             *)
(* notification.  cond_.wait releases the mutex and falls asleep in one    *)
(* step, may return without a notification (spuriously), and takes the     *)
(* mutex again before the loop of pop() tests the queue again.             *)
(***************************************************************************)
EXTENDS Naturals, Sequences, FiniteSets

CONSTANTS
  Producers,   \* threads that call push()
  Consumers,   \* threads that call pop()
  NoThread,    \* the owner of a mutex nobody holds
  MaxPushes    \* bound: how often each producer calls push()

ASSUME ThreadsAssumption ==
  /\ IsFiniteSet(Producers)
  /\ IsFiniteSet(Consumers)
  /\ Producers \intersect Consumers = {}
  /\ NoThread \notin Producers \union Consumers

ASSUME MaxPushesAssumption == MaxPushes \in Nat

VARIABLES
  queue_,      \* the items in the queue, oldest first
  mutex_,      \* the thread that holds the mutex, or NoThread
  pc,          \* where each thread is
  calls,       \* calls[p]: the push() calls of producer p so far
  pushed,      \* history: the items in the order they entered the queue
  got          \* history: got[c], the items popped by c, in order

vars == <<queue_, mutex_, pc, calls, pushed, got>>

Threads == Producers \union Consumers

\* The k-th item that producer p pushes.
Items == Producers \X (1 .. MaxPushes)

\* "lock": inside push() or pop(), wants the mutex.   "push", "test": holds it.
\* "notify": between mlock.unlock() and cond_.notify_one().
\* "asleep": in cond_.wait.   "out": in neither function.
ProducerStates == {"out", "lock", "push", "notify"}
ConsumerStates == {"out", "lock", "test", "asleep"}

At(S, state) == {t \in S : pc[t] = state}

Popped == Len(pushed) - Len(queue_)

Init ==
  /\ queue_ = <<>>
  /\ mutex_ = NoThread
  /\ pc = [t \in Threads |-> "out"]
  /\ calls = [p \in Producers |-> 0]
  /\ pushed = <<>>
  /\ got = [c \in Consumers |-> <<>>]

Goto(t, from, to) ==
  /\ pc[t] = from
  /\ pc' = [pc EXCEPT ![t] = to]

Lock(t, to) ==
  /\ mutex_ = NoThread
  /\ mutex_' = t
  /\ Goto(t, "lock", to)
  /\ UNCHANGED <<queue_, calls, pushed, got>>

(***************************************************************************)
(* Mutants: the same functions with a plausible bug each.                  *)
(***************************************************************************)

\* Notifies only when the queue was empty before: sleepers can be missed.
PushItemNotifyFirst(p) ==
  /\ Goto(p, "push", IF queue_ = <<>> THEN "notify" ELSE "out")
  /\ queue_' = Append(queue_, <<p, calls[p]>>)
  /\ pushed' = Append(pushed, <<p, calls[p]>>)
  /\ mutex_' = NoThread
  /\ UNCHANGED <<calls, got>>

\* The notification reaches nobody.
NotifyNobody(p) ==
  /\ Goto(p, "notify", "out")
  /\ UNCHANGED <<queue_, mutex_, calls, pushed, got>>

\* "if (queue_.empty()) wait" instead of "while": a consumer that wakes up
\* after another one took the item pops all the same.
PopItemUntested(c) ==
  /\ pushed # <<>>
  /\ Goto(c, "test", "out")
  /\ queue_' = IF queue_ = <<>> THEN <<>> ELSE Tail(queue_)
  /\ got' = [got EXCEPT ![c] =
                Append(@, IF queue_ = <<>> THEN pushed[Popped] ELSE Head(queue_))]
  /\ mutex_' = NoThread
  /\ UNCHANGED <<calls, pushed>>

\* Returns with the mutex still held.
PopItemLocked(c) ==
  /\ queue_ # <<>>
  /\ Goto(c, "test", "out")
  /\ queue_' = Tail(queue_)
  /\ got' = [got EXCEPT ![c] = Append(@, Head(queue_))]
  /\ UNCHANGED <<mutex_, calls, pushed>>

(***************************************************************************)
(* void push(const T& item)                                                *)
(***************************************************************************)
PushCall(p) ==
  /\ calls[p] < MaxPushes
  /\ Goto(p, "out", "lock")
  /\ calls' = [calls EXCEPT ![p] = @ + 1]
  /\ UNCHANGED <<queue_, mutex_, pushed, got>>

PushLock(p) == Lock(p, "push")

\* queue_.push(item); mlock.unlock();
PushItem(p) ==
  /\ Goto(p, "push", "notify")
  /\ queue_' = Append(queue_, <<p, calls[p]>>)
  /\ pushed' = Append(pushed, <<p, calls[p]>>)
  /\ mutex_' = NoThread
  /\ UNCHANGED <<calls, got>>

\* cond_.notify_one(): one sleeper, if there is any, stops sleeping.
NotifyOne(p) ==
  /\ pc[p] = "notify"
  /\ IF At(Consumers, "asleep") = {}
       THEN pc' = [pc EXCEPT ![p] = "out"]
       ELSE \E c \in At(Consumers, "asleep") :
              pc' = [pc EXCEPT ![p] = "out", ![c] = "lock"]
  /\ UNCHANGED <<queue_, mutex_, calls, pushed, got>>

(***************************************************************************)
(* T pop() and void pop(T& item), which differ only in how they hand the   *)
(* item over.                                                              *)
(***************************************************************************)
PopCall(c) ==
  /\ Goto(c, "out", "lock")
  /\ UNCHANGED <<queue_, mutex_, calls, pushed, got>>

PopLock(c) == Lock(c, "test")

\* while (queue_.empty()) cond_.wait(mlock);
PopWait(c) ==
  /\ queue_ = <<>>
  /\ Goto(c, "test", "asleep")
  /\ mutex_' = NoThread
  /\ UNCHANGED <<queue_, calls, pushed, got>>

\* cond_.wait returns although nobody called notify_one().
SpuriousWakeup(c) ==
  /\ Goto(c, "asleep", "lock")
  /\ UNCHANGED <<queue_, mutex_, calls, pushed, got>>

\* front(), pop(), and the destructor of mlock.
PopItem(c) ==
  /\ queue_ # <<>>
  /\ Goto(c, "test", "out")
  /\ queue_' = Tail(queue_)
  /\ got' = [got EXCEPT ![c] = Append(@, Head(queue_))]
  /\ mutex_' = NoThread
  /\ UNCHANGED <<calls, pushed>>

Next ==
  \/ \E p \in Producers :
       PushCall(p) \/ PushLock(p) \/ PushItem(p) \/ NotifyOne(p)
  \/ \E c \in Consumers :
       PopCall(c) \/ PopLock(c) \/ PopWait(c) \/ SpuriousWakeup(c) \/ PopItem(c)

Spec == Init /\ [][Next]_vars

(***************************************************************************)
(* A thread that can run does.  Nobody has to call push() or pop(), and a  *)
(* spurious wakeup need not happen.  The mutex is not assumed fair.        *)
(***************************************************************************)
Fairness ==
  /\ \A p \in Producers : WF_vars(PushLock(p) \/ PushItem(p) \/ NotifyOne(p))
  /\ \A c \in Consumers : WF_vars(PopLock(c) \/ PopWait(c) \/ PopItem(c))

FairSpec == Spec /\ Fairness

(***************************************************************************)
(* Properties                                                              *)
(***************************************************************************)

\* Every variable has its type, and the mutex is held by exactly the thread
\* that runs between a lock and the matching unlock or wait (queue.h:11-17,
\* 30-32).
TypeOK ==
  /\ queue_ \in Seq(Items)
  /\ pushed \in Seq(Items)
  /\ Len(queue_) <= Len(pushed)
  /\ pc \in [Threads -> ProducerStates \union ConsumerStates]
  /\ \A p \in Producers : pc[p] \in ProducerStates
  /\ \A c \in Consumers : pc[c] \in ConsumerStates
  /\ mutex_ \in Threads \union {NoThread}
  /\ \A t \in Threads : mutex_ = t <=> pc[t] \in {"push", "test"}
  /\ calls \in [Producers -> 0 .. MaxPushes]
  /\ \A p \in Producers : pc[p] = "push" => calls[p] > 0
  /\ \A p \in Producers : pc[p] = "lock" => calls[p] > 0
  /\ got \in [Consumers -> Seq(Items)]

\* push() calls notify_one after it has released the mutex (queue.h:32-33),
\* once per item whatever the length of the queue: as long as someone sleeps,
\* every item in the queue has a notification still to come or a consumer
\* that is awake inside pop() and will test the queue again.  No wakeup is lost.
NoLostWakeup ==
  At(Consumers, "asleep") # {} =>
    Len(queue_) <= Cardinality(At(Producers, "notify"))
                     + Cardinality(At(Consumers, "lock") \union At(Consumers, "test"))

\* The queue holds the last items of the line of pushed items: the link between
\* the detailed state and the abstract one, on which the refinement rests.
QueueIsSuffix ==
  \A i \in 1 .. Len(queue_) : queue_[i] = pushed[Popped + i]

\* The queue of queue.h implements the abstract line of items: no item is lost,
\* duplicated, reordered or handed to two threads, whatever the interleaving.
Line == INSTANCE Fifo WITH line <- pushed, taken <- Popped, got <- got
ImplementsFifo == Line!Spec

\* A pop() that is in progress while there is an item returns, unless other
\* consumers empty the queue first: nobody sleeps forever beside an item.
PopReturns ==
  \A c \in Consumers :
    (pc[c] # "out" /\ queue_ # <<>>) ~> (pc[c] = "out" \/ queue_ = <<>>)
=============================================================================
