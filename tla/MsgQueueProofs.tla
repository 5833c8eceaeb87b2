--------------------------- MODULE MsgQueueProofs ---------------------------
(***************************************************************************)
(* Theorems about MsgQueue, for any finite sets of producers and consumers *)
(* and any number of pushes: the types and the lock discipline, the        *)
(* absence of lost wakeups, and the refinement of Fifo.                    *)
(***************************************************************************)
EXTENDS MsgQueue, FiniteSetTheorems, SequenceTheorems, TLAPS

-----------------------------------------------------------------------------
(* Types and the lock discipline.                                          *)

\* A step of a thread preserves the types and the ownership of the mutex.
LEMMA TypeStep == TypeOK /\ [Next]_vars => TypeOK'
<1> SUFFICES ASSUME TypeOK, [Next]_vars PROVE TypeOK'
  OBVIOUS
<1> USE ThreadsAssumption, MaxPushesAssumption DEF TypeOK
<1>1. ASSUME NEW p \in Producers, PushCall(p) PROVE TypeOK'
  BY <1>1 DEF PushCall, Goto, Threads, ProducerStates, ConsumerStates, Items
<1>2. ASSUME NEW p \in Producers, PushLock(p) PROVE TypeOK'
  BY <1>2 DEF PushLock, Lock, Goto, Threads, ProducerStates, ConsumerStates, Items
<1>3. ASSUME NEW p \in Producers, PushItem(p) PROVE TypeOK'
  <2>1. <<p, calls[p]>> \in Items
    BY <1>3 DEF PushItem, Goto, Items
  <2>2. /\ queue_' \in Seq(Items) /\ pushed' \in Seq(Items)
        /\ Len(queue_') = Len(queue_) + 1 /\ Len(pushed') = Len(pushed) + 1
    BY <1>3, <2>1, AppendProperties DEF PushItem
  <2>3. Len(queue_') <= Len(pushed')
    BY <2>2
  <2> QED
    BY <1>3, <2>2, <2>3 DEF PushItem, Goto, Threads, ProducerStates, ConsumerStates
<1>4. ASSUME NEW p \in Producers, NotifyOne(p) PROVE TypeOK'
  BY <1>4, ZenonT(30) DEF NotifyOne, At, Threads, ProducerStates, ConsumerStates, Items
<1>5. ASSUME NEW c \in Consumers, PopCall(c) PROVE TypeOK'
  BY <1>5 DEF PopCall, Goto, Threads, ProducerStates, ConsumerStates, Items
<1>6. ASSUME NEW c \in Consumers, PopLock(c) PROVE TypeOK'
  BY <1>6 DEF PopLock, Lock, Goto, Threads, ProducerStates, ConsumerStates, Items
<1>7. ASSUME NEW c \in Consumers, PopWait(c) PROVE TypeOK'
  BY <1>7 DEF PopWait, Goto, Threads, ProducerStates, ConsumerStates, Items
<1>8. ASSUME NEW c \in Consumers, SpuriousWakeup(c) PROVE TypeOK'
  BY <1>8 DEF SpuriousWakeup, Goto, Threads, ProducerStates, ConsumerStates, Items
<1>9. ASSUME NEW c \in Consumers, PopItem(c) PROVE TypeOK'
  <2>1. /\ Head(queue_) \in Items /\ queue_' \in Seq(Items)
        /\ Len(queue_') = Len(queue_) - 1
    BY <1>9, HeadTailProperties DEF PopItem
  <2>2. got' \in [Consumers -> Seq(Items)]
    BY <1>9, <2>1, AppendProperties DEF PopItem
  <2> QED
    BY <1>9, <2>1, <2>2 DEF PopItem, Goto, Threads, ProducerStates, ConsumerStates
<1>10. CASE UNCHANGED vars
  BY <1>10 DEF vars, Items
<1> QED
  BY <1>1, <1>2, <1>3, <1>4, <1>5, <1>6, <1>7, <1>8, <1>9, <1>10 DEF Next

\* The types hold throughout, and the mutex is owned by exactly the thread
\* that is between a lock and its unlock (queue.h:11-17, 30-32).
THEOREM TypeCorrect == Spec => []TypeOK
<1>1. Init => TypeOK
  BY ThreadsAssumption, MaxPushesAssumption
     DEF Init, TypeOK, Threads, ProducerStates, ConsumerStates
<1> QED
  BY <1>1, TypeStep, PTL DEF Spec

-----------------------------------------------------------------------------
(* No wakeup is lost.                                                      *)

Notifying == At(Producers, "notify")
Awake == At(Consumers, "lock") \union At(Consumers, "test")

\* The counts that NoLostWakeup compares are natural numbers.
LEMMA CountsAreNat ==
  /\ IsFiniteSet(Notifying) /\ Cardinality(Notifying) \in Nat
  /\ IsFiniteSet(Awake) /\ Cardinality(Awake) \in Nat
<1>1. Notifying \subseteq Producers /\ Awake \subseteq Consumers
  BY DEF Notifying, Awake, At
<1> QED
  BY <1>1, ThreadsAssumption, FS_Subset, FS_CardinalityType

\* How adding or removing one thread changes a count.
LEMMA CountStep ==
  ASSUME NEW S, NEW x, IsFiniteSet(S)
  PROVE  /\ Cardinality(S) \in Nat
         /\ x \notin S => Cardinality(S \union {x}) = Cardinality(S) + 1
         /\ x \in S => Cardinality(S \ {x}) = Cardinality(S) - 1
BY FS_AddElement, FS_RemoveElement, FS_CardinalityType

\* A step preserves the balance between items, notifications and consumers
\* that will look at the queue again.
LEMMA WakeupStep ==
  TypeOK /\ NoLostWakeup /\ [Next]_vars => NoLostWakeup'
<1> SUFFICES ASSUME TypeOK, NoLostWakeup, [Next]_vars,
                    At(Consumers, "asleep")' # {}
             PROVE  Len(queue_)' <= Cardinality(Notifying)' + Cardinality(Awake)'
  BY DEF NoLostWakeup, Notifying, Awake
<1> USE ThreadsAssumption
<1>n. Len(queue_) \in Nat /\ queue_ \in Seq(Items)
  BY LenProperties DEF TypeOK
<1>c. /\ IsFiniteSet(Notifying) /\ Cardinality(Notifying) \in Nat
      /\ IsFiniteSet(Awake) /\ Cardinality(Awake) \in Nat
  BY CountsAreNat
<1>old. At(Consumers, "asleep") # {} =>
          Len(queue_) <= Cardinality(Notifying) + Cardinality(Awake)
  BY DEF NoLostWakeup, Notifying, Awake
<1>1. ASSUME NEW p \in Producers, PushCall(p) \/ PushLock(p)
      PROVE  Len(queue_)' <= Cardinality(Notifying)' + Cardinality(Awake)'
  <2>1. /\ queue_' = queue_ /\ Notifying' = Notifying /\ Awake' = Awake
        /\ At(Consumers, "asleep")' = At(Consumers, "asleep")
    BY <1>1 DEF PushCall, PushLock, Lock, Goto, Notifying, Awake, At, TypeOK,
                Threads
  <2> QED
    BY <2>1, <1>old
<1>2. ASSUME NEW p \in Producers, PushItem(p)
      PROVE  Len(queue_)' <= Cardinality(Notifying)' + Cardinality(Awake)'
  <2>1. /\ Notifying' = Notifying \union {p} /\ p \notin Notifying
        /\ Awake' = Awake /\ At(Consumers, "asleep")' = At(Consumers, "asleep")
    BY <1>2 DEF PushItem, Goto, Notifying, Awake, At, TypeOK, Threads
  <2>2. Len(queue_') = Len(queue_) + 1
    <3>1. <<p, calls[p]>> \in Items
      BY <1>2, MaxPushesAssumption DEF PushItem, Goto, Items, TypeOK
    <3> QED
      BY <1>2, <1>n, <3>1, AppendProperties DEF PushItem
  <2>3. Cardinality(Notifying') = Cardinality(Notifying) + 1
    BY <2>1, <1>c, CountStep
  <2> QED
    BY <2>1, <2>2, <2>3, <1>old, <1>n, <1>c
<1>3. ASSUME NEW p \in Producers, NotifyOne(p)
      PROVE  Len(queue_)' <= Cardinality(Notifying)' + Cardinality(Awake)'
  <2>1. CASE At(Consumers, "asleep") = {}
    \* Nobody sleeps afterwards either.
    BY <2>1, <1>3 DEF NotifyOne, At, TypeOK, Threads
  <2>2. CASE At(Consumers, "asleep") # {}
    <3>1. PICK c \in At(Consumers, "asleep") :
            pc' = [pc EXCEPT ![p] = "out", ![c] = "lock"]
      BY <1>3, <2>2 DEF NotifyOne
    <3>2. c \in Consumers /\ pc[c] = "asleep" /\ pc[p] = "notify" /\ queue_' = queue_
      BY <3>1, <1>3 DEF NotifyOne, At
    <3>3. Notifying' = Notifying \ {p} /\ p \in Notifying
      BY <3>1, <3>2 DEF Notifying, At, TypeOK, Threads
    <3>4. Awake' = Awake \union {c} /\ c \notin Awake
      BY <3>1, <3>2 DEF Awake, At, TypeOK, Threads
    <3>5. /\ Cardinality(Notifying') = Cardinality(Notifying) - 1
          /\ Cardinality(Awake') = Cardinality(Awake) + 1
      BY <3>3, <3>4, <1>c, CountStep
    <3> QED
      BY <3>2, <3>5, <2>2, <1>old, <1>n, <1>c
  <2> QED
    BY <2>1, <2>2
<1>4. ASSUME NEW c \in Consumers, PopCall(c) \/ SpuriousWakeup(c)
      PROVE  Len(queue_)' <= Cardinality(Notifying)' + Cardinality(Awake)'
  <2>1. /\ Notifying' = Notifying /\ queue_' = queue_
        /\ Awake' = Awake \union {c} /\ c \notin Awake
        /\ At(Consumers, "asleep") # {}
    BY <1>4 DEF PopCall, SpuriousWakeup, Goto, Notifying, Awake, At, TypeOK,
                Threads
  <2>2. Cardinality(Awake') = Cardinality(Awake) + 1
    BY <2>1, <1>c, CountStep
  <2> QED
    BY <2>1, <2>2, <1>old, <1>n, <1>c
<1>5. ASSUME NEW c \in Consumers, PopLock(c)
      PROVE  Len(queue_)' <= Cardinality(Notifying)' + Cardinality(Awake)'
  <2>1. /\ queue_' = queue_ /\ Notifying' = Notifying /\ Awake' = Awake
        /\ At(Consumers, "asleep")' = At(Consumers, "asleep")
    BY <1>5 DEF PopLock, Lock, Goto, Notifying, Awake, At, TypeOK, Threads
  <2> QED
    BY <2>1, <1>old
<1>6. ASSUME NEW c \in Consumers, PopWait(c)
      PROVE  Len(queue_)' <= Cardinality(Notifying)' + Cardinality(Awake)'
  <2>1. Len(queue_') = 0
    BY <1>6, EmptySeq DEF PopWait
  <2>2. IsFiniteSet(Notifying') /\ IsFiniteSet(Awake')
    <3>1. Notifying' \subseteq Producers /\ Awake' \subseteq Consumers
      BY DEF Notifying, Awake, At
    <3> QED
      BY <3>1, FS_Subset
  <2> QED
    BY <2>1, <2>2, FS_CardinalityType
<1>7. ASSUME NEW c \in Consumers, PopItem(c)
      PROVE  Len(queue_)' <= Cardinality(Notifying)' + Cardinality(Awake)'
  <2>1. /\ Notifying' = Notifying /\ Awake' = Awake \ {c} /\ c \in Awake
        /\ At(Consumers, "asleep")' = At(Consumers, "asleep")
    BY <1>7 DEF PopItem, Goto, Notifying, Awake, At, TypeOK, Threads
  <2>2. Len(queue_') = Len(queue_) - 1
    BY <1>7, <1>n, HeadTailProperties DEF PopItem
  <2>3. Cardinality(Awake') = Cardinality(Awake) - 1
    BY <2>1, <1>c, CountStep
  <2> QED
    BY <2>1, <2>2, <2>3, <1>old, <1>n, <1>c
<1>8. CASE UNCHANGED vars
  <2>1. /\ queue_' = queue_ /\ Notifying' = Notifying /\ Awake' = Awake
        /\ At(Consumers, "asleep")' = At(Consumers, "asleep")
    BY <1>8 DEF vars, Notifying, Awake, At
  <2> QED
    BY <2>1, <1>old
<1> QED
  BY <1>1, <1>2, <1>3, <1>4, <1>5, <1>6, <1>7, <1>8 DEF Next

\* Whatever the interleaving, no push loses its wakeup (queue.h:29-34).
THEOREM WakeupsAreNotLost == Spec => []NoLostWakeup
<1>1. Init => NoLostWakeup
  BY DEF Init, NoLostWakeup, At, Threads
<1> QED
  BY <1>1, WakeupStep, TypeCorrect, PTL DEF Spec

-----------------------------------------------------------------------------
(* The queue implements the abstract line of items.                        *)

\* A step keeps the queue equal to the last items of the line.
LEMMA SuffixStep ==
  TypeOK /\ QueueIsSuffix /\ [Next]_vars => QueueIsSuffix'
<1> SUFFICES ASSUME TypeOK, QueueIsSuffix, [Next]_vars PROVE QueueIsSuffix'
  OBVIOUS
<1>t. /\ queue_ \in Seq(Items) /\ pushed \in Seq(Items)
      /\ Len(queue_) \in Nat /\ Len(pushed) \in Nat /\ Len(queue_) <= Len(pushed)
  BY LenProperties DEF TypeOK
<1>1. ASSUME NEW p \in Producers, PushItem(p) PROVE QueueIsSuffix'
  <2>1. <<p, calls[p]>> \in Items
    BY <1>1, MaxPushesAssumption DEF PushItem, Goto, Items, TypeOK
  <2>2. /\ Len(queue_') = Len(queue_) + 1 /\ Len(pushed') = Len(pushed) + 1
        /\ \A i \in 1 .. Len(queue_) : queue_'[i] = queue_[i]
        /\ \A i \in 1 .. Len(pushed) : pushed'[i] = pushed[i]
        /\ queue_'[Len(queue_) + 1] = <<p, calls[p]>>
        /\ pushed'[Len(pushed) + 1] = <<p, calls[p]>>
    BY <1>1, <1>t, <2>1, AppendProperties DEF PushItem
  <2>3. ASSUME NEW i \in 1 .. Len(queue_') PROVE queue_'[i] = pushed'[Popped' + i]
    <3>1. Popped' = Popped /\ Popped \in Nat /\ Popped = Len(pushed) - Len(queue_)
      BY <2>2, <1>t DEF Popped
    <3>2. CASE i \in 1 .. Len(queue_)
      <4>1. Popped + i \in 1 .. Len(pushed)
        BY <3>1, <3>2, <1>t
      <4>2. queue_[i] = pushed[Popped + i]
        BY <3>2 DEF QueueIsSuffix
      <4> QED
        BY <4>1, <4>2, <3>1, <3>2, <2>2
    <3>3. CASE i = Len(queue_) + 1
      BY <3>1, <3>3, <2>2, <1>t
    <3> QED
      BY <3>2, <3>3, <2>2, <1>t
  <2> QED
    BY <2>3 DEF QueueIsSuffix
<1>2. ASSUME NEW c \in Consumers, PopItem(c) PROVE QueueIsSuffix'
  <2>1. /\ Len(queue_') = Len(queue_) - 1 /\ pushed' = pushed
        /\ \A i \in 1 .. Len(queue_') : queue_'[i] = queue_[i + 1]
    BY <1>2, <1>t, HeadTailProperties DEF PopItem
  <2>2. Popped' = Popped + 1 /\ Popped \in Nat
    BY <2>1, <1>t DEF Popped
  <2>3. ASSUME NEW i \in 1 .. Len(queue_') PROVE queue_'[i] = pushed'[Popped' + i]
    <3>1. i + 1 \in 1 .. Len(queue_) /\ Popped' + i = Popped + (i + 1)
      BY <2>1, <2>2, <1>t
    <3> QED
      BY <3>1, <2>1 DEF QueueIsSuffix
  <2> QED
    BY <2>3 DEF QueueIsSuffix
<1>3. CASE UNCHANGED <<queue_, pushed>>
  BY <1>3 DEF QueueIsSuffix, Popped
<1> QED
  BY <1>1, <1>2, <1>3
     DEF Next, vars, PushCall, PushLock, Lock, NotifyOne, PopCall, PopLock,
         PopWait, SpuriousWakeup

\* Every step of the detailed queue is a push, a pop or a stutter of the line.
LEMMA FifoStep ==
  TypeOK /\ QueueIsSuffix /\ [Next]_vars => [Line!Next]_(Line!vars)
<1> SUFFICES ASSUME TypeOK, QueueIsSuffix, [Next]_vars
             PROVE  Line!Next \/ UNCHANGED Line!vars
  OBVIOUS
<1>t. /\ queue_ \in Seq(Items) /\ pushed \in Seq(Items)
      /\ Len(queue_) \in Nat /\ Len(pushed) \in Nat /\ Len(queue_) <= Len(pushed)
  BY LenProperties DEF TypeOK
<1>1. ASSUME NEW p \in Producers, PushItem(p) PROVE Line!Next
  <2>1. <<p, calls[p]>> \in Items
    BY <1>1, MaxPushesAssumption DEF PushItem, Goto, Items, TypeOK
  <2>2. Popped' = Popped
    BY <1>1, <1>t, <2>1, AppendProperties DEF PushItem, Popped
  <2>3. Line!Push(<<p, calls[p]>>)
    BY <1>1, <2>2 DEF PushItem, Line!Push
  <2> QED
    BY <2>1, <2>3 DEF Line!Next
<1>2. ASSUME NEW c \in Consumers, PopItem(c) PROVE Line!Next
  <2>1. /\ Len(queue_) > 0 /\ Len(queue_') = Len(queue_) - 1 /\ pushed' = pushed
    BY <1>2, <1>t, EmptySeq, HeadTailProperties DEF PopItem
  <2>2. Popped' = Popped + 1 /\ Popped < Len(pushed)
    BY <2>1, <1>t DEF Popped
  <2>3. Head(queue_) = pushed[Popped + 1]
    <3>1. Head(queue_) = queue_[1] /\ 1 \in 1 .. Len(queue_)
      BY <2>1, <1>t
    <3> QED
      BY <3>1 DEF QueueIsSuffix
  <2>4. Line!Pop(c)
    BY <1>2, <2>2, <2>3 DEF PopItem, Line!Pop
  <2> QED
    BY <2>4 DEF Line!Next
<1>3. CASE UNCHANGED <<queue_, pushed, got>>
  BY <1>3 DEF Line!vars, Popped
<1> QED
  BY <1>1, <1>2, <1>3
     DEF Next, vars, PushCall, PushLock, Lock, NotifyOne, PopCall, PopLock,
         PopWait, SpuriousWakeup

\* queue.h delivers every item once, in the order of the pushes, to one thread.
THEOREM QueueImplementsFifo == Spec => ImplementsFifo
<1>1. Init => QueueIsSuffix /\ Line!Init
  BY DEF Init, QueueIsSuffix, Popped, Line!Init
<1> QED
  BY <1>1, SuffixStep, FifoStep, TypeCorrect, PTL
     DEF Spec, ImplementsFifo, Line!Spec
=============================================================================
