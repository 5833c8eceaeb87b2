-------------------------------- MODULE Fifo --------------------------------
(***************************************************************************)
(* What a Queue<T> of queue.h promises to the threads that share it: the   *)
(* items form one line, in the order in which the pushes took effect, and  *)
(* every pop hands the next item of that line to exactly one consumer.     *)
(* Nothing is said of locks, of waiting or of notifications.               *)
(***************************************************************************)
EXTENDS Naturals, Sequences

CONSTANTS Items, Consumers

VARIABLES
  line,    \* every item pushed so far, in the order of the pushes
  taken,   \* how many items of the line have been popped
  got      \* got[c]: the items consumer c was handed, in order

vars == <<line, taken, got>>

Init ==
  /\ line = <<>>
  /\ taken = 0
  /\ got = [c \in Consumers |-> <<>>]

Push(item) ==
  /\ line' = Append(line, item)
  /\ UNCHANGED <<taken, got>>

Pop(c) ==
  /\ taken < Len(line)
  /\ taken' = taken + 1
  /\ got' = [got EXCEPT ![c] = Append(@, line[taken + 1])]
  /\ UNCHANGED line

Next ==
  \/ \E item \in Items : Push(item)
  \/ \E c \in Consumers : Pop(c)

Spec == Init /\ [][Next]_vars
=============================================================================
