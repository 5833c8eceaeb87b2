----------------------------- MODULE MCMsgQueue -----------------------------
(***************************************************************************)
(* A small instance of MsgQueue: two callback threads, two loop threads.   *)
(***************************************************************************)
EXTENDS MsgQueue, TLC
CONSTANTS p1, p2, c1, c2
MCProducers == {p1, p2}
MCConsumers == {c1, c2}
=============================================================================
