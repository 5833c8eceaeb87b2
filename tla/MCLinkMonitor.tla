--------------------------- MODULE MCLinkMonitor ---------------------------
(***************************************************************************)
(* A small instance of LinkMonitor: two Monitor calls, a few events.       *)
(***************************************************************************)
EXTENDS LinkMonitor, TLC
CONSTANTS h1, h2
MCHandlers == {h1, h2}
=============================================================================
