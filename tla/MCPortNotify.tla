---------------------------- MODULE MCPortNotify ----------------------------
(***************************************************************************)
(* PortNotify for two ports that the client may have, remove and have      *)
(* again.                                                                  *)
(***************************************************************************)
EXTENDS PortNotify
=============================================================================
