----------------------------- MODULE MCSaiVlan -----------------------------
(***************************************************************************)
(* Small instances of SaiVlan: the vids 10, 11, ... are the ports' own.    *)
(***************************************************************************)
EXTENDS SaiVlan, TLC
CONSTANTS p1, p2, p3
MCPorts2 == {p1, p2}
MCPorts3 == {p1, p2, p3}
MCDefaultVid2 == p1 :> 10 @@ p2 :> 11
MCDefaultVid3 == p1 :> 10 @@ p2 :> 11 @@ p3 :> 12
=============================================================================
