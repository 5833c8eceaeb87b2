----------------------------- MODULE MCOfdpaApp -----------------------------
(***************************************************************************)
(* OfdpaApp with VLANs 10 and 20 as in main.go, two ports in one of them   *)
(* and one in the other.                                                   *)
(***************************************************************************)
EXTENDS OfdpaApp, TLC
CONSTANTS own10, own20, a, b, m1, m2
MCPortsOf == (10 :> <<9, 10>>) @@ (20 :> <<17>>)
MCOwnIp == (10 :> own10) @@ (20 :> own20)
MCSymmetry == Permutations({a, b}) \union Permutations({m1, m2})
=============================================================================
