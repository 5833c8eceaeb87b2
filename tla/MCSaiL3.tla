------------------------------ MODULE MCSaiL3 ------------------------------
(***************************************************************************)
(* Small instances of SaiL3: two ports beside one VLAN.                    *)
(***************************************************************************)
EXTENDS SaiL3, TLC
CONSTANTS ip1, ip2, m1, m2
MCSymmetry == Permutations({m1, m2}) \union Permutations({ip1, ip2})
=============================================================================
