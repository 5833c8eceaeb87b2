------------------------------ MODULE MCServer ------------------------------
(****************************************************************************)
(* A small instance of Server: bitmaps of two words of two bits, and the    *)
(* texts of up to five tokens over the ports 1 and 3 (one in each word, one *)
(* between them), 4 (the first one past the bitmap) and 17 (its word number *)
(* wraps to the first word).                                                *)
(****************************************************************************)
EXTENDS Server, TLC
CONSTANTS c1, c2
MCClients == {c1, c2}
Punctuation == {Comma, Dash, Other}
\* A run of digits is one number: two numbers never follow each other.
MCTexts ==
  {t \in UNION {[1 .. n -> {1, 3, 4, 17} \union Punctuation] : n \in 0 .. 5} :
     \A i \in 1 .. Len(t) - 1 : t[i] \in Punctuation \/ t[i + 1] \in Punctuation}
MCSymmetry == Permutations(MCClients)
=============================================================================
