--------------------------- MODULE MCStatusSocket ---------------------------
(* StatusSocket by itself for TLC: clients and publishers are alike.       *)
EXTENDS StatusSocket, TLC

Symmetry == Permutations(Clients) \cup Permutations(Publishers)
=============================================================================
