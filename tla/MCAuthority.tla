----------------------------- MODULE MCAuthority -----------------------------
(* Values of the constants of Authority for TLC. *)
EXTENDS Authority, TLC

CONSTANTS c1, c2, c3, n1, n2

MCSymmetry == Permutations(Clients) \cup Permutations(Names)
=============================================================================
