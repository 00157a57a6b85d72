------------------------------ MODULE MCServing ------------------------------
(* Values of the constants of Serving for TLC. *)
EXTENDS Serving, TLC

CONSTANTS c1, c2

MCSymmetry == Permutations(Conns)
=============================================================================
