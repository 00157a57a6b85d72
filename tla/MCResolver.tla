----------------------------- MODULE MCResolver -----------------------------
(* Values of the constants of Resolver for TLC. *)
EXTENDS Resolver

CONSTANTS d1, d2, h1

\* The first list has two name servers, the one that replaces it has one.
MCServers == <<2, 1>>
=============================================================================
