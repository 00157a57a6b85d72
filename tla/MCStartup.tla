------------------------------ MODULE MCStartup ------------------------------
(* Values of the constants of Startup for TLC. *)
EXTENDS Startup, TLC

CONSTANTS p1, p2

Given(port, config, cert, key) ==
  [valid |-> TRUE, config |-> config, cert |-> cert, key |-> key, port |-> port]

\* Two ports, so that two processes share one or do not.
MCOptions ==
  {Given(port, FALSE, FALSE, FALSE) : port \in {9080, 9081}}
    \cup {Given(9081, TRUE, TRUE, TRUE), Given(9081, FALSE, TRUE, FALSE),
          [Given(9080, FALSE, FALSE, FALSE) EXCEPT !.valid = FALSE]}
=============================================================================
