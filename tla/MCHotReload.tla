---------------------------- MODULE MCHotReload ----------------------------
(* Values of the constants of HotReload for TLC. *)
EXTENDS HotReload

\* Two valid files of different routes, one of them with name servers of its
\* own, one file of the same size, one that does not parse and one whose name
\* servers are refused.
MCContents ==
  { [size |-> 1, ok |-> TRUE,  routes |-> "A", servers |-> "system"],
    [size |-> 2, ok |-> TRUE,  routes |-> "B", servers |-> "dns"],
    [size |-> 1, ok |-> TRUE,  routes |-> "A", servers |-> "dns"],
    [size |-> 2, ok |-> FALSE, routes |-> "A", servers |-> "system"],
    [size |-> 1, ok |-> TRUE,  routes |-> "B", servers |-> "bad"] }

\* The two files that differ in everything.
MCTwoContents ==
  { [size |-> 1, ok |-> TRUE, routes |-> "A", servers |-> "system"],
    [size |-> 2, ok |-> TRUE, routes |-> "B", servers |-> "dns"] }
=============================================================================
