-------------------------------- MODULE Stream --------------------------------
(***************************************************************************)
(* One direction of a connection between two ends: what one end sends the  *)
(* other gets in order, nothing twice and nothing else.  The stream may    *)
(* end before all of it has been got, but not before an end has closed.    *)
(***************************************************************************)
EXTENDS Naturals, Sequences

CONSTANT Chunks

VARIABLES
  sent,    \* what one end has sent
  got,     \* what the other end has got of it
  closed,  \* an end has closed its side
  ended    \* nothing more is got

vars == <<sent, got, closed, ended>>

Init == got = <<>> /\ ended = FALSE

Send ==
  /\ \E chunk \in Chunks : sent' = Append(sent, chunk)
  /\ UNCHANGED <<got, closed, ended>>

Get ==
  /\ ~ended /\ Len(got) < Len(sent)
  /\ got' = Append(got, sent[Len(got) + 1])
  /\ UNCHANGED <<sent, closed, ended>>

Close == closed' = TRUE /\ UNCHANGED <<sent, got, ended>>

End == closed /\ ended' = TRUE /\ UNCHANGED <<sent, got, closed>>

Next == Send \/ Get \/ Close \/ End

Spec == Init /\ [][Next]_vars
===============================================================================
