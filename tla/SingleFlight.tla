---------------------------- MODULE SingleFlight ----------------------------
(***************************************************************************)
(* What the merging of concurrent work promises, whatever the work is.     *)
(*                                                                         *)
(* Callers who ask for a key while a call for it is in flight take part in *)
(* that call; a call leaves the flight before its result is published, is  *)
(* published once, and every caller that gets a result gets that one.      *)
(* Authority (begin, wait, end) and Resolver (begin, finish) implement it. *)
(***************************************************************************)
CONSTANTS Callers, Keys, Calls, Results,
          Nobody,    \* no call
          NoResult

VARIABLES
  flight,  \* key -> the call in flight for it
  part,    \* caller -> the call it takes part in
  result,  \* call -> its published result
  got      \* caller -> the result it went on with

vars == <<flight, part, result, got>>

Init ==
  /\ flight = [k \in Keys |-> Nobody]
  /\ part = [c \in Callers |-> Nobody]
  /\ result = [call \in Calls |-> NoResult]
  /\ got = [c \in Callers |-> NoResult]

\* The call has never been used.
Fresh(call) == result[call] = NoResult /\ \A c \in Callers : part[c] # call

Lead(c, k, call) ==
  /\ part[c] = Nobody
  /\ flight[k] = Nobody
  /\ Fresh(call)
  /\ flight' = [flight EXCEPT ![k] = call]
  /\ part' = [part EXCEPT ![c] = call]
  /\ UNCHANGED <<result, got>>

Join(c, k) ==
  /\ part[c] = Nobody
  /\ flight[k] # Nobody
  /\ part' = [part EXCEPT ![c] = flight[k]]
  /\ UNCHANGED <<flight, result, got>>

\* From here on nobody joins the call that was in flight for k.
Land(k) ==
  /\ flight[k] # Nobody
  /\ flight' = [flight EXCEPT ![k] = Nobody]
  /\ UNCHANGED <<part, result, got>>

\* The caller c settles the call it takes part in, and goes on itself.
Publish(c, r) ==
  /\ part[c] # Nobody
  /\ result[part[c]] = NoResult
  /\ \A k \in Keys : flight[k] # part[c]
  /\ result' = [result EXCEPT ![part[c]] = r]
  /\ got' = [got EXCEPT ![c] = r]
  /\ UNCHANGED <<flight, part>>

Receive(c) ==
  /\ part[c] # Nobody
  /\ got[c] = NoResult
  /\ result[part[c]] # NoResult
  /\ got' = [got EXCEPT ![c] = result[part[c]]]
  /\ UNCHANGED <<flight, part, result>>

Next ==
  \/ \E c \in Callers, k \in Keys : Join(c, k) \/ \E call \in Calls : Lead(c, k, call)
  \/ \E k \in Keys : Land(k)
  \/ \E c \in Callers : Receive(c) \/ \E r \in Results : Publish(c, r)

Spec == Init /\ [][Next]_vars
=============================================================================
