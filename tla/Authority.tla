------------------------------ MODULE Authority ------------------------------
(***************************************************************************)
(* Certificates signed on demand (src/internal/ca/ca.go, GetCertificate).  *)
(*                                                                         *)
(* Each client is one TLS handshake.  Handshakes for one name share one    *)
(* signing: the first registers a call and signs, the others wait for it.  *)
(* Signing may fail or panic; a deferred end takes the call off inflight   *)
(* and wakes the waiters in every case.  A reload clears the cache.        *)
(***************************************************************************)
EXTENDS Integers, FiniteSets

CONSTANTS
  Clients, Names,
  Capacity, TTL,  \* of the cache
  MaxClock,       \* bound: how far time runs
  Nobody,         \* no call
  NoCert,         \* the nil certificate
  Faults,         \* sign may return an error
  Panics,         \* sign may panic
  Clears          \* a reload may call ClearCache

ASSUME AuthorityAssumption ==
  /\ Capacity \in Nat /\ TTL \in Int /\ MaxClock \in Nat
  /\ Nobody \notin Clients /\ NoCert \notin Clients
  /\ Nobody \notin [cert: Clients \cup {NoCert}, err: BOOLEAN]
  /\ Faults \in BOOLEAN /\ Panics \in BOOLEAN /\ Clears \in BOOLEAN

\* A call is named by the client that leads it, a certificate by who signed it.
Certificates == Clients
Outcomes == [cert: Certificates \cup {NoCert}, err: BOOLEAN]
Nothing == [cert |-> NoCert, err |-> FALSE]

VARIABLES
  pc,        \* where each client is
  name,      \* per client: serverName, in lower case
  call,      \* per client: the local call
  outcome,   \* per client: the named results of GetCertificate
  panicked,  \* the clients whose sign panicked
  inflight,  \* Authority.inflight: name -> call, Nobody if there is none
  calls,     \* certCall: [done, cert, err]
  entries,   \* Authority.cache
  clock

vars == <<pc, name, call, outcome, panicked, inflight, calls, entries, clock>>

C == INSTANCE Cache

Init ==
  /\ pc = [c \in Clients |-> "idle"]
  /\ name \in [Clients -> Names]
  /\ call = [c \in Clients |-> Nobody]
  /\ outcome = [c \in Clients |-> Nothing]
  /\ panicked = {}
  /\ inflight = [n \in Names |-> Nobody]
  /\ calls = [c \in Clients |-> [done |-> FALSE, cert |-> NoCert, err |-> FALSE]]
  /\ entries = C!NoEntries
  /\ clock = 0

Goto(c, step) == pc' = [pc EXCEPT ![c] = step]
Return(c, cert, err) == outcome' = [outcome EXCEPT ![c] = [cert |-> cert, err |-> err]]
Cached(c) == C!Holds(entries, name[c], clock)
ReturnCached(c) == Return(c, entries[name[c]].value, FALSE)
Lookup(c) == entries' = C!AfterGet(entries, name[c], clock)

-----------------------------------------------------------------------------
\* A hello without SNI is refused at once.
Hello(c) ==
  /\ pc[c] = "idle"
  /\ \/ Goto(c, "get") /\ UNCHANGED outcome
     \/ Goto(c, "done") /\ Return(c, NoCert, TRUE)
  /\ UNCHANGED <<name, call, panicked, inflight, calls, entries, clock>>

Get(c) ==
  /\ pc[c] = "get"
  /\ Lookup(c)
  /\ IF Cached(c)
     THEN ReturnCached(c) /\ Goto(c, "done")
     ELSE Goto(c, "begin") /\ UNCHANGED outcome
  /\ UNCHANGED <<name, call, panicked, inflight, calls, clock>>

Lead(c) ==
  /\ inflight' = [inflight EXCEPT ![name[c]] = c]
  /\ call' = [call EXCEPT ![c] = c]
  /\ Goto(c, "recheck")

\* Seeded fault: inflight is not looked at under the lock that writes it.
BeginUnchecked(c) ==
  /\ pc[c] = "begin"
  /\ Lead(c)
  /\ UNCHANGED <<name, outcome, panicked, calls, entries, clock>>

Begin(c) ==
  /\ pc[c] = "begin"
  /\ \/ /\ inflight[name[c]] = Nobody
        /\ Lead(c)
     \/ /\ inflight[name[c]] # Nobody
        /\ call' = [call EXCEPT ![c] = inflight[name[c]]]
        /\ Goto(c, "wait")
        /\ UNCHANGED inflight
  /\ UNCHANGED <<name, outcome, panicked, calls, entries, clock>>

Wait(c) ==
  /\ pc[c] = "wait"
  /\ calls[call[c]].done
  /\ Return(c, calls[call[c]].cert, calls[call[c]].err)
  /\ Goto(c, "done")
  /\ UNCHANGED <<name, call, panicked, inflight, calls, entries, clock>>

\* Seeded fault: the leader signs without looking at the cache again.
RecheckForgotten(c) ==
  /\ pc[c] = "recheck"
  /\ Goto(c, "sign")
  /\ UNCHANGED <<name, call, outcome, panicked, inflight, calls, entries, clock>>

\* The second look at the cache, now that no other handshake can sign.
Recheck(c) ==
  /\ pc[c] = "recheck"
  /\ Lookup(c)
  /\ IF Cached(c)
     THEN ReturnCached(c) /\ Goto(c, "unregister")
     ELSE Goto(c, "sign") /\ UNCHANGED outcome
  /\ UNCHANGED <<name, call, panicked, inflight, calls, clock>>

\* Seeded fault: end is not deferred, a panic leaves the call registered.
SignNotDeferred(c) ==
  /\ pc[c] = "sign"
  /\ \/ /\ Return(c, c, FALSE)
        /\ Goto(c, "put")
        /\ UNCHANGED panicked
     \/ /\ Panics
        /\ panicked' = panicked \cup {c}
        /\ Goto(c, "done")
        /\ UNCHANGED outcome
  /\ UNCHANGED <<name, call, inflight, calls, entries, clock>>

\* Seeded fault: what sign returned is cached without looking at its error.
SignErrorCached(c) ==
  /\ pc[c] = "sign"
  /\ \/ Return(c, c, FALSE)
     \/ Faults /\ Return(c, NoCert, TRUE)
  /\ Goto(c, "put")
  /\ UNCHANGED <<name, call, panicked, inflight, calls, entries, clock>>

\* A panic leaves both named results nil for the deferred end.
Sign(c) ==
  /\ pc[c] = "sign"
  /\ \/ /\ Return(c, c, FALSE)
        /\ Goto(c, "put")
        /\ UNCHANGED panicked
     \/ /\ Faults
        /\ Return(c, NoCert, TRUE)
        /\ Goto(c, "unregister")
        /\ UNCHANGED panicked
     \/ /\ Panics
        /\ panicked' = panicked \cup {c}
        /\ Goto(c, "unregister")
        /\ UNCHANGED outcome
  /\ UNCHANGED <<name, call, inflight, calls, entries, clock>>

Put(c) ==
  /\ pc[c] = "put"
  /\ entries' = C!AfterPut(entries, name[c], outcome[c].cert, clock)
  /\ Goto(c, "unregister")
  /\ UNCHANGED <<name, call, outcome, panicked, inflight, calls, clock>>

\* The deferred end: the call leaves inflight under mu ...
Unregister(c) ==
  /\ pc[c] = "unregister"
  /\ inflight' = [inflight EXCEPT ![name[c]] = Nobody]
  /\ Goto(c, "deliver")
  /\ UNCHANGED <<name, call, outcome, panicked, calls, entries, clock>>

\* Seeded fault: the results are evaluated when end is deferred, not when it
\* runs, so the waiters get what they were then.
DeliverEarlyArguments(c) ==
  /\ pc[c] = "deliver"
  /\ calls' = [calls EXCEPT ![call[c]] = [done |-> FALSE, cert |-> NoCert, err |-> FALSE]]
  /\ Goto(c, "close")
  /\ UNCHANGED <<name, call, outcome, panicked, inflight, entries, clock>>

\* ... deliver assigns the named results to it ...
Deliver(c) ==
  /\ pc[c] = "deliver"
  /\ calls' = [calls EXCEPT ![call[c]] =
                 [done |-> FALSE, cert |-> outcome[c].cert, err |-> outcome[c].err]]
  /\ Goto(c, "close")
  /\ UNCHANGED <<name, call, outcome, panicked, inflight, entries, clock>>

\* ... and wakes the waiters; a panic then goes on to net/http.
Close(c) ==
  /\ pc[c] = "close"
  /\ calls' = [calls EXCEPT ![call[c]] = [done |-> TRUE, cert |-> @.cert, err |-> @.err]]
  /\ Goto(c, "done")
  /\ UNCHANGED <<name, call, outcome, panicked, inflight, entries, clock>>

-----------------------------------------------------------------------------
ClearCache ==
  /\ Clears
  /\ entries' = C!Clear(entries)
  /\ UNCHANGED <<pc, name, call, outcome, panicked, inflight, calls, clock>>

Tick ==
  /\ clock < MaxClock
  /\ clock' = clock + 1
  /\ UNCHANGED <<pc, name, call, outcome, panicked, inflight, calls, entries>>

Step(c) ==
  \/ Get(c) \/ Begin(c) \/ Wait(c) \/ Recheck(c) \/ Sign(c) \/ Put(c)
  \/ Unregister(c) \/ Deliver(c) \/ Close(c)

Next == ClearCache \/ Tick \/ \E c \in Clients : Hello(c) \/ Step(c)

Spec == Init /\ [][Next]_vars

\* Handshakes run; signing is a computation that ends.
FairSpec == Spec /\ \A c \in Clients : WF_vars(Step(c))

-----------------------------------------------------------------------------
(* Properties.                                                             *)

\* Every variable keeps its type: no nil certificate is ever cached.
TypeOK ==
  /\ pc \in [Clients -> {"idle", "get", "begin", "wait", "recheck", "sign",
                         "put", "unregister", "deliver", "close", "done"}]
  /\ name \in [Clients -> Names]
  /\ call \in [Clients -> Clients \cup {Nobody}]
  /\ outcome \in [Clients -> Outcomes]
  /\ panicked \subseteq Clients
  /\ inflight \in [Names -> Clients \cup {Nobody}]
  /\ calls \in [Clients -> [done: BOOLEAN, cert: Certificates \cup {NoCert}, err: BOOLEAN]]
  /\ DOMAIN entries \subseteq Names
  /\ \A n \in DOMAIN entries : entries[n] \in [value: Certificates, expiresAt: Int]
  /\ clock \in Nat

\* No two handshakes sign for one name at the same time.
OneSigner ==
  \A c, d \in Clients :
    pc[c] \in {"sign", "put"} /\ pc[d] \in {"sign", "put"} /\ name[c] = name[d] => c = d

\* No certificate is signed for a name while a valid one is cached, whatever
\* handshakes came and went between the first look at the cache and begin.
NoNeedlessSigning ==
  \A c \in Clients : pc[c] = "sign" => ~Cached(c)

\* A call as its waiters see it, and what a client that took part returned with.
Published == [c \in Clients |->
  IF calls[c].done THEN [cert |-> calls[c].cert, err |-> calls[c].err] ELSE Nobody]
Received == [c \in Clients |->
  IF pc[c] = "done" /\ call[c] # Nobody THEN outcome[c] ELSE Nobody]

SF == INSTANCE SingleFlight WITH
  Callers <- Clients, Keys <- Names, Calls <- Clients, Results <- Outcomes,
  NoResult <- Nobody, flight <- inflight, part <- call,
  result <- Published, got <- Received

\* However handshakes, panics and resets interleave, signing on demand is a
\* single flight: nobody joins a call that has landed, its result is final when
\* the waiters wake, and all who took part return with it.
ImplementsSingleFlight == SF!Spec

\* A handshake is left with neither a certificate nor an error only if the
\* sign it relied on panicked (net/http recovers the leader, not the others).
NilOnlyAfterPanic ==
  \A c \in Clients :
    pc[c] = "done" /\ outcome[c] = Nothing => call[c] \in panicked

\* Every handshake ends, even when the one it waits for panics (ca.go:81).
HandshakeEnds == \A c \in Clients : pc[c] # "idle" ~> pc[c] = "done"
==============================================================================
