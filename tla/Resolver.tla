------------------------------ MODULE Resolver ------------------------------
(***************************************************************************)
(* Dialling by name (src/internal/dns/resolver.go).                        *)
(*                                                                         *)
(* Each dialer is one goroutine in DialContext: it looks its host up in    *)
(* the cache, joins the lookup in flight for it or leads one, connects,    *)
(* and once, when addresses from the cache do not answer, evicts them and  *)
(* looks up again.  Meanwhile a reload replaces the name servers and       *)
(* clears the cache (Update, then ClearCache from Proxy.resetCaches).      *)
(*                                                                         *)
(* The addresses of an answer are abstracted to the generation of name     *)
(* servers that gave it: what tells a stale answer from a fresh one.       *)
(***************************************************************************)
EXTENDS Integers, FiniteSets

CONSTANTS
  Dialers, Hosts,
  Capacity, TTL,   \* of the cache
  Servers,         \* generation of name servers -> how many there are
  MaxClock,        \* bound: how far time runs
  Nobody,          \* no dialer, no call
  Deadlines,       \* the contexts of dialers may expire
  Faults           \* a name server may fail to answer, a dial may fail

Generations == DOMAIN Servers
NoTargets == 0     \* the nil slice

ASSUME ResolverAssumption ==
  /\ Capacity \in Nat /\ TTL \in Int /\ MaxClock \in Nat
  /\ Generations \subseteq Nat \ {0} /\ 1 \in Generations
  /\ \A g \in Generations : Servers[g] \in Nat \ {0}
  /\ Nobody \notin Dialers /\ Nobody \notin Dialers \X {1, 2}
  /\ Nobody \notin [targets: Generations \cup {0}, err: BOOLEAN]
  /\ Deadlines \in BOOLEAN /\ Faults \in BOOLEAN

\* A dialer leads at most one lookup in each of its two rounds.
Calls == Dialers \X {1, 2}

VARIABLES
  pc,        \* where each dialer is
  dial,      \* per dialer: its locals [host, round, fromCache, call, asked, tried, targets, err]
  expired,   \* the dialers whose context is done
  result,    \* per dialer: what DialContext returned
  inflight,  \* Resolver.inflight: host -> call, Nobody if there is none
  calls,     \* lookupCall: [done, targets, err]
  entries,   \* Resolver.cache
  current,   \* Resolver.current: the generation of name servers in force
  reset,     \* how far the reload in progress is
  clock,
  carried    \* history: hosts whose lookup was in flight at the last ClearCache

vars == <<pc, dial, expired, result, inflight, calls, entries, current, reset,
          clock, carried>>

C == INSTANCE Cache

Unstarted == [host |-> Nobody, round |-> 1, fromCache |-> FALSE, call |-> Nobody,
              asked |-> 0, tried |-> 0, targets |-> NoTargets, err |-> FALSE]

Init ==
  /\ pc = [d \in Dialers |-> "idle"]
  /\ dial = [d \in Dialers |-> Unstarted]
  /\ expired = {}
  /\ result = [d \in Dialers |-> "none"]
  /\ inflight = [h \in Hosts |-> Nobody]
  /\ calls = [c \in Calls |-> [done |-> FALSE, targets |-> NoTargets, err |-> FALSE]]
  /\ entries = C!NoEntries
  /\ current = 1
  /\ reset = "none"
  /\ clock = 0
  /\ carried = {}

shared == <<inflight, calls>>
reload == <<current, reset, carried>>
Goto(d, step) == pc' = [pc EXCEPT ![d] = step]
Set(d, locals) == dial' = [dial EXCEPT ![d] = locals]
Host(d) == dial[d].host
Return(d, r) == Goto(d, "done") /\ result' = [result EXCEPT ![d] = r]

-----------------------------------------------------------------------------
(* DialContext, dialHost.                                                  *)

Dial(d, h) ==
  /\ pc[d] = "idle"
  /\ Set(d, [dial[d] EXCEPT !.host = h])
  /\ Goto(d, "get")
  /\ UNCHANGED <<expired, result, shared, entries, reload, clock>>

\* The host is an IP literal: no lookup.
DialLiteral(d) ==
  /\ pc[d] = "idle"
  /\ Set(d, [dial[d] EXCEPT !.targets = current])
  /\ Goto(d, "connect")
  /\ UNCHANGED <<expired, result, shared, entries, reload, clock>>

\* The context of the request is cancelled, or its deadline passes.
Expire(d) ==
  /\ Deadlines
  /\ pc[d] \notin {"idle", "done"}
  /\ d \notin expired
  /\ expired' = expired \cup {d}
  /\ UNCHANGED <<pc, dial, result, shared, entries, reload, clock>>

-----------------------------------------------------------------------------
(* lookup, begin, finish.                                                  *)

Get(d) ==
  /\ pc[d] = "get"
  /\ entries' = C!AfterGet(entries, Host(d), clock)
  /\ IF C!Holds(entries, Host(d), clock)
     THEN /\ Set(d, [dial[d] EXCEPT !.targets = entries[Host(d)].value,
                                    !.fromCache = TRUE])
          /\ Goto(d, "connect")
     ELSE /\ Set(d, [dial[d] EXCEPT !.fromCache = FALSE])
          /\ Goto(d, "begin")
  /\ UNCHANGED <<expired, result, shared, reload, clock>>

Lead(d) ==
  LET call == <<d, dial[d].round>> IN
  /\ inflight' = [inflight EXCEPT ![Host(d)] = call]
  /\ Set(d, [dial[d] EXCEPT !.call = call])
  /\ Goto(d, "ask")

\* Seeded fault: inflight is not looked at under the lock that writes it.
BeginUnchecked(d) ==
  /\ pc[d] = "begin"
  /\ Lead(d)
  /\ UNCHANGED <<expired, result, calls, entries, reload, clock>>

Begin(d) ==
  /\ pc[d] = "begin"
  /\ \/ /\ inflight[Host(d)] = Nobody
        /\ Lead(d)
     \/ /\ inflight[Host(d)] # Nobody
        /\ Set(d, [dial[d] EXCEPT !.call = inflight[Host(d)]])
        /\ Goto(d, "wait")
        /\ UNCHANGED inflight
  /\ UNCHANGED <<expired, result, calls, entries, reload, clock>>

\* A follower: the select over call.done and ctx.Done.
Wait(d) ==
  /\ pc[d] = "wait"
  /\ \/ /\ calls[dial[d].call].done
        /\ IF calls[dial[d].call].err
           THEN Return(d, "lookupError") /\ UNCHANGED dial
           ELSE /\ Set(d, [dial[d] EXCEPT !.targets = calls[dial[d].call].targets])
                /\ Goto(d, "connect")
                /\ UNCHANGED result
     \/ /\ d \in expired
        /\ Return(d, "contextDone")
        /\ UNCHANGED dial
  /\ UNCHANGED <<expired, shared, entries, reload, clock>>

\* resolve reads the list of name servers once, before its loop.
Ask(d) ==
  /\ pc[d] = "ask"
  /\ Set(d, [dial[d] EXCEPT !.asked = current, !.tried = 0])
  /\ Goto(d, "attempt")
  /\ UNCHANGED <<expired, result, shared, entries, reload, clock>>

Answered(d, targets, err) ==
  /\ Set(d, [dial[d] EXCEPT !.targets = targets, !.err = err])
  /\ Goto(d, "unregister")

Failed(d) ==
  IF dial[d].tried + 1 < Servers[dial[d].asked]
  THEN Set(d, [dial[d] EXCEPT !.tried = @ + 1]) /\ UNCHANGED pc
  ELSE Answered(d, NoTargets, TRUE)

\* Seeded fault: an answer without addresses passes for a success.
AttemptEmptyAnswer(d) ==
  /\ pc[d] = "attempt"
  /\ \/ d \notin expired /\ Answered(d, dial[d].asked, FALSE)
     \/ d \notin expired /\ Answered(d, NoTargets, FALSE)
     \/ (Faults \/ d \in expired) /\ Failed(d)
  /\ UNCHANGED <<expired, result, shared, entries, reload, clock>>

\* One name server: it answers, or gives an error, no address or nothing in
\* time, which are all one to resolve: the next server, or the last error.
Attempt(d) ==
  /\ pc[d] = "attempt"
  /\ \/ d \notin expired /\ Answered(d, dial[d].asked, FALSE)
     \/ (Faults \/ d \in expired) /\ Failed(d)
  /\ UNCHANGED <<expired, result, shared, entries, reload, clock>>

\* Seeded fault: the waiters are woken before the result is assigned.
UnregisterAndClose(d) ==
  /\ pc[d] = "unregister"
  /\ inflight' = [inflight EXCEPT ![Host(d)] = Nobody]
  /\ calls' = [calls EXCEPT ![dial[d].call].done = TRUE]
  /\ Goto(d, "assign")
  /\ UNCHANGED <<dial, expired, result, entries, reload, clock>>

\* finish: first the call leaves inflight, under mu ...
Unregister(d) ==
  /\ pc[d] = "unregister"
  /\ inflight' = [inflight EXCEPT ![Host(d)] = Nobody]
  /\ Goto(d, "assign")
  /\ UNCHANGED <<dial, expired, result, calls, entries, reload, clock>>

\* ... then its result is assigned ...
Assign(d) ==
  /\ pc[d] = "assign"
  /\ calls' = [calls EXCEPT ![dial[d].call] =
                 [done |-> FALSE, targets |-> dial[d].targets, err |-> dial[d].err]]
  /\ Goto(d, "close")
  /\ UNCHANGED <<dial, expired, result, inflight, entries, reload, clock>>

\* Seeded fault: a leader that failed wakes nobody.
CloseOnSuccess(d) ==
  /\ pc[d] = "close"
  /\ calls' = [calls EXCEPT ![dial[d].call].done = ~dial[d].err]
  /\ IF dial[d].err
     THEN Return(d, "lookupError")
     ELSE Goto(d, "put") /\ UNCHANGED result
  /\ UNCHANGED <<dial, expired, inflight, entries, reload, clock>>

\* Seeded fault: a failed lookup is cached too.
CloseAndPut(d) ==
  /\ pc[d] = "close"
  /\ calls' = [calls EXCEPT ![dial[d].call].done = TRUE]
  /\ Goto(d, "put")
  /\ UNCHANGED <<dial, expired, result, inflight, entries, reload, clock>>

\* ... and then the waiters are woken.
Close(d) ==
  /\ pc[d] = "close"
  /\ calls' = [calls EXCEPT ![dial[d].call] =
                 [done |-> TRUE, targets |-> @.targets, err |-> @.err]]
  /\ IF dial[d].err
     THEN Return(d, "lookupError")
     ELSE Goto(d, "put") /\ UNCHANGED result
  /\ UNCHANGED <<dial, expired, inflight, entries, reload, clock>>

Put(d) ==
  /\ pc[d] = "put"
  /\ entries' = C!AfterPut(entries, Host(d), dial[d].targets, clock)
  /\ Goto(d, "connect")
  /\ UNCHANGED <<dial, expired, result, shared, reload, clock>>

-----------------------------------------------------------------------------
(* connectAny and the retry of dialHost.                                   *)

Retriable(d) == dial[d].fromCache /\ dial[d].round = 1

Connect(d) ==
  /\ pc[d] = "connect"
  /\ \/ /\ dial[d].targets = NoTargets        \* no address, no error either
        /\ Return(d, "nilConn")
     \/ /\ dial[d].targets # NoTargets
        /\ d \notin expired
        /\ Return(d, "conn")
     \/ /\ dial[d].targets # NoTargets
        /\ Faults \/ d \in expired
        /\ IF Retriable(d)
           THEN Goto(d, "evict") /\ UNCHANGED result
           ELSE Return(d, "dialError")
  /\ UNCHANGED <<dial, expired, shared, entries, reload, clock>>

DropCached(d) ==
  /\ pc[d] = "evict"
  /\ entries' = C!Evict(entries, Host(d))
  /\ Set(d, [dial[d] EXCEPT !.round = 2])
  /\ Goto(d, "get")
  /\ UNCHANGED <<expired, result, shared, reload, clock>>

-----------------------------------------------------------------------------
(* A reload of the configuration, and time.                                *)

dialling == <<pc, dial, expired, result, shared>>

\* Update stores the new list of name servers, ...
UpdateStore ==
  /\ reset = "none"
  /\ current + 1 \in Generations
  /\ current' = current + 1
  /\ reset' = "update"
  /\ UNCHANGED <<dialling, entries, clock, carried>>

\* ... and clears the cache; resetCaches follows.
UpdateClear ==
  /\ reset = "update"
  /\ entries' = C!Clear(entries)
  /\ reset' = "reset"
  /\ UNCHANGED <<dialling, current, clock, carried>>

\* A reload that changes the routes only begins with resetCaches.
RoutesOnly ==
  /\ reset = "none"
  /\ reset' = "reset"
  /\ UNCHANGED <<dialling, entries, current, clock, carried>>

\* The leaders that have read the list of name servers and not stored yet.
InFlight ==
  {Host(d) : d \in {e \in Dialers :
     pc[e] \in {"attempt", "unregister", "assign", "close", "put"}}}

\* Seeded fault: resetCaches leaves the addresses alone.
ClearCacheForgotten ==
  /\ reset = "reset"
  /\ carried' = InFlight
  /\ reset' = "none"
  /\ UNCHANGED <<dialling, entries, current, clock>>

ClearCache ==
  /\ reset = "reset"
  /\ entries' = C!Clear(entries)
  /\ carried' = InFlight
  /\ reset' = "none"
  /\ UNCHANGED <<dialling, current, clock>>

Tick ==
  /\ clock < MaxClock
  /\ clock' = clock + 1
  /\ UNCHANGED <<dialling, entries, reload>>

-----------------------------------------------------------------------------
Step(d) ==
  \/ Get(d) \/ Begin(d) \/ Wait(d) \/ Ask(d) \/ Attempt(d) \/ Unregister(d)
  \/ Assign(d) \/ Close(d) \/ Put(d) \/ Connect(d) \/ DropCached(d)

Next ==
  \/ \E d \in Dialers : Step(d) \/ DialLiteral(d) \/ Expire(d)
                        \/ \E h \in Hosts : Dial(d, h)
  \/ UpdateStore \/ UpdateClear \/ RoutesOnly \/ ClearCache \/ Tick

Spec == Init /\ [][Next]_vars

\* Goroutines run; a query and a connection attempt end, by their timeouts.
FairSpec == Spec /\ \A d \in Dialers : WF_vars(Step(d))

-----------------------------------------------------------------------------
(* Properties.                                                             *)

Locals == [host: Hosts \cup {Nobody}, round: {1, 2}, fromCache: BOOLEAN,
           call: Calls \cup {Nobody}, asked: Generations \cup {0}, tried: Nat,
           targets: Generations \cup {NoTargets}, err: BOOLEAN]

\* Every variable keeps its type: the cache holds answers, never failures.
TypeOK ==
  /\ pc \in [Dialers -> {"idle", "get", "begin", "wait", "ask", "attempt",
                         "unregister", "assign", "close", "put", "connect",
                         "evict", "done"}]
  /\ dial \in [Dialers -> Locals]
  /\ expired \subseteq Dialers
  /\ result \in [Dialers -> {"none", "conn", "nilConn", "lookupError",
                             "dialError", "contextDone"}]
  /\ inflight \in [Hosts -> Calls \cup {Nobody}]
  /\ calls \in [Calls -> [done: BOOLEAN, targets: Generations \cup {NoTargets},
                          err: BOOLEAN]]
  /\ DOMAIN entries \subseteq Hosts
  /\ \A h \in DOMAIN entries : entries[h] \in [value: Generations, expiresAt: Int]
  /\ current \in Generations
  /\ reset \in {"none", "update", "reset"}
  /\ clock \in Nat
  /\ carried \subseteq Hosts

\* However dials, expiries and reloads interleave, no two lookups of one host
\* are asking name servers at the same time.
OneQueryPerHost ==
  \A d, e \in Dialers :
    pc[d] \in {"ask", "attempt"} /\ pc[e] \in {"ask", "attempt"} /\ Host(d) = Host(e)
      => d = e

\* Who is woken finds the result there (resolver.go:177): addresses or an error.
WokenWithResult ==
  \A c \in Calls : calls[c].done => (calls[c].err <=> calls[c].targets = NoTargets)

\* A lookup as its waiters see it, and what a dialer that took part went on with.
Published == [c \in Calls |->
  IF calls[c].done THEN [targets |-> calls[c].targets, err |-> calls[c].err] ELSE Nobody]
Received == [d \in Dialers |->
  IF dial[d].call = Nobody \/ pc[d] \notin {"put", "connect", "done"}
     \/ result[d] = "contextDone" THEN Nobody
  ELSE IF result[d] = "lookupError" THEN [targets |-> NoTargets, err |-> TRUE]
  ELSE [targets |-> dial[d].targets, err |-> FALSE]]

SF == INSTANCE SingleFlight WITH
  Callers <- Dialers, Keys <- Hosts,
  Results <- [targets: Generations \cup {NoTargets}, err: BOOLEAN],
  NoResult <- Nobody, flight <- inflight, part <- [d \in Dialers |-> dial[d].call],
  result <- Published, got <- Received

\* However dials, expiries, retries and reloads interleave, looking up a host is
\* a single flight: nobody joins a lookup that has landed, its result is final
\* when the followers wake, and all who waited for it go on with it.
ImplementsSingleFlight == SF!Spec

\* DialContext never returns neither a connection nor an error, which would
\* break the transport (resolver.go:201).
NoNilConn == \A d \in Dialers : result[d] # "nilConn"

\* After a reload, an address that retired name servers gave is cached only
\* for a host whose lookup had read them before ClearCache ran.
StaleFromInFlight ==
  reset = "none" =>
    \A h \in DOMAIN entries : entries[h].value = current \/ h \in carried

\* Every dial ends, also that of a follower whose leader failed, without the
\* help of a deadline.
EveryDialEnds == \A d \in Dialers : pc[d] # "idle" ~> pc[d] = "done"
=============================================================================
