--------------------------- MODULE ResolverProofs ---------------------------
(***************************************************************************)
(* Dialling by name for every set of dialers, hosts and name servers: one  *)
(* query for a host at a time, never neither connection nor error, after a *)
(* reload only what was in flight is stale, and the refinement of          *)
(* SingleFlight.                                                           *)
(*                                                                         *)
(* As in AuthorityProofs, the invariant ties the call in flight for a host *)
(* to the place of its leader.  What is particular here: a dialer may come *)
(* through lookup twice, but takes part in one call only, since the second *)
(* time follows addresses from the cache; and an answer is as old as the   *)
(* list of name servers its leader read, which the reload may overtake.    *)
(***************************************************************************)
EXTENDS Resolver, TLAPS

\* Places of a dialer: in lookup before it leads, leading, in finish, and from
\* the reading of the list of name servers to the storing of the answer.
Looking == {"get", "begin", "wait"}
Working == {"ask", "attempt", "unregister"}
Settling == {"assign", "close"}
Asking == {"attempt", "unregister", "assign", "close", "put"}

\* Where a dialer may be with which locals.
Placed ==
  \A d \in Dialers :
    /\ pc[d] \in Looking \cup Working \cup Settling \cup {"put", "evict"} => Host(d) \in Hosts
    /\ dial[d].fromCache => Host(d) \in Hosts /\ dial[d].call = Nobody
    /\ pc[d] = "evict" => dial[d].fromCache
    /\ pc[d] \in {"idle", "begin"} => ~dial[d].fromCache
    /\ pc[d] # "done" => result[d] = "none"
    /\ pc[d] = "attempt" => dial[d].asked \in Generations

\* A call is in flight exactly while its leader is between begin and finish.
Flights ==
  /\ \A d \in Dialers : pc[d] \in Working => inflight[Host(d)] = dial[d].call
  /\ \A h \in Hosts : inflight[h] # Nobody =>
       \E d \in Dialers :
         pc[d] \in Working /\ Host(d) = h /\ dial[d].call = inflight[h]

\* Who takes part in which call; a leader takes part in its own.
Parts ==
  /\ \A d \in Dialers :
       /\ pc[d] \in {"idle", "get", "begin", "evict"} => dial[d].call = Nobody
       /\ pc[d] \in Working \cup Settling \cup {"put"} => dial[d].call = <<d, dial[d].round>>
       /\ pc[d] = "wait" => dial[d].call # Nobody
  /\ \A d, e \in Dialers, n \in {1, 2} :
       dial[d].call = <<e, n>> => dial[e].call = <<e, n>>

\* Between the end of its lookup and the wake-up of the others, a leader has
\* addresses or an error, and so has everyone afterwards.
Answers ==
  \A d \in Dialers :
    /\ pc[d] \in Settling \cup {"unregister"} => (dial[d].err <=> dial[d].targets = NoTargets)
    /\ pc[d] \in {"put", "connect", "evict"} => dial[d].targets # NoTargets
    /\ pc[d] \in Asking \ {"attempt"} => dial[d].targets \in {NoTargets, dial[d].asked}

\* Before a leader wakes the others, its call holds what it found.
Assigned ==
  \A d \in Dialers : pc[d] = "close" =>
    /\ calls[dial[d].call].targets = dial[d].targets
    /\ calls[dial[d].call].err <=> dial[d].err

\* Only a leader that is through with its call has closed it.
Landed ==
  \A d \in Dialers, n \in {1, 2} : calls[<<d, n>>].done =>
    dial[d].call = <<d, n>> /\ pc[d] \in {"put", "connect", "done"}

\* Between reloads, a lookup under way asked the name servers in force, or was
\* under way when ClearCache ran.
Fresh ==
  reset = "none" =>
    \A d \in Dialers : pc[d] \in Asking =>
      dial[d].asked = current \/ Host(d) \in carried

\* The inductive invariant.
IInv ==
  /\ TypeOK /\ Placed /\ Flights /\ Parts /\ Answers /\ Assigned /\ Landed
  /\ WokenWithResult /\ NoNilConn /\ Fresh /\ StaleFromInFlight

\* The type of calls.
CallsType ==
  calls \in [Calls -> [done: BOOLEAN, targets: Generations \cup {NoTargets}, err: BOOLEAN]]

-----------------------------------------------------------------------------
(* What the cache operators do to an entry.                                *)

\* Get and Evict remove entries and change none.
LEMMA GetRemoves ==
  ASSUME NEW e, NEW key, NEW now
  PROVE  /\ DOMAIN C!AfterGet(e, key, now) \subseteq DOMAIN e
         /\ \A n \in DOMAIN C!AfterGet(e, key, now) : C!AfterGet(e, key, now)[n] = e[n]
BY DEF C!AfterGet, C!Holds, C!Restrict

\* So does an eviction.
LEMMA EvictRemoves ==
  ASSUME NEW e, NEW key
  PROVE  /\ DOMAIN C!Evict(e, key) \subseteq DOMAIN e
         /\ \A n \in DOMAIN C!Evict(e, key) : C!Evict(e, key)[n] = e[n]
BY DEF C!Evict, C!Restrict

\* Put stores the value under its key; another entry is as it was, or gone.
LEMMA PutStores ==
  ASSUME NEW e, NEW key, NEW value, NEW now,
         NEW n \in DOMAIN C!AfterPut(e, key, value, now)
  PROVE  \/ n = key /\ C!AfterPut(e, key, value, now)[n] = [value |-> value, expiresAt |-> now + TTL]
         \/ n \in DOMAIN e /\ C!AfterPut(e, key, value, now)[n] = e[n]
<1> DEFINE room == C!Room(e)
<1>1. DOMAIN room \subseteq DOMAIN e /\ \A k \in DOMAIN room : room[k] = e[k]
  BY DEF C!Room, C!Clear, C!NoEntries
<1> HIDE DEF room
<1>2. n \in DOMAIN C!Store(room, key, value, now) =>
        \/ n = key /\ C!Store(room, key, value, now)[n] =
             [value |-> value, expiresAt |-> now + TTL]
        \/ n \in DOMAIN room /\ C!Store(room, key, value, now)[n] = room[n]
  BY DEF C!Store
<1> QED
  BY <1>1, <1>2 DEF C!AfterPut, room

-----------------------------------------------------------------------------
(* What each step of a dialer does to its locals.                          *)

\* A record of locals.
Record(host, round, fromCache, call, asked, tried, targets, err) ==
  [host |-> host, round |-> round, fromCache |-> fromCache, call |-> call,
   asked |-> asked, tried |-> tried, targets |-> targets, err |-> err]

\* new is old with v at x.
Written(new, old, S, x, v) == \A y \in S : new[y] = IF y = x THEN v ELSE old[y]

\* d goes from one step to another.
Moves(d, from, to) == pc[d] = from /\ Written(pc', pc, Dialers, d, to)

\* The locals of d become these, those of the others stay.
Locally(d, host, round, fromCache, call, asked, targets, err) ==
  \A e \in Dialers :
    /\ dial'[e].host = IF e = d THEN host ELSE dial[e].host
    /\ dial'[e].round = IF e = d THEN round ELSE dial[e].round
    /\ dial'[e].fromCache <=> (IF e = d THEN fromCache ELSE dial[e].fromCache)
    /\ dial'[e].call = IF e = d THEN call ELSE dial[e].call
    /\ dial'[e].asked = IF e = d THEN asked ELSE dial[e].asked
    /\ dial'[e].targets = IF e = d THEN targets ELSE dial[e].targets
    /\ dial'[e].err <=> (IF e = d THEN err ELSE dial[e].err)

\* Replacing one local, or two.
LEMMA Set_fromCache ==
  ASSUME NEW r \in Locals, NEW x \in BOOLEAN
  PROVE  [r EXCEPT !.fromCache = x] =
           Record(r.host, r.round, x, r.call, r.asked, r.tried, r.targets,
                  r.err)
BY DEF Locals, Record, NoTargets

\* ... call ...
LEMMA Set_call ==
  ASSUME NEW r \in Locals, NEW x \in Calls \cup {Nobody}
  PROVE  [r EXCEPT !.call = x] =
           Record(r.host, r.round, r.fromCache, x, r.asked, r.tried,
                  r.targets, r.err)
BY DEF Locals, Record, NoTargets

\* ... asked ...
LEMMA Set_asked ==
  ASSUME NEW r \in Locals, NEW x \in Generations \cup {0}
  PROVE  [r EXCEPT !.asked = x] =
           Record(r.host, r.round, r.fromCache, r.call, x, r.tried,
                  r.targets, r.err)
BY DEF Locals, Record, NoTargets

\* ... tried ...
LEMMA Set_tried ==
  ASSUME NEW r \in Locals, NEW x \in Nat
  PROVE  [r EXCEPT !.tried = x] =
           Record(r.host, r.round, r.fromCache, r.call, r.asked, x,
                  r.targets, r.err)
BY DEF Locals, Record, NoTargets

\* ... targets ...
LEMMA Set_targets ==
  ASSUME NEW r \in Locals, NEW x \in Generations \cup {NoTargets}
  PROVE  [r EXCEPT !.targets = x] =
           Record(r.host, r.round, r.fromCache, r.call, r.asked, r.tried, x,
                  r.err)
BY DEF Locals, Record, NoTargets

\* ... err ...
LEMMA Set_err ==
  ASSUME NEW r \in Locals, NEW x \in BOOLEAN
  PROVE  [r EXCEPT !.err = x] =
           Record(r.host, r.round, r.fromCache, r.call, r.asked, r.tried,
                  r.targets, x)
BY DEF Locals, Record, NoTargets

\* Get replaces two,
LEMMA Set_targets_fromCache ==
  ASSUME NEW r \in Locals, NEW x \in Generations \cup {NoTargets}, NEW y \in BOOLEAN
  PROVE  [r EXCEPT !.targets = x, !.fromCache = y] =
           Record(r.host, r.round, y, r.call, r.asked, r.tried, x, r.err)
<1> DEFINE s == [r EXCEPT !.targets = x]
<1>1. s = Record(r.host, r.round, r.fromCache, r.call, r.asked, r.tried, x,
                  r.err)
  BY Set_targets
<1>2. s \in Locals
  BY <1>1 DEF Locals, Record, NoTargets
<1>3. [s EXCEPT !.fromCache = y] = Record(s.host, s.round, y, s.call, s.asked, s.tried, s.targets,
                  s.err)
  BY <1>2, Set_fromCache
<1>4. [r EXCEPT !.targets = x, !.fromCache = y] = [s EXCEPT !.fromCache = y]
  OBVIOUS
<1> HIDE DEF s
<1> QED
  BY <1>1, <1>3, <1>4 DEF Record

\* so does the end of resolve,
LEMMA Set_targets_err ==
  ASSUME NEW r \in Locals, NEW x \in Generations \cup {NoTargets}, NEW y \in BOOLEAN
  PROVE  [r EXCEPT !.targets = x, !.err = y] =
           Record(r.host, r.round, r.fromCache, r.call, r.asked, r.tried, x, y)
<1> DEFINE s == [r EXCEPT !.targets = x]
<1>1. s = Record(r.host, r.round, r.fromCache, r.call, r.asked, r.tried, x,
                  r.err)
  BY Set_targets
<1>2. s \in Locals
  BY <1>1 DEF Locals, Record, NoTargets
<1>3. [s EXCEPT !.err = y] = Record(s.host, s.round, s.fromCache, s.call, s.asked, s.tried,
                  s.targets, y)
  BY <1>2, Set_err
<1>4. [r EXCEPT !.targets = x, !.err = y] = [s EXCEPT !.err = y]
  OBVIOUS
<1> HIDE DEF s
<1> QED
  BY <1>1, <1>3, <1>4 DEF Record

\* and its beginning.
LEMMA Set_asked_tried ==
  ASSUME NEW r \in Locals, NEW x \in Generations \cup {0}, NEW y \in Nat
  PROVE  [r EXCEPT !.asked = x, !.tried = y] =
           Record(r.host, r.round, r.fromCache, r.call, x, y, r.targets, r.err)
<1> DEFINE s == [r EXCEPT !.asked = x]
<1>1. s = Record(r.host, r.round, r.fromCache, r.call, x, r.tried,
                  r.targets, r.err)
  BY Set_asked
<1>2. s \in Locals
  BY <1>1 DEF Locals, Record, NoTargets
<1>3. [s EXCEPT !.tried = y] = Record(s.host, s.round, s.fromCache, s.call, s.asked, y,
                  s.targets, s.err)
  BY <1>2, Set_tried
<1>4. [r EXCEPT !.asked = x, !.tried = y] = [s EXCEPT !.tried = y]
  OBVIOUS
<1> HIDE DEF s
<1> QED
  BY <1>1, <1>3, <1>4 DEF Record

\* What follows from writing a record of locals.
LEMMA WriteLocals ==
  ASSUME TypeOK, NEW d \in Dialers, NEW r \in Locals, dial' = [dial EXCEPT ![d] = r]
  PROVE  /\ dial' \in [Dialers -> Locals]
         /\ Locally(d, r.host, r.round, r.fromCache, r.call, r.asked, r.targets, r.err)
<1>1. dial' \in [Dialers -> Locals] /\ \A e \in Dialers : dial'[e] = IF e = d THEN r ELSE dial[e]
  BY DEF TypeOK
<1> QED
  BY <1>1 DEF Locally

\* The call of d gets these parts, the other calls stay.
Settled(d, done, targets, err) ==
  \A c \in Calls :
    /\ calls'[c].done <=> (IF c = dial[d].call THEN done ELSE calls[c].done)
    /\ calls'[c].targets = IF c = dial[d].call THEN targets ELSE calls[c].targets
    /\ calls'[c].err <=> (IF c = dial[d].call THEN err ELSE calls[c].err)

\* The steps of a dialer, as facts about each local: this is what the invariant
\* is shown to survive.  An operator bears the name of what the dialer does.
Dials(d, h) ==
  /\ Moves(d, "idle", "get")
  /\ Locally(d, h, dial[d].round, dial[d].fromCache,
                       dial[d].call, dial[d].asked, dial[d].targets,
                       dial[d].err)
  /\ UNCHANGED <<expired, result, inflight, calls, entries, current,
                 reset, carried, clock>>

DialsLiteral(d) ==
  /\ Moves(d, "idle", "connect")
  /\ Locally(d, dial[d].host, dial[d].round, dial[d].fromCache,
                       dial[d].call, dial[d].asked, current,
                       dial[d].err)
  /\ current \in Generations
  /\ UNCHANGED <<expired, result, inflight, calls, entries, current,
                 reset, carried, clock>>

Hits(d) ==
  /\ Moves(d, "get", "connect")
  /\ Locally(d, dial[d].host, dial[d].round, TRUE,
                       dial[d].call, dial[d].asked,
                       entries[Host(d)].value, dial[d].err)
  /\ entries[Host(d)].value \in Generations /\ Host(d) \in Hosts
  /\ entries' = C!AfterGet(entries, Host(d), clock)
  /\ UNCHANGED <<expired, result, inflight, calls, current, reset,
                 carried, clock>>

Misses(d) ==
  /\ Moves(d, "get", "begin")
  /\ Locally(d, dial[d].host, dial[d].round, FALSE,
                       dial[d].call, dial[d].asked, dial[d].targets,
                       dial[d].err)
  /\ entries' = C!AfterGet(entries, Host(d), clock)
  /\ UNCHANGED <<expired, result, inflight, calls, current, reset,
                 carried, clock>>

Leads(d) ==
  /\ Moves(d, "begin", "ask")
  /\ Locally(d, dial[d].host, dial[d].round, dial[d].fromCache,
                       <<d, dial[d].round>>, dial[d].asked,
                       dial[d].targets, dial[d].err)
  /\ Host(d) \in Hosts /\ inflight[Host(d)] = Nobody
  /\ <<d, dial[d].round>> \in Calls /\ dial[d].round \in {1, 2}
  /\ Written(inflight', inflight, Hosts, Host(d), <<d, dial[d].round>>)
  /\ UNCHANGED <<expired, result, calls, entries, current, reset,
                 carried, clock>>

Joins(d) ==
  /\ Moves(d, "begin", "wait")
  /\ Locally(d, dial[d].host, dial[d].round, dial[d].fromCache,
                       inflight[Host(d)], dial[d].asked,
                       dial[d].targets, dial[d].err)
  /\ Host(d) \in Hosts /\ inflight[Host(d)] \in Calls
  /\ UNCHANGED <<expired, result, inflight, calls, entries, current,
                 reset, carried, clock>>

Wakes(d) ==
  /\ Moves(d, "wait", "connect")
  /\ Locally(d, dial[d].host, dial[d].round, dial[d].fromCache,
                       dial[d].call, dial[d].asked,
                       calls[dial[d].call].targets, dial[d].err)
  /\ dial[d].call \in Calls
  /\ calls[dial[d].call].done /\ ~calls[dial[d].call].err
  /\ UNCHANGED <<expired, result, inflight, calls, entries, current,
                 reset, carried, clock>>

WakesToError(d) ==
  /\ Moves(d, "wait", "done")
  /\ dial' = dial
  /\ dial[d].call \in Calls
  /\ calls[dial[d].call].done /\ calls[dial[d].call].err
  /\ Written(result', result, Dialers, d, "lookupError")
  /\ UNCHANGED <<expired, inflight, calls, entries, current, reset,
                 carried, clock>>

GivesUp(d) ==
  /\ Moves(d, "wait", "done")
  /\ dial' = dial
  /\ Written(result', result, Dialers, d, "contextDone")
  /\ UNCHANGED <<expired, inflight, calls, entries, current, reset,
                 carried, clock>>

Asks(d) ==
  /\ Moves(d, "ask", "attempt")
  /\ Locally(d, dial[d].host, dial[d].round, dial[d].fromCache,
                       dial[d].call, current, dial[d].targets,
                       dial[d].err)
  /\ current \in Generations
  /\ UNCHANGED <<expired, result, inflight, calls, entries, current,
                 reset, carried, clock>>

IsAnswered(d) ==
  /\ Moves(d, "attempt", "unregister")
  /\ Locally(d, dial[d].host, dial[d].round, dial[d].fromCache,
                       dial[d].call, dial[d].asked, dial[d].asked,
                       FALSE)
  /\ UNCHANGED <<expired, result, inflight, calls, entries, current,
                 reset, carried, clock>>

Fails(d) ==
  /\ Moves(d, "attempt", "unregister")
  /\ Locally(d, dial[d].host, dial[d].round, dial[d].fromCache,
                       dial[d].call, dial[d].asked, NoTargets, TRUE)
  /\ UNCHANGED <<expired, result, inflight, calls, entries, current,
                 reset, carried, clock>>

TriesNext(d) ==
  /\ Moves(d, "attempt", "attempt")
  /\ Locally(d, dial[d].host, dial[d].round, dial[d].fromCache,
                       dial[d].call, dial[d].asked, dial[d].targets,
                       dial[d].err)
  /\ UNCHANGED <<expired, result, inflight, calls, entries, current,
                 reset, carried, clock>>

Unregisters(d) ==
  /\ Moves(d, "unregister", "assign")
  /\ dial' = dial
  /\ Host(d) \in Hosts
  /\ Written(inflight', inflight, Hosts, Host(d), Nobody)
  /\ UNCHANGED <<expired, result, calls, entries, current, reset,
                 carried, clock>>

Assigns(d) ==
  /\ Moves(d, "assign", "close")
  /\ dial' = dial
  /\ Settled(d, FALSE, dial[d].targets, dial[d].err)
  /\ UNCHANGED <<expired, result, inflight, entries, current, reset,
                 carried, clock>>

ClosesFailed(d) ==
  /\ Moves(d, "close", "done")
  /\ dial' = dial
  /\ dial[d].err
  /\ Written(result', result, Dialers, d, "lookupError")
  /\ Settled(d, TRUE, calls[dial[d].call].targets, calls[dial[d].call].err)
  /\ UNCHANGED <<expired, inflight, entries, current, reset, carried,
                 clock>>

Closes(d) ==
  /\ Moves(d, "close", "put")
  /\ dial' = dial
  /\ ~dial[d].err
  /\ Settled(d, TRUE, calls[dial[d].call].targets, calls[dial[d].call].err)
  /\ UNCHANGED <<expired, result, inflight, entries, current, reset,
                 carried, clock>>

Puts(d) ==
  /\ Moves(d, "put", "connect")
  /\ dial' = dial
  /\ entries' = C!AfterPut(entries, Host(d), dial[d].targets, clock)
  /\ UNCHANGED <<expired, result, inflight, calls, current, reset,
                 carried, clock>>

ReturnsNil(d) ==
  /\ Moves(d, "connect", "done")
  /\ dial' = dial
  /\ dial[d].targets = NoTargets
  /\ Written(result', result, Dialers, d, "nilConn")
  /\ UNCHANGED <<expired, inflight, calls, entries, current, reset,
                 carried, clock>>

Returns(d) ==
  /\ Moves(d, "connect", "done")
  /\ dial' = dial
  /\ \E r \in {"conn", "dialError"} : Written(result', result, Dialers, d, r)
  /\ UNCHANGED <<expired, inflight, calls, entries, current, reset,
                 carried, clock>>

Retries(d) ==
  /\ Moves(d, "connect", "evict")
  /\ dial' = dial
  /\ dial[d].fromCache /\ dial[d].targets # NoTargets
  /\ UNCHANGED <<expired, result, inflight, calls, entries, current,
                 reset, carried, clock>>

Drops(d) ==
  /\ Moves(d, "evict", "get")
  /\ Locally(d, dial[d].host, 2, dial[d].fromCache,
                       dial[d].call, dial[d].asked, dial[d].targets,
                       dial[d].err)
  /\ entries' = C!Evict(entries, Host(d))
  /\ UNCHANGED <<expired, result, inflight, calls, current, reset,
                 carried, clock>>

\* What a step of d comes to.
Moved(d) ==
  \/ DialsLiteral(d) \/ Hits(d) \/ Misses(d) \/ Leads(d) \/ Joins(d) \/ Wakes(d)
  \/ WakesToError(d) \/ GivesUp(d) \/ Asks(d) \/ IsAnswered(d) \/ Fails(d)
  \/ TriesNext(d) \/ Unregisters(d) \/ Assigns(d) \/ ClosesFailed(d) \/ Closes(d)
  \/ Puts(d) \/ ReturnsNil(d) \/ Returns(d) \/ Retries(d) \/ Drops(d)
  \/ \E h \in Hosts : Dials(d, h)

\* The steps of a dialer are these.
LEMMA DialEffect ==
  ASSUME TypeOK, NEW d \in Dialers, NEW h \in Hosts, Dial(d, h)
  PROVE  Dials(d, h) /\ dial' \in [Dialers -> Locals]
<1> DEFINE r == Record(h, dial[d].round, dial[d].fromCache, dial[d].call,
                  dial[d].asked, dial[d].tried, dial[d].targets, dial[d].err)
<1>1. dial[d] \in Locals
  BY DEF TypeOK
<1>2. [dial[d] EXCEPT !.host = h] = r
  BY <1>1 DEF TypeOK, Locals, NoTargets, Record
<1>3. r \in Locals
  BY <1>1 DEF TypeOK, Locals, NoTargets, Record
<1>4. dial' = [dial EXCEPT ![d] = r]
  BY <1>2 DEF Dial, Set
<1>5. /\ dial' \in [Dialers -> Locals]
      /\ Locally(d, r.host, r.round, r.fromCache, r.call, r.asked, r.targets, r.err)
  BY <1>3, <1>4, WriteLocals, Zenon
<1>6. Locally(d, h, dial[d].round, dial[d].fromCache,
                              dial[d].call, dial[d].asked, dial[d].targets,
                              dial[d].err)
  BY <1>5 DEF Record
<1> HIDE DEF r
<1> QED
  BY <1>5, <1>6 DEF Dials, Dial, Goto, Moves, Written, TypeOK, shared, reload

\* An IP literal is its own address.
LEMMA DialLiteralEffect ==
  ASSUME TypeOK, NEW d \in Dialers, DialLiteral(d)
  PROVE  DialsLiteral(d) /\ dial' \in [Dialers -> Locals]
<1> DEFINE r == Record(dial[d].host, dial[d].round, dial[d].fromCache,
                  dial[d].call, dial[d].asked, dial[d].tried, current,
                  dial[d].err)
<1>1. dial[d] \in Locals
  BY DEF TypeOK
<1>2. [dial[d] EXCEPT !.targets = current] = r
  BY <1>1 DEF TypeOK, Locals, NoTargets, Record
<1>3. r \in Locals
  BY <1>1 DEF TypeOK, Locals, NoTargets, Record
<1>4. dial' = [dial EXCEPT ![d] = r]
  BY <1>2 DEF DialLiteral, Set
<1>5. /\ dial' \in [Dialers -> Locals]
      /\ Locally(d, r.host, r.round, r.fromCache, r.call, r.asked, r.targets, r.err)
  BY <1>3, <1>4, WriteLocals, Zenon
<1>6. Locally(d, dial[d].host, dial[d].round, dial[d].fromCache,
                              dial[d].call, dial[d].asked, current,
                              dial[d].err)
  BY <1>5 DEF Record
<1> HIDE DEF r
<1> QED
  BY <1>5, <1>6 DEF DialsLiteral, DialLiteral, Goto, Moves, Written, TypeOK, shared, reload

\* Get finds the host in the cache, ...
LEMMA HitEffect ==
  ASSUME TypeOK, NEW d \in Dialers, Get(d), C!Holds(entries, Host(d), clock)
  PROVE  Hits(d) /\ dial' \in [Dialers -> Locals]
<1> DEFINE r == Record(dial[d].host, dial[d].round, TRUE, dial[d].call,
                  dial[d].asked, dial[d].tried, entries[Host(d)].value,
                  dial[d].err)
<1>0. entries[Host(d)].value \in Generations /\ Host(d) \in Hosts
  BY DEF TypeOK, C!Holds
<1>1. dial[d] \in Locals
  BY DEF TypeOK
<1>2. [dial[d] EXCEPT !.targets = entries[Host(d)].value, !.fromCache = TRUE] = r
  BY <1>0, <1>1, Set_targets_fromCache DEF TypeOK, Locals, NoTargets, Record
<1>3. r \in Locals
  BY <1>0, <1>1 DEF TypeOK, Locals, NoTargets, Record
<1>4. dial' = [dial EXCEPT ![d] = r]
  BY <1>2 DEF Get, Set
<1>5. /\ dial' \in [Dialers -> Locals]
      /\ Locally(d, r.host, r.round, r.fromCache, r.call, r.asked, r.targets, r.err)
  BY <1>3, <1>4, WriteLocals, Zenon
<1>6. Locally(d, dial[d].host, dial[d].round, TRUE,
                              dial[d].call, dial[d].asked,
                              entries[Host(d)].value, dial[d].err)
  BY <1>5 DEF Record
<1> HIDE DEF r
<1> QED
  BY <1>0, <1>5, <1>6 DEF Hits, Get, Goto, Moves, Written, TypeOK, shared, reload

\* ... or does not.
LEMMA MissEffect ==
  ASSUME TypeOK, NEW d \in Dialers, Get(d), ~C!Holds(entries, Host(d), clock)
  PROVE  Misses(d) /\ dial' \in [Dialers -> Locals]
<1> DEFINE r == Record(dial[d].host, dial[d].round, FALSE, dial[d].call,
                  dial[d].asked, dial[d].tried, dial[d].targets, dial[d].err)
<1>1. dial[d] \in Locals
  BY DEF TypeOK
<1>2. [dial[d] EXCEPT !.fromCache = FALSE] = r
  BY <1>1, Set_fromCache DEF TypeOK, Locals, NoTargets, Record
<1>3. r \in Locals
  BY <1>1 DEF TypeOK, Locals, NoTargets, Record
<1>4. dial' = [dial EXCEPT ![d] = r]
  BY <1>2 DEF Get, Set
<1>5. /\ dial' \in [Dialers -> Locals]
      /\ Locally(d, r.host, r.round, r.fromCache, r.call, r.asked, r.targets, r.err)
  BY <1>3, <1>4, WriteLocals, Zenon
<1>6. Locally(d, dial[d].host, dial[d].round, FALSE,
                              dial[d].call, dial[d].asked, dial[d].targets,
                              dial[d].err)
  BY <1>5 DEF Record
<1> HIDE DEF r
<1> QED
  BY <1>5, <1>6 DEF Misses, Get, Goto, Moves, Written, TypeOK, shared, reload

\* begin leads a call, ...
LEMMA LeadEffect ==
  ASSUME TypeOK, NEW d \in Dialers, Begin(d), Host(d) \in Hosts, inflight[Host(d)] = Nobody
  PROVE  Leads(d) /\ dial' \in [Dialers -> Locals]
<1> DEFINE r == Record(dial[d].host, dial[d].round, dial[d].fromCache,
                  <<d, dial[d].round>>, dial[d].asked, dial[d].tried,
                  dial[d].targets, dial[d].err)
<1>0. <<d, dial[d].round>> \in Calls /\ dial[d].round \in {1, 2}
  BY DEF TypeOK, Locals, Calls
<1>1. dial[d] \in Locals
  BY DEF TypeOK
<1>2. [dial[d] EXCEPT !.call = <<d, dial[d].round>>] = r
  BY <1>0, <1>1, Set_call DEF TypeOK, Locals, NoTargets, Record
<1>3. r \in Locals
  BY <1>0, <1>1 DEF TypeOK, Locals, NoTargets, Record
<1>4. dial' = [dial EXCEPT ![d] = r]
  BY <1>2 DEF Begin, Lead, Set
<1>5. /\ dial' \in [Dialers -> Locals]
      /\ Locally(d, r.host, r.round, r.fromCache, r.call, r.asked, r.targets, r.err)
  BY <1>3, <1>4, WriteLocals, Zenon
<1>6. Locally(d, dial[d].host, dial[d].round, dial[d].fromCache,
                              <<d, dial[d].round>>, dial[d].asked,
                              dial[d].targets, dial[d].err)
  BY <1>5 DEF Record
<1> HIDE DEF r
<1> QED
  BY <1>0, <1>5, <1>6 DEF Leads, Begin, Lead, Goto, Moves, Written, TypeOK, shared, reload

\* ... or joins the one there is.
LEMMA JoinEffect ==
  ASSUME TypeOK, NEW d \in Dialers, Begin(d), Host(d) \in Hosts, inflight[Host(d)] # Nobody
  PROVE  Joins(d) /\ dial' \in [Dialers -> Locals]
<1> DEFINE r == Record(dial[d].host, dial[d].round, dial[d].fromCache,
                  inflight[Host(d)], dial[d].asked, dial[d].tried,
                  dial[d].targets, dial[d].err)
<1>0. inflight[Host(d)] \in Calls
  BY DEF TypeOK
<1>1. dial[d] \in Locals
  BY DEF TypeOK
<1>2. [dial[d] EXCEPT !.call = inflight[Host(d)]] = r
  BY <1>0, <1>1, Set_call DEF TypeOK, Locals, NoTargets, Record
<1>3. r \in Locals
  BY <1>0, <1>1 DEF TypeOK, Locals, NoTargets, Record
<1>4. dial' = [dial EXCEPT ![d] = r]
  BY <1>2 DEF Begin, Set
<1>5. /\ dial' \in [Dialers -> Locals]
      /\ Locally(d, r.host, r.round, r.fromCache, r.call, r.asked, r.targets, r.err)
  BY <1>3, <1>4, WriteLocals, Zenon
<1>6. Locally(d, dial[d].host, dial[d].round, dial[d].fromCache,
                              inflight[Host(d)], dial[d].asked,
                              dial[d].targets, dial[d].err)
  BY <1>5 DEF Record
<1> HIDE DEF r
<1> QED
  BY <1>0, <1>5, <1>6 DEF Joins, Begin, Goto, Moves, Written, TypeOK, shared, reload

\* resolve reads the list of name servers.
LEMMA AskEffect ==
  ASSUME TypeOK, NEW d \in Dialers, Ask(d)
  PROVE  Asks(d) /\ dial' \in [Dialers -> Locals]
<1> DEFINE r == Record(dial[d].host, dial[d].round, dial[d].fromCache,
                  dial[d].call, current, 0, dial[d].targets, dial[d].err)
<1>1. dial[d] \in Locals
  BY DEF TypeOK
<1>2. [dial[d] EXCEPT !.asked = current, !.tried = 0] = r
  BY ZenonT(40), <1>1, Set_asked_tried DEF TypeOK, Locals, NoTargets, Record
<1>3. r \in Locals
  BY <1>1 DEF TypeOK, Locals, NoTargets, Record
<1>4. dial' = [dial EXCEPT ![d] = r]
  BY <1>2 DEF Ask, Set
<1>5. /\ dial' \in [Dialers -> Locals]
      /\ Locally(d, r.host, r.round, r.fromCache, r.call, r.asked, r.targets, r.err)
  BY <1>3, <1>4, WriteLocals, Zenon
<1>6. Locally(d, dial[d].host, dial[d].round, dial[d].fromCache,
                              dial[d].call, current, dial[d].targets,
                              dial[d].err)
  BY <1>5 DEF Record
<1> HIDE DEF r
<1> QED
  BY <1>5, <1>6 DEF Asks, Ask, Goto, Moves, Written, TypeOK, shared, reload

\* The second round begins.
LEMMA DropCachedEffect ==
  ASSUME TypeOK, NEW d \in Dialers, DropCached(d)
  PROVE  Drops(d) /\ dial' \in [Dialers -> Locals]
<1> DEFINE r == Record(dial[d].host, 2, dial[d].fromCache, dial[d].call,
                  dial[d].asked, dial[d].tried, dial[d].targets, dial[d].err)
<1>1. dial[d] \in Locals
  BY DEF TypeOK
<1>2. [dial[d] EXCEPT !.round = 2] = r
  BY <1>1 DEF TypeOK, Locals, NoTargets, Record
<1>3. r \in Locals
  BY <1>1 DEF TypeOK, Locals, NoTargets, Record
<1>4. dial' = [dial EXCEPT ![d] = r]
  BY <1>2 DEF DropCached, Set
<1>5. /\ dial' \in [Dialers -> Locals]
      /\ Locally(d, r.host, r.round, r.fromCache, r.call, r.asked, r.targets, r.err)
  BY <1>3, <1>4, WriteLocals, Zenon
<1>6. Locally(d, dial[d].host, 2, dial[d].fromCache,
                              dial[d].call, dial[d].asked, dial[d].targets,
                              dial[d].err)
  BY <1>5 DEF Record
<1> HIDE DEF r
<1> QED
  BY <1>5, <1>6 DEF Drops, DropCached, Goto, Moves, Written, TypeOK, shared, reload

\* A follower wakes to an answer or an error, or gives up.
LEMMA WaitEffect ==
  ASSUME TypeOK, NEW d \in Dialers, Wait(d), dial[d].call # Nobody
  PROVE  /\ Wakes(d) \/ WakesToError(d) \/ GivesUp(d)
         /\ dial' \in [Dialers -> Locals]
<1> DEFINE r == Record(dial[d].host, dial[d].round, dial[d].fromCache,
                  dial[d].call, dial[d].asked, dial[d].tried,
                  calls[dial[d].call].targets, dial[d].err)
<1>1. /\ dial \in [Dialers -> Locals] /\ dial[d] \in Locals
      /\ dial[d].call \in Calls /\ calls[dial[d].call].targets \in Generations \cup {0}
  BY DEF TypeOK, Locals, NoTargets
<1>2. [dial[d] EXCEPT !.targets = calls[dial[d].call].targets] = r
  BY <1>1, Set_targets DEF NoTargets
<1>3. r \in Locals
  BY <1>1 DEF Locals, NoTargets, Record
<1>4. ASSUME dial' = [dial EXCEPT ![d] = r]
      PROVE  /\ dial' \in [Dialers -> Locals]
             /\ Locally(d, r.host, r.round, r.fromCache, r.call, r.asked, r.targets, r.err)
  BY <1>3, <1>4, WriteLocals, Zenon
<1>5. dial' = [dial EXCEPT ![d] = r] => Locally(d, dial[d].host, dial[d].round, dial[d].fromCache,
                              dial[d].call, dial[d].asked,
                              calls[dial[d].call].targets, dial[d].err)
  BY <1>4 DEF Record
<1> HIDE DEF r
<1> QED
  BY <1>1, <1>2, <1>4, <1>5 DEF Wait, Return, Goto, Set, Wakes, WakesToError, GivesUp, Moves,
     Written, TypeOK, shared, reload

\* A name server answers, or the next is tried, or none is left.
LEMMA AttemptEffect ==
  ASSUME TypeOK, NEW d \in Dialers, Attempt(d)
  PROVE  /\ IsAnswered(d) \/ Fails(d) \/ TriesNext(d)
         /\ dial' \in [Dialers -> Locals]
<1> DEFINE r1 == Record(dial[d].host, dial[d].round, dial[d].fromCache,
                  dial[d].call, dial[d].asked, dial[d].tried, dial[d].asked,
                  FALSE)
           r2 == Record(dial[d].host, dial[d].round, dial[d].fromCache,
                  dial[d].call, dial[d].asked, dial[d].tried, NoTargets, TRUE)
           r3 == Record(dial[d].host, dial[d].round, dial[d].fromCache,
                  dial[d].call, dial[d].asked, dial[d].tried + 1,
                  dial[d].targets, dial[d].err)
<1>1. dial[d] \in Locals
  BY DEF TypeOK
<1>2. r1 \in Locals /\ r2 \in Locals /\ r3 \in Locals
  BY <1>1 DEF Locals, NoTargets, Record
<1>3. [dial[d] EXCEPT !.targets = dial[d].asked, !.err = FALSE] = r1
  BY <1>1, Set_targets_err DEF Locals, NoTargets
<1>4. [dial[d] EXCEPT !.targets = NoTargets, !.err = TRUE] = r2
  BY <1>1, Set_targets_err DEF NoTargets
<1>5. [dial[d] EXCEPT !.tried = @ + 1] = r3
  BY <1>1 DEF Locals, Record
<1>6. ASSUME NEW r \in Locals, dial' = [dial EXCEPT ![d] = r]
      PROVE  /\ dial' \in [Dialers -> Locals]
             /\ Locally(d, r.host, r.round, r.fromCache, r.call, r.asked, r.targets, r.err)
  BY <1>6, WriteLocals, Zenon
<1>7. /\ dial' = [dial EXCEPT ![d] = r1] =>
           Locally(d, dial[d].host, dial[d].round, dial[d].fromCache, dial[d].call,
                   dial[d].asked, dial[d].asked, FALSE)
      /\ dial' = [dial EXCEPT ![d] = r2] =>
           Locally(d, dial[d].host, dial[d].round, dial[d].fromCache, dial[d].call,
                   dial[d].asked, NoTargets, TRUE)
      /\ dial' = [dial EXCEPT ![d] = r3] =>
           Locally(d, dial[d].host, dial[d].round, dial[d].fromCache, dial[d].call,
                   dial[d].asked, dial[d].targets, dial[d].err)
  BY <1>2, <1>6 DEF Record
<1> HIDE DEF r1, r2, r3
<1> QED
  BY <1>2, <1>3, <1>4, <1>5, <1>6, <1>7
     DEF Attempt, Answered, Failed, Goto, Set, IsAnswered, Fails, TriesNext, Moves, Written,
     TypeOK, shared, reload

\* finish: the call leaves the flight, ...
LEMMA UnregisterEffect ==
  ASSUME TypeOK, NEW d \in Dialers, Unregister(d), Host(d) \in Hosts
  PROVE  Unregisters(d)
BY DEF Unregister, Unregisters, Goto, Moves, Written, TypeOK, reload

\* ... has its result assigned, ...
LEMMA AssignEffect ==
  ASSUME TypeOK, NEW d \in Dialers, Assign(d), dial[d].call # Nobody
  PROVE  Assigns(d) /\ CallsType'
<1>1. dial[d].call \in Calls /\ dial[d].targets \in Generations \cup {0} /\ dial[d].err \in BOOLEAN
  BY DEF TypeOK, Locals, NoTargets
<1> QED
  BY <1>1 DEF Assign, Assigns, Goto, Moves, Written, Settled, TypeOK, NoTargets, reload, CallsType

\* ... and is closed.
LEMMA CloseEffect ==
  ASSUME TypeOK, NEW d \in Dialers, Close(d), dial[d].call # Nobody
  PROVE  (Closes(d) \/ ClosesFailed(d)) /\ CallsType'
<1>1. dial[d].call \in Calls
  BY DEF TypeOK, Locals
<1> QED
  BY <1>1 DEF Close, Closes, ClosesFailed, Return, Goto, Moves, Written, Settled, TypeOK,
     NoTargets, reload, CallsType

\* The answer is cached.
LEMMA PutEffect == ASSUME TypeOK, NEW d \in Dialers, Put(d) PROVE Puts(d)
BY DEF Put, Puts, Goto, Moves, Written, TypeOK, shared, reload

\* connectAny connects, or gives up, or has the cached addresses dropped.
LEMMA ConnectEffect ==
  ASSUME TypeOK, NEW d \in Dialers, Connect(d)
  PROVE  ReturnsNil(d) \/ Returns(d) \/ Retries(d)
BY DEF Connect, Retriable, ReturnsNil, Returns, Retries, Return, Goto, Moves, Written,
       TypeOK, shared, reload

-----------------------------------------------------------------------------
(* The invariant.                                                          *)

\* The invariant holds at first.
LEMMA InvInit == Init => IInv
<1> SUFFICES ASSUME Init PROVE IInv
  OBVIOUS
<1>1. TypeOK
  BY ResolverAssumption DEF ResolverAssumption, Init, TypeOK, Locals, Unstarted, NoTargets,
     C!NoEntries
<1>2. Placed /\ Flights /\ Parts /\ Answers
  BY ResolverAssumption DEF ResolverAssumption, Init, Placed, Flights, Parts, Answers,
     Unstarted, Host, Looking, Working, Settling, Asking, Calls
<1>3. Assigned /\ Landed /\ WokenWithResult /\ NoNilConn /\ Fresh /\ StaleFromInFlight
  BY DEF Init, Assigned, Landed, WokenWithResult, NoNilConn, Fresh, StaleFromInFlight, Asking,
     C!NoEntries, Calls
<1> QED
  BY <1>1, <1>2, <1>3 DEF IInv

\* A leader has a call: one of its own.
LEMMA LeaderCall ==
  ASSUME TypeOK, Parts, NEW d \in Dialers, pc[d] \in Working \cup Settling \cup {"put"}
  PROVE  /\ dial[d].round \in {1, 2}
         /\ dial[d].call = <<d, dial[d].round>> /\ dial[d].call \in Calls
         /\ dial[d].call # Nobody
<1>1. dial[d].round \in {1, 2}
  BY DEF TypeOK, Locals
<1>2. dial[d].call = <<d, dial[d].round>>
  BY DEF Parts
<1>3. dial[d].call \in Calls
  BY <1>1, <1>2 DEF Calls
<1>4. Nobody \notin Calls
  BY ResolverAssumption DEF Calls, ResolverAssumption
<1> QED
  BY <1>1, <1>2, <1>3, <1>4

\* The steps of nobody in particular.
Quiet == UNCHANGED vars \/ UpdateStore \/ UpdateClear \/ RoutesOnly \/ ClearCache \/ Tick

\* Every step is one of these, and leaves dial and calls within their types.
LEMMA Steps ==
  ASSUME IInv, [Next]_vars
  PROVE  /\ Quiet \/ (\E d \in Dialers : Expire(d)) \/ (\E d \in Dialers : Moved(d))
         /\ dial' \in [Dialers -> Locals]
         /\ CallsType'
<1> DEFINE Goal == /\ Quiet \/ (\E d \in Dialers : Expire(d)) \/ (\E d \in Dialers : Moved(d))
                   /\ dial' \in [Dialers -> Locals]
                   /\ CallsType'
<1>0. /\ dial \in [Dialers -> Locals]
      /\ CallsType
  BY DEF IInv, TypeOK, CallsType
<1>1. CASE Quiet
  BY <1>0, <1>1 DEF Quiet, vars, UpdateStore, UpdateClear, RoutesOnly, ClearCache, Tick,
     dialling, shared, CallsType
<1>2. ASSUME NEW d \in Dialers, NEW h \in Hosts, Dial(d, h) PROVE Goal
  BY <1>0, <1>2, DialEffect DEF IInv, Moved, Dial, shared, CallsType
<1>3. ASSUME NEW d \in Dialers, DialLiteral(d) PROVE Goal
  BY <1>0, <1>3, DialLiteralEffect DEF IInv, Moved, DialLiteral, shared, CallsType
<1>4. ASSUME NEW d \in Dialers, Expire(d) PROVE Goal
  BY <1>0, <1>4 DEF Expire, shared, CallsType
<1>5. ASSUME NEW d \in Dialers, Get(d) PROVE Goal
  BY <1>0, <1>5, HitEffect, MissEffect DEF IInv, Moved, Get, shared, CallsType
<1>6. ASSUME NEW d \in Dialers, Begin(d) PROVE Goal
  <2>1. Host(d) \in Hosts
    BY <1>6 DEF IInv, Placed, Looking, Begin
  <2> QED
    BY <1>0, <1>6, <2>1, LeadEffect, JoinEffect DEF IInv, Moved, Begin, CallsType
<1>7. ASSUME NEW d \in Dialers, Wait(d) PROVE Goal
  <2>1. dial[d].call # Nobody
    BY <1>7 DEF IInv, Parts, Wait
  <2> QED
    BY <1>0, <1>7, <2>1, WaitEffect DEF IInv, Moved, Wait, shared, CallsType
<1>8. ASSUME NEW d \in Dialers, Ask(d) PROVE Goal
  BY <1>0, <1>8, AskEffect DEF IInv, Moved, Ask, shared, CallsType
<1>9. ASSUME NEW d \in Dialers, Attempt(d) PROVE Goal
  BY <1>0, <1>9, AttemptEffect DEF IInv, Moved, Attempt, shared, CallsType
<1>10. ASSUME NEW d \in Dialers, Unregister(d) PROVE Goal
  <2>1. Host(d) \in Hosts
    BY <1>10 DEF IInv, Placed, Working, Unregister
  <2> QED
    BY <1>0, <1>10, <2>1, UnregisterEffect DEF IInv, Moved, Unregister, CallsType
<1>11. ASSUME NEW d \in Dialers, Assign(d) PROVE Goal
  <2>1. dial[d].call # Nobody
    BY <1>11, LeaderCall DEF IInv, Settling, Assign
  <2> QED
    BY <1>0, <1>11, <2>1, AssignEffect DEF IInv, Moved, Assign, CallsType
<1>12. ASSUME NEW d \in Dialers, Close(d) PROVE Goal
  <2>1. dial[d].call # Nobody
    BY <1>12, LeaderCall DEF IInv, Settling, Close
  <2> QED
    BY <1>0, <1>12, <2>1, CloseEffect DEF IInv, Moved, Close, CallsType
<1>13. ASSUME NEW d \in Dialers, Put(d) PROVE Goal
  BY <1>0, <1>13, PutEffect DEF IInv, Moved, Put, shared, CallsType
<1>14. ASSUME NEW d \in Dialers, Connect(d) PROVE Goal
  BY <1>0, <1>14, ConnectEffect DEF IInv, Moved, Connect, shared, CallsType
<1>15. ASSUME NEW d \in Dialers, DropCached(d) PROVE Goal
  BY <1>0, <1>15, DropCachedEffect DEF IInv, Moved, DropCached, shared, CallsType
<1> QED
  BY <1>1, <1>2, <1>3, <1>4, <1>5, <1>6, <1>7, <1>8, <1>9, <1>10, <1>11, <1>12,
     <1>13, <1>14, <1>15 DEF Next, Step, Quiet

\* The calls a dialer may lead are calls, of itself.
LEMMA OwnCalls ==
  ASSUME TypeOK, NEW d \in Dialers
  PROVE  /\ dial[d].round \in {1, 2} /\ <<d, dial[d].round>> # Nobody
         /\ \A n \in {1, 2} : <<d, n>> \in Calls /\ <<d, n>> # Nobody
<1>1. dial[d].round \in {1, 2}
  BY DEF TypeOK, Locals
<1>2. \A n \in {1, 2} : <<d, n>> \in Calls /\ <<d, n>> # Nobody
  BY ResolverAssumption DEF Calls, ResolverAssumption
<1> QED
  BY <1>1, <1>2

\* Dialers keep to their places.
LEMMA PlacedStep == IInv /\ [Next]_vars => Placed'
<1> SUFFICES ASSUME IInv, [Next]_vars PROVE Placed'
  OBVIOUS
<1>i. Placed /\ Parts
  BY DEF IInv
<1> USE DEF Placed, Parts, Host, Looking, Working, Settling, Asking
<1>1. CASE Quiet
  BY <1>i, <1>1 DEF Quiet, vars, UpdateStore, UpdateClear, RoutesOnly, ClearCache, Tick,
     dialling, shared, reload
<1>2. ASSUME NEW d \in Dialers, Expire(d) PROVE Placed'
  BY <1>i, <1>2 DEF Expire, shared, reload
<1>3. ASSUME NEW d \in Dialers, NEW h \in Hosts, Dials(d, h) PROVE Placed'
  BY <1>i, <1>3 DEF Dials, Moves, Written, Locally
<1>4. ASSUME NEW d \in Dialers, DialsLiteral(d) PROVE Placed'
  BY <1>i, <1>4 DEF DialsLiteral, Moves, Written, Locally
<1>5. ASSUME NEW d \in Dialers, Hits(d) PROVE Placed'
  BY <1>i, <1>5 DEF Hits, Moves, Written, Locally
<1>6. ASSUME NEW d \in Dialers, Misses(d) PROVE Placed'
  BY <1>i, <1>6 DEF Misses, Moves, Written, Locally
<1>7. ASSUME NEW d \in Dialers, Leads(d) PROVE Placed'
  BY <1>i, <1>7 DEF Leads, Moves, Written, Locally
<1>8. ASSUME NEW d \in Dialers, Joins(d) PROVE Placed'
  BY <1>i, <1>8 DEF Joins, Moves, Written, Locally
<1>9. ASSUME NEW d \in Dialers, Wakes(d) PROVE Placed'
  BY <1>i, <1>9 DEF Wakes, Moves, Written, Locally
<1>10. ASSUME NEW d \in Dialers, WakesToError(d) PROVE Placed'
  BY <1>i, <1>10 DEF WakesToError, Moves, Written
<1>11. ASSUME NEW d \in Dialers, GivesUp(d) PROVE Placed'
  BY <1>i, <1>11 DEF GivesUp, Moves, Written
<1>12. ASSUME NEW d \in Dialers, Asks(d) PROVE Placed'
  BY <1>i, <1>12 DEF Asks, Moves, Written, Locally
<1>13. ASSUME NEW d \in Dialers, IsAnswered(d) PROVE Placed'
  BY <1>i, <1>13 DEF IsAnswered, Moves, Written, Locally
<1>14. ASSUME NEW d \in Dialers, Fails(d) PROVE Placed'
  BY <1>i, <1>14 DEF Fails, Moves, Written, Locally
<1>15. ASSUME NEW d \in Dialers, TriesNext(d) PROVE Placed'
  BY <1>i, <1>15 DEF TriesNext, Moves, Written, Locally
<1>16. ASSUME NEW d \in Dialers, Unregisters(d) PROVE Placed'
  BY <1>i, <1>16 DEF Unregisters, Moves, Written
<1>17. ASSUME NEW d \in Dialers, Assigns(d) PROVE Placed'
  BY <1>i, <1>17 DEF Assigns, Moves, Written, Settled
<1>18. ASSUME NEW d \in Dialers, ClosesFailed(d) PROVE Placed'
  BY <1>i, <1>18 DEF ClosesFailed, Moves, Written, Settled
<1>19. ASSUME NEW d \in Dialers, Closes(d) PROVE Placed'
  BY <1>i, <1>19 DEF Closes, Moves, Written, Settled
<1>20. ASSUME NEW d \in Dialers, Puts(d) PROVE Placed'
  BY <1>i, <1>20 DEF Puts, Moves, Written
<1>21. ASSUME NEW d \in Dialers, ReturnsNil(d) PROVE Placed'
  BY <1>i, <1>21 DEF ReturnsNil, Moves, Written
<1>22. ASSUME NEW d \in Dialers, Returns(d) PROVE Placed'
  BY <1>i, <1>22 DEF Returns, Moves, Written
<1>23. ASSUME NEW d \in Dialers, Retries(d) PROVE Placed'
  BY <1>i, <1>23 DEF Retries, Moves, Written
<1>24. ASSUME NEW d \in Dialers, Drops(d) PROVE Placed'
  BY <1>i, <1>24 DEF Drops, Moves, Written, Locally
<1> QED
  BY Steps, <1>1, <1>2, <1>3, <1>4, <1>5, <1>6, <1>7, <1>8, <1>9, <1>10, <1>11,
     <1>12, <1>13, <1>14, <1>15, <1>16, <1>17, <1>18, <1>19, <1>20, <1>21,
     <1>22, <1>23, <1>24 DEF Moved

\* Calls enter and leave the flight with their leaders.
LEMMA FlightsStep == IInv /\ [Next]_vars => Flights'
<1> SUFFICES ASSUME IInv, [Next]_vars PROVE Flights'
  OBVIOUS
<1>i. Flights /\ Placed /\ Parts
  BY DEF IInv
<1>o. \A e \in Dialers :
        /\ dial[e].round \in {1, 2} /\ <<e, dial[e].round>> # Nobody
        /\ \A n \in {1, 2} : <<e, n>> \in Calls /\ <<e, n>> # Nobody
  BY OwnCalls DEF IInv
<1> USE DEF Flights, Placed, Parts, Host, Looking, Working, Settling, Asking
<1>1. CASE Quiet
  BY <1>i, <1>1, <1>o DEF Quiet, vars, UpdateStore, UpdateClear, RoutesOnly, ClearCache, Tick,
     dialling, shared, reload
<1>2. ASSUME NEW d \in Dialers, Expire(d) PROVE Flights'
  BY <1>i, <1>2, <1>o DEF Expire, shared, reload
<1>3. ASSUME NEW d \in Dialers, NEW h \in Hosts, Dials(d, h) PROVE Flights'
  BY <1>i, <1>3, <1>o DEF Dials, Moves, Written, Locally
<1>4. ASSUME NEW d \in Dialers, DialsLiteral(d) PROVE Flights'
  BY <1>i, <1>4, <1>o DEF DialsLiteral, Moves, Written, Locally
<1>5. ASSUME NEW d \in Dialers, Hits(d) PROVE Flights'
  BY <1>i, <1>5, <1>o DEF Hits, Moves, Written, Locally
<1>6. ASSUME NEW d \in Dialers, Misses(d) PROVE Flights'
  BY <1>i, <1>6, <1>o DEF Misses, Moves, Written, Locally
<1>7. ASSUME NEW d \in Dialers, Leads(d) PROVE Flights'
  <2> DEFINE c == <<d, dial[d].round>>
  <2>1. /\ pc[d] = "begin" /\ Host(d) \in Hosts /\ inflight[Host(d)] = Nobody /\ c # Nobody
        /\ \A x \in Dialers : pc'[x] = IF x = d THEN "ask" ELSE pc[x]
        /\ \A x \in Dialers : dial'[x].host = dial[x].host
        /\ \A x \in Dialers : dial'[x].call = IF x = d THEN c ELSE dial[x].call
        /\ \A h \in Hosts : inflight'[h] = IF h = Host(d) THEN c ELSE inflight[h]
    BY <1>7, <1>o DEF Leads, Moves, Written, Locally
  <2>2. ASSUME NEW x \in Dialers, pc'[x] \in Working
        PROVE  inflight'[dial'[x].host] = dial'[x].call
    <3>1. CASE x = d
      BY <2>1, <3>1
    <3>2. CASE x # d
      <4>1. pc[x] \in Working
        BY <2>1, <2>2, <3>2
      <4>2. dial[x].host \in Hosts
        BY <1>i, <4>1
      <4>3. inflight[dial[x].host] = dial[x].call
        BY <1>i, <4>1
      <4>4. dial[x].call = <<x, dial[x].round>>
        BY <1>i, <4>1
      <4>5. dial[x].call # Nobody
        BY <1>o, <4>4
      <4> QED
        BY <2>1, <3>2, <4>2, <4>3, <4>5
    <3> QED
      BY <3>1, <3>2
  <2>3. ASSUME NEW h \in Hosts, inflight'[h] # Nobody
        PROVE  \E x \in Dialers :
                 pc'[x] \in Working /\ dial'[x].host = h /\ dial'[x].call = inflight'[h]
    <3>1. CASE h = Host(d)
      BY <2>1, <3>1
    <3>2. CASE h # Host(d)
      <4>1. PICK x \in Dialers : pc[x] \in Working /\ dial[x].host = h /\ dial[x].call = inflight[h]
        BY <1>i, <2>1, <2>3, <3>2
      <4> QED
        BY <2>1, <3>2, <4>1
    <3> QED
      BY <3>1, <3>2
  <2> QED
    BY <2>2, <2>3
<1>8. ASSUME NEW d \in Dialers, Joins(d) PROVE Flights'
  BY <1>i, <1>8, <1>o DEF Joins, Moves, Written, Locally
<1>9. ASSUME NEW d \in Dialers, Wakes(d) PROVE Flights'
  BY <1>i, <1>9, <1>o DEF Wakes, Moves, Written, Locally
<1>10. ASSUME NEW d \in Dialers, WakesToError(d) PROVE Flights'
  BY <1>i, <1>10, <1>o DEF WakesToError, Moves, Written
<1>11. ASSUME NEW d \in Dialers, GivesUp(d) PROVE Flights'
  BY <1>i, <1>11, <1>o DEF GivesUp, Moves, Written
<1>12. ASSUME NEW d \in Dialers, Asks(d) PROVE Flights'
  BY <1>i, <1>12, <1>o DEF Asks, Moves, Written, Locally
<1>13. ASSUME NEW d \in Dialers, IsAnswered(d) PROVE Flights'
  BY <1>i, <1>13, <1>o DEF IsAnswered, Moves, Written, Locally
<1>14. ASSUME NEW d \in Dialers, Fails(d) PROVE Flights'
  BY <1>i, <1>14, <1>o DEF Fails, Moves, Written, Locally
<1>15. ASSUME NEW d \in Dialers, TriesNext(d) PROVE Flights'
  BY <1>i, <1>15, <1>o DEF TriesNext, Moves, Written, Locally
<1>16. ASSUME NEW d \in Dialers, Unregisters(d) PROVE Flights'
  BY <1>i, <1>16, <1>o DEF Unregisters, Moves, Written
<1>17. ASSUME NEW d \in Dialers, Assigns(d) PROVE Flights'
  BY <1>i, <1>17, <1>o DEF Assigns, Moves, Written, Settled
<1>18. ASSUME NEW d \in Dialers, ClosesFailed(d) PROVE Flights'
  BY <1>i, <1>18, <1>o DEF ClosesFailed, Moves, Written, Settled
<1>19. ASSUME NEW d \in Dialers, Closes(d) PROVE Flights'
  BY <1>i, <1>19, <1>o DEF Closes, Moves, Written, Settled
<1>20. ASSUME NEW d \in Dialers, Puts(d) PROVE Flights'
  BY <1>i, <1>20, <1>o DEF Puts, Moves, Written
<1>21. ASSUME NEW d \in Dialers, ReturnsNil(d) PROVE Flights'
  BY <1>i, <1>21, <1>o DEF ReturnsNil, Moves, Written
<1>22. ASSUME NEW d \in Dialers, Returns(d) PROVE Flights'
  BY <1>i, <1>22, <1>o DEF Returns, Moves, Written
<1>23. ASSUME NEW d \in Dialers, Retries(d) PROVE Flights'
  BY <1>i, <1>23, <1>o DEF Retries, Moves, Written
<1>24. ASSUME NEW d \in Dialers, Drops(d) PROVE Flights'
  BY <1>i, <1>24, <1>o DEF Drops, Moves, Written, Locally
<1> QED
  BY Steps, <1>1, <1>2, <1>3, <1>4, <1>5, <1>6, <1>7, <1>8, <1>9, <1>10, <1>11,
     <1>12, <1>13, <1>14, <1>15, <1>16, <1>17, <1>18, <1>19, <1>20, <1>21,
     <1>22, <1>23, <1>24 DEF Moved

\* A dialer takes part in one call at most, for good.
LEMMA PartsStep == IInv /\ [Next]_vars => Parts'
<1> SUFFICES ASSUME IInv, [Next]_vars PROVE Parts'
  OBVIOUS
<1>i. Flights /\ Placed /\ Parts
  BY DEF IInv
<1>o. \A e \in Dialers :
        /\ dial[e].round \in {1, 2} /\ <<e, dial[e].round>> # Nobody
        /\ \A n \in {1, 2} : <<e, n>> \in Calls /\ <<e, n>> # Nobody
  BY OwnCalls DEF IInv
<1> USE DEF Flights, Placed, Parts, Host, Looking, Working, Settling, Asking
<1>1. CASE Quiet
  BY <1>i, <1>1, <1>o DEF Quiet, vars, UpdateStore, UpdateClear, RoutesOnly, ClearCache, Tick,
     dialling, shared, reload
<1>2. ASSUME NEW d \in Dialers, Expire(d) PROVE Parts'
  BY <1>i, <1>2, <1>o DEF Expire, shared, reload
<1>3. ASSUME NEW d \in Dialers, NEW h \in Hosts, Dials(d, h) PROVE Parts'
  BY <1>i, <1>3, <1>o DEF Dials, Moves, Written, Locally
<1>4. ASSUME NEW d \in Dialers, DialsLiteral(d) PROVE Parts'
  BY <1>i, <1>4, <1>o DEF DialsLiteral, Moves, Written, Locally
<1>5. ASSUME NEW d \in Dialers, Hits(d) PROVE Parts'
  BY <1>i, <1>5, <1>o DEF Hits, Moves, Written, Locally
<1>6. ASSUME NEW d \in Dialers, Misses(d) PROVE Parts'
  BY <1>i, <1>6, <1>o DEF Misses, Moves, Written, Locally
<1>7. ASSUME NEW d \in Dialers, Leads(d) PROVE Parts'
  BY <1>i, <1>7, <1>o DEF Leads, Moves, Written, Locally
<1>8. ASSUME NEW d \in Dialers, Joins(d) PROVE Parts'
  <2>1. /\ pc[d] = "begin" /\ dial[d].call = Nobody /\ Host(d) \in Hosts
        /\ inflight[Host(d)] \in Calls /\ inflight[Host(d)] # Nobody
    BY <1>8, <1>i, ResolverAssumption DEF Joins, Moves, ResolverAssumption, Calls
  <2>2. PICK e \in Dialers :
          pc[e] \in Working /\ Host(e) = Host(d) /\ dial[e].call = inflight[Host(d)]
    BY <1>i, <2>1 DEF Flights
  <2>3. e # d /\ dial[e].call = <<e, dial[e].round>>
    BY <1>i, <2>1, <2>2
  <2>4. /\ \A x \in Dialers : pc'[x] = IF x = d THEN "wait" ELSE pc[x]
        /\ \A x \in Dialers : dial'[x].call =
             IF x = d THEN <<e, dial[e].round>> ELSE dial[x].call
        /\ \A x \in Dialers : dial'[x].round = dial[x].round
    BY <1>8, <2>2, <2>3 DEF Joins, Moves, Written, Locally
  <2>5. ASSUME NEW x \in Dialers
        PROVE  /\ pc'[x] \in {"idle", "get", "begin", "evict"} => dial'[x].call = Nobody
               /\ pc'[x] \in Working \cup Settling \cup {"put"} =>
                    dial'[x].call = <<x, dial'[x].round>>
               /\ pc'[x] = "wait" => dial'[x].call # Nobody
    <3>1. /\ pc[x] \in {"idle", "get", "begin", "evict"} => dial[x].call = Nobody
          /\ pc[x] \in Working \cup Settling \cup {"put"} => dial[x].call = <<x, dial[x].round>>
          /\ pc[x] = "wait" => dial[x].call # Nobody
      BY <1>i
    <3>2. <<e, dial[e].round>> # Nobody
      BY <1>o
    <3> QED
      BY <2>4, <3>1, <3>2
  <2>6. ASSUME NEW x \in Dialers, NEW y \in Dialers, NEW n \in {1, 2}, dial'[x].call = <<y, n>>
        PROVE  dial'[y].call = <<y, n>>
    <3>1. CASE x = d
      BY <2>3, <2>4, <2>6, <3>1
    <3>2. CASE x # d
      <4>1. dial[x].call = <<y, n>>
        BY <2>4, <2>6, <3>2
      <4>2. dial[y].call = <<y, n>>
        BY <1>i, <4>1
      <4>3. y # d
        BY <1>o, <2>1, <4>2
      <4> QED
        BY <2>4, <4>2, <4>3
    <3> QED
      BY <3>1, <3>2
  <2> QED
    BY <2>5, <2>6
<1>9. ASSUME NEW d \in Dialers, Wakes(d) PROVE Parts'
  BY <1>i, <1>9, <1>o DEF Wakes, Moves, Written, Locally
<1>10. ASSUME NEW d \in Dialers, WakesToError(d) PROVE Parts'
  BY <1>i, <1>10, <1>o DEF WakesToError, Moves, Written
<1>11. ASSUME NEW d \in Dialers, GivesUp(d) PROVE Parts'
  BY <1>i, <1>11, <1>o DEF GivesUp, Moves, Written
<1>12. ASSUME NEW d \in Dialers, Asks(d) PROVE Parts'
  BY <1>i, <1>12, <1>o DEF Asks, Moves, Written, Locally
<1>13. ASSUME NEW d \in Dialers, IsAnswered(d) PROVE Parts'
  BY <1>i, <1>13, <1>o DEF IsAnswered, Moves, Written, Locally
<1>14. ASSUME NEW d \in Dialers, Fails(d) PROVE Parts'
  BY <1>i, <1>14, <1>o DEF Fails, Moves, Written, Locally
<1>15. ASSUME NEW d \in Dialers, TriesNext(d) PROVE Parts'
  BY <1>i, <1>15, <1>o DEF TriesNext, Moves, Written, Locally
<1>16. ASSUME NEW d \in Dialers, Unregisters(d) PROVE Parts'
  BY <1>i, <1>16, <1>o DEF Unregisters, Moves, Written
<1>17. ASSUME NEW d \in Dialers, Assigns(d) PROVE Parts'
  BY <1>i, <1>17, <1>o DEF Assigns, Moves, Written, Settled
<1>18. ASSUME NEW d \in Dialers, ClosesFailed(d) PROVE Parts'
  BY <1>i, <1>18, <1>o DEF ClosesFailed, Moves, Written, Settled
<1>19. ASSUME NEW d \in Dialers, Closes(d) PROVE Parts'
  BY <1>i, <1>19, <1>o DEF Closes, Moves, Written, Settled
<1>20. ASSUME NEW d \in Dialers, Puts(d) PROVE Parts'
  BY <1>i, <1>20, <1>o DEF Puts, Moves, Written
<1>21. ASSUME NEW d \in Dialers, ReturnsNil(d) PROVE Parts'
  BY <1>i, <1>21, <1>o DEF ReturnsNil, Moves, Written
<1>22. ASSUME NEW d \in Dialers, Returns(d) PROVE Parts'
  BY <1>i, <1>22, <1>o DEF Returns, Moves, Written
<1>23. ASSUME NEW d \in Dialers, Retries(d) PROVE Parts'
  BY <1>i, <1>23, <1>o DEF Retries, Moves, Written
<1>24. ASSUME NEW d \in Dialers, Drops(d) PROVE Parts'
  BY <1>i, <1>24, <1>o DEF Drops, Moves, Written, Locally
<1> QED
  BY Steps, <1>1, <1>2, <1>3, <1>4, <1>5, <1>6, <1>7, <1>8, <1>9, <1>10, <1>11,
     <1>12, <1>13, <1>14, <1>15, <1>16, <1>17, <1>18, <1>19, <1>20, <1>21,
     <1>22, <1>23, <1>24 DEF Moved

\* Addresses or an error, never neither.
LEMMA AnswersStep == IInv /\ [Next]_vars => Answers'
<1> SUFFICES ASSUME IInv, [Next]_vars PROVE Answers'
  OBVIOUS
<1>i. Placed /\ Answers /\ WokenWithResult
  BY DEF IInv
<1>o. NoTargets \notin Generations
  BY ResolverAssumption DEF ResolverAssumption, NoTargets
<1> USE DEF Placed, Answers, WokenWithResult, Looking, Working, Settling, Asking
<1>1. CASE Quiet
  BY <1>i, <1>1, <1>o DEF Quiet, vars, UpdateStore, UpdateClear, RoutesOnly, ClearCache, Tick,
     dialling, shared, reload
<1>2. ASSUME NEW d \in Dialers, Expire(d) PROVE Answers'
  BY <1>i, <1>2, <1>o DEF Expire, shared, reload
<1>3. ASSUME NEW d \in Dialers, NEW h \in Hosts, Dials(d, h) PROVE Answers'
  BY <1>i, <1>3, <1>o DEF Dials, Moves, Written, Locally
<1>4. ASSUME NEW d \in Dialers, DialsLiteral(d) PROVE Answers'
  BY <1>i, <1>4, <1>o DEF DialsLiteral, Moves, Written, Locally
<1>5. ASSUME NEW d \in Dialers, Hits(d) PROVE Answers'
  BY <1>i, <1>5, <1>o DEF Hits, Moves, Written, Locally
<1>6. ASSUME NEW d \in Dialers, Misses(d) PROVE Answers'
  BY <1>i, <1>6, <1>o DEF Misses, Moves, Written, Locally
<1>7. ASSUME NEW d \in Dialers, Leads(d) PROVE Answers'
  BY <1>i, <1>7, <1>o DEF Leads, Moves, Written, Locally
<1>8. ASSUME NEW d \in Dialers, Joins(d) PROVE Answers'
  BY <1>i, <1>8, <1>o DEF Joins, Moves, Written, Locally
<1>9. ASSUME NEW d \in Dialers, Wakes(d) PROVE Answers'
  BY <1>i, <1>9, <1>o DEF Wakes, Moves, Written, Locally
<1>10. ASSUME NEW d \in Dialers, WakesToError(d) PROVE Answers'
  BY <1>i, <1>10, <1>o DEF WakesToError, Moves, Written
<1>11. ASSUME NEW d \in Dialers, GivesUp(d) PROVE Answers'
  BY <1>i, <1>11, <1>o DEF GivesUp, Moves, Written
<1>12. ASSUME NEW d \in Dialers, Asks(d) PROVE Answers'
  BY <1>i, <1>12, <1>o DEF Asks, Moves, Written, Locally
<1>13. ASSUME NEW d \in Dialers, IsAnswered(d) PROVE Answers'
  BY <1>i, <1>13, <1>o DEF IsAnswered, Moves, Written, Locally
<1>14. ASSUME NEW d \in Dialers, Fails(d) PROVE Answers'
  BY <1>i, <1>14, <1>o DEF Fails, Moves, Written, Locally
<1>15. ASSUME NEW d \in Dialers, TriesNext(d) PROVE Answers'
  BY <1>i, <1>15, <1>o DEF TriesNext, Moves, Written, Locally
<1>16. ASSUME NEW d \in Dialers, Unregisters(d) PROVE Answers'
  BY <1>i, <1>16, <1>o DEF Unregisters, Moves, Written
<1>17. ASSUME NEW d \in Dialers, Assigns(d) PROVE Answers'
  BY <1>i, <1>17, <1>o DEF Assigns, Moves, Written, Settled
<1>18. ASSUME NEW d \in Dialers, ClosesFailed(d) PROVE Answers'
  BY <1>i, <1>18, <1>o DEF ClosesFailed, Moves, Written, Settled
<1>19. ASSUME NEW d \in Dialers, Closes(d) PROVE Answers'
  BY <1>i, <1>19, <1>o DEF Closes, Moves, Written, Settled
<1>20. ASSUME NEW d \in Dialers, Puts(d) PROVE Answers'
  BY <1>i, <1>20, <1>o DEF Puts, Moves, Written
<1>21. ASSUME NEW d \in Dialers, ReturnsNil(d) PROVE Answers'
  BY <1>i, <1>21, <1>o DEF ReturnsNil, Moves, Written
<1>22. ASSUME NEW d \in Dialers, Returns(d) PROVE Answers'
  BY <1>i, <1>22, <1>o DEF Returns, Moves, Written
<1>23. ASSUME NEW d \in Dialers, Retries(d) PROVE Answers'
  BY <1>i, <1>23, <1>o DEF Retries, Moves, Written
<1>24. ASSUME NEW d \in Dialers, Drops(d) PROVE Answers'
  BY <1>i, <1>24, <1>o DEF Drops, Moves, Written, Locally
<1> QED
  BY Steps, <1>1, <1>2, <1>3, <1>4, <1>5, <1>6, <1>7, <1>8, <1>9, <1>10, <1>11,
     <1>12, <1>13, <1>14, <1>15, <1>16, <1>17, <1>18, <1>19, <1>20, <1>21,
     <1>22, <1>23, <1>24 DEF Moved

\* What a leader found is in its call before it is closed.
LEMMA AssignedStep == IInv /\ [Next]_vars => Assigned'
<1> SUFFICES ASSUME IInv, [Next]_vars, NEW e \in Dialers, pc'[e] = "close"
    PROVE  /\ calls'[dial'[e].call].targets = dial'[e].targets
           /\ (calls'[dial'[e].call].err <=> dial'[e].err)
  BY DEF Assigned
<1> DEFINE Goal == /\ calls'[dial'[e].call].targets = dial'[e].targets
                   /\ (calls'[dial'[e].call].err <=> dial'[e].err)
<1>i. Placed
  BY DEF IInv
<1>o. /\ pc[e] = "close" => calls[dial[e].call].targets = dial[e].targets
      /\ pc[e] = "close" => (calls[dial[e].call].err <=> dial[e].err)
      /\ pc[e] \in Settling => dial[e].call \in Calls /\ dial[e].call = <<e, dial[e].round>>
      /\ \A d \in Dialers : pc[d] \in Settling =>
           dial[d].call \in Calls /\ dial[d].call = <<d, dial[d].round>>
  BY LeaderCall DEF IInv, Assigned
<1> USE DEF Assigned, Placed, Looking, Working, Settling, Asking
<1>1. CASE Quiet
  BY <1>i, <1>1, <1>o DEF Quiet, vars, UpdateStore, UpdateClear, RoutesOnly, ClearCache, Tick,
     dialling, shared, reload
<1>2. ASSUME NEW d \in Dialers, Expire(d) PROVE Goal
  BY <1>i, <1>2, <1>o DEF Expire, shared, reload
<1>3. ASSUME NEW d \in Dialers, NEW h \in Hosts, Dials(d, h) PROVE Goal
  BY <1>i, <1>3, <1>o DEF Dials, Moves, Written, Locally
<1>4. ASSUME NEW d \in Dialers, DialsLiteral(d) PROVE Goal
  BY <1>i, <1>4, <1>o DEF DialsLiteral, Moves, Written, Locally
<1>5. ASSUME NEW d \in Dialers, Hits(d) PROVE Goal
  BY <1>i, <1>5, <1>o DEF Hits, Moves, Written, Locally
<1>6. ASSUME NEW d \in Dialers, Misses(d) PROVE Goal
  BY <1>i, <1>6, <1>o DEF Misses, Moves, Written, Locally
<1>7. ASSUME NEW d \in Dialers, Leads(d) PROVE Goal
  BY <1>i, <1>7, <1>o DEF Leads, Moves, Written, Locally
<1>8. ASSUME NEW d \in Dialers, Joins(d) PROVE Goal
  BY <1>i, <1>8, <1>o DEF Joins, Moves, Written, Locally
<1>9. ASSUME NEW d \in Dialers, Wakes(d) PROVE Goal
  BY <1>i, <1>9, <1>o DEF Wakes, Moves, Written, Locally
<1>10. ASSUME NEW d \in Dialers, WakesToError(d) PROVE Goal
  BY <1>i, <1>10, <1>o DEF WakesToError, Moves, Written
<1>11. ASSUME NEW d \in Dialers, GivesUp(d) PROVE Goal
  BY <1>i, <1>11, <1>o DEF GivesUp, Moves, Written
<1>12. ASSUME NEW d \in Dialers, Asks(d) PROVE Goal
  BY <1>i, <1>12, <1>o DEF Asks, Moves, Written, Locally
<1>13. ASSUME NEW d \in Dialers, IsAnswered(d) PROVE Goal
  BY <1>i, <1>13, <1>o DEF IsAnswered, Moves, Written, Locally
<1>14. ASSUME NEW d \in Dialers, Fails(d) PROVE Goal
  BY <1>i, <1>14, <1>o DEF Fails, Moves, Written, Locally
<1>15. ASSUME NEW d \in Dialers, TriesNext(d) PROVE Goal
  BY <1>i, <1>15, <1>o DEF TriesNext, Moves, Written, Locally
<1>16. ASSUME NEW d \in Dialers, Unregisters(d) PROVE Goal
  BY <1>i, <1>16, <1>o DEF Unregisters, Moves, Written
<1>17. ASSUME NEW d \in Dialers, Assigns(d) PROVE Goal
  BY <1>i, <1>17, <1>o DEF Assigns, Moves, Written, Settled
<1>18. ASSUME NEW d \in Dialers, ClosesFailed(d) PROVE Goal
  BY <1>i, <1>18, <1>o DEF ClosesFailed, Moves, Written, Settled
<1>19. ASSUME NEW d \in Dialers, Closes(d) PROVE Goal
  BY <1>i, <1>19, <1>o DEF Closes, Moves, Written, Settled
<1>20. ASSUME NEW d \in Dialers, Puts(d) PROVE Goal
  BY <1>i, <1>20, <1>o DEF Puts, Moves, Written
<1>21. ASSUME NEW d \in Dialers, ReturnsNil(d) PROVE Goal
  BY <1>i, <1>21, <1>o DEF ReturnsNil, Moves, Written
<1>22. ASSUME NEW d \in Dialers, Returns(d) PROVE Goal
  BY <1>i, <1>22, <1>o DEF Returns, Moves, Written
<1>23. ASSUME NEW d \in Dialers, Retries(d) PROVE Goal
  BY <1>i, <1>23, <1>o DEF Retries, Moves, Written
<1>24. ASSUME NEW d \in Dialers, Drops(d) PROVE Goal
  BY <1>i, <1>24, <1>o DEF Drops, Moves, Written, Locally
<1> QED
  BY Steps, <1>1, <1>2, <1>3, <1>4, <1>5, <1>6, <1>7, <1>8, <1>9, <1>10, <1>11,
     <1>12, <1>13, <1>14, <1>15, <1>16, <1>17, <1>18, <1>19, <1>20, <1>21,
     <1>22, <1>23, <1>24 DEF Moved

\* A call is closed by its leader.
LEMMA LandedStep == IInv /\ [Next]_vars => Landed'
<1> SUFFICES ASSUME IInv, [Next]_vars, NEW e \in Dialers, NEW n \in {1, 2}, calls'[<<e, n>>].done
    PROVE  dial'[e].call = <<e, n>> /\ pc'[e] \in {"put", "connect", "done"}
  BY DEF Landed
<1> DEFINE Goal == dial'[e].call = <<e, n>> /\ pc'[e] \in {"put", "connect", "done"}
<1>i. Placed
  BY DEF IInv
<1>o. /\ <<e, n>> \in Calls /\ <<e, n>> # Nobody
      /\ calls[<<e, n>>].done => dial[e].call = <<e, n>> /\ pc[e] \in {"put", "connect", "done"}
      /\ \A d \in Dialers : pc[d] \in Settling => dial[d].call = <<d, dial[d].round>>
  BY OwnCalls DEF IInv, Landed, Parts
<1> USE DEF Placed, Looking, Working, Settling, Asking
<1>1. CASE Quiet
  BY <1>i, <1>1, <1>o DEF Quiet, vars, UpdateStore, UpdateClear, RoutesOnly, ClearCache, Tick,
     dialling, shared, reload
<1>2. ASSUME NEW d \in Dialers, Expire(d) PROVE Goal
  BY <1>i, <1>2, <1>o DEF Expire, shared, reload
<1>3. ASSUME NEW d \in Dialers, NEW h \in Hosts, Dials(d, h) PROVE Goal
  BY <1>i, <1>3, <1>o DEF Dials, Moves, Written, Locally
<1>4. ASSUME NEW d \in Dialers, DialsLiteral(d) PROVE Goal
  BY <1>i, <1>4, <1>o DEF DialsLiteral, Moves, Written, Locally
<1>5. ASSUME NEW d \in Dialers, Hits(d) PROVE Goal
  BY <1>i, <1>5, <1>o DEF Hits, Moves, Written, Locally
<1>6. ASSUME NEW d \in Dialers, Misses(d) PROVE Goal
  BY <1>i, <1>6, <1>o DEF Misses, Moves, Written, Locally
<1>7. ASSUME NEW d \in Dialers, Leads(d) PROVE Goal
  BY <1>i, <1>7, <1>o DEF Leads, Moves, Written, Locally
<1>8. ASSUME NEW d \in Dialers, Joins(d) PROVE Goal
  BY <1>i, <1>8, <1>o DEF Joins, Moves, Written, Locally
<1>9. ASSUME NEW d \in Dialers, Wakes(d) PROVE Goal
  BY <1>i, <1>9, <1>o DEF Wakes, Moves, Written, Locally
<1>10. ASSUME NEW d \in Dialers, WakesToError(d) PROVE Goal
  BY <1>i, <1>10, <1>o DEF WakesToError, Moves, Written
<1>11. ASSUME NEW d \in Dialers, GivesUp(d) PROVE Goal
  BY <1>i, <1>11, <1>o DEF GivesUp, Moves, Written
<1>12. ASSUME NEW d \in Dialers, Asks(d) PROVE Goal
  BY <1>i, <1>12, <1>o DEF Asks, Moves, Written, Locally
<1>13. ASSUME NEW d \in Dialers, IsAnswered(d) PROVE Goal
  BY <1>i, <1>13, <1>o DEF IsAnswered, Moves, Written, Locally
<1>14. ASSUME NEW d \in Dialers, Fails(d) PROVE Goal
  BY <1>i, <1>14, <1>o DEF Fails, Moves, Written, Locally
<1>15. ASSUME NEW d \in Dialers, TriesNext(d) PROVE Goal
  BY <1>i, <1>15, <1>o DEF TriesNext, Moves, Written, Locally
<1>16. ASSUME NEW d \in Dialers, Unregisters(d) PROVE Goal
  BY <1>i, <1>16, <1>o DEF Unregisters, Moves, Written
<1>17. ASSUME NEW d \in Dialers, Assigns(d) PROVE Goal
  BY <1>i, <1>17, <1>o DEF Assigns, Moves, Written, Settled
<1>18. ASSUME NEW d \in Dialers, ClosesFailed(d) PROVE Goal
  BY <1>i, <1>18, <1>o DEF ClosesFailed, Moves, Written, Settled
<1>19. ASSUME NEW d \in Dialers, Closes(d) PROVE Goal
  BY <1>i, <1>19, <1>o DEF Closes, Moves, Written, Settled
<1>20. ASSUME NEW d \in Dialers, Puts(d) PROVE Goal
  BY <1>i, <1>20, <1>o DEF Puts, Moves, Written
<1>21. ASSUME NEW d \in Dialers, ReturnsNil(d) PROVE Goal
  BY <1>i, <1>21, <1>o DEF ReturnsNil, Moves, Written
<1>22. ASSUME NEW d \in Dialers, Returns(d) PROVE Goal
  BY <1>i, <1>22, <1>o DEF Returns, Moves, Written
<1>23. ASSUME NEW d \in Dialers, Retries(d) PROVE Goal
  BY <1>i, <1>23, <1>o DEF Retries, Moves, Written
<1>24. ASSUME NEW d \in Dialers, Drops(d) PROVE Goal
  BY <1>i, <1>24, <1>o DEF Drops, Moves, Written, Locally
<1> QED
  BY Steps, <1>1, <1>2, <1>3, <1>4, <1>5, <1>6, <1>7, <1>8, <1>9, <1>10, <1>11,
     <1>12, <1>13, <1>14, <1>15, <1>16, <1>17, <1>18, <1>19, <1>20, <1>21,
     <1>22, <1>23, <1>24 DEF Moved

\* Who is woken finds addresses or an error.
LEMMA WokenStep == IInv /\ [Next]_vars => WokenWithResult'
<1> SUFFICES ASSUME IInv, [Next]_vars PROVE WokenWithResult'
  OBVIOUS
<1>i. Parts /\ Assigned /\ Answers /\ WokenWithResult
  BY DEF IInv
<1> USE DEF Assigned, Answers, WokenWithResult, Looking, Working, Settling, Asking
<1>1. CASE Quiet
  BY <1>i, <1>1 DEF Quiet, vars, UpdateStore, UpdateClear, RoutesOnly, ClearCache, Tick,
     dialling, shared, reload
<1>2. ASSUME NEW d \in Dialers, Expire(d) PROVE WokenWithResult'
  BY <1>i, <1>2 DEF Expire, shared, reload
<1>3. ASSUME NEW d \in Dialers, NEW h \in Hosts, Dials(d, h) PROVE WokenWithResult'
  BY <1>i, <1>3 DEF Dials, Moves, Written, Locally
<1>4. ASSUME NEW d \in Dialers, DialsLiteral(d) PROVE WokenWithResult'
  BY <1>i, <1>4 DEF DialsLiteral, Moves, Written, Locally
<1>5. ASSUME NEW d \in Dialers, Hits(d) PROVE WokenWithResult'
  BY <1>i, <1>5 DEF Hits, Moves, Written, Locally
<1>6. ASSUME NEW d \in Dialers, Misses(d) PROVE WokenWithResult'
  BY <1>i, <1>6 DEF Misses, Moves, Written, Locally
<1>7. ASSUME NEW d \in Dialers, Leads(d) PROVE WokenWithResult'
  BY <1>i, <1>7 DEF Leads, Moves, Written, Locally
<1>8. ASSUME NEW d \in Dialers, Joins(d) PROVE WokenWithResult'
  BY <1>i, <1>8 DEF Joins, Moves, Written, Locally
<1>9. ASSUME NEW d \in Dialers, Wakes(d) PROVE WokenWithResult'
  BY <1>i, <1>9 DEF Wakes, Moves, Written, Locally
<1>10. ASSUME NEW d \in Dialers, WakesToError(d) PROVE WokenWithResult'
  BY <1>i, <1>10 DEF WakesToError, Moves, Written
<1>11. ASSUME NEW d \in Dialers, GivesUp(d) PROVE WokenWithResult'
  BY <1>i, <1>11 DEF GivesUp, Moves, Written
<1>12. ASSUME NEW d \in Dialers, Asks(d) PROVE WokenWithResult'
  BY <1>i, <1>12 DEF Asks, Moves, Written, Locally
<1>13. ASSUME NEW d \in Dialers, IsAnswered(d) PROVE WokenWithResult'
  BY <1>i, <1>13 DEF IsAnswered, Moves, Written, Locally
<1>14. ASSUME NEW d \in Dialers, Fails(d) PROVE WokenWithResult'
  BY <1>i, <1>14 DEF Fails, Moves, Written, Locally
<1>15. ASSUME NEW d \in Dialers, TriesNext(d) PROVE WokenWithResult'
  BY <1>i, <1>15 DEF TriesNext, Moves, Written, Locally
<1>16. ASSUME NEW d \in Dialers, Unregisters(d) PROVE WokenWithResult'
  BY <1>i, <1>16 DEF Unregisters, Moves, Written
<1>17. ASSUME NEW d \in Dialers, Assigns(d) PROVE WokenWithResult'
  BY <1>i, <1>17 DEF Assigns, Moves, Written, Settled
<1>18. ASSUME NEW d \in Dialers, ClosesFailed(d) PROVE WokenWithResult'
  BY <1>i, <1>18 DEF ClosesFailed, Moves, Written, Settled
<1>19. ASSUME NEW d \in Dialers, Closes(d) PROVE WokenWithResult'
  BY <1>i, <1>19 DEF Closes, Moves, Written, Settled
<1>20. ASSUME NEW d \in Dialers, Puts(d) PROVE WokenWithResult'
  BY <1>i, <1>20 DEF Puts, Moves, Written
<1>21. ASSUME NEW d \in Dialers, ReturnsNil(d) PROVE WokenWithResult'
  BY <1>i, <1>21 DEF ReturnsNil, Moves, Written
<1>22. ASSUME NEW d \in Dialers, Returns(d) PROVE WokenWithResult'
  BY <1>i, <1>22 DEF Returns, Moves, Written
<1>23. ASSUME NEW d \in Dialers, Retries(d) PROVE WokenWithResult'
  BY <1>i, <1>23 DEF Retries, Moves, Written
<1>24. ASSUME NEW d \in Dialers, Drops(d) PROVE WokenWithResult'
  BY <1>i, <1>24 DEF Drops, Moves, Written, Locally
<1> QED
  BY Steps, <1>1, <1>2, <1>3, <1>4, <1>5, <1>6, <1>7, <1>8, <1>9, <1>10, <1>11,
     <1>12, <1>13, <1>14, <1>15, <1>16, <1>17, <1>18, <1>19, <1>20, <1>21,
     <1>22, <1>23, <1>24 DEF Moved

\* Nobody returns without either.
LEMMA NilStep == IInv /\ [Next]_vars => NoNilConn'
<1> SUFFICES ASSUME IInv, [Next]_vars PROVE NoNilConn'
  OBVIOUS
<1>i. Answers /\ NoNilConn
  BY DEF IInv
<1> USE DEF Answers, NoNilConn, Looking, Working, Settling, Asking
<1>1. CASE Quiet
  BY <1>i, <1>1 DEF Quiet, vars, UpdateStore, UpdateClear, RoutesOnly, ClearCache, Tick,
     dialling, shared, reload
<1>2. ASSUME NEW d \in Dialers, Expire(d) PROVE NoNilConn'
  BY <1>i, <1>2 DEF Expire, shared, reload
<1>3. ASSUME NEW d \in Dialers, NEW h \in Hosts, Dials(d, h) PROVE NoNilConn'
  BY <1>i, <1>3 DEF Dials, Moves, Written, Locally
<1>4. ASSUME NEW d \in Dialers, DialsLiteral(d) PROVE NoNilConn'
  BY <1>i, <1>4 DEF DialsLiteral, Moves, Written, Locally
<1>5. ASSUME NEW d \in Dialers, Hits(d) PROVE NoNilConn'
  BY <1>i, <1>5 DEF Hits, Moves, Written, Locally
<1>6. ASSUME NEW d \in Dialers, Misses(d) PROVE NoNilConn'
  BY <1>i, <1>6 DEF Misses, Moves, Written, Locally
<1>7. ASSUME NEW d \in Dialers, Leads(d) PROVE NoNilConn'
  BY <1>i, <1>7 DEF Leads, Moves, Written, Locally
<1>8. ASSUME NEW d \in Dialers, Joins(d) PROVE NoNilConn'
  BY <1>i, <1>8 DEF Joins, Moves, Written, Locally
<1>9. ASSUME NEW d \in Dialers, Wakes(d) PROVE NoNilConn'
  BY <1>i, <1>9 DEF Wakes, Moves, Written, Locally
<1>10. ASSUME NEW d \in Dialers, WakesToError(d) PROVE NoNilConn'
  BY <1>i, <1>10 DEF WakesToError, Moves, Written
<1>11. ASSUME NEW d \in Dialers, GivesUp(d) PROVE NoNilConn'
  BY <1>i, <1>11 DEF GivesUp, Moves, Written
<1>12. ASSUME NEW d \in Dialers, Asks(d) PROVE NoNilConn'
  BY <1>i, <1>12 DEF Asks, Moves, Written, Locally
<1>13. ASSUME NEW d \in Dialers, IsAnswered(d) PROVE NoNilConn'
  BY <1>i, <1>13 DEF IsAnswered, Moves, Written, Locally
<1>14. ASSUME NEW d \in Dialers, Fails(d) PROVE NoNilConn'
  BY <1>i, <1>14 DEF Fails, Moves, Written, Locally
<1>15. ASSUME NEW d \in Dialers, TriesNext(d) PROVE NoNilConn'
  BY <1>i, <1>15 DEF TriesNext, Moves, Written, Locally
<1>16. ASSUME NEW d \in Dialers, Unregisters(d) PROVE NoNilConn'
  BY <1>i, <1>16 DEF Unregisters, Moves, Written
<1>17. ASSUME NEW d \in Dialers, Assigns(d) PROVE NoNilConn'
  BY <1>i, <1>17 DEF Assigns, Moves, Written, Settled
<1>18. ASSUME NEW d \in Dialers, ClosesFailed(d) PROVE NoNilConn'
  BY <1>i, <1>18 DEF ClosesFailed, Moves, Written, Settled
<1>19. ASSUME NEW d \in Dialers, Closes(d) PROVE NoNilConn'
  BY <1>i, <1>19 DEF Closes, Moves, Written, Settled
<1>20. ASSUME NEW d \in Dialers, Puts(d) PROVE NoNilConn'
  BY <1>i, <1>20 DEF Puts, Moves, Written
<1>21. ASSUME NEW d \in Dialers, ReturnsNil(d) PROVE NoNilConn'
  BY <1>i, <1>21 DEF ReturnsNil, Moves, Written
<1>22. ASSUME NEW d \in Dialers, Returns(d) PROVE NoNilConn'
  BY <1>i, <1>22 DEF Returns, Moves, Written
<1>23. ASSUME NEW d \in Dialers, Retries(d) PROVE NoNilConn'
  BY <1>i, <1>23 DEF Retries, Moves, Written
<1>24. ASSUME NEW d \in Dialers, Drops(d) PROVE NoNilConn'
  BY <1>i, <1>24 DEF Drops, Moves, Written, Locally
<1> QED
  BY Steps, <1>1, <1>2, <1>3, <1>4, <1>5, <1>6, <1>7, <1>8, <1>9, <1>10, <1>11,
     <1>12, <1>13, <1>14, <1>15, <1>16, <1>17, <1>18, <1>19, <1>20, <1>21,
     <1>22, <1>23, <1>24 DEF Moved

\* Whoever asks reads the list in force.
LEMMA FreshStep == IInv /\ [Next]_vars => Fresh'
<1> SUFFICES ASSUME IInv, [Next]_vars PROVE Fresh'
  OBVIOUS
<1>i. Placed /\ Fresh
  BY DEF IInv
<1> USE DEF Placed, Fresh, Host, InFlight, Looking, Working, Settling, Asking
<1>1. CASE Quiet
  BY <1>i, <1>1 DEF Quiet, vars, UpdateStore, UpdateClear, RoutesOnly, ClearCache, Tick,
     dialling, shared, reload
<1>2. ASSUME NEW d \in Dialers, Expire(d) PROVE Fresh'
  BY <1>i, <1>2 DEF Expire, shared, reload
<1>3. ASSUME NEW d \in Dialers, NEW h \in Hosts, Dials(d, h) PROVE Fresh'
  BY <1>i, <1>3 DEF Dials, Moves, Written, Locally
<1>4. ASSUME NEW d \in Dialers, DialsLiteral(d) PROVE Fresh'
  BY <1>i, <1>4 DEF DialsLiteral, Moves, Written, Locally
<1>5. ASSUME NEW d \in Dialers, Hits(d) PROVE Fresh'
  BY <1>i, <1>5 DEF Hits, Moves, Written, Locally
<1>6. ASSUME NEW d \in Dialers, Misses(d) PROVE Fresh'
  BY <1>i, <1>6 DEF Misses, Moves, Written, Locally
<1>7. ASSUME NEW d \in Dialers, Leads(d) PROVE Fresh'
  BY <1>i, <1>7 DEF Leads, Moves, Written, Locally
<1>8. ASSUME NEW d \in Dialers, Joins(d) PROVE Fresh'
  BY <1>i, <1>8 DEF Joins, Moves, Written, Locally
<1>9. ASSUME NEW d \in Dialers, Wakes(d) PROVE Fresh'
  BY <1>i, <1>9 DEF Wakes, Moves, Written, Locally
<1>10. ASSUME NEW d \in Dialers, WakesToError(d) PROVE Fresh'
  BY <1>i, <1>10 DEF WakesToError, Moves, Written
<1>11. ASSUME NEW d \in Dialers, GivesUp(d) PROVE Fresh'
  BY <1>i, <1>11 DEF GivesUp, Moves, Written
<1>12. ASSUME NEW d \in Dialers, Asks(d) PROVE Fresh'
  BY <1>i, <1>12 DEF Asks, Moves, Written, Locally
<1>13. ASSUME NEW d \in Dialers, IsAnswered(d) PROVE Fresh'
  BY <1>i, <1>13 DEF IsAnswered, Moves, Written, Locally
<1>14. ASSUME NEW d \in Dialers, Fails(d) PROVE Fresh'
  BY <1>i, <1>14 DEF Fails, Moves, Written, Locally
<1>15. ASSUME NEW d \in Dialers, TriesNext(d) PROVE Fresh'
  BY <1>i, <1>15 DEF TriesNext, Moves, Written, Locally
<1>16. ASSUME NEW d \in Dialers, Unregisters(d) PROVE Fresh'
  BY <1>i, <1>16 DEF Unregisters, Moves, Written
<1>17. ASSUME NEW d \in Dialers, Assigns(d) PROVE Fresh'
  BY <1>i, <1>17 DEF Assigns, Moves, Written, Settled
<1>18. ASSUME NEW d \in Dialers, ClosesFailed(d) PROVE Fresh'
  BY <1>i, <1>18 DEF ClosesFailed, Moves, Written, Settled
<1>19. ASSUME NEW d \in Dialers, Closes(d) PROVE Fresh'
  BY <1>i, <1>19 DEF Closes, Moves, Written, Settled
<1>20. ASSUME NEW d \in Dialers, Puts(d) PROVE Fresh'
  BY <1>i, <1>20 DEF Puts, Moves, Written
<1>21. ASSUME NEW d \in Dialers, ReturnsNil(d) PROVE Fresh'
  BY <1>i, <1>21 DEF ReturnsNil, Moves, Written
<1>22. ASSUME NEW d \in Dialers, Returns(d) PROVE Fresh'
  BY <1>i, <1>22 DEF Returns, Moves, Written
<1>23. ASSUME NEW d \in Dialers, Retries(d) PROVE Fresh'
  BY <1>i, <1>23 DEF Retries, Moves, Written
<1>24. ASSUME NEW d \in Dialers, Drops(d) PROVE Fresh'
  BY <1>i, <1>24 DEF Drops, Moves, Written, Locally
<1> QED
  BY Steps, <1>1, <1>2, <1>3, <1>4, <1>5, <1>6, <1>7, <1>8, <1>9, <1>10, <1>11,
     <1>12, <1>13, <1>14, <1>15, <1>16, <1>17, <1>18, <1>19, <1>20, <1>21,
     <1>22, <1>23, <1>24 DEF Moved

\* The variables besides dial, calls and entries keep their types.
TypeRest ==
  /\ pc \in [Dialers -> {"idle", "get", "begin", "wait", "ask", "attempt",
                         "unregister", "assign", "close", "put", "connect",
                         "evict", "done"}]
  /\ expired \subseteq Dialers
  /\ result \in [Dialers -> {"none", "conn", "nilConn", "lookupError",
                             "dialError", "contextDone"}]
  /\ inflight \in [Hosts -> Calls \cup {Nobody}]
  /\ current \in Generations
  /\ reset \in {"none", "update", "reset"}
  /\ clock \in Nat
  /\ carried \subseteq Hosts

\* They keep them.
LEMMA TypeRestStep == IInv /\ [Next]_vars => TypeRest'
<1> SUFFICES ASSUME IInv, [Next]_vars PROVE TypeRest'
  OBVIOUS
<1>i. TypeRest
  BY DEF IInv, TypeOK, TypeRest
<1>p. InFlight \subseteq Hosts
  BY DEF IInv, Placed, InFlight, Working, Settling
<1>o. \A d \in Dialers : dial[d].round \in {1, 2} /\ <<d, dial[d].round>> \in Calls
  BY OwnCalls DEF IInv
<1> USE DEF TypeRest
<1>1. CASE UNCHANGED vars
  BY <1>i, <1>p, <1>1 DEF vars
<1>2. CASE UpdateStore
  BY <1>i, <1>p, <1>2 DEF UpdateStore, dialling, shared, reload
<1>3. CASE UpdateClear
  BY <1>i, <1>p, <1>3 DEF UpdateClear, dialling, shared, reload
<1>4. CASE RoutesOnly
  BY <1>i, <1>p, <1>4 DEF RoutesOnly, dialling, shared, reload
<1>5. CASE ClearCache
  BY <1>i, <1>p, <1>5 DEF ClearCache, dialling, shared, reload
<1>6. CASE Tick
  BY <1>i, <1>p, <1>6 DEF Tick, dialling, shared, reload
<1>7. ASSUME NEW d \in Dialers, DialLiteral(d) PROVE TypeRest'
  BY <1>i, <1>o, <1>7 DEF DialLiteral, Return, Goto, shared, reload
<1>8. ASSUME NEW d \in Dialers, Expire(d) PROVE TypeRest'
  BY <1>i, <1>o, <1>8 DEF Expire, Return, Goto, shared, reload
<1>9. ASSUME NEW d \in Dialers, Get(d) PROVE TypeRest'
  BY <1>i, <1>o, <1>9 DEF Get, Return, Goto, shared, reload
<1>10. ASSUME NEW d \in Dialers, Begin(d) PROVE TypeRest'
  BY <1>i, <1>o, <1>10 DEF Begin, Lead, Goto, reload
<1>11. ASSUME NEW d \in Dialers, Wait(d) PROVE TypeRest'
  BY <1>i, <1>o, <1>11 DEF Wait, Return, Goto, shared, reload
<1>12. ASSUME NEW d \in Dialers, Ask(d) PROVE TypeRest'
  BY <1>i, <1>o, <1>12 DEF Ask, Return, Goto, shared, reload
<1>13. ASSUME NEW d \in Dialers, Attempt(d) PROVE TypeRest'
  BY <1>i, <1>o, <1>13 DEF Attempt, Answered, Failed, Goto, shared, reload
<1>14. ASSUME NEW d \in Dialers, Unregister(d) PROVE TypeRest'
  BY <1>i, <1>o, <1>14 DEF Unregister, Return, Goto, shared, reload
<1>15. ASSUME NEW d \in Dialers, Assign(d) PROVE TypeRest'
  BY <1>i, <1>o, <1>15 DEF Assign, Return, Goto, shared, reload
<1>16. ASSUME NEW d \in Dialers, Close(d) PROVE TypeRest'
  BY <1>i, <1>o, <1>16 DEF Close, Return, Goto, shared, reload
<1>17. ASSUME NEW d \in Dialers, Put(d) PROVE TypeRest'
  BY <1>i, <1>o, <1>17 DEF Put, Return, Goto, shared, reload
<1>18. ASSUME NEW d \in Dialers, Connect(d) PROVE TypeRest'
  BY <1>i, <1>o, <1>18 DEF Connect, Return, Goto, shared, reload
<1>19. ASSUME NEW d \in Dialers, DropCached(d) PROVE TypeRest'
  BY <1>i, <1>o, <1>19 DEF DropCached, Return, Goto, shared, reload
<1>20. ASSUME NEW d \in Dialers, NEW h \in Hosts, Dial(d, h) PROVE TypeRest'
  BY <1>i, <1>20 DEF Dial, Goto, shared, reload
<1> QED
  BY <1>1, <1>2, <1>3, <1>4, <1>5, <1>6, <1>7, <1>8, <1>9, <1>10, <1>11,
     <1>12, <1>13, <1>14, <1>15, <1>16, <1>17, <1>18, <1>19, <1>20 DEF Next, Step

\* The cache holds answers only, and once a reload is over no stale one but of
\* the lookups that were in flight.
EntriesOK ==
  \A h \in DOMAIN entries : h \in Hosts /\ entries[h] \in [value: Generations, expiresAt: Int]

\* Every step leaves such a cache behind.
LEMMA EntriesStep == IInv /\ [Next]_vars => EntriesOK' /\ StaleFromInFlight'
<1> SUFFICES ASSUME IInv, [Next]_vars PROVE EntriesOK' /\ StaleFromInFlight'
  OBVIOUS
<1>i. EntriesOK /\ StaleFromInFlight /\ Placed /\ Answers /\ Fresh
  BY DEF IInv, TypeOK, EntriesOK
<1>t. clock \in Nat /\ TTL \in Int /\ NoTargets \notin Generations
  BY ResolverAssumption DEF IInv, TypeOK, ResolverAssumption, NoTargets
<1>1. ASSUME NEW h \in DOMAIN entries', h \in DOMAIN entries, entries'[h] = entries[h],
             UNCHANGED <<current, carried, reset>>
      PROVE  /\ h \in Hosts /\ entries'[h] \in [value: Generations, expiresAt: Int]
             /\ reset' = "none" => entries'[h].value = current' \/ h \in carried'
  BY <1>i, <1>1 DEF EntriesOK, StaleFromInFlight
<1>2. ASSUME DOMAIN entries' \subseteq DOMAIN entries, \A h \in DOMAIN entries' : entries'[h] = entries[h],
             UNCHANGED <<current, carried, reset>>
      PROVE  EntriesOK' /\ StaleFromInFlight'
  BY <1>1, <1>2 DEF EntriesOK, StaleFromInFlight
<1>3. CASE entries' = C!NoEntries
  BY <1>3 DEF EntriesOK, StaleFromInFlight, C!NoEntries
<1>4. CASE Quiet
  <2>1. CASE UNCHANGED vars \/ Tick
    BY <1>2, <2>1 DEF vars, Tick, reload
  <2>2. CASE UpdateClear \/ ClearCache
    BY <1>3, <2>2 DEF UpdateClear, ClearCache, C!Clear
  <2>3. CASE UpdateStore \/ RoutesOnly
    BY <1>i, <2>3 DEF UpdateStore, RoutesOnly, EntriesOK, StaleFromInFlight
  <2> QED
    BY <1>4, <2>1, <2>2, <2>3 DEF Quiet
<1>5. CASE \E d \in Dialers : Expire(d)
  BY <1>2, <1>5 DEF Expire, reload
<1>6. ASSUME NEW d \in Dialers, Hits(d) \/ Misses(d) PROVE EntriesOK' /\ StaleFromInFlight'
  <2>1. entries' = C!AfterGet(entries, Host(d), clock) /\ UNCHANGED <<current, carried, reset>>
    BY <1>6 DEF Hits, Misses
  <2>2. DOMAIN entries' \subseteq DOMAIN entries /\ \A h \in DOMAIN entries' : entries'[h] = entries[h]
    BY <2>1, GetRemoves
  <2> QED
    BY <1>2, <2>1, <2>2
<1>7. ASSUME NEW d \in Dialers, Drops(d) PROVE EntriesOK' /\ StaleFromInFlight'
  BY <1>2, <1>7, EvictRemoves DEF Drops
<1>8. ASSUME NEW d \in Dialers, Puts(d) PROVE EntriesOK' /\ StaleFromInFlight'
  <2>1. /\ pc[d] = "put" /\ Host(d) \in Hosts
        /\ dial[d].targets = dial[d].asked /\ dial[d].targets \in Generations
        /\ entries' = C!AfterPut(entries, Host(d), dial[d].targets, clock)
        /\ UNCHANGED <<current, carried, reset>>
    <3>1. pc[d] = "put" /\ entries' = C!AfterPut(entries, Host(d), dial[d].targets, clock)
          /\ UNCHANGED <<current, carried, reset>>
      BY <1>8 DEF Puts, Moves
    <3>2. Host(d) \in Hosts
      BY <1>i, <3>1 DEF Placed
    <3>3. dial[d].targets \in Generations \cup {NoTargets}
      BY DEF IInv, TypeOK, Locals
    <3>4. dial[d].targets = dial[d].asked /\ dial[d].targets # NoTargets
      BY <1>i, <3>1 DEF Answers, Asking
    <3> QED
      BY <3>1, <3>2, <3>3, <3>4
  <2>2. ASSUME NEW h \in DOMAIN entries'
        PROVE  \/ h = Host(d) /\ entries'[h] = [value |-> dial[d].targets, expiresAt |-> clock + TTL]
               \/ h \in DOMAIN entries /\ entries'[h] = entries[h]
    BY <2>1, <2>2, PutStores
  <2>3. reset = "none" => dial[d].asked = current \/ Host(d) \in carried
    BY <1>i, <2>1 DEF Fresh, Asking
  <2>4. ASSUME NEW h \in DOMAIN entries'
        PROVE  /\ h \in Hosts /\ entries'[h] \in [value: Generations, expiresAt: Int]
               /\ reset' = "none" => entries'[h].value = current' \/ h \in carried'
    <3>1. CASE h = Host(d) /\ entries'[h] = [value |-> dial[d].targets, expiresAt |-> clock + TTL]
      BY <1>t, <2>1, <2>3, <3>1
    <3>2. CASE h \in DOMAIN entries /\ entries'[h] = entries[h]
      BY <1>1, <2>1, <3>2
    <3> QED
      BY <2>2, <3>1, <3>2
  <2> QED
    BY <2>4 DEF EntriesOK, StaleFromInFlight
<1>9. ASSUME NEW d \in Dialers, UNCHANGED <<entries, current, carried, reset>>
      PROVE EntriesOK' /\ StaleFromInFlight'
  BY <1>2, <1>9
<1>10. ASSUME NEW d \in Dialers, Moved(d) PROVE EntriesOK' /\ StaleFromInFlight'
  <2>1. \/ UNCHANGED <<entries, current, carried, reset>> \/ Hits(d) \/ Misses(d) \/ Drops(d) \/ Puts(d)
    BY <1>10 DEF Moved, Dials, DialsLiteral, Leads, Joins, Wakes, WakesToError, GivesUp, Asks,
             IsAnswered, Fails, TriesNext, Unregisters, Assigns,
             ClosesFailed, Closes, ReturnsNil, Returns, Retries
  <2> QED
    BY <1>6, <1>7, <1>8, <1>9, <2>1
<1> QED
  BY <1>4, <1>5, <1>10, Steps

\* Every step preserves the invariant,
LEMMA InvStep == IInv /\ [Next]_vars => IInv'
<1> SUFFICES ASSUME IInv, [Next]_vars PROVE IInv'
  OBVIOUS
<1>1. TypeOK'
  BY Steps, TypeRestStep, EntriesStep DEF TypeOK, TypeRest, EntriesOK, CallsType
<1> QED
  BY <1>1, PlacedStep, FlightsStep, PartsStep, AnswersStep, AssignedStep, LandedStep,
     WokenStep, NilStep, FreshStep, EntriesStep DEF IInv

\* which therefore always holds.
LEMMA Invariance == Spec => []IInv
<1> QED
  BY InvInit, InvStep, PTL DEF Spec

-----------------------------------------------------------------------------
(* The theorems.                                                           *)

\* However dials, reloads and expiries interleave, every variable keeps its
\* type: in particular, no failed lookup is ever cached.
THEOREM TypeCorrect == Spec => []TypeOK
<1>1. IInv => TypeOK
  BY DEF IInv
<1> QED
  BY <1>1, Invariance, PTL

\* No two lookups of one host ask name servers at the same time.
THEOREM OneQueryAtATime == Spec => []OneQueryPerHost
<1>1. IInv => OneQueryPerHost
  <2> SUFFICES ASSUME IInv, NEW d \in Dialers, NEW e \in Dialers,
                      pc[d] \in {"ask", "attempt"}, pc[e] \in {"ask", "attempt"},
                      Host(d) = Host(e)
               PROVE  d = e
    BY DEF OneQueryPerHost
  <2>1. dial[d].call = <<d, dial[d].round>> /\ dial[e].call = <<e, dial[e].round>>
    BY DEF IInv, Parts, Working
  <2>2. inflight[Host(d)] = dial[d].call /\ inflight[Host(e)] = dial[e].call
    BY DEF IInv, Flights, Working
  <2> QED
    BY <2>1, <2>2
<1> QED
  BY <1>1, Invariance, PTL

\* A follower that is woken finds addresses or an error, never neither.
THEOREM WokenFindResult == Spec => []WokenWithResult
<1>1. IInv => WokenWithResult
  BY DEF IInv
<1> QED
  BY <1>1, Invariance, PTL

\* DialContext returns a connection or an error.
THEOREM ConnOrError == Spec => []NoNilConn
<1>1. IInv => NoNilConn
  BY DEF IInv
<1> QED
  BY <1>1, Invariance, PTL

\* After a reload only a lookup that was in flight leaves stale addresses behind.
THEOREM StaleOnlyFromInFlight == Spec => []StaleFromInFlight
<1>1. IInv => StaleFromInFlight
  BY DEF IInv
<1> QED
  BY <1>1, Invariance, PTL

-----------------------------------------------------------------------------
(* Looking up a host is a single flight.                                   *)

\* Nothing is in flight at first.
LEMMA RefinementInit == Init => SF!Init
<1> SUFFICES ASSUME Init PROVE SF!Init
  OBVIOUS
<1>1. inflight = [h \in Hosts |-> Nobody] /\ [d \in Dialers |-> dial[d].call] = [d \in Dialers |-> Nobody]
  BY DEF Init, Unstarted
<1>2. \A c \in Calls : ~calls[c].done
  BY DEF Init
<1>3. Published = [c \in Calls |-> Nobody]
  BY <1>2 DEF Published
<1>4. \A d \in Dialers : dial[d].call = Nobody
  BY DEF Init, Unstarted
<1>5. Received = [d \in Dialers |-> Nobody]
  BY <1>4 DEF Received
<1> QED
  BY <1>1, <1>3, <1>5 DEF SF!Init

\* Where a dialer that took part has gone on.
Shown == {"put", "connect", "done"}

\* A dialer whose locals are as they were goes on with what it went on with.
LEMMA StillReceived ==
  ASSUME NEW e \in Dialers, dial'[e].call = dial[e].call, result'[e] = result[e],
         dial'[e].targets = dial[e].targets, pc'[e] \in Shown <=> pc[e] \in Shown
  PROVE  Received'[e] = Received[e]
BY DEF Received, Shown

\* Only d goes on with something.
LEMMA ReceivedBy ==
  ASSUME NEW d \in Dialers, NEW r, Received'[d] = r,
         \A e \in Dialers \ {d} : Received'[e] = Received[e]
  PROVE  Received' = [Received EXCEPT ![d] = r]
<1>1. Received' = [e \in Dialers |-> Received'[e]] /\ Received = [e \in Dialers |-> Received[e]]
  BY DEF Received
<1> QED
  BY <1>1

\* A step that the single flight does not see.
LEMMA Unseen ==
  ASSUME inflight' = inflight, Published' = Published,
         \A e \in Dialers : dial'[e].call = dial[e].call /\ Received'[e] = Received[e]
  PROVE  UNCHANGED SF!vars
<1>1. [e \in Dialers |-> dial[e].call]' = [e \in Dialers |-> dial[e].call]
  OBVIOUS
<1>2. Received' = Received
  BY DEF Received
<1> QED
  BY <1>1, <1>2 DEF SF!vars

\* Steps at which nobody begins, ends or receives anything.
LEMMA Stutters ==
  ASSUME IInv, NEW d \in Dialers,
         \/ \E h \in Hosts : Dials(d, h)
         \/ DialsLiteral(d) \/ Hits(d) \/ Misses(d) \/ GivesUp(d) \/ Asks(d)
         \/ IsAnswered(d) \/ Fails(d) \/ TriesNext(d) \/ Puts(d) \/ ReturnsNil(d)
         \/ Returns(d) \/ Retries(d) \/ Drops(d)
  PROVE  UNCHANGED SF!vars
<1>i. /\ pc[d] \in {"idle", "get", "begin", "evict"} => dial[d].call = Nobody
      /\ dial[d].fromCache => dial[d].call = Nobody
      /\ pc[d] # "done" => result[d] = "none"
      /\ pc[d] = "connect" => dial[d].targets # NoTargets
  BY DEF IInv, Parts, Placed, Answers
<1>1. inflight' = inflight /\ calls' = calls
  BY DEF Dials, DialsLiteral, Hits, Misses, GivesUp, Asks, IsAnswered, Fails,
         TriesNext, Puts, ReturnsNil, Returns, Retries, Drops
<1>2. Published' = Published
  BY <1>1 DEF Published
<1>3. /\ \A e \in Dialers : dial'[e].call = dial[e].call
      /\ \A e \in Dialers \ {d} : /\ pc'[e] = pc[e] /\ result'[e] = result[e]
                                  /\ dial'[e].targets = dial[e].targets
  BY DEF Dials, DialsLiteral, Hits, Misses, GivesUp, Asks, IsAnswered, Fails,
         TriesNext, Puts, ReturnsNil, Returns, Retries, Drops, Moves,
         Written, Locally
<1>4. \A e \in Dialers \ {d} : Received'[e] = Received[e]
  BY <1>3, StillReceived
<1>5. Received'[d] = Received[d]
  <2>1. CASE \E h \in Hosts : Dials(d, h)
    <3>1. dial[d].call = Nobody /\ dial'[d].call = Nobody
      BY <1>i, <1>3, <2>1 DEF Dials, Moves
    <3> QED
      BY <3>1 DEF Received
  <2>2. CASE DialsLiteral(d)
    <3>1. dial[d].call = Nobody /\ dial'[d].call = Nobody
      BY <1>i, <1>3, <2>2 DEF DialsLiteral, Moves
    <3> QED
      BY <3>1 DEF Received
  <2>3. CASE Hits(d)
    <3>1. dial[d].call = Nobody /\ dial'[d].call = Nobody
      BY <1>i, <1>3, <2>3 DEF Hits, Moves
    <3> QED
      BY <3>1 DEF Received
  <2>4. CASE Misses(d)
    <3>1. dial[d].call = Nobody /\ dial'[d].call = Nobody
      BY <1>i, <1>3, <2>4 DEF Misses, Moves
    <3> QED
      BY <3>1 DEF Received
  <2>5. CASE GivesUp(d)
    <3>1. pc[d] = "wait" /\ result'[d] = "contextDone"
      BY <2>5 DEF GivesUp, Moves, Written
    <3> QED
      BY <3>1 DEF Received
  <2>6. CASE Asks(d)
    <3>1. pc[d] \notin Shown /\ pc'[d] \notin Shown
      BY <2>6 DEF Asks, Moves, Written, Shown
    <3> QED
      BY <3>1 DEF Received, Shown
  <2>7. CASE IsAnswered(d)
    <3>1. pc[d] \notin Shown /\ pc'[d] \notin Shown
      BY <2>7 DEF IsAnswered, Moves, Written, Shown
    <3> QED
      BY <3>1 DEF Received, Shown
  <2>8. CASE Fails(d)
    <3>1. pc[d] \notin Shown /\ pc'[d] \notin Shown
      BY <2>8 DEF Fails, Moves, Written, Shown
    <3> QED
      BY <3>1 DEF Received, Shown
  <2>9. CASE TriesNext(d)
    <3>1. pc[d] \notin Shown /\ pc'[d] \notin Shown
      BY <2>9 DEF TriesNext, Moves, Written, Shown
    <3> QED
      BY <3>1 DEF Received, Shown
  <2>10. CASE Puts(d)
    BY <1>3, <2>10, StillReceived DEF Puts, Moves, Written, Shown
  <2>11. CASE ReturnsNil(d)
    BY <1>i, <2>11 DEF ReturnsNil, Moves
  <2>12. CASE Returns(d)
    <3>1. /\ pc[d] = "connect" /\ pc'[d] = "done" /\ result[d] = "none"
          /\ result'[d] \in {"conn", "dialError"} /\ dial'[d].targets = dial[d].targets
      BY <1>i, <2>12 DEF Returns, Moves, Written
    <3> QED
      BY <1>3, <3>1 DEF Received
  <2>13. CASE Retries(d)
    <3>1. dial[d].call = Nobody /\ dial'[d].call = Nobody
      BY <1>i, <1>3, <2>13 DEF Retries, Moves
    <3> QED
      BY <3>1 DEF Received
  <2>14. CASE Drops(d)
    <3>1. dial[d].call = Nobody /\ dial'[d].call = Nobody
      BY <1>i, <1>3, <2>14 DEF Drops, Moves
    <3> QED
      BY <3>1 DEF Received
  <2> QED
    BY <2>1, <2>2, <2>3, <2>4, <2>5, <2>6, <2>7, <2>8, <2>9, <2>10, <2>11,
       <2>12, <2>13, <2>14
<1> QED
  BY <1>1, <1>2, <1>3, <1>4, <1>5, Unseen

\* The parameters of the single flight that are expressions, and their types.
Taken == [e \in Dialers |-> dial[e].call]
FlightType == inflight \in [Hosts -> Calls \cup {Nobody}]

\* What a step of d leaves alone of the others.
Apart(d) ==
  \A e \in Dialers \ {d} :
    /\ pc'[e] = pc[e] /\ result'[e] = result[e]
    /\ dial'[e].targets = dial[e].targets /\ dial'[e].call = dial[e].call

\* begin leads a lookup, ...
LEMMA LeadRefines == ASSUME IInv, FlightType', NEW d \in Dialers, Leads(d) PROVE SF!Next
<1> DEFINE c == <<d, dial[d].round>>
<1>1. /\ pc[d] = "begin" /\ dial[d].call = Nobody /\ Host(d) \in Hosts
      /\ inflight[Host(d)] = Nobody /\ c \in Calls /\ dial[d].round \in {1, 2}
  BY DEF Leads, Moves, IInv, Parts
<1>2. inflight' = [inflight EXCEPT ![Host(d)] = c]
  BY DEF Leads, Written, IInv, TypeOK, FlightType
<1>3. \A e \in Dialers : dial'[e].call = IF e = d THEN c ELSE dial[e].call
  BY DEF Leads, Locally
<1>4. Taken' = [Taken EXCEPT ![d] = c]
  BY <1>3 DEF Taken
<1>5. Published' = Published
  BY DEF Leads, Published
<1>6. \A e \in Dialers : Received'[e] = Received[e]
  <2>1. Apart(d) /\ pc'[d] = "ask"
    BY DEF Leads, Moves, Written, Locally, Apart
  <2>2. \A e \in Dialers \ {d} : Received'[e] = Received[e]
    BY <2>1, StillReceived DEF Apart
  <2>3. Received'[d] = Received[d]
    BY <1>1, <2>1 DEF Received
  <2> QED
    BY <2>2, <2>3
<1>7. Received' = Received
  BY <1>6 DEF Received
<1>8. c # Nobody
  BY <1>1, OwnCalls DEF IInv
<1>9. ~calls[c].done /\ \A e \in Dialers : dial[e].call # c
  BY ZenonT(40), <1>1, <1>8 DEF IInv, Landed, Parts
<1>10. SF!Fresh(c)
  BY <1>1, <1>9 DEF SF!Fresh, Published
<1> HIDE DEF c
<1>11. PICK h \in Hosts : h = Host(d)
  BY <1>1
<1>12. PICK call \in Calls : call = c
  BY <1>1
<1>13. SF!Lead(d, h, call)
  BY <1>1, <1>2, <1>4, <1>5, <1>7, <1>10, <1>11, <1>12 DEF SF!Lead, Taken
<1> QED
  BY <1>13 DEF SF!Next

\* ... or joins the one in flight.
LEMMA JoinRefines == ASSUME IInv, NEW d \in Dialers, Joins(d) PROVE SF!Next
<1> DEFINE c == inflight[Host(d)]
<1>1. /\ pc[d] = "begin" /\ dial[d].call = Nobody /\ Host(d) \in Hosts
      /\ c \in Calls /\ c # Nobody /\ inflight' = inflight
  BY ResolverAssumption DEF Joins, Moves, IInv, Parts, ResolverAssumption, Calls
<1>2. \A e \in Dialers : dial'[e].call = IF e = d THEN c ELSE dial[e].call
  BY DEF Joins, Locally
<1>3. Taken' = [Taken EXCEPT ![d] = c]
  BY <1>2 DEF Taken
<1>4. Published' = Published
  BY DEF Joins, Published
<1>5. \A e \in Dialers : Received'[e] = Received[e]
  <2>1. Apart(d) /\ pc'[d] = "wait"
    BY DEF Joins, Moves, Written, Locally, Apart
  <2>2. \A e \in Dialers \ {d} : Received'[e] = Received[e]
    BY <2>1, StillReceived DEF Apart
  <2>3. Received'[d] = Received[d]
    BY <1>1, <2>1 DEF Received
  <2> QED
    BY <2>2, <2>3
<1>6. Received' = Received
  BY <1>5 DEF Received
<1>7. PICK h \in Hosts : h = Host(d)
  BY <1>1
<1>8. SF!Join(d, h)
  BY <1>1, <1>3, <1>4, <1>6, <1>7 DEF SF!Join, Taken
<1> QED
  BY <1>8 DEF SF!Next

\* A follower goes on with the result of the call.
LEMMA WakeRefines ==
  ASSUME IInv, NEW d \in Dialers, Wakes(d) \/ WakesToError(d) PROVE SF!Next
<1> DEFINE c == dial[d].call
           r == [targets |-> calls[c].targets, err |-> calls[c].err]
<1>1. /\ pc[d] = "wait" /\ c \in Calls /\ c # Nobody /\ calls[c].done
      /\ inflight' = inflight /\ calls' = calls
  BY DEF Wakes, WakesToError, Moves, IInv, Parts
<1>2. Published[c] = r /\ Received[d] = Nobody /\ Published' = Published
  BY <1>1 DEF Published, Received
<1>3. r \in [targets: Generations \cup {0}, err: BOOLEAN]
  BY <1>1 DEF IInv, TypeOK, NoTargets
<1>4. r # Nobody
  BY <1>3, ResolverAssumption DEF ResolverAssumption
<1>5. \A e \in Dialers : dial'[e].call = dial[e].call
  BY DEF Wakes, WakesToError, Locally
<1>6. Taken' = Taken
  BY <1>5 DEF Taken
<1>7. Received'[d] = r
  <2>1. CASE Wakes(d)
    <3>1. /\ pc'[d] = "connect" /\ dial'[d].targets = calls[c].targets /\ result'[d] = "none"
          /\ ~calls[c].err
      BY <1>1, <2>1 DEF Wakes, Moves, Written, Locally, IInv, Placed
    <3>2. r = [targets |-> calls[c].targets, err |-> FALSE]
      BY <1>1, <3>1 DEF IInv, TypeOK
    <3> QED
      BY <1>1, <1>5, <3>1, <3>2 DEF Received
  <2>2. CASE WakesToError(d)
    <3>1. pc'[d] = "done" /\ result'[d] = "lookupError" /\ calls[c].err
      BY <2>2 DEF WakesToError, Moves, Written
    <3>2. r = [targets |-> NoTargets, err |-> TRUE]
      BY <1>1, <3>1 DEF IInv, TypeOK, WokenWithResult
    <3> QED
      BY <1>1, <1>5, <3>1, <3>2 DEF Received
  <2> QED
    BY <2>1, <2>2
<1>8. \A e \in Dialers \ {d} : Received'[e] = Received[e]
  <2>1. Apart(d)
    BY DEF Wakes, WakesToError, Moves, Written, Locally, Apart
  <2> QED
    BY <2>1, StillReceived DEF Apart
<1> HIDE DEF r
<1>9. Received' = [Received EXCEPT ![d] = r]
  BY <1>7, <1>8, ReceivedBy
<1>10. SF!Receive(d)
  BY <1>1, <1>2, <1>4, <1>6, <1>9 DEF SF!Receive, Taken
<1> QED
  BY <1>10 DEF SF!Next

\* finish takes the call off the flight, ...
LEMMA UnregisterRefines ==
  ASSUME IInv, FlightType', NEW d \in Dialers, Unregisters(d) PROVE SF!Next
<1>1. /\ pc[d] = "unregister" /\ pc'[d] = "assign" /\ Host(d) \in Hosts
      /\ dial' = dial /\ calls' = calls
  BY DEF Unregisters, Moves, Written
<1>2. inflight[Host(d)] # Nobody
  BY <1>1, LeaderCall DEF IInv, Flights, Working
<1>3. inflight' = [inflight EXCEPT ![Host(d)] = Nobody]
  BY DEF Unregisters, Written, IInv, TypeOK, FlightType
<1>4. Published' = Published /\ Taken' = Taken
  BY <1>1 DEF Published, Taken
<1>5. \A e \in Dialers : Received'[e] = Received[e]
  <2>1. \A e \in Dialers : pc'[e] \in Shown <=> pc[e] \in Shown
    BY <1>1 DEF Unregisters, Moves, Written, Shown
  <2> QED
    BY <1>1, <2>1, StillReceived DEF Unregisters
<1>6. Received' = Received
  BY <1>5 DEF Received
<1>7. SF!Land(Host(d))
  BY <1>1, <1>2, <1>3, <1>4, <1>6 DEF SF!Land, Taken
<1> QED
  BY <1>1, <1>7 DEF SF!Next

\* ... assigns what nobody sees yet, ...
LEMMA AssignUnseen ==
  ASSUME IInv, CallsType', NEW d \in Dialers, Assigns(d) PROVE UNCHANGED SF!vars
<1>1. /\ pc[d] = "assign" /\ pc'[d] = "close" /\ dial' = dial /\ inflight' = inflight
  BY DEF Assigns, Moves, Written
<1>2. ~calls[dial[d].call].done
  BY <1>1, LeaderCall DEF IInv, Landed, Settling
<1>3. \A c \in Calls :
        /\ calls'[c].done <=> calls[c].done
        /\ calls[c].done =>
             calls'[c].targets = calls[c].targets /\ (calls'[c].err <=> calls[c].err)
  BY <1>2 DEF Assigns, Settled
<1>4. Published' = Published
  <2>1. \A c \in Calls : calls[c].done => calls'[c].targets = calls[c].targets /\ calls'[c].err = calls[c].err
    BY <1>3 DEF IInv, TypeOK, CallsType
  <2> QED
    BY <1>3, <2>1 DEF Published
<1>5. \A e \in Dialers : Received'[e] = Received[e]
  <2>1. \A e \in Dialers : pc'[e] \in Shown <=> pc[e] \in Shown
    BY <1>1 DEF Assigns, Moves, Written, Shown
  <2> QED
    BY <1>1, <2>1, StillReceived DEF Assigns
<1> QED
  BY <1>1, <1>4, <1>5, Unseen

\* ... and publishes it, to its followers and to itself.
LEMMA CloseRefines ==
  ASSUME IInv, CallsType', NEW d \in Dialers, Closes(d) \/ ClosesFailed(d) PROVE SF!Next
<1> DEFINE c == dial[d].call
           r == [targets |-> dial[d].targets, err |-> dial[d].err]
<1>1. /\ pc[d] = "close" /\ dial' = dial /\ inflight' = inflight
      /\ Settled(d, TRUE, calls[c].targets, calls[c].err)
  BY DEF Closes, ClosesFailed, Moves
<1>2. c \in Calls /\ c # Nobody /\ c = <<d, dial[d].round>> /\ dial[d].round \in {1, 2}
  BY <1>1, LeaderCall DEF IInv, Settling
<1>3. ~calls[c].done /\ Published[c] = Nobody
  BY <1>1, <1>2 DEF IInv, Landed, Published
<1>4. /\ dial[d].targets \in Generations \cup {NoTargets} /\ dial[d].err \in BOOLEAN
      /\ calls[c].targets = dial[d].targets /\ (calls[c].err <=> dial[d].err)
      /\ dial[d].err <=> dial[d].targets = NoTargets
  BY <1>1 DEF IInv, TypeOK, Locals, Assigned, Answers, Settling
<1>5. Published' = [Published EXCEPT ![c] = r]
  <2>1. /\ calls'[c].done /\ calls'[c].targets = dial[d].targets /\ calls'[c].err = dial[d].err
    BY <1>1, <1>2, <1>4 DEF Settled, CallsType
  <2>2. \A b \in Calls \ {c} : /\ calls'[b].done = calls[b].done /\ calls'[b].targets = calls[b].targets
                               /\ calls'[b].err = calls[b].err
    BY <1>1 DEF Settled, CallsType, IInv, TypeOK
  <2> QED
    BY <1>2, <2>1, <2>2 DEF Published
<1>6. Received'[d] = r
  <2>1. CASE Closes(d)
    <3>1. pc'[d] = "put" /\ result'[d] = "none" /\ dial[d].err = FALSE
      BY <1>1, <1>4, <2>1 DEF Closes, Moves, Written, IInv, Placed
    <3> QED
      BY <1>1, <1>2, <3>1 DEF Received
  <2>2. CASE ClosesFailed(d)
    <3>1. pc'[d] = "done" /\ result'[d] = "lookupError" /\ dial[d].err = TRUE
      BY <1>4, <2>2 DEF ClosesFailed, Moves, Written
    <3> QED
      BY <1>1, <1>2, <1>4, <3>1 DEF Received
  <2> QED
    BY <2>1, <2>2
<1>7. \A e \in Dialers \ {d} : Received'[e] = Received[e]
  <2>1. Apart(d)
    BY <1>1 DEF Closes, ClosesFailed, Moves, Written, Apart
  <2> QED
    BY <2>1, StillReceived DEF Apart
<1>8. r \in [targets: Generations \cup {NoTargets}, err: BOOLEAN]
  BY <1>4
<1>9. \A h \in Hosts : inflight[h] # c
  <2>1. \A e \in Dialers : pc[e] \in Working => e # d /\ dial[e].call = <<e, dial[e].round>>
    BY <1>1 DEF IInv, Parts, Working
  <2>2. \A e \in Dialers : pc[e] \in Working => dial[e].call # c
    BY <1>2, <2>1
  <2> QED
    BY <1>2, <2>2 DEF IInv, Flights
<1> HIDE DEF r
<1>10. Received' = [Received EXCEPT ![d] = r]
  BY <1>6, <1>7, ReceivedBy
<1>11. Taken' = Taken
  BY <1>1 DEF Taken
<1>12. SF!Publish(d, r)
  BY <1>1, <1>2, <1>3, <1>5, <1>9, <1>10, <1>11 DEF SF!Publish, Taken
<1> QED
  BY <1>8, <1>12 DEF SF!Next

\* Every step is one of the single flight, or none.
LEMMA RefinementStep == IInv /\ [Next]_vars => [SF!Next]_(SF!vars)
<1> SUFFICES ASSUME IInv, [Next]_vars PROVE SF!Next \/ UNCHANGED SF!vars
  OBVIOUS
<1>1. FlightType' /\ CallsType'
  BY Steps, TypeRestStep DEF TypeRest, FlightType
<1>2. CASE Quiet \/ \E d \in Dialers : Expire(d)
  BY <1>2 DEF Quiet, vars, UpdateStore, UpdateClear, RoutesOnly, ClearCache, Tick, Expire,
              dialling, shared, SF!vars, Published, Received
<1>3. ASSUME NEW d \in Dialers, Moved(d) PROVE SF!Next \/ UNCHANGED SF!vars
  BY <1>1, <1>3, Stutters, LeadRefines, JoinRefines, WakeRefines, UnregisterRefines,
     AssignUnseen, CloseRefines DEF Moved
<1> QED
  BY <1>2, <1>3, Steps

\* However many dials, hosts, reloads and retries there are, whoever takes part in
\* a lookup goes on with what its leader found, and nobody joins one that landed.
THEOREM LookupIsSingleFlight == Spec => ImplementsSingleFlight
<1> QED
  BY RefinementInit, RefinementStep, Invariance, PTL
     DEF Spec, SF!Spec, ImplementsSingleFlight
=============================================================================
