----------------------------- MODULE CacheStore -----------------------------
(***************************************************************************)
(* A cache used by many goroutines: every method is one atomic step, taken *)
(* in any order while time passes.                                         *)
(***************************************************************************)
EXTENDS Cache

CONSTANTS
  Keys, Values,
  Miss,        \* what Get reports when it has no answer
  MaxClock     \* bound: how far time runs

ASSUME StoreAssumption == Miss \notin Values /\ MaxClock \in Nat

VARIABLES
  entries,   \* Cache.entries
  clock,     \* time.Now(), in units of which TTL is a multiple
  answer,    \* what the last Get returned
  last       \* history: per key, the last Put since it was last invalidated

vars == <<entries, clock, answer, last>>

Never == [value |-> Miss, at |-> 0]

Init ==
  /\ entries = NoEntries
  /\ clock = 0
  /\ answer = Miss
  /\ last = [k \in Keys |-> Never]

\* Seeded fault: the expiry of the entry is not looked at.
GetIgnoringExpiry(k) ==
  /\ answer' = IF k \in DOMAIN entries THEN entries[k].value ELSE Miss
  /\ UNCHANGED <<entries, clock, last>>

Get(k) ==
  /\ answer' = IF Holds(entries, k, clock) THEN entries[k].value ELSE Miss
  /\ entries' = AfterGet(entries, k, clock)
  /\ UNCHANGED <<clock, last>>

Put(k, v) ==
  /\ entries' = AfterPut(entries, k, v, clock)
  /\ last' = IF TTL <= 0 THEN last
             ELSE [last EXCEPT ![k] = [value |-> v, at |-> clock]]
  /\ UNCHANGED <<clock, answer>>

EvictKey(k) ==
  /\ entries' = Evict(entries, k)
  /\ last' = [last EXCEPT ![k] = Never]
  /\ UNCHANGED <<clock, answer>>

ClearAll ==
  /\ entries' = Clear(entries)
  /\ last' = [k \in Keys |-> Never]
  /\ UNCHANGED <<clock, answer>>

Tick ==
  /\ clock < MaxClock
  /\ clock' = clock + 1
  /\ UNCHANGED <<entries, answer, last>>

Next ==
  \/ \E k \in Keys : Get(k) \/ EvictKey(k) \/ \E v \in Values : Put(k, v)
  \/ ClearAll \/ Tick

Spec == Init /\ [][Next]_vars

-----------------------------------------------------------------------------
\* The last Put of k is still good: not invalidated and younger than TTL.
Good(k) == last[k] # Never /\ clock < last[k].at + TTL

\* Entries are values with an expiry that has been set, of known keys only.
TypeOK ==
  /\ DOMAIN entries \subseteq Keys
  /\ entries \in [DOMAIN entries -> [value: Values, expiresAt: Nat \ {0}]]
  /\ clock \in Nat
  /\ answer \in Values \cup {Miss}
  /\ last \in [Keys -> [value: Values \cup {Miss}, at: Nat]]

\* However many keys are stored, the map never outgrows its capacity.
SizeBounded == Capacity > 0 => Cardinality(DOMAIN entries) <= Capacity

\* Get never answers with an invalidated, an overwritten or an expired value:
\* only with the last one put, and only within its TTL.
HitIsLastPut ==
  [][\A k \in Keys : Get(k) /\ answer' # Miss =>
       Good(k) /\ answer' = last[k].value]_vars

\* Only a Put into a full cache drops a value that is still good; a TTL of
\* zero (--dns-ttl 0) stores nothing at all.
LostOnlyWhenFull ==
  [][\A k \in Keys : Good(k) /\ Holds(entries, k, clock) /\ k \notin DOMAIN entries' =>
       \/ Cardinality(DOMAIN entries) = Capacity
       \/ last'[k] = Never]_vars
=============================================================================
