-------------------------------- MODULE Cache --------------------------------
(***************************************************************************)
(* The bounded cache with lazy expiry of src/internal/cache/cache.go, as   *)
(* operators on its map of entries: each method runs under the mutex of    *)
(* the cache, so each is one step of the component that calls it.  The     *)
(* resolver and the certificate authority instantiate this module.         *)
(***************************************************************************)
EXTENDS Integers, FiniteSets, Functions

CONSTANTS
  Capacity,  \* most entries kept at once; 0 is no limit
  TTL        \* life of an entry; Put stores nothing if it is not positive

ASSUME CacheAssumption == Capacity \in Nat /\ TTL \in Int

NoEntries == [key \in {} |-> 0]

Holds(entries, key, now) ==
  key \in DOMAIN entries /\ now < entries[key].expiresAt

\* Get removes the entry it finds expired.
AfterGet(entries, key, now) ==
  IF Holds(entries, key, now)
  THEN entries
  ELSE Restrict(entries, DOMAIN entries \ {key})

Evict(entries, key) == Restrict(entries, DOMAIN entries \ {key})

Clear(entries) == NoEntries

\* Seeded fault: one entry more than the capacity.
RoomOffByOne(entries) ==
  IF Capacity > 0 /\ Cardinality(DOMAIN entries) > Capacity
  THEN Clear(entries)
  ELSE entries

\* Seeded fault: the cache is emptied one entry too early.
RoomTooEarly(entries) ==
  IF Capacity > 0 /\ Cardinality(DOMAIN entries) + 1 >= Capacity
  THEN Clear(entries)
  ELSE entries

\* A full cache is emptied before the entry is stored, even if the key is in it.
Room(entries) ==
  IF Capacity > 0 /\ Cardinality(DOMAIN entries) >= Capacity
  THEN Clear(entries)
  ELSE entries

\* Seeded fault: the zero time is stored for the expiry.
StoreNoExpiry(entries, key, value, now) ==
  [k \in DOMAIN entries \cup {key} |->
     IF k = key THEN [value |-> value, expiresAt |-> 0] ELSE entries[k]]

Store(entries, key, value, now) ==
  [k \in DOMAIN entries \cup {key} |->
     IF k = key THEN [value |-> value, expiresAt |-> now + TTL] ELSE entries[k]]

AfterPut(entries, key, value, now) ==
  IF TTL <= 0 THEN entries ELSE Store(Room(entries), key, value, now)
=============================================================================
