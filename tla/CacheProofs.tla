----------------------------- MODULE CacheProofs -----------------------------
(***************************************************************************)
(* The cache for every capacity, TTL and set of keys: the map stays within *)
(* its capacity, and a hit is the last value put, within its TTL.          *)
(***************************************************************************)
EXTENDS CacheStore, FiniteSetTheorems, TLAPS

\* The entries are finitely many.
Finite == IsFiniteSet(DOMAIN entries)

\* Every entry is the record of the last Put of its key.
Mirrors ==
  \A k \in DOMAIN entries :
    /\ last[k] # Never
    /\ entries[k] = [value |-> last[k].value, expiresAt |-> last[k].at + TTL]

\* Removing keys from a map within its capacity keeps it within.
LEMMA RemoveKeeps ==
  ASSUME NEW e, IsFiniteSet(DOMAIN e), NEW key
  PROVE  /\ IsFiniteSet(DOMAIN Restrict(e, DOMAIN e \ {key}))
         /\ Cardinality(DOMAIN Restrict(e, DOMAIN e \ {key})) <= Cardinality(DOMAIN e)
<1>1. DOMAIN Restrict(e, DOMAIN e \ {key}) = DOMAIN e \ {key}
  BY DEF Restrict
<1>2. DOMAIN e \ {key} \subseteq DOMAIN e
  OBVIOUS
<1> QED
  BY <1>1, <1>2, FS_Subset

\* Adding one key to a map adds at most one to its size.
LEMMA AddGrowsByOne ==
  ASSUME NEW S, IsFiniteSet(S), NEW x
  PROVE  IsFiniteSet(S \cup {x}) /\ Cardinality(S \cup {x}) <= Cardinality(S) + 1
<1>1. Cardinality(S) \in Nat
  BY FS_CardinalityType
<1>2. /\ IsFiniteSet(S \cup {x})
      /\ Cardinality(S \cup {x}) = IF x \in S THEN Cardinality(S) ELSE Cardinality(S) + 1
  BY FS_AddElement, Zenon
<1> QED
  BY <1>1, <1>2

\* Put leaves at most Capacity entries: it makes room before it stores.
LEMMA PutBounded ==
  ASSUME NEW e, IsFiniteSet(DOMAIN e), NEW key, NEW value, NEW now,
         Capacity > 0 => Cardinality(DOMAIN e) <= Capacity
  PROVE  /\ IsFiniteSet(DOMAIN AfterPut(e, key, value, now))
         /\ Capacity > 0 => Cardinality(DOMAIN AfterPut(e, key, value, now)) <= Capacity
<1> DEFINE room == Room(e)
<1>1. DOMAIN NoEntries = {}
  BY DEF NoEntries
<1>2. /\ IsFiniteSet(DOMAIN room)
      /\ Capacity > 0 => Cardinality(DOMAIN room) < Capacity
  <2>1. Cardinality({}) = 0 /\ IsFiniteSet({})
    BY FS_EmptySet
  <2>2. Cardinality(DOMAIN e) \in Nat /\ Capacity \in Nat
    BY FS_CardinalityType, CacheAssumption DEF CacheAssumption
  <2> QED
    BY <1>1, <2>1, <2>2 DEF Room, Clear
<1>3. DOMAIN Store(room, key, value, now) = DOMAIN room \cup {key}
  BY DEF Store
<1> HIDE DEF room
<1>4. /\ IsFiniteSet(DOMAIN room \cup {key})
      /\ Cardinality(DOMAIN room \cup {key}) <= Cardinality(DOMAIN room) + 1
  BY <1>2, AddGrowsByOne
<1>5. /\ Cardinality(DOMAIN room) \in Nat
      /\ Cardinality(DOMAIN room \cup {key}) \in Nat
      /\ Capacity \in Nat
  BY <1>2, <1>4, FS_CardinalityType, CacheAssumption DEF CacheAssumption
<1>6. Capacity > 0 => Cardinality(DOMAIN room \cup {key}) <= Capacity
  BY <1>2, <1>4, <1>5
<1> QED
  BY <1>3, <1>4, <1>6 DEF AfterPut, room

-----------------------------------------------------------------------------
\* The map starts empty.
LEMMA BoundedInit == Init => Finite /\ SizeBounded
<1>1. DOMAIN NoEntries = {}
  BY DEF NoEntries
<1> QED
  BY <1>1, FS_EmptySet, CacheAssumption DEF Init, Finite, SizeBounded, CacheAssumption

\* Only Put adds an entry, and it makes room first.
LEMMA BoundedStep == Finite /\ SizeBounded /\ [Next]_vars => (Finite /\ SizeBounded)'
<1> SUFFICES ASSUME Finite, SizeBounded, [Next]_vars
             PROVE (Finite /\ SizeBounded)'
  OBVIOUS
<1> USE DEF Finite, SizeBounded
<1>c. Cardinality(DOMAIN entries) \in Nat /\ Capacity \in Nat
  BY FS_CardinalityType, CacheAssumption DEF CacheAssumption
<1>r. ASSUME NEW k, entries' = Restrict(entries, DOMAIN entries \ {k})
      PROVE (Finite /\ SizeBounded)'
  <2>1. /\ IsFiniteSet(DOMAIN entries')
        /\ Cardinality(DOMAIN entries') <= Cardinality(DOMAIN entries)
    BY <1>r, RemoveKeeps
  <2>2. Cardinality(DOMAIN entries') \in Nat
    BY <2>1, FS_CardinalityType
  <2>3. Capacity > 0 => Cardinality(DOMAIN entries') <= Capacity
    BY <1>c, <2>1, <2>2
  <2> QED
    BY <2>1, <2>3
<1>1. ASSUME NEW k \in Keys, Get(k) PROVE (Finite /\ SizeBounded)'
  BY <1>1, <1>r DEF Get, AfterGet
<1>2. ASSUME NEW k \in Keys, EvictKey(k) PROVE (Finite /\ SizeBounded)'
  BY <1>2, <1>r DEF EvictKey, Evict
<1>3. ASSUME NEW k \in Keys, NEW v \in Values, Put(k, v)
      PROVE (Finite /\ SizeBounded)'
  BY <1>3, PutBounded DEF Put
<1>4. CASE ClearAll
  <2>1. DOMAIN NoEntries = {}
    BY DEF NoEntries
  <2> QED
    BY <1>4, <1>c, <2>1, FS_EmptySet DEF ClearAll, Clear
<1>5. CASE Tick \/ UNCHANGED vars
  BY <1>5 DEF Tick, vars
<1> QED
  BY <1>1, <1>2, <1>3, <1>4, <1>5 DEF Next

\* However many keys are stored, the map never outgrows its capacity.
THEOREM NeverOutgrows == Spec => []SizeBounded
BY BoundedInit, BoundedStep, PTL DEF Spec

\* Entries are typed and mirror the last Puts from the start.
LEMMA MirrorsInit == Init => TypeOK /\ Mirrors
BY DEF Init, TypeOK, Mirrors, NoEntries, Never

\* Every method keeps the entries typed and mirroring the last Puts.
LEMMA MirrorsStep == TypeOK /\ Mirrors /\ [Next]_vars => (TypeOK /\ Mirrors)'
<1> SUFFICES ASSUME TypeOK, Mirrors, [Next]_vars PROVE (TypeOK /\ Mirrors)'
  OBVIOUS
<1> USE StoreAssumption, CacheAssumption
    DEF StoreAssumption, CacheAssumption, TypeOK, Mirrors, Never
<1>1. ASSUME NEW k \in Keys, Get(k) PROVE (TypeOK /\ Mirrors)'
  BY <1>1 DEF Get, AfterGet, Restrict, Holds
<1>2. ASSUME NEW k \in Keys, EvictKey(k) PROVE (TypeOK /\ Mirrors)'
  BY <1>2 DEF EvictKey, Evict, Restrict
<1>3. ASSUME NEW k \in Keys, NEW v \in Values, Put(k, v)
      PROVE (TypeOK /\ Mirrors)'
  <2>1. CASE TTL <= 0
    BY <1>3, <2>1 DEF Put, AfterPut
  <2>2. CASE TTL > 0
    <3>1. entries' = Store(Room(entries), k, v, clock)
      BY <1>3, <2>2 DEF Put, AfterPut
    <3>2. last' = [last EXCEPT ![k] = [value |-> v, at |-> clock]]
      BY <1>3, <2>2 DEF Put
    <3>3. /\ DOMAIN Room(entries) \subseteq DOMAIN entries
          /\ \A j \in DOMAIN Room(entries) : Room(entries)[j] = entries[j]
      BY DEF Room, Clear, NoEntries
    <3> HIDE DEF Never
    <3>4. [value |-> v, at |-> clock] # Never /\ clock + TTL \in Nat \ {0}
      BY <2>2 DEF Never
    <3>5. /\ DOMAIN entries' = DOMAIN Room(entries) \cup {k}
          /\ entries'[k] = [value |-> v, expiresAt |-> clock + TTL]
          /\ \A j \in DOMAIN Room(entries) \ {k} : entries'[j] = entries[j]
          /\ entries' = [j \in DOMAIN entries' |-> entries'[j]]
      BY <3>1, <3>3 DEF Store
    <3>6. last' \in [Keys -> [value: Values \cup {Miss}, at: Nat]]
      BY <3>2
    <3>7. /\ DOMAIN entries' \subseteq Keys
          /\ \A j \in DOMAIN entries' : entries'[j] \in [value: Values, expiresAt: Nat \ {0}]
      BY <3>3, <3>4, <3>5
    <3>8. TypeOK'
      BY <1>3, <3>5, <3>6, <3>7 DEF Put
    <3>9. Mirrors'
      BY <3>2, <3>3, <3>4, <3>5
    <3> QED
      BY <3>8, <3>9
  <2> QED
    BY <2>1, <2>2
<1>4. CASE ClearAll
  BY <1>4 DEF ClearAll, Clear, NoEntries
<1>5. CASE Tick
  BY <1>5 DEF Tick
<1>6. CASE UNCHANGED vars
  BY <1>6 DEF vars
<1> QED
  BY <1>1, <1>2, <1>3, <1>4, <1>5, <1>6 DEF Next

\* The map, the clock and the answers keep their types, the expiry of no entry
\* being the zero time.
THEOREM TypeCorrect == Spec => []TypeOK
BY MirrorsInit, MirrorsStep, PTL DEF Spec

\* A hit is the last value put and not invalidated since, within its TTL.
THEOREM HitsAreCurrent == Spec => HitIsLastPut
<1>1. TypeOK /\ Mirrors /\ [Next]_vars =>
        [\A k \in Keys : Get(k) /\ answer' # Miss =>
           Good(k) /\ answer' = last[k].value]_vars
  BY DEF TypeOK, Mirrors, Get, Good, Holds
<1> QED
  BY MirrorsInit, MirrorsStep, <1>1, PTL DEF Spec, HitIsLastPut

\* Only a Put into a full cache, or an invalidation, drops a value that is still
\* good: Get and EvictKey drop their own key at most, Get only an expired one.
THEOREM LostWhenFull == Spec => LostOnlyWhenFull
<1>1. TypeOK /\ Finite /\ SizeBounded /\ [Next]_vars =>
        [\A k \in Keys : Good(k) /\ Holds(entries, k, clock) /\ k \notin DOMAIN entries' =>
           \/ Cardinality(DOMAIN entries) = Capacity
           \/ last'[k] = Never]_vars
  <2> SUFFICES ASSUME TypeOK, Finite, SizeBounded, Next,
                      NEW k \in Keys, Good(k), Holds(entries, k, clock), k \notin DOMAIN entries'
               PROVE  Cardinality(DOMAIN entries) = Capacity \/ last'[k] = Never
    OBVIOUS
  <2>1. k \in DOMAIN entries
    BY DEF Holds
  <2>2. ASSUME NEW j \in Keys, Get(j) PROVE FALSE
    BY <2>1, <2>2 DEF Get, AfterGet, Restrict
  <2>3. ASSUME NEW j \in Keys, EvictKey(j) PROVE last'[k] = Never
    <3>1. j = k
      BY <2>1, <2>3 DEF EvictKey, Evict, Restrict
    <3> QED
      BY <2>3, <3>1 DEF EvictKey, TypeOK
  <2>4. ASSUME NEW j \in Keys, NEW v \in Values, Put(j, v)
        PROVE  Cardinality(DOMAIN entries) = Capacity
    <3>1. TTL > 0 /\ entries' = Store(Room(entries), j, v, clock)
      BY <2>1, <2>4, CacheAssumption DEF Put, AfterPut, CacheAssumption
    <3>2. DOMAIN entries' = DOMAIN Room(entries) \cup {j}
      BY <3>1 DEF Store
    <3>3. Room(entries) # entries
      BY <2>1, <3>2
    <3>4. Capacity > 0 /\ Cardinality(DOMAIN entries) >= Capacity
      BY <3>3 DEF Room
    <3>5. Cardinality(DOMAIN entries) \in Nat /\ Capacity \in Nat
      BY FS_CardinalityType, CacheAssumption DEF Finite, CacheAssumption
    <3> QED
      BY <3>4, <3>5 DEF SizeBounded
  <2>5. CASE ClearAll
    BY <2>5 DEF ClearAll
  <2>6. CASE Tick
    BY <2>1, <2>6 DEF Tick
  <2> QED
    BY <2>2, <2>3, <2>4, <2>5, <2>6 DEF Next
<1> QED
  BY <1>1, MirrorsInit, MirrorsStep, BoundedInit, BoundedStep, PTL DEF Spec, LostOnlyWhenFull
=============================================================================
