--------------------------- MODULE AuthorityProofs ---------------------------
(***************************************************************************)
(* The signing of certificates for every set of clients and names: one     *)
(* signer for a name, none that is not needed, nil results only after a    *)
(* panic, and the refinement of SingleFlight.                              *)
(*                                                                         *)
(* The invariant ties the call that is in flight for a name to the place   *)
(* of its leader in the code, and what a call holds to what its leader     *)
(* returned.                                                               *)
(***************************************************************************)
EXTENDS Authority, TLAPS

\* Places of a client: before it takes part in a call, leading one, settling it.
Before == {"idle", "get", "begin"}
Leading == {"recheck", "sign", "put", "unregister"}
Settling == {"deliver", "close"}

\* A call is in flight exactly while its leader is between begin and end.
Flights ==
  /\ \A c \in Clients : pc[c] \in Leading => inflight[name[c]] = c
  /\ \A n \in Names :
       inflight[n] # Nobody => pc[inflight[n]] \in Leading /\ name[inflight[n]] = n

\* Who takes part in which call; a leader takes part in its own.
Parts ==
  \A c \in Clients :
    /\ pc[c] \in Before => call[c] = Nobody
    /\ pc[c] \in Leading \cup Settling => call[c] = c
    /\ pc[c] = "wait" => call[c] \notin {Nobody, c}
    /\ call[c] # Nobody => call[call[c]] = call[c]

\* A call holds what its leader returned, from the end of deliver on.
Results ==
  \A c \in Clients :
    /\ calls[c].done => pc[c] = "done" /\ call[c] = c
    /\ pc[c] = "close" \/ calls[c].done =>
         calls[c].cert = outcome[c].cert /\ calls[c].err = outcome[c].err
    /\ pc[c] = "done" /\ call[c] # Nobody =>
         calls[call[c]].done /\ outcome[c] = outcome[call[c]]

\* The nil results are those of a client that has not come so far or panicked.
Nils ==
  \A c \in Clients :
    /\ pc[c] = "put" => outcome[c].cert \in Certificates
    /\ pc[c] \in Settling \cup {"unregister", "done"} /\ outcome[c] = Nothing =>
         call[c] \in panicked

\* The inductive invariant.
IInv == TypeOK /\ Flights /\ Parts /\ Results /\ Nils /\ NoNeedlessSigning

-----------------------------------------------------------------------------
(* What the cache operators do to an entry.                                *)

\* Get removes entries and changes none.
LEMMA GetRemoves ==
  ASSUME NEW e, NEW key, NEW now
  PROVE  /\ DOMAIN C!AfterGet(e, key, now) \subseteq DOMAIN e
         /\ \A n \in DOMAIN C!AfterGet(e, key, now) : C!AfterGet(e, key, now)[n] = e[n]
BY DEF C!AfterGet, C!Holds, C!Restrict

\* Put stores the value under its key; another entry is as it was, or gone.
LEMMA PutStores ==
  ASSUME NEW e, NEW key, NEW value, NEW now,
         NEW n \in DOMAIN C!AfterPut(e, key, value, now)
  PROVE  \/ n = key /\ C!AfterPut(e, key, value, now)[n] = [value |-> value, expiresAt |-> now + TTL]
         \/ n \in DOMAIN e /\ C!AfterPut(e, key, value, now)[n] = e[n]
<1> DEFINE room == C!Room(e)
<1>1. DOMAIN room \subseteq DOMAIN e /\ \A k \in DOMAIN room : room[k] = e[k]
  BY DEF C!Room, C!Clear, C!NoEntries
<1> HIDE DEF room
<1>2. n \in DOMAIN C!Store(room, key, value, now) =>
        \/ n = key /\ C!Store(room, key, value, now)[n] =
             [value |-> value, expiresAt |-> now + TTL]
        \/ n \in DOMAIN room /\ C!Store(room, key, value, now)[n] = room[n]
  BY DEF C!Store
<1> QED
  BY <1>1, <1>2 DEF C!AfterPut, room

-----------------------------------------------------------------------------
(* The invariant.                                                          *)

\* The invariant holds at first.
LEMMA InvInit == Init => IInv
<1> SUFFICES ASSUME Init PROVE IInv
  OBVIOUS
<1>1. TypeOK
  BY AuthorityAssumption DEF Init, TypeOK, Outcomes, Certificates, Nothing, C!NoEntries
<1>2. Flights /\ Parts /\ Results /\ Nils /\ NoNeedlessSigning
  BY DEF Init, Flights, Parts, Results, Nils, NoNeedlessSigning, Leading, Settling, Before
<1> QED
  BY <1>1, <1>2 DEF IInv

\* The results of a return are of their type.
LEMMA ReturnTyped ==
  ASSUME TypeOK, NEW c \in Clients, NEW cert \in Certificates \cup {NoCert},
         NEW err \in BOOLEAN, Return(c, cert, err)
  PROVE  outcome' \in [Clients -> Outcomes]
BY DEF TypeOK, Return, Outcomes

\* Every variable keeps its type.
LEMMA TypeStep == IInv /\ [Next]_vars => TypeOK'
<1> SUFFICES ASSUME IInv, [Next]_vars PROVE TypeOK'
  OBVIOUS
<1> USE DEF IInv, TypeOK, Outcomes, Certificates, Nothing
<1>1. CASE UNCHANGED vars \/ ClearCache \/ Tick
  BY <1>1 DEF vars, ClearCache, Tick, C!Clear, C!NoEntries
<1>2. ASSUME NEW c \in Clients, Hello(c) PROVE TypeOK'
  <2>1. outcome' \in [Clients -> Outcomes]
    BY <1>2, ReturnTyped DEF Hello
  <2> QED
    BY <1>2, <2>1 DEF Hello, Goto
<1>3. ASSUME NEW c \in Clients, Get(c) PROVE TypeOK'
  <2>1. DOMAIN entries' \subseteq Names /\ \A n \in DOMAIN entries' : entries'[n] \in [value: Certificates, expiresAt: Int]
    BY <1>3, GetRemoves DEF Get, Lookup
  <2>2. Cached(c) => entries[name[c]] \in [value: Certificates, expiresAt: Int]
    BY DEF Cached, C!Holds
  <2>3. outcome' \in [Clients -> Outcomes]
    BY <1>3, <2>2, ReturnTyped DEF Get, ReturnCached
  <2> QED
    BY <1>3, <2>1, <2>3 DEF Get, Goto
<1>4. ASSUME NEW c \in Clients, Begin(c) PROVE TypeOK'
  BY SMTT(20), <1>4 DEF Begin, Lead, Goto
<1>5. ASSUME NEW c \in Clients, Wait(c) PROVE TypeOK'
  <2>1. call[c] \in Clients
    BY <1>5 DEF Wait, Parts
  <2> QED
    BY <1>5, <2>1 DEF Wait, Goto, Return
<1>6. ASSUME NEW c \in Clients, Recheck(c) PROVE TypeOK'
  <2>1. DOMAIN entries' \subseteq Names /\ \A n \in DOMAIN entries' : entries'[n] \in [value: Certificates, expiresAt: Int]
    BY <1>6, GetRemoves DEF Recheck, Lookup
  <2>2. Cached(c) => entries[name[c]] \in [value: Certificates, expiresAt: Int]
    BY DEF Cached, C!Holds
  <2>3. outcome' \in [Clients -> Outcomes]
    BY <1>6, <2>2, ReturnTyped DEF Recheck, ReturnCached
  <2> QED
    BY <1>6, <2>1, <2>3 DEF Recheck, Goto
<1>7. ASSUME NEW c \in Clients, Sign(c) PROVE TypeOK'
  <2>1. outcome' \in [Clients -> Outcomes]
    BY <1>7, ReturnTyped DEF Sign
  <2> QED
    BY <1>7, <2>1 DEF Sign, Goto
<1>8. ASSUME NEW c \in Clients, Put(c) PROVE TypeOK'
  <2>1. outcome[c].cert \in Certificates
    BY <1>8 DEF Put, Nils
  <2>2. ASSUME NEW n \in DOMAIN entries'
        PROVE n \in Names /\ entries'[n] \in [value: Certificates, expiresAt: Int]
    BY <1>8, <2>1, PutStores, AuthorityAssumption DEF Put, AuthorityAssumption
  <2> QED
    BY <1>8, <2>2 DEF Put, Goto
<1>9. ASSUME NEW c \in Clients, Unregister(c) PROVE TypeOK'
  BY <1>9 DEF Unregister, Goto
<1>10. ASSUME NEW c \in Clients, Deliver(c) PROVE TypeOK'
  BY <1>10 DEF Deliver, Goto
<1>11. ASSUME NEW c \in Clients, Close(c) PROVE TypeOK'
  BY <1>11 DEF Close, Goto
<1> QED
  BY <1>1, <1>2, <1>3, <1>4, <1>5, <1>6, <1>7, <1>8, <1>9, <1>10, <1>11 DEF Next, Step

\* Calls enter and leave the flight with their leaders.
LEMMA FlightsStep == IInv /\ [Next]_vars => Flights'
<1> SUFFICES ASSUME IInv, [Next]_vars PROVE Flights'
  OBVIOUS
<1> USE DEF IInv, TypeOK, Outcomes, Certificates, Nothing, Leading, Settling, Before, Flights,
        AuthorityAssumption
<1>1. CASE UNCHANGED vars \/ ClearCache \/ Tick
  BY <1>1 DEF vars, ClearCache, Tick
<1>2. ASSUME NEW c \in Clients, Hello(c) PROVE Flights'
  BY <1>2 DEF Hello, Goto, Return
<1>3. ASSUME NEW c \in Clients, Get(c) PROVE Flights'
  BY <1>3 DEF Get, Goto, Lookup, ReturnCached, Return
<1>4. ASSUME NEW c \in Clients, Begin(c) PROVE Flights'
  <2>1. CASE inflight[name[c]] = Nobody
    <3>1. /\ inflight' = [inflight EXCEPT ![name[c]] = c]
          /\ pc' = [pc EXCEPT ![c] = "recheck"] /\ name' = name
      BY <1>4, <2>1 DEF Begin, Lead, Goto
    <3>2. \A d \in Clients : pc'[d] \in Leading => inflight'[name[d]] = d
      BY <2>1, <3>1, AuthorityAssumption
    <3>3. \A n \in Names : inflight'[n] # Nobody =>
            pc'[inflight'[n]] \in Leading /\ name[inflight'[n]] = n
      BY <2>1, <3>1, AuthorityAssumption
    <3> QED
      BY <3>1, <3>2, <3>3
  <2>2. CASE inflight[name[c]] # Nobody
    BY <1>4, <2>2 DEF Begin, Goto
  <2> QED
    BY <2>1, <2>2
<1>5. ASSUME NEW c \in Clients, Wait(c) PROVE Flights'
  BY <1>5 DEF Wait, Goto, Return
<1>6. ASSUME NEW c \in Clients, Recheck(c) PROVE Flights'
  BY <1>6 DEF Recheck, Goto, Lookup, ReturnCached, Return
<1>7. ASSUME NEW c \in Clients, Sign(c) PROVE Flights'
  BY <1>7, AuthorityAssumption DEF Sign, Goto, Return
<1>8. ASSUME NEW c \in Clients, Put(c) PROVE Flights'
  BY <1>8 DEF Put, Goto
<1>9. ASSUME NEW c \in Clients, Unregister(c) PROVE Flights'
  BY <1>9 DEF Unregister, Goto
<1>10. ASSUME NEW c \in Clients, Deliver(c) PROVE Flights'
  BY <1>10 DEF Deliver, Goto
<1>11. ASSUME NEW c \in Clients, Close(c) PROVE Flights'
  BY <1>11 DEF Close, Goto
<1> QED
  BY <1>1, <1>2, <1>3, <1>4, <1>5, <1>6, <1>7, <1>8, <1>9, <1>10, <1>11 DEF Next, Step

\* A client takes part in one call, for good.
LEMMA PartsStep == IInv /\ [Next]_vars => Parts'
<1> SUFFICES ASSUME IInv, [Next]_vars PROVE Parts'
  OBVIOUS
<1> USE DEF IInv, TypeOK, Outcomes, Certificates, Nothing, Leading, Settling, Before, Parts,
        Flights, AuthorityAssumption
<1>1. CASE UNCHANGED vars \/ ClearCache \/ Tick
  BY <1>1 DEF vars, ClearCache, Tick
<1>2. ASSUME NEW c \in Clients, Hello(c) PROVE Parts'
  BY <1>2 DEF Hello, Goto, Return
<1>3. ASSUME NEW c \in Clients, Get(c) PROVE Parts'
  BY <1>3 DEF Get, Goto, Lookup, ReturnCached, Return
<1>4. ASSUME NEW c \in Clients, Begin(c) PROVE Parts'
  BY <1>4, AuthorityAssumption DEF Begin, Lead, Goto
<1>5. ASSUME NEW c \in Clients, Wait(c) PROVE Parts'
  BY <1>5 DEF Wait, Goto, Return
<1>6. ASSUME NEW c \in Clients, Recheck(c) PROVE Parts'
  BY <1>6 DEF Recheck, Goto, Lookup, ReturnCached, Return
<1>7. ASSUME NEW c \in Clients, Sign(c) PROVE Parts'
  BY <1>7 DEF Sign, Goto, Return
<1>8. ASSUME NEW c \in Clients, Put(c) PROVE Parts'
  BY <1>8 DEF Put, Goto
<1>9. ASSUME NEW c \in Clients, Unregister(c) PROVE Parts'
  BY <1>9 DEF Unregister, Goto
<1>10. ASSUME NEW c \in Clients, Deliver(c) PROVE Parts'
  BY <1>10 DEF Deliver, Goto
<1>11. ASSUME NEW c \in Clients, Close(c) PROVE Parts'
  BY <1>11 DEF Close, Goto
<1> QED
  BY <1>1, <1>2, <1>3, <1>4, <1>5, <1>6, <1>7, <1>8, <1>9, <1>10, <1>11 DEF Next, Step

\* What a call holds is what its leader returned.
LEMMA ResultsStep == IInv /\ [Next]_vars => Results'
<1> SUFFICES ASSUME IInv, [Next]_vars PROVE Results'
  OBVIOUS
<1> USE DEF IInv, TypeOK, Outcomes, Certificates, Nothing, Leading, Settling, Before, Parts,
        Results, AuthorityAssumption
<1>1. CASE UNCHANGED vars \/ ClearCache \/ Tick
  BY <1>1 DEF vars, ClearCache, Tick
<1>2. ASSUME NEW c \in Clients, Hello(c) PROVE Results'
  BY <1>2 DEF Hello, Goto, Return
<1>3. ASSUME NEW c \in Clients, Get(c) PROVE Results'
  BY <1>3 DEF Get, Goto, Lookup, ReturnCached, Return
<1>4. ASSUME NEW c \in Clients, Begin(c) PROVE Results'
  BY <1>4 DEF Begin, Lead, Goto
<1>5. ASSUME NEW c \in Clients, Wait(c) PROVE Results'
  BY <1>5 DEF Wait, Goto, Return
<1>6. ASSUME NEW c \in Clients, Recheck(c) PROVE Results'
  BY <1>6 DEF Recheck, Goto, Lookup, ReturnCached, Return
<1>7. ASSUME NEW c \in Clients, Sign(c) PROVE Results'
  BY <1>7 DEF Sign, Goto, Return
<1>8. ASSUME NEW c \in Clients, Put(c) PROVE Results'
  BY <1>8 DEF Put, Goto
<1>9. ASSUME NEW c \in Clients, Unregister(c) PROVE Results'
  BY <1>9 DEF Unregister, Goto
<1>10. ASSUME NEW c \in Clients, Deliver(c) PROVE Results'
  BY <1>10 DEF Deliver, Goto
<1>11. ASSUME NEW c \in Clients, Close(c) PROVE Results'
  BY <1>11 DEF Close, Goto
<1> QED
  BY <1>1, <1>2, <1>3, <1>4, <1>5, <1>6, <1>7, <1>8, <1>9, <1>10, <1>11 DEF Next, Step

\* Nil results come from panics.
LEMMA NilsStep == IInv /\ [Next]_vars => Nils'
<1> SUFFICES ASSUME IInv, [Next]_vars PROVE Nils'
  OBVIOUS
<1> USE DEF IInv, TypeOK, Outcomes, Certificates, Nothing, Leading, Settling, Before, Parts,
        Results, Nils, AuthorityAssumption
<1>1. CASE UNCHANGED vars \/ ClearCache \/ Tick
  BY <1>1 DEF vars, ClearCache, Tick
<1>2. ASSUME NEW c \in Clients, Hello(c) PROVE Nils'
  BY <1>2 DEF Hello, Goto, Return
<1>3. ASSUME NEW c \in Clients, Get(c) PROVE Nils'
  <2>1. Cached(c) => entries[name[c]].value \in Certificates
    BY DEF Cached, C!Holds
  <2> QED
    BY <1>3, <2>1, AuthorityAssumption DEF Get, Goto, ReturnCached, Return
<1>4. ASSUME NEW c \in Clients, Begin(c) PROVE Nils'
  BY <1>4 DEF Begin, Lead, Goto
<1>5. ASSUME NEW c \in Clients, Wait(c) PROVE Nils'
  BY <1>5 DEF Wait, Goto, Return
<1>6. ASSUME NEW c \in Clients, Recheck(c) PROVE Nils'
  <2>1. Cached(c) => entries[name[c]].value \in Certificates
    BY DEF Cached, C!Holds
  <2> QED
    BY <1>6, <2>1, AuthorityAssumption DEF Recheck, Goto, ReturnCached, Return
<1>7. ASSUME NEW c \in Clients, Sign(c) PROVE Nils'
  BY <1>7 DEF Sign, Goto, Return
<1>8. ASSUME NEW c \in Clients, Put(c) PROVE Nils'
  BY <1>8, AuthorityAssumption DEF Put, Goto
<1>9. ASSUME NEW c \in Clients, Unregister(c) PROVE Nils'
  BY <1>9 DEF Unregister, Goto
<1>10. ASSUME NEW c \in Clients, Deliver(c) PROVE Nils'
  BY <1>10 DEF Deliver, Goto
<1>11. ASSUME NEW c \in Clients, Close(c) PROVE Nils'
  BY <1>11 DEF Close, Goto
<1> QED
  BY <1>1, <1>2, <1>3, <1>4, <1>5, <1>6, <1>7, <1>8, <1>9, <1>10, <1>11 DEF Next, Step

-----------------------------------------------------------------------------
\* A name that has no valid certificate in the cache gets one only by a Put of
\* its own.
LEMMA NotCachedByOthers ==
  ASSUME IInv, NEW c \in Clients, NEW d \in Clients, Put(d), name[d] # name[c],
         ~Cached(c)
  PROVE  ~Cached(c)'
<1>1. ASSUME name[c] \in DOMAIN entries'
      PROVE name[c] \in DOMAIN entries /\ entries'[name[c]] = entries[name[c]]
  BY <1>1, PutStores DEF Put
<1>2. name' = name /\ clock' = clock
  BY DEF Put
<1> QED
  BY <1>1, <1>2 DEF Cached, C!Holds

\* Nobody else can sign for the name a leader signs for.
LEMMA NeedStep == IInv /\ [Next]_vars => NoNeedlessSigning'
<1> SUFFICES ASSUME IInv, [Next]_vars PROVE NoNeedlessSigning'
  OBVIOUS
<1> USE DEF IInv, TypeOK, Flights, Leading, NoNeedlessSigning, Certificates
<1>1. CASE UNCHANGED vars \/ ClearCache \/ Tick
  BY <1>1 DEF vars, ClearCache, Tick, Cached, C!Holds, C!Clear, C!NoEntries
<1>2. ASSUME NEW c \in Clients, Hello(c) PROVE NoNeedlessSigning'
  BY <1>2 DEF Hello, Goto, Return, Cached, C!Holds
<1>3. ASSUME NEW c \in Clients, Get(c) PROVE NoNeedlessSigning'
  BY <1>3, GetRemoves DEF Get, Goto, Lookup, Cached, C!Holds
<1>4. ASSUME NEW c \in Clients, Begin(c) PROVE NoNeedlessSigning'
  BY <1>4 DEF Begin, Lead, Goto, Cached, C!Holds
<1>5. ASSUME NEW c \in Clients, Wait(c) PROVE NoNeedlessSigning'
  BY <1>5 DEF Wait, Goto, Return, Cached, C!Holds
<1>6. ASSUME NEW c \in Clients, Recheck(c) PROVE NoNeedlessSigning'
  BY <1>6, GetRemoves DEF Recheck, Goto, Lookup, Cached, C!Holds
<1>7. ASSUME NEW c \in Clients, Sign(c) PROVE NoNeedlessSigning'
  BY <1>7 DEF Sign, Goto, Return, Cached, C!Holds
<1>8. ASSUME NEW c \in Clients, Put(c) PROVE NoNeedlessSigning'
  <2> SUFFICES ASSUME NEW d \in Clients, pc'[d] = "sign" PROVE ~Cached(d)'
    OBVIOUS
  <2>1. pc[d] = "sign" /\ pc[c] = "put"
    BY <1>8 DEF Put, Goto
  <2>2. name[c] # name[d]
    BY <2>1
  <2> QED
    BY <1>8, <2>1, <2>2, NotCachedByOthers
<1>9. ASSUME NEW c \in Clients, Unregister(c) PROVE NoNeedlessSigning'
  BY <1>9 DEF Unregister, Goto, Cached, C!Holds
<1>10. ASSUME NEW c \in Clients, Deliver(c) PROVE NoNeedlessSigning'
  BY <1>10 DEF Deliver, Goto, Cached, C!Holds
<1>11. ASSUME NEW c \in Clients, Close(c) PROVE NoNeedlessSigning'
  BY <1>11 DEF Close, Goto, Cached, C!Holds
<1> QED
  BY <1>1, <1>2, <1>3, <1>4, <1>5, <1>6, <1>7, <1>8, <1>9, <1>10, <1>11 DEF Next, Step

\* Every step preserves the invariant,
LEMMA InvStep == IInv /\ [Next]_vars => IInv'
  BY TypeStep, FlightsStep, PartsStep, ResultsStep, NilsStep, NeedStep DEF IInv

\* which therefore always holds.
LEMMA Invariance == Spec => []IInv
  BY InvInit, InvStep, PTL DEF Spec

-----------------------------------------------------------------------------
\* For any number of handshakes and names, no variable leaves its type and no
\* nil certificate is cached.
THEOREM TypeCorrect == Spec => []TypeOK
<1>1. IInv => TypeOK
  BY DEF IInv
<1> QED
  BY <1>1, Invariance, PTL

\* Two handshakes never sign for one name at once.
THEOREM OneSignerPerName == Spec => []OneSigner
<1>1. IInv => OneSigner
  BY DEF IInv, Flights, Leading, OneSigner
<1> QED
  BY <1>1, Invariance, PTL

\* Nothing is signed while a valid certificate of the name is cached.
THEOREM NeverSignsTwice == Spec => []NoNeedlessSigning
<1>1. IInv => NoNeedlessSigning
  BY DEF IInv
<1> QED
  BY <1>1, Invariance, PTL

\* Neither certificate nor error: only after the panic of the sign relied on.
THEOREM NilMeansPanic == Spec => []NilOnlyAfterPanic
<1>1. IInv => NilOnlyAfterPanic
  BY DEF IInv, Nils, NilOnlyAfterPanic, Settling
<1> QED
  BY <1>1, Invariance, PTL

-----------------------------------------------------------------------------
(* Signing on demand is a single flight.                                   *)

\* Nothing is in flight at first.
LEMMA RefinementInit == Init => SF!Init
BY AuthorityAssumption DEF Init, SF!Init, Published, Received

\* Steps at which nobody begins, ends or receives anything.
LEMMA Stutters ==
  ASSUME IInv, NEW c \in Clients,
         Hello(c) \/ Get(c) \/ Recheck(c) \/ Sign(c) \/ Put(c) \/ Deliver(c)
  PROVE  UNCHANGED SF!vars
<1> USE DEF IInv, TypeOK, Parts, Before, Leading, Settling
<1>1. inflight' = inflight /\ call' = call
  BY DEF Hello, Get, Recheck, Sign, Put, Deliver
<1>2. Published' = Published
  <2>1. CASE Deliver(c)
    <3>1. ~calls[c].done /\ call[c] = c
      BY <2>1 DEF Deliver, Results
    <3>2. calls' = [calls EXCEPT ![c] = [done |-> FALSE, cert |-> outcome[c].cert, err |-> outcome[c].err]]
      BY <2>1, <3>1 DEF Deliver
    <3> QED
      BY <3>1, <3>2 DEF Published
  <2>2. CASE calls' = calls
    BY <2>2 DEF Published
  <2> QED
    BY <2>1, <2>2 DEF Hello, Get, Recheck, Sign, Put
<1>3. Received' = Received
  <2> SUFFICES ASSUME NEW d \in Clients, call[d] # Nobody
               PROVE (pc'[d] = "done" <=> pc[d] = "done")
                     /\ (pc[d] = "done" => outcome'[d] = outcome[d])
    BY <1>1 DEF Received
  <2> QED
    BY DEF Hello, Get, Recheck, Sign, Put, Deliver, Goto, Return, ReturnCached
<1> QED
  BY <1>1, <1>2, <1>3 DEF SF!vars

\* begin leads or joins a call.
LEMMA BeginRefines == ASSUME IInv, NEW c \in Clients, Begin(c) PROVE SF!Next
<1> USE DEF IInv, TypeOK
<1>1. call[c] = Nobody /\ pc[c] = "begin" /\ name[c] \in Names
  BY DEF Begin, Parts, Before
<1>2. Published' = Published
  BY DEF Begin, Published
<1>3. Received' = Received
  <2> SUFFICES ASSUME NEW d \in Clients
               PROVE pc'[d] = "done" <=> pc[d] = "done" /\ d # c
    <3>1. \A d \in Clients \ {c} : call'[d] = call[d]
      BY DEF Begin, Lead
    <3>2. outcome' = outcome /\ call \in [Clients -> Clients \cup {Nobody}]
      BY DEF Begin
    <3> QED
      BY <1>1, <3>1, <3>2 DEF Received
  <2> QED
    BY DEF Begin, Lead, Goto
<1>4. CASE inflight[name[c]] = Nobody
  <2>1. SF!Fresh(c)
    BY <1>1, AuthorityAssumption DEF SF!Fresh, Published, Results, Parts
  <2>2. inflight' = [inflight EXCEPT ![name[c]] = c] /\ call' = [call EXCEPT ![c] = c]
    BY <1>4 DEF Begin, Lead
  <2>3. SF!Lead(c, name[c], c)
    BY <1>1, <1>2, <1>3, <1>4, <2>1, <2>2 DEF SF!Lead
  <2> QED
    BY <1>1, <2>3 DEF SF!Next
<1>5. CASE inflight[name[c]] # Nobody
  <2>1. SF!Join(c, name[c])
    BY <1>1, <1>2, <1>3, <1>5 DEF Begin, SF!Join
  <2> QED
    BY <1>1, <2>1 DEF SF!Next
<1> QED
  BY <1>4, <1>5

\* A waiter goes on with the result of the call.
LEMMA WaitRefines == ASSUME IInv, NEW c \in Clients, Wait(c) PROVE SF!Next
<1> USE DEF IInv, TypeOK
<1> DEFINE r == [cert |-> calls[call[c]].cert, err |-> calls[call[c]].err]
<1>1. call[c] \in Clients /\ call[c] # Nobody /\ pc[c] = "wait" /\ calls[call[c]].done
  BY AuthorityAssumption DEF Wait, Parts
<1>2. Published[call[c]] = r /\ Received[c] = Nobody
  BY <1>1 DEF Published, Received
<1>3. r # Nobody
  BY <1>1, AuthorityAssumption DEF AuthorityAssumption, Certificates
<1>4. UNCHANGED <<inflight, call, calls>> /\ Published' = Published
  BY DEF Wait, Published
<1>5. outcome' = [outcome EXCEPT ![c] = r] /\ pc' = [pc EXCEPT ![c] = "done"]
  BY DEF Wait, Return, Goto
<1>6. Received' = [Received EXCEPT ![c] = r]
  BY <1>1, <1>4, <1>5 DEF Received
<1>7. SF!Receive(c)
  BY <1>1, <1>2, <1>3, <1>4, <1>6 DEF SF!Receive
<1> QED
  BY <1>7 DEF SF!Next

\* The end of a leader takes the call off the flight, ...
LEMMA UnregisterRefines == ASSUME IInv, NEW c \in Clients, Unregister(c) PROVE SF!Next
<1> USE DEF IInv, TypeOK
<1>1. name[c] \in Names /\ inflight[name[c]] = c /\ pc[c] = "unregister"
  BY DEF Unregister, Flights, Leading
<1>2. Published' = Published /\ Received' = Received
  <2>1. calls' = calls /\ call' = call /\ outcome' = outcome
        /\ pc' = [pc EXCEPT ![c] = "deliver"]
    BY DEF Unregister, Goto
  <2>2. \A d \in Clients : pc'[d] = "done" <=> pc[d] = "done"
    BY <1>1, <2>1
  <2> QED
    BY <2>1, <2>2 DEF Published, Received
<1>3. SF!Land(name[c])
  BY <1>1, <1>2, AuthorityAssumption DEF Unregister, SF!Land
<1> QED
  BY <1>1, <1>3 DEF SF!Next

\* ... and then publishes what GetCertificate returns.
LEMMA CloseRefines == ASSUME IInv, NEW c \in Clients, Close(c) PROVE SF!Next
<1> USE DEF IInv, TypeOK
<1>1. pc[c] = "close" /\ call[c] = c /\ c # Nobody
  BY AuthorityAssumption DEF Close, Parts, Settling
<1>2. ~calls[c].done /\ calls[c].cert = outcome[c].cert /\ calls[c].err = outcome[c].err
  BY <1>1 DEF Results
<1>3. outcome[c] \in Outcomes /\ outcome[c] = [cert |-> outcome[c].cert, err |-> outcome[c].err]
  BY DEF Outcomes
<1>4. /\ calls' = [calls EXCEPT ![c] = [done |-> TRUE, cert |-> calls[c].cert, err |-> calls[c].err]]
      /\ pc' = [pc EXCEPT ![c] = "done"]
      /\ UNCHANGED <<inflight, call, outcome>>
  BY <1>1 DEF Close, Goto
<1>5. Published[c] = Nobody /\ Published' = [Published EXCEPT ![c] = outcome[c]]
  BY <1>2, <1>3, <1>4 DEF Published
<1>6. Received' = [Received EXCEPT ![c] = outcome[c]]
  BY <1>1, <1>4 DEF Received
<1>7. \A n \in Names : inflight[n] # c
  BY <1>1 DEF Flights, Leading
<1>8. SF!Publish(c, outcome[c])
  BY <1>1, <1>4, <1>5, <1>6, <1>7 DEF SF!Publish
<1> QED
  BY <1>3, <1>8 DEF SF!Next

\* Every step is one of the single flight, or none.
LEMMA RefinementStep == IInv /\ [Next]_vars => [SF!Next]_(SF!vars)
<1> SUFFICES ASSUME IInv, [Next]_vars PROVE SF!Next \/ UNCHANGED SF!vars
  OBVIOUS
<1>1. CASE UNCHANGED vars \/ ClearCache \/ Tick
  BY <1>1 DEF vars, ClearCache, Tick, SF!vars, Published, Received
<1>2. ASSUME NEW c \in Clients, Hello(c) \/ Step(c) PROVE SF!Next \/ UNCHANGED SF!vars
  BY <1>2, Stutters, BeginRefines, WaitRefines, UnregisterRefines, CloseRefines DEF Step
<1> QED
  BY <1>1, <1>2 DEF Next

\* However many handshakes there are, whoever takes part in a signing gets what
\* its leader got, and nobody joins a signing that has ended.
THEOREM SigningIsSingleFlight == Spec => ImplementsSingleFlight
<1> QED
  BY RefinementInit, RefinementStep, Invariance, PTL
     DEF Spec, SF!Spec, ImplementsSingleFlight
==============================================================================
