--------------------------- MODULE HotReloadProofs ---------------------------
(***************************************************************************)
(* Safety of HotReload for every value of its constants.                   *)
(*                                                                         *)
(* None of Coherent, NoRollback and StaleOnlyInFlight is inductive: a step *)
(* of reload relies on what the steps before it left, so the invariant     *)
(* Inv says, for every place a reloader can be in, how the configuration   *)
(* in force relates to what the reloader has read.                         *)
(***************************************************************************)
EXTENDS HotReload, TLAPS

\* Before New returns neither loop runs; the loops never run New's end.
Startup ==
  /\ pc["main"] \in Critical \cup {"lock", "done", "fatal"}
  /\ pc["main"] # "done" => pc["watch"] = "off" /\ pc["signal"] = "off"
  /\ \A r \in Reloaders \ {"main"} : pc[r] \notin {"done", "fatal"}

\* reloadMu is held by exactly the reloader inside its critical section.
Mutex == \A r \in Reloaders : pc[r] \in Critical <=> mu = r

\* The configuration of the last successful reload is in force.
InForce == Now = [routes |-> applied.routes, servers |-> applied.servers]

\* How far the reloader that holds the mutex has come.
Progress ==
  /\ mu = Nobody => InForce
  /\ \A r \in Reloaders :
       /\ pc[r] \in {"load", "update", "failed"} => InForce
       /\ pc[r] \in {"purge", "publish"} =>
            /\ table = applied.routes
            /\ nameservers = loaded[r].servers
            /\ changed[r] <=> table # loaded[r].routes
       /\ pc[r] \in {"closeIdle", "clearDNS", "clearCerts", "unlock"} =>
            Now = [routes |-> loaded[r].routes, servers |-> loaded[r].servers]
       /\ pc[r] \in {"purge", "publish", "closeIdle", "clearDNS", "clearCerts"} =>
            \/ loaded[r].routes # applied.routes
            \/ loaded[r].servers # applied.servers

\* Versions only grow: applied, then loaded, then on disk.
Versions ==
  /\ applied.version <= file.version
  /\ \A r \in Reloaders :
       pc[r] \in Critical \ {"load", "failed"} =>
         /\ applied.version <= loaded[r].version
         /\ loaded[r].version <= file.version

\* The steps after which a cache of kind k may hold what the reload in
\* progress has not thrown away yet.
Pending(k) ==
  {"purge", "publish", "closeIdle"}
    \cup (IF k = "idle" THEN {} ELSE {"clearDNS"})
    \cup (IF k = "certs" THEN {"clearCerts"} ELSE {})

Fresh ==
  \A k \in Kinds :
    (\A r \in Reloaders : pc[r] \notin Pending(k)) =>
      derived[k] \cup filling[k] \subseteq carried[k] \cup {Now}

\* The inductive invariant.
Inv == TypeOK /\ Startup /\ Mutex /\ Progress /\ Versions /\ Fresh

USE DEF Reloaders, Nobody, Kinds

-----------------------------------------------------------------------------
\* Type correctness holds initially and is kept by every step: reload puts
\* no name server list in force that Update has not validated.
LEMMA TypeInit == Init => TypeOK
<1> SUFFICES ASSUME Init PROVE TypeOK
  OBVIOUS
<1> USE ConstantsAssumption DEF ConstantsAssumption, Init
<1>1. file \in Files
  BY DEF Files
<1>2. pc \in [Reloaders -> Steps]
  BY DEF Steps
<1>3. loaded \in [Reloaders -> Loads] /\ applied \in Loads
  BY DEF Loads, Tables
<1>4. table \in Tables /\ nameservers \in Nameservers
  BY DEF Tables
<1>5. /\ derived \in [Kinds -> SUBSET Tags]
      /\ filling \in [Kinds -> SUBSET Tags]
      /\ carried \in [Kinds -> SUBSET Tags]
  OBVIOUS
<1> QED
  BY <1>1, <1>2, <1>3, <1>4, <1>5 DEF TypeOK

\* Every variable keeps its type.
LEMMA TypeStep == TypeOK /\ [Next]_vars => TypeOK'
<1> SUFFICES ASSUME TypeOK, [Next]_vars PROVE TypeOK'
  OBVIOUS
<1> USE ConstantsAssumption DEF ConstantsAssumption, TypeOK, Steps, environment, live, caches,
        watcher, signals, history, Goto
<1>1. ASSUME NEW c \in Contents, Save(c) PROVE TypeOK'
  BY <1>1 DEF Save, Files
<1>2. CASE Delete
  BY <1>2 DEF Delete, Files
<1>3. CASE Tick
  BY <1>3 DEF Tick
<1>4. CASE Baseline
  BY <1>4 DEF Baseline, Stamp, Files
<1>5. CASE Poll
  BY <1>5 DEF Poll, Stamp, Files
<1>6. CASE Hangup
  BY <1>6 DEF Hangup, Files
<1>7. CASE TakeHangup
  BY <1>7 DEF TakeHangup
<1>8. ASSUME NEW r \in Reloaders, Reload(r) PROVE TypeOK'
  <2>1. CASE Lock(r)
    BY <2>1 DEF Lock
  <2>2. CASE LoadFails(r)
    BY <2>2 DEF LoadFails, Files
  <2>3. CASE Load(r)
    BY <2>3 DEF Load, Files, Loads, Tables
  <2>4. CASE Update(r)
    BY <2>4 DEF Update, Loads
  <2>5. CASE Purge(r)
    BY <2>5 DEF Purge, Empty
  <2>6. CASE Publish(r)
    BY <2>6 DEF Publish, Loads
  <2>7. CASE CloseIdle(r)
    BY <2>7 DEF CloseIdle, Reset, Empty
  <2>8. CASE ClearDNS(r)
    BY <2>8 DEF ClearDNS, Reset, Empty
  <2>9. CASE ClearCerts(r)
    BY <2>9 DEF ClearCerts, Reset, Empty
  <2>10. CASE Unlock(r)
    <3>1. pc' \in [Reloaders -> Steps]
      BY <2>10 DEF Unlock
    <3>2. applied' \in Loads
      BY <2>10 DEF Unlock
    <3> QED
      BY <2>10, <3>1, <3>2 DEF Unlock
  <2> QED
    BY <1>8, <2>1, <2>2, <2>3, <2>4, <2>5, <2>6, <2>7, <2>8, <2>9, <2>10
    DEF Reload
<1>9. ASSUME NEW k \in FillKinds, FillStart(k) \/ FillEnd(k) PROVE TypeOK'
  <2> k \in Kinds
    OBVIOUS
  <2>1. CASE FillStart(k)
    BY <2>1 DEF FillStart, Now, Tags
  <2>2. CASE FillEnd(k)
    BY <2>2 DEF FillEnd
  <2> QED
    BY <1>9, <2>1, <2>2
<1>10. CASE UNCHANGED vars
  BY <1>10 DEF vars
<1> QED
  BY <1>1, <1>2, <1>3, <1>4, <1>5, <1>6, <1>7, <1>8, <1>9, <1>10 DEF Next

\* Every variable keeps its type, whatever the files hold.
THEOREM TypeCorrect == Spec => []TypeOK
  BY TypeInit, TypeStep, PTL DEF Spec
-----------------------------------------------------------------------------
\* The mutex has one holder, and the loops start only when main is done.
LEMMA ControlStep == TypeOK /\ Startup /\ Mutex /\ [Next]_vars => (Startup /\ Mutex)'
<1> SUFFICES ASSUME TypeOK, Startup, Mutex, [Next]_vars PROVE (Startup /\ Mutex)'
  OBVIOUS
<1> USE DEF TypeOK, Steps, Startup, Mutex, Critical, Serving, environment, live, caches,
        watcher, signals, history, Goto
<1>1. ASSUME NEW c \in Contents, Save(c) PROVE (Startup /\ Mutex)'
  BY <1>1 DEF Save
<1>2. CASE Delete
  BY <1>2 DEF Delete
<1>3. CASE Tick
  BY <1>3 DEF Tick
<1>4. CASE Baseline
  BY <1>4 DEF Baseline
<1>5. CASE Poll
  BY <1>5 DEF Poll
<1>6. CASE Hangup
  BY <1>6 DEF Hangup
<1>7. CASE TakeHangup
  BY <1>7 DEF TakeHangup
<1>8. ASSUME NEW r \in Reloaders, Reload(r) PROVE (Startup /\ Mutex)'
  <2>1. CASE Lock(r)
    BY <2>1 DEF Lock
  <2>2. CASE LoadFails(r)
    BY <2>2 DEF LoadFails
  <2>3. CASE Load(r)
    BY <2>3 DEF Load
  <2>4. CASE Update(r)
    BY <2>4 DEF Update
  <2>5. CASE Purge(r)
    BY <2>5 DEF Purge
  <2>6. CASE Publish(r)
    BY <2>6 DEF Publish
  <2>7. CASE CloseIdle(r)
    BY <2>7 DEF CloseIdle, Reset
  <2>8. CASE ClearDNS(r)
    BY <2>8 DEF ClearDNS, Reset
  <2>9. CASE ClearCerts(r)
    BY <2>9 DEF ClearCerts, Reset
  <2>10. CASE Unlock(r)
    BY <2>10 DEF Unlock
  <2> QED
    BY <1>8, <2>1, <2>2, <2>3, <2>4, <2>5, <2>6, <2>7, <2>8, <2>9, <2>10 DEF Reload
<1>9. ASSUME NEW k \in FillKinds, FillStart(k) \/ FillEnd(k) PROVE (Startup /\ Mutex)'
  BY <1>9 DEF FillStart, FillEnd
<1>10. CASE UNCHANGED vars
  BY <1>10 DEF vars
<1> QED
  BY <1>1, <1>2, <1>3, <1>4, <1>5, <1>6, <1>7, <1>8, <1>9, <1>10 DEF Next

\* What the reloader in its critical section has done to the configuration.
LEMMA ProgressStep == TypeOK /\ Startup /\ Mutex /\ Progress /\ [Next]_vars => Progress'
<1> SUFFICES ASSUME TypeOK, Startup, Mutex, Progress, [Next]_vars PROVE Progress'
  OBVIOUS
<1> USE DEF TypeOK, Steps, Startup, Mutex, Critical, Progress, InForce, Now, Loads,
        environment, live, caches, watcher, signals, history, Goto
<1>1. ASSUME NEW c \in Contents, Save(c) PROVE Progress'
  BY <1>1 DEF Save
<1>2. CASE Delete
  BY <1>2 DEF Delete
<1>3. CASE Tick
  BY <1>3 DEF Tick
<1>4. CASE Baseline
  BY <1>4 DEF Baseline
<1>5. CASE Poll
  BY <1>5 DEF Poll
<1>6. CASE Hangup
  BY <1>6 DEF Hangup
<1>7. CASE TakeHangup
  BY <1>7 DEF TakeHangup
<1>8. ASSUME NEW r \in Reloaders, Reload(r) PROVE Progress'
  <2>1. CASE Lock(r)
    BY <2>1 DEF Lock
  <2>2. CASE LoadFails(r)
    BY <2>2 DEF LoadFails
  <2>3. CASE Load(r)
    BY <2>3 DEF Load
  <2>4. CASE Update(r)
    <3>1. mu = r /\ mu' = r /\ pc[r] = "update" /\ InForce
      BY <2>4 DEF Update
    <3>2. \A q \in Reloaders \ {r} : pc'[q] = pc[q] /\ pc[q] \notin Critical
      BY <2>4, <3>1 DEF Update
    <3>3. changed'[r] <=> table # loaded[r].routes
      BY <2>4 DEF Update
    <3>4. table' = table /\ applied' = applied /\ loaded' = loaded
      BY <2>4 DEF Update
    <3>5. CASE pc'[r] = "failed" /\ nameservers' = nameservers
      BY <3>1, <3>2, <3>4, <3>5
    <3>6. CASE /\ loaded[r].servers = nameservers
               /\ nameservers' = nameservers
               /\ pc'[r] = IF changed'[r] THEN "publish" ELSE "unlock"
      BY <3>1, <3>2, <3>3, <3>4, <3>6
    <3>7. CASE /\ loaded[r].servers # nameservers
               /\ nameservers' = loaded[r].servers
               /\ pc'[r] = "purge"
      BY <3>1, <3>2, <3>3, <3>4, <3>7
    <3> QED
      BY <2>4, <3>5, <3>6, <3>7 DEF Update
  <2>5. CASE Purge(r)
    BY <2>5 DEF Purge
  <2>6. CASE Publish(r)
    BY <2>6 DEF Publish
  <2>7. CASE CloseIdle(r)
    BY <2>7 DEF CloseIdle, Reset
  <2>8. CASE ClearDNS(r)
    BY <2>8 DEF ClearDNS, Reset
  <2>9. CASE ClearCerts(r)
    BY <2>9 DEF ClearCerts, Reset
  <2>10. CASE Unlock(r)
    BY <2>10 DEF Unlock
  <2> QED
    BY <1>8, <2>1, <2>2, <2>3, <2>4, <2>5, <2>6, <2>7, <2>8, <2>9, <2>10 DEF Reload
<1>9. ASSUME NEW k \in FillKinds, FillStart(k) \/ FillEnd(k) PROVE Progress'
  BY <1>9 DEF FillStart, FillEnd
<1>10. CASE UNCHANGED vars
  BY <1>10 DEF vars
<1> QED
  BY <1>1, <1>2, <1>3, <1>4, <1>5, <1>6, <1>7, <1>8, <1>9, <1>10 DEF Next

\* Reloads read the file in the order in which they hold the mutex.
LEMMA VersionStep == TypeOK /\ Startup /\ Mutex /\ Versions /\ [Next]_vars => Versions'
<1> SUFFICES ASSUME TypeOK, Startup, Mutex, Versions, [Next]_vars PROVE Versions'
  OBVIOUS
<1> USE DEF TypeOK, Steps, Startup, Mutex, Critical, Versions, Loads, Files, environment, live,
        caches, watcher, signals, history, Goto
<1>1. ASSUME NEW c \in Contents, Save(c) PROVE Versions'
  BY <1>1 DEF Save
<1>2. CASE Delete
  BY <1>2 DEF Delete
<1>3. CASE Tick
  BY <1>3 DEF Tick
<1>4. CASE Baseline
  BY <1>4 DEF Baseline
<1>5. CASE Poll
  BY <1>5 DEF Poll
<1>6. CASE Hangup
  BY <1>6 DEF Hangup
<1>7. CASE TakeHangup
  BY <1>7 DEF TakeHangup
<1>8. ASSUME NEW r \in Reloaders, Reload(r) PROVE Versions'
  <2>1. CASE Lock(r)
    BY <2>1 DEF Lock
  <2>2. CASE LoadFails(r)
    BY <2>2 DEF LoadFails
  <2>3. CASE Load(r)
    BY <2>3 DEF Load
  <2>4. CASE Update(r)
    BY <2>4 DEF Update
  <2>5. CASE Purge(r)
    BY <2>5 DEF Purge
  <2>6. CASE Publish(r)
    BY <2>6 DEF Publish
  <2>7. CASE CloseIdle(r)
    BY <2>7 DEF CloseIdle, Reset
  <2>8. CASE ClearDNS(r)
    BY <2>8 DEF ClearDNS, Reset
  <2>9. CASE ClearCerts(r)
    BY <2>9 DEF ClearCerts, Reset
  <2>10. CASE Unlock(r)
    BY <2>10 DEF Unlock
  <2> QED
    BY <1>8, <2>1, <2>2, <2>3, <2>4, <2>5, <2>6, <2>7, <2>8, <2>9, <2>10 DEF Reload
<1>9. ASSUME NEW k \in FillKinds, FillStart(k) \/ FillEnd(k) PROVE Versions'
  BY <1>9 DEF FillStart, FillEnd
<1>10. CASE UNCHANGED vars
  BY <1>10 DEF vars
<1> QED
  BY <1>1, <1>2, <1>3, <1>4, <1>5, <1>6, <1>7, <1>8, <1>9, <1>10 DEF Next

\* Each clear of resetCaches comes after the new configuration is in force.
LEMMA FreshStep == TypeOK /\ Startup /\ Mutex /\ Progress /\ Fresh /\ [Next]_vars => Fresh'
<1> SUFFICES ASSUME TypeOK, Startup, Mutex, Progress, Fresh, [Next]_vars PROVE Fresh'
  OBVIOUS
<1> USE DEF TypeOK, Steps, Startup, Mutex, Critical, Progress, InForce, Now, Loads, Fresh,
        Pending, environment, live, caches, watcher, signals, history, Goto
<1>1. ASSUME NEW c \in Contents, Save(c) PROVE Fresh'
  BY <1>1 DEF Save
<1>2. CASE Delete
  BY <1>2 DEF Delete
<1>3. CASE Tick
  BY <1>3 DEF Tick
<1>4. CASE Baseline
  BY <1>4 DEF Baseline
<1>5. CASE Poll
  BY <1>5 DEF Poll
<1>6. CASE Hangup
  BY <1>6 DEF Hangup
<1>7. CASE TakeHangup
  BY <1>7 DEF TakeHangup
<1>8. ASSUME NEW r \in Reloaders, Reload(r) PROVE Fresh'
  <2>1. CASE Lock(r)
    BY <2>1 DEF Lock
  <2>2. CASE LoadFails(r)
    BY <2>2 DEF LoadFails
  <2>3. CASE Load(r)
    BY <2>3 DEF Load
  <2>4. CASE Update(r)
    BY <2>4 DEF Update
  <2>5. CASE Purge(r)
    BY <2>5 DEF Purge, Empty
  <2>6. CASE Publish(r)
    BY <2>6 DEF Publish
  <2>7. CASE CloseIdle(r)
    BY <2>7 DEF CloseIdle, Reset, Empty
  <2>8. CASE ClearDNS(r)
    BY <2>8 DEF ClearDNS, Reset, Empty
  <2>9. CASE ClearCerts(r)
    BY <2>9 DEF ClearCerts, Reset, Empty
  <2>10. CASE Unlock(r)
    BY <2>10 DEF Unlock
  <2> QED
    BY <1>8, <2>1, <2>2, <2>3, <2>4, <2>5, <2>6, <2>7, <2>8, <2>9, <2>10 DEF Reload
<1>9. ASSUME NEW k \in FillKinds, FillStart(k) \/ FillEnd(k) PROVE Fresh'
  BY <1>9 DEF FillStart, FillEnd
<1>10. CASE UNCHANGED vars
  BY <1>10 DEF vars
<1> QED
  BY <1>1, <1>2, <1>3, <1>4, <1>5, <1>6, <1>7, <1>8, <1>9, <1>10 DEF Next

-----------------------------------------------------------------------------
\* The invariant holds at first.
LEMMA InvInit == Init => Inv
<1> SUFFICES ASSUME Init PROVE Inv
  OBVIOUS
<1>1. TypeOK
  BY TypeInit
<1>2. Startup /\ Mutex
  BY DEF Init, Startup, Mutex, Critical
<1>3. Progress
  BY DEF Init, Progress, InForce, Now
<1>4. Versions
  BY DEF Init, Versions, Critical
<1>5. Fresh
  BY DEF Init, Fresh
<1> QED
  BY <1>1, <1>2, <1>3, <1>4, <1>5 DEF Inv

\* Every step preserves the invariant,
LEMMA InvStep == Inv /\ [Next]_vars => Inv'
  BY TypeStep, ControlStep, ProgressStep, VersionStep, FreshStep DEF Inv

\* which therefore always holds.
LEMMA Invariance == Spec => []Inv
  BY InvInit, InvStep, PTL DEF Spec

\* Outside a reload the table and the name servers come from one file content.
THEOREM CoherentConfig == Spec => []Coherent
<1>1. Inv => Coherent
  BY DEF Inv, Progress, InForce, Coherent
<1> QED
  BY <1>1, Invariance, PTL

\* A reload never replaces a newer content of the file by an older one.
THEOREM NewestWins == Spec => NoRollback
<1>1. Inv /\ [Next]_vars => [applied'.version >= applied.version]_vars
  <2> SUFFICES ASSUME Inv, [Next]_vars, applied' # applied
               PROVE applied'.version >= applied.version
    BY DEF Inv, TypeOK, Loads
  <2>1. PICK r \in Reloaders : Unlock(r)
    BY DEF Next, vars, Save, Delete, Tick, Baseline, Poll, Hangup, TakeHangup,
           Reload, Lock, LoadFails, Load, Update, Purge, Publish, CloseIdle,
           ClearDNS, ClearCerts, Reset, FillStart, FillEnd, history
  <2> QED
    BY <2>1 DEF Unlock, Inv, Versions, Critical, TypeOK, Loads
<1> QED
  BY <1>1, Invariance, PTL DEF Spec, NoRollback

\* What is stale outside a reload was in flight when the caches were reset.
THEOREM ResetLeavesOnlyInFlight == Spec => []StaleOnlyInFlight
<1>1. Inv => StaleOnlyInFlight
  <2> SUFFICES ASSUME Inv, mu = Nobody, NEW k \in Kinds
               PROVE derived[k] \subseteq carried[k] \cup {Now}
    BY DEF StaleOnlyInFlight
  <2>1. \A r \in Reloaders : pc[r] \notin Pending(k)
    BY DEF Inv, Mutex, Critical, Pending
  <2> QED
    BY <2>1 DEF Inv, Fresh
<1> QED
  BY <1>1, Invariance, PTL

\* A reload that changes neither routes nor name servers empties no cache.
THEOREM UnchangedKeepsCaches == Spec => KeepsUnchanged
<1>1. Inv /\ [Next]_vars =>
        [\A k \in Kinds :
           derived'[k] # derived[k] /\ derived'[k] = {} =>
             loaded[mu].routes # applied.routes \/ loaded[mu].servers # applied.servers]_vars
  <2> SUFFICES ASSUME Inv, [Next]_vars, NEW k \in Kinds,
                      derived'[k] # derived[k], derived'[k] = {}
               PROVE \/ loaded[mu].routes # applied.routes
                     \/ loaded[mu].servers # applied.servers
    OBVIOUS
  <2>1. PICK r \in Reloaders :
          pc[r] \in {"purge", "closeIdle", "clearDNS", "clearCerts"}
    <3> USE DEF caches
    <3>1. CASE \E q \in Reloaders : Reload(q)
      BY <3>1 DEF Reload, Lock, LoadFails, Load, Update, Purge, Publish,
                  CloseIdle, ClearDNS, ClearCerts, Reset, Unlock
    <3>2. ASSUME NEW j \in FillKinds, FillEnd(j) PROVE FALSE
      BY <3>2 DEF FillEnd, Inv, TypeOK
    <3> QED
      BY <3>1, <3>2 DEF Next, vars, Save, Delete, Tick, Baseline, Poll, Hangup,
                        TakeHangup, FillStart
  <2> QED
    BY <2>1 DEF Inv, Mutex, Critical, Progress
<1> QED
  BY <1>1, Invariance, PTL DEF Spec, KeepsUnchanged
=============================================================================
