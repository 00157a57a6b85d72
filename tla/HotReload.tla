------------------------------ MODULE HotReload ------------------------------
(***************************************************************************)
(* Hot reload of the configuration (src/internal/proxy/proxy.go).          *)
(*                                                                         *)
(* Three goroutines call Proxy.reload under one mutex: main once, inside   *)
(* New; WatchFile, when the stat of the file differs from the last one it  *)
(* saw; serveSignals, for each SIGHUP it takes from its channel.  A user   *)
(* saves and deletes the file at any moment, and requests keep filling the *)
(* state derived from the configuration (idle upstream connections,        *)
(* resolved addresses, issued certificates).                               *)
(*                                                                         *)
(* What a file says is abstracted to what reload tells apart: its size,    *)
(* whether config.Load accepts it, the fingerprint of its routes, and its  *)
(* name servers, which Update may refuse.                                  *)
(***************************************************************************)
EXTENDS Naturals, FiniteSets

CONSTANTS
  Contents,      \* what the file can hold: [size, ok, routes, servers]
  Fingerprints,  \* route.Table.Fingerprint() of the tables in Contents
  Nameservers,   \* normalised name server lists
  BadServers,    \* a list normalizeNameservers rejects
  SystemDNS,     \* the empty list New starts the resolver with
  NoTable,       \* the nil route table before the first reload
  FillKinds,     \* kinds of derived state that requests fill
  MaxSaves,      \* bound: saves of the file
  MaxClock,      \* bound: granules of the file's mtime
  EarlySave,     \* the file may be saved before WatchFile takes its first stat
  SameStamp,     \* two saves may fall in one granule of mtime
  ReadFaults     \* os.ReadFile may fail on a file that is there

Reloaders == {"main", "watch", "signal"}
Nobody == "nobody"
Kinds == {"idle", "dns", "certs"}

ASSUME ConstantsAssumption ==
  /\ Contents \subseteq [size: Nat, ok: BOOLEAN, routes: Fingerprints,
                         servers: Nameservers \cup {BadServers}]
  /\ BadServers \notin Nameservers
  /\ SystemDNS \in Nameservers
  /\ NoTable \notin Fingerprints
  /\ FillKinds \subseteq Kinds
  /\ MaxSaves \in Nat /\ MaxClock \in Nat
  /\ EarlySave \in BOOLEAN /\ SameStamp \in BOOLEAN /\ ReadFaults \in BOOLEAN

Tables == Fingerprints \cup {NoTable}
Files == [there: BOOLEAN, content: Contents, mtime: Nat, version: Nat]
Loads == [version: Nat, routes: Tables, servers: Nameservers \cup {BadServers}]
Tags == [routes: Tables, servers: Nameservers]

VARIABLES
  file,        \* [there, content, mtime, version]; version counts the saves
  clock,       \* the current granule of mtime
  mu,          \* the holder of reloadMu
  pc,          \* where each reloader is
  loaded,      \* per reloader: what its last config.Load returned
  changed,     \* per reloader: the local routesChanged of reload
  table,       \* Proxy.table: the fingerprint of the table in force
  nameservers, \* Resolver.current: the addresses in force
  derived,     \* per kind: under which configurations the entries were begun
  filling,     \* per kind: the same, of fills still in flight
  seen,        \* WatchFile's previousSize, previousModTime; {} when unknown
  hup,         \* a SIGHUP waits in sigCh, whose capacity is 1
  applied,     \* history: the file content the last successful reload read
  carried,     \* history, per kind: the fills in flight when it was last reset
  asked,       \* history: version of the file at the last SIGHUP
  read         \* history: version of the file at the last config.Load

vars == <<file, clock, mu, pc, loaded, changed, table, nameservers, derived,
          filling, seen, hup, applied, carried, asked, read>>

environment == <<file, clock>>
live == <<table, nameservers>>
caches == <<derived, filling, carried>>
watcher == <<seen>>
signals == <<hup, asked>>
history == <<applied, read>>

Steps == {"off", "baseline", "idle", "lock", "load", "update", "purge",
          "publish", "closeIdle", "clearDNS", "clearCerts", "unlock",
          "failed", "done", "fatal"}

\* The steps of reload between Lock and the deferred Unlock.
Critical == {"load", "update", "purge", "publish", "closeIdle", "clearDNS",
             "clearCerts", "unlock", "failed"}

Stamp == <<file.content.size, file.mtime>>
Now == [routes |-> table, servers |-> nameservers]
Serving == pc["main"] = "done"
Accepted(c) == c.ok /\ c.servers \in Nameservers

-----------------------------------------------------------------------------
Init ==
  /\ \E c \in Contents : file = [there |-> TRUE, content |-> c,
                                 mtime |-> 0, version |-> 1]
  /\ clock = 0
  /\ mu = Nobody
  /\ pc = [r \in Reloaders |-> IF r = "main" THEN "lock" ELSE "off"]
  /\ loaded = [r \in Reloaders |-> [version |-> 0, routes |-> NoTable,
                                    servers |-> SystemDNS]]
  /\ changed = [r \in Reloaders |-> FALSE]
  /\ table = NoTable
  /\ nameservers = SystemDNS
  /\ derived = [k \in Kinds |-> {}]
  /\ filling = [k \in Kinds |-> {}]
  /\ seen = {}
  /\ hup = FALSE
  /\ applied = [version |-> 0, routes |-> NoTable, servers |-> SystemDNS]
  /\ carried = [k \in Kinds |-> {}]
  /\ asked = 0
  /\ read = 0

-----------------------------------------------------------------------------
(* The user and the file system.                                           *)

Save(c) ==
  /\ file.version <= MaxSaves
  /\ EarlySave \/ pc["watch"] \notin {"off", "baseline"}
  /\ SameStamp \/ clock > file.mtime
  /\ file' = [there |-> TRUE, content |-> c, mtime |-> clock,
              version |-> file.version + 1]
  /\ UNCHANGED <<clock, mu, pc, loaded, changed, live, caches, watcher, signals, history>>

Delete ==
  /\ file.there
  /\ file.version <= MaxSaves
  /\ Serving
  /\ file' = [file EXCEPT !.there = FALSE]
  /\ UNCHANGED <<clock, mu, pc, loaded, changed, live, caches, watcher, signals, history>>

Tick ==
  /\ clock < MaxClock
  /\ clock' = clock + 1
  /\ UNCHANGED <<file, mu, pc, loaded, changed, live, caches, watcher, signals, history>>

-----------------------------------------------------------------------------
(* Who calls reload.                                                       *)

Goto(r, step) == pc' = [pc EXCEPT ![r] = step]

\* WatchFile's stat before its loop; previousKnown stays false if it fails.
Baseline ==
  /\ pc["watch"] = "baseline"
  /\ seen' = IF file.there THEN {Stamp} ELSE {}
  /\ Goto("watch", "idle")
  /\ UNCHANGED <<environment, mu, loaded, changed, live, caches, signals, history>>

\* Seeded fault: the mtime is not compared, only the size.
PollSizeOnly ==
  /\ pc["watch"] = "idle"
  /\ file.there
  /\ \A s \in seen : s[1] # file.content.size
  /\ seen' = {Stamp}
  /\ Goto("watch", "lock")
  /\ UNCHANGED <<environment, mu, loaded, changed, live, caches, signals, history>>

\* The snapshot is advanced before reload runs, whatever reload returns.
Poll ==
  /\ pc["watch"] = "idle"
  /\ file.there
  /\ seen # {Stamp}
  /\ seen' = {Stamp}
  /\ Goto("watch", "lock")
  /\ UNCHANGED <<environment, mu, loaded, changed, live, caches, signals, history>>

\* Seeded fault: sigCh has no buffer, a SIGHUP during a reload is lost.
HangupUnbuffered ==
  /\ pc["signal"] # "off"
  /\ ~hup \/ asked # file.version
  /\ hup' = (hup \/ pc["signal"] = "idle")
  /\ asked' = file.version
  /\ UNCHANGED <<environment, mu, pc, loaded, changed, live, caches, watcher, history>>

\* signal.Notify never blocks: while one SIGHUP waits, another is dropped.
Hangup ==
  /\ pc["signal"] # "off"
  /\ ~hup \/ asked # file.version
  /\ hup' = TRUE
  /\ asked' = file.version
  /\ UNCHANGED <<environment, mu, pc, loaded, changed, live, caches, watcher, history>>

TakeHangup ==
  /\ pc["signal"] = "idle"
  /\ hup
  /\ hup' = FALSE
  /\ Goto("signal", "lock")
  /\ UNCHANGED <<environment, mu, loaded, changed, live, caches, watcher, asked, history>>

-----------------------------------------------------------------------------
(* Proxy.reload.                                                           *)

\* Seeded fault: reload without reloadMu.
LockUnchecked(r) ==
  /\ pc[r] = "lock"
  /\ mu' = r
  /\ Goto(r, "load")
  /\ UNCHANGED <<environment, loaded, changed, live, caches, watcher, signals, history>>

Lock(r) ==
  /\ pc[r] = "lock"
  /\ mu = Nobody
  /\ mu' = r
  /\ Goto(r, "load")
  /\ UNCHANGED <<environment, loaded, changed, live, caches, watcher, signals, history>>

\* config.Load: the file cannot be read, or its content is not a valid table.
LoadFails(r) ==
  /\ pc[r] = "load"
  /\ ~file.there \/ ~file.content.ok \/ ReadFaults
  /\ read' = file.version
  /\ Goto(r, "failed")
  /\ UNCHANGED <<environment, mu, loaded, changed, live, caches, watcher, signals, applied>>

Load(r) ==
  /\ pc[r] = "load"
  /\ file.there /\ file.content.ok
  /\ read' = file.version
  /\ loaded' = [loaded EXCEPT ![r] = [version |-> file.version,
                                      routes |-> file.content.routes,
                                      servers |-> file.content.servers]]
  /\ Goto(r, "update")
  /\ UNCHANGED <<environment, mu, changed, live, caches, watcher, signals, applied>>

\* Seeded fault: the name servers are not validated.
UpdateUnvalidated(r) ==
  /\ pc[r] = "update"
  /\ changed' = [changed EXCEPT ![r] = table # loaded[r].routes]
  /\ nameservers' = loaded[r].servers
  /\ Goto(r, IF loaded[r].servers # nameservers THEN "purge"
             ELSE IF changed'[r] THEN "publish" ELSE "unlock")
  /\ UNCHANGED <<environment, mu, loaded, table, caches, watcher, signals, history>>

\* Seeded fault: the table is stored before the name servers are validated.
UpdateTableFirst(r) ==
  /\ pc[r] = "update"
  /\ changed' = [changed EXCEPT ![r] = table # loaded[r].routes]
  /\ table' = loaded[r].routes
  /\ \/ /\ loaded[r].servers = BadServers
        /\ Goto(r, "failed")
        /\ UNCHANGED nameservers
     \/ /\ loaded[r].servers # BadServers
        /\ nameservers' = loaded[r].servers
        /\ Goto(r, IF changed'[r] \/ nameservers' # nameservers
                   THEN "purge" ELSE "unlock")
  /\ UNCHANGED <<environment, mu, loaded, caches, watcher, signals, history>>

\* Seeded fault: the caches are reset even if nothing changed.
UpdateAlwaysResets(r) ==
  /\ pc[r] = "update"
  /\ changed' = [changed EXCEPT ![r] = table # loaded[r].routes]
  /\ IF loaded[r].servers = BadServers
     THEN Goto(r, "failed") /\ UNCHANGED nameservers
     ELSE Goto(r, "purge") /\ nameservers' = loaded[r].servers
  /\ UNCHANGED <<environment, mu, loaded, table, caches, watcher, signals, history>>

\* The comparison of fingerprints and Resolver.Update up to its Store.
Update(r) ==
  /\ pc[r] = "update"
  /\ changed' = [changed EXCEPT ![r] = table # loaded[r].routes]
  /\ \/ /\ loaded[r].servers = BadServers
        /\ Goto(r, "failed")
        /\ UNCHANGED nameservers
     \/ /\ loaded[r].servers = nameservers
        /\ Goto(r, IF changed'[r] THEN "publish" ELSE "unlock")
        /\ UNCHANGED nameservers
     \/ /\ loaded[r].servers \notin {BadServers, nameservers}
        /\ nameservers' = loaded[r].servers
        /\ Goto(r, "purge")
  /\ UNCHANGED <<environment, mu, loaded, table, caches, watcher, signals, history>>

\* Every entry of kind k goes; a fill in flight is not recalled.
Empty(k) ==
  /\ derived' = [derived EXCEPT ![k] = {}]
  /\ carried' = [carried EXCEPT ![k] = filling[k]]
  /\ UNCHANGED filling

\* The end of Resolver.Update: the cache of addresses is cleared.
Purge(r) ==
  /\ pc[r] = "purge"
  /\ Empty("dns")
  /\ Goto(r, IF changed[r] THEN "publish" ELSE "closeIdle")
  /\ UNCHANGED <<environment, mu, loaded, changed, live, watcher, signals, history>>

Publish(r) ==
  /\ pc[r] = "publish"
  /\ table' = loaded[r].routes
  /\ Goto(r, "closeIdle")
  /\ UNCHANGED <<environment, mu, loaded, changed, nameservers, caches, watcher, signals, history>>

\* One call of resetCaches.
Reset(r, step, kind, next) ==
  /\ pc[r] = step
  /\ Empty(kind)
  /\ Goto(r, next)
  /\ UNCHANGED <<environment, mu, loaded, changed, live, watcher, signals, history>>

\* Seeded fault: the addresses survive a change of the routes.
ClearDNSForgotten(r) ==
  /\ pc[r] = "clearDNS"
  /\ Goto(r, "clearCerts")
  /\ UNCHANGED <<environment, mu, loaded, changed, live, caches, watcher, signals, history>>

CloseIdle(r) == Reset(r, "closeIdle", "idle", "clearDNS")
ClearDNS(r) == Reset(r, "clearDNS", "dns", "clearCerts")
ClearCerts(r) == Reset(r, "clearCerts", "certs", "unlock")

\* The deferred Unlock and what the caller does with the result: New starts
\* the process or ends it, the two loops go on either way.
Unlock(r) ==
  /\ pc[r] \in {"unlock", "failed"}
  /\ mu' = Nobody
  /\ applied' = IF pc[r] = "unlock" THEN loaded[r] ELSE applied
  /\ pc' = IF r # "main" THEN [pc EXCEPT ![r] = "idle"]
           ELSE IF pc[r] = "failed" THEN [pc EXCEPT !["main"] = "fatal"]
           ELSE [main |-> "done", watch |-> "baseline", signal |-> "idle"]
  /\ UNCHANGED <<environment, loaded, changed, live, caches, watcher, signals, read>>

Reload(r) ==
  \/ Lock(r) \/ LoadFails(r) \/ Load(r) \/ Update(r) \/ Purge(r) \/ Publish(r)
  \/ CloseIdle(r) \/ ClearDNS(r) \/ ClearCerts(r) \/ Unlock(r)

-----------------------------------------------------------------------------
(* Requests: a fill reads the configuration when it begins, stores later.  *)

FillStart(k) ==
  /\ Serving
  /\ filling[k] = {}
  /\ filling' = [filling EXCEPT ![k] = {Now}]
  /\ UNCHANGED <<environment, mu, pc, loaded, changed, live, derived, carried,
                 watcher, signals, history>>

FillEnd(k) ==
  /\ filling[k] # {}
  /\ derived' = [derived EXCEPT ![k] = @ \cup filling[k]]
  /\ filling' = [filling EXCEPT ![k] = {}]
  /\ UNCHANGED <<environment, mu, pc, loaded, changed, live, carried,
                 watcher, signals, history>>

-----------------------------------------------------------------------------
Next ==
  \/ \E c \in Contents : Save(c)
  \/ Delete \/ Tick
  \/ Baseline \/ Poll \/ Hangup \/ TakeHangup
  \/ \E r \in Reloaders : Reload(r)
  \/ \E k \in FillKinds : FillStart(k) \/ FillEnd(k)

Spec == Init /\ [][Next]_vars

\* The goroutines run; sync.Mutex hands itself over to a starving waiter.
Fairness ==
  /\ WF_vars(Baseline) /\ WF_vars(Poll) /\ WF_vars(TakeHangup)
  /\ \A r \in Reloaders : SF_vars(Lock(r)) /\ WF_vars(Reload(r))

FairSpec == Spec /\ Fairness

-----------------------------------------------------------------------------
(* Properties.                                                             *)

\* Every variable keeps its type.
TypeOK ==
  /\ file \in Files
  /\ clock \in Nat
  /\ mu \in Reloaders \cup {Nobody}
  /\ pc \in [Reloaders -> Steps]
  /\ loaded \in [Reloaders -> Loads]
  /\ changed \in [Reloaders -> BOOLEAN]
  /\ table \in Tables
  /\ nameservers \in Nameservers
  /\ derived \in [Kinds -> SUBSET Tags]
  /\ filling \in [Kinds -> SUBSET Tags]
  /\ seen \subseteq Nat \X Nat
  /\ hup \in BOOLEAN
  /\ applied \in Loads
  /\ carried \in [Kinds -> SUBSET Tags]
  /\ asked \in Nat
  /\ read \in Nat

\* While no reload runs, the route table and the name servers in force come
\* from one and the same file content, the one the last successful reload
\* read: a reload that fails half way leaves neither of them behind.
Coherent ==
  mu = Nobody => Now = [routes |-> applied.routes, servers |-> applied.servers]

\* A reload never puts an older content of the file in force over a newer
\* one, however WatchFile and SIGHUP interleave (the comment at reloadMu).
NoRollback == [][applied'.version >= applied.version]_vars

\* While no reload runs, whatever is cached was begun under the configuration
\* in force, or was in flight when resetCaches last ran: it cannot recall
\* a fill that has read the old configuration and not stored its result yet.
StaleOnlyInFlight ==
  mu = Nobody =>
    \A k \in Kinds : derived[k] \subseteq carried[k] \cup {Now}

\* A cache is emptied only by a reload whose content differs from the one in
\* force; one that finds neither routes nor name servers changed keeps them.
KeepsUnchanged ==
  [][\A k \in Kinds :
       derived'[k] # derived[k] /\ derived'[k] = {} =>
         loaded[mu].routes # applied.routes \/ loaded[mu].servers # applied.servers]_vars

\* Once the file is left alone, what it says is in force for good, if it
\* is there and valid (README: changes are loaded without a restart).
Converges ==
  <>[](Serving /\ file.there /\ Accepted(file.content) =>
         Now = [routes |-> file.content.routes, servers |-> file.content.servers])

\* After a SIGHUP some reload reads the file as it was then, or later, even
\* when the signal is dropped because another one is still waiting.
HangupServed == \A v \in 1..(MaxSaves + 1) : asked = v ~> read >= v
=============================================================================
