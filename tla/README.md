# Verification of MyReverseProxy (mrp)

TLA+ models of mrp, the single-port debugging proxy of this repository, the TLC
configurations that check them on small instances, and proofs that TLAPS
checks. Paths are relative to the repository; `proxy.go:91` stands for
`internal/proxy/proxy.go` and so on, `main.go` for `cmd/mrp/main.go`.

## 1. The system

A client uses mrp as its HTTP proxy. A plain request is matched against the
route table by protocol, port, domain and longest path prefix, and forwarded,
answered or passed through. A CONNECT is a blind tunnel, or, when its target
has an entry in the table, a TLS server inside the tunnel with a certificate
signed on the spot. The table comes from a YAML file that is reloaded while the
proxy runs.

| part | code | state | operations |
|---|---|---|---|
| start-up | `main.go`, `config.Ensure`, `ca.Load` | the files it finds and makes; the port | parse options, listen, create the default file, load the CA pair, `buildProxy` |
| hot reload | `proxy.go` | route table (atomic pointer), `reloadMu`, the watcher's snapshot of size and mtime | `New`, `reload`, `resetCaches`, `WatchFile`, `Reload` |
| configuration | `config.go` | none | `Load`, `Parse`, `buildTable` and its validation |
| route table | `route.go` | domain -> entries -> routes, read-only once built | `Add`, `Pick`, `Has`, `Fingerprint`, `InstallHandlers` |
| requests | `proxy/target.go`, `proxy.go`, `route/target.go`, `path.go`, `handler.go` | none but the connection they come on | what a request asks for (`targetOf`), what answers it (`serveRequest`), what goes upstream (`OutboundURL`, `buildOutPath`) |
| resolver | `resolver.go` | name servers in force (atomic pointer), cache of addresses, `inflight` | `DialContext`, `lookup`, `begin`, `finish`, `resolve`, `Update`, `ClearCache` |
| authority | `ca.go` | cache of certificates, `inflight` | `GetCertificate`, `begin`, `end`, `sign`, `ClearCache` |
| cache | `cache.go` | map with expiry, under a mutex | `Get`, `Put`, `Evict`, `Clear` |
| connections | `frontend.go`, `connect.go` | per connection: server, hijacker; a `WaitGroup` | `Serve`, `ServeSingleConn`, `handleConnect`, `serveConnect` |
| blind tunnel | `connect.go` | two sockets, two copies, what net/http has read ahead | `hijackConn`, `tunnel`, `BufferedConn` |
| shutdown | `main.go` | channel of signals (capacity 1), `serveDone` | `run`, `serveSignals`, `drainConnections` |
| log, test support, `mrp.hta` | | | lines of text, test doubles, a Windows deployment panel |

How they interact. Three goroutines may reload: main (once, in `New`), the
watcher, and main again for each SIGHUP. A reload writes the table and the name
servers, then empties three caches of derived state (idle upstream connections,
addresses, certificates), while requests read the former and fill the latter.
Each connection has a goroutine in `Serve`; CONNECT hijacks the connection out
of its `http.Server` and goes on in the handler's goroutine, with a second server
inside for a MITM. The shutdown waits for the goroutines of `Serve`.

What is hard to test: the interleavings of reloads with each other and with
fills in flight; the single flight of the resolver and of the authority when
leaders fail, panic or time out; who closes a connection that was handed on;
two copies of a tunnel that end each other; requests on a connection that
outlives the table it began with; a process that dies while it creates its
configuration; signals that arrive together or during the drain; and what is
lost when a stat, a read or a name server fails at the wrong moment. `PROJECT.json` lists
these hazards line by line with the properties that cover them.

What makes each part correct:

- hot reload: table and name servers in force always stem from one file content
  (`Coherent`), never from an older one than before (`NoRollback`), nothing stale
  outlives a reset except a fill in flight (`StaleOnlyInFlight`), an unchanged
  file disturbs nothing (`KeepsUnchanged`), and what is saved or asked for is
  loaded in the end (`Converges`, `HangupServed`);
- cache: bounded (`SizeBounded`), a hit is the last value put and still good
  (`HitIsLastPut`), and only a full cache forgets (`LostOnlyWhenFull`);
- resolver and authority: a single flight (`ImplementsSingleFlight`), one leader
  at work per key (`OneQueryPerHost`, `OneSigner`) and none without need
  (`NoNeedlessSigning`), never a nil result without an error (`NoNilConn`,
  `NilOnlyAfterPanic`), a stale address only from a lookup that was in flight
  (`StaleFromInFlight`), and everyone returns (`EveryDialEnds`, `HandshakeEnds`);
- connections: closed once nobody uses them and not before (`NotClosedInUse`,
  `NoLeak`); shutdown: it covers what was accepted (`DrainCoversServed`) and it
  ends (`ExitTaken`);
- tunnel: each direction is a stream (`ImplementsStreams`) that does not wait for
  the other (`Independent`), the last word arrives (`LastWordArrives`), and both
  copies end (`WindsDown`);
- requests: each gets the route that the configuration in force declares for it
  (`AnswersAsConfigured`), what is routed is decrypted (`RoutedIsDecrypted`), what
  is not routed leaves for the server it was meant for, by the scheme it came
  with (`PassedToTarget`), and what goes upstream keeps its path
  (`PathCarriedOver`);
- start-up: it writes over nothing that a user saved (`KeepsUserFile`), and it ends
  in serving unless one of the named causes keeps it from that (`StartServes`).

## 2. The modules

| module | models | composes |
|---|---|---|
| `HotReload` | `New`, `reload`, `resetCaches`, `WatchFile`, SIGHUP, the file | |
| `Cache` | the methods of `cache.go` as operators on the map of entries | |
| `CacheStore` | one cache shared by goroutines, each method one step | extends `Cache` |
| `SingleFlight` | abstract: what merging concurrent work promises | |
| `Resolver` | dialling by name and a reload beside it | instantiates `Cache`; implements `SingleFlight` |
| `Authority` | signing on demand and resets beside it | instantiates `Cache`; implements `SingleFlight` |
| `Serving` | accept loop, servers, CONNECT, signals, drain | |
| `Stream` | abstract: one direction of a connection | |
| `Tunnel` | the two copies of a blind tunnel, its ends and sockets | implements `Stream` twice |
| `RouteTable` | building, matching, fingerprinting and replacing the route table | |
| `Forwarding` | what becomes of the requests of a client while the table changes | extends `RouteTable` |
| `Startup` | from `main` to serving, with crashes, restarts and a user who edits | |

`MC<module>` holds the values of the constants for TLC. `<module>Proofs` holds the
theorems about a module and their proofs. Operators marked "Seeded fault" are
wrong versions of the definition that follows them; with the fault in its place
TLC must refute a property. They are not part of any specification.

### HotReload

`pc[r]` says where reloader `r` (`main`, `watch` or `signal`) is; the steps
between `Lock` and `Unlock` follow `reload` statement by statement, split where
another goroutine can see the difference: reading the file, storing the name
servers, clearing the addresses, storing the table, each call of `resetCaches`.
`file` changes at any moment. A content is reduced to its size, whether it makes
a valid table, the fingerprint of the table and the normalised name servers;
`RouteTable` is about what a fingerprint stands for. `derived` and `filling`
say, for each cache, under which configuration its entries, and the fills that
have not stored yet, were begun. A fill of any of the three caches reads the
configuration when it starts and stores later, which is all the property asks
about; the code mapped to it is the resolver's. `seen` is the watcher's snapshot,
advanced before the reload as in `proxy.go:198`. `hup` is the one place of `sigCh`.
`applied`, `carried`, `asked` and `read` are history variables for the properties.

### Cache and CacheStore

Every method holds the mutex from its first statement to its last, so each is
one step. `Get` deletes what it finds expired, `Put` empties a full map before it
stores, whether or not the key is in it, and stores nothing for a TTL that is not
positive. Time is an integer.

### SingleFlight, Resolver, Authority

`SingleFlight` says what both `begin`s promise, whatever the work is: who asks for a
key while a call for it is in flight takes part in that call; a call leaves the
flight before its result is published; it is published once, and everyone who
goes on with a result goes on with that one.

`Resolver` has one pc per goroutine in `DialContext`. The steps are those between
which others can act: the look into the cache, `begin` under its mutex, the wait,
the load of the name servers (`Ask`: `resolve` evaluates `current.Load()` once), each
attempt, the three parts of `finish`, `Put`, the connection, the eviction and the
second round. The addresses of an answer are the generation of name servers that
gave it; a literal address needs none. The hosts of the model are the keys of the
code, host and port together. `Update` is two steps (store, clear), `ClearCache` of
`resetCaches` a third. In the refinement a call is `<<dialer, round>>`; it is published
when `done` is closed, and a follower whose context expires takes part and gets
nothing.

`Authority` has one pc per handshake. `Sign` succeeds, fails or panics; the deferred
`end` runs in every case, with the named results as they are then (nil and nil
after a panic). The second look at the cache is the step `Recheck`; `deliver` and
the closing of `done` are separate steps.

### Serving

`server[c][l]` is the `ServeSingleConn` of level `l` on connection `c`: level 1 is
started by `Serve`, level `l + 1` by the CONNECT handler of level `l`; `handler[c][l]` is
that handler after its hijack. `open` is what the proxy has not closed. `main` is
the goroutine of `serveSignals`, through close, `serveDone`, drain and exit; the two
exit signals are one. Which branch `serveConnect` takes is a choice in `Dispatch`: the
table, which decides it, is the matter of `Forwarding`. Requests other than CONNECT
change nothing here, and a tunnel is one step each way: `Tunnel` has its details.

### Stream and Tunnel

`Tunnel` is one blind tunnel from the hijack on: the handler's goroutine (dial,
answer, copy from the host, the deferred closes) and the goroutine that copies
from the client. Each copy reads one chunk and writes it before it reads the next;
the chunks of an end are numbered. `ahead` is what the `bufio.Reader` of the hijacked
connection already holds: the client sent it right behind its CONNECT. Sockets are
queues of at most `Window` chunks in either direction; a write to a full one waits.
The ends are external: each may send, stop sending, go away altogether, or simply
not read. A socket that the proxy closes with unread data in it is reset, and what
was on its way to that end may be lost, which is what TCP does.

`Stream` is what one direction promises. It may end before all was received, but
not before an end has closed; that is the code's promise, and weaker than the one
of a direct connection (see Divergences).

### RouteTable and Forwarding

A configuration is met server by server, as `buildTable` does; the first error
drops the table, the end publishes it unless its fingerprint is that of the table
in force; `ParseTarget` decides what an upstream is. The loops of `buildTable` and
`Pick` are recursive functions of the number of iterations (`Tables`, `OfRoutes`,
`OfEntries`), so that a proof can speak of the table, or of the best route, after so
many of them. Text is a sequence of symbols, elements of the constant `Strings`,
since boundaries of path segments matter. What trimming and lower-casing make of a
domain, a protocol and a prefix are the functions `Normal`, `Folded` and `Trimmed`, about
which nothing is assumed but their types; an upstream is the record of what is left
when it has been trimmed. `AnswersAsConfigured` compares `Pick` on the table in force
with a definition over the configuration itself, so it covers validation, `Add`,
`Pick`, `pathHasPrefix` and the decision of `reload` by fingerprint together. The
fingerprint is built field by field with its separators, the empty ones of Host and
headers included, so that two tables could collide in the model if they could in
the code. `Legible` says when they do not: no text of the file contains the separator
(a NUL, which YAML can write as an escape and the code does not refuse), and no domain
begins like a prefix.

`Forwarding` adds a client that uses one connection after another. `Connect` is
`handleConnect` and `serveConnect`: by host alone, it makes the connection a tunnel,
a TLS connection of the same handler, or ends it with a 502 when there is no CA.
`Serve` is `serveRequest` and `routeHandler` with `targetOf`, `passthroughURL`,
`OutboundURL` and `buildOutPath`. `last` records the last request and what was done
with it. An encoded path has `%2F` and `%20` as symbols of their own; `EscapedPath` is
what `net/url` makes of `Path` and `RawPath`. A reload may come before each request.

### Startup

One pc per process, from `off` to `serving`. The order is that of `main`: options,
listening, then `buildProxy` with `Ensure`, `ca.Load` and the first load. `Ensure` is the
look (`Stat`) and `os.WriteFile`, which first makes the file empty and then writes it; a
crash comes at any step. Each operation on the file system may be refused (`Refuse`):
`Stat` fails otherwise than by finding nothing, a file cannot be opened for writing, the
disk is full, the configuration or the CA pair cannot be read; each ends the start, but
for a `Stat` of the CA pair, which `fileExists` takes for a missing file. The user saves
good, bad or no files. Two processes share the directory, and the port if their options
say so. `cut`, `raced` and `refused` are histories: the file is what an interrupted
creation left; these processes found no file before the last edit; the file system
refused something to the present start of these.

`Hindered` is the whole list of what may keep a process that got its port from serving;
that a file named by `--config` is missing is on it, which is a divergence (see there).

## 3. The runs

Passing runs:

| run | bounds | shows |
|---|---|---|
| `HotReloadSafety` | 5 contents, 1 save or deletion after the first content, failing reads, fills of idle connections and addresses | `Coherent`, `StaleOnlyInFlight`, `NoRollback`, `KeepsUnchanged` |
| `HotReloadLive` | 5 contents, 2 saves with distinct stamps, after the watcher's first stat | `Converges`, `HangupServed` |
| `Cache` | 3 keys, 2 values, capacity 2, TTL 2, 5 instants | `SizeBounded`, `HitIsLastPut`, `LostOnlyWhenFull` |
| `Resolver` | 2 dialers of 1 host, 2 generations of 2 and 1 name servers, faults, deadlines, expiry | `OneQueryPerHost`, `NoNilConn`, `StaleFromInFlight`, `EveryDialEnds`, `ImplementsSingleFlight` |
| `Authority` | 3 clients, 2 names in a cache of 1, faults, panics, resets | `OneSigner`, `NoNeedlessSigning`, `NilOnlyAfterPanic`, `HandshakeEnds`, `ImplementsSingleFlight` |
| `Serving` | 2 connections, 2 levels, 2 signals | `DrainCoversServed`, `NotClosedInUse`, `NoLeak`, `ExitTaken` |
| `Forwarding` | 75 configurations of at most 2 servers (8 valid, 14 refused ones), 32 requests, 9 paths, any number of reloads and connections | `AnswersAsConfigured`, `RoutedIsDecrypted`, `PassedToTarget`, `PathCarriedOver` |
| `Tunnel` | 2 chunks each way, sockets of 1, at most one chunk read ahead | `LastWordArrives`, `ImplementsStreams`, `Independent`, `WindsDown` |
| `Startup` | 2 processes with 5 options, 2 starts each, 1 edit, any number of crashes and of refusals by the file system | `KeepsUserFile`, `StartServes` |

Each of them also checks the `TypeOK` of its module, except `HotReloadLive` and
`Startup`.

Why these bounds are enough. Two reloaders that overlap and one save between their
reads make every rollback; the third reloader only starts the other two. A fill of
one cache never touches another, so two of the three kinds are filled. Lookups of
different hosts share nothing but the cache, which `Cache` checks with more keys than
places; two dialers of one host are a leader and a follower, or two leaders one
after the other, and each may come through `lookup` twice. A third handshake is a
follower that is neither the leader nor the leader's successor, which is where
calls get mixed up. A cache one smaller than the number of keys fills, and a TTL below
the last instant expires. Two levels nest a CONNECT once, so ownership moves twice.
Two signals fill the channel and overflow it. Two servers are the fewest that tie
or collide; prefixes longer than two segments add no case of `pathHasPrefix`. A
tunnel with sockets of one chunk blocks at once, and two chunks are the fewest of
which one can be received while another is lost. One edit makes a race with a
creation, two starts a retry after a crash. What the theorems of section 4 state
holds for every value of these bounds.

### The runs that end in a violation

| run | statement of the repository | what the code does |
|---|---|---|
| `HotReloadEarlySave` | changes are loaded automatically (`README.md:145`) | a save between the first reload and the watcher's first stat is taken for the loaded one |
| `ServingExitLost` | an exit signal ends the process (`main.go:133`) | it is dropped while a SIGHUP waits in the channel |
| `ForwardingEscapedSlash` | two parts are joined without a double slash or a lost one (`path.go:35`) | of `/api` to `http://up/v1`, `/api%2Fx` goes out as `/v1%2Fx`: the decoded rest chooses the slash, the encoded rest lacks it |

### Divergences

Other places where the code does not do what a comment or a document says, which
were met on the way and have no run of their own:

- the drain waits for "all active connections" (`main.go:173`), but `Serve` counts a
  connection only until its handler hijacks it: tunnels and TLS connections inside a
  CONNECT end with the process (`main.go:177`). `DrainCoversServed` says what the
  drain does cover;
- a signal of any kind ends the drain, a SIGHUP too (`main.go:185`), where the comment
  speaks of an exit signal;
- equal prefixes are refused as a conflict (`.monkeycode/specs/mrp/design.md:227`) only
  within one server; a server for any protocol or port and one for a specific protocol
  or port may tie, and the first in the file wins (`route.go:88`, `AnswersAsConfigured`);
- a tunnel is said to be equivalent to a direct connection
  (`.monkeycode/specs/mrp/design.md:230`), but whichever copy ends first ends the
  other, so an end that half-closes and goes on reading may be cut off
  (`connect.go:100`; `.monkeycode/MEMORY.md:68` warns of it); `LastWordArrives` says what
  is safe;
- a reload changes nothing about a tunnel that is open: the host it goes to may have
  got a route since (`README.md:22` promises the new rules at once);
- a configuration file that is missing is said to be created (`README.md:162`, and
  the help of the flag at `main.go:49`), but one that `--config` names is not: `Ensure` is
  called only without that option (`main.go:85`), so such a start fails in the first load.
  `Ensure` and `StartServes` follow the code;
- expired entries do count towards the capacity of the cache until their own key is
  read (`cache.go:25` says otherwise);
- a lookup in flight at a reload stores an old address after `ClearCache`
  (`StaleFromInFlight` says exactly how much of the comment at `resolver.go:228` holds);
- two dialers may send two queries one after the other, since `finish` comes before
  `Put` and a leader does not look at the cache again (`resolver.go:37`);
- a cached certificate is kept a little beyond its own NotAfter (`ca.go:89`);
- a read that fails once is not repeated, since the snapshot has moved on
  (`proxy.go:198`);
- connections that are kept alive follow the reload, where
  `.monkeycode/specs/server-port-protocol/design.md:32` says they do not;
- a server without routes makes CONNECT decrypt its host (`route.go:113`).

Deadlock is not checked where the system stops by design: each dialer and each
client acts once, the process ends when main returns, a failed first reload is
fatal, a tunnel ends, a process starts no more often than its bound. Liveness
properties take over that question there.

### Fairness

- HotReload: weak fairness of the watcher's polls, of taking a SIGHUP and of each
  step of a reload, since goroutines are scheduled and reading a file ends; strong
  fairness of `Lock`, since `sync.Mutex` hands itself to a waiter that starves.
  Nothing is assumed of saves and signals.
- Resolver: weak fairness of each dialer's steps; queries and connection attempts
  end by `AttemptTimeout` and the dialer's timeout. Contexts may expire and are never
  made to.
- Authority: weak fairness of each handshake's steps; signing is a computation.
- Serving: weak fairness of main, whose grace period runs out, and of the accept
  loop. Nothing is assumed of clients or upstreams.
- Tunnel: weak fairness of the handler (the dial ends by its timeout) and of each
  copy. Nothing in `Spec` makes an end send, receive or close. That an end goes on
  receiving is the antecedent of `Independent`, for the one that must, and of
  `WindsDown`; without it a full socket keeps a copy waiting for as long as the end
  likes.
- Startup: weak fairness of a process that runs; nothing makes one start, crash or
  be edited under.

## 4. The proofs

TLAPS checks the following for every value of the constants that satisfies the
assumptions of the modules. An invariant that a run checks is seldom inductive; each
module has an `IInv` that is, whose parts are named, and one proof step per action
for its preservation. Action properties and refinements follow from it in the
state the step starts from.

- `HotReloadProofs`: `TypeCorrect`, `CoherentConfig`, `NewestWins`,
  `ResetLeavesOnlyInFlight`, `UnchangedKeepsCaches`.
- `CacheProofs`: `TypeCorrect`, `NeverOutgrows`, `HitsAreCurrent`, `LostWhenFull`.
- `AuthorityProofs`: `TypeCorrect`, `OneSignerPerName`, `NeverSignsTwice`, `NilMeansPanic`,
  `SigningIsSingleFlight`.
- `ResolverProofs`: `TypeCorrect`, `OneQueryAtATime`, `WokenFindResult`, `ConnOrError`,
  `StaleOnlyFromInFlight`, `LookupIsSingleFlight`.
- `ServingProofs`: `TypeCorrect`, `NeverClosedInUse`, `NothingLeaks`,
  `CompleteMeansServed`.
- `TunnelProofs`: `TypeCorrect`, `TunnelIsStreams`, `LastWord`.
- `ForwardingProofs`: `TypeCorrect`, `Apart`, `Configured`, `DecryptedWhereRouted`,
  `PassedAsMeant`, `PathKept`.
- `StartupProofs`: `UserFileSpared`.

The argument for the reload. None of the properties is inductive: `Coherent`
says nothing while the mutex is held. `Inv` adds what holds within a reload:

- `Startup`: the watcher and the signal loop exist only after `New` returned;
- `Mutex`: a reloader is between `Lock` and `Unlock` exactly if it holds `reloadMu`;
- `Progress`: for each step of the holder, which of table and name servers is
  already that of `loaded`, and which still that of `applied`; a failing reload has
  changed neither;
- `Versions`: `applied`, what the holder has loaded and the file are of versions in
  this order, since the holder alone moves `applied` and saves only count up;
- `Fresh`: for each cache, at which step of the holder it has been reset, so that
  what it holds is of the configuration in force or was in flight then.

For the cache, `SizeBounded` follows from types and the finiteness of the map: a full
map is emptied, and one entry is added to one that is not. `HitsAreCurrent` rests on
the invariant that each entry is the last put of its key with that put's time
plus the TTL, since `Put`, `Evict` and `Clear` change the entry and the history
together. `LostWhenFull` is an action property of the same invariant: of the
operations, only `Put` can drop a valid entry that was not put away on purpose, and
it does so only by emptying the map, which the bound says is exactly full then.

For the two single flights, the same ideas. `Flights`: a call is in flight exactly
while its leader is between `begin` and `end` (`finish`), so a second leader of the key
would be the first. `Parts`: who takes part in which call, and a leader in its own.
What a call holds equals what its leader returns, from the moment `done` is closed
(`Results` in the authority, `Answers`, `Assigned` and `Landed` in the resolver), so
publication and receipt map to those of `SingleFlight`. `Nils` carries a panic to those
who waited for it. `NoNeedlessSigning` is part of the invariant: between `Recheck` and
`Put` only the leader of a name stores a certificate of it. `Placed` says where a dialer
may be with which locals, since it may come through `lookup` twice, and `Fresh` that a
lookup under way has asked the name servers in force or was under way at the reset.

For the connections, a connection is a stack of levels. `Nested`: an inner level
exists only within a handler that started it. `Handed`: while a level is in use the
handlers around it wait, so none of them closes; this is what `NotClosedInUse` needs.
`Held`: an open connection is at some level that will close it (`NoLeak`). `Pending`,
`Counted` and `Draining`: the `WaitGroup` is the number of first servers that run, and
the drain begins after the accept loop has returned.

For the tunnel, `Delivered`: what an end has got and finds in its socket is a run of
numbers without a gap, after the answer to the CONNECT. `Whole`: as long as the
receiving end is there, the run goes on through the hand of the copy, the reader of
net/http and the socket it came by, so that the next chunk written is the next
number. What is written to an end that has gone may be lost, and then nothing is
delivered to it any more: that is why `Whole` has its condition. `Ending`: the proxy
closes a socket only after an end has closed, or before any tunnel existed.
`Answered`: the answer comes first. `LastWord` asks in addition which copy ended first,
and what it left behind. `Bounded`: no more chunks are on the way, or written, than
the end has sent. `ClientLast` and `HostLast`, for the case in which one end alone has
closed and still receives: the copy from that end has written all it was sent before
it is over, or its peer has sent in vain, and until then the other copy has not closed
what it writes to.

For the route table, what a loop computes is shown by induction on its iterations: the
least number of a set of counterexamples (`UpTo`), since the library's induction
theorems cannot be instantiated here. Three invariants:

- `Sound`: every route of the table in force was validated, has a target exactly if it
  has no status, and this target is one that `ParseTarget` gives (`TypeCorrect`, and
  `DecryptedWhereRouted`, since a route that `Pick` finds is in an entry that matches).
- `Published`: the table in force is what `buildTable` makes of the configuration that
  was accepted last. Given that, `Configured` says that the two loops of `Pick` on a table
  built by a third one agree with the definition over the configuration: after so many
  servers, entries and routes, the best route is the first of the longest of those
  declared so far (`OverServers`, `OverAppended`, `OverServer`).
- `Published` survives a reload that is skipped for its fingerprint only if the table in
  force would have been built again, which is `Apart`: the fingerprint can be read back.
  A field ends at the first NUL, so equal fingerprints begin with equal fields
  (`FieldCut`); five of them and a fixed end give the route (`RouteCut`); after a
  route comes another, which begins with a slash, or what does not (`EndsRoutes`);
  after an entry another, whose second field is a number, or a domain, whose second
  field is a protocol (`EndsEntries`); and what comes after a domain is not that
  domain again (`Ahead`). `ListCut` is the step that all levels share: two
  concatenations of codes are equal only if the lists are, when each code can be told
  from where it begins, and so can the end.

`Apart` and `Configured` have two hypotheses. `Legible` is the condition under which this
holds of the code, which checks neither half of it (`route.go:36`, `route.go:138`): with a
NUL in a text of the file, two configurations may have one fingerprint, and the second is
not loaded. `Numerals(Int)` says that numbers are written apart (`strconv.Itoa`), which
TLA+'s `ToString` leaves open. `MCForwarding` has TLC evaluate both, and the conclusion of
`Apart` itself, on the instance.

For paths, `Forwarded` records what route a request had and what path it got. `PathKept`
then is about `buildOutPath` alone: what it joins is the base without its last slash, one
slash, and the rest without its first, in each of the four cases of the code
(`Joined`); decoding is done symbol by symbol, so it distributes over that
concatenation (`DecodedConcat`) and commutes with cutting at a boundary
(`TrimDecoded`), which gives the decoded path, and the encoded one where the prefix can
be cut from it. It says nothing of the files of a static route.

For requests that no route took, `Passed` records where they went; `PassedAsMeant` is
then about `targetOf` and `passthroughURL`, which read the same request in two
ways. For start-up, `Raced`: whoever is about to write while there is a saved file
had looked before it was saved.

Only model-checked: the liveness properties `Converges`, `HangupServed`,
`EveryDialEnds`, `HandshakeEnds`, `ExitTaken`, `Independent`, `WindsDown` and `StartServes`,
since the prover has no `ENABLED` and so no fairness. Every invariant and action
property of the passing runs is a theorem.

## 5. Not modelled

- Parsing of YAML, URLs, hosts, ports and command-line flags: their results are
  values of the model. The order of addresses in `formatTargets`.
- Query strings, headers and the Host of a request or route; the contents of static
  files; how net/http answers when an upstream fails. A header map with two spellings
  of one name leaves the result to the order of the map; nothing is stated about it.
- What is in a certificate, and TLS itself.
- `internal/log` (formatting of lines), `internal/testutil` (test doubles) and
  `mrp.hta` (a Windows panel that starts and stops the program through the shell).

## 6. Where to go on

Every component with a state of its own is modelled. What remains would be a
composition of reload, resolver and authority in one module, in place of the abstract
fills of `HotReload`: each of them is checked here against a reload that is abstract
for it, and the three share no state but what `resetCaches` empties.
