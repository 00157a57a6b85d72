--------------------------- MODULE ForwardingProofs ---------------------------
(***************************************************************************)
(* Requests, for every configuration, every request and any number of      *)
(* reloads and connections.  First the route table: what the loops that    *)
(* build it and look into it compute, by induction on their iterations,    *)
(* and that its fingerprint can be read back, symbol by symbol.  Then the  *)
(* requests that no route takes (targetOf, which asks the table, and       *)
(* passthroughURL, which says where to send, mean one server), the table   *)
(* in force and what it answers, and the path that an upstream gets.       *)
(***************************************************************************)
EXTENDS Forwarding, SequenceTheorems, WellFoundedInduction, TLAPS

-----------------------------------------------------------------------------
(* Induction, on a set of numbers.                                         *)

\* A set of natural numbers that is not empty has a least element.
LEMMA LeastElement ==
  ASSUME NEW T, T \subseteq Nat, T # {}
  PROVE  \E x \in T : \A y \in T : x <= y
<1>1. PICK x \in T : \A y \in T : ~ (<<y, x>> \in OpToRel(<, Nat))
  BY WFMin, NatLessThanWellFounded
<1>2. \A y \in T : ~ (y < x)
  BY <1>1 DEF OpToRel
<1> QED
  BY <1>2

\* What holds of 0, and of n + 1 if it holds of n, holds up to any bound.
LEMMA UpTo ==
  ASSUME NEW N \in Nat, NEW P, 0 \in P,
         \A n \in 0..N : n \in P /\ n # N => n + 1 \in P
  PROVE  \A n \in 0..N : n \in P
<1> DEFINE Bad == {n \in 0..N : n \notin P}
<1> SUFFICES ASSUME Bad # {} PROVE FALSE
  OBVIOUS
<1>1. Bad \subseteq Nat
  OBVIOUS
<1>2. PICK k \in Bad : \A j \in Bad : k <= j
  <2> HIDE DEF Bad
  <2> QED
    BY <1>1, LeastElement
<1>3. k # 0 /\ k - 1 \in 0..N /\ k - 1 \notin Bad
  BY <1>2
<1> QED
  BY <1>2, <1>3

-----------------------------------------------------------------------------
(* The loops: each iteration from the one before.                          *)

\* Load adds one server after the other to a table that is empty at first.
LEMMA TablesAre ==
  ASSUME NEW config, Len(config) \in Nat
  PROVE  /\ Tables(config)[0] = NewTable
         /\ \A n \in 1..Len(config) : Tables(config)[n] = AddServer(Tables(config)[n - 1], config[n])
<1> DEFINE N == Len(config)
           Step(g, n) == IF n = 0 THEN NewTable ELSE AddServer(g[n - 1], config[n])
           Is(g, k) == g = [n \in 0..k |-> Step(g, n)]
           P == {k \in 0..N : \E g : Is(g, k)}
<1>1. 0 \in P
  <2>1. Is([n \in 0..0 |-> NewTable], 0)
    OBVIOUS
  <2> HIDE DEF Is
  <2> QED
    BY <2>1
<1>2. ASSUME NEW k \in 0..N, k \in P, k # N PROVE k + 1 \in P
  <2>1. PICK g : Is(g, k)
    BY <1>2
  <2> DEFINE h == [n \in 0..(k + 1) |-> Step(g, n)]
  <2>2. \A n \in 0..k : g[n] = Step(g, n)
    BY <2>1
  <2>3. \A n \in 0..(k + 1) : h[n] = Step(g, n)
    OBVIOUS
  <2>4. \A n \in 0..(k + 1) : Step(g, n) = Step(h, n)
    BY <2>2
  <2>5. Is(h, k + 1)
    BY <2>4
  <2>6. k + 1 \in 0..N
    BY <1>2
  <2> HIDE DEF Is, h
  <2> QED
    BY <2>5, <2>6
<1>3. N \in P
  <2>1. \A k \in 0..N : k \in P
    <3> HIDE DEF P
    <3> QED
      BY <1>1, <1>2, UpTo
  <2> QED
    BY <2>1
<1>4. Tables(config) = CHOOSE g : Is(g, N)
  BY DEF Tables
<1>5. Is(Tables(config), N)
  BY <1>3, <1>4
<1> QED
  BY <1>5

\* The inner loop of Pick goes on from the best route so far.
LEMMA OfRoutesAre ==
  ASSUME NEW best, NEW routes, NEW path, Len(routes) \in Nat
  PROVE  /\ OfRoutes(best, routes, path)[0] = best
         /\ \A n \in 1..Len(routes) : OfRoutes(best, routes, path)[n] = Improved(OfRoutes(best, routes, path)[n - 1], routes[n], path)
<1> DEFINE N == Len(routes)
           Step(g, n) == IF n = 0 THEN best ELSE Improved(g[n - 1], routes[n], path)
           Is(g, k) == g = [n \in 0..k |-> Step(g, n)]
           P == {k \in 0..N : \E g : Is(g, k)}
<1>1. 0 \in P
  <2>1. Is([n \in 0..0 |-> best], 0)
    OBVIOUS
  <2> HIDE DEF Is
  <2> QED
    BY <2>1
<1>2. ASSUME NEW k \in 0..N, k \in P, k # N PROVE k + 1 \in P
  <2>1. PICK g : Is(g, k)
    BY <1>2
  <2> DEFINE h == [n \in 0..(k + 1) |-> Step(g, n)]
  <2>2. \A n \in 0..k : g[n] = Step(g, n)
    BY <2>1
  <2>3. \A n \in 0..(k + 1) : h[n] = Step(g, n)
    OBVIOUS
  <2>4. \A n \in 0..(k + 1) : Step(g, n) = Step(h, n)
    BY <2>2
  <2>5. Is(h, k + 1)
    BY <2>4
  <2>6. k + 1 \in 0..N
    BY <1>2
  <2> HIDE DEF Is, h
  <2> QED
    BY <2>5, <2>6
<1>3. N \in P
  <2>1. \A k \in 0..N : k \in P
    <3> HIDE DEF P
    <3> QED
      BY <1>1, <1>2, UpTo
  <2> QED
    BY <2>1
<1>4. OfRoutes(best, routes, path) = CHOOSE g : Is(g, N)
  BY DEF OfRoutes
<1>5. Is(OfRoutes(best, routes, path), N)
  BY <1>3, <1>4
<1> QED
  BY <1>5

\* The outer loop of Pick goes over the entries that match.
LEMMA OfEntriesAre ==
  ASSUME NEW entries, NEW protocol, NEW port, NEW path, Len(entries) \in Nat
  PROVE  /\ OfEntries(entries, protocol, port, path)[0] = NoRoute
         /\ \A n \in 1..Len(entries) : OfEntries(entries, protocol, port, path)[n] = AfterEntry(OfEntries(entries, protocol, port, path)[n - 1], entries[n], protocol, port, path)
<1> DEFINE N == Len(entries)
           Step(g, n) == IF n = 0 THEN NoRoute ELSE AfterEntry(g[n - 1], entries[n], protocol, port, path)
           Is(g, k) == g = [n \in 0..k |-> Step(g, n)]
           P == {k \in 0..N : \E g : Is(g, k)}
<1>1. 0 \in P
  <2>1. Is([n \in 0..0 |-> NoRoute], 0)
    OBVIOUS
  <2> HIDE DEF Is
  <2> QED
    BY <2>1
<1>2. ASSUME NEW k \in 0..N, k \in P, k # N PROVE k + 1 \in P
  <2>1. PICK g : Is(g, k)
    BY <1>2
  <2> DEFINE h == [n \in 0..(k + 1) |-> Step(g, n)]
  <2>2. \A n \in 0..k : g[n] = Step(g, n)
    BY <2>1
  <2>3. \A n \in 0..(k + 1) : h[n] = Step(g, n)
    OBVIOUS
  <2>4. \A n \in 0..(k + 1) : Step(g, n) = Step(h, n)
    BY <2>2
  <2>5. Is(h, k + 1)
    BY <2>4
  <2>6. k + 1 \in 0..N
    BY <1>2
  <2> HIDE DEF Is, h
  <2> QED
    BY <2>5, <2>6
<1>3. N \in P
  <2>1. \A k \in 0..N : k \in P
    <3> HIDE DEF P
    <3> QED
      BY <1>1, <1>2, UpTo
  <2> QED
    BY <2>1
<1>4. OfEntries(entries, protocol, port, path) = CHOOSE g : Is(g, N)
  BY DEF OfEntries
<1>5. Is(OfEntries(entries, protocol, port, path), N)
  BY <1>3, <1>4
<1> QED
  BY <1>5

-----------------------------------------------------------------------------
(* The table that is built.                                                *)

\* What is parsed of an upstream: a URL or a directory.
Urls == {u \in Upstreams : u.scheme \in Protocols}
Directories == {path \in Seq(Strings) : "://" \notin ToSet(path)}
Parsable ==
  {Target("url", u) : u \in Urls} \cup {Directory(path) : path \in Directories}

\* What validation leaves of a route: a prefix that begins with a slash, and a
\* status or a target.
SoundRoute(r) ==
  /\ r.prefix # <<>> /\ r.prefix[1] = "/"
  /\ (r.status = 0) <=> r.target.kind \in {"url", "root"}
  /\ r.target \in {NoTarget} \cup Parsable

Sound(t) ==
  /\ t \in [Domains -> Seq(Entries)]
  /\ \A d \in Domains : \A i \in DOMAIN t[d] : \A j \in DOMAIN t[d][i].routes :
       SoundRoute(t[d][i].routes[j])

\* A target has the fields of its upstream, and its kind.
LEMMA TargetTyped ==
  ASSUME NEW u \in Upstreams, NEW kind \in Strings
  PROVE  Target(kind, u) \in Targets /\ Target(kind, u).kind = kind
BY DEF Upstreams, Targets, Target

LEMMA NoUpstreamTyped ==
  NoUpstream \in Upstreams /\ \A path \in Directories : [NoUpstream EXCEPT !.path = path] \in Upstreams
<1>1. <<>> \in Seq(Strings) /\ ToSet(<<>>) = {}
  BY DEF ToSet
<1>2. "" \in Strings
  BY StringAssumption DEF StringAssumption
<1>3. NoPort \in Int
  BY DEF NoPort
<1> QED
  BY <1>1, <1>2, <1>3 DEF NoUpstream, Upstreams, Directories

LEMMA DirectoryTyped ==
  ASSUME NEW path \in Directories
  PROVE  Directory(path) \in Targets /\ Directory(path).kind = "root"
BY NoUpstreamTyped, TargetTyped, StringAssumption DEF Directory, StringAssumption

\* A target that parses is a URL or a directory.
LEMMA Parsed ==
  ASSUME NEW u \in Upstreams
  PROVE  /\ ParseTarget(u) \in Targets
         /\ \/ ParseTarget(u) = Refused
            \/ ParseTarget(u) \in Parsable /\ ParseTarget(u).kind \in {"url", "root"}
<1>1. Refused \in Targets
  BY NoUpstreamTyped, TargetTyped, StringAssumption DEF Refused, StringAssumption
<1>2. ASSUME NEW v \in Urls PROVE Target("url", v) \in Targets \cap Parsable /\ Target("url", v).kind = "url"
  BY TargetTyped, StringAssumption DEF Urls, Parsable, StringAssumption
<1>3. CASE u.scheme # ""
  <2>1. ParseTarget(u) =
          IF u.scheme \in Protocols /\ (u.host # "" \/ u.port # NoPort)
          THEN Target("url", u) ELSE Refused
    BY <1>3, Zenon DEF ParseTarget
  <2> QED
    BY <1>1, <1>2, <2>1 DEF Urls
<1>4. CASE u.scheme = "" /\ u.path # <<>>
  <2>1. ParseTarget(u) = Directory(u.path)
    BY <1>4, Zenon DEF ParseTarget
  <2>2. u.path \in Directories
    BY <1>4 DEF Upstreams, Directories
  <2> QED
    BY <2>1, <2>2, DirectoryTyped DEF Parsable
<1>5. CASE u.scheme = "" /\ u.path = <<>>
  <2> DEFINE short == [u EXCEPT !.scheme = "http"]
  <2>1. short \in Urls
    BY StringAssumption DEF Upstreams, Urls, Protocols, StringAssumption
  <2>2. ParseTarget(u) =
          IF u.host # "" /\ u.port \in {NoPort} \cup PortNumbers
          THEN Target("url", short) ELSE Refused
    BY <1>5, Zenon DEF ParseTarget
  <2> HIDE DEF short
  <2> QED
    BY <1>1, <1>2, <2>1, <2>2
<1> QED
  BY <1>3, <1>4, <1>5

LEMMA PrefixTyped ==
  ASSUME NEW r \in RouteConfigs
  PROVE  PrefixOf(r) \in Seq(Strings)
<1>1. r.prefix \in DOMAIN Trimmed
  BY DEF RouteConfigs
<1> QED
  BY <1>1, TableAssumption, Zenon DEF TableAssumption, PrefixOf

\* A route is built with its own prefix, trimmed, and is not the nil route.
LEMMA BuiltTyped ==
  ASSUME NEW r \in RouteConfigs
  PROVE  Built(r) \in Routes /\ Built(r).prefix = PrefixOf(r) /\ Built(r) # NoRoute
<1>1. ParseTarget(r.upstream) \in Targets
  BY Parsed DEF RouteConfigs
<1>2. NoTarget \in Targets
  BY NoUpstreamTyped, TargetTyped, StringAssumption DEF NoTarget, StringAssumption
<1>3. Built(r) \in Routes
  <2>1. Built(r).target \in Targets
    BY <1>1, <1>2 DEF Built
  <2>2. Built(r).body \in Strings
    BY StringAssumption DEF Built, RouteConfigs, StringAssumption
  <2> QED
    BY <2>1, <2>2, PrefixTyped DEF Built, Routes, RouteConfigs
<1>4. Built(r).prefix = PrefixOf(r)
  BY DEF Built
<1> QED
  BY <1>3, <1>4, TableAssumption DEF TableAssumption

\* A valid route is built soundly.
LEMMA BuiltSound ==
  ASSUME NEW r \in RouteConfigs, ValidRoute(r)
  PROVE  SoundRoute(Built(r))
<1>1. r.status = 0 =>
        ParseTarget(r.upstream) \in Parsable /\ ParseTarget(r.upstream).kind \in {"url", "root"}
  BY Parsed DEF RouteConfigs, ValidRoute
<1>2. NoTarget.kind = "none"
  BY DEF NoTarget, Target
<1> QED
  BY <1>1, <1>2 DEF Built, SoundRoute, ValidRoute

\* A server that is accepted becomes one entry, with its routes in their order.
LEMMA EntrySound ==
  ASSUME NEW s \in Servers, ValidEntry(s), ValidRoutes(s.routes)
  PROVE  /\ EntryOf(s) \in Entries
         /\ \A j \in DOMAIN EntryOf(s).routes : SoundRoute(EntryOf(s).routes[j])
<1>1. s.routes \in Seq(RouteConfigs)
  BY DEF Servers
<1>2. \A j \in 1..Len(s.routes) : s.routes[j] \in RouteConfigs /\ ValidRoute(s.routes[j])
  BY <1>1 DEF ValidRoutes
<1>3. \A j \in 1..Len(s.routes) :
        Built(s.routes[j]) \in Routes /\ SoundRoute(Built(s.routes[j]))
  BY <1>2, BuiltTyped, BuiltSound
<1>4. [i \in DOMAIN s.routes |-> Built(s.routes[i])] \in Seq(Routes)
  BY <1>1, <1>3
<1>5. EntryOf(s) \in Entries
  BY <1>4 DEF EntryOf, Entries, ValidEntry
<1> QED
  BY <1>1, <1>3, <1>5 DEF EntryOf

\* Add appends the entry to those of its domain.
LEMMA Added ==
  ASSUME NEW t, Sound(t), NEW s \in Servers, AddServer(t, s) # Failed
  PROVE  /\ Sound(AddServer(t, s))
         /\ Acceptable(t, s) /\ Normal[s.domain] \in Domains
         /\ \A d \in Domains :
              AddServer(t, s)[d] = IF d = Normal[s.domain] THEN Append(t[d], EntryOf(s)) ELSE t[d]
<1> DEFINE new == AddServer(t, s)
           e == EntryOf(s)
           own == Normal[s.domain]
<1>1. Acceptable(t, s) /\ new = [t EXCEPT ![own] = Append(@, e)]
  BY DEF AddServer
<1>2. own \in Domains
  BY <1>1, TableAssumption DEF Acceptable, TableAssumption, Servers
<1>3. e \in Entries /\ \A j \in DOMAIN e.routes : SoundRoute(e.routes[j])
  BY <1>1, EntrySound DEF Acceptable
<1>4. \A d \in Domains : new[d] = IF d = own THEN Append(t[d], e) ELSE t[d]
  BY <1>1, <1>2 DEF Sound
<1>5. new \in [Domains -> Seq(Entries)]
  BY <1>1, <1>2, <1>3 DEF Sound
<1> HIDE DEF new, e, own
<1>6. ASSUME NEW d \in Domains, NEW i \in DOMAIN new[d], NEW j \in DOMAIN new[d][i].routes
      PROVE  SoundRoute(new[d][i].routes[j])
  <2>1. t[d] \in Seq(Entries)
    BY DEF Sound
  <2>2. CASE d = own /\ i = Len(t[d]) + 1
    <3>1. new[d] = Append(t[d], e)
      BY <1>4, <2>2
    <3>2. new[d][i] = e
      BY <1>3, <2>1, <2>2, <3>1
    <3> QED
      BY <1>3, <1>6, <3>2
  <2>3. CASE d # own \/ i # Len(t[d]) + 1
    <3>1. i \in DOMAIN t[d] /\ new[d][i] = t[d][i]
      <4>1. CASE d = own
        <5>1. new[d] = Append(t[d], e)
          BY <1>4, <4>1
        <5>2. i \in 1..(Len(t[d]) + 1)
          BY <1>3, <1>6, <2>1, <5>1
        <5> QED
          BY <1>3, <2>1, <2>3, <4>1, <5>1, <5>2
      <4>2. CASE d # own
        BY <1>4, <1>6, <4>2
      <4> QED
        BY <4>1, <4>2
    <3> QED
      BY <1>6, <3>1 DEF Sound
  <2> QED
    BY <2>2, <2>3
<1> QED
  BY <1>1, <1>2, <1>4, <1>5, <1>6 DEF Sound, new, e, own

LEMMA ConfigTyped ==
  ASSUME NEW config \in Configs
  PROVE  Len(config) \in Nat /\ \A n \in 1..Len(config) : config[n] \in Servers
<1>1. config \in Seq(Servers)
  BY TableAssumption, Zenon DEF TableAssumption
<1> QED
  BY <1>1

\* The table is sound after each server, unless one of them was refused.
LEMMA TablesSound ==
  ASSUME NEW config \in Configs
  PROVE  \A n \in 0..Len(config) : Tables(config)[n] # Failed => Sound(Tables(config)[n])
<1> DEFINE P == {n \in 0..Len(config) :
                  Tables(config)[n] # Failed => Sound(Tables(config)[n])}
<1>0. Len(config) \in Nat /\ \A n \in 1..Len(config) : config[n] \in Servers
  BY ConfigTyped
<1>1. 0 \in P
  <2>1. Tables(config)[0] = NewTable
    BY <1>0, TablesAre
  <2>2. Sound(NewTable)
    BY DEF Sound, NewTable
  <2> QED
    BY <1>0, <2>1, <2>2
<1>2. ASSUME NEW n \in 0..Len(config), n \in P, n # Len(config) PROVE n + 1 \in P
  <2>1. n + 1 \in 1..Len(config) /\ n + 1 \in 0..Len(config) /\ (n + 1) - 1 = n
    BY <1>0, <1>2
  <2>2. Tables(config)[n + 1] = AddServer(Tables(config)[n], config[n + 1])
    BY <1>0, <2>1, TablesAre
  <2>3. ASSUME Tables(config)[n + 1] # Failed PROVE Sound(Tables(config)[n + 1])
    <3>1. Tables(config)[n] # Failed
      BY <2>2, <2>3 DEF AddServer
    <3>2. Sound(Tables(config)[n])
      BY <1>2, <3>1
    <3> QED
      BY <1>0, <2>1, <2>2, <2>3, <3>2, Added
  <2> QED
    BY <2>1, <2>3
<1> HIDE DEF P
<1>3. \A n \in 0..Len(config) : n \in P
  BY <1>0, <1>1, <1>2, UpTo
<1> QED
  BY <1>3 DEF P
-----------------------------------------------------------------------------
(* The route that is picked.                                               *)

\* The inner loop keeps what it had, or takes a route that covers the path.
LEMMA RouteTaken ==
  ASSUME NEW best, NEW routes, NEW path, Len(routes) \in Nat
  PROVE  \A n \in 0..Len(routes) :
           \/ OfRoutes(best, routes, path)[n] = best
           \/ \E j \in 1..Len(routes) : /\ PathHasPrefix(path, routes[j].prefix)
                                       /\ OfRoutes(best, routes, path)[n] = routes[j]
<1> DEFINE N == Len(routes)
           of == OfRoutes(best, routes, path)
           P == {n \in 0..N :
                   \/ of[n] = best
                   \/ \E j \in 1..N : PathHasPrefix(path, routes[j].prefix) /\ of[n] = routes[j]}
<1>1. of[0] = best /\ \A n \in 1..N : of[n] = Improved(of[n - 1], routes[n], path)
  BY OfRoutesAre
<1> HIDE DEF of
<1>2. 0 \in P
  BY <1>1
<1>3. ASSUME NEW n \in 0..N, n \in P, n # N PROVE n + 1 \in P
  <2>1. n + 1 \in 1..N /\ n + 1 \in 0..N /\ (n + 1) - 1 = n
    BY <1>3
  <2>2. of[n + 1] = Improved(of[n], routes[n + 1], path)
    BY <1>1, <2>1
  <2>3. CASE Better(of[n], routes[n + 1], path)
    <3>1. of[n + 1] = routes[n + 1] /\ PathHasPrefix(path, routes[n + 1].prefix)
      BY <2>2, <2>3 DEF Improved, Better
    <3> QED
      BY <2>1, <3>1
  <2>4. CASE ~Better(of[n], routes[n + 1], path)
    <3>1. of[n + 1] = of[n]
      BY <2>2, <2>4 DEF Improved
    <3> QED
      BY <1>3, <2>1, <3>1
  <2> QED
    BY <2>3, <2>4
<1>4. \A n \in 0..N : n \in P
  <2> HIDE DEF P
  <2> QED
    BY <1>2, <1>3, UpTo
<1> QED
  BY <1>4 DEF of

\* The routes of an entry.
LEMMA EntryRoutes ==
  ASSUME NEW entries \in Seq(Entries), NEW i \in DOMAIN entries
  PROVE  entries[i].routes \in Seq(Routes)
<1>1. entries[i] \in Entries
  OBVIOUS
<1> QED
  BY <1>1 DEF Entries

\* found is a route of the entries that match, and covers the path.
IsRouteOf(found, entries, protocol, port, path) ==
  \E i \in DOMAIN entries : \E j \in DOMAIN entries[i].routes :
    /\ Matches(entries[i], protocol, port)
    /\ found = entries[i].routes[j] /\ PathHasPrefix(path, found.prefix)

\* What Pick finds is a route of an entry that matches.
LEMMA PickedRoute ==
  ASSUME NEW entries \in Seq(Entries), NEW protocol, NEW port, NEW path
  PROVE  \A n \in 0..Len(entries) :
           LET found == OfEntries(entries, protocol, port, path)[n]
           IN found = NoRoute \/ IsRouteOf(found, entries, protocol, port, path)
<1> DEFINE N == Len(entries)
           of == OfEntries(entries, protocol, port, path)
           Kept(found) == found = NoRoute \/ IsRouteOf(found, entries, protocol, port, path)
           P == {n \in 0..N : Kept(of[n])}
<1>0. N \in Nat /\ DOMAIN entries = 1..N
  OBVIOUS
<1>1. /\ of[0] = NoRoute
      /\ \A n \in 1..N : of[n] = AfterEntry(of[n - 1], entries[n], protocol, port, path)
  BY <1>0, OfEntriesAre
<1> HIDE DEF of, N
<1>2. 0 \in P
  BY <1>0, <1>1
<1>3. ASSUME NEW n \in 0..N, n \in P, n # N PROVE n + 1 \in P
  <2> DEFINE e == entries[n + 1]
  <2>1. n + 1 \in 1..N /\ n + 1 \in 0..N /\ (n + 1) - 1 = n
    BY <1>0, <1>3
  <2>2. of[n + 1] = AfterEntry(of[n], e, protocol, port, path)
    BY <1>1, <2>1
  <2>3. e.routes \in Seq(Routes)
    BY <1>0, <2>1, EntryRoutes
  <2>4. Len(e.routes) \in Nat /\ DOMAIN e.routes = 1..Len(e.routes)
    BY <2>3
  <2>5. CASE ~Matches(e, protocol, port)
    <3>1. of[n + 1] = of[n]
      BY <2>2, <2>5 DEF AfterEntry
    <3> QED
      BY <1>3, <2>1, <3>1
  <2>6. CASE Matches(e, protocol, port)
    <3>1. of[n + 1] = OfRoutes(of[n], e.routes, path)[Len(e.routes)]
      BY <2>2, <2>6 DEF AfterEntry
    <3>2. Len(e.routes) \in 0..Len(e.routes)
      BY <2>4
    <3> HIDE DEF e
    <3>3. \/ of[n + 1] = of[n]
          \/ \E j \in 1..Len(e.routes) : /\ PathHasPrefix(path, e.routes[j].prefix)
                                         /\ of[n + 1] = e.routes[j]
      BY <2>4, <3>1, <3>2, RouteTaken
    <3>4. CASE of[n + 1] = of[n]
      BY <1>3, <2>1, <3>4
    <3>5. ASSUME NEW j \in 1..Len(e.routes), PathHasPrefix(path, e.routes[j].prefix),
                 of[n + 1] = e.routes[j]
          PROVE  IsRouteOf(of[n + 1], entries, protocol, port, path)
      BY <1>0, <2>1, <2>4, <2>6, <3>5 DEF e, IsRouteOf
    <3> QED
      BY <2>1, <3>3, <3>4, <3>5
  <2> QED
    BY <2>5, <2>6
<1>4. \A n \in 0..N : n \in P
  <2> HIDE DEF P
  <2> QED
    BY <1>0, <1>2, <1>3, UpTo
<1> QED
  BY <1>4 DEF of, N

\* The same of a whole table.
LEMMA Picked ==
  ASSUME NEW t, Sound(t), NEW d \in Domains, NEW protocol, NEW port, NEW path,
         Pick(t, protocol, port, d, path) # NoRoute
  PROVE  IsRouteOf(Pick(t, protocol, port, d, path), t[d], protocol, port, path)
<1>1. t[d] \in Seq(Entries)
  BY DEF Sound
<1>2. Len(t[d]) \in 0..Len(t[d])
  BY <1>1
<1> QED
  BY <1>1, <1>2, PickedRoute DEF Pick

\* A picked route has a prefix and a status or target that validation let through.
LEMMA PickedSound ==
  ASSUME NEW t, Sound(t), NEW d \in Domains, NEW protocol, NEW port, NEW path,
         NEW found, found = Pick(t, protocol, port, d, path), found # NoRoute
  PROVE  found \in Routes /\ SoundRoute(found) /\ PathHasPrefix(path, found.prefix)
<1>1. PICK i \in DOMAIN t[d] : \E j \in DOMAIN t[d][i].routes :
        found = t[d][i].routes[j] /\ PathHasPrefix(path, found.prefix)
  BY Picked DEF IsRouteOf
<1>2. PICK j \in DOMAIN t[d][i].routes :
        found = t[d][i].routes[j] /\ PathHasPrefix(path, found.prefix)
  BY <1>1
<1>3. SoundRoute(found)
  BY <1>2 DEF Sound
<1>4. found \in Routes
  <2>1. t[d] \in Seq(Entries)
    BY DEF Sound
  <2>2. t[d][i].routes \in Seq(Routes)
    BY <2>1, EntryRoutes
  <2> QED
    BY <1>2, <2>2
<1> QED
  BY <1>2, <1>3, <1>4

\* A request gets a route only where CONNECT would have been decrypted.
LEMMA PickedHas ==
  ASSUME NEW t, Sound(t), NEW d \in Domains, NEW protocol, NEW port, NEW path,
         Pick(t, protocol, port, d, path) # NoRoute
  PROVE  Has(t, protocol, port, d)
BY Picked DEF IsRouteOf, Has
-----------------------------------------------------------------------------
(* The table in force.                                                     *)

\* A table that was not refused is sound.
LEMMA BuildSound ==
  ASSUME NEW config \in Configs, BuildTable(config) # Failed
  PROVE  Sound(BuildTable(config))
<1>1. Len(config) \in 0..Len(config)
  BY ConfigTyped
<1> QED
  BY <1>1, TablesSound DEF BuildTable

\* The table in force is sound at first, and after each reload.
LEMMA SoundInit == TableInit => Sound(live)
BY DEF TableInit, Sound, NewTable

LEMMA SoundStep ==
  ASSUME Sound(live), Reload \/ UNCHANGED live
  PROVE  Sound(live)'
<1>1. CASE UNCHANGED live
  BY <1>1 DEF Sound
<1>2. CASE Reload
  <2>1. PICK load \in Loads : live' = live \/ live' = load.table
    BY <1>2 DEF Reload
  <2>2. PICK config \in Configs : BuildTable(config) # Failed /\ load.table = BuildTable(config)
    BY DEF Loads
  <2>3. CASE live' = live
    BY <2>3 DEF Sound
  <2>4. CASE live' = load.table
    <3>1. Sound(load.table)
      BY <2>2, BuildSound
    <3> QED
      BY <2>4, <3>1 DEF Sound
  <2> QED
    BY <2>1, <2>3, <2>4
<1> QED
  BY <1>1, <1>2

\* What is sound is typed, and decrypted where it is routed.
LEMMA SoundTyped == Sound(live) => TableOK
<1> SUFFICES ASSUME Sound(live),
                    NEW d \in Domains, NEW e \in ToSet(live[d]), NEW r \in ToSet(e.routes)
             PROVE  (r.status = 0) <=> r.target.kind \in {"url", "root"}
  BY DEF Sound, TableOK
<1>1. PICK i \in DOMAIN live[d] : e = live[d][i]
  BY DEF ToSet
<1>2. PICK j \in DOMAIN e.routes : r = e.routes[j]
  BY DEF ToSet
<1> QED
  BY <1>1, <1>2 DEF Sound, SoundRoute

LEMMA SoundDecrypted == Sound(live) => RoutedIsDecrypted
BY PickedHas DEF RoutedIsDecrypted
-----------------------------------------------------------------------------
(* What is picked, against what the configuration declares.                *)

\* pathHasPrefix finds what whole segments say.
LEMMA CoversIsPrefix ==
  ASSUME NEW path \in Seq(Strings), NEW prefix \in Seq(Strings), prefix # <<>>
  PROVE  PathHasPrefix(path, prefix) <=> Covers(prefix, path)
<1> DEFINE n == Len(prefix)
           ends == SubSeq(prefix, 1, n - 1)
<1>1. n \in Nat /\ n > 0 /\ Len(path) \in Nat /\ Last(prefix) = prefix[n]
  BY DEF Last
<1>2. Front(prefix) = ends /\ Len(ends) = n - 1 /\ \A i \in 1..(n - 1) : ends[i] = prefix[i]
  <2>1. Front(prefix) = ends
    BY DEF Front
  <2>2. n - 1 \in Int /\ \A i \in 1..(n - 1) : prefix[i] \in Strings
    BY <1>1
  <2>3. /\ Len(ends) = IF 1 <= n - 1 THEN (n - 1) - 1 + 1 ELSE 0
        /\ \A i \in 1..((n - 1) - 1 + 1) : ends[i] = prefix[1 + i - 1]
    BY <2>2, SubSeqProperties
  <2> HIDE DEF n, ends
  <2>4. Len(ends) = n - 1
    BY <1>1, <2>3
  <2>5. ASSUME NEW i \in 1..(n - 1) PROVE ends[i] = prefix[i]
    <3>1. i \in 1..((n - 1) - 1 + 1) /\ 1 + i - 1 = i
      BY <1>1
    <3> QED
      BY <2>3, <3>1
  <2> QED
    BY <2>1, <2>4, <2>5
<1>3. CASE prefix = <<"/">>
  BY <1>3 DEF PathHasPrefix, Covers
<1>4. CASE prefix # <<"/">> /\ Last(prefix) # "/"
  BY <1>1, <1>4 DEF PathHasPrefix, Covers, IsPrefix
<1>5. CASE prefix # <<"/">> /\ Last(prefix) = "/"
  <2>1. PathHasPrefix(path, prefix) <=> IsPrefix(prefix, path)
    BY <1>5 DEF PathHasPrefix
  <2>2. IsPrefix(prefix, path) <=> n <= Len(path) /\ \A i \in 1..n : prefix[i] = path[i]
    BY <1>1 DEF IsPrefix
  <2>3. IsPrefix(ends, path) <=>
          n - 1 <= Len(path) /\ \A i \in 1..(n - 1) : prefix[i] = path[i]
    BY <1>1, <1>2 DEF IsPrefix
  <2> HIDE DEF n, ends
  <2>4. Covers(prefix, path) <=>
          /\ IsPrefix(ends, path)
          /\ n - 1 = Len(path) \/ (n - 1 < Len(path) /\ path[(n - 1) + 1] = "/")
          /\ Len(path) >= n
    BY <1>2, <1>5 DEF Covers, n
  <2>5. prefix[n] = "/" /\ (n - 1) + 1 = n
    BY <1>1, <1>5
  <2>6. (\A i \in 1..n : prefix[i] = path[i]) <=>
          (\A i \in 1..(n - 1) : prefix[i] = path[i]) /\ prefix[n] = path[n]
    BY <1>1
  <2> QED
    BY <1>1, <2>1, <2>2, <2>3, <2>4, <2>5, <2>6
<1> QED
  BY <1>3, <1>4, <1>5

\* A declared route has its place and its type.
LEMMA DeclaredTyped ==
  ASSUME NEW config \in Configs, NEW x \in RoutesOf(config)
  PROVE  /\ x[1] \in 1..Len(config) /\ x[2] \in DOMAIN config[x[1]].routes
         /\ x = <<x[1], x[2]>> /\ x[1] \in Nat /\ x[2] \in Nat
         /\ Declared(config, x) \in RouteConfigs
         /\ Len(PrefixOf(Declared(config, x))) \in Nat
<1>1. config \in Seq(Servers)
  BY TableAssumption, Zenon DEF TableAssumption
<1>2. PICK n \in DOMAIN config : \E i \in DOMAIN config[n].routes : x = <<n, i>>
  BY DEF RoutesOf
<1>3. PICK i \in DOMAIN config[n].routes : x = <<n, i>>
  BY <1>2
<1>4. n \in 1..Len(config) /\ n \in Nat /\ config[n].routes \in Seq(RouteConfigs)
  <2>1. n \in 1..Len(config) /\ n \in Nat /\ config[n] \in Servers
    BY <1>1
  <2> QED
    BY <2>1 DEF Servers
<1>5. i \in Nat /\ config[n].routes[i] \in RouteConfigs
  BY <1>3, <1>4
<1>6. Len(PrefixOf(config[n].routes[i])) \in Nat
  BY <1>5, PrefixTyped
<1> QED
  BY <1>3, <1>4, <1>5, <1>6 DEF Declared

\* One iteration of the loops of Pick, on a route that comes after all that were
\* looked at: the first of the longest stays the first of the longest.
LEMMA Iteration ==
  ASSUME NEW config \in Configs, NEW path,
         NEW C, C \subseteq RoutesOf(config),
         NEW z \in RoutesOf(config), \A y \in C : Before(y, z),
         NEW found, FirstOfLongest(found, C, config),
         NEW r, r = Built(Declared(config, z))
  PROVE  FirstOfLongest(Improved(found, r, path),
                        IF PathHasPrefix(path, r.prefix) THEN C \cup {z} ELSE C, config)
<1> DEFINE prefix(x) == PrefixOf(Declared(config, x))
           Beats(x, y) == \/ Len(prefix(y)) < Len(prefix(x))
                          \/ Len(prefix(y)) = Len(prefix(x)) /\ Before(x, y)
<1>1. ASSUME NEW x \in RoutesOf(config)
      PROVE  /\ Len(prefix(x)) \in Nat
             /\ Built(Declared(config, x)).prefix = prefix(x)
             /\ Built(Declared(config, x)) # NoRoute
  BY DeclaredTyped, BuiltTyped
<1>2. CASE ~PathHasPrefix(path, r.prefix)
  BY <1>2 DEF Improved, Better
<1>3. CASE PathHasPrefix(path, r.prefix)
  <2> DEFINE D == C \cup {z}
             best == Improved(found, r, path)
  <2>1. Beats(z, z)
    BY DeclaredTyped DEF Before
  <2>2. SUFFICES \E x \in D : best = Built(Declared(config, x)) /\ \A y \in D : Beats(x, y)
    BY <1>3 DEF FirstOfLongest
  <2>3. CASE C = {}
    <3>1. found = NoRoute
      BY <2>3 DEF FirstOfLongest
    <3>2. best = r
      BY <1>3, <3>1 DEF Improved, Better
    <3> QED
      BY <2>1, <2>3, <3>2
  <2>4. CASE C # {}
    <3>1. PICK x \in C : found = Built(Declared(config, x)) /\ \A y \in C : Beats(x, y)
      BY <2>4 DEF FirstOfLongest
    <3>2. x \in RoutesOf(config)
      OBVIOUS
    <3>3. found # NoRoute /\ found.prefix = prefix(x) /\ r.prefix = prefix(z)
      BY <1>1, <3>1, <3>2
    <3> HIDE DEF prefix
    <3>4. CASE Len(prefix(z)) > Len(prefix(x))
      <4>1. best = r
        BY <1>3, <3>3, <3>4 DEF Improved, Better
      <4>2. \A y \in C : Len(prefix(y)) < Len(prefix(z))
        BY <1>1, <3>1, <3>2, <3>4
      <4> QED
        BY <2>1, <4>1, <4>2
    <3>5. CASE ~(Len(prefix(z)) > Len(prefix(x)))
      <4>1. best = found
        BY <3>3, <3>5 DEF Improved, Better
      <4>2. Beats(x, z)
        BY <1>1, <3>2, <3>5
      <4> QED
        BY <3>1, <4>1, <4>2
    <3> QED
      BY <3>4, <3>5
  <2> QED
    BY <2>3, <2>4
<1> QED
  BY <1>2, <1>3
\* The covering routes of the servers before n, and of server n up to route m.
CoveringTo(config, protocol, port, domain, path, n, m) ==
  {x \in Covering(config, protocol, port, domain, path) : x[1] < n \/ (x[1] = n /\ x[2] <= m)}

\* The entry of one server: Pick goes over its routes in their order.
LEMMA OverServer ==
  ASSUME NEW config \in Configs, NEW protocol, NEW port, NEW domain, NEW path \in Seq(Strings),
         NEW n \in 1..Len(config), Normal[config[n].domain] = domain,
         ValidRoutes(config[n].routes), NEW found,
         FirstOfLongest(found, CoveringTo(config, protocol, port, domain, path, n, 0), config)
  PROVE  FirstOfLongest(
           AfterEntry(found, EntryOf(config[n]), protocol, port, path),
           CoveringTo(config, protocol, port, domain, path, n, Len(config[n].routes)), config)
<1> DEFINE s == config[n]
           e == EntryOf(s)
           M == Len(s.routes)
           of == OfRoutes(found, e.routes, path)
           C(m) == CoveringTo(config, protocol, port, domain, path, n, m)
           P == {m \in 0..M : FirstOfLongest(of[m], C(m), config)}
<1>1. s \in Servers
  BY ConfigTyped
<1>2. s.routes \in Seq(RouteConfigs)
  BY <1>1 DEF Servers
<1>3. M \in Nat /\ DOMAIN s.routes = 1..M
  BY <1>2
<1>4. /\ e.protocol = ProtocolOf(s) /\ e.port = s.port
      /\ e.routes = [i \in 1..M |-> Built(s.routes[i])]
  BY <1>3 DEF EntryOf
<1>5. Len(e.routes) = M
  BY <1>3, <1>4
<1>6. ASSUME NEW m \in 0..M, NEW x \in C(m)
      PROVE  /\ x \in RoutesOf(config) /\ x[1] \in Nat /\ x[2] \in Nat
             /\ x[1] < n \/ (x[1] = n /\ x[2] <= m)
  <2>1. x \in RoutesOf(config) /\ (x[1] < n \/ (x[1] = n /\ x[2] <= m))
    BY DEF CoveringTo, Covering
  <2> QED
    BY <2>1, DeclaredTyped
<1>7. n \in Nat /\ n \in DOMAIN config
  <2>1. config \in Seq(Servers)
    BY TableAssumption, Zenon DEF TableAssumption
  <2> QED
    BY <2>1
<1>8. CASE ~Matches(e, protocol, port)
  <2>1. AfterEntry(found, e, protocol, port, path) = found
    BY <1>8 DEF AfterEntry
  <2>2. ASSUME NEW x \in C(M) PROVE x \in C(0)
    <3>1. (x \in RoutesOf(config) /\ x[1] < n) \/ x[1] = n
      BY DEF CoveringTo, Covering
    <3>2. x[1] # n
      BY <1>4, <1>8 DEF CoveringTo, Covering, Matches
    <3> QED
      BY <3>1, <3>2 DEF CoveringTo
  <2>3. ASSUME NEW x \in C(0) PROVE x \in C(M)
    <3>1. x[2] \in Nat /\ (x[1] < n \/ (x[1] = n /\ x[2] <= 0))
      BY <1>3, <1>6
    <3> QED
      BY <1>3, <3>1 DEF CoveringTo
  <2>4. C(M) = C(0)
    BY <2>2, <2>3
  <2> QED
    BY <2>1, <2>4
<1>9. CASE Matches(e, protocol, port)
  <2>1. of[0] = found /\ \A m \in 1..M : of[m] = Improved(of[m - 1], e.routes[m], path)
    BY <1>3, <1>5, OfRoutesAre
  <2> HIDE DEF of
  <2>2. 0 \in P
    BY <1>3, <2>1
  <2>3. ASSUME NEW m \in 0..M, m \in P, m # M PROVE m + 1 \in P
    <3> DEFINE z == <<n, m + 1>>
               r == Built(Declared(config, z))
    <3>1. m + 1 \in 1..M /\ m + 1 \in 0..M /\ (m + 1) - 1 = m
      BY <1>3, <2>3
    <3>2. of[m + 1] = Improved(of[m], e.routes[m + 1], path)
      BY <2>1, <3>1
    <3>3. e.routes[m + 1] = r
      BY <1>4, <3>1 DEF Declared
    <3>4. z \in RoutesOf(config)
      BY <1>3, <1>7, <3>1 DEF RoutesOf
    <3>5. C(m) \subseteq RoutesOf(config) /\ \A y \in C(m) : Before(y, z)
      BY <1>6, <1>7 DEF Before
    <3>6. FirstOfLongest(of[m], C(m), config)
      BY <2>3
    <3>7. FirstOfLongest(Improved(of[m], r, path),
                         IF PathHasPrefix(path, r.prefix) THEN C(m) \cup {z} ELSE C(m), config)
      <4> HIDE DEF C, z, r
      <4> QED
        BY <3>4, <3>5, <3>6, Iteration DEF r
    <3>8. C(m + 1) = IF PathHasPrefix(path, r.prefix) THEN C(m) \cup {z} ELSE C(m)
      <4>1. r.prefix = PrefixOf(s.routes[m + 1])
        BY <1>2, <1>3, <3>1, BuiltTyped DEF Declared
      <4>2. z \in Covering(config, protocol, port, domain, path) <=> PathHasPrefix(path, r.prefix)
        <5>1. s.routes[m + 1] \in RouteConfigs /\ ValidRoute(s.routes[m + 1])
          BY <1>2, <1>3, <3>1 DEF ValidRoutes
        <5>2. PathHasPrefix(path, r.prefix) <=> Covers(PrefixOf(s.routes[m + 1]), path)
          <6> DEFINE own == PrefixOf(s.routes[m + 1])
          <6>1. own \in Seq(Strings) /\ own # <<>>
            BY <5>1, PrefixTyped DEF ValidRoute
          <6>2. r.prefix = own
            BY <4>1
          <6>3. PathHasPrefix(path, own) <=> Covers(own, path)
            <7> HIDE DEF own
            <7> QED
              BY <6>1, CoversIsPrefix
          <6> QED
            BY <6>2, <6>3
        <5> QED
          BY <1>4, <1>9, <3>4, <5>2 DEF Covering, Declared, Matches
      <4>3. ASSUME NEW x \in C(m) PROVE x \in C(m + 1)
        <5>1. x[2] \in Nat /\ (x[1] < n \/ (x[1] = n /\ x[2] <= m))
          BY <1>6
        <5> QED
          BY <5>1 DEF CoveringTo
      <4>4. ASSUME NEW x \in C(m + 1), x \notin C(m) PROVE x = z
        <5>1. /\ x \in RoutesOf(config) /\ x[2] \in Nat
              /\ x[1] < n \/ (x[1] = n /\ x[2] <= m + 1)
          BY <1>6, <3>1
        <5>2. x[1] = n /\ x[2] = m + 1
          BY <4>4, <5>1 DEF CoveringTo
        <5> QED
          BY <5>1, <5>2, DeclaredTyped
      <4>5. z \in C(m + 1) <=> PathHasPrefix(path, r.prefix)
        BY <4>2 DEF CoveringTo
      <4> HIDE DEF C, z, r
      <4>6. C(m) \subseteq C(m + 1) /\ C(m + 1) \subseteq C(m) \cup {z}
        BY <4>3, <4>4
      <4>7. CASE PathHasPrefix(path, r.prefix)
        BY <4>5, <4>6, <4>7
      <4>8. CASE ~PathHasPrefix(path, r.prefix)
        <5>1. C(m + 1) = C(m)
          BY <4>5, <4>6, <4>8
        <5> QED
          BY <4>8, <5>1
      <4> QED
        BY <4>7, <4>8
    <3> QED
      BY <3>1, <3>2, <3>3, <3>7, <3>8
  <2>4. \A m \in 0..M : m \in P
    <3> HIDE DEF P
    <3> QED
      BY <1>3, <2>2, <2>3, UpTo
  <2>5. AfterEntry(found, e, protocol, port, path) = of[M]
    BY <1>5, <1>9 DEF AfterEntry, of
  <2> QED
    BY <1>3, <2>4, <2>5
<1> QED
  BY <1>8, <1>9
\* Pick goes over the entries of a longer list as over those before the last.
LEMMA OverAppended ==
  ASSUME NEW entries \in Seq(Entries), NEW e \in Entries, NEW protocol, NEW port, NEW path
  PROVE  OfEntries(Append(entries, e), protocol, port, path)[Len(entries) + 1] =
           AfterEntry(OfEntries(entries, protocol, port, path)[Len(entries)],
                      e, protocol, port, path)
<1> DEFINE N == Len(entries)
           longer == Append(entries, e)
           of == OfEntries(entries, protocol, port, path)
           ofLonger == OfEntries(longer, protocol, port, path)
           P == {n \in 0..N : ofLonger[n] = of[n]}
<1>1. /\ N \in Nat /\ Len(longer) = N + 1 /\ longer[N + 1] = e
      /\ \A n \in 1..N : longer[n] = entries[n]
  BY AppendProperties
<1>2. /\ of[0] = NoRoute
      /\ \A n \in 1..N : of[n] = AfterEntry(of[n - 1], entries[n], protocol, port, path)
  BY <1>1, OfEntriesAre
<1> HIDE DEF longer
<1>3. /\ ofLonger[0] = NoRoute
      /\ \A n \in 1..(N + 1) :
           ofLonger[n] = AfterEntry(ofLonger[n - 1], longer[n], protocol, port, path)
  BY <1>1, OfEntriesAre
<1> HIDE DEF of, ofLonger, N
<1>4. 0 \in P
  BY <1>1, <1>2, <1>3
<1>5. ASSUME NEW n \in 0..N, n \in P, n # N PROVE n + 1 \in P
  <2>1. n + 1 \in 1..N /\ n + 1 \in 0..N /\ n + 1 \in 1..(N + 1) /\ (n + 1) - 1 = n
    BY <1>1, <1>5
  <2> QED
    BY <1>1, <1>2, <1>3, <1>5, <2>1
<1>6. \A n \in 0..N : n \in P
  <2> HIDE DEF P
  <2> QED
    BY <1>1, <1>4, <1>5, UpTo
<1>7. ofLonger[N] = of[N]
  BY <1>1, <1>6
<1>8. ofLonger[N + 1] = AfterEntry(ofLonger[N], e, protocol, port, path)
  <2>1. N + 1 \in 1..(N + 1) /\ (N + 1) - 1 = N
    BY <1>1
  <2> QED
    BY <1>1, <1>3, <2>1
<1> QED
  BY <1>7, <1>8 DEF of, ofLonger, longer, N

\* After n servers, what the table has for a request is the first of the longest
\* prefixes of those servers that cover it.
LEMMA OverServers ==
  ASSUME NEW config \in Configs, NEW protocol, NEW port, NEW d \in Domains,
         NEW path \in Seq(Strings)
  PROVE  \A n \in 0..Len(config) :
           LET t == Tables(config)[n] IN
           t # Failed =>
             FirstOfLongest(Pick(t, protocol, port, d, path),
                            CoveringTo(config, protocol, port, d, path, n + 1, 0), config)
<1> DEFINE N == Len(config)
           t(n) == Tables(config)[n]
           C(n, m) == CoveringTo(config, protocol, port, d, path, n, m)
           P == {n \in 0..N : t(n) # Failed =>
                   FirstOfLongest(Pick(t(n), protocol, port, d, path), C(n + 1, 0), config)}
<1>1. N \in Nat /\ \A n \in 1..N : config[n] \in Servers
  BY ConfigTyped
<1>2. t(0) = NewTable /\ \A n \in 1..N : t(n) = AddServer(t(n - 1), config[n])
  BY <1>1, TablesAre
<1>3. \A n \in 0..N : t(n) # Failed => Sound(t(n))
  BY TablesSound
<1>4. ASSUME NEW n \in Nat, NEW m, NEW x \in C(n, m)
      PROVE  /\ x \in RoutesOf(config) /\ x[1] \in 1..N /\ x[2] \in Nat /\ x[2] > 0
             /\ x[2] \in DOMAIN config[x[1]].routes
             /\ Normal[config[x[1]].domain] = d
  <2>1. x \in RoutesOf(config) /\ Normal[config[x[1]].domain] = d
    BY DEF CoveringTo, Covering
  <2>2. x[1] \in 1..N /\ x[2] \in Nat /\ x[2] \in DOMAIN config[x[1]].routes
    BY <2>1, DeclaredTyped
  <2>3. config[x[1]].routes \in Seq(RouteConfigs)
    BY <1>1, <2>2 DEF Servers
  <2>4. x[2] > 0
    BY <2>2, <2>3
  <2> QED
    BY <2>1, <2>2, <2>4
<1>5. ASSUME NEW n \in 1..N
      PROVE  C(n + 1, 0) = C(n, Len(config[n].routes))
  <2>1. config[n].routes \in Seq(RouteConfigs)
    BY <1>1 DEF Servers
  <2>2. Len(config[n].routes) \in Nat /\ DOMAIN config[n].routes = 1..Len(config[n].routes)
    BY <2>1
  <2>3. ASSUME NEW x \in C(n + 1, 0) PROVE x \in C(n, Len(config[n].routes))
    <3>1. x[1] < n \/ x[1] = n
      <4>1. x[1] < n + 1 \/ (x[1] = n + 1 /\ x[2] <= 0)
        BY DEF CoveringTo
      <4> HIDE DEF C
      <4>2. x[1] \in 1..N /\ x[2] \in Nat /\ x[2] > 0
        BY <1>1, <1>4
      <4> QED
        BY <1>1, <4>1, <4>2
    <3>2. x[1] = n => x[2] <= Len(config[n].routes)
      BY <1>4, <2>2
    <3> QED
      BY <3>1, <3>2 DEF CoveringTo
  <2>4. ASSUME NEW x \in C(n, Len(config[n].routes)) PROVE x \in C(n + 1, 0)
    <3>1. x[1] \in Nat /\ (x[1] < n \/ x[1] = n)
      BY <1>4 DEF CoveringTo
    <3> QED
      BY <3>1 DEF CoveringTo
  <2> QED
    BY <2>3, <2>4
<1>6. 0 \in P
  <2>1. C(1, 0) = {}
    <3> SUFFICES ASSUME NEW x \in C(1, 0) PROVE FALSE
      OBVIOUS
    <3>1. x[1] < 1 \/ (x[1] = 1 /\ x[2] <= 0)
      BY DEF CoveringTo
    <3> HIDE DEF C
    <3>2. x[1] \in 1..N /\ x[2] \in Nat /\ x[2] > 0
      BY <1>4
    <3> QED
      BY <3>1, <3>2
  <2>2. NewTable[d] = <<>>
    BY DEF NewTable
  <2>3. Pick(NewTable, protocol, port, d, path) = NoRoute
    BY <2>2, OfEntriesAre DEF Pick
  <2> QED
    BY <1>1, <1>2, <2>1, <2>3 DEF FirstOfLongest
<1>7. ASSUME NEW n \in 0..N, n \in P, n # N PROVE n + 1 \in P
  <2> DEFINE s == config[n + 1]
             found == Pick(t(n), protocol, port, d, path)
  <2>1. n + 1 \in 1..N /\ n + 1 \in 0..N /\ (n + 1) - 1 = n
    BY <1>1, <1>7
  <2> SUFFICES ASSUME t(n + 1) # Failed
               PROVE  FirstOfLongest(Pick(t(n + 1), protocol, port, d, path), C(n + 2, 0), config)
    BY <2>1
  <2>2. t(n + 1) = AddServer(t(n), s) /\ s \in Servers
    BY <1>1, <1>2, <2>1
  <2>3. t(n) # Failed
    BY <2>2 DEF AddServer
  <2>4. Sound(t(n)) /\ FirstOfLongest(found, C(n + 1, 0), config)
    BY <1>3, <1>7, <2>3
  <2>5. /\ Acceptable(t(n), s)
        /\ t(n + 1)[d] = IF d = Normal[s.domain] THEN Append(t(n)[d], EntryOf(s)) ELSE t(n)[d]
    BY <2>2, <2>4, Added
  <2>6. C(n + 2, 0) = C(n + 1, Len(s.routes))
    BY <1>5, <2>1
  <2>7. CASE d = Normal[s.domain]
    <3>1. t(n)[d] \in Seq(Entries) /\ EntryOf(s) \in Entries /\ ValidRoutes(s.routes)
      BY <2>2, <2>4, <2>5, EntrySound DEF Sound, Acceptable
    <3>2. t(n + 1)[d] = Append(t(n)[d], EntryOf(s))
      BY <2>5, <2>7
    <3>3. Pick(t(n + 1), protocol, port, d, path) =
            AfterEntry(found, EntryOf(s), protocol, port, path)
      <4> DEFINE entries == t(n)[d]
                 e == EntryOf(s)
                 longer == t(n + 1)[d]
      <4> HIDE DEF entries, e, longer
      <4>1. longer = Append(entries, e) /\ entries \in Seq(Entries) /\ e \in Entries
        BY <3>1, <3>2 DEF entries, e, longer
      <4>2. Len(longer) = Len(entries) + 1
        BY <4>1, AppendProperties
      <4>3. OfEntries(longer, protocol, port, path)[Len(longer)] =
              AfterEntry(OfEntries(entries, protocol, port, path)[Len(entries)],
                         e, protocol, port, path)
        BY <4>1, <4>2, OverAppended
      <4> QED
        BY <4>3 DEF entries, e, longer, Pick
    <3>4. FirstOfLongest(AfterEntry(found, EntryOf(s), protocol, port, path),
                         C(n + 1, Len(s.routes)), config)
      BY <2>1, <2>4, <2>7, <3>1, OverServer
    <3> QED
      BY <2>6, <3>3, <3>4
  <2>8. CASE d # Normal[s.domain]
    <3>1. Pick(t(n + 1), protocol, port, d, path) = found
      BY <2>5, <2>8 DEF Pick
    <3>2. C(n + 1, Len(s.routes)) = C(n + 1, 0)
      <4>1. ASSUME NEW m, NEW x \in C(n + 1, m) PROVE x[1] < n + 1
        <5>1. x[1] # n + 1
          BY <1>4, <2>1, <2>8
        <5> QED
          BY <5>1 DEF CoveringTo
      <4> QED
        BY <4>1 DEF CoveringTo
    <3> QED
      BY <2>4, <2>6, <3>1, <3>2
  <2> QED
    BY <2>7, <2>8
<1>8. \A n \in 0..N : n \in P
  <2> HIDE DEF P
  <2> QED
    BY <1>1, <1>6, <1>7, UpTo
<1> QED
  BY <1>8

\* What a table that was built has for a request.
LEMMA BuiltAnswers ==
  ASSUME NEW config \in Configs, BuildTable(config) # Failed,
         NEW protocol, NEW port, NEW d \in Domains, NEW path \in Seq(Strings)
  PROVE  FirstOfLongest(Pick(BuildTable(config), protocol, port, d, path),
                        Covering(config, protocol, port, d, path), config)
<1> DEFINE N == Len(config)
<1>1. N \in Nat /\ N \in 0..N
  BY ConfigTyped
<1>2. FirstOfLongest(Pick(BuildTable(config), protocol, port, d, path),
                     CoveringTo(config, protocol, port, d, path, N + 1, 0), config)
  BY <1>1, OverServers DEF BuildTable
<1>3. ASSUME NEW x \in Covering(config, protocol, port, d, path) PROVE x[1] < N + 1
  <2>1. x[1] \in 1..N
    BY DeclaredTyped DEF Covering
  <2> QED
    BY <1>1, <2>1
<1>4. CoveringTo(config, protocol, port, d, path, N + 1, 0) =
        Covering(config, protocol, port, d, path)
  BY <1>3 DEF CoveringTo
<1> QED
  BY <1>2, <1>4
-----------------------------------------------------------------------------
(* Sequences that are put together from codes, and how they are read.      *)

LEMMA Flattened ==
  ASSUME NEW codes, Len(codes) \in Nat, Len(codes) # 0
  PROVE  \E F : /\ F[1] = codes[1] /\ FlattenSeq(codes) = F[Len(codes)]
                /\ \A n \in 2..Len(codes) : F[n] = F[n - 1] \o codes[n]
<1> DEFINE N == Len(codes)
           Step(g, n) == IF n = 1 THEN codes[n] ELSE g[n - 1] \o codes[n]
           Is(g, k) == g = [n \in 1..k |-> Step(g, n)]
           P == {k \in 0..N : \E g : Is(g, k)}
<1>1. 0 \in P
  <2>1. Is([n \in 1..0 |-> codes[1]], 0)
    OBVIOUS
  <2> HIDE DEF Is
  <2> QED
    BY <2>1
<1>2. ASSUME NEW k \in 0..N, k \in P, k # N PROVE k + 1 \in P
  <2>1. PICK g : Is(g, k)
    BY <1>2
  <2> DEFINE h == [n \in 1..(k + 1) |-> Step(g, n)]
  <2>2. \A n \in 1..k : g[n] = Step(g, n)
    BY <2>1
  <2>3. \A n \in 1..(k + 1) : h[n] = Step(g, n)
    OBVIOUS
  <2>4. \A n \in 1..(k + 1) : Step(g, n) = Step(h, n)
    BY <2>2
  <2>5. Is(h, k + 1)
    BY <2>4
  <2>6. k + 1 \in 0..N
    BY <1>2
  <2> HIDE DEF Is, h
  <2> QED
    BY <2>5, <2>6
<1>3. N \in P
  <2>1. N \in Nat
    OBVIOUS
  <2> HIDE DEF P, N
  <2>2. \A k \in 0..N : k \in P
    BY <1>1, <1>2, <2>1, UpTo
  <2> QED
    BY <2>1, <2>2
<1> DEFINE F == CHOOSE g : Is(g, N)
<1>4. FlattenSeq(codes) = F[N]
  BY DEF FlattenSeq
<1>5. Is(F, N)
  <2>1. \E g : Is(g, N)
    <3> HIDE DEF Is
    <3> QED
      BY <1>3
  <2> HIDE DEF Is
  <2> QED
    BY <2>1
<1> HIDE DEF F
<1>6. F[1] = codes[1] /\ \A n \in 2..N : F[n] = F[n - 1] \o codes[n]
  <2>1. \A n \in 1..N : F[n] = Step(F, n)
    <3> HIDE DEF Step
    <3> QED
      BY <1>5
  <2>2. N \in Nat /\ N # 0
    OBVIOUS
  <2> HIDE DEF N
  <2>3. 1 \in 1..N /\ \A n \in 2..N : n \in 1..N /\ n # 1
    BY <2>2
  <2> QED
    BY <2>1, <2>3, Zenon
<1> QED
  BY <1>4, <1>6

\* Concatenation over a set of sequences.
Concatenates(T) ==
  /\ \A s, t \in T : s \o t \in T
  /\ \A s, t, u \in T : (s \o t) \o u = s \o (t \o u)
  /\ \A s, t, u \in T : s \o t = s \o u => t = u

LEMMA SeqConcatenates == ASSUME NEW S PROVE Concatenates(Seq(S))
<1>1. \A s, t \in Seq(S) : s \o t \in Seq(S)
  BY ConcatProperties
<1>2. \A s, t, u \in Seq(S) : (s \o t) \o u = s \o (t \o u)
  BY ConcatAssociative
<1>3. \A s, t, u \in Seq(S) : s \o t = s \o u => t = u
  BY ConcatSimplifications, Zenon
<1> QED
  BY <1>1, <1>2, <1>3, Zenon DEF Concatenates

\* In the form in which it is used.
LEMMA Cut == ASSUME NEW T, Concatenates(T), NEW s \in T, NEW t \in T, NEW u \in T, s \o t = s \o u
PROVE t = u
BY DEF Concatenates

LEMMA Closed == ASSUME NEW T, Concatenates(T), NEW s \in T, NEW t \in T
PROVE s \o t \in T
BY DEF Concatenates

\* One after the other, from the left as from the right.
Grouped(a, b, c, s) == ((a \o b) \o c) \o s = a \o (b \o (c \o s))

LEMMA ThreeGrouped ==
  ASSUME NEW T, Concatenates(T), NEW a \in T, NEW b \in T, NEW c \in T, NEW s \in T
  PROVE  Grouped(a, b, c, s)
<1>1. \A x, y, z \in T : (x \o y) \o z = x \o (y \o z)
  BY Zenon DEF Concatenates
<1>2. a \o b \in T /\ c \o s \in T
  BY Closed, Zenon
<1>3. ((a \o b) \o c) \o s = (a \o b) \o (c \o s)
  <2>1. \A y, z \in T : ((a \o b) \o y) \o z = (a \o b) \o (y \o z)
    BY <1>1, <1>2, Zenon
  <2>2. \A z \in T : ((a \o b) \o c) \o z = (a \o b) \o (c \o z)
    BY <2>1, Zenon
  <2> QED
    BY <2>2, Zenon
<1>4. (a \o b) \o (c \o s) = a \o (b \o (c \o s))
  <2>1. \A y, z \in T : (a \o y) \o z = a \o (y \o z)
    BY <1>1, Zenon
  <2>2. \A z \in T : (a \o b) \o z = a \o (b \o z)
    BY <2>1, Zenon
  <2> QED
    BY <1>2, <2>2, Zenon
<1> QED
  BY <1>3, <1>4, Zenon DEF Grouped

Regrouped(a, b, c, d, e, s) ==
  ((((a \o b) \o c) \o d) \o e) \o s = a \o (b \o (c \o (d \o (e \o s))))

LEMMA FiveGrouped ==
  ASSUME NEW T, Concatenates(T), NEW a \in T, NEW b \in T, NEW c \in T, NEW d \in T,
         NEW e \in T, NEW s \in T
  PROVE  Regrouped(a, b, c, d, e, s)
<1>1. a \o b \in T /\ e \o s \in T
  BY Closed
<1>2. (a \o b) \o c \in T /\ d \o (e \o s) \in T
  BY <1>1, Closed
<1>3. Grouped((a \o b) \o c, d, e, s)
  BY <1>2, ThreeGrouped
<1>4. Grouped(a, b, c, d \o (e \o s))
  BY <1>2, ThreeGrouped
<1> QED
  BY <1>3, <1>4, Zenon DEF Grouped, Regrouped

\* What is left to read after the first n of N codes, when something follows.
Unread(R, codes, N, rest) ==
  R[N] = rest /\ \A n \in 1..N : R[n - 1] = codes[n] \o R[n]

\* What has been put together of the first n codes.
Partial(F, codes, N) ==
  F[1] = codes[1] /\ \A n \in 2..N : F[n] = F[n - 1] \o codes[n]

Readable(T, codes, N, rest, all) ==
  \E R \in [0..N -> T] : Unread(R, codes, N, rest) /\ R[0] = all

LEMMA Prefixed ==
  ASSUME NEW T, Concatenates(T), NEW N \in Nat, N # 0,
         NEW codes \in [1..N -> T], NEW rest \in T,
         NEW F \in [1..N -> T], Partial(F, codes, N)
  PROVE  Readable(T, codes, N, rest, F[N] \o rest)
<1> DEFINE Left(R, k) ==
             /\ R[N] = rest
             /\ \A n \in 1..N : n > N - k => R[n - 1] = codes[n] \o R[n]
             /\ F[N - k] \o R[N - k] = F[N] \o rest
           P == {k \in 0..(N - 1) : \E R \in [0..N -> T] : Left(R, k)}
<1>1. 0 \in P
  <2>1. [n \in 0..N |-> rest] \in [0..N -> T] /\ 0 \in 0..(N - 1)
    OBVIOUS
  <2>2. Left([n \in 0..N |-> rest], 0)
    OBVIOUS
  <2> HIDE DEF Left
  <2> QED
    BY <2>1, <2>2
<1>2. ASSUME NEW k \in 0..(N - 1), k \in P, k # N - 1 PROVE k + 1 \in P
  <2>1. PICK R \in [0..N -> T] : Left(R, k)
    BY <1>2
  <2>2. PICK m \in 2..N : m = N - k
    BY <1>2
  <2>3. m - 1 \in 1..N /\ m - 1 \in 0..N /\ m \in 0..N /\ N - (k + 1) = m - 1 /\ k + 1 \in 0..(N - 1)
    BY <1>2, <2>2
  <2>4. PICK c \in T : c = codes[m]
    BY <2>2
  <2>5. PICK r \in T : r = R[m]
    BY <2>1, <2>3
  <2>6. PICK f \in T : f = F[m - 1]
    BY <2>3
  <2>7. c \o r \in T /\ (f \o c) \o r = f \o (c \o r)
    <3>1. c \o r \in T
      BY Closed
    <3>2. (f \o c) \o r = f \o (c \o r)
      <4>1. \A s, t, u \in T : (s \o t) \o u = s \o (t \o u)
        BY DEF Concatenates
      <4> QED
        BY <4>1
    <3> QED
      BY <3>1, <3>2
  <2> DEFINE Q == [R EXCEPT ![m - 1] = c \o r]
  <2>8. Q \in [0..N -> T]
    BY <2>1, <2>3, <2>7
  <2>9. Q[m - 1] = c \o r /\ \A n \in 0..N : n # m - 1 => Q[n] = R[n]
    BY <2>1, <2>3
  <2> HIDE DEF Q
  <2>10. F[m - 1] \o Q[m - 1] = F[N] \o rest
    <3>1. F[m] = f \o c
      BY <2>2, <2>4, <2>6 DEF Partial
    <3>2. F[m] \o R[m] = F[N] \o rest
      BY <2>1, <2>2
    <3> QED
      BY <2>5, <2>6, <2>7, <2>9, <3>1, <3>2
  <2>11. ASSUME NEW n \in 1..N, n > N - (k + 1) PROVE Q[n - 1] = codes[n] \o Q[n]
    <3>1. n >= m /\ n # m - 1 /\ n - 1 \in 0..N /\ n \in 0..N
      BY <2>2, <2>3, <2>11
    <3>2. Q[n] = R[n]
      BY <2>9, <3>1
    <3>3. CASE n = m
      BY <2>4, <2>5, <2>9, <3>2, <3>3
    <3>4. CASE n # m
      <4>1. n > N - k /\ n - 1 # m - 1
        BY <2>2, <3>1, <3>4
      <4>2. R[n - 1] = codes[n] \o R[n]
        BY <2>1, <4>1
      <4> QED
        BY <2>9, <3>1, <3>2, <4>1, <4>2
    <3> QED
      BY <3>3, <3>4
  <2>12. Q[N] = rest
    <3>1. N \in 0..N /\ N # m - 1
      BY <2>2
    <3> QED
      BY <2>1, <2>9, <3>1
  <2>13. Left(Q, k + 1)
    BY <2>3, <2>10, <2>11, <2>12
  <2> HIDE DEF Left
  <2> QED
    BY <2>3, <2>8, <2>13
<1>3. PICK R \in [0..N -> T] : Left(R, N - 1)
  <2>1. \A k \in 0..(N - 1) : k \in P
    <3>1. PICK L \in Nat : L = N - 1
      OBVIOUS
    <3> HIDE DEF P
    <3> QED
      BY <1>1, <1>2, <3>1, UpTo
  <2>2. N - 1 \in P
    <3> HIDE DEF P
    <3>1. N - 1 \in 0..(N - 1)
      OBVIOUS
    <3> QED
      BY <2>1, <3>1
  <2> HIDE DEF Left
  <2> QED
    BY <2>2
<1>4. PICK c \in T : c = codes[1]
  OBVIOUS
<1>5. PICK r \in T : r = R[1]
  BY <1>3
<1> DEFINE Q == [R EXCEPT ![0] = c \o r]
<1>6. Q \in [0..N -> T]
  BY <1>3, <1>4, <1>5 DEF Concatenates
<1>7. Q[0] = c \o r /\ \A n \in 1..N : Q[n] = R[n]
  BY <1>3
<1> HIDE DEF Q
<1>8. Q[0] = F[N] \o rest
  <2>1. N - (N - 1) = 1 /\ F[1] = codes[1]
    BY DEF Partial
  <2>2. F[1] \o R[1] = F[N] \o rest
    BY <1>3, <2>1
  <2> QED
    BY <1>4, <1>5, <1>7, <2>1, <2>2
<1>9. ASSUME NEW n \in 1..N PROVE Q[n - 1] = codes[n] \o Q[n]
  <2>1. CASE n = 1
    <3>1. Q[1] = r /\ n - 1 = 0
      BY <1>5, <1>7, <2>1
    <3> QED
      BY <1>4, <1>7, <2>1, <3>1
  <2>2. CASE n # 1
    <3>1. n - 1 \in 1..N /\ n > N - (N - 1)
      BY <2>2
    <3>2. R[n - 1] = codes[n] \o R[n]
      BY <1>3, <3>1
    <3> QED
      BY <1>7, <3>1, <3>2
  <2> QED
    BY <2>1, <2>2
<1>10. Q[N] = rest
  BY <1>3, <1>7
<1> QED
  BY <1>6, <1>8, <1>9, <1>10 DEF Unread, Readable

\* A sequence that is put together from codes is read from the first to the last.
LEMMA ReadInTurn ==
  ASSUME NEW S, NEW T \in SUBSET Seq(S), Concatenates(T),
         NEW codes, Len(codes) \in Nat, codes \in [1..Len(codes) -> T], NEW rest \in T
  PROVE  /\ Readable(T, codes, Len(codes), rest, FlattenSeq(codes) \o rest)
         /\ FlattenSeq(codes) \in T \cup {<<>>}
<1>1. rest \in Seq(S)
  OBVIOUS
<1>2. PICK N \in Nat : N = Len(codes)
  OBVIOUS
<1>3. Concatenates(T)
  OBVIOUS
<1>4. CASE N = 0
  <2>1. codes = <<>>
    BY <1>2, <1>4
  <2>2. FlattenSeq(codes) = <<>>
    BY <1>2, <1>4, <2>1 DEF FlattenSeq
  <2>3. <<>> \o rest = rest
    BY <1>1, ConcatEmptySeq
  <2>4. [n \in 0..N |-> rest] \in [0..N -> T]
    OBVIOUS
  <2>5. Unread([n \in 0..N |-> rest], codes, N, rest)
    BY <1>4 DEF Unread
  <2> QED
    BY <1>2, <1>4, <2>2, <2>3, <2>4, <2>5 DEF Readable
<1>5. CASE N # 0
  <2>1. PICK G : /\ G[1] = codes[1] /\ FlattenSeq(codes) = G[N]
                 /\ \A n \in 2..N : G[n] = G[n - 1] \o codes[n]
    BY <1>2, <1>5, Flattened
  <2> DEFINE P == {k \in 0..(N - 1) : G[k + 1] \in T}
  <2>2. 0 \in P
    BY <1>2, <1>5, <2>1
  <2>3. ASSUME NEW k \in 0..(N - 1), k \in P, k # N - 1 PROVE k + 1 \in P
    <3>1. (k + 1) + 1 \in 2..N /\ (k + 1) + 1 \in 1..N /\ ((k + 1) + 1) - 1 = k + 1 /\ k + 1 \in 0..(N - 1)
      BY <2>3
    <3>2. PICK c \in T : c = codes[(k + 1) + 1]
      BY <1>2, <3>1
    <3>3. PICK g \in T : g = G[k + 1]
      BY <2>3
    <3>4. G[(k + 1) + 1] = g \o c
      BY <2>1, <3>1, <3>2, <3>3
    <3>5. g \o c \in T
      BY <1>3, <3>2, <3>3 DEF Concatenates
    <3> QED
      BY <3>1, <3>4, <3>5
  <2>4. \A k \in 0..(N - 1) : k \in P
    <3>1. PICK L \in Nat : L = N - 1
      BY <1>5
    <3> HIDE DEF P
    <3> QED
      BY <2>2, <2>3, <3>1, UpTo
  <2> DEFINE F == [n \in 1..N |-> G[n]]
  <2>5. ASSUME NEW n \in 1..N PROVE G[n] \in T
    <3>1. n - 1 \in 0..(N - 1) /\ (n - 1) + 1 = n
      OBVIOUS
    <3> QED
      BY <2>4, <3>1
  <2>6. F \in [1..N -> T]
    BY <2>5
  <2>7. /\ F[1] = codes[1] /\ F[N] = FlattenSeq(codes)
        /\ \A n \in 2..N : F[n] = F[n - 1] \o codes[n]
    <3>1. 1 \in 1..N /\ N \in 1..N /\ \A n \in 2..N : n \in 1..N /\ n - 1 \in 1..N
      BY <1>5
    <3>2. \A n \in 1..N : F[n] = G[n]
      OBVIOUS
    <3> HIDE DEF F
    <3>3. F[1] = codes[1] /\ F[N] = FlattenSeq(codes)
      BY <2>1, <3>1, <3>2
    <3>4. ASSUME NEW n \in 2..N PROVE F[n] = F[n - 1] \o codes[n]
      BY <2>1, <3>1, <3>2, Zenon
    <3> QED
      BY <3>3, <3>4
  <2> HIDE DEF F
  <2>8. codes \in [1..N -> T] /\ rest \in T
    BY <1>2
  <2>9. Partial(F, codes, N)
    BY <2>7 DEF Partial
  <2>10. Readable(T, codes, N, rest, F[N] \o rest)
    BY <1>3, <1>5, <2>6, <2>8, <2>9, Prefixed
  <2> QED
    BY <1>2, <1>5, <2>6, <2>7, <2>10
<1> QED
  BY <1>4, <1>5

\* Two such sequences that are equal are of the same codes, if each code can be
\* told from where it begins, and so can the end.
SameReading(T, A, a, M, d, B, b, N, e) ==
  /\ Concatenates(T) /\ M \in Nat /\ N \in Nat /\ d \in T /\ e \in T
  /\ a \in [1..M -> T] /\ b \in [1..N -> T] /\ A \in [0..M -> T] /\ B \in [0..N -> T]
  /\ Unread(A, a, M, d) /\ Unread(B, b, N, e) /\ A[0] = B[0]
  /\ \A n \in 1..M : n <= N /\ A[n - 1] = B[n - 1] => a[n] = b[n]
  /\ \A n \in 1..M : A[n - 1] # e
  /\ \A n \in 1..N : B[n - 1] # d

SameUpTo(a, b, N) == \A n \in 1..N : a[n] = b[n]

LEMMA ReadAlike ==
  ASSUME NEW T, NEW M, NEW N, NEW a, NEW b, NEW d, NEW e, NEW A, NEW B,
         SameReading(T, A, a, M, d, B, b, N, e)
  PROVE  M = N /\ d = e /\ SameUpTo(a, b, M)
<1> USE DEF SameReading, SameUpTo
<1>0. PICK K \in Nat : K <= M /\ K <= N /\ (K = M \/ K = N)
  <2>1. CASE M <= N
    <3> WITNESS M \in Nat
    <3> QED
      BY <2>1
  <2>2. CASE N <= M
    <3> WITNESS N \in Nat
    <3> QED
      BY <2>2
  <2> QED
    BY <2>1, <2>2
<1> DEFINE P == {k \in 0..K : A[k] = B[k] /\ \A n \in 1..k : a[n] = b[n]}
<1>1. 0 \in P
  BY <1>0
<1>2. ASSUME NEW k \in 0..K, k \in P, k # K PROVE k + 1 \in P
  <2>1. PICK n \in 1..K : n = k + 1 /\ n - 1 = k
    BY <1>0, <1>2
  <2>2. n \in 1..M /\ n \in 1..N /\ n <= N /\ n \in 0..M /\ n \in 0..N /\ n \in 0..K
    BY <1>0, <2>1
  <2>3. A[n - 1] = B[n - 1] /\ \A i \in 1..k : a[i] = b[i]
    BY <1>2, <2>1
  <2>4. a[n] = b[n]
    BY <2>2, <2>3
  <2>5. PICK c \in T : c = a[n]
    BY <2>2
  <2>6. PICK s \in T : s = A[n]
    BY <2>2
  <2>7. PICK t \in T : t = B[n]
    BY <2>2
  <2>8. A[n - 1] = c \o s /\ B[n - 1] = c \o t
    BY <2>2, <2>4, <2>5, <2>6, <2>7 DEF Unread
  <2>9. A[n] = B[n]
    <3>1. c \o s = c \o t => s = t
      BY Cut
    <3> QED
      BY <2>3, <2>6, <2>7, <2>8, <3>1
  <2>10. \A i \in 1..(k + 1) : a[i] = b[i]
    BY <2>1, <2>3, <2>4
  <2> QED
    BY <2>1, <2>2, <2>9, <2>10
<1>3. A[K] = B[K] /\ \A n \in 1..K : a[n] = b[n]
  <2>1. \A k \in 0..K : k \in P
    <3> HIDE DEF P
    <3> QED
      BY <1>0, <1>1, <1>2, UpTo
  <2> QED
    BY <1>0, <2>1
<1>4. A[M] = d /\ B[N] = e
  BY DEF Unread
<1>5. ~ (M < N)
  <2> SUFFICES ASSUME M < N PROVE FALSE
    OBVIOUS
  <2>1. K = M /\ M + 1 \in 1..N /\ (M + 1) - 1 = M
    BY <1>0
  <2> QED
    BY <1>3, <1>4, <2>1
<1>6. ~ (N < M)
  <2> SUFFICES ASSUME N < M PROVE FALSE
    OBVIOUS
  <2>1. K = N /\ N + 1 \in 1..M /\ (N + 1) - 1 = N
    BY <1>0
  <2> QED
    BY <1>3, <1>4, <2>1
<1> QED
  BY <1>0, <1>3, <1>4, <1>5, <1>6

-----------------------------------------------------------------------------
(* The fingerprint: every piece of it ends where another cannot go on.     *)

Symbols == Strings \cup Domains \cup {"NUL", "NL", "://"} \cup {ToString(n) : n \in Int}
Prints == Seq(Symbols)

\* What a field may hold.
Unbroken == {f \in Prints : \A i \in 1..Len(f) : f[i] # "NUL"}

LEMMA PrintsConcatenate == Concatenates(Prints)
BY SeqConcatenates DEF Prints

LEMMA FieldAt ==
  ASSUME NEW f \in Unbroken, NEW s \in Prints
  PROVE  /\ Field(f) \in Prints /\ Field(f) \o s \in Prints
         /\ Len(Field(f) \o s) = Len(f) + 1 + Len(s)
         /\ \A i \in 1..Len(f) : (Field(f) \o s)[i] = f[i]
         /\ (Field(f) \o s)[Len(f) + 1] = "NUL"
<1>1. f \in Seq(Symbols) /\ s \in Seq(Symbols) /\ <<"NUL">> \in Seq(Symbols) /\ Len(<<"NUL">>) = 1
  BY DEF Unbroken, Prints, Symbols
<1>2. /\ Field(f) \in Seq(Symbols) /\ Len(Field(f)) = Len(f) + 1
      /\ \A i \in 1..(Len(f) + 1) : Field(f)[i] = IF i <= Len(f) THEN f[i] ELSE <<"NUL">>[i - Len(f)]
  BY <1>1, ConcatProperties DEF Field
<1> DEFINE w == Field(f) \o s
<1>3. /\ w \in Seq(Symbols) /\ Len(w) = Len(f) + 1 + Len(s)
      /\ \A i \in 1..(Len(f) + 1 + Len(s)) :
           w[i] = IF i <= Len(f) + 1 THEN Field(f)[i] ELSE s[i - (Len(f) + 1)]
  <2> DEFINE p == Field(f)
  <2>1. p \in Seq(Symbols) /\ Len(p) = Len(f) + 1
    BY <1>2
  <2> HIDE DEF p
  <2>2. /\ p \o s \in Seq(Symbols) /\ Len(p \o s) = Len(p) + Len(s)
        /\ \A i \in 1..(Len(p) + Len(s)) : (p \o s)[i] = IF i <= Len(p) THEN p[i] ELSE s[i - Len(p)]
    BY <1>1, <2>1, ConcatProperties
  <2>3. w = p \o s
    BY DEF p
  <2> HIDE DEF w
  <2>4. p = Field(f)
    BY DEF p
  <2> QED
    BY <2>1, <2>2, <2>3, <2>4
<1>4. Len(f) \in Nat /\ Len(s) \in Nat
  BY <1>1
<1> HIDE DEF w
<1>5. w[Len(f) + 1] = "NUL"
  BY <1>2, <1>3, <1>4
<1>6. \A i \in 1..Len(f) : w[i] = f[i]
  BY <1>2, <1>3, <1>4
<1> QED
  BY <1>2, <1>3, <1>5, <1>6 DEF w, Prints

LEMMA FieldShorter ==
  ASSUME NEW f \in Unbroken, NEW g \in Unbroken, NEW s \in Prints, NEW t \in Prints,
         Field(f) \o s = Field(g) \o t
  PROVE  ~ (Len(f) < Len(g))
<1> SUFFICES ASSUME Len(f) < Len(g) PROVE FALSE
  OBVIOUS
<1>1. Len(f) \in Nat /\ Len(g) \in Nat
  BY DEF Unbroken, Prints
<1>2. Len(f) + 1 \in 1..Len(g)
  BY <1>1
<1>3. (Field(f) \o s)[Len(f) + 1] = "NUL"
  BY FieldAt
<1>4. (Field(g) \o t)[Len(f) + 1] = g[Len(f) + 1]
  BY <1>2, FieldAt
<1> QED
  BY <1>2, <1>3, <1>4 DEF Unbroken

\* A field ends at its separator.
Alike(f, s, g, t) == Field(f) \o s = Field(g) \o t

LEMMA FieldCut ==
  ASSUME NEW f \in Unbroken, NEW g \in Unbroken, NEW s \in Prints, NEW t \in Prints,
         Alike(f, s, g, t)
  PROVE  f = g /\ s = t
<1>0. Field(f) \o s = Field(g) \o t
  BY DEF Alike
<1>1. Len(f) \in Nat /\ Len(g) \in Nat /\ f \in Seq(Symbols) /\ g \in Seq(Symbols)
  BY DEF Unbroken, Prints
<1>2. ~ (Len(f) < Len(g)) /\ ~ (Len(g) < Len(f))
  BY <1>0, FieldShorter
<1>3. Len(f) = Len(g)
  BY <1>1, <1>2
<1>4. \A i \in 1..Len(f) : (Field(f) \o s)[i] = f[i]
  BY FieldAt
<1>5. \A i \in 1..Len(g) : (Field(g) \o t)[i] = g[i]
  BY FieldAt
<1>6. f = g
  BY <1>0, <1>1, <1>3, <1>4, <1>5, SeqEqual
<1>7. Field(f) \in Prints
  BY FieldAt
<1>8. Field(f) \o s = Field(f) \o t
  BY <1>0, <1>6
<1>9. s = t
  BY <1>7, <1>8, Cut, PrintsConcatenate
<1> QED
  BY <1>6, <1>9

\* The first symbol of a field, and of what begins with one.
LEMMA FieldFirst ==
  ASSUME NEW f \in Unbroken, NEW s \in Prints
  PROVE  /\ Field(f) \o s # <<>>
         /\ (Field(f) \o s)[1] = IF f = <<>> THEN "NUL" ELSE f[1]
<1>1. Len(f) \in Nat /\ Len(s) \in Nat /\ f \in Seq(Symbols)
  BY DEF Unbroken, Prints
<1>2. Len(Field(f) \o s) # 0
  BY <1>1, FieldAt
<1>3. CASE f = <<>>
  <2>1. Len(f) + 1 = 1
    BY <1>3
  <2>2. (Field(f) \o s)[Len(f) + 1] = "NUL"
    BY FieldAt
  <2> QED
    BY <1>2, <1>3, <2>1, <2>2
<1>4. CASE f # <<>>
  <2>1. 1 \in 1..Len(f)
    BY <1>1, <1>4
  <2>2. (Field(f) \o s)[1] = f[1]
    BY <2>1, FieldAt
  <2> QED
    BY <1>2, <1>4, <2>2
<1> QED
  BY <1>3, <1>4

\* One symbol, or none for the empty text.
LEMMA OneSymbol ==
  ASSUME NEW c \in Symbols, c # "NUL"
  PROVE  <<c>> \in Unbroken /\ Text(c) \in Unbroken
<1>1. <<c>> \in Unbroken
  BY DEF Unbroken, Prints
<1>2. <<>> \in Unbroken
  BY DEF Unbroken, Prints
<1> QED
  BY <1>1, <1>2 DEF Text

LEMMA TextAlike ==
  ASSUME NEW c, NEW d, Text(c) = Text(d)
  PROVE  c = d
BY DEF Text

LEMMA StringUnbroken ==
  ASSUME Legible, NEW s \in Strings
  PROVE  s \in Symbols /\ s # "NUL" /\ Text(s) \in Unbroken
BY OneSymbol DEF Legible, Symbols

LEMMA PathUnbroken ==
  ASSUME Legible, NEW path \in Seq(Strings)
  PROVE  path \in Unbroken
<1>1. path \in Seq(Symbols)
  BY SeqMonotonic DEF Symbols
<1>2. \A i \in 1..Len(path) : path[i] \in Strings
  BY ElementOfSeq
<1> QED
  BY <1>1, <1>2 DEF Legible, Unbroken, Prints

LEMMA NumberUnbroken ==
  ASSUME Numerals(Int), NEW n \in Int
  PROVE  ToString(n) \in Symbols /\ ToString(n) # "NUL" /\ <<ToString(n)>> \in Unbroken
<1>1. ToString(n) \in Symbols /\ ToString(n) # "NUL"
  BY DEF Numerals, Symbols
<1> QED
  BY <1>1, OneSymbol

\* Targets, as far as a route has one, are told apart by their summaries.
LEMMA UrlSummary ==
  ASSUME Legible, Numerals(Int), NEW u \in Urls
  PROVE  LET t == Target("url", u)
             head == <<u.scheme, "://", u.host, ToString(u.port)>>
         IN /\ Summary(t) = head \o u.path /\ Summary(t) \in Unbroken
            /\ head \in Prints /\ u.path \in Prints
            /\ Len(Summary(t)) >= 4 /\ Summary(t)[1] = u.scheme /\ Summary(t)[2] = "://"
            /\ Summary(t)[3] = u.host /\ Summary(t)[4] = ToString(u.port)
<1> DEFINE head == <<u.scheme, "://", u.host, ToString(u.port)>>
           w == head \o u.path
<1>1. u.scheme \in Strings /\ u.host \in Strings /\ u.port \in Int /\ u.path \in Seq(Strings)
  BY DEF Urls, Upstreams
<1>2. /\ u.scheme \in Symbols /\ u.host \in Symbols /\ ToString(u.port) \in Symbols /\ "://" \in Symbols
      /\ u.scheme # "NUL" /\ u.host # "NUL" /\ ToString(u.port) # "NUL"
  BY <1>1, StringUnbroken, NumberUnbroken DEF Symbols
<1>3. head \in Seq(Symbols) /\ Len(head) = 4
  BY <1>2
<1>4. u.path \in Seq(Symbols) /\ \A i \in 1..Len(u.path) : u.path[i] # "NUL"
  BY <1>1, PathUnbroken DEF Unbroken, Prints
<1>5. Len(u.path) \in Nat
  BY <1>4
<1>6. /\ w \in Seq(Symbols) /\ Len(w) = 4 + Len(u.path)
      /\ \A i \in 1..(4 + Len(u.path)) : w[i] = IF i <= 4 THEN head[i] ELSE u.path[i - 4]
  <2> HIDE DEF head
  <2>1. /\ head \o u.path \in Seq(Symbols) /\ Len(head \o u.path) = Len(head) + Len(u.path)
        /\ \A i \in 1..(Len(head) + Len(u.path)) :
             (head \o u.path)[i] = IF i <= Len(head) THEN head[i] ELSE u.path[i - Len(head)]
    BY <1>3, <1>4, ConcatProperties
  <2>2. w = head \o u.path
    OBVIOUS
  <2> HIDE DEF w
  <2> QED
    BY <1>3, <2>1, <2>2
<1>7. /\ head[1] = u.scheme /\ head[2] = "://" /\ head[3] = u.host /\ head[4] = ToString(u.port)
      /\ \A i \in 1..4 : head[i] # "NUL"
  BY <1>2
<1>8. Summary(Target("url", u)) = w
  BY DEF Summary, Target
<1> HIDE DEF head, w
<1>9. w \in Unbroken
  <2>1. ASSUME NEW i \in 1..Len(w) PROVE w[i] # "NUL"
    <3>1. CASE i <= 4
      BY <1>5, <1>6, <1>7, <3>1
    <3>2. CASE ~ (i <= 4)
      <4>1. i - 4 \in 1..Len(u.path)
        BY <1>5, <1>6, <3>2
      <4> QED
        BY <1>4, <1>5, <1>6, <3>2, <4>1
    <3> QED
      BY <3>1, <3>2
  <2> QED
    BY <1>6, <2>1 DEF Unbroken, Prints
<1>10. w[1] = u.scheme /\ w[2] = "://" /\ w[3] = u.host /\ w[4] = ToString(u.port) /\ Len(w) >= 4
  BY <1>5, <1>6, <1>7
<1> QED
  BY <1>3, <1>4, <1>8, <1>9, <1>10 DEF head, w, Prints

LEMMA DirectorySummary ==
  ASSUME Legible, NEW path \in Directories
  PROVE  Summary(Directory(path)) = path /\ path \in Unbroken
<1>1. path \in Seq(Strings)
  BY DEF Directories
<1>2. Summary(Directory(path)) = <<>> \o path
  BY DEF Summary, Directory, Target, NoUpstream
<1> QED
  BY <1>1, <1>2, ConcatEmptySeq, PathUnbroken

LEMMA NoSummary == Summary(NoTarget) = <<>> /\ <<>> \in Unbroken
<1>1. Summary(NoTarget) = <<>> \o <<>>
  BY DEF Summary, NoTarget, Target, NoUpstream
<1>2. <<>> \in Seq(Strings)
  OBVIOUS
<1> QED
  BY <1>1, <1>2, ConcatEmptySeq DEF Unbroken, Prints

LEMMA UrlsAlike ==
  ASSUME Legible, Numerals(Int), NEW u \in Urls, NEW v \in Urls,
         Summary(Target("url", u)) = Summary(Target("url", v))
  PROVE  Target("url", u) = Target("url", v)
<1> DEFINE HeadOf(x) == <<x.scheme, "://", x.host, ToString(x.port)>>
<1>1. u.scheme = v.scheme /\ u.host = v.host /\ ToString(u.port) = ToString(v.port)
  <2>1. /\ Summary(Target("url", u))[1] = u.scheme /\ Summary(Target("url", u))[3] = u.host
        /\ Summary(Target("url", u))[4] = ToString(u.port)
    BY UrlSummary
  <2>2. /\ Summary(Target("url", v))[1] = v.scheme /\ Summary(Target("url", v))[3] = v.host
        /\ Summary(Target("url", v))[4] = ToString(v.port)
    BY UrlSummary
  <2> QED
    BY <2>1, <2>2
<1>2. u.port \in Int /\ v.port \in Int
  BY DEF Urls, Upstreams
<1>3. u.port = v.port
  BY <1>1, <1>2 DEF Numerals
<1>4. /\ HeadOf(u) \in Prints /\ u.path \in Prints
      /\ Summary(Target("url", u)) = HeadOf(u) \o u.path
  BY UrlSummary
<1>5. v.path \in Prints /\ Summary(Target("url", v)) = HeadOf(v) \o v.path
  BY UrlSummary
<1>6. HeadOf(u) = HeadOf(v)
  BY <1>1
<1>7. u.path = v.path
  <2> HIDE DEF HeadOf
  <2>1. HeadOf(u) \o u.path = HeadOf(u) \o v.path
    BY <1>4, <1>5, <1>6
  <2> QED
    BY <1>4, <1>5, <2>1, Cut, PrintsConcatenate
<1> QED
  BY <1>1, <1>3, <1>7 DEF Target

LEMMA UrlIsNoDirectory ==
  ASSUME Legible, Numerals(Int), NEW u \in Urls, NEW path \in Directories
  PROVE  Summary(Target("url", u)) # Summary(Directory(path))
<1> SUFFICES ASSUME Summary(Target("url", u)) = Summary(Directory(path)) PROVE FALSE
  OBVIOUS
<1>1. Len(path) >= 4 /\ path[2] = "://"
  BY UrlSummary, DirectorySummary
<1>2. path \in Seq(Strings) /\ "://" \notin ToSet(path)
  BY DEF Directories
<1>3. 2 \in DOMAIN path
  BY <1>1, <1>2
<1> QED
  BY <1>1, <1>2, <1>3 DEF ToSet

LEMMA TargetsAlike ==
  ASSUME Legible, Numerals(Int),
         NEW t \in {NoTarget} \cup Parsable, NEW w \in {NoTarget} \cup Parsable,
         t.kind \in {"url", "root"} <=> w.kind \in {"url", "root"}
  PROVE  Summary(t) \in Unbroken /\ (Summary(t) = Summary(w) => t = w)
<1>0. NoTarget.kind = "none"
  BY DEF NoTarget, Target
<1>1. \A u \in Urls : Target("url", u).kind = "url"
  BY DEF Target
<1>2. \A path \in Directories : Directory(path).kind = "root"
  BY DirectoryTyped
<1>3. CASE t = NoTarget
  <2>1. w = NoTarget
    BY <1>0, <1>1, <1>2, <1>3 DEF Parsable
  <2> QED
    BY <1>3, <2>1, NoSummary
<1>4. ASSUME NEW u \in Urls, t = Target("url", u)
      PROVE  Summary(t) \in Unbroken /\ (Summary(t) = Summary(w) => t = w)
  <2>1. Summary(t) \in Unbroken
    BY <1>4, UrlSummary
  <2>2. CASE w = NoTarget
    BY <1>0, <1>1, <1>4, <2>2
  <2>3. ASSUME NEW v \in Urls, w = Target("url", v) PROVE Summary(t) = Summary(w) => t = w
    BY <1>4, <2>3, UrlsAlike
  <2>4. ASSUME NEW path \in Directories, w = Directory(path) PROVE Summary(t) = Summary(w) => t = w
    BY <1>4, <2>4, UrlIsNoDirectory
  <2> QED
    BY <2>1, <2>2, <2>3, <2>4 DEF Parsable
<1>5. ASSUME NEW path \in Directories, t = Directory(path)
      PROVE  Summary(t) \in Unbroken /\ (Summary(t) = Summary(w) => t = w)
  <2>1. Summary(t) = path /\ path \in Unbroken
    BY <1>5, DirectorySummary
  <2>2. CASE w = NoTarget
    BY <1>0, <1>2, <1>5, <2>2
  <2>3. ASSUME NEW v \in Urls, w = Target("url", v) PROVE Summary(t) # Summary(w)
    BY <1>5, <2>3, UrlIsNoDirectory
  <2>4. ASSUME NEW other \in Directories, w = Directory(other) PROVE Summary(t) = Summary(w) => t = w
    BY <1>5, <2>1, <2>4, DirectorySummary
  <2> QED
    BY <2>1, <2>2, <2>3, <2>4 DEF Parsable
<1> QED
  BY <1>3, <1>4, <1>5 DEF Parsable

\* What a prefix begins is the code of a route.
SoundRoutes == {r \in Routes : SoundRoute(r)}

\* A route is four fields, one after the other, and an end that is always the same.
LEMMA RoutePieces ==
  ASSUME Legible, Numerals(Int), NEW r \in SoundRoutes, NEW s \in Prints
  PROVE  LET end == <<"NUL", "NUL", "NL">>
             body == Field(Text(r.body)) \o (end \o s)
             status == Field(<<ToString(r.status)>>) \o body
             target == Field(Summary(r.target)) \o status
         IN /\ r.prefix \in Unbroken /\ Summary(r.target) \in Unbroken
            /\ <<ToString(r.status)>> \in Unbroken /\ Text(r.body) \in Unbroken
            /\ end \o s \in Prints /\ body \in Prints /\ status \in Prints /\ target \in Prints
            /\ RouteFingerprint(r) \in Prints
            /\ RouteFingerprint(r) \o s = Field(r.prefix) \o target
<1>1. r.prefix \in Seq(Strings) /\ r.status \in Int /\ r.body \in Strings
  BY DEF SoundRoutes, Routes
<1>2. r.prefix \in Unbroken /\ <<ToString(r.status)>> \in Unbroken /\ Text(r.body) \in Unbroken
  BY <1>1, PathUnbroken, NumberUnbroken, StringUnbroken
<1>3. Summary(r.target) \in Unbroken
  BY TargetsAlike DEF SoundRoutes, SoundRoute
<1>4. PICK a \in Prints : a = Field(r.prefix)
  BY <1>2, FieldAt
<1>5. PICK b \in Prints : b = Field(Summary(r.target))
  BY <1>3, FieldAt
<1>6. PICK c \in Prints : c = Field(<<ToString(r.status)>>)
  BY <1>2, FieldAt
<1>7. PICK d \in Prints : d = Field(Text(r.body))
  BY <1>2, FieldAt
<1>8. PICK e \in Prints : e = <<"NUL", "NUL", "NL">>
  <2>1. "NUL" \in Symbols /\ "NL" \in Symbols
    BY DEF Symbols
  <2>2. <<"NUL", "NUL", "NL">> \in Seq(Symbols)
    BY <2>1
  <2> QED
    BY <2>2 DEF Prints
<1>9. e \o s \in Prints
  BY Closed, PrintsConcatenate
<1>10. d \o (e \o s) \in Prints
  BY <1>9, Closed, PrintsConcatenate
<1>11. c \o (d \o (e \o s)) \in Prints
  BY <1>10, Closed, PrintsConcatenate
<1>12. b \o (c \o (d \o (e \o s))) \in Prints
  BY <1>11, Closed, PrintsConcatenate
<1>13. RouteFingerprint(r) = (((a \o b) \o c) \o d) \o e
  BY <1>4, <1>5, <1>6, <1>7, <1>8 DEF RouteFingerprint
<1>14. ((((a \o b) \o c) \o d) \o e) \o s = a \o (b \o (c \o (d \o (e \o s))))
  <2>1. Regrouped(a, b, c, d, e, s)
    BY FiveGrouped, PrintsConcatenate
  <2> QED
    BY <2>1, Zenon DEF Regrouped
<1>15. (((a \o b) \o c) \o d) \o e \in Prints
  <2>1. a \o b \in Prints
    BY Closed, PrintsConcatenate
  <2>2. (a \o b) \o c \in Prints
    BY <2>1, Closed, PrintsConcatenate
  <2>3. ((a \o b) \o c) \o d \in Prints
    BY <2>2, Closed, PrintsConcatenate
  <2> QED
    BY <2>3, Closed, PrintsConcatenate
<1> QED
  BY <1>2, <1>3, <1>4, <1>5, <1>6, <1>7, <1>8, <1>9, <1>10, <1>11, <1>12, <1>13, <1>14, <1>15

\* A route can be told from where it begins.
LEMMA RouteCut ==
  ASSUME Legible, Numerals(Int), NEW r \in SoundRoutes, NEW q \in SoundRoutes,
         NEW s \in Prints, NEW t \in Prints,
         RouteFingerprint(r) \o s = RouteFingerprint(q) \o t
  PROVE  r = q
<1> DEFINE End(x) == <<"NUL", "NUL", "NL">> \o x
           Body(y, x) == Field(Text(y.body)) \o End(x)
           Status(y, x) == Field(<<ToString(y.status)>>) \o Body(y, x)
           Goal(y, x) == Field(Summary(y.target)) \o Status(y, x)
<1>1. /\ r.prefix \in Unbroken /\ Summary(r.target) \in Unbroken
      /\ <<ToString(r.status)>> \in Unbroken /\ Text(r.body) \in Unbroken
      /\ End(s) \in Prints /\ Body(r, s) \in Prints /\ Status(r, s) \in Prints /\ Goal(r, s) \in Prints
      /\ RouteFingerprint(r) \o s = Field(r.prefix) \o Goal(r, s)
  BY RoutePieces, Zenon
<1>2. /\ q.prefix \in Unbroken /\ Summary(q.target) \in Unbroken
      /\ <<ToString(q.status)>> \in Unbroken /\ Text(q.body) \in Unbroken
      /\ End(t) \in Prints /\ Body(q, t) \in Prints /\ Status(q, t) \in Prints /\ Goal(q, t) \in Prints
      /\ RouteFingerprint(q) \o t = Field(q.prefix) \o Goal(q, t)
  BY RoutePieces, Zenon
<1> HIDE DEF Goal
<1>3. r.prefix = q.prefix /\ Goal(r, s) = Goal(q, t)
  <2>1. Alike(r.prefix, Goal(r, s), q.prefix, Goal(q, t))
    BY <1>1, <1>2, Zenon DEF Alike
  <2> QED
    BY <1>1, <1>2, <2>1, FieldCut
<1> HIDE DEF Status
<1>4. Summary(r.target) = Summary(q.target) /\ Status(r, s) = Status(q, t)
  <2>1. Alike(Summary(r.target), Status(r, s), Summary(q.target), Status(q, t))
    BY <1>3 DEF Goal, Alike
  <2> QED
    BY <1>1, <1>2, <2>1, FieldCut
<1> HIDE DEF Body
<1>5. <<ToString(r.status)>> = <<ToString(q.status)>> /\ Body(r, s) = Body(q, t)
  <2>1. Alike(<<ToString(r.status)>>, Body(r, s), <<ToString(q.status)>>, Body(q, t))
    BY <1>4 DEF Status, Alike
  <2> QED
    BY <1>1, <1>2, <2>1, FieldCut
<1> HIDE DEF End
<1>6. Text(r.body) = Text(q.body)
  <2>1. Alike(Text(r.body), End(s), Text(q.body), End(t))
    BY <1>5 DEF Body, Alike
  <2> QED
    BY <1>1, <1>2, <2>1, FieldCut
<1>7. r.body = q.body
  BY <1>6, TextAlike
<1>8. r.status \in Int /\ q.status \in Int /\ r \in Routes /\ q \in Routes
  BY DEF SoundRoutes, Routes
<1>9. r.status = q.status
  BY <1>5, <1>8 DEF Numerals
<1>10. r.target = q.target
  <2>1. /\ r.target \in {NoTarget} \cup Parsable /\ q.target \in {NoTarget} \cup Parsable
        /\ r.target.kind \in {"url", "root"} <=> q.target.kind \in {"url", "root"}
    BY <1>9 DEF SoundRoutes, SoundRoute
  <2> QED
    BY <1>4, <2>1, TargetsAlike
<1> QED
  BY <1>3, <1>7, <1>8, <1>9, <1>10 DEF Routes

LEMMA RouteFirst ==
  ASSUME Legible, Numerals(Int), NEW r \in SoundRoutes, NEW s \in Prints
  PROVE  /\ RouteFingerprint(r) \in Prints /\ RouteFingerprint(r) \o s # <<>>
         /\ (RouteFingerprint(r) \o s)[1] = "/"
<1>1. r.prefix \in Unbroken /\ RouteFingerprint(r) \in Prints
  BY RoutePieces, Zenon
<1>2. \E x \in Prints : RouteFingerprint(r) \o s = Field(r.prefix) \o x
  BY RoutePieces, Zenon
<1>3. r.prefix # <<>> /\ r.prefix[1] = "/"
  BY DEF SoundRoutes, SoundRoute
<1> QED
  BY <1>1, <1>2, <1>3, FieldFirst

\* The code of a list is the codes of what is in it, one after the other.
Coded(Code, list) == FlattenSeq([i \in DOMAIN list |-> Code[list[i]]])

\* What is in the list can be told from where it begins, and so can the end.
Separable(T, X, Code, Ends) ==
  /\ Code \in [X -> T] /\ Ends \subseteq T
  /\ \A x, y \in X : \A s, t \in T : Code[x] \o s = Code[y] \o t => x = y
  /\ \A x \in X : \A s \in T : Code[x] \o s \notin Ends

LEMMA FunctionIsSequence ==
  ASSUME NEW S, NEW N \in Nat, NEW f \in [1..N -> S]
  PROVE  f \in Seq(S) /\ Len(f) = N
OBVIOUS

LEMMA ListRead ==
  ASSUME NEW T \in SUBSET Prints, Concatenates(T), NEW X, NEW Code \in [X -> T],
         NEW list \in Seq(X), NEW s \in T
  PROVE  \E c \in [1..Len(list) -> T] :
           /\ \A n \in 1..Len(list) : c[n] = Code[list[n]]
           /\ Readable(T, c, Len(list), s, Coded(Code, list) \o s)
           /\ Coded(Code, list) \in T \cup {<<>>}
<1>1. Len(list) \in Nat /\ DOMAIN list = 1..Len(list) /\ \A n \in 1..Len(list) : list[n] \in X
  BY LenProperties, ElementOfSeq
<1> DEFINE c == [i \in DOMAIN list |-> Code[list[i]]]
<1>2. c \in [1..Len(list) -> T] /\ \A n \in 1..Len(list) : c[n] = Code[list[n]]
  BY <1>1
<1>3. Coded(Code, list) = FlattenSeq(c)
  BY DEF Coded
<1> HIDE DEF c
<1>4. Len(c) = Len(list)
  BY <1>1, <1>2, FunctionIsSequence
<1>5. Readable(T, c, Len(list), s, FlattenSeq(c) \o s) /\ FlattenSeq(c) \in T \cup {<<>>}
  <2>1. Len(c) \in Nat /\ c \in [1..Len(c) -> T] /\ T \in SUBSET Seq(Symbols)
    BY <1>1, <1>2, <1>4 DEF Prints
  <2>2. Readable(T, c, Len(c), s, FlattenSeq(c) \o s) /\ FlattenSeq(c) \in T \cup {<<>>}
    BY <2>1, ReadInTurn
  <2> QED
    BY <1>4, <2>2
<1> QED
  BY <1>2, <1>3, <1>5

SameList(T, X, Code, Ends, a, s, b, t) ==
  /\ T \subseteq Prints /\ Concatenates(T) /\ Separable(T, X, Code, Ends)
  /\ a \in Seq(X) /\ b \in Seq(X) /\ s \in Ends /\ t \in Ends
  /\ Coded(Code, a) \o s = Coded(Code, b) \o t

LEMMA ListCut ==
  ASSUME NEW T, NEW X, NEW Code, NEW Ends, NEW a, NEW b, NEW s, NEW t,
         SameList(T, X, Code, Ends, a, s, b, t)
  PROVE  a = b /\ s = t
<1> USE DEF SameList
<1>1. Code \in [X -> T] /\ s \in T /\ t \in T
  BY DEF Separable
<1>2. PICK c \in [1..Len(a) -> T] :
        /\ \A n \in 1..Len(a) : c[n] = Code[a[n]]
        /\ Readable(T, c, Len(a), s, Coded(Code, a) \o s)
  BY <1>1, ListRead
<1>3. PICK d \in [1..Len(b) -> T] :
        /\ \A n \in 1..Len(b) : d[n] = Code[b[n]]
        /\ Readable(T, d, Len(b), t, Coded(Code, b) \o t)
  BY <1>1, ListRead
<1>4. PICK M \in Nat : M = Len(a)
  BY LenProperties
<1>5. PICK N \in Nat : N = Len(b)
  BY LenProperties
<1>6. /\ c \in [1..M -> T] /\ d \in [1..N -> T]
      /\ \A n \in 1..M : a[n] \in X /\ c[n] = Code[a[n]]
      /\ \A n \in 1..N : b[n] \in X /\ d[n] = Code[b[n]]
  BY <1>2, <1>3, <1>4, <1>5, ElementOfSeq
<1>7. PICK A \in [0..M -> T] : Unread(A, c, M, s) /\ A[0] = Coded(Code, a) \o s
  BY <1>2, <1>4 DEF Readable
<1>8. PICK B \in [0..N -> T] : Unread(B, d, N, t) /\ B[0] = Coded(Code, b) \o t
  BY <1>3, <1>5 DEF Readable
<1>9. ASSUME NEW n \in 1..M PROVE A[n] \in T /\ A[n - 1] = Code[a[n]] \o A[n]
  <2>1. n \in 0..M
    OBVIOUS
  <2>2. A[n - 1] = c[n] \o A[n]
    BY <1>7 DEF Unread
  <2>3. c[n] = Code[a[n]]
    BY <1>6
  <2> QED
    BY <2>1, <2>2, <2>3
<1>10. ASSUME NEW n \in 1..N PROVE B[n] \in T /\ B[n - 1] = Code[b[n]] \o B[n]
  <2>1. n \in 0..N
    OBVIOUS
  <2>2. B[n - 1] = d[n] \o B[n]
    BY <1>8 DEF Unread
  <2>3. d[n] = Code[b[n]]
    BY <1>6
  <2> QED
    BY <2>1, <2>2, <2>3
<1>11. ASSUME NEW n \in 1..M, n <= N, A[n - 1] = B[n - 1] PROVE a[n] = b[n]
  <2>1. n \in 1..N
    BY <1>11
  <2>2. Code[a[n]] \o A[n] = Code[b[n]] \o B[n]
    BY <1>9, <1>10, <1>11, <2>1
  <2>3. a[n] \in X /\ b[n] \in X /\ A[n] \in T /\ B[n] \in T
    BY <1>6, <1>9, <1>10, <2>1
  <2> QED
    BY <2>2, <2>3, Zenon DEF Separable
<1>12. ASSUME NEW n \in 1..M PROVE A[n - 1] # t
  <2>1. a[n] \in X /\ A[n] \in T
    BY <1>6, <1>9
  <2>2. Code[a[n]] \o A[n] \notin Ends
    BY <2>1, Zenon DEF Separable
  <2> QED
    BY <1>9, <2>2
<1>13. ASSUME NEW n \in 1..N PROVE B[n - 1] # s
  <2>1. b[n] \in X /\ B[n] \in T
    BY <1>6, <1>10
  <2>2. Code[b[n]] \o B[n] \notin Ends
    BY <2>1, Zenon DEF Separable
  <2> QED
    BY <1>10, <2>2
<1>14. A[0] = B[0]
  BY <1>7, <1>8
<1>15. \A n \in 1..M : n <= N /\ A[n - 1] = B[n - 1] => c[n] = d[n]
  <2>1. \A n \in 1..M : n <= N => n \in 1..N
    OBVIOUS
  <2> QED
    BY <1>6, <1>11, <2>1
<1>16. M = N /\ s = t /\ \A n \in 1..M : c[n] = d[n]
  <2>1. c \in [1..M -> T] /\ d \in [1..N -> T]
    BY <1>6
  <2>2. SameReading(T, A, c, M, s, B, d, N, t)
    BY <1>1, <1>7, <1>8, <1>12, <1>13, <1>14, <1>15, <2>1, Zenon DEF SameReading
  <2>3. M = N /\ s = t /\ SameUpTo(c, d, M)
    BY <2>2, ReadAlike
  <2> QED
    BY <2>3 DEF SameUpTo
<1>17. ASSUME NEW n \in 1..M PROVE a[n] = b[n]
  <2>1. Code[a[n]] \o s = Code[b[n]] \o s
    BY <1>6, <1>16
  <2>2. a[n] \in X /\ b[n] \in X
    BY <1>6, <1>16
  <2> QED
    BY <1>1, <2>1, <2>2, Zenon DEF Separable
<1> QED
  BY <1>4, <1>5, <1>16, <1>17, SeqEqual
\* The routes of an entry.
RouteCode == [r \in SoundRoutes |-> RouteFingerprint(r)]

\* What may follow them.
EndsRoutes == {s \in Prints : s = <<>> \/ s[1] # "/"}

LEMMA RoutesSeparable ==
  ASSUME Legible, Numerals(Int)
  PROVE  Separable(Prints, SoundRoutes, RouteCode, EndsRoutes)
<1>1. <<>> \in Prints
  BY DEF Prints
<1>2. ASSUME NEW r \in SoundRoutes PROVE RouteFingerprint(r) \in Prints
  BY <1>1, RouteFirst
<1>3. RouteCode \in [SoundRoutes -> Prints] /\ \A r \in SoundRoutes : RouteCode[r] = RouteFingerprint(r)
  BY <1>2 DEF RouteCode
<1>4. ASSUME NEW r \in SoundRoutes, NEW q \in SoundRoutes, NEW s \in Prints, NEW t \in Prints,
             RouteCode[r] \o s = RouteCode[q] \o t
      PROVE  r = q
  BY <1>3, <1>4, RouteCut
<1>5. ASSUME NEW r \in SoundRoutes, NEW s \in Prints PROVE RouteCode[r] \o s \notin EndsRoutes
  <2>1. RouteFingerprint(r) \o s # <<>> /\ (RouteFingerprint(r) \o s)[1] = "/"
    BY RouteFirst
  <2> QED
    BY <1>3, <2>1 DEF EndsRoutes
<1>6. EndsRoutes \subseteq Prints
  BY DEF EndsRoutes
<1> QED
  BY <1>3, <1>4, <1>5, <1>6 DEF Separable

LEMMA EndsRoutesConcatenate == Concatenates(EndsRoutes)
<1>1. ASSUME NEW s \in EndsRoutes, NEW t \in EndsRoutes PROVE s \o t \in EndsRoutes
  <2>1. s \in Seq(Symbols) /\ t \in Seq(Symbols)
    BY DEF EndsRoutes, Prints
  <2>2. CASE s = <<>>
    BY <2>1, <2>2, ConcatEmptySeq
  <2>3. CASE s # <<>>
    <3>1. /\ s \o t \in Seq(Symbols) /\ Len(s \o t) = Len(s) + Len(t)
          /\ \A i \in 1..(Len(s) + Len(t)) : (s \o t)[i] = IF i <= Len(s) THEN s[i] ELSE t[i - Len(s)]
      BY <2>1, ConcatProperties
    <3>2. Len(s) \in Nat /\ Len(t) \in Nat /\ Len(s) # 0
      BY <2>1, <2>3
    <3>3. (s \o t)[1] = s[1]
      BY <3>1, <3>2
    <3> QED
      BY <2>3, <3>1, <3>3 DEF EndsRoutes, Prints
  <2> QED
    BY <2>2, <2>3
<1>2. EndsRoutes \subseteq Prints
  BY DEF EndsRoutes
<1>3. \A s, t, u \in Prints : (s \o t) \o u = s \o (t \o u)
  BY PrintsConcatenate DEF Concatenates
<1>4. \A s, t, u \in Prints : s \o t = s \o u => t = u
  BY PrintsConcatenate DEF Concatenates
<1>5. \A s, t, u \in EndsRoutes : (s \o t) \o u = s \o (t \o u)
  BY <1>2, <1>3, Zenon
<1>6. \A s, t, u \in EndsRoutes : s \o t = s \o u => t = u
  BY <1>2, <1>4, Zenon
<1> QED
  BY <1>1, <1>5, <1>6, Zenon DEF Concatenates

\* An entry is two fields and its routes.
SoundEntries == {e \in Entries : e.routes \in Seq(SoundRoutes)}

LEMMA EntryFields ==
  ASSUME NEW e \in SoundEntries
  PROVE  e.protocol \in Protocols \cup {""} /\ e.port \in Int
<1>1. e \in Entries
  BY DEF SoundEntries
<1>2. e.protocol \in Protocols \cup {""}
  BY <1>1 DEF Entries, AnyProtocol
<1>3. e.port \in {AnyPort} \cup PortNumbers
  BY <1>1 DEF Entries
<1>4. AnyPort \in Int
  BY DEF AnyPort
<1>5. PortNumbers \subseteq Int
  BY DEF PortNumbers
<1> QED
  BY <1>2, <1>3, <1>4, <1>5

LEMMA RoutesCoded ==
  ASSUME Legible, Numerals(Int), NEW e \in SoundEntries
  PROVE  RoutesFingerprint(e) = Coded(RouteCode, e.routes) /\ RoutesFingerprint(e) \in Prints
<1>1. e.routes \in Seq(SoundRoutes) /\ <<>> \in Prints
  BY DEF SoundEntries, Prints
<1>2. \A i \in DOMAIN e.routes : e.routes[i] \in SoundRoutes
  BY <1>1
<1>3. [i \in DOMAIN e.routes |-> RouteFingerprint(e.routes[i])]
        = [i \in DOMAIN e.routes |-> RouteCode[e.routes[i]]]
  BY <1>2 DEF RouteCode
<1>4. RoutesFingerprint(e) = Coded(RouteCode, e.routes)
  BY <1>3 DEF RoutesFingerprint, Coded
<1>5. RouteCode \in [SoundRoutes -> Prints]
  BY RoutesSeparable DEF Separable
<1>6. Coded(RouteCode, e.routes) \in Prints \cup {<<>>}
  BY <1>1, <1>5, PrintsConcatenate, ListRead
<1> QED
  BY <1>1, <1>4, <1>6

LEMMA EntryPieces ==
  ASSUME Legible, Numerals(Int), NEW e \in SoundEntries, NEW s \in Prints
  PROVE  LET routes == RoutesFingerprint(e) \o s
             port == Field(<<ToString(e.port)>>) \o routes
         IN /\ Text(e.protocol) \in Unbroken /\ <<ToString(e.port)>> \in Unbroken
            /\ routes \in Prints /\ port \in Prints
            /\ EntryFingerprint(e) \in Prints
            /\ EntryFingerprint(e) \o s = Field(Text(e.protocol)) \o port
<1>1. e.protocol \in Protocols \cup {""} /\ e.port \in Int
  BY EntryFields
<1>2. e.protocol \in Strings
  BY <1>1, StringAssumption DEF Protocols, StringAssumption
<1>3. Text(e.protocol) \in Unbroken /\ <<ToString(e.port)>> \in Unbroken
  BY <1>1, <1>2, StringUnbroken, NumberUnbroken
<1>4. PICK a \in Prints : a = Field(Text(e.protocol))
  BY <1>3, FieldAt
<1>5. PICK b \in Prints : b = Field(<<ToString(e.port)>>)
  BY <1>3, FieldAt
<1>6. PICK c \in Prints : c = RoutesFingerprint(e)
  BY RoutesCoded
<1>7. EntryFingerprint(e) = (a \o b) \o c
  BY <1>4, <1>5, <1>6 DEF EntryFingerprint
<1>8. c \o s \in Prints /\ a \o b \in Prints
  BY Closed, PrintsConcatenate
<1>9. b \o (c \o s) \in Prints /\ (a \o b) \o c \in Prints
  BY <1>8, Closed, PrintsConcatenate
<1>10. ((a \o b) \o c) \o s = a \o (b \o (c \o s))
  <2>1. Grouped(a, b, c, s)
    BY ThreeGrouped, PrintsConcatenate
  <2> QED
    BY <2>1, Zenon DEF Grouped
<1> QED
  BY <1>3, <1>4, <1>5, <1>6, <1>7, <1>8, <1>9, <1>10

LEMMA EntryFirst ==
  ASSUME Legible, Numerals(Int), NEW e \in SoundEntries, NEW s \in Prints
  PROVE  EntryFingerprint(e) \o s # <<>> /\ (EntryFingerprint(e) \o s)[1] # "/"
<1>1. /\ Text(e.protocol) \in Unbroken
      /\ \E x \in Prints : EntryFingerprint(e) \o s = Field(Text(e.protocol)) \o x
  BY EntryPieces, Zenon
<1>2. Text(e.protocol) = <<>> \/ Text(e.protocol)[1] # "/"
  <2>1. e.protocol \in Protocols \cup {""}
    BY DEF SoundEntries, Entries, AnyProtocol
  <2> QED
    BY <2>1 DEF Text, Protocols
<1> QED
  BY <1>1, <1>2, FieldFirst
EntryCode == [e \in SoundEntries |-> EntryFingerprint(e)]

\* What may follow the entries of a domain: nothing, or the next domain.
EndsEntries ==
  {s \in Prints :
     \/ s = <<>>
     \/ \E d \in Domains, p \in Protocols \cup {""}, u \in Prints :
          s = Field(<<d>>) \o (Field(Text(p)) \o u)}

LEMMA DomainUnbroken ==
  ASSUME Legible, NEW d \in Domains
  PROVE  <<d>> \in Unbroken
BY OneSymbol DEF Legible, Symbols

LEMMA ProtocolUnbroken ==
  ASSUME Legible, NEW p \in Protocols \cup {""}
  PROVE  Text(p) \in Unbroken
<1>1. p \in Strings
  BY StringAssumption DEF Protocols, StringAssumption
<1> QED
  BY <1>1, StringUnbroken

LEMMA EndsEntriesFirst ==
  ASSUME Legible
  PROVE  EndsEntries \subseteq EndsRoutes
<1> SUFFICES ASSUME NEW s \in EndsEntries, s # <<>> PROVE s[1] # "/"
  BY DEF EndsEntries, EndsRoutes
<1>1. PICK d \in Domains, p \in Protocols \cup {""}, u \in Prints :
        s = Field(<<d>>) \o (Field(Text(p)) \o u)
  BY DEF EndsEntries
<1>2. <<d>> \in Unbroken /\ Field(Text(p)) \o u \in Prints
  BY DomainUnbroken, ProtocolUnbroken, FieldAt
<1>3. s[1] = <<d>>[1]
  BY <1>1, <1>2, FieldFirst
<1> QED
  BY <1>3 DEF Legible

\* An entry can be told from where it begins, when routes have an end.
LEMMA EntryCut ==
  ASSUME Legible, Numerals(Int), NEW e \in SoundEntries, NEW f \in SoundEntries,
         NEW s \in EndsRoutes, NEW t \in EndsRoutes,
         EntryFingerprint(e) \o s = EntryFingerprint(f) \o t
  PROVE  e = f
<1> DEFINE Listed(x, y) == RoutesFingerprint(x) \o y
           Port(x, y) == Field(<<ToString(x.port)>>) \o Listed(x, y)
<1>0. s \in Prints /\ t \in Prints
  BY DEF EndsRoutes
<1>1. /\ Text(e.protocol) \in Unbroken /\ <<ToString(e.port)>> \in Unbroken
      /\ Listed(e, s) \in Prints /\ Port(e, s) \in Prints
      /\ EntryFingerprint(e) \o s = Field(Text(e.protocol)) \o Port(e, s)
  BY <1>0, EntryPieces, Zenon
<1>2. /\ Text(f.protocol) \in Unbroken /\ <<ToString(f.port)>> \in Unbroken
      /\ Listed(f, t) \in Prints /\ Port(f, t) \in Prints
      /\ EntryFingerprint(f) \o t = Field(Text(f.protocol)) \o Port(f, t)
  BY <1>0, EntryPieces, Zenon
<1> HIDE DEF Port
<1>3. Text(e.protocol) = Text(f.protocol) /\ Port(e, s) = Port(f, t)
  <2>1. Alike(Text(e.protocol), Port(e, s), Text(f.protocol), Port(f, t))
    BY <1>1, <1>2, Zenon DEF Alike
  <2> QED
    BY <1>1, <1>2, <2>1, FieldCut
<1> HIDE DEF Listed
<1>4. <<ToString(e.port)>> = <<ToString(f.port)>> /\ Listed(e, s) = Listed(f, t)
  <2>1. Alike(<<ToString(e.port)>>, Listed(e, s), <<ToString(f.port)>>, Listed(f, t))
    BY <1>3 DEF Port, Alike
  <2> QED
    BY <1>1, <1>2, <2>1, FieldCut
<1>5. e.routes = f.routes
  <2>1. PICK a \in Seq(SoundRoutes) : a = e.routes
    BY DEF SoundEntries
  <2>2. PICK b \in Seq(SoundRoutes) : b = f.routes
    BY DEF SoundEntries
  <2>3. Coded(RouteCode, a) \o s = Coded(RouteCode, b) \o t
    BY <1>4, <2>1, <2>2, RoutesCoded DEF Listed
  <2>4. Separable(Prints, SoundRoutes, RouteCode, EndsRoutes)
    BY RoutesSeparable
  <2> QED
    <3>1. SameList(Prints, SoundRoutes, RouteCode, EndsRoutes, a, s, b, t)
      BY <2>3, <2>4, PrintsConcatenate DEF SameList
    <3> QED
      BY <2>1, <2>2, <3>1, ListCut
<1>6. e.protocol = f.protocol
  BY <1>3, TextAlike
<1>7. e \in Entries /\ f \in Entries
  BY DEF SoundEntries
<1>8. e.port = f.port
  <2>1. e.port \in Int /\ f.port \in Int
    BY EntryFields
  <2> QED
    BY <1>4, <2>1 DEF Numerals
<1> QED
  BY <1>5, <1>6, <1>7, <1>8 DEF Entries

\* No entry looks like a domain: what follows it is no protocol but a number.
LEMMA EntryNotEnd ==
  ASSUME Legible, Numerals(Int), NEW e \in SoundEntries, NEW s \in Prints
  PROVE  EntryFingerprint(e) \o s \notin EndsEntries
<1> SUFFICES ASSUME EntryFingerprint(e) \o s \in EndsEntries PROVE FALSE
  OBVIOUS
<1> DEFINE Listed == RoutesFingerprint(e) \o s
           Port == Field(<<ToString(e.port)>>) \o Listed
<1>1. /\ Text(e.protocol) \in Unbroken /\ <<ToString(e.port)>> \in Unbroken
      /\ Listed \in Prints /\ Port \in Prints
      /\ EntryFingerprint(e) \o s = Field(Text(e.protocol)) \o Port
  BY EntryPieces, Zenon
<1>2. PICK d \in Domains, p \in Protocols \cup {""}, u \in Prints :
        EntryFingerprint(e) \o s = Field(<<d>>) \o (Field(Text(p)) \o u)
  BY EntryFirst DEF EndsEntries
<1>3. <<d>> \in Unbroken /\ Text(p) \in Unbroken
  BY DomainUnbroken, ProtocolUnbroken
<1>4. PICK w \in Prints : w = Field(Text(p)) \o u
  BY <1>3, FieldAt
<1> HIDE DEF Port
<1>5. Port = w
  <2>1. Alike(Text(e.protocol), Port, <<d>>, w)
    BY <1>1, <1>2, <1>4 DEF Alike
  <2> QED
    BY <1>1, <1>3, <2>1, FieldCut
<1> HIDE DEF Listed
<1>6. <<ToString(e.port)>> = Text(p)
  <2>1. Alike(<<ToString(e.port)>>, Listed, Text(p), u)
    BY <1>4, <1>5 DEF Port, Alike
  <2> QED
    BY <1>1, <1>3, <2>1, FieldCut
<1>7. ToString(e.port) = p
  BY <1>6 DEF Text
<1>8. e.port \in Int
  BY EntryFields
<1>9. ToString(e.port) \notin Protocols /\ p # ""
  BY <1>6, <1>8 DEF Numerals, Text
<1> QED
  BY <1>7, <1>9

LEMMA EntriesSeparable ==
  ASSUME Legible, Numerals(Int)
  PROVE  Separable(EndsRoutes, SoundEntries, EntryCode, EndsEntries)
<1>1. ASSUME NEW e \in SoundEntries PROVE EntryFingerprint(e) \in EndsRoutes
  <2>0. <<>> \in Prints
    BY DEF Prints
  <2>1. <<>> \in Prints /\ EntryFingerprint(e) \in Seq(Symbols)
    BY <2>0, EntryPieces, Zenon DEF Prints
  <2>2. EntryFingerprint(e) \o <<>> = EntryFingerprint(e)
    BY <2>1, ConcatEmptySeq
  <2>3. (EntryFingerprint(e) \o <<>>)[1] # "/"
    BY <2>1, EntryFirst
  <2> QED
    BY <2>1, <2>2, <2>3 DEF EndsRoutes, Prints
<1>2. /\ EntryCode \in [SoundEntries -> EndsRoutes]
      /\ \A e \in SoundEntries : EntryCode[e] = EntryFingerprint(e)
  BY <1>1 DEF EntryCode
<1>3. ASSUME NEW e \in SoundEntries, NEW f \in SoundEntries, NEW s \in EndsRoutes, NEW t \in EndsRoutes,
             EntryCode[e] \o s = EntryCode[f] \o t
      PROVE  e = f
  BY <1>2, <1>3, EntryCut
<1>4. ASSUME NEW e \in SoundEntries, NEW s \in EndsRoutes PROVE EntryCode[e] \o s \notin EndsEntries
  <2>1. s \in Prints
    BY DEF EndsRoutes
  <2> QED
    BY <1>2, <2>1, EntryNotEnd
<1> QED
  BY <1>2, <1>3, <1>4, EndsEntriesFirst DEF Separable
\* A table, domain by domain.
LEMMA EntriesSound ==
  ASSUME NEW t, Sound(t), NEW d \in Domains
  PROVE  t[d] \in Seq(SoundEntries)
<1>1. t[d] \in Seq(Entries)
  BY DEF Sound
<1>2. ASSUME NEW i \in 1..Len(t[d]) PROVE t[d][i] \in SoundEntries
  <2>1. t[d][i] \in Entries /\ i \in DOMAIN t[d]
    BY <1>1, ElementOfSeq
  <2>2. t[d][i].routes \in Seq(Routes)
    BY <2>1 DEF Entries
  <2>3. ASSUME NEW j \in 1..Len(t[d][i].routes) PROVE t[d][i].routes[j] \in SoundRoutes
    <3>1. t[d][i].routes[j] \in Routes /\ j \in DOMAIN t[d][i].routes
      BY <2>2, ElementOfSeq
    <3> QED
      BY <2>1, <3>1 DEF Sound, SoundRoutes
  <2>4. t[d][i].routes \in Seq(SoundRoutes)
    BY <2>2, <2>3
  <2> QED
    BY <2>1, <2>4 DEF SoundEntries
<1> QED
  BY <1>1, <1>2

\* What a domain adds: nothing, or its name, which a protocol follows.
LEMMA DomainPieces ==
  ASSUME Legible, Numerals(Int), NEW t, Sound(t), NEW d \in Domains, NEW s \in EndsEntries
  PROVE  /\ DomainFingerprint(t, d) \in Prints
         /\ t[d] = <<>> => DomainFingerprint(t, d) \o s = s
         /\ t[d] # <<>> => /\ DomainFingerprint(t, d) \o s = Field(<<d>>) \o (Coded(EntryCode, t[d]) \o s)
                           /\ Coded(EntryCode, t[d]) \o s \in Prints
                           /\ DomainFingerprint(t, d) \o s \in EndsEntries
<1>0. s \in Prints /\ <<>> \in Prints /\ s \in EndsRoutes /\ EndsRoutes \subseteq Prints
  <2>1. s \in Prints
    BY DEF EndsEntries
  <2>2. <<>> \in Prints
    BY DEF Prints
  <2>3. EndsRoutes \subseteq Prints
    BY DEF EndsRoutes
  <2>4. s \in EndsRoutes
    BY EndsEntriesFirst
  <2> QED
    BY <2>1, <2>2, <2>3, <2>4
<1>1. CASE t[d] = <<>>
  BY <1>0, <1>1, ConcatEmptySeq DEF DomainFingerprint, Prints
<1>2. CASE t[d] # <<>>
  <2>1. PICK list \in Seq(SoundEntries) : list = t[d] /\ list # <<>>
    BY <1>2, EntriesSound
  <2>2. PICK coded : coded = Coded(EntryCode, list)
    OBVIOUS
  <2>3. [i \in DOMAIN list |-> EntryFingerprint(list[i])] = [i \in DOMAIN list |-> EntryCode[list[i]]]
    BY DEF EntryCode
  <2>4. DomainFingerprint(t, d) = Field(<<d>>) \o coded
    BY <1>2, <2>1, <2>2, <2>3 DEF DomainFingerprint, Coded
  <2>5. EntryCode \in [SoundEntries -> EndsRoutes]
    BY EntriesSeparable DEF Separable
  <2>6. PICK c \in [1..Len(list) -> EndsRoutes] :
          /\ \A n \in 1..Len(list) : c[n] = EntryCode[list[n]]
          /\ Readable(EndsRoutes, c, Len(list), s, coded \o s)
          /\ coded \in EndsRoutes \cup {<<>>}
    BY <1>0, <2>2, <2>5, EndsRoutesConcatenate, ListRead
  <2>7. coded \in Prints
    BY <1>0, <2>6
  <2>8. <<d>> \in Unbroken
    BY DomainUnbroken
  <2>9. PICK name \in Prints : name = Field(<<d>>)
    BY <1>0, <2>8, FieldAt
  <2>10. name \o coded \in Prints /\ coded \o s \in Prints
    BY <1>0, <2>7, Closed, PrintsConcatenate
  <2>11. (name \o coded) \o s = name \o (coded \o s)
    <3>1. \A x, y, z \in Prints : (x \o y) \o z = x \o (y \o z)
      BY PrintsConcatenate, Zenon DEF Concatenates
    <3>2. \A y, z \in Prints : (name \o y) \o z = name \o (y \o z)
      BY <3>1, Zenon
    <3>3. \A z \in Prints : (name \o coded) \o z = name \o (coded \o z)
      BY <2>7, <3>2, Zenon
    <3> QED
      BY <1>0, <3>3, Zenon
  <2>12. PICK p \in Protocols \cup {""}, u \in Prints : coded \o s = Field(Text(p)) \o u
    <3>1. 1 \in 1..Len(list) /\ 1 \in 0..Len(list) /\ 1 - 1 = 0 /\ list[1] \in SoundEntries
      BY <2>1, LenProperties, ElementOfSeq
    <3>2. PICK R \in [0..Len(list) -> EndsRoutes] :
            Unread(R, c, Len(list), s) /\ R[0] = coded \o s
      BY <2>6 DEF Readable
    <3>3. PICK e \in SoundEntries : e = list[1]
      BY <3>1
    <3>4. PICK r \in Prints : r = R[1]
      BY <1>0, <3>1, <3>2
    <3>5. coded \o s = EntryFingerprint(e) \o r
      <4>1. R[1 - 1] = c[1] \o R[1]
        BY <3>1, <3>2 DEF Unread
      <4>2. c[1] = EntryFingerprint(e)
        BY <2>6, <3>1, <3>3 DEF EntryCode
      <4> QED
        BY <3>1, <3>2, <3>4, <4>1, <4>2
    <3>6. \E x \in Prints : EntryFingerprint(e) \o r = Field(Text(e.protocol)) \o x
      BY EntryPieces, Zenon
    <3> QED
      BY <3>5, <3>6, EntryFields
  <2>13. DomainFingerprint(t, d) \o s = name \o (coded \o s)
    BY <2>4, <2>9, <2>11
  <2>14. name \o (coded \o s) \in Prints
    BY <2>10, Closed, PrintsConcatenate
  <2>15. DomainFingerprint(t, d) \o s \in EndsEntries
    <3>1. DomainFingerprint(t, d) \o s = Field(<<d>>) \o (Field(Text(p)) \o u)
      BY <2>9, <2>12, <2>13
    <3> QED
      BY <2>13, <2>14, <3>1 DEF EndsEntries
  <2> QED
    BY <1>2, <2>1, <2>2, <2>4, <2>9, <2>10, <2>13, <2>15
<1> QED
  BY <1>1, <1>2
\* What is left of a fingerprint after the first n of N domains.
LeftOfPrint(R, t, N) ==
  /\ R \in [0..N -> Prints] /\ R[0] = Fingerprint(t) /\ R[N] = <<>>
  /\ \A n \in 1..N : R[n - 1] = DomainFingerprint(t, SortedDomains[n]) \o R[n]

LEMMA SortedTyped ==
  /\ Len(SortedDomains) \in Nat /\ DOMAIN SortedDomains = 1..Len(SortedDomains)
  /\ \A n \in 1..Len(SortedDomains) : SortedDomains[n] \in Domains
  /\ \A d \in Domains : \E n \in 1..Len(SortedDomains) : SortedDomains[n] = d
<1>1. SortedDomains \in Seq(Domains)
  BY TableAssumption DEF TableAssumption
<1>2. \A n \in 1..Len(SortedDomains) : SortedDomains[n] \in Domains
  BY <1>1, ElementOfSeq
<1>3. DOMAIN SortedDomains = 1..Len(SortedDomains) /\ Len(SortedDomains) \in Nat
  BY <1>1, LenProperties
<1>4. \A d \in Domains : \E n \in DOMAIN SortedDomains : SortedDomains[n] = d
  BY DEF Domains, ToSet
<1> QED
  BY <1>2, <1>3, <1>4

LEMMA PrintRead ==
  ASSUME Legible, Numerals(Int), NEW t, Sound(t), NEW N \in Nat, N = Len(SortedDomains)
  PROVE  \E R : LeftOfPrint(R, t, N)
<1>0. <<>> \in Prints /\ <<>> \in EndsEntries
  BY DEF Prints, EndsEntries
<1> DEFINE c == [n \in DOMAIN SortedDomains |-> DomainFingerprint(t, SortedDomains[n])]
<1>1. ASSUME NEW n \in 1..N PROVE DomainFingerprint(t, SortedDomains[n]) \in Prints
  <2>1. SortedDomains[n] \in Domains
    BY SortedTyped
  <2> QED
    BY <1>0, <2>1, DomainPieces
<1>2. c \in [1..N -> Prints] /\ \A n \in 1..N : c[n] = DomainFingerprint(t, SortedDomains[n])
  BY <1>1, SortedTyped
<1>3. Fingerprint(t) = FlattenSeq(c)
  BY DEF Fingerprint
<1> HIDE DEF c
<1>4. Len(c) = N
  BY <1>2, FunctionIsSequence
<1>5. Readable(Prints, c, N, <<>>, FlattenSeq(c) \o <<>>) /\ FlattenSeq(c) \in Prints
  <2>1. Len(c) \in Nat /\ c \in [1..Len(c) -> Prints] /\ Prints \in SUBSET Seq(Symbols)
    BY <1>2, <1>4 DEF Prints
  <2>2. /\ Readable(Prints, c, Len(c), <<>>, FlattenSeq(c) \o <<>>)
        /\ FlattenSeq(c) \in Prints \cup {<<>>}
    BY <1>0, <2>1, PrintsConcatenate, ReadInTurn
  <2> QED
    BY <1>0, <1>4, <2>2
<1>6. FlattenSeq(c) \o <<>> = FlattenSeq(c)
  BY <1>5, ConcatEmptySeq DEF Prints
<1>7. PICK R \in [0..N -> Prints] : Unread(R, c, N, <<>>) /\ R[0] = FlattenSeq(c)
  BY <1>5, <1>6 DEF Readable
<1>8. \A n \in 1..N : R[n - 1] = c[n] \o R[n]
  BY <1>7, Zenon DEF Unread
<1>9. \A n \in 1..N : R[n - 1] = DomainFingerprint(t, SortedDomains[n]) \o R[n]
  BY <1>2, <1>8, Zenon
<1>10. R[N] = <<>>
  BY <1>7 DEF Unread
<1>11. LeftOfPrint(R, t, N)
  BY <1>3, <1>7, <1>9, <1>10, Zenon DEF LeftOfPrint
<1> QED
  BY <1>11

\* It is empty, or begins with a later domain.
Ahead(s, n, N) ==
  \/ s = <<>>
  \/ \E m \in 1..N, u \in Prints : m > n /\ s = Field(<<SortedDomains[m]>>) \o u

LEMMA PrintAhead ==
  ASSUME Legible, Numerals(Int), NEW t, Sound(t), NEW N \in Nat, N = Len(SortedDomains),
         NEW R, LeftOfPrint(R, t, N)
  PROVE  \A n \in 0..N : R[n] \in EndsEntries /\ Ahead(R[n], n, N)
<1> DEFINE P == {k \in 0..N : R[N - k] \in EndsEntries /\ Ahead(R[N - k], N - k, N)}
<1>1. 0 \in P
  <2>1. N - 0 = N /\ R[N] = <<>> /\ 0 \in 0..N
    BY DEF LeftOfPrint
  <2>2. <<>> \in EndsEntries
    BY DEF EndsEntries, Prints
  <2> QED
    BY <2>1, <2>2 DEF Ahead
<1>2. ASSUME NEW k \in 0..N, k \in P, k # N PROVE k + 1 \in P
  <2>1. PICK n \in 1..N : n = N - k /\ N - (k + 1) = n - 1
    BY <1>2
  <2>2. k + 1 \in 0..N
    BY <1>2
  <2>3. PICK s \in EndsEntries : s = R[n] /\ Ahead(s, n, N)
    BY <1>2, <2>1
  <2>4. PICK d \in Domains : d = SortedDomains[n]
    BY SortedTyped
  <2>5. R[n - 1] = DomainFingerprint(t, d) \o s
    BY <2>3, <2>4 DEF LeftOfPrint
  <2>6. CASE t[d] = <<>>
    <3>1. R[n - 1] = s
      BY <2>5, <2>6, DomainPieces
    <3>2. Ahead(s, n - 1, N)
      <4>1. \A m \in 1..N : m > n => m > n - 1
        OBVIOUS
      <4> QED
        BY <2>3, <4>1, Zenon DEF Ahead
    <3> QED
      BY <2>1, <2>2, <3>1, <3>2
  <2>7. CASE t[d] # <<>>
    <3>1. /\ DomainFingerprint(t, d) \o s = Field(<<d>>) \o (Coded(EntryCode, t[d]) \o s)
          /\ Coded(EntryCode, t[d]) \o s \in Prints
          /\ DomainFingerprint(t, d) \o s \in EndsEntries
      BY <2>7, DomainPieces
    <3>2. PICK u \in Prints : R[n - 1] = Field(<<SortedDomains[n]>>) \o u
      BY <2>4, <2>5, <3>1
    <3>3. Ahead(R[n - 1], n - 1, N)
      <4>1. n > n - 1
        OBVIOUS
      <4> QED
        BY <3>2, <4>1, Zenon DEF Ahead
    <3> QED
      BY <2>1, <2>2, <2>5, <3>1, <3>3
  <2> QED
    BY <2>6, <2>7
<1>3. \A k \in 0..N : k \in P
  <2> HIDE DEF P
  <2> QED
    BY <1>1, <1>2, UpTo
<1>4. ASSUME NEW n \in 0..N PROVE R[n] \in EndsEntries /\ Ahead(R[n], n, N)
  <2>1. N - n \in 0..N /\ N - (N - n) = n
    OBVIOUS
  <2> QED
    BY <1>3, <2>1
<1> QED
  BY <1>4

\* A domain that begins what is left is not one that has been read.
LEMMA NotAhead ==
  ASSUME Legible, NEW N \in Nat, N = Len(SortedDomains), NEW n \in 1..N, NEW u \in Prints
  PROVE  ~ Ahead(Field(<<SortedDomains[n]>>) \o u, n, N)
<1>1. PICK s \in Prints : s = Field(<<SortedDomains[n]>>) \o u /\ s # <<>> /\ <<SortedDomains[n]>> \in Unbroken
  <2>1. <<SortedDomains[n]>> \in Unbroken
    BY SortedTyped, DomainUnbroken
  <2> QED
    BY <2>1, FieldAt, FieldFirst
<1> SUFFICES ASSUME Ahead(s, n, N) PROVE FALSE
  BY <1>1
<1>2. PICK m \in 1..N, w \in Prints : m > n /\ s = Field(<<SortedDomains[m]>>) \o w
  BY <1>1 DEF Ahead
<1>3. <<SortedDomains[m]>> \in Unbroken
  BY SortedTyped, DomainUnbroken
<1>4. <<SortedDomains[n]>> = <<SortedDomains[m]>>
  <2>1. Alike(<<SortedDomains[n]>>, u, <<SortedDomains[m]>>, w)
    BY <1>1, <1>2 DEF Alike
  <2> QED
    BY <1>1, <1>3, <2>1, FieldCut
<1>5. n = m
  <2>1. n \in DOMAIN SortedDomains /\ m \in DOMAIN SortedDomains
    BY SortedTyped
  <2>2. SortedDomains[n] = SortedDomains[m]
    BY <1>4
  <2> QED
    BY <2>1, <2>2, TableAssumption DEF TableAssumption
<1> QED
  BY <1>2, <1>5
\* Domain by domain, tables of the same fingerprint have the same entries.
LEMMA SameEntries ==
  ASSUME Legible, Numerals(Int), NEW a, Sound(a), NEW b, Sound(b), NEW N \in Nat, N = Len(SortedDomains),
         NEW A, LeftOfPrint(A, a, N), NEW B, LeftOfPrint(B, b, N),
         NEW n \in 1..N, A[n - 1] = B[n - 1]
  PROVE  A[n] = B[n] /\ a[SortedDomains[n]] = b[SortedDomains[n]]
<1>1. PICK d \in Domains : d = SortedDomains[n]
  BY SortedTyped
<1>2. PICK s \in EndsEntries : s = A[n] /\ Ahead(s, n, N)
  <2>1. \A m \in 0..N : A[m] \in EndsEntries /\ Ahead(A[m], m, N)
    BY PrintAhead
  <2> QED
    BY <2>1
<1>3. PICK t \in EndsEntries : t = B[n] /\ Ahead(t, n, N)
  <2>1. \A m \in 0..N : B[m] \in EndsEntries /\ Ahead(B[m], m, N)
    BY PrintAhead
  <2> QED
    BY <2>1
<1>4. DomainFingerprint(a, d) \o s = DomainFingerprint(b, d) \o t
  <2>1. A[n - 1] = DomainFingerprint(a, SortedDomains[n]) \o A[n]
    BY DEF LeftOfPrint
  <2>2. B[n - 1] = DomainFingerprint(b, SortedDomains[n]) \o B[n]
    BY DEF LeftOfPrint
  <2> QED
    BY <1>1, <1>2, <1>3, <2>1, <2>2
<1>5. /\ a[d] = <<>> => DomainFingerprint(a, d) \o s = s
      /\ a[d] # <<>> => /\ DomainFingerprint(a, d) \o s = Field(<<d>>) \o (Coded(EntryCode, a[d]) \o s)
                        /\ Coded(EntryCode, a[d]) \o s \in Prints
  BY DomainPieces
<1>6. /\ b[d] = <<>> => DomainFingerprint(b, d) \o t = t
      /\ b[d] # <<>> => /\ DomainFingerprint(b, d) \o t = Field(<<d>>) \o (Coded(EntryCode, b[d]) \o t)
                        /\ Coded(EntryCode, b[d]) \o t \in Prints
  BY DomainPieces
<1>7. CASE a[d] = <<>> /\ b[d] = <<>>
  BY <1>1, <1>2, <1>3, <1>4, <1>5, <1>6, <1>7
<1>8. CASE a[d] # <<>> /\ b[d] # <<>>
  <2>1. PICK v \in Seq(SoundEntries) : v = a[d]
    BY EntriesSound
  <2>2. PICK w \in Seq(SoundEntries) : w = b[d]
    BY EntriesSound
  <2>3. PICK x \in Prints : x = Coded(EntryCode, v) \o s
    BY <1>5, <1>8, <2>1
  <2>4. PICK y \in Prints : y = Coded(EntryCode, w) \o t
    BY <1>6, <1>8, <2>2
  <2>5. <<d>> \in Unbroken
    BY DomainUnbroken
  <2>6. x = y
    <3>1. Alike(<<d>>, x, <<d>>, y)
      BY <1>4, <1>5, <1>6, <1>8, <2>1, <2>2, <2>3, <2>4 DEF Alike
    <3> QED
      BY <2>5, <3>1, FieldCut
  <2>7. SameList(EndsRoutes, SoundEntries, EntryCode, EndsEntries, v, s, w, t)
    <3>1. EndsRoutes \subseteq Prints
      BY DEF EndsRoutes
    <3>2. Separable(EndsRoutes, SoundEntries, EntryCode, EndsEntries)
      BY EntriesSeparable
    <3>3. Coded(EntryCode, v) \o s = Coded(EntryCode, w) \o t
      BY <2>3, <2>4, <2>6
    <3> QED
      BY <3>1, <3>2, <3>3, EndsRoutesConcatenate DEF SameList
  <2>8. v = w /\ s = t
    BY <2>7, ListCut
  <2> QED
    BY <1>1, <1>2, <1>3, <2>1, <2>2, <2>8
<1>9. CASE a[d] = <<>> /\ b[d] # <<>>
  <2>1. PICK x \in Prints : s = Field(<<d>>) \o x
    BY <1>4, <1>5, <1>6, <1>9
  <2> QED
    BY <1>1, <1>2, <2>1, NotAhead
<1>10. CASE a[d] # <<>> /\ b[d] = <<>>
  <2>1. PICK x \in Prints : t = Field(<<d>>) \o x
    BY <1>4, <1>5, <1>6, <1>10
  <2> QED
    BY <1>1, <1>3, <2>1, NotAhead
<1> QED
  BY <1>7, <1>8, <1>9, <1>10

LEMMA SamePrints ==
  ASSUME Legible, Numerals(Int), NEW a, Sound(a), NEW b, Sound(b), Fingerprint(a) = Fingerprint(b)
  PROVE  a = b
<1>1. PICK N \in Nat : N = Len(SortedDomains)
  BY SortedTyped
<1>2. PICK A : LeftOfPrint(A, a, N)
  BY <1>1, PrintRead
<1>3. PICK B : LeftOfPrint(B, b, N)
  BY <1>1, PrintRead
<1> DEFINE P == {n \in 0..N : A[n] = B[n] /\ \A m \in 1..n : a[SortedDomains[m]] = b[SortedDomains[m]]}
<1>4. 0 \in P
  BY <1>2, <1>3 DEF LeftOfPrint
<1>5. ASSUME NEW k \in 0..N, k \in P, k # N PROVE k + 1 \in P
  <2>1. PICK n \in 1..N : n = k + 1 /\ n - 1 = k
    BY <1>5
  <2>2. A[n - 1] = B[n - 1]
    BY <1>5, <2>1
  <2>3. A[n] = B[n] /\ a[SortedDomains[n]] = b[SortedDomains[n]]
    BY <1>1, <1>2, <1>3, <2>2, SameEntries
  <2>4. \A m \in 1..(k + 1) : m \in 1..k \/ m = n
    BY <2>1
  <2> QED
    BY <1>5, <2>1, <2>3, <2>4
<1>6. \A n \in 0..N : n \in P
  <2> HIDE DEF P
  <2> QED
    BY <1>4, <1>5, UpTo
<1>7. \A n \in 1..N : a[SortedDomains[n]] = b[SortedDomains[n]]
  BY <1>6
<1>8. \A d \in Domains : a[d] = b[d]
  BY <1>1, <1>7, SortedTyped
<1>9. a \in [Domains -> Seq(Entries)] /\ b \in [Domains -> Seq(Entries)]
  BY DEF Sound
<1> QED
  BY <1>8, <1>9

\* What Reload trusts in: two configurations whose tables have the same
\* fingerprint have the same table, as long as what the user writes does not
\* contain the separator, and no domain is a slash.
THEOREM Apart == ASSUME Legible, Numerals(Int) PROVE PrintsApart
<1> SUFFICES ASSUME NEW a \in Loads, NEW b \in Loads, a.print = b.print PROVE a.table = b.table
  BY DEF PrintsApart
<1>1. Sound(a.table) /\ a.print = Fingerprint(a.table)
  BY BuildSound DEF Loads
<1>2. Sound(b.table) /\ b.print = Fingerprint(b.table)
  BY BuildSound DEF Loads
<1> QED
  BY <1>1, <1>2, SamePrints

-----------------------------------------------------------------------------
(* The table in force is that of the configuration published last.         *)

Published ==
  /\ published \in Configs /\ BuildTable(published) # Failed
  /\ live = BuildTable(published)

LEMMA PublishedInit == TableInit => Published
<1>1. BuildTable(<<>>) = NewTable
  BY TablesAre DEF BuildTable
<1>2. NewTable \in [Domains -> Seq(Entries)]
  BY DEF NewTable
<1>3. <<>> \in Configs /\ NewTable # Failed
  BY <1>2, TableAssumption DEF TableAssumption
<1> QED
  BY <1>1, <1>3 DEF TableInit, Published

\* A reload that is skipped for its fingerprint would have built the same table.
LEMMA PublishedStep ==
  ASSUME PrintsApart, Published, Reload \/ UNCHANGED tableVars
  PROVE  Published'
<1>1. CASE UNCHANGED tableVars
  BY <1>1 DEF Published, tableVars
<1>2. CASE Reload
  <2>1. PICK load \in Loads :
          /\ live' = IF load.print = Fingerprint(live) THEN live ELSE load.table
          /\ published' = load.config
    BY <1>2 DEF Reload
  <2>2. PICK config \in Configs :
          /\ BuildTable(config) # Failed
          /\ load = [config |-> config, table |-> BuildTable(config),
                     print |-> Fingerprint(BuildTable(config))]
    BY DEF Loads
  <2>3. live' = BuildTable(config)
    <3> DEFINE now == [config |-> published, table |-> live, print |-> Fingerprint(live)]
    <3>1. now \in Loads
      BY DEF Loads, Published
    <3>2. load.print = Fingerprint(live) => load.table = live
      BY <3>1 DEF PrintsApart
    <3> QED
      BY <2>1, <2>2, <3>2
  <2> QED
    BY <2>1, <2>2, <2>3 DEF Published
<1> QED
  BY <1>1, <1>2

LEMMA PublishedAnswers == Published => AnswersAsConfigured
<1> SUFFICES ASSUME Published, NEW protocol \in Protocols, NEW port \in Ports,
                    NEW domain \in Domains, NEW path \in Paths
             PROVE  FirstOfLongest(Pick(live, protocol, port, domain, path),
                                   Covering(published, protocol, port, domain, path), published)
  BY DEF AnswersAsConfigured
<1>1. path \in Seq(Strings)
  BY TableAssumption DEF TableAssumption
<1> QED
  BY <1>1, BuiltAnswers DEF Published

-----------------------------------------------------------------------------
(* Requests without a route.                                               *)

\* A request that was passed through went where passthroughURL says.
Passed ==
  last.kind = "passthrough" =>
    /\ last.request \in Requests /\ last.request.form # "connect"
    /\ last.tls \in BOOLEAN
    /\ last.to = PassthroughURL(last.request, last.tls)

LEMMA PassedInit == Init => Passed
BY DEF Init, Nothing, Passed

LEMMA PassedStep == Passed /\ [Next]_vars => Passed'
<1> SUFFICES ASSUME Passed, [Next]_vars
             PROVE  Passed'
  OBVIOUS
<1>1. ASSUME NEW q \in Requests, Connect(q) PROVE Passed'
  <2>1. last'.kind \in {"tunnel", "mitm", "badGateway"}
    BY <1>1 DEF Connect, Answered
  <2> QED
    BY <2>1 DEF Passed
<1>2. ASSUME NEW q \in Requests, Serve(q) PROVE Passed'
  <2> DEFINE tls == client = "tls"
  <2>1. q.form # "connect"
    BY <1>2 DEF Serve
  <2>2. CASE Answered(q, tls, "passthrough", PassthroughURL(q, tls), NoRoute, q.path)
    BY <2>1, <2>2 DEF Answered, Passed
  <2>3. CASE last'.kind \in {"status", "file", "forward"}
    BY <2>3 DEF Passed
  <2> QED
    BY <1>2, <2>2, <2>3 DEF Serve, Answered
<1>3. CASE UNCHANGED last
  BY <1>3 DEF Passed
<1> QED
  BY <1>1, <1>2, <1>3 DEF Next, vars, Reconnect

\* The URL of a request that is passed through is dialled where its client means.
LEMMA DialledAsMeant ==
  ASSUME NEW q \in Requests, NEW tls \in BOOLEAN
  PROVE  Dialled(PassthroughURL(q, tls)) = Meant(q, tls)
BY DEF Dialled, PassthroughURL, Meant, OwnProtocol

\* What the table is asked about is what the client means.
LEMMA AskedAsMeant ==
  ASSUME NEW q \in Requests, NEW tls \in BOOLEAN,
         q.form # "connect", q.port \in {NoPort} \cup PortNumbers
  PROVE  LET meant == Meant(q, tls)
         IN TargetOf(q, tls) = <<meant.scheme, meant.port, meant.name>>
<1>1. CASE q.form = "origin"
  <2> DEFINE own == OwnProtocol(tls)
  <2>1. TargetOf(q, tls) = <<own, HostPort(q.port, DefaultPort(own)), Normal[q.name]>>
    BY <1>1, Zenon DEF TargetOf
  <2>2. Meant(q, tls).scheme = own /\ Meant(q, tls).name = Normal[q.name]
    BY <1>1 DEF Meant, OwnProtocol
  <2>3. Meant(q, tls).port = HostPort(q.port, DefaultPort(own))
    BY <1>1 DEF Meant, OwnProtocol, HostPort, DefaultPort, NoPort, PortNumbers
  <2> QED
    BY <2>1, <2>2, <2>3
<1>2. CASE q.form = "absolute"
  <2>1. TargetOf(q, tls) =
          <<q.scheme, IF q.port = NoPort THEN DefaultPort(q.scheme) ELSE q.port, Normal[q.name]>>
    BY <1>2, Zenon DEF TargetOf
  <2>2. Meant(q, tls).scheme = q.scheme /\ Meant(q, tls).name = Normal[q.name]
    BY <1>2 DEF Meant
  <2>3. Meant(q, tls).port = IF q.port = NoPort THEN DefaultPort(q.scheme) ELSE q.port
    BY <1>2 DEF Meant, DefaultPort, NoPort
  <2> QED
    BY <2>1, <2>2, <2>3
<1> QED
  BY <1>1, <1>2, RequestAssumption

\* Whatever is reloaded, and through TLS or not: a request without a route leaves
\* for the server it names, and that server is the one the table had no route for.
THEOREM PassedAsMeant == Spec => []PassedToTarget
<1>1. Passed => PassedToTarget
  BY DialledAsMeant, AskedAsMeant DEF Passed, PassedToTarget
<1> QED
  BY <1>1, PassedInit, PassedStep, PTL DEF Spec

-----------------------------------------------------------------------------
(* The table in force, and what it answers.                                *)

\* No step but a reload touches the table.
LEMMA TableStep == [Next]_vars => Reload \/ UNCHANGED tableVars
BY DEF Next, vars, Connect, Serve, Reconnect, tableVars

LEMMA SoundInvariant == Spec => []Sound(live)
<1>1. Init => Sound(live)
  BY SoundInit DEF Init
<1>2. Sound(live) /\ [Next]_vars => Sound(live)'
  BY SoundStep, TableStep DEF tableVars
<1> QED
  BY <1>1, <1>2, PTL DEF Spec

\* The last request is one that was sent, and was dealt with in one of the ways
\* there are.
OfClient ==
  /\ client \in {"plain", "tls", "tunnel", "closed"}
  /\ hasCA \in BOOLEAN
  /\ last.request \in Requests \cup {NoRequest}
  /\ last.kind \in {"none", "tunnel", "mitm", "badGateway", "passthrough",
                    "status", "file", "forward"}

LEMMA OfClientStep == OfClient /\ [Next]_vars => OfClient'
<1> SUFFICES ASSUME OfClient, [Next]_vars
             PROVE  OfClient'
  OBVIOUS
<1>1. ASSUME NEW q \in Requests, Connect(q) PROVE OfClient'
  BY <1>1 DEF OfClient, Connect, Answered
<1>2. ASSUME NEW q \in Requests, Serve(q) PROVE OfClient'
  <2>1. client' = client /\ hasCA' = hasCA
    BY <1>2 DEF Serve
  <2>2. last'.request = q /\ last'.kind \in {"passthrough", "status", "file", "forward"}
    BY <1>2 DEF Serve, Answered
  <2> QED
    BY <2>1, <2>2 DEF OfClient
<1>3. CASE Reconnect
  BY <1>3 DEF OfClient, Reconnect
<1>4. CASE UNCHANGED <<client, hasCA, last>>
  BY <1>4 DEF OfClient
<1> QED
  BY <1>1, <1>2, <1>3, <1>4 DEF Next, vars

\* Every variable keeps its type, and every route of the table in force has a
\* status or a target that routeHandler can use.
THEOREM TypeCorrect == Spec => []TypeOK
<1>1. Init => OfClient
  BY DEF Init, OfClient, Nothing
<1>2. OfClient /\ Sound(live) => TypeOK
  BY SoundTyped DEF OfClient, TypeOK
<1> QED
  BY <1>1, <1>2, OfClientStep, SoundInvariant, PTL DEF Spec

\* Whatever is configured: where some path of a target has a route, CONNECT to
\* it is decrypted.
THEOREM DecryptedWhereRouted == Spec => []RoutedIsDecrypted
BY SoundInvariant, SoundDecrypted, PTL

\* As long as the separator of the fingerprint is in nothing that is read from
\* the file: whatever was reloaded and skipped before, a request gets the first of
\* the longest prefixes that the configuration accepted last declares for it.
THEOREM Configured == ASSUME Legible, Numerals(Int) PROVE Spec => []AnswersAsConfigured
<1>1. Init => Published
  BY PublishedInit DEF Init
<1>2. Published /\ [Next]_vars => Published'
  BY Apart, PublishedStep, TableStep
<1> QED
  BY <1>1, <1>2, PublishedAnswers, PTL DEF Spec
-----------------------------------------------------------------------------
(* Paths: what is decoded, put together and cut off.                       *)

\* What a decoded path consists of.
Plain == Strings \ {"%2F", "%20"}

Symbol(c) == CASE c = "%2F" -> "/" [] c = "%20" -> " " [] OTHER -> c

LEMMA SymbolOf ==
  ASSUME NEW c \in Strings
  PROVE  /\ Symbol(c) \in Plain /\ (c # "%2F" => (Symbol(c) = "/" <=> c = "/"))
         /\ c \in Plain => Symbol(c) = c
<1>1. /\ c = "%2F" => Symbol(c) = "/"
      /\ c = "%20" => Symbol(c) = " "
      /\ c # "%2F" /\ c # "%20" => Symbol(c) = c
  BY Zenon DEF Symbol
<1>2. "/" \in Plain /\ " " \in Plain
  BY StringAssumption DEF Plain
<1>3. CASE c = "%2F"
  BY <1>1, <1>2, <1>3 DEF Plain
<1>4. CASE c = "%20"
  BY <1>1, <1>2, <1>4 DEF Plain
<1>5. CASE c # "%2F" /\ c # "%20"
  BY <1>1, <1>5 DEF Plain
<1> QED
  BY <1>3, <1>4, <1>5

\* A path is decoded symbol by symbol.
LEMMA DecodedOf ==
  ASSUME NEW s \in Seq(Strings)
  PROVE  /\ Decoded(s) \in Seq(Plain) /\ Decoded(s) \in Seq(Strings) /\ Len(Decoded(s)) = Len(s)
         /\ \A i \in 1..Len(s) : Decoded(s)[i] = Symbol(s[i])
<1>1. Decoded(s) = [i \in DOMAIN s |-> Symbol(s[i])]
  BY Zenon DEF Decoded, Symbol
<1>2. Len(s) \in Nat /\ DOMAIN s = 1..Len(s) /\ \A i \in 1..Len(s) : s[i] \in Strings
  BY LenProperties, ElementOfSeq
<1>3. \A i \in 1..Len(s) : Symbol(s[i]) \in Plain
  BY <1>2, SymbolOf
<1>4. Decoded(s) \in [1..Len(s) -> Plain]
  BY <1>1, <1>2, <1>3
<1>5. Decoded(s) \in Seq(Plain) /\ Len(Decoded(s)) = Len(s)
  BY <1>2, <1>4
<1>6. Plain \subseteq Strings
  BY DEF Plain
<1>7. Decoded(s) \in Seq(Strings)
  BY <1>5, <1>6, SeqMonotonic
<1> QED
  BY <1>1, <1>2, <1>5, <1>7

LEMMA DecodedConcat ==
  ASSUME NEW s \in Seq(Strings), NEW t \in Seq(Strings)
  PROVE  Decoded(s \o t) = Decoded(s) \o Decoded(t)
<1> DEFINE n == Len(s)
           m == Len(t)
           u == s \o t
           left == Decoded(u)
           right == Decoded(s) \o Decoded(t)
<1>1. n \in Nat /\ m \in Nat
  OBVIOUS
<1>2. /\ u \in Seq(Strings) /\ Len(u) = n + m
      /\ \A i \in 1..(n + m) : u[i] = IF i <= n THEN s[i] ELSE t[i - n]
  BY ConcatProperties
<1>3. /\ left \in Seq(Strings) /\ Len(left) = n + m
      /\ \A i \in 1..(n + m) : left[i] = Symbol(u[i])
  <2> HIDE DEF u, n, m
  <2> QED
    BY <1>2, DecodedOf
<1>4. /\ right \in Seq(Strings) /\ Len(right) = n + m
      /\ \A i \in 1..(n + m) : right[i] = IF i <= n THEN Decoded(s)[i] ELSE Decoded(t)[i - n]
  <2>1. /\ Decoded(s) \in Seq(Strings) /\ Len(Decoded(s)) = n
        /\ Decoded(t) \in Seq(Strings) /\ Len(Decoded(t)) = m
    BY DecodedOf
  <2> HIDE DEF n, m
  <2> QED
    BY <2>1, ConcatProperties
<1>5. ASSUME NEW i \in 1..(n + m) PROVE left[i] = right[i]
  <2>1. CASE i <= n
    <3>1. i \in 1..n
      BY <1>1, <2>1
    <3>2. Decoded(s)[i] = Symbol(s[i])
      BY <3>1, DecodedOf
    <3> HIDE DEF left, right, u, n, m
    <3> QED
      BY <1>2, <1>3, <1>4, <2>1, <3>2
  <2>2. CASE ~(i <= n)
    <3>1. i - n \in 1..m
      BY <1>1, <2>2
    <3>2. Decoded(t)[i - n] = Symbol(t[i - n])
      BY <3>1, DecodedOf
    <3> HIDE DEF left, right, u, n, m
    <3> QED
      BY <1>2, <1>3, <1>4, <2>2, <3>2
  <2> QED
    BY <2>1, <2>2
<1> HIDE DEF left, right, n, m
<1>6. left = right
  BY <1>3, <1>4, <1>5, SeqEqual
<1> QED
  BY <1>6 DEF left, right

\* A path without escapes is what it decodes to, and what its encoding does.
LEMMA DecodedPlain ==
  ASSUME NEW s \in Seq(Plain)
  PROVE  Decoded(s) = s /\ Encoded(s) \in Seq(Strings) /\ Decoded(Encoded(s)) = s
<1>0. Plain \subseteq Strings
  BY DEF Plain
<1>1. s \in Seq(Strings) /\ Len(s) \in Nat /\ DOMAIN s = 1..Len(s) /\ \A i \in 1..Len(s) : s[i] \in Plain
  BY <1>0, SeqMonotonic, LenProperties, ElementOfSeq
<1> DEFINE e == Encoded(s)
<1>2. e = [i \in 1..Len(s) |-> IF s[i] = " " THEN "%20" ELSE s[i]]
  BY <1>1 DEF Encoded
<1>3. e \in [1..Len(s) -> Strings]
  BY <1>0, <1>1, <1>2, StringAssumption
<1>4. e \in Seq(Strings) /\ Len(e) = Len(s) /\ \A i \in 1..Len(s) : e[i] = IF s[i] = " " THEN "%20" ELSE s[i]
  <2> HIDE DEF e
  <2>1. e \in Seq(Strings) /\ Len(e) = Len(s)
    BY <1>1, <1>3
  <2> QED
    BY <1>2, <2>1
<1> HIDE DEF e
<1>5. /\ Decoded(s) \in Seq(Strings) /\ Len(Decoded(s)) = Len(s)
      /\ \A i \in 1..Len(s) : Decoded(s)[i] = Symbol(s[i])
  BY <1>1, DecodedOf
<1>6. /\ Decoded(e) \in Seq(Strings) /\ Len(Decoded(e)) = Len(s)
      /\ \A i \in 1..Len(s) : Decoded(e)[i] = Symbol(e[i])
  BY <1>4, DecodedOf
<1>7. ASSUME NEW i \in 1..Len(s) PROVE Symbol(s[i]) = s[i] /\ Symbol(e[i]) = s[i]
  <2>1. Symbol("%20") = " "
    BY Zenon DEF Symbol
  <2>2. Symbol(s[i]) = s[i]
    BY <1>0, <1>1, SymbolOf
  <2> QED
    BY <1>4, <2>1, <2>2
<1>8. Decoded(s) = s
  BY <1>1, <1>5, <1>7, SeqEqual
<1>9. Decoded(e) = s
  BY <1>1, <1>6, <1>7, SeqEqual
<1> QED
  BY <1>4, <1>8, <1>9 DEF e

\* A path less its slash at the beginning.
Inner(s) == IF StartsWithSlash(s) THEN Tail(s) ELSE s

LEMMA InnerOf ==
  ASSUME NEW S, NEW s \in Seq(S)
  PROVE  Inner(s) \in Seq(S) /\ (StartsWithSlash(s) => s = <<"/">> \o Inner(s))
<1>1. CASE StartsWithSlash(s)
  <2>1. s # <<>> /\ Head(s) = "/"
    BY <1>1 DEF StartsWithSlash
  <2>2. Len(s) \in Nat /\ Len(s) >= 1 /\ Head(s) = s[1]
    BY <2>1
  <2>3. SubSeq(s, 1, Len(s)) = <<s[1]>> \o SubSeq(s, 1 + 1, Len(s))
    BY <2>2, SubSeqRecursiveFirst
  <2>4. Tail(s) = SubSeq(s, 2, Len(s)) /\ s = SubSeq(s, 1, Len(s)) /\ Tail(s) \in Seq(S)
    BY <2>1, TailIsSubSeq, SubSeqFull, HeadTailProperties
  <2> QED
    BY <1>1, <2>1, <2>2, <2>3, <2>4 DEF Inner
<1>2. CASE ~StartsWithSlash(s)
  BY <1>2 DEF Inner
<1> QED
  BY <1>1, <1>2

LEMMA BaseOf ==
  ASSUME NEW S, NEW s \in Seq(S)
  PROVE  Base(s) \in Seq(S) /\ (EndsWithSlash(s) => s = Base(s) \o <<"/">>)
<1>1. CASE EndsWithSlash(s)
  <2> DEFINE n == Len(s)
  <2>1. s # <<>> /\ Last(s) = "/"
    BY <1>1 DEF EndsWithSlash
  <2>2. n \in Nat /\ n >= 1 /\ s[n] = "/"
    BY <2>1 DEF Last
  <2>3. SubSeq(s, 1, n) = SubSeq(s, 1, n - 1) \o <<s[n]>>
    BY <2>2, SubSeqRecursiveSecond
  <2>4. SubSeq(s, 1, n - 1) \in Seq(S)
    <3>1. n - 1 \in Int /\ \A i \in 1..(n - 1) : s[i] \in S
      BY <2>2, ElementOfSeq
    <3> HIDE DEF n
    <3> QED
      BY <3>1, SubSeqProperties
  <2>5. Base(s) = SubSeq(s, 1, n - 1) /\ s = SubSeq(s, 1, n)
    BY <1>1, SubSeqFull DEF Base, Front
  <2> QED
    BY <2>2, <2>3, <2>4, <2>5
<1>2. CASE ~EndsWithSlash(s)
  BY <1>2 DEF Base
<1> QED
  BY <1>1, <1>2

LEMMA Associative == \A s, t, u \in Seq(Strings) : (s \o t) \o u = s \o (t \o u)
BY ConcatAssociative

\* The four cases of singleJoiningSlash put one slash between the two.
LEMMA Joined ==
  ASSUME NEW b \in Seq(Strings), NEW r \in Seq(Strings)
  PROVE  Join(b, EndsWithSlash(b), r, StartsWithSlash(r)) = Base(b) \o <<"/">> \o Inner(r)
<1>0. <<"/">> \in Seq(Strings) /\ Base(b) \in Seq(Strings) /\ Inner(r) \in Seq(Strings)
  <2>1. "/" \in Strings
    BY StringAssumption
  <2>2. <<"/">> \in Seq(Strings)
    BY <2>1
  <2> QED
    BY <2>2, BaseOf, InnerOf
<1>1. EndsWithSlash(b) => b = Base(b) \o <<"/">>
  BY BaseOf
<1>2. StartsWithSlash(r) => r = <<"/">> \o Inner(r)
  BY InnerOf
<1>3. CASE EndsWithSlash(b) /\ StartsWithSlash(r)
  <2>1. Join(b, EndsWithSlash(b), r, StartsWithSlash(r)) = b \o DropByte(r)
    BY <1>3, Zenon DEF Join
  <2>2. DropByte(r) = Inner(r)
    BY <1>3 DEF DropByte, Inner, StartsWithSlash
  <2> QED
    BY <1>1, <1>3, <2>1, <2>2
<1>4. CASE ~EndsWithSlash(b) /\ ~StartsWithSlash(r)
  <2>1. Join(b, EndsWithSlash(b), r, StartsWithSlash(r)) = b \o <<"/">> \o r
    BY <1>4, Zenon DEF Join
  <2> QED
    BY <1>4, <2>1 DEF Base, Inner
<1>5. CASE EndsWithSlash(b) /\ ~StartsWithSlash(r)
  <2>1. Join(b, EndsWithSlash(b), r, StartsWithSlash(r)) = b \o r
    BY <1>5, Zenon DEF Join
  <2> QED
    BY <1>1, <1>5, <2>1 DEF Inner
<1>6. CASE ~EndsWithSlash(b) /\ StartsWithSlash(r)
  <2>1. Join(b, EndsWithSlash(b), r, StartsWithSlash(r)) = b \o r
    BY <1>6, Zenon DEF Join
  <2>2. Base(b) = b
    BY <1>6 DEF Base
  <2>3. (b \o <<"/">>) \o Inner(r) = b \o (<<"/">> \o Inner(r))
    BY <1>0, Associative
  <2> QED
    BY <1>2, <1>6, <2>1, <2>2, <2>3
<1> QED
  BY <1>3, <1>4, <1>5, <1>6

\* What is left of a path without its prefix.
LEMMA TrimOf ==
  ASSUME NEW S, NEW s \in Seq(S), NEW prefix \in Seq(Strings)
  PROVE  /\ TrimPrefix(s, prefix) \in Seq(S)
         /\ IsPrefix(prefix, s) =>
              LET n == Len(prefix)
                  rest == TrimPrefix(s, prefix)
              IN /\ Len(rest) = Len(s) - n /\ n <= Len(s)
                 /\ \A i \in 1..(Len(s) - n) : n + i \in 1..Len(s) /\ rest[i] = s[n + i]
<1> DEFINE n == Len(prefix)
           m == Len(s)
           rest == SubSeq(s, n + 1, m)
<1>1. n \in Nat /\ m \in Nat
  OBVIOUS
<1>2. /\ rest \in Seq(S) /\ Len(rest) = IF n + 1 <= m THEN m - (n + 1) + 1 ELSE 0
      /\ \A i \in 1..(m - (n + 1) + 1) : rest[i] = s[n + 1 + i - 1]
  <2>1. n + 1 \in Int /\ m \in Int
    BY <1>1
  <2>2. \A i \in (n + 1)..m : s[i] \in S
    <3>1. \A i \in (n + 1)..m : i \in 1..m
      BY <1>1
    <3> QED
      BY <3>1, ElementOfSeq
  <2> HIDE DEF n, m
  <2> QED
    BY <2>1, <2>2, SubSeqProperties
<1> HIDE DEF n, m, rest
<1>3. CASE IsPrefix(prefix, s)
  <2>1. n <= m /\ TrimPrefix(s, prefix) = rest
    BY <1>3 DEF IsPrefix, TrimPrefix, n, m, rest
  <2>2. Len(rest) = m - n
    BY <1>1, <1>2, <2>1
  <2>3. ASSUME NEW i \in 1..(m - n) PROVE n + i \in 1..m /\ rest[i] = s[n + i]
    <3>1. i \in 1..(m - (n + 1) + 1) /\ n + 1 + i - 1 = n + i /\ n + i \in 1..m
      BY <1>1
    <3> QED
      BY <1>2, <3>1
  <2> QED
    BY <1>2, <2>1, <2>2, <2>3 DEF n, m
<1>4. CASE ~IsPrefix(prefix, s)
  BY <1>4 DEF TrimPrefix
<1> QED
  BY <1>3, <1>4

\* Decoding what a prefix leaves, if it is a prefix of the encoded path too.
LEMMA TrimDecoded ==
  ASSUME NEW raw \in Seq(Strings), NEW prefix \in Seq(Strings),
         IsPrefix(prefix, raw), IsPrefix(prefix, Decoded(raw))
  PROVE  Decoded(TrimPrefix(raw, prefix)) = TrimPrefix(Decoded(raw), prefix)
<1> DEFINE n == Len(prefix)
           m == Len(raw)
           rest == TrimPrefix(raw, prefix)
           path == Decoded(raw)
           other == TrimPrefix(path, prefix)
<1>1. /\ rest \in Seq(Strings) /\ Len(rest) = m - n
      /\ \A i \in 1..(m - n) : n + i \in 1..m /\ rest[i] = raw[n + i]
  BY TrimOf
<1>2. path \in Seq(Strings) /\ Len(path) = m /\ \A i \in 1..m : path[i] = Symbol(raw[i])
  BY DecodedOf
<1>3. /\ other \in Seq(Strings) /\ Len(other) = m - n
      /\ \A i \in 1..(m - n) : n + i \in 1..m /\ other[i] = path[n + i]
  <2> HIDE DEF path
  <2>1. /\ other \in Seq(Strings) /\ Len(other) = Len(path) - n
        /\ \A i \in 1..(Len(path) - n) : n + i \in 1..Len(path) /\ other[i] = path[n + i]
    BY <1>2, TrimOf DEF path
  <2> QED
    BY <1>2, <2>1
<1> HIDE DEF n, m, rest, path, other
<1>4. /\ Decoded(rest) \in Seq(Strings) /\ Len(Decoded(rest)) = m - n
      /\ \A i \in 1..(m - n) : Decoded(rest)[i] = Symbol(rest[i])
  BY <1>1, DecodedOf
<1>5. \A i \in 1..(m - n) : Decoded(rest)[i] = other[i]
  BY <1>1, <1>2, <1>3, <1>4
<1>6. Decoded(rest) = other
  BY <1>3, <1>4, <1>5, SeqEqual
<1> QED
  BY <1>6 DEF rest, other, path

LEMMA Slash == <<"/">> \in Seq(Strings) /\ <<"/">> \in Seq(Plain) /\ Decoded(<<"/">>) = <<"/">>
<1>1. "/" \in Strings /\ "/" \in Plain
  BY StringAssumption DEF Plain
<1>2. <<"/">> \in Seq(Strings) /\ <<"/">> \in Seq(Plain)
  BY <1>1
<1> QED
  BY <1>2, DecodedPlain

LEMMA Cancel ==
  \A s, t, v \in Seq(Strings) :
    (s \o t = s \o v => t = v) /\ (s \o v = t \o v => s = t)
BY ConcatSimplifications, Zenon

LEMMA InnerDecoded ==
  ASSUME NEW r \in Seq(Strings), r # <<>> => r[1] # "%2F"
  PROVE  /\ StartsWithSlash(Decoded(r)) <=> StartsWithSlash(r)
         /\ Decoded(Inner(r)) = Inner(Decoded(r))
<1> DEFINE d == Decoded(r)
<1>1. d \in Seq(Strings) /\ Len(d) = Len(r) /\ \A i \in 1..Len(r) : d[i] = Symbol(r[i])
  BY DecodedOf
<1> HIDE DEF d
<1>2. StartsWithSlash(d) <=> StartsWithSlash(r)
  <2>1. CASE r = <<>>
    <3>1. d = <<>>
      BY <1>1, <2>1
    <3> QED
      BY <2>1, <3>1
  <2>2. CASE r # <<>>
    <3>1. 1 \in 1..Len(r) /\ r[1] \in Strings /\ Head(r) = r[1]
      BY <2>2
    <3>2. d[1] = "/" <=> r[1] = "/"
      BY <1>1, <2>2, <3>1, SymbolOf
    <3>3. d # <<>> /\ Head(d) = d[1]
      BY <1>1, <3>1
    <3> QED
      BY <2>2, <3>1, <3>2, <3>3 DEF StartsWithSlash
  <2> QED
    BY <2>1, <2>2
<1>3. CASE StartsWithSlash(r)
  <2>1. Inner(r) \in Seq(Strings) /\ r = <<"/">> \o Inner(r)
    BY <1>3, InnerOf
  <2>2. Inner(d) \in Seq(Strings) /\ d = <<"/">> \o Inner(d)
    BY <1>1, <1>2, <1>3, InnerOf
  <2>3. d = <<"/">> \o Decoded(Inner(r))
    BY <2>1, DecodedConcat, Slash DEF d
  <2>4. Decoded(Inner(r)) \in Seq(Strings)
    BY <2>1, DecodedOf
  <2>5. Decoded(Inner(r)) = Inner(d)
    BY <2>2, <2>3, <2>4, Slash, Cancel
  <2> QED
    BY <1>2, <2>5 DEF d
<1>4. CASE ~StartsWithSlash(r)
  BY <1>2, <1>4 DEF Inner, d
<1> QED
  BY <1>3, <1>4

LEMMA BaseDecoded ==
  ASSUME NEW b \in Seq(Strings), b = <<>> \/ Last(b) # "%2F"
  PROVE  /\ EndsWithSlash(Decoded(b)) <=> EndsWithSlash(b)
         /\ Decoded(Base(b)) = Base(Decoded(b))
<1> DEFINE d == Decoded(b)
<1>1. d \in Seq(Strings) /\ Len(d) = Len(b) /\ \A i \in 1..Len(b) : d[i] = Symbol(b[i])
  BY DecodedOf
<1> HIDE DEF d
<1>2. EndsWithSlash(d) <=> EndsWithSlash(b)
  <2>1. CASE b = <<>>
    <3>1. d = <<>>
      BY <1>1, <2>1
    <3> QED
      BY <2>1, <3>1
  <2>2. CASE b # <<>>
    <3>1. Len(b) \in 1..Len(b) /\ b[Len(b)] \in Strings /\ b[Len(b)] # "%2F"
      BY <2>2 DEF Last
    <3>2. d[Len(b)] = "/" <=> b[Len(b)] = "/"
      BY <1>1, <3>1, SymbolOf
    <3>3. d # <<>>
      BY <1>1, <3>1
    <3> QED
      BY <1>1, <2>2, <3>2, <3>3 DEF EndsWithSlash, Last
  <2> QED
    BY <2>1, <2>2
<1>3. CASE EndsWithSlash(b)
  <2>1. Base(b) \in Seq(Strings) /\ b = Base(b) \o <<"/">>
    BY <1>3, BaseOf
  <2>2. Base(d) \in Seq(Strings) /\ d = Base(d) \o <<"/">>
    BY <1>1, <1>2, <1>3, BaseOf
  <2>3. d = Decoded(Base(b)) \o <<"/">>
    BY <2>1, DecodedConcat, Slash DEF d
  <2>4. Decoded(Base(b)) \in Seq(Strings)
    BY <2>1, DecodedOf
  <2>5. Decoded(Base(b)) = Base(d)
    BY <2>2, <2>3, <2>4, Slash, Cancel
  <2> QED
    BY <1>2, <2>5 DEF d
<1>4. CASE ~EndsWithSlash(b)
  BY <1>2, <1>4 DEF Base, d
<1> QED
  BY <1>3, <1>4

\* Decoding what a prefix leaves under a base.
LEMMA MappedDecoded ==
  ASSUME NEW b \in Seq(Strings), NEW r \in Seq(Strings),
         b = <<>> \/ Last(b) # "%2F", r # <<>> => r[1] # "%2F"
  PROVE  Decoded(Base(b) \o <<"/">> \o Inner(r)) =
           Base(Decoded(b)) \o <<"/">> \o Inner(Decoded(r))
<1>1. Base(b) \in Seq(Strings) /\ Inner(r) \in Seq(Strings)
  BY BaseOf, InnerOf
<1>2. Base(b) \o <<"/">> \in Seq(Strings)
  BY <1>1, Slash, ConcatProperties
<1>3. Decoded(Base(b) \o <<"/">> \o Inner(r)) =
        Decoded(Base(b)) \o Decoded(<<"/">>) \o Decoded(Inner(r))
  BY <1>1, <1>2, Slash, DecodedConcat
<1> QED
  BY <1>3, Slash, BaseDecoded, InnerDecoded

\* The path that singleJoiningSlash puts together of decoded parts.
LEMMA OutDecoded ==
  ASSUME NEW raw \in Seq(Strings), NEW prefix \in Seq(Strings), NEW base \in Seq(Strings),
         NEW rest, rest = TrimPrefix(Decoded(raw), prefix),
         NEW out, out = Join(Decoded(base), EndsWithSlash(Decoded(base)), rest, StartsWithSlash(rest))
  PROVE  out = Base(Decoded(base)) \o <<"/">> \o Inner(rest) /\ out \in Seq(Plain)
<1>1. /\ Decoded(base) \in Seq(Plain) /\ Decoded(base) \in Seq(Strings)
      /\ Decoded(raw) \in Seq(Plain) /\ Decoded(raw) \in Seq(Strings)
  BY DecodedOf
<1>2. rest \in Seq(Strings) /\ rest \in Seq(Plain)
  BY <1>1, TrimOf
<1>3. out = Base(Decoded(base)) \o <<"/">> \o Inner(rest)
  BY <1>1, <1>2, Joined
<1>4. Base(Decoded(base)) \in Seq(Plain) /\ Inner(rest) \in Seq(Plain)
  BY <1>1, <1>2, BaseOf, InnerOf
<1>5. Base(Decoded(base)) \o <<"/">> \in Seq(Plain)
  BY <1>4, Slash, ConcatProperties
<1>6. Base(Decoded(base)) \o <<"/">> \o Inner(rest) \in Seq(Plain)
  BY <1>4, <1>5, ConcatProperties
<1> QED
  BY <1>3, <1>6

\* Whatever encoding url.URL chooses, it is one of the path.
LEMMA Escaped ==
  ASSUME NEW out \in Seq(Plain), NEW raw
  PROVE  Decoded(EscapedPath(out, raw)) = out
BY DecodedPlain DEF EscapedPath

\* What the upstream decodes is the rest of the decoded path under the base.
LEMMA OutMeant ==
  ASSUME NEW raw \in Seq(Strings), NEW prefix \in Seq(Strings), NEW base \in Seq(Strings)
  PROVE  Decoded(OutPath(raw, prefix, base)) = Mapped(Decoded(raw), prefix, Decoded(base))
<1> DEFINE rest == TrimPrefix(Decoded(raw), prefix)
           out == Join(Decoded(base), EndsWithSlash(Decoded(base)), rest, StartsWithSlash(rest))
<1>1. out = Base(Decoded(base)) \o <<"/">> \o Inner(rest) /\ out \in Seq(Plain)
  BY OutDecoded
<1>2. \E x : OutPath(raw, prefix, base) = EscapedPath(out, x)
  BY DEF OutPath
<1>3. Mapped(Decoded(raw), prefix, Decoded(base)) = Base(Decoded(base)) \o <<"/">> \o Inner(rest)
  BY DEF Mapped, Rest, Inner
<1> HIDE DEF out, rest
<1> QED
  BY <1>1, <1>2, <1>3, Escaped

\* Where the prefix can be cut from the encoded path, the rest of it is kept.
LEMMA OutKept ==
  ASSUME NEW raw \in Seq(Strings), NEW prefix \in Seq(Strings), NEW base \in Seq(Strings),
         prefix # <<>>, PathHasPrefix(Decoded(raw), prefix),
         CutClean(raw, prefix), base = <<>> \/ Last(base) # "%2F"
  PROVE  OutPath(raw, prefix, base) = Mapped(raw, prefix, base)
<1> DEFINE n == Len(prefix)
           path == Decoded(raw)
           rest == TrimPrefix(path, prefix)
           rawRest == TrimPrefix(raw, prefix)
           out == Join(Decoded(base), EndsWithSlash(Decoded(base)), rest, StartsWithSlash(rest))
           kept == Base(base) \o <<"/">> \o Inner(rawRest)
<1>1. IsPrefix(prefix, raw) /\ (Len(raw) > n => raw[n + 1] # "%2F")
  BY DEF CutClean
<1>2. IsPrefix(prefix, path)
  <2>1. CASE prefix = <<"/">>
    <3>1. Len(prefix) = 1 /\ prefix[1] = "/" /\ Len(raw) >= 1 /\ raw[1] = "/"
      BY <1>1, <2>1 DEF IsPrefix
    <3>2. path \in Seq(Strings) /\ Len(path) = Len(raw) /\ path[1] = Symbol(raw[1])
      BY <3>1, DecodedOf
    <3>3. path[1] = "/"
      BY <3>1, <3>2, StringAssumption, SymbolOf
    <3> HIDE DEF path
    <3> QED
      BY <2>1, <3>1, <3>2, <3>3 DEF IsPrefix
  <2>2. CASE prefix # <<"/">>
    BY <2>2 DEF PathHasPrefix
  <2> QED
    BY <2>1, <2>2
<1>3. rawRest \in Seq(Strings) /\ Decoded(rawRest) = rest
  BY <1>1, <1>2, TrimOf, TrimDecoded
<1>4. rawRest # <<>> => rawRest[1] # "%2F"
  <2>1. /\ Len(rawRest) = Len(raw) - n /\ n <= Len(raw)
        /\ \A i \in 1..(Len(raw) - n) : rawRest[i] = raw[n + i]
    BY <1>1, TrimOf
  <2>2. n \in Nat /\ Len(raw) \in Nat /\ (rawRest # <<>> => Len(rawRest) >= 1)
    BY <1>3
  <2> HIDE DEF n, rawRest
  <2> QED
    BY <1>1, <2>1, <2>2
<1>5. /\ EndsWithSlash(Decoded(base)) <=> EndsWithSlash(base)
      /\ StartsWithSlash(rest) <=> StartsWithSlash(rawRest)
  BY <1>3, <1>4, BaseDecoded, InnerDecoded
<1>6. Join(base, EndsWithSlash(Decoded(base)), rawRest, StartsWithSlash(rest)) = kept
  <2>1. Join(base, EndsWithSlash(base), rawRest, StartsWithSlash(rawRest)) = kept
    BY <1>3, Joined
  <2>2. EndsWithSlash(Decoded(base)) = EndsWithSlash(base)
        /\ StartsWithSlash(rest) = StartsWithSlash(rawRest)
    BY <1>5 DEF EndsWithSlash, StartsWithSlash
  <2> QED
    BY <2>1, <2>2
<1>7. Decoded(kept) = out
  <2>1. Decoded(kept) = Base(Decoded(base)) \o <<"/">> \o Inner(Decoded(rawRest))
    BY <1>3, <1>4, MappedDecoded
  <2>2. out = Base(Decoded(base)) \o <<"/">> \o Inner(rest) /\ out \in Seq(Plain)
    <3> HIDE DEF rawRest, kept, n
    <3> QED
      BY OutDecoded
  <2> QED
    BY <1>3, <2>1, <2>2
<1>8. kept # <<>>
  <2>1. Base(base) \in Seq(Strings) /\ Inner(rawRest) \in Seq(Strings)
    BY <1>3, BaseOf, InnerOf
  <2>2. Base(base) \o <<"/">> \in Seq(Strings) /\ Base(base) \o <<"/">> # <<>>
    BY <2>1, Slash, ConcatProperties, ConcatEqualIffEmpty
  <2> QED
    BY <2>1, <2>2, ConcatEqualIffEmpty
<1>9. OutPath(raw, prefix, base) = EscapedPath(out, kept)
  BY <1>1, <1>6 DEF OutPath
<1>10. Mapped(raw, prefix, base) = kept
  BY DEF Mapped, Rest, Inner
<1> HIDE DEF out, kept
<1> QED
  BY <1>7, <1>8, <1>9, <1>10 DEF EscapedPath

-----------------------------------------------------------------------------
(* What is sent to an upstream.                                            *)

\* A request that was forwarded had a route of the table, and got its path.
Forwarded ==
  last.kind = "forward" =>
    /\ last.request \in Requests
    /\ last.route \in Routes /\ last.route.prefix # <<>>
    /\ PathHasPrefix(Decoded(last.request.path), last.route.prefix)
    /\ last.path = OutPath(last.request.path, last.route.prefix, last.route.target.path)

\* The table is asked about a domain that it has.
LEMMA AskedDomain ==
  ASSUME NEW q \in Requests, NEW tls, q.form # "connect"
  PROVE  TargetOf(q, tls)[3] \in Domains
<1>1. CASE q.form = "origin"
  <2>1. TargetOf(q, tls) =
          <<OwnProtocol(tls), HostPort(q.port, DefaultPort(OwnProtocol(tls))), Normal[q.name]>>
    BY <1>1, Zenon DEF TargetOf
  <2> QED
    BY <2>1, RequestAssumption, TableAssumption
<1>2. CASE q.form = "absolute"
  <2>1. TargetOf(q, tls) =
          <<q.scheme, IF q.port = NoPort THEN DefaultPort(q.scheme) ELSE q.port, Normal[q.name]>>
    BY <1>2, Zenon DEF TargetOf
  <2> QED
    BY <2>1, RequestAssumption, TableAssumption
<1> QED
  BY <1>1, <1>2, RequestAssumption

LEMMA ForwardedStep == Sound(live) /\ Forwarded /\ [Next]_vars => Forwarded'
<1> SUFFICES ASSUME Sound(live), Forwarded, [Next]_vars
             PROVE  Forwarded'
  OBVIOUS
<1>1. ASSUME NEW q \in Requests, Connect(q) PROVE Forwarded'
  <2>1. last'.kind \in {"tunnel", "mitm", "badGateway"}
    BY <1>1 DEF Connect, Answered
  <2> QED
    BY <2>1 DEF Forwarded
<1>2. ASSUME NEW q \in Requests, Serve(q) PROVE Forwarded'
  <2> DEFINE tls == client = "tls"
             target == TargetOf(q, tls)
             route == Pick(live, target[1], target[2], target[3], Decoded(q.path))
  <2>1. q.form # "connect"
    BY <1>2 DEF Serve
  <2>2. target[3] \in Domains
    BY <2>1, AskedDomain
  <2>3. CASE /\ route # NoRoute
             /\ Answered(q, tls, "forward", route.target, route,
                         OutPath(q.path, route.prefix, route.target.path))
    <3>1. route \in Routes /\ SoundRoute(route) /\ PathHasPrefix(Decoded(q.path), route.prefix)
      BY <2>2, <2>3, PickedSound
    <3> HIDE DEF route
    <3>2. /\ last'.kind = "forward" /\ last'.request = q /\ last'.route = route
          /\ last'.path = OutPath(q.path, route.prefix, route.target.path)
      BY <2>3 DEF Answered
    <3> QED
      BY <3>1, <3>2 DEF Forwarded, SoundRoute
  <2>4. CASE last'.kind \in {"passthrough", "status", "file"}
    BY <2>4 DEF Forwarded
  <2> QED
    BY <1>2, <2>3, <2>4 DEF Serve, Answered
<1>3. CASE UNCHANGED last
  BY <1>3 DEF Forwarded
<1> QED
  BY <1>1, <1>2, <1>3 DEF Next, vars, Reconnect

\* For every prefix, path and base: the upstream gets what the prefix leaves,
\* under its base and after one slash, and every escape as the client sent it
\* where the prefix can be cut from the encoded path.
THEOREM PathKept == Spec => []PathCarriedOver
<1>1. Init => Forwarded
  BY DEF Init, Nothing, Forwarded
<1>2. Forwarded => PathCarriedOver
  <2> SUFFICES ASSUME Forwarded, last.kind = "forward" PROVE PathCarriedOver
    BY DEF PathCarriedOver
  <2> DEFINE raw == last.request.path
             prefix == last.route.prefix
             base == last.route.target.path
  <2>1. raw \in Seq(Strings) /\ prefix \in Seq(Strings) /\ base \in Seq(Strings)
    BY RequestAssumption DEF Forwarded, Routes, Targets
  <2>2. /\ last.path = OutPath(raw, prefix, base) /\ prefix # <<>>
        /\ PathHasPrefix(Decoded(raw), prefix)
    BY DEF Forwarded
  <2> HIDE DEF raw, prefix, base
  <2>3. Decoded(last.path) = Mapped(Decoded(raw), prefix, Decoded(base))
    BY <2>1, <2>2, OutMeant
  <2>4. CutClean(raw, prefix) /\ (base = <<>> \/ Last(base) # "%2F") =>
          last.path = Mapped(raw, prefix, base)
    BY <2>1, <2>2, OutKept
  <2> QED
    BY <2>3, <2>4 DEF PathCarriedOver, raw, prefix, base
<1>3. [](Sound(live)) /\ Init /\ [][Next]_vars => []Forwarded
  BY <1>1, ForwardedStep, PTL
<1> QED
  BY <1>2, <1>3, SoundInvariant, PTL DEF Spec
==============================================================================
