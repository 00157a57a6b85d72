----------------------------- MODULE RouteTable -----------------------------
(***************************************************************************)
(* The route table: how it is built from a configuration                   *)
(* (src/internal/config/config.go), how a request finds its route in it    *)
(* and how a new table is told from the one in force                       *)
(* (src/internal/route/route.go, Proxy.reload).                            *)
(*                                                                         *)
(* A reload builds a table of its own under reloadMu, so it is one step.   *)
(* Text that is taken apart is a sequence of symbols.  What a route does   *)
(* with a request is reduced to [status, target, body].                    *)
(***************************************************************************)
EXTENDS Integers, Sequences, SequencesExt, TLC

CONSTANTS
  Strings,         \* the strings of the program
  SortedDomains,   \* the names there are, in the order slices.Sorted gives
  Normal,          \* how a domain is spelt -> its name, "" if it has none
  Folded,          \* how a protocol is spelt -> ToLower(TrimSpace) of it
  Trimmed,         \* how a prefix is spelt -> TrimSpace of it
  Configs,         \* the configurations a user may save: sequences of servers
  Ports, Paths,    \* what requests ask for
  NoRoute,         \* the nil route
  Failed           \* no table: the configuration is refused

Domains == ToSet(SortedDomains)
Protocols == {"http", "https"}
AnyProtocol == ""
AnyPort == 0

MaxPort == 65535
PortNumbers == 1..MaxPort
NoPort == -1       \* an upstream or a host without a port

\* What a server of a configuration is, as its file spells it; of an upstream,
\* what TrimSpace leaves.  What contains "://" has a scheme (target.go:20).
Upstreams ==
  {u \in [scheme: Strings, host: Strings, port: Int, path: Seq(Strings)] :
     u.scheme = "" => "://" \notin ToSet(u.path)}
RouteConfigs == [prefix: DOMAIN Trimmed, upstream: Upstreams, status: Int, body: Strings]
Servers ==
  [domain: DOMAIN Normal, protocol: DOMAIN Folded, port: Int, routes: Seq(RouteConfigs)]

\* What Table.byDomain holds of it.
Targets == [kind: Strings, scheme: Strings, host: Strings, port: Int, path: Seq(Strings)]
Routes == [prefix: Seq(Strings), status: Int, body: Strings, target: Targets]
Entries ==
  [protocol: Protocols \cup {AnyProtocol}, port: {AnyPort} \cup PortNumbers, routes: Seq(Routes)]

ASSUME StringAssumption ==
  {"", "/", " ", "2F", "%2F", "%20", "http", "https", "url", "root", "none", "refused"}
    \subseteq Strings

ASSUME TableAssumption ==
  /\ Configs \subseteq Seq(Servers) /\ <<>> \in Configs
  /\ \A d \in DOMAIN Normal : Normal[d] \in Domains
  /\ \A p \in DOMAIN Folded : Folded[p] \in Strings
  /\ \A p \in DOMAIN Trimmed : Trimmed[p] \in Seq(Strings)
  /\ Paths \subseteq Seq(Strings)
  /\ SortedDomains \in Seq(Domains)
  /\ \A i, j \in DOMAIN SortedDomains : SortedDomains[i] = SortedDomains[j] => i = j
  /\ NoRoute \notin Routes /\ Failed \notin [Domains -> Seq(Entries)]

VARIABLES
  live,       \* Proxy.table: domain -> entries
  published   \* history: the servers of the last reload that succeeded

tableVars == <<live, published>>

NewTable == [d \in Domains |-> <<>>]

TableInit == live = NewTable /\ published = <<>>

-----------------------------------------------------------------------------
(* target.go: an upstream as it is spelt is [scheme, host, port, path],    *)
(* with what is not there empty; so is its target, with its kind.          *)

NoUpstream == [scheme |-> "", host |-> "", port |-> NoPort, path |-> <<>>]
Target(kind, u) ==
  [kind |-> kind, scheme |-> u.scheme, host |-> u.host, port |-> u.port, path |-> u.path]
Directory(path) == Target("root", [NoUpstream EXCEPT !.path = path])
NoTarget == Target("none", NoUpstream)
Refused == Target("refused", NoUpstream)

\* A URL, whose port alone passes for a host (target.go:28); a directory, told by
\* its separators; else the short form of a URL.
ParseTarget(u) ==
  CASE u.scheme # "" ->
         IF u.scheme \in Protocols /\ (u.host # "" \/ u.port # NoPort)
         THEN Target("url", u)
         ELSE Refused
    [] u.scheme = "" /\ u.path # <<>> -> Directory(u.path)
    [] OTHER ->
         IF u.host # "" /\ u.port \in {NoPort} \cup PortNumbers
         THEN Target("url", [u EXCEPT !.scheme = "http"])
         ELSE Refused

Summary(target) ==
  (IF target.kind = "url"
   THEN <<target.scheme, "://", target.host, ToString(target.port)>> ELSE <<>>)
    \o target.path

-----------------------------------------------------------------------------
(* config.go: validation.                                                  *)

PrefixOf(r) == Trimmed[r.prefix]
ProtocolOf(s) == Folded[s.protocol]

\* Seeded fault: a route may have neither a status nor an upstream.
ValidRouteWithoutTarget(r) ==
  /\ PrefixOf(r) # <<>> /\ PrefixOf(r)[1] = "/"
  /\ r.status = 0 \/ (r.upstream = NoUpstream /\ r.status \in 200..599)
  /\ ~(r.body # "" /\ r.status \in {204, 304})
  /\ r.upstream = NoUpstream \/ ParseTarget(r.upstream) # Refused

ValidRoute(r) ==
  /\ PrefixOf(r) # <<>> /\ PrefixOf(r)[1] = "/"
  /\ (r.status = 0) # (r.upstream = NoUpstream)
  /\ r.status = 0 \/ r.status \in 200..599
  /\ ~(r.body # "" /\ r.status \in {204, 304})
  /\ r.upstream = NoUpstream \/ ParseTarget(r.upstream) # Refused

\* buildRoutes: no prefix twice within one server.
ValidRoutes(routes) ==
  /\ \A i \in DOMAIN routes : ValidRoute(routes[i])
  /\ \A i, j \in DOMAIN routes : PrefixOf(routes[i]) = PrefixOf(routes[j]) => i = j

\* A status route keeps its body, a route to an upstream gets its target.
Built(r) ==
  [prefix |-> PrefixOf(r), status |-> r.status,
   body |-> IF r.status # 0 THEN r.body ELSE "",
   target |-> IF r.status # 0 \/ r.upstream = NoUpstream THEN NoTarget
              ELSE ParseTarget(r.upstream)]

\* buildServerEntry.
ValidEntry(s) ==
  ProtocolOf(s) \in Protocols \cup {AnyProtocol} /\ s.port \in {AnyPort} \cup PortNumbers

EntryOf(s) ==
  [protocol |-> ProtocolOf(s), port |-> s.port,
   routes |-> [i \in DOMAIN s.routes |-> Built(s.routes[i])]]

\* Table.Add: protocol and port together are used once per domain.
Duplicated(t, s) ==
  \E e \in ToSet(t[Normal[s.domain]]) : e.protocol = ProtocolOf(s) /\ e.port = s.port

Acceptable(t, s) ==
  Normal[s.domain] # "" /\ ValidEntry(s) /\ ValidRoutes(s.routes) /\ ~Duplicated(t, s)

AddServer(t, s) ==
  IF t = Failed \/ ~Acceptable(t, s) THEN Failed
  ELSE [t EXCEPT ![Normal[s.domain]] = Append(@, EntryOf(s))]

\* The table as it grows, server by server.
Tables(config) ==
  LET after[n \in 0..Len(config)] ==
        IF n = 0 THEN NewTable ELSE AddServer(after[n - 1], config[n])
  IN after

BuildTable(config) == Tables(config)[Len(config)]

-----------------------------------------------------------------------------
(* route.go: the match of a request.                                       *)

Matches(e, protocol, port) ==
  e.protocol \in {AnyProtocol, protocol} /\ e.port \in {AnyPort, port}

\* Seeded fault: the prefix need not end where a segment does.
PathPrefixNoBoundary(path, prefix) ==
  prefix = <<"/">> \/ IsPrefix(prefix, path)

PathHasPrefix(path, prefix) ==
  \/ prefix = <<"/">>
  \/ /\ IsPrefix(prefix, path)
     /\ \/ Last(prefix) = "/"
        \/ Len(path) = Len(prefix)
        \/ path[Len(prefix) + 1] = "/"

Better(best, r, path) ==
  /\ PathHasPrefix(path, r.prefix)
  /\ best = NoRoute \/ Len(r.prefix) > Len(best.prefix)

Improved(best, r, path) == IF Better(best, r, path) THEN r ELSE best

\* The best route so far, in the inner loop of Pick and in the outer one.
OfRoutes(best, routes, path) ==
  LET after[n \in 0..Len(routes)] ==
        IF n = 0 THEN best ELSE Improved(after[n - 1], routes[n], path)
  IN after

AfterEntry(best, e, protocol, port, path) ==
  IF Matches(e, protocol, port) THEN OfRoutes(best, e.routes, path)[Len(e.routes)] ELSE best

OfEntries(entries, protocol, port, path) ==
  LET after[n \in 0..Len(entries)] ==
        IF n = 0 THEN NoRoute
        ELSE AfterEntry(after[n - 1], entries[n], protocol, port, path)
  IN after

\* Pick keeps the first of the longest prefixes.
Pick(t, protocol, port, domain, path) ==
  OfEntries(t[domain], protocol, port, path)[Len(t[domain])]

\* Seeded fault: an omitted protocol matches nothing.
HasExactly(t, protocol, port, domain) ==
  \E i \in DOMAIN t[domain] :
    t[domain][i].protocol = protocol /\ Matches(t[domain][i], protocol, port)

\* What CONNECT asks: decrypt the tunnel, or copy its bytes.
Has(t, protocol, port, domain) ==
  \E i \in DOMAIN t[domain] : Matches(t[domain][i], protocol, port)

-----------------------------------------------------------------------------
(* route.go: the fingerprint, symbol by symbol; text in one piece is one.  *)

Text(s) == IF s = "" THEN <<>> ELSE <<s>>
Field(text) == text \o <<"NUL">>

\* There is no Host and there are no headers, each of which is a field.
RouteFingerprint(r) ==
  Field(r.prefix) \o Field(Summary(r.target)) \o Field(<<ToString(r.status)>>)
    \o Field(Text(r.body)) \o <<"NUL", "NUL", "NL">>

RoutesFingerprint(e) ==
  FlattenSeq([i \in DOMAIN e.routes |-> RouteFingerprint(e.routes[i])])

EntryFingerprint(e) ==
  Field(Text(e.protocol)) \o Field(<<ToString(e.port)>>) \o RoutesFingerprint(e)

DomainFingerprint(t, d) ==
  IF t[d] = <<>> THEN <<>>
  ELSE Field(<<d>>) \o FlattenSeq([i \in DOMAIN t[d] |-> EntryFingerprint(t[d][i])])

Fingerprint(t) ==
  FlattenSeq([n \in DOMAIN SortedDomains |-> DomainFingerprint(t, SortedDomains[n])])

-----------------------------------------------------------------------------
(* One reload after another; one that fails changes nothing.               *)

\* What config.Load makes of each configuration that it accepts.
Loads ==
  {[config |-> config, table |-> BuildTable(config), print |-> Fingerprint(BuildTable(config))] :
     config \in {c \in Configs : BuildTable(c) # Failed}}

\* Seeded fault: the domains of the new table are put into the one in force.
ReloadInPlace ==
  LET current == Fingerprint(live) IN
  \E load \in Loads :
    /\ live' = IF load.print = current THEN live
               ELSE [d \in Domains |-> IF load.table[d] = <<>> THEN live[d] ELSE load.table[d]]
    /\ published' = load.config

\* A table of the same fingerprint does not replace the one in force.
Reload ==
  LET current == Fingerprint(live) IN
  \E load \in Loads :
    /\ live' = IF load.print = current THEN live ELSE load.table
    /\ published' = load.config

-----------------------------------------------------------------------------
(* Properties.                                                             *)

\* Nothing that the user writes contains the separator of the fingerprint, and
\* no domain looks like a prefix; the code checks neither (route.go:36, 138).
Legible == "NUL" \notin Strings \cup Domains /\ "/" \notin Domains

\* No two numbers are written alike, and none like what else a field may be
\* (strconv.Itoa, and %d of fmt).
Numerals(Numbers) ==
  /\ \A m, n \in Numbers : ToString(m) = ToString(n) => m = n
  /\ \A n \in Numbers : ToString(n) \notin Protocols \cup {"NUL"}

\* What Reload trusts in: tables that differ have fingerprints that differ.
PrintsApart == \A a, b \in Loads : a.print = b.print => a.table = b.table

\* Every entry of the table has its type; routeHandler dereferences the target
\* of every route that has no status.
TableOK ==
  /\ live \in [Domains -> Seq(Entries)]
  /\ \A d \in Domains : \A e \in ToSet(live[d]) : \A r \in ToSet(e.routes) :
       (r.status = 0) <=> r.target.kind \in {"url", "root"}

\* A prefix, less a final slash, is whole segments of the path, and only the
\* slash alone covers a path without one.
Covers(prefix, path) ==
  LET ends == IF Last(prefix) = "/" THEN Front(prefix) ELSE prefix
      n == Len(ends)
  IN \/ prefix = <<"/">>
     \/ /\ IsPrefix(ends, path) /\ (n = Len(path) \/ (n < Len(path) /\ path[n + 1] = "/"))
        /\ Len(path) >= Len(prefix)

\* The routes of a configuration, as <<server, route>>, and those of them that
\* cover a request.
RoutesOf(config) ==
  UNION {{<<n, i>> : i \in DOMAIN config[n].routes} : n \in DOMAIN config}

Declared(config, x) == config[x[1]].routes[x[2]]

Covering(config, protocol, port, domain, path) ==
  {x \in RoutesOf(config) :
     LET server == config[x[1]] IN
     /\ Normal[server.domain] = domain
     /\ ProtocolOf(server) \in {AnyProtocol, protocol} /\ server.port \in {AnyPort, port}
     /\ Covers(PrefixOf(Declared(config, x)), path)}

\* x comes no later than y in the configuration file.
Before(x, y) == x[1] < y[1] \/ (x[1] = y[1] /\ x[2] <= y[2])

\* The route is that of the first of the longest prefixes, or there is none.
FirstOfLongest(found, covering, config) ==
  IF covering = {}
  THEN found = NoRoute
  ELSE \E x \in covering :
         /\ found = Built(Declared(config, x))
         /\ \A y \in covering :
              LET longest == Len(PrefixOf(Declared(config, x)))
                  other == Len(PrefixOf(Declared(config, y)))
              IN other < longest \/ (other = longest /\ Before(x, y))

\* Whatever reloads came before, and whichever of them was skipped for its
\* fingerprint, a request gets the first of the longest prefixes that the
\* configuration last accepted declares for its domain, protocol and port.
AnswersAsConfigured ==
  \A protocol \in Protocols, port \in Ports, domain \in Domains, path \in Paths :
    FirstOfLongest(Pick(live, protocol, port, domain, path),
                   Covering(published, protocol, port, domain, path), published)

\* A tunnel is copied blindly only if no path of its target has a route.
RoutedIsDecrypted ==
  \A protocol \in Protocols, port \in Ports, domain \in Domains, path \in Paths :
    Pick(live, protocol, port, domain, path) # NoRoute => Has(live, protocol, port, domain)
=============================================================================
