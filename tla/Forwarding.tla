------------------------------ MODULE Forwarding ------------------------------
(***************************************************************************)
(* What becomes of a request (src/internal/proxy/proxy.go, target.go,      *)
(* connect.go, src/internal/route/handler.go, path.go): the target it asks *)
(* for, the route it gets from the table in force, and what is sent on.    *)
(*                                                                         *)
(* One client uses one connection after another; CONNECT turns one into a  *)
(* blind tunnel, a TLS connection of the same handler, or nothing.         *)
(* Reloads happen at any time, and connections outlive them.               *)
(*                                                                         *)
(* An encoded path is a sequence of symbols, of which "%2F" and "%20"      *)
(* stand for three bytes; decoding replaces them by "/" and " ".           *)
(***************************************************************************)
EXTENDS RouteTable

CONSTANT Requests   \* [form, scheme, name, port, path]

ASSUME RequestAssumption ==
  \A q \in Requests :
    /\ q.form \in {"connect", "absolute", "origin"}
    /\ q.name \in DOMAIN Normal /\ q.port \in {NoPort} \cup Nat /\ q.path \in Seq(Strings)

VARIABLES
  client,   \* the connection: "plain", "tls" (MITM), "tunnel" or "closed"
  hasCA,    \* Proxy.tlsConfig is not nil
  last      \* history: the last request and what was done with it

vars == <<tableVars, client, hasCA, last>>

NoRequest == [form |-> "none", scheme |-> "", name |-> "", port |-> NoPort, path |-> <<>>]
Nothing == [request |-> NoRequest, tls |-> FALSE, kind |-> "none", to |-> <<>>,
            route |-> NoRoute, path |-> <<>>]

Init ==
  /\ TableInit
  /\ client = "plain"
  /\ hasCA \in BOOLEAN
  /\ last = Nothing

-----------------------------------------------------------------------------
(* target.go: what a request asks for, as <<protocol, port, domain>>.      *)

DefaultPort(protocol) == IF protocol = "https" THEN 443 ELSE 80
HostPort(port, fallback) == IF port \in PortNumbers THEN port ELSE fallback
OwnProtocol(tls) == IF tls THEN "https" ELSE "http"

TargetOf(q, tls) ==
  CASE q.form = "connect" -> <<"https", HostPort(q.port, 443), Normal[q.name]>>
    [] q.form = "origin" ->
         <<OwnProtocol(tls), HostPort(q.port, DefaultPort(OwnProtocol(tls))), Normal[q.name]>>
    [] q.form = "absolute" ->
         <<q.scheme, IF q.port = NoPort THEN DefaultPort(q.scheme) ELSE q.port, Normal[q.name]>>

\* Seeded fault: what came through a TLS connection leaves by plain HTTP.
PassthroughPlain(q, tls) ==
  [scheme |-> IF q.form = "absolute" THEN q.scheme ELSE "http", name |-> q.name, port |-> q.port]

\* passthroughURL: an absolute URL as it is, otherwise the Host of the request.
PassthroughURL(q, tls) ==
  [scheme |-> IF q.form = "absolute" THEN q.scheme ELSE OwnProtocol(tls),
   name |-> q.name, port |-> q.port]

-----------------------------------------------------------------------------
(* path.go.                                                                *)

Decoded(path) ==
  [i \in DOMAIN path |-> CASE path[i] = "%2F" -> "/" [] path[i] = "%20" -> " "
                           [] OTHER -> path[i]]
Encoded(path) == [i \in DOMAIN path |-> IF path[i] = " " THEN "%20" ELSE path[i]]

\* url.URL: RawPath counts if it is an encoding of Path.
EscapedPath(path, raw) ==
  IF raw # <<>> /\ Decoded(raw) = path THEN raw ELSE Encoded(path)

StartsWithSlash(path) == path # <<>> /\ Head(path) = "/"
EndsWithSlash(path) == path # <<>> /\ Last(path) = "/"
TrimPrefix(path, prefix) ==
  IF IsPrefix(prefix, path) THEN SubSeq(path, Len(prefix) + 1, Len(path)) ELSE path

\* path[1:] of Go, which takes off one byte.
DropByte(path) == IF Head(path) = "%2F" THEN <<"2F">> \o Tail(path) ELSE Tail(path)

\* Seeded fault: the two parts are put together as they are.
JoinUnchecked(base, baseSlash, rest, restSlash) == base \o rest

\* singleJoiningSlash, and the switch of buildOutPath on the encoded parts.
Join(base, baseSlash, rest, restSlash) ==
  CASE baseSlash /\ restSlash -> base \o DropByte(rest)
    [] ~baseSlash /\ ~restSlash -> base \o <<"/">> \o rest
    [] OTHER -> base \o rest

\* buildOutPath, as the encoded path that the upstream gets.
OutPath(raw, prefix, base) ==
  LET path == Decoded(raw)
      rest == TrimPrefix(path, prefix)
      baseSlash == EndsWithSlash(Decoded(base))
      restSlash == StartsWithSlash(rest)
      outPath == Join(Decoded(base), baseSlash, rest, restSlash)
  IN IF IsPrefix(prefix, path) /\ ~IsPrefix(prefix, raw)
     THEN EscapedPath(outPath, <<>>)
     ELSE EscapedPath(outPath, Join(base, baseSlash, TrimPrefix(raw, prefix), restSlash))

\* The file a static route looks for under its directory.
StaticPath(path, prefix) == TrimPrefix(TrimPrefix(path, prefix), <<"/">>)

-----------------------------------------------------------------------------
Answered(q, tls, kind, to, route, path) ==
  last' = [request |-> q, tls |-> tls, kind |-> kind, to |-> to, route |-> route, path |-> path]

\* handleConnect: the client gets a tunnel, a 502 and the end of its
\* connection, or a TLS server that hands its requests to the same handler.
Connect(q) ==
  LET target == TargetOf(q, client = "tls") IN
  /\ client \in {"plain", "tls"} /\ q.form = "connect"
  /\ \/ /\ ~Has(live, target[1], target[2], target[3])
        /\ client' = "tunnel"
        /\ Answered(q, client = "tls", "tunnel", target, NoRoute, <<>>)
     \/ /\ Has(live, target[1], target[2], target[3])
        /\ client' = IF hasCA THEN "tls" ELSE "closed"
        /\ Answered(q, client = "tls", IF hasCA THEN "mitm" ELSE "badGateway",
                    target, NoRoute, <<>>)
  /\ UNCHANGED <<tableVars, hasCA>>

\* serveRequest: a fixed answer, a file, or a request to an upstream or to
\* where it was going.
Serve(q) ==
  LET tls == client = "tls"
      target == TargetOf(q, tls)
      route == Pick(live, target[1], target[2], target[3], Decoded(q.path))
  IN
  /\ client \in {"plain", "tls"} /\ q.form # "connect"
  /\ \/ /\ route = NoRoute
        /\ Answered(q, tls, "passthrough", PassthroughURL(q, tls), route, q.path)
     \/ /\ route # NoRoute /\ route.status # 0
        /\ Answered(q, tls, "status", route.status, route, <<>>)
     \/ /\ route # NoRoute /\ route.target.kind = "root"
        /\ Answered(q, tls, "file", route.target, route,
                    StaticPath(Decoded(q.path), route.prefix))
     \/ /\ route # NoRoute /\ route.target.kind = "url"
        /\ Answered(q, tls, "forward", route.target, route,
                    OutPath(q.path, route.prefix, route.target.path))
  /\ UNCHANGED <<tableVars, client, hasCA>>

Reconnect ==
  /\ client \in {"tunnel", "closed"}
  /\ client' = "plain"
  /\ UNCHANGED <<tableVars, hasCA, last>>

Next ==
  \/ \E q \in Requests : Connect(q) \/ Serve(q)
  \/ Reconnect
  \/ Reload /\ UNCHANGED <<client, hasCA, last>>

Spec == Init /\ [][Next]_vars

-----------------------------------------------------------------------------
(* Properties.                                                             *)

\* Every variable keeps its type, and the table what its routes need.
TypeOK ==
  /\ TableOK
  /\ client \in {"plain", "tls", "tunnel", "closed"}
  /\ hasCA \in BOOLEAN
  /\ last.request \in Requests \cup {NoRequest}
  /\ last.kind \in {"none", "tunnel", "mitm", "badGateway", "passthrough",
                    "status", "file", "forward"}

\* The server a client means: the one its URL or Host names, at the port it
\* names or else that of the scheme, which within TLS is https.
Meant(q, tls) ==
  LET scheme == IF q.form = "absolute" THEN q.scheme ELSE IF tls THEN "https" ELSE "http"
  IN [scheme |-> scheme, name |-> Normal[q.name],
      port |-> IF q.port = NoPort THEN (IF scheme = "https" THEN 443 ELSE 80) ELSE q.port]

\* Where the transport dials for a URL.
Dialled(u) ==
  [scheme |-> u.scheme, name |-> Normal[u.name],
   port |-> IF u.port = NoPort THEN (IF u.scheme = "https" THEN 443 ELSE 80) ELSE u.port]

\* A request that no route takes leaves for the server its client meant, by the
\* scheme it came with, and if its port is a port, the table was asked about no
\* other: passthroughURL and targetOf read the request each in its own way.
PassedToTarget ==
  last.kind = "passthrough" =>
    LET meant == Meant(last.request, last.tls)
        asked == TargetOf(last.request, last.tls)
    IN /\ Dialled(last.to) = meant
       /\ last.request.port \in {NoPort} \cup PortNumbers =>
            asked = <<meant.scheme, meant.port, meant.name>>

\* The part of an encoded path after the prefix, less one leading slash, and
\* the base less one final slash.
Rest(path, prefix) ==
  LET rest == TrimPrefix(path, prefix) IN IF StartsWithSlash(rest) THEN Tail(rest) ELSE rest
Base(base) == IF EndsWithSlash(base) THEN Front(base) ELSE base

Mapped(path, prefix, base) == Base(base) \o <<"/">> \o Rest(path, prefix)

\* The prefix, and then the end of a segment, are in the encoded path as such.
CutClean(path, prefix) ==
  /\ IsPrefix(prefix, path)
  /\ Len(path) > Len(prefix) => path[Len(prefix) + 1] # "%2F"

\* The upstream gets the path that the prefix leaves, under its base, with one
\* slash between the two; and with every %2F and %20 as the client sent them
\* (route_test.go:73) when the prefix can be cut from the encoded path.
PathCarriedOver ==
  last.kind = "forward" =>
    LET q == last.request  prefix == last.route.prefix  base == last.route.target.path
    IN /\ Decoded(last.path) = Mapped(Decoded(q.path), prefix, Decoded(base))
       /\ CutClean(q.path, prefix) /\ (base = <<>> \/ Last(base) # "%2F")
            => last.path = Mapped(q.path, prefix, base)

\* What is joined to the base begins with its one slash: neither a second slash
\* nor a lost one (path.go:35, 避免出现双斜杠或丢斜杠).
SlashKept ==
  last.kind = "forward" =>
    LET base == Base(last.route.target.path) IN
    IsPrefix(base, last.path) /\ Len(last.path) > Len(base) /\ last.path[Len(base) + 1] = "/"
=============================================================================
