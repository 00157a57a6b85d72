---------------------------- MODULE MCForwarding ----------------------------
(* Values of the constants of Forwarding and RouteTable for TLC. *)
EXTENDS Forwarding

MCStrings == STRING \ {"NUL"}

Root == <<"/">>
A == <<"/", "a">>
ASlash == <<"/", "a", "/">>
AB == <<"/", "a", "/", "b">>
ASpace == <<"/", "a", " ", "/">>
Padded(prefix) == <<" ">> \o prefix \o <<" ">>

Url(scheme, host, port, path) == [scheme |-> scheme, host |-> host, port |-> port, path |-> path]
U == Url("http", "u", NoPort, <<>>)
V == Url("https", "v", 8443, <<"/", "v", "/">>)
Here == Url("http", "", 80, <<>>)
Short == Url("", "w", 80, <<>>)
Dir == Url("", "", NoPort, <<".", "/">>)

To(prefix, upstream) == [prefix |-> prefix, upstream |-> upstream, status |-> 0, body |-> ""]
Reply(prefix, status, body) ==
  [prefix |-> prefix, upstream |-> NoUpstream, status |-> status, body |-> body]
Server(domain, protocol, port, routes) ==
  [domain |-> domain, protocol |-> protocol, port |-> port, routes |-> routes]

\* Two domains, one of them in two spellings, as are a protocol and a prefix;
\* omitted and explicit protocols and ports, a server without routes, every kind
\* of prefix and of target.
MCValid ==
  { Server("x", "", 0, <<To(Root, U), To(A, V)>>),
    Server("X", "", 0, <<To(Padded(A), Dir), To(ASpace, V)>>),
    Server("x", " HTTPS", 0, <<To(Root, Here)>>),
    Server("x", "http", 0, <<To(Root, V)>>),
    Server("x", "", 443, <<Reply(ASlash, 204, ""), To(AB, Short)>>),
    Server("x", "https", 443, <<>>),
    Server("y", "https", 443, <<Reply(A, 200, "hello"), To(ASlash, V)>>),
    Server("y", "", 0, <<Reply(AB, 200, "")>>) }

\* One server for each thing that is refused.
MCInvalid ==
  { Server("blank", "", 0, <<To(Root, U)>>),
    Server("y", "ftp", 0, <<To(Root, U)>>),
    Server("y", "", 65536, <<To(Root, U)>>),
    Server("y", "", 0, <<To(<<"a">>, U)>>),
    Server("y", "", 0, <<To(Padded(<<>>), U)>>),
    Server("y", "", 0, <<To(Root, Url("https", "", NoPort, <<"/", "v">>))>>),
    Server("y", "", 0, <<To(Root, Url("ftp", "u", NoPort, <<>>))>>),
    Server("y", "", 0, <<To(Root, Url("", "u", 0, <<>>))>>),
    Server("y", "", 0, <<To(Root, Url("", "", 80, <<>>))>>),
    Server("y", "", 0, <<To(Root, NoUpstream)>>),
    Server("y", "", 0, <<To(A, U), To(Padded(A), V)>>),
    Server("y", "", 0, <<Reply(A, 100, "")>>),
    Server("y", "", 0, <<Reply(A, 204, "hello")>>),
    Server("y", "", 0, <<[To(A, U) EXCEPT !.status = 200]>>) }

\* Each valid server alone, and each server, valid or not, after three of them.
MCFirst ==
  { Server("x", "", 0, <<To(Root, U), To(A, V)>>),
    Server("x", "https", 0, <<To(Root, V)>>),
    Server("y", "", 0, <<Reply(AB, 200, "")>>) }
MCConfigs ==
  {<<>>} \cup {<<s>> : s \in MCValid} \cup MCFirst \X (MCValid \cup MCInvalid)

MCSortedDomains == <<"", "x", "y", "z">>
MCNormal == ("x" :> "x") @@ ("X" :> "x") @@ ("y" :> "y") @@ ("z" :> "z") @@ ("blank" :> "")

MCFolded ==
  ("" :> "") @@ ("http" :> "http") @@ ("https" :> "https") @@ (" HTTPS" :> "https")
    @@ ("ftp" :> "ftp")

\* Without the spaces at its ends.
WithoutSpaces(text) ==
  LET inner == {i \in DOMAIN text : text[i] # " "} IN
  IF inner = {} THEN <<>> ELSE SubSeq(text, Min(inner), Max(inner))
Spelt ==
  UNION {{prefix, Padded(prefix)} : prefix \in {<<>>, <<"a">>, Root, A, ASlash, AB, ASpace}}
MCTrimmed == [prefix \in Spelt |-> WithoutSpaces(prefix)]

\* The path of an absolute-form request may be empty.
MCPaths == {<<>>, Root, A, ASlash, AB, <<"/", "a", "b">>, <<"/", "b">>,
            <<"/", "a", "/", "/", "b">>, <<"/", "a", " ", "/", "b">>}
RawPaths == {<<>>, Root, A, AB, <<"/", "a", "b">>, <<"/", "a", "%2F", "b">>,
             <<"/", "a", "/", "%2F", "b">>, <<"/", "a", "/", "b", "%2F", "%20">>,
             <<"/", "a", "%20", "/", "b", "%2F">>}

Request(form, scheme, name, port, path) ==
  [form |-> form, scheme |-> scheme, name |-> name, port |-> port, path |-> path]
MCRequests ==
  {Request("connect", "", name, port, <<>>) : name \in {"X", "y", "z"}, port \in {NoPort, 443}}
    \cup {Request("origin", "", "x", NoPort, path) : path \in RawPaths \ {<<>>}}
    \cup {Request("origin", "", "y", port, AB) : port \in {80, 443, 70000}}
    \cup {Request("absolute", "http", "X", NoPort, path) : path \in RawPaths}
    \cup {Request("absolute", "https", "y", port, path) :
            port \in {NoPort, 80}, path \in {A, <<"/", "a", "%2F", "b">>, <<"/", "a", "/", "%2F", "b">>}}

\* The fingerprints of these configurations tell their tables apart.
ASSUME Legible /\ Numerals(NoPort..599 \cup {8443, MaxPort}) /\ PrintsApart
=============================================================================
