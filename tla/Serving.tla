------------------------------- MODULE Serving -------------------------------
(***************************************************************************)
(* Connections, signals and shutdown: run, serveSignals and                *)
(* drainConnections of src/cmd/mrp/main.go, Serve and ServeSingleConn of   *)
(* src/internal/frontend/frontend.go, the ownership of a connection in     *)
(* src/internal/proxy/connect.go.                                          *)
(*                                                                         *)
(* A connection is served by an http.Server of its own.  CONNECT hijacks   *)
(* it: that server returns, and the handler's goroutine runs a tunnel or,  *)
(* for a MITM, a second server inside TLS, which a CONNECT within it may   *)
(* hijack in turn.  Level 1 is the server that frontend.Serve starts,      *)
(* level n + 1 the one the handler of level n starts.                      *)
(***************************************************************************)
EXTENDS Integers, FiniteSets

CONSTANTS
  Conns,       \* connections clients may open
  MaxDepth,    \* bound: servers within each other
  MaxSignals,  \* bound: signals sent to the process
  NoConn,      \* no connection, no signal
  NoSignal

Levels == 1..MaxDepth
Signals == {"HUP", "TERM"}

ASSUME ServingAssumption ==
  /\ NoConn \notin Conns /\ NoSignal \notin Signals
  /\ MaxDepth \in Nat \ {0} /\ MaxSignals \in Nat

VARIABLES
  listening,  \* the listener is open
  accept,     \* the goroutine of frontend.Serve; "returned" also closes serveDone
  accepted,   \* the connection Accept returned and Add has not counted
  counter,    \* the WaitGroup connections
  server,     \* per connection and level: ServeSingleConn and what it returns
  handler,    \* per connection and level: the goroutine of handleConnect
  counted,    \* connections whose goroutine in Serve has not called Done
  open,       \* connections the proxy has not closed
  main,       \* the goroutine of serveSignals
  sigCh,      \* the channel of signals, of capacity 1
  sent,       \* history: signals sent to the process
  exitAsked   \* history: an exit signal was sent

acceptVars == <<listening, accept, accepted, counter>>
connVars == <<server, handler, counted, open>>
mainVars == <<main, sigCh, sent, exitAsked>>
vars == <<acceptVars, connVars, mainVars>>

Init ==
  /\ listening = TRUE
  /\ accept = "accept"
  /\ accepted = NoConn
  /\ counter = 0
  /\ server = [c \in Conns |-> [l \in Levels |-> "none"]]
  /\ handler = [c \in Conns |-> [l \in Levels |-> "none"]]
  /\ counted = {}
  /\ open = {}
  /\ main = "wait"
  /\ sigCh = NoSignal
  /\ sent = 0
  /\ exitAsked = FALSE

-----------------------------------------------------------------------------
(* frontend.Serve.                                                         *)

Accept(c) ==
  /\ accept = "accept" /\ listening
  /\ c \notin open /\ server[c][1] = "none"
  /\ accepted' = c
  /\ open' = open \cup {c}
  /\ accept' = "add"
  /\ UNCHANGED <<listening, counter, server, handler, counted, mainVars>>

\* Seeded fault: the connection is not counted.
AddForgotten ==
  /\ accept = "add"
  /\ server' = [server EXCEPT ![accepted][1] = "serving"]
  /\ counted' = counted \cup {accepted}
  /\ accepted' = NoConn
  /\ accept' = "accept"
  /\ UNCHANGED <<listening, counter, handler, open, mainVars>>

\* connections.Add(1), then the goroutine that serves the connection.
Add ==
  /\ accept = "add"
  /\ counter' = counter + 1
  /\ server' = [server EXCEPT ![accepted][1] = "serving"]
  /\ counted' = counted \cup {accepted}
  /\ accepted' = NoConn
  /\ accept' = "accept"
  /\ UNCHANGED <<listening, handler, open, mainVars>>

\* Accept fails for want of file descriptors, say: sleep and try again.
AcceptFails ==
  /\ accept = "accept" /\ listening
  /\ accept' = "backoff"
  /\ UNCHANGED <<listening, accepted, counter, connVars, mainVars>>

Wake ==
  /\ accept = "backoff"
  /\ accept' = "accept"
  /\ UNCHANGED <<listening, accepted, counter, connVars, mainVars>>

\* Seeded fault: a closed listener is one more failure to try again after.
AcceptRetriesClosed ==
  /\ accept = "accept" /\ ~listening
  /\ accept' = "backoff"
  /\ UNCHANGED <<listening, accepted, counter, connVars, mainVars>>

AcceptClosed ==
  /\ accept = "accept" /\ ~listening
  /\ accept' = "returned"
  /\ UNCHANGED <<listening, accepted, counter, connVars, mainVars>>

\* ServeSingleConn has returned: close unless hijacked, then the deferred Done.
Done(c) ==
  /\ c \in counted
  /\ server[c][1] \in {"closed", "hijacked"}
  /\ open' = IF server[c][1] = "closed" THEN open \ {c} ELSE open
  /\ counter' = counter - 1
  /\ counted' = counted \ {c}
  /\ UNCHANGED <<listening, accept, accepted, server, handler, mainVars>>

-----------------------------------------------------------------------------
(* The http.Server of one level and the handler of a CONNECT.              *)

SetServer(c, l, s) == server' = [server EXCEPT ![c][l] = s]
SetHandler(c, l, s) == handler' = [handler EXCEPT ![c][l] = s]

\* The client leaves, a timeout, a failed TLS handshake: the server closes the
\* connection and reports StateClosed.
ServerCloses(c, l) ==
  /\ server[c][l] = "serving"
  /\ SetServer(c, l, "closed")
  /\ open' = open \ {c}
  /\ UNCHANGED <<acceptVars, handler, counted, mainVars>>

\* CONNECT: Hijack reports StateHijacked, so ServeSingleConn returns while the
\* handler goes on.
Hijack(c, l) ==
  /\ server[c][l] = "serving"
  /\ SetServer(c, l, "hijacked")
  /\ SetHandler(c, l, "hijacked")
  /\ UNCHANGED <<acceptVars, counted, open, mainVars>>

\* serveConnect: no route for the host, a tunnel; no CA certificate or no
\* client to answer, nothing more to do; else a server inside TLS.
Dispatch(c, l) ==
  /\ handler[c][l] = "hijacked"
  /\ \/ SetHandler(c, l, "dial") /\ UNCHANGED server
     \/ SetHandler(c, l, "close") /\ UNCHANGED server
     \/ /\ l < MaxDepth
        /\ SetHandler(c, l, "inner")
        /\ SetServer(c, l + 1, "serving")
  /\ UNCHANGED <<acceptVars, counted, open, mainVars>>

\* tunnel: the dial or the answer to the client fails, or bytes flow ...
Tunnel(c, l) ==
  /\ handler[c][l] = "dial"
  /\ SetHandler(c, l, "copy") \/ SetHandler(c, l, "close")
  /\ UNCHANGED <<acceptVars, server, counted, open, mainVars>>

\* Seeded fault: a tunnel that ends passes for a connection handed on.
CopyEndsTransferred(c, l) ==
  /\ handler[c][l] = "copy"
  /\ SetHandler(c, l, "done")
  /\ UNCHANGED <<acceptVars, server, counted, open, mainVars>>

\* ... until upstream has no more.
CopyEnds(c, l) ==
  /\ handler[c][l] = "copy"
  /\ SetHandler(c, l, "close")
  /\ UNCHANGED <<acceptVars, server, counted, open, mainVars>>

\* Seeded fault: the handler closes a connection it has handed on.
InnerAlwaysClosed(c, l) ==
  /\ handler[c][l] = "inner"
  /\ server[c][l + 1] \in {"closed", "hijacked"}
  /\ SetHandler(c, l, "close")
  /\ UNCHANGED <<acceptVars, server, counted, open, mainVars>>

\* The inner ServeSingleConn has returned: the connection is this handler's
\* to close again, or it is the inner handler's now.
InnerReturns(c, l) ==
  /\ handler[c][l] = "inner"
  /\ \/ server[c][l + 1] = "closed" /\ SetHandler(c, l, "close")
     \/ server[c][l + 1] = "hijacked" /\ SetHandler(c, l, "done")
  /\ UNCHANGED <<acceptVars, server, counted, open, mainVars>>

CloseClient(c, l) ==
  /\ handler[c][l] = "close"
  /\ SetHandler(c, l, "done")
  /\ open' = open \ {c}
  /\ UNCHANGED <<acceptVars, server, counted, mainVars>>

Connection(c) ==
  \/ Done(c)
  \/ \E l \in Levels :
       \/ ServerCloses(c, l) \/ Hijack(c, l) \/ Dispatch(c, l)
       \/ Tunnel(c, l) \/ CopyEnds(c, l) \/ CloseClient(c, l)
       \/ (l < MaxDepth /\ InnerReturns(c, l))

-----------------------------------------------------------------------------
(* serveSignals and drainConnections.                                      *)

\* signal.Notify does not block: with a signal waiting, the next is dropped.
Send(sig) ==
  /\ sent < MaxSignals
  /\ sent' = sent + 1
  /\ sigCh' = IF sigCh = NoSignal THEN sig ELSE sigCh
  /\ exitAsked' = (exitAsked \/ sig = "TERM")
  /\ UNCHANGED <<acceptVars, connVars, main>>

TakeSignal ==
  /\ main = "wait"
  /\ sigCh # NoSignal
  /\ main' = IF sigCh = "HUP" THEN "reload" ELSE "close"
  /\ sigCh' = NoSignal
  /\ UNCHANGED <<acceptVars, connVars, sent, exitAsked>>

\* Reload runs in the goroutine that takes the signals.
ReloadEnds ==
  /\ main = "reload"
  /\ main' = "wait"
  /\ UNCHANGED <<acceptVars, connVars, sigCh, sent, exitAsked>>

CloseListener ==
  /\ main = "close"
  /\ listening' = FALSE
  /\ main' = "await"
  /\ UNCHANGED <<accept, accepted, counter, connVars, sigCh, sent, exitAsked>>

\* Seeded fault: the drain starts without waiting for serveDone.
ServeDoneSkipped ==
  /\ main = "await"
  /\ main' = "drain"
  /\ UNCHANGED <<acceptVars, connVars, sigCh, sent, exitAsked>>

ServeDone ==
  /\ main = "await"
  /\ accept = "returned"
  /\ main' = "drain"
  /\ UNCHANGED <<acceptVars, connVars, sigCh, sent, exitAsked>>

Exit(how) ==
  /\ main = "drain"
  /\ main' = how
  /\ UNCHANGED <<acceptVars, connVars, sent, exitAsked>>

Drained == counter = 0 /\ Exit("complete") /\ UNCHANGED sigCh
GraceElapsed == Exit("forced") /\ UNCHANGED sigCh
Interrupted == sigCh # NoSignal /\ Exit("forced") /\ sigCh' = NoSignal

Main ==
  \/ TakeSignal \/ ReloadEnds \/ CloseListener \/ ServeDone
  \/ Drained \/ GraceElapsed \/ Interrupted

-----------------------------------------------------------------------------
Exited == main \in {"complete", "forced"}

\* The exit of main ends every goroutine.
Next ==
  /\ ~Exited
  /\ \/ \E c \in Conns : Accept(c) \/ Connection(c)
     \/ Add \/ AcceptFails \/ Wake \/ AcceptClosed
     \/ \E sig \in Signals : Send(sig)
     \/ Main

Spec == Init /\ [][Next]_vars

\* The goroutines of the process run, the grace period runs out; nothing is
\* assumed of clients and upstreams, whose connections may last for ever.
FairSpec ==
  /\ Spec
  /\ WF_vars(Next /\ Main)
  /\ WF_vars(Next /\ (Add \/ Wake \/ AcceptClosed))

-----------------------------------------------------------------------------
(* Properties.                                                             *)

\* Every variable keeps its type; a WaitGroup below zero would panic.
TypeOK ==
  /\ listening \in BOOLEAN
  /\ accept \in {"accept", "add", "backoff", "returned"}
  /\ accepted \in Conns \cup {NoConn}
  /\ counter \in Nat
  /\ server \in [Conns -> [Levels -> {"none", "serving", "closed", "hijacked"}]]
  /\ handler \in [Conns -> [Levels -> {"none", "hijacked", "dial", "copy",
                                       "inner", "close", "done"}]]
  /\ counted \subseteq Conns
  /\ open \subseteq Conns
  /\ main \in {"wait", "reload", "close", "await", "drain", "complete", "forced"}
  /\ sigCh \in Signals \cup {NoSignal}
  /\ sent \in Nat
  /\ exitAsked \in BOOLEAN

\* The connection c is used by a server or by the handler of a CONNECT.
Used(c) ==
  \E l \in Levels :
    server[c][l] = "serving" \/ handler[c][l] \in {"hijacked", "dial", "copy"}

\* The connection c is used, or some goroutine has yet to close it.
Owned(c) ==
  \/ Used(c) \/ accepted = c \/ c \in counted
  \/ \E l \in Levels : handler[c][l] \in {"inner", "close"}

\* No goroutine closes a connection that another one uses: what was hijacked
\* belongs to the hijacker, through every level of nested CONNECT.
NotClosedInUse == \A c \in Conns : Used(c) => c \in open

\* No connection is left open once no goroutine is responsible for it.
NoLeak == \A c \in open : Owned(c)

\* When the process reports a complete shutdown, every connection it had
\* accepted has been served to its end, or was hijacked.
DrainCoversServed ==
  main = "complete" => accepted = NoConn /\ \A c \in Conns : server[c][1] # "serving"

\* An exit signal that has been taken ends the process, whatever clients do.
ExitTaken == main = "close" ~> Exited

\* An exit signal ends the process (main.go:133: it closes the listener, waits
\* for the connections within the grace period and returns).
ExitSignalExits == exitAsked ~> Exited
==============================================================================
