-------------------------------- MODULE Tunnel --------------------------------
(***************************************************************************)
(* A blind tunnel (src/internal/proxy/connect.go, tunnel; hijackConn).     *)
(*                                                                         *)
(* The handler dials the host, answers the client and copies what the host *)
(* sends; a goroutine copies what the client sends, beginning with what    *)
(* net/http has read ahead.  Whichever copy ends closes the sockets, which *)
(* ends the other.  Sockets are queues of at most Window chunks: writing   *)
(* to a full one waits; closing one with unread data resets it, and what   *)
(* was on its way to the other side may be lost.                           *)
(***************************************************************************)
EXTENDS Integers, Sequences

CONSTANTS
  MaxChunks,   \* bound: what each end sends
  Window       \* what a socket holds in one direction

ASSUME TunnelAssumption == MaxChunks \in Nat \ {0} /\ Window \in Nat \ {0}

Ends == {"client", "host"}
Peer(e) == IF e = "client" THEN "host" ELSE "client"

VARIABLES
  handler,  \* of the handler: "dial", "answer", "copy", "return", "close", "done"
  uplink,   \* of the goroutine: "none", "copy", "close", "ended"
  open,     \* the ends whose socket the proxy has open
  ahead,    \* bufio.Reader of the hijacked connection: read, and not taken
  from, to, \* per end: on its way to the proxy, and on its way from it
  hand,     \* per end: what the copy has read from it and not written
  sent,     \* per end: how many chunks it has sent
  got,      \* per end: what it has received
  shut,     \* the ends that send nothing more
  gone,     \* the ends that receive nothing more either
  eof       \* the ends that have seen the end of what comes from the proxy

vars == <<handler, uplink, open, ahead, from, to, hand, sent, got, shut, gone, eof>>
proxy == <<handler, uplink, open, ahead, hand>>
ends == <<sent, got, shut, gone, eof>>

Init ==
  /\ handler = "dial" /\ uplink = "none"
  /\ open = {"client"}
  /\ ahead \in {<<>>, <<1>>}
  /\ from = [e \in Ends |-> <<>>] /\ to = [e \in Ends |-> <<>>]
  /\ hand = [e \in Ends |-> <<>>]
  /\ sent = [e \in Ends |-> IF e = "client" THEN Len(ahead) ELSE 0]
  /\ got = [e \in Ends |-> <<>>]
  /\ shut = {} /\ gone = {} /\ eof = {}

-----------------------------------------------------------------------------
(* The handler.                                                            *)

DialFails ==
  /\ handler = "dial"
  /\ to' = [to EXCEPT !["client"] = <<502>>]
  /\ handler' = "close"
  /\ UNCHANGED <<uplink, open, ahead, from, hand, ends>>

DialSucceeds ==
  /\ handler = "dial"
  /\ open' = open \cup {"host"}
  /\ handler' = "answer"
  /\ UNCHANGED <<uplink, ahead, from, to, hand, ends>>

\* Seeded fault: the copies start and the answer is forgotten.
AnswerForgotten ==
  /\ handler = "answer"
  /\ handler' = "copy" /\ uplink' = "copy"
  /\ UNCHANGED <<open, ahead, from, to, hand, ends>>

\* The client is told, and the two copies start; or it is no longer there.
Answer ==
  /\ handler = "answer"
  /\ \/ /\ to' = [to EXCEPT !["client"] = <<200>>]
        /\ handler' = "copy" /\ uplink' = "copy"
     \/ /\ "client" \in gone
        /\ handler' = "return"
        /\ UNCHANGED <<to, uplink>>
  /\ UNCHANGED <<open, ahead, from, hand, ends>>

\* The deferred close of the upstream connection ...
Return ==
  /\ handler = "return"
  /\ open' = open \ {"host"}
  /\ handler' = "close"
  /\ UNCHANGED <<uplink, ahead, from, to, hand, ends>>

\* Seeded fault: the connection is left to the goroutine, which reads it.
CloseClientForgotten ==
  /\ handler = "close"
  /\ handler' = "done"
  /\ UNCHANGED <<uplink, open, ahead, from, to, hand, ends>>

\* ... and the close of the client by handleConnect.
CloseClient ==
  /\ handler = "close"
  /\ open' = open \ {"client"}
  /\ handler' = "done"
  /\ UNCHANGED <<uplink, ahead, from, to, hand, ends>>

\* Seeded fault: what the kernel still has to send is discarded (SetLinger(0)).
CloseUpstreamAbruptly ==
  /\ uplink = "close"
  /\ open' = open \ {"host"}
  /\ to' = [to EXCEPT !["host"] = <<>>]
  /\ uplink' = "ended"
  /\ UNCHANGED <<handler, ahead, from, hand, ends>>

CloseUpstream ==
  /\ uplink = "close"
  /\ open' = open \ {"host"}
  /\ uplink' = "ended"
  /\ UNCHANGED <<handler, ahead, from, to, hand, ends>>

-----------------------------------------------------------------------------
(* io.Copy from one end to its peer, one chunk at a time.                  *)

Copying(e) == IF e = "client" THEN uplink = "copy" ELSE handler = "copy"
StopCopy(e) ==
  IF e = "client" THEN uplink' = "close" /\ UNCHANGED handler
                  ELSE handler' = "return" /\ UNCHANGED uplink

\* BufferedConn.Read: what was read ahead comes before what is in the socket.
Ahead(e) == e = "client" /\ ahead # <<>>

\* Seeded fault: the goroutine reads the socket and not what was read ahead.
ReadSocket(e) ==
  /\ Copying(e) /\ hand[e] = <<>>
  /\ \/ /\ e \in open /\ from[e] # <<>>
        /\ hand' = [hand EXCEPT ![e] = <<Head(from[e])>>]
        /\ from' = [from EXCEPT ![e] = Tail(@)]
        /\ UNCHANGED <<handler, uplink>>
     \/ /\ e \notin open \/ (from[e] = <<>> /\ e \in shut) \/ e \in gone
        /\ StopCopy(e)
        /\ UNCHANGED <<hand, from>>
  /\ UNCHANGED <<open, ahead, to, ends>>

\* The end of the stream, a reset and a closed socket all end the copy.
Read(e) ==
  /\ Copying(e) /\ hand[e] = <<>>
  /\ \/ /\ Ahead(e)
        /\ hand' = [hand EXCEPT ![e] = <<Head(ahead)>>]
        /\ ahead' = Tail(ahead)
        /\ UNCHANGED <<handler, uplink, from>>
     \/ /\ ~Ahead(e) /\ e \in open /\ from[e] # <<>>
        /\ hand' = [hand EXCEPT ![e] = <<Head(from[e])>>]
        /\ from' = [from EXCEPT ![e] = Tail(@)]
        /\ UNCHANGED <<handler, uplink, ahead>>
     \/ /\ ~Ahead(e)
        /\ e \notin open \/ (from[e] = <<>> /\ e \in shut) \/ e \in gone
        /\ StopCopy(e)
        /\ UNCHANGED <<hand, ahead, from>>
  /\ UNCHANGED <<open, to, ends>>

\* Seeded fault: one loop serves both directions, each waiting for the other.
WriteInTurn(e) ==
  /\ Copying(e) /\ hand[e] # <<>>
  /\ Len(to[e]) < Window
  /\ hand' = [hand EXCEPT ![e] = <<>>]
  /\ \/ /\ Peer(e) \in open \ gone /\ Len(to[Peer(e)]) < Window
        /\ to' = [to EXCEPT ![Peer(e)] = @ \o hand[e]]
        /\ UNCHANGED <<handler, uplink>>
     \/ Peer(e) \in open \cap gone /\ UNCHANGED <<to, handler, uplink>>
     \/ (Peer(e) \notin open \/ Peer(e) \in gone) /\ StopCopy(e) /\ UNCHANGED to
  /\ UNCHANGED <<open, ahead, from, ends>>

\* What is written to an end that has gone is lost, or found to be.
Write(e) ==
  /\ Copying(e) /\ hand[e] # <<>>
  /\ hand' = [hand EXCEPT ![e] = <<>>]
  /\ \/ /\ Peer(e) \in open \ gone /\ Len(to[Peer(e)]) < Window
        /\ to' = [to EXCEPT ![Peer(e)] = @ \o hand[e]]
        /\ UNCHANGED <<handler, uplink>>
     \/ Peer(e) \in open \cap gone /\ UNCHANGED <<to, handler, uplink>>
     \/ (Peer(e) \notin open \/ Peer(e) \in gone) /\ StopCopy(e) /\ UNCHANGED to
  /\ UNCHANGED <<open, ahead, from, ends>>

-----------------------------------------------------------------------------
(* The two ends.  The host is there once it has been dialled.              *)

Reached(e) == e = "client" \/ "host" \in open \/ uplink # "none"

Send(e) ==
  /\ Reached(e) /\ e \notin shut
  /\ sent[e] < MaxChunks
  /\ e \in open => Len(from[e]) < Window
  /\ sent' = [sent EXCEPT ![e] = @ + 1]
  /\ from' = [from EXCEPT ![e] = Append(@, sent[e] + 1)]
  /\ UNCHANGED <<proxy, to, got, shut, gone, eof>>

\* CloseWrite; or Close, and what is on its way there is not received.
HalfClose(e) ==
  /\ Reached(e) /\ e \notin shut
  /\ shut' = shut \cup {e}
  /\ UNCHANGED <<proxy, from, to, sent, got, gone, eof>>

FullClose(e) ==
  /\ Reached(e) /\ e \notin gone
  /\ shut' = shut \cup {e} /\ gone' = gone \cup {e}
  /\ UNCHANGED <<proxy, from, to, sent, got, eof>>

Receive(e) ==
  /\ e \notin gone /\ to[e] # <<>>
  /\ got' = [got EXCEPT ![e] = Append(@, Head(to[e]))]
  /\ to' = [to EXCEPT ![e] = Tail(@)]
  /\ UNCHANGED <<proxy, from, sent, shut, gone, eof>>

SeeEnd(e) ==
  /\ Reached(e) /\ e \notin open /\ e \notin gone \cup eof /\ to[e] = <<>>
  /\ eof' = eof \cup {e}
  /\ UNCHANGED <<proxy, from, to, sent, got, shut, gone>>

\* The proxy has closed a socket in which there is unread data, or comes some.
Reset(e) ==
  /\ Reached(e) /\ e \notin open /\ from[e] # <<>> /\ to[e] # <<>>
  /\ to' = [to EXCEPT ![e] = <<>>]
  /\ UNCHANGED <<proxy, from, ends>>

-----------------------------------------------------------------------------
Step ==
  \/ DialFails \/ DialSucceeds \/ Answer \/ Return \/ CloseClient \/ CloseUpstream
  \/ \E e \in Ends : Read(e) \/ Write(e)

Act(e) ==
  Send(e) \/ HalfClose(e) \/ FullClose(e) \/ Receive(e) \/ SeeEnd(e) \/ Reset(e)

Next == Step \/ \E e \in Ends : Act(e)

\* The handler and the goroutine run; the dial ends, by its timeout.
Spec ==
  /\ Init /\ [][Next]_vars
  /\ WF_vars(DialFails \/ DialSucceeds \/ Answer \/ Return \/ CloseClient)
  /\ WF_vars(CloseUpstream)
  /\ \A e \in Ends : WF_vars(Read(e) \/ Write(e))

-----------------------------------------------------------------------------
(* Properties.                                                             *)

Received(e) ==
  IF e = "client" /\ got[e] # <<>> THEN Tail(got[e]) ELSE got[e]
Sent(e) == [i \in 1..sent[e] |-> i]

\* Every variable keeps its type, and the client hears first how its CONNECT
\* went: nothing of the host comes before.
TypeOK ==
  /\ handler \in {"dial", "answer", "copy", "return", "close", "done"}
  /\ uplink \in {"none", "copy", "close", "ended"}
  /\ open \subseteq Ends /\ shut \subseteq Ends /\ gone \subseteq shut /\ eof \subseteq Ends
  /\ \A e \in Ends :
       /\ sent[e] \in 0..MaxChunks
       /\ Len(hand[e]) <= 1 /\ Len(to[e]) <= Window
  /\ got["client"] # <<>> => Head(got["client"]) \in {200, 502}

Up == INSTANCE Stream WITH
  Chunks <- 1..MaxChunks, sent <- Sent("client"), got <- Received("host"),
  closed <- shut # {}, ended <- "host" \in eof

Down == INSTANCE Stream WITH
  Chunks <- 1..MaxChunks, sent <- Sent("host"), got <- Received("client"),
  closed <- shut # {} \/ (handler \in {"close", "done"} /\ ~Reached("host")),
  ended <- "client" \in eof

\* Each direction of a tunnel is a stream, with what the client sent right
\* after its CONNECT at the front of it; none ends before an end has closed.
ImplementsStreams == Up!Spec /\ Down!Spec

\* An end that closes its side when it has all that the other sends loses
\* nothing: when the other sees the end, it has everything.  (One that closes
\* before, expecting more, may be cut off: the tunnel does not half-close.)
LastWordArrives ==
  \A e \in Ends :
    shut = {e} /\ gone = {} /\ Peer(e) \in eof /\ Received(e) = Sent(Peer(e)) =>
      Received(Peer(e)) = Sent(e)

Arrives(e) ==
  \A n \in 1..MaxChunks :
    sent[e] >= n ~> \/ Len(Received(Peer(e))) >= n
                    \/ shut # {} \/ handler \in {"close", "done"}

\* The directions do not wait for each other: what an end sends arrives as long
\* as its peer receives, even if it receives nothing itself.
Independent ==
  /\ WF_vars(Receive("host")) => Arrives("client")
  /\ WF_vars(Receive("client")) => Arrives("host")

\* When an end has closed, and those that have not go on receiving, the handler
\* returns and the goroutine ends (connect.go:99).
WindsDown ==
  WF_vars(Receive("host")) /\ WF_vars(Receive("client")) =>
    (shut # {} ~> handler = "done" /\ uplink \in {"none", "ended"})
===============================================================================
