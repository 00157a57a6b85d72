----------------------------- MODULE TunnelProofs -----------------------------
(***************************************************************************)
(* A tunnel for any number of chunks and sockets of any size: what an end  *)
(* gets is a prefix of what the other sent, and the end of it shows only   *)
(* when an end has closed.                                                 *)
(*                                                                         *)
(* The chunks of a direction lie, in order, with the end that gets them,   *)
(* in the socket towards it, in the hand of the copy, in the reader of     *)
(* net/http and in the socket they came by.  The first two never have a    *)
(* gap (Delivered); all five have none as long as the end that gets them   *)
(* is there (Whole), since only what is written to one that has gone is    *)
(* lost.  And nobody closes a socket before an end has closed (Ending).    *)
(*                                                                         *)
(* Of that end nothing is lost if it has heard everything: Lasting adds    *)
(* which copy must have ended first, and that what it leaves is written.   *)
(***************************************************************************)
EXTENDS Tunnel, SequenceTheorems, TLAPS

\* The client gets the answer to its CONNECT before the first chunk.
Offset(e) == IF e = "client" THEN 1 ELSE 0

\* What the reader of net/http holds of what e sent.
AheadOf(e) == IF e = "client" THEN ahead ELSE <<>>

Unanswered == handler \in {"dial", "answer"}

\* The chunks that a copy has written to e.
Written(e) ==
  IF e = "client" /\ Unanswered THEN 0 ELSE Len(got[e]) + Len(to[e]) - Offset(e)

\* The types of the sequences.
Types ==
  /\ handler \in {"dial", "answer", "copy", "return", "close", "done"}
  /\ uplink \in {"none", "copy", "close", "ended"}
  /\ open \subseteq Ends /\ shut \subseteq Ends /\ gone \subseteq shut /\ eof \subseteq Ends
  /\ sent \in [Ends -> 0..MaxChunks]
  /\ got \in [Ends -> Seq(Nat)] /\ to \in [Ends -> Seq(Nat)]
  /\ hand \in [Ends -> Seq(Nat)] /\ from \in [Ends -> Seq(Nat)]
  /\ ahead \in Seq(Nat)
  /\ \A e \in Ends : Len(hand[e]) <= 1 /\ Len(to[e]) <= Window

\* What e sent and its peer has got, or finds in its socket, is without a gap.
Delivered(e) ==
  LET p == Peer(e)
      n == Len(got[p])
  IN /\ n + Len(to[p]) - Offset(p) <= sent[e]
     /\ \A i \in 1..n : i > Offset(p) => got[p][i] = i - Offset(p)
     /\ \A i \in 1..Len(to[p]) : n + i > Offset(p) => to[p][i] = n + i - Offset(p)

\* The first thing that the client gets is the answer.
Answered ==
  /\ Unanswered => got["client"] = <<>> /\ to["client"] = <<>>
  /\ handler = "copy" => got["client"] # <<>> \/ to["client"] # <<>>
  /\ got["client"] # <<>> => got["client"][1] \in {200, 502}
  /\ got["client"] = <<>> /\ to["client"] # <<>> => to["client"][1] \in {200, 502}

\* The end that gets what e sends is there, or will be.
Heard(e) == Peer(e) \in open \ gone \/ (e = "client" /\ handler = "dial")

\* Nothing that e sent is missing on the way.
Whole(e) ==
  Heard(e) =>
    LET w == Written(Peer(e))
        h == w + Len(hand[e])
        a == h + Len(AheadOf(e))
    IN /\ \A i \in 1..Len(hand[e]) : hand[e][i] = w + i
       /\ \A i \in 1..Len(AheadOf(e)) : AheadOf(e)[i] = h + i
       /\ \A i \in 1..Len(from[e]) : from[e][i] = a + i
       /\ a + Len(from[e]) = sent[e]

\* Where the proxy is, with which sockets; no socket closes before an end has.
Ending ==
  /\ Unanswered => uplink = "none"
  /\ handler = "copy" => uplink # "none"
  /\ handler = "dial" => "host" \notin open
  /\ handler = "answer" => "host" \in open
  /\ handler \in {"close", "done"} => "host" \notin open
  /\ "client" \notin open <=> handler = "done"
  /\ handler = "return" \/ uplink \in {"close", "ended"} => shut # {}
  /\ "host" \notin open /\ uplink # "none" => shut # {}
  /\ \A e \in eof : to[e] = <<>> /\ e \notin open /\ Reached(e)

\* The inductive invariant.
IInv == Types /\ Answered /\ Ending /\ \A e \in Ends : Delivered(e) /\ Whole(e)

-----------------------------------------------------------------------------
(* Sequences.                                                              *)

LEMMA TailOf ==
  ASSUME NEW s \in Seq(Nat), s # <<>>
  PROVE  /\ Head(s) \in Nat /\ Head(s) = s[1] /\ Tail(s) \in Seq(Nat)
         /\ Len(s) \in Nat \ {0} /\ Len(Tail(s)) = Len(s) - 1
         /\ \A i \in 1..Len(Tail(s)) : Tail(s)[i] = s[i + 1]
OBVIOUS

LEMMA AppendOf ==
  ASSUME NEW s \in Seq(Nat), NEW n \in Nat
  PROVE  /\ Append(s, n) \in Seq(Nat) /\ Len(Append(s, n)) = Len(s) + 1 /\ Append(s, n) # <<>>
         /\ \A i \in 1..Len(s) : Append(s, n)[i] = s[i]
         /\ Append(s, n)[Len(s) + 1] = n
OBVIOUS

LEMMA OneOf ==
  ASSUME NEW s \in Seq(Nat), Len(s) <= 1, s # <<>>
  PROVE  s[1] \in Nat /\ s = <<s[1]>> /\ Len(s) = 1
OBVIOUS

LEMMA ConcatOne ==
  ASSUME NEW s \in Seq(Nat), NEW t \in Seq(Nat), Len(t) = 1
  PROVE  /\ s \o t \in Seq(Nat) /\ Len(s \o t) = Len(s) + 1
         /\ \A i \in 1..Len(s) : (s \o t)[i] = s[i]
         /\ (s \o t)[Len(s) + 1] = t[1]
<1> DEFINE u == s \o t
<1>1. /\ u \in Seq(Nat) /\ Len(u) = Len(s) + Len(t)
      /\ \A i \in 1..Len(s) + Len(t) : u[i] = IF i <= Len(s) THEN s[i] ELSE t[i - Len(s)]
  BY ConcatProperties
<1>2. Len(s) \in Nat
  OBVIOUS
<1> HIDE DEF u
<1>3. Len(u) = Len(s) + 1
  BY <1>1, <1>2
<1>4. \A i \in 1..Len(s) : u[i] = s[i]
  <2> SUFFICES ASSUME NEW i \in 1..Len(s) PROVE u[i] = s[i]
    OBVIOUS
  <2>1. i \in 1..Len(s) + Len(t) /\ i <= Len(s)
    BY <1>2
  <2> QED
    BY <1>1, <2>1
<1>5. u[Len(s) + 1] = t[1]
  <2>1. /\ Len(s) + 1 \in 1..Len(s) + Len(t)
        /\ ~(Len(s) + 1 <= Len(s)) /\ (Len(s) + 1) - Len(s) = 1
    BY <1>2
  <2> QED
    BY <1>1, <2>1
<1> QED
  BY <1>1, <1>3, <1>4, <1>5 DEF u

\* A sequence per end, one of them replaced.
LEMMA Replaced ==
  ASSUME NEW f \in [Ends -> Seq(Nat)], NEW e \in Ends, NEW s \in Seq(Nat)
  PROVE  /\ [f EXCEPT ![e] = s] \in [Ends -> Seq(Nat)]
         /\ [f EXCEPT ![e] = s][e] = s
         /\ \A d \in Ends : d # e => [f EXCEPT ![e] = s][d] = f[d]
OBVIOUS

\* The elements of a sequence are what its indices say.
LEMMA Counting ==
  ASSUME NEW s \in Seq(Nat), NEW k \in Int, \A i \in 1..Len(s) : s[i] = k + i, s # <<>>
  PROVE  /\ Head(s) = k + 1
         /\ \A i \in 1..Len(Tail(s)) : Tail(s)[i] = (k + 1) + i
BY TailOf

LEMMA Initially == Init => IInv
<1> SUFFICES ASSUME Init PROVE IInv
  OBVIOUS
<1>1. Types
  <2>1. ahead \in Seq(Nat) /\ Len(ahead) \in {0, 1}
    <3>1. CASE ahead = <<>>
      BY <3>1
    <3>2. CASE ahead = <<1>>
      BY <3>2
    <3> QED
      BY <3>1, <3>2 DEF Init
  <2>2. sent \in [Ends -> 0..MaxChunks]
    <3>1. 0 \in 0..MaxChunks /\ Len(ahead) \in 0..MaxChunks
      <4>1. MaxChunks \in Nat /\ MaxChunks >= 1
        BY TunnelAssumption
      <4>2. Len(ahead) = 0 \/ Len(ahead) = 1
        BY <2>1
      <4> QED
        BY <4>1, <4>2
    <3> QED
      BY <3>1 DEF Init
  <2>3. got \in [Ends -> Seq(Nat)] /\ to \in [Ends -> Seq(Nat)]
        /\ hand \in [Ends -> Seq(Nat)] /\ from \in [Ends -> Seq(Nat)]
    BY DEF Init
  <2>4. \A e \in Ends : Len(hand[e]) <= 1 /\ Len(to[e]) <= Window
    BY TunnelAssumption DEF Init
  <2> QED
    BY <2>1, <2>2, <2>3, <2>4 DEF Init, Types, Ends
<1>2. Answered
  BY DEF Init, Answered, Ends
<1>3. Ending
  BY DEF Init, Ending, Unanswered
<1>4. ASSUME NEW e \in Ends PROVE Delivered(e) /\ Whole(e)
  BY <1>4 DEF Init, Delivered, Whole, Ends, Offset, Peer, Written, AheadOf, Unanswered
<1> QED
  BY <1>1, <1>2, <1>3, <1>4 DEF IInv

-----------------------------------------------------------------------------
(* A step that moves nothing on the way from e to its peer.                *)

LEMMA Unmoved ==
  ASSUME NEW e \in Ends, Delivered(e), Whole(e),
         got'[Peer(e)] = got[Peer(e)], to'[Peer(e)] = to[Peer(e)], hand'[e] = hand[e],
         AheadOf(e)' = AheadOf(e), from'[e] = from[e], sent'[e] = sent[e],
         Heard(e)' => Heard(e) /\ Written(Peer(e))' = Written(Peer(e))
  PROVE  Delivered(e)' /\ Whole(e)'
<1>1. Delivered(e)'
  BY DEF Delivered
<1>2. Whole(e)'
  BY DEF Whole, AheadOf
<1> QED
  BY <1>1, <1>2

-----------------------------------------------------------------------------
(* Types.                                                                  *)

LEMMA PeerOf == \A e \in Ends : Peer(e) \in Ends /\ Peer(e) # e /\ Peer(Peer(e)) = e
BY DEF Ends, Peer

LEMMA Sizes == Window \in Nat /\ Window >= 1 /\ MaxChunks \in Nat
BY TunnelAssumption

\* The steps of the handler and the goroutine but for the copying.
Conducting == DialFails \/ DialSucceeds \/ Answer \/ Return \/ CloseClient \/ CloseUpstream

LEMMA ConductingTypes ==
  ASSUME Types, Conducting
  PROVE  Types'
<1>1. \A n \in Nat : <<n>> \in Seq(Nat) /\ Len(<<n>>) = 1
  OBVIOUS
<1>2. CASE DialFails
  BY <1>1, <1>2, Sizes DEF DialFails, ends, Types, Ends
<1>3. CASE DialSucceeds
  BY <1>3 DEF DialSucceeds, ends, Types, Ends
<1>4. CASE Answer
  <2>1. CASE to' = [to EXCEPT !["client"] = <<200>>] /\ handler' = "copy" /\ uplink' = "copy"
    BY <1>1, <1>4, <2>1, Sizes DEF Answer, ends, Types, Ends
  <2>2. CASE handler' = "return" /\ UNCHANGED <<to, uplink>>
    BY <1>4, <2>2 DEF Answer, ends, Types, Ends
  <2> QED
    BY <1>4, <2>1, <2>2 DEF Answer
<1>5. CASE Return \/ CloseClient \/ CloseUpstream
  BY <1>5 DEF Return, CloseClient, CloseUpstream, ends, Types, Ends
<1> QED
  BY <1>2, <1>3, <1>4, <1>5 DEF Conducting

LEMMA ReadTypes ==
  ASSUME Types, NEW e \in Ends, Read(e)
  PROVE  Types'
<1>1. \A n \in Nat : <<n>> \in Seq(Nat) /\ Len(<<n>>) = 1
  OBVIOUS
<1>2. CASE Ahead(e) /\ hand' = [hand EXCEPT ![e] = <<Head(ahead)>>] /\ ahead' = Tail(ahead)
           /\ UNCHANGED <<handler, uplink, from>>
  <2>1. ahead # <<>> /\ ahead \in Seq(Nat)
    BY <1>2 DEF Ahead, Types
  <2>2. Head(ahead) \in Nat /\ Tail(ahead) \in Seq(Nat)
    BY <2>1, TailOf
  <2>3. hand' \in [Ends -> Seq(Nat)] /\ \A d \in Ends : Len(hand'[d]) <= 1
    BY <1>1, <1>2, <2>2, Replaced DEF Types
  <2> QED
    BY <1>2, <2>2, <2>3 DEF Read, ends, Types
<1>3. CASE from[e] # <<>> /\ hand' = [hand EXCEPT ![e] = <<Head(from[e])>>]
           /\ from' = [from EXCEPT ![e] = Tail(@)] /\ UNCHANGED <<handler, uplink, ahead>>
  <2>1. from[e] \in Seq(Nat)
    BY DEF Types
  <2>2. Head(from[e]) \in Nat /\ Tail(from[e]) \in Seq(Nat)
    BY <1>3, <2>1, TailOf
  <2>3. hand' \in [Ends -> Seq(Nat)] /\ \A d \in Ends : Len(hand'[d]) <= 1
    BY <1>1, <1>3, <2>2, Replaced DEF Types
  <2>4. from' \in [Ends -> Seq(Nat)]
    BY <1>3, <2>2, Replaced DEF Types
  <2> QED
    BY <1>3, <2>3, <2>4 DEF Read, ends, Types
<1>4. CASE StopCopy(e) /\ UNCHANGED <<hand, ahead, from>>
  BY <1>4 DEF Read, StopCopy, ends, Types
<1> QED
  BY <1>2, <1>3, <1>4 DEF Read

LEMMA WriteTypes ==
  ASSUME Types, NEW e \in Ends, Write(e)
  PROVE  Types'
<1>1. hand[e] \in Seq(Nat) /\ Len(hand[e]) = 1
  BY OneOf DEF Write, Types
<1>2. <<>> \in Seq(Nat) /\ Len(<<>>) = 0
  OBVIOUS
<1>3. Types' \/ ~(hand' \in [Ends -> Seq(Nat)] /\ \A d \in Ends : Len(hand'[d]) <= 1)
      \/ ~(to' \in [Ends -> Seq(Nat)] /\ \A d \in Ends : Len(to'[d]) <= Window)
  BY DEF Write, StopCopy, ends, Types
<1>4. hand' \in [Ends -> Seq(Nat)] /\ \A d \in Ends : Len(hand'[d]) <= 1
  BY <1>2 DEF Write, Types
<1>5. CASE /\ Len(to[Peer(e)]) < Window
           /\ to' = [to EXCEPT ![Peer(e)] = @ \o hand[e]]
  <2>1. to[Peer(e)] \in Seq(Nat)
    BY PeerOf DEF Types
  <2>2. to[Peer(e)] \o hand[e] \in Seq(Nat) /\ Len(to[Peer(e)] \o hand[e]) = Len(to[Peer(e)]) + 1
    BY <1>1, <2>1, ConcatOne
  <2>3. Len(to[Peer(e)]) + 1 <= Window
    BY <1>5, <2>1, Sizes
  <2>4. to' \in [Ends -> Seq(Nat)] /\ \A d \in Ends : Len(to'[d]) <= Window
    BY <1>5, <2>2, <2>3, PeerOf, Replaced DEF Types
  <2> QED
    BY <1>3, <1>4, <2>4
<1>6. CASE UNCHANGED to
  BY <1>3, <1>4, <1>6 DEF Types
<1> QED
  BY <1>5, <1>6 DEF Write

LEMMA ActTypes ==
  ASSUME Types, NEW e \in Ends, Act(e)
  PROVE  Types'
<1>1. CASE Send(e)
  <2>1. sent[e] \in Nat /\ sent[e] + 1 \in 0..MaxChunks /\ sent[e] + 1 \in Nat
    BY <1>1, Sizes DEF Send, Types
  <2>2. Append(from[e], sent[e] + 1) \in Seq(Nat)
    BY <2>1, AppendOf DEF Types
  <2> QED
    BY <1>1, <2>1, <2>2 DEF Send, proxy, Types
<1>2. CASE HalfClose(e) \/ FullClose(e) \/ SeeEnd(e)
  BY <1>2 DEF HalfClose, FullClose, SeeEnd, proxy, Types
<1>3. CASE Receive(e)
  <2>1. to[e] \in Seq(Nat) /\ to[e] # <<>> /\ got[e] \in Seq(Nat)
    BY <1>3 DEF Receive, Types
  <2>2. /\ Tail(to[e]) \in Seq(Nat) /\ Len(Tail(to[e])) <= Len(to[e]) /\ Len(to[e]) \in Nat
        /\ Append(got[e], Head(to[e])) \in Seq(Nat) /\ Len(Tail(to[e])) \in Nat
    BY <2>1, TailOf, AppendOf
  <2> QED
    BY SMTT(20), <1>3, <2>2, Sizes DEF Receive, proxy, Types
<1>4. CASE Reset(e)
  <2>1. <<>> \in Seq(Nat) /\ Len(<<>>) <= Window
    BY Sizes
  <2> QED
    BY <1>4, <2>1 DEF Reset, proxy, ends, Types
<1> QED
  BY <1>1, <1>2, <1>3, <1>4 DEF Act

-----------------------------------------------------------------------------
(* The answer, and the end.                                                *)

LEMMA AnsweredStep ==
  ASSUME Types, Answered, Ending, Next
  PROVE  Answered'
<1>1. CASE Conducting
  <2>1. Len(<<200>>) = 1 /\ <<200>>[1] = 200 /\ <<502>>[1] = 502
        /\ <<200>> # <<>> /\ <<502>> # <<>>
    OBVIOUS
  <2>2. CASE DialFails
    BY <2>1, <2>2 DEF DialFails, ends, Answered, Unanswered, Types, Ends
  <2>3. CASE Answer
    <3>1. CASE to' = [to EXCEPT !["client"] = <<200>>] /\ handler' = "copy"
      BY <2>1, <2>3, <3>1 DEF Answer, ends, Answered, Unanswered, Types, Ends
    <3>2. CASE handler' = "return" /\ UNCHANGED to
      BY <2>3, <3>2 DEF Answer, ends, Answered, Unanswered
    <3> QED
      BY <2>3, <3>1, <3>2 DEF Answer
  <2>4. CASE DialSucceeds \/ Return \/ CloseClient \/ CloseUpstream
    BY <2>4 DEF DialSucceeds, Return, CloseClient, CloseUpstream, ends, Answered, Unanswered
  <2> QED
    BY <1>1, <2>2, <2>3, <2>4 DEF Conducting
<1>2. ASSUME NEW e \in Ends, Read(e) PROVE Answered'
  <2>1. ~Unanswered /\ ~Unanswered' /\ (handler' = "copy" => handler = "copy")
    BY <1>2 DEF Read, Copying, StopCopy, Ending, Unanswered
  <2> QED
    <3>1. got' = got /\ to' = to
      BY <1>2 DEF Read, ends
    <3> QED
      BY <2>1, <3>1 DEF Answered
<1>3. ASSUME NEW e \in Ends, Write(e) PROVE Answered'
  <2>1. ~Unanswered /\ ~Unanswered' /\ (handler' = "copy" => handler = "copy")
    BY <1>3 DEF Write, Copying, StopCopy, Ending, Unanswered
  <2>2. CASE UNCHANGED to
    <3>1. got' = got
      BY <1>3 DEF Write, ends
    <3> QED
      BY <2>1, <2>2, <3>1 DEF Answered
  <2>3. CASE to' = [to EXCEPT ![Peer(e)] = @ \o hand[e]]
    <3>1. CASE Peer(e) # "client"
      <4>1. got' = got /\ to'["client"] = to["client"]
        BY <1>3, <2>3, <3>1, PeerOf DEF Write, ends, Types, Ends
      <4> QED
        BY <2>1, <4>1 DEF Answered
    <3>2. CASE Peer(e) = "client" /\ handler = "copy"
      <4>1. to["client"] \in Seq(Nat) /\ hand[e] \in Seq(Nat) /\ Len(hand[e]) = 1
        BY <1>3, OneOf DEF Write, Types, Ends
      <4>2. got'["client"] = got["client"] /\ to'["client"] = to["client"] \o hand[e]
        BY <1>3, <2>3, <3>2 DEF Write, ends, Types, Ends
      <4>3. to["client"] # <<>> => to'["client"][1] = to["client"][1]
        <5>1. \A i \in 1..Len(to["client"]) : (to["client"] \o hand[e])[i] = to["client"][i]
          BY <4>1, ConcatOne
        <5>2. to["client"] # <<>> => 1 \in 1..Len(to["client"])
          BY <4>1
        <5> QED
          BY <4>2, <5>1, <5>2
      <4>4. to'["client"] # <<>>
        <5>1. /\ to["client"] \o hand[e] \in Seq(Nat)
              /\ Len(to["client"] \o hand[e]) = Len(to["client"]) + 1
          BY <4>1, ConcatOne
        <5>2. Len(to["client"]) \in Nat
          BY <4>1
        <5>3. Len(to["client"] \o hand[e]) # 0
          BY <5>1, <5>2
        <5> QED
          BY <4>2, <5>3, Len(<<>>) = 0
      <4> QED
        <5>1. to["client"] = <<>> => got["client"] # <<>>
          BY <3>2 DEF Answered
        <5>2. got'["client"] = got["client"]
          BY <4>2
        <5>3. got["client"] # <<>> => got["client"][1] \in {200, 502}
          BY DEF Answered
        <5>4. got["client"] = <<>> => to'["client"][1] \in {200, 502}
          BY <4>3, <5>1 DEF Answered
        <5> QED
          BY <2>1, <4>4, <5>2, <5>3, <5>4 DEF Answered
    <3> QED
      BY <1>3, <3>1, <3>2 DEF Write, Copying, Peer, Ends
  <2> QED
    BY <1>3, <2>2, <2>3 DEF Write
<1>4. ASSUME NEW e \in Ends, Act(e) PROVE Answered'
  <2>1. UNCHANGED handler
    BY <1>4 DEF Act, Send, HalfClose, FullClose, Receive, SeeEnd, Reset, proxy
  <2>2. CASE Receive(e)
    <3>1. to[e] \in Seq(Nat) /\ to[e] # <<>> /\ got[e] \in Seq(Nat)
      BY <2>2 DEF Receive, Types
    <3>2. /\ Head(to[e]) = to[e][1]
          /\ Append(got[e], Head(to[e])) # <<>>
          /\ got[e] # <<>> => Append(got[e], Head(to[e]))[1] = got[e][1]
          /\ got[e] = <<>> => Append(got[e], Head(to[e]))[1] = Head(to[e])
      <4>1. Head(to[e]) = to[e][1] /\ Head(to[e]) \in Nat
        BY <3>1, TailOf
      <4>2. /\ Len(Append(got[e], Head(to[e]))) = Len(got[e]) + 1
            /\ \A i \in 1..Len(got[e]) : Append(got[e], Head(to[e]))[i] = got[e][i]
            /\ Append(got[e], Head(to[e]))[Len(got[e]) + 1] = Head(to[e])
        BY <3>1, <4>1, AppendOf
      <4>3. got[e] # <<>> => 1 \in 1..Len(got[e])
        BY <3>1
      <4>4. got[e] = <<>> => Len(got[e]) + 1 = 1
        BY <3>1
      <4>5. Append(got[e], Head(to[e])) # <<>>
        BY <3>1, <4>1
      <4> QED
        BY <4>1, <4>2, <4>3, <4>4, <4>5
    <3>3. CASE e = "client"
      BY SMTT(20), <2>1, <2>2, <3>2, <3>3 DEF Receive, Answered, Unanswered, Types
    <3>4. CASE e # "client"
      BY <2>1, <2>2, <3>4 DEF Receive, Answered, Unanswered, Types
    <3> QED
      BY <3>3, <3>4
  <2>3. CASE Reset(e)
    <3>1. CASE e = "client"
      <4>1. handler = "done" /\ to'["client"] = <<>>
        BY <2>3, <3>1 DEF Reset, Ending, Types
      <4> QED
        BY <2>1, <2>3, <4>1 DEF Reset, ends, Answered, Unanswered
    <3>2. CASE e # "client"
      <4>1. to'["client"] = to["client"]
        BY <2>3, <3>2 DEF Reset, Types, Ends
      <4> QED
        BY <2>1, <2>3, <4>1 DEF Reset, ends, Answered, Unanswered
    <3> QED
      BY <3>1, <3>2
  <2>4. CASE Send(e) \/ HalfClose(e) \/ FullClose(e) \/ SeeEnd(e)
    BY <2>1, <2>4 DEF Send, HalfClose, FullClose, SeeEnd, Answered, Unanswered
  <2> QED
    BY <1>4, <2>2, <2>3, <2>4 DEF Act
<1> QED
  BY <1>1, <1>2, <1>3, <1>4 DEF Next, Step, Conducting

LEMMA EndingStep ==
  ASSUME Types, Answered, Ending, Next
  PROVE  Ending'
<1>1. CASE Conducting
  <2>1. CASE DialFails
    BY <2>1 DEF DialFails, ends, Ending, Unanswered, Reached, Types, Ends
  <2>2. CASE DialSucceeds
    BY <2>2 DEF DialSucceeds, ends, Ending, Unanswered, Reached, Types, Ends
  <2>3. CASE Answer
    BY <2>3 DEF Answer, ends, Ending, Unanswered, Reached, Types, Ends
  <2>4. CASE Return
    BY <2>4 DEF Return, ends, Ending, Unanswered, Reached, Types, Ends
  <2>5. CASE CloseClient
    BY <2>5 DEF CloseClient, ends, Ending, Unanswered, Reached, Types, Ends
  <2>6. CASE CloseUpstream
    BY <2>6 DEF CloseUpstream, ends, Ending, Unanswered, Reached, Types, Ends
  <2> QED
    BY <1>1, <2>1, <2>2, <2>3, <2>4, <2>5, <2>6 DEF Conducting
<1>2. ASSUME NEW e \in Ends, Read(e) PROVE Ending'
  <2>1. CASE UNCHANGED <<handler, uplink>>
    BY <1>2, <2>1 DEF Read, ends, Ending, Unanswered, Reached
  <2>2. CASE StopCopy(e) /\ (e \notin open \/ e \in shut \/ e \in gone)
    <3>1. shut # {}
      BY <1>2, <2>2 DEF Read, Copying, Ending, Types, Ends
    <3> QED
      BY <1>2, <2>2, <3>1 DEF Read, Copying, StopCopy, ends, Ending, Unanswered, Reached
  <2> QED
    BY <1>2, <2>1, <2>2 DEF Read
<1>3. ASSUME NEW e \in Ends, Write(e) PROVE Ending'
  <2>1. \A d \in eof : UNCHANGED to \/ to'[d] = to[d]
    BY <1>3, PeerOf DEF Write, Ending, Types
  <2>2. CASE UNCHANGED <<handler, uplink>>
    BY <1>3, <2>1, <2>2 DEF Write, ends, Ending, Unanswered, Reached
  <2>3. CASE StopCopy(e) /\ (Peer(e) \notin open \/ Peer(e) \in gone)
    <3>1. shut # {}
      BY <1>3, <2>3 DEF Write, Copying, Ending, Types, Ends, Peer
    <3> QED
      BY <1>3, <2>1, <2>3, <3>1 DEF Write, Copying, StopCopy, ends, Ending, Unanswered, Reached
  <2> QED
    BY <1>3, <2>2, <2>3 DEF Write
<1>4. ASSUME NEW e \in Ends, Act(e) PROVE Ending'
  <2>1. UNCHANGED <<handler, uplink, open>>
    BY <1>4 DEF Act, Send, HalfClose, FullClose, Receive, SeeEnd, Reset, proxy
  <2>2. shut \subseteq shut'
    BY <1>4 DEF Act, Send, HalfClose, FullClose, Receive, SeeEnd, Reset, ends
  <2>3. \A d \in eof' : to'[d] = <<>> /\ d \notin open /\ Reached(d)
    <3>1. CASE Send(e) \/ HalfClose(e) \/ FullClose(e)
      BY <3>1 DEF Send, HalfClose, FullClose, Ending
    <3>2. CASE Receive(e)
      BY <3>2 DEF Receive, Ending, Types
    <3>3. CASE SeeEnd(e)
      BY <3>3 DEF SeeEnd, Ending
    <3>4. CASE Reset(e)
      BY <3>4 DEF Reset, ends, Ending, Types
    <3> QED
      BY <1>4, <3>1, <3>2, <3>3, <3>4 DEF Act
  <2> QED
    BY <2>1, <2>2, <2>3 DEF Ending, Unanswered, Reached
<1> QED
  BY <1>1, <1>2, <1>3, <1>4 DEF Next, Step, Conducting

-----------------------------------------------------------------------------
(* The ways.                                                               *)

\* The types of what lies on the way from e.
LEMMA WayTypes ==
  ASSUME Types, NEW e \in Ends
  PROVE  /\ got[Peer(e)] \in Seq(Nat) /\ to[Peer(e)] \in Seq(Nat) /\ hand[e] \in Seq(Nat)
         /\ AheadOf(e) \in Seq(Nat) /\ from[e] \in Seq(Nat) /\ sent[e] \in Nat
         /\ Len(got[Peer(e)]) \in Nat /\ Len(to[Peer(e)]) \in Nat /\ Len(hand[e]) \in Nat
         /\ Len(AheadOf(e)) \in Nat /\ Len(from[e]) \in Nat
         /\ Offset(Peer(e)) \in {0, 1} /\ Written(Peer(e)) \in Int
<1>1. /\ got[Peer(e)] \in Seq(Nat) /\ to[Peer(e)] \in Seq(Nat) /\ hand[e] \in Seq(Nat)
      /\ AheadOf(e) \in Seq(Nat) /\ from[e] \in Seq(Nat) /\ sent[e] \in Nat
  BY PeerOf, Sizes DEF Types, AheadOf
<1>2. /\ Len(got[Peer(e)]) \in Nat /\ Len(to[Peer(e)]) \in Nat /\ Len(hand[e]) \in Nat
      /\ Len(AheadOf(e)) \in Nat /\ Len(from[e]) \in Nat
  BY <1>1
<1>3. Offset(Peer(e)) \in {0, 1}
  BY DEF Offset
<1>4. Written(Peer(e)) \in Int
  BY <1>2, <1>3 DEF Written
<1> QED
  BY <1>1, <1>2, <1>3, <1>4

LEMMA ConductingWay ==
  ASSUME Types, Answered, Ending, Conducting,
         NEW e \in Ends, Delivered(e), Whole(e)
  PROVE  Delivered(e)' /\ Whole(e)'
<1>1. /\ UNCHANGED <<ahead, from, hand, got, sent, gone>>
      /\ AheadOf(e)' = AheadOf(e)
  BY DEF Conducting, DialFails, DialSucceeds, Answer, Return, CloseClient, CloseUpstream, ends, AheadOf
<1>2. CASE DialFails \/ Answer
  <2>1. CASE e = "client"
    <3>1. Peer(e) = "host" /\ to'["host"] = to["host"]
      BY <1>2, <2>1 DEF DialFails, Answer, Types, Ends, Peer
    <3>2. Heard(e)' => Heard(e)
      BY <1>1, <1>2, <2>1, <3>1 DEF DialFails, Answer, Heard, Ending
    <3>3. Written("host")' = Written("host")
      BY <1>1, <3>1 DEF Written
    <3> QED
      BY <1>1, <3>1, <3>2, <3>3, Unmoved
  <2>2. CASE e = "host" /\ handler' = "return" /\ "client" \in gone /\ UNCHANGED to
    <3>1. Peer(e) = "client" /\ ~Heard(e)'
      BY <1>1, <2>2 DEF Heard, Peer
    <3> QED
      BY <1>1, <2>2, <3>1, Unmoved
  <2>3. CASE e = "host" /\ \E n \in Nat : to' = [to EXCEPT !["client"] = <<n>>]
    <3>1. Peer(e) = "client" /\ got["client"] = <<>> /\ Unanswered /\ ~Unanswered'
      BY <1>2, <2>3 DEF DialFails, Answer, Peer, Answered, Unanswered
    <3>2. Len(to'["client"]) = 1
      BY <2>3 DEF Types, Ends
    <3>3. Len(<<>>) = 0 /\ sent["host"] \in Nat
      BY Sizes DEF Types, Ends
    <3>4. Delivered(e)'
      <4>1. got'["client"] = <<>> /\ sent'[e] \in Nat
        BY <1>1, <2>3, <3>1, <3>3
      <4>2. Offset("client") = 1
        BY DEF Offset
      <4> DEFINE n == Len(got'["client"])
                 m == Len(to'["client"])
      <4>3. n = 0 /\ m = 1
        BY <3>2, <3>3, <4>1
      <4>4. n + m - 1 <= sent'[e] /\ (\A i \in 1..n : FALSE) /\ (\A i \in 1..m : ~(n + i > 1))
        BY <4>1, <4>3
      <4> QED
        BY <3>1, <4>2, <4>4 DEF Delivered
    <3>5. Written("client")' = Written("client")
      BY <1>1, <3>1, <3>2, <3>3 DEF Written, Offset
    <3>6. Heard(e)' => Heard(e)
      BY <1>1, <1>2, <2>3 DEF DialFails, Answer, Heard
    <3>7. Whole(e)'
      BY <1>1, <3>1, <3>5, <3>6 DEF Whole
    <3> QED
      BY <3>4, <3>7
  <2> QED
    BY <1>2, <2>1, <2>2, <2>3 DEF DialFails, Answer, Ends
<1>3. CASE DialSucceeds
  <2>1. UNCHANGED to /\ Unanswered /\ Unanswered'
    BY <1>3 DEF DialSucceeds, Unanswered
  <2>2. Written(Peer(e))' = Written(Peer(e))
    BY <1>1, <2>1 DEF Written
  <2>3. Heard(e)' => Heard(e)
    BY <1>1, <1>3 DEF DialSucceeds, Heard, Peer, Ends
  <2> QED
    BY <1>1, <2>1, <2>2, <2>3, Unmoved
<1>4. CASE Return \/ CloseClient \/ CloseUpstream
  <2>1. UNCHANGED to /\ open' \subseteq open /\ (Unanswered' <=> Unanswered)
        /\ (handler' = "dial" => handler = "dial")
    BY <1>4 DEF Return, CloseClient, CloseUpstream, Unanswered
  <2>2. Written(Peer(e))' = Written(Peer(e))
    BY <1>1, <2>1 DEF Written
  <2>3. Heard(e)' => Heard(e)
    BY <1>1, <2>1 DEF Heard
  <2> QED
    BY <1>1, <2>1, <2>2, <2>3, Unmoved
<1> QED
  BY <1>2, <1>3, <1>4 DEF Conducting

\* A copy that has read or written has been answered for, and reads and writes on
\* sockets that neither appear nor vanish by it.
LEMMA CopyGoesOn ==
  ASSUME Types, Ending, NEW d \in Ends, Read(d) \/ Write(d)
  PROVE  /\ ~Unanswered /\ ~Unanswered'
         /\ UNCHANGED <<open, gone, sent, got>>
         /\ \A e \in Ends : Heard(e)' <=> Heard(e)
<1>1. ~Unanswered /\ ~Unanswered' /\ handler # "dial" /\ handler' # "dial"
  BY DEF Read, Write, Copying, StopCopy, Ending, Unanswered
<1>2. UNCHANGED <<open, gone, sent, got>>
  BY DEF Read, Write, ends
<1> QED
  BY <1>1, <1>2 DEF Heard

LEMMA ReadWay ==
  ASSUME Types, Ending, NEW d \in Ends, Read(d),
         NEW e \in Ends, Delivered(e), Whole(e)
  PROVE  Delivered(e)' /\ Whole(e)'
<1>1. /\ UNCHANGED <<got, to, sent>> /\ (Heard(e)' <=> Heard(e))
      /\ Written(Peer(e))' = Written(Peer(e))
  BY CopyGoesOn DEF Read, ends, Written
<1>2. CASE d # e
  <2>1. hand'[e] = hand[e] /\ from'[e] = from[e]
    BY <1>2 DEF Read, Types
  <2>2. AheadOf(e)' = AheadOf(e)
    BY <1>2 DEF Read, Ahead, AheadOf, Ends
  <2> QED
    BY <1>1, <2>1, <2>2, Unmoved
<1>3. CASE d = e
  <2>1. Delivered(e)'
    BY <1>1 DEF Delivered
  <2> DEFINE w == Written(Peer(e))
  <2>2. hand[e] = <<>> /\ Len(hand[e]) = 0 /\ w \in Int
    BY <1>3, WayTypes DEF Read
  <2>3. ASSUME Heard(e), NEW s \in Seq(Nat), s # <<>>, \A i \in 1..Len(s) : s[i] = w + i,
               hand'[e] = <<Head(s)>>
        PROVE  /\ Len(hand'[e]) = 1 /\ \A i \in 1..Len(hand'[e]) : hand'[e][i] = w + i
               /\ Len(s) \in Nat /\ Len(Tail(s)) = Len(s) - 1 /\ (w + 1) + Len(Tail(s)) = w + Len(s)
               /\ \A i \in 1..Len(Tail(s)) : Tail(s)[i] = (w + 1) + i
    <3>1. Head(s) = w + 1 /\ \A i \in 1..Len(Tail(s)) : Tail(s)[i] = (w + 1) + i
      BY <2>2, <2>3, Counting
    <3>2. Len(s) \in Nat /\ Len(Tail(s)) = Len(s) - 1
      BY <2>3, TailOf
    <3>3. Len(hand'[e]) = 1 /\ hand'[e][1] = w + 1
      BY <2>3, <3>1
    <3>4. \A i \in 1..Len(hand'[e]) : i = 1
      BY <3>3
    <3>5. (w + 1) + Len(Tail(s)) = w + Len(s)
      BY <2>2, <3>2
    <3> QED
      BY <3>1, <3>2, <3>3, <3>4, <3>5
  <2>4. CASE Ahead(e) /\ hand' = [hand EXCEPT ![e] = <<Head(ahead)>>] /\ ahead' = Tail(ahead)
             /\ UNCHANGED from
    <3>1. AheadOf(e) = ahead /\ AheadOf(e)' = Tail(ahead) /\ ahead # <<>> /\ ahead \in Seq(Nat)
      BY <2>4 DEF Ahead, AheadOf, Types
    <3>2. hand'[e] = <<Head(ahead)>> /\ from'[e] = from[e]
      BY <2>4 DEF Types
    <3>3. ASSUME Heard(e) PROVE \A i \in 1..Len(ahead) : ahead[i] = w + i
      BY <2>2, <3>1, <3>3 DEF Whole
    <3>4. ASSUME Heard(e)
          PROVE  /\ Len(hand'[e]) = 1 /\ \A i \in 1..Len(hand'[e]) : hand'[e][i] = w + i
                 /\ Len(Tail(ahead)) \in Int /\ (w + 1) + Len(Tail(ahead)) = w + Len(ahead)
                 /\ \A i \in 1..Len(Tail(ahead)) : Tail(ahead)[i] = (w + 1) + i
      BY <2>3, <3>1, <3>2, <3>3, <3>4
    <3>5. ASSUME Heard(e)
          PROVE  /\ \A i \in 1..Len(from[e]) : from[e][i] = (w + Len(ahead)) + i
                 /\ (w + Len(ahead)) + Len(from[e]) = sent[e]
      BY <2>2, <3>1, <3>5 DEF Whole
    <3>6. Whole(e)'
      BY <1>1, <3>1, <3>2, <3>4, <3>5 DEF Whole
    <3> QED
      BY <2>1, <3>6
  <2>5. CASE /\ ~Ahead(e) /\ from[e] # <<>> /\ hand' = [hand EXCEPT ![e] = <<Head(from[e])>>]
             /\ from' = [from EXCEPT ![e] = Tail(@)] /\ UNCHANGED ahead
    <3>1. AheadOf(e) = <<>> /\ AheadOf(e)' = <<>> /\ Len(<<>>) = 0 /\ from[e] \in Seq(Nat)
      BY <2>5 DEF Ahead, AheadOf, Types
    <3>2. hand'[e] = <<Head(from[e])>> /\ from'[e] = Tail(from[e])
      BY <2>5 DEF Types
    <3>3. ASSUME Heard(e)
          PROVE  (\A i \in 1..Len(from[e]) : from[e][i] = w + i) /\ w + Len(from[e]) = sent[e]
      BY <2>2, <3>1, <3>3 DEF Whole
    <3>4. ASSUME Heard(e)
          PROVE  /\ Len(hand'[e]) = 1 /\ \A i \in 1..Len(hand'[e]) : hand'[e][i] = w + i
                 /\ (w + 1) + Len(Tail(from[e])) = w + Len(from[e])
                 /\ \A i \in 1..Len(Tail(from[e])) : Tail(from[e])[i] = (w + 1) + i
      BY <2>3, <2>5, <3>1, <3>2, <3>3, <3>4
    <3>5. Whole(e)'
      BY <1>1, <2>2, <3>1, <3>2, <3>3, <3>4 DEF Whole
    <3> QED
      BY <2>1, <3>5
  <2>6. CASE UNCHANGED <<hand, ahead, from>>
    BY <1>1, <2>6, Unmoved DEF AheadOf
  <2> QED
    BY <1>3, <2>4, <2>5, <2>6 DEF Read
<1> QED
  BY <1>2, <1>3

(* Counting what is moved: n got and m on the way there, o of them the answer. *)

LEMMA OneMore ==
  ASSUME NEW n \in Nat, NEW m \in Nat, NEW o \in Int
  PROVE  /\ n + (m + 1) - o = (n + m - o) + 1
         /\ m + 1 \in 1..(m + 1)
         /\ \A i \in 1..(m + 1) : i \in 1..m \/ i = m + 1
OBVIOUS

LEMMA OneOver ==
  ASSUME NEW n \in Nat, NEW m \in Nat, m # 0, NEW o \in Int
  PROVE  /\ (n + 1) + (m - 1) - o = n + m - o
         /\ 1 \in 1..m
         /\ \A i \in 1..(n + 1) : i \in 1..n \/ i = n + 1
         /\ \A i \in 1..(m - 1) : i + 1 \in 1..m /\ n + (i + 1) = (n + 1) + i
OBVIOUS

LEMMA NoneLeft ==
  ASSUME NEW n \in Nat, NEW m \in Nat, NEW o \in Int, NEW k \in Nat, n + m - o <= k
  PROVE  n + 0 - o <= k
OBVIOUS

LEMMA WriteWay ==
  ASSUME Types, Ending, NEW d \in Ends, Write(d),
         NEW e \in Ends, Delivered(e), Whole(e)
  PROVE  Delivered(e)' /\ Whole(e)'
<1>1. /\ UNCHANGED <<ahead, from, got, sent, open, gone>> /\ ~Unanswered /\ ~Unanswered'
      /\ (Heard(e)' <=> Heard(e)) /\ AheadOf(e)' = AheadOf(e)
  BY CopyGoesOn DEF Write, AheadOf
<1>2. CASE d # e
  <2>1. hand'[e] = hand[e] /\ to'[Peer(e)] = to[Peer(e)]
    BY <1>2, PeerOf DEF Write, Types
  <2>2. Written(Peer(e))' = Written(Peer(e))
    BY <1>1, <2>1 DEF Written
  <2> QED
    BY <1>1, <2>1, <2>2, Unmoved
<1>3. CASE d = e /\ UNCHANGED to
  <2>1. Peer(e) \notin open \/ Peer(e) \in gone
    <3>1. hand[e] \in Seq(Nat) /\ hand[e] # <<>> /\ to[Peer(e)] \in Seq(Nat)
      BY <1>3, WayTypes DEF Write
    <3>2. Len(to[Peer(e)] \o hand[e]) # Len(to[Peer(e)])
      BY <1>3, <3>1, OneOf, ConcatOne DEF Write, Types
    <3>3. to' # [to EXCEPT ![Peer(e)] = @ \o hand[e]]
      BY <1>3, <3>2, PeerOf DEF Types
    <3> QED
      BY <1>3, <3>3 DEF Write
  <2>2. ~Heard(e)
    BY <1>1, <2>1 DEF Heard, Unanswered
  <2> QED
    BY <1>1, <1>3, <2>2 DEF Delivered, Whole
<1>4. CASE d = e /\ Peer(e) \in open \ gone /\ to' = [to EXCEPT ![Peer(e)] = @ \o hand[e]]
  <2> DEFINE p == Peer(e)
             n == Len(got[p])
             m == Len(to[p])
             w == Written(p)
  <2>1. Heard(e) /\ w = n + m - Offset(p)
    BY <1>1, <1>4 DEF Heard, Written
  <2>2. hand[e] \in Seq(Nat) /\ Len(hand[e]) = 1 /\ hand[e][1] \in Nat
    BY <1>4, OneOf DEF Write, Types
  <2>3. /\ to'[p] = to[p] \o hand[e] /\ hand'[e] = <<>> /\ Len(hand'[e]) = 0
    BY <1>4, PeerOf DEF Write, Types
  <2>4. /\ to[p] \in Seq(Nat) /\ n \in Nat /\ m \in Nat /\ Offset(p) \in {0, 1} /\ w \in Int
        /\ Len(AheadOf(e)) \in Nat /\ Len(from[e]) \in Nat /\ sent[e] \in Nat
    BY WayTypes
  <2>5. /\ Len(to'[p]) = m + 1
        /\ \A i \in 1..m : to'[p][i] = to[p][i]
        /\ to'[p][m + 1] = hand[e][1]
    <3>1. /\ Len(to[p] \o hand[e]) = m + 1
          /\ \A i \in 1..m : (to[p] \o hand[e])[i] = to[p][i]
          /\ (to[p] \o hand[e])[m + 1] = hand[e][1]
      BY <2>2, <2>4, ConcatOne
    <3> QED
      BY <2>3, <3>1
  <2>6. /\ hand[e][1] = w + 1
        /\ \A i \in 1..Len(AheadOf(e)) : AheadOf(e)[i] = (w + 1) + i
        /\ \A i \in 1..Len(from[e]) : from[e][i] = ((w + 1) + Len(AheadOf(e))) + i
        /\ ((w + 1) + Len(AheadOf(e))) + Len(from[e]) = sent[e]
    BY <2>1, <2>2 DEF Whole
  <2>7. Written(p)' = w + 1
    <3>1. Len(to'[p]) = m + 1 /\ got'[p] = got[p]
      BY <1>1, <2>5
    <3>2. Written(p)' = n + (m + 1) - Offset(p)
      BY <1>1, <3>1 DEF Written
    <3>3. Offset(p) \in Int
      BY <2>4
    <3> HIDE DEF n, m, w, p
    <3> QED
      BY <2>1, <2>4, <3>2, <3>3, OneMore
  <2> HIDE DEF w
  <2>8. Whole(e)'
    <3>1. (w + 1) + 0 = w + 1 /\ (\A i \in 1..0 : FALSE)
      BY <2>4
    <3>2. Written(Peer(e))' = w + 1 /\ Len(hand'[e]) = 0
      BY <2>3, <2>7
    <3>3. ((w + 1) + Len(hand'[e])) = w + 1 /\ \A i \in 1..Len(hand'[e]) : FALSE
      BY <3>1, <3>2
    <3> QED
      BY <1>1, <2>6, <3>2, <3>3 DEF Whole
  <2>9. Delivered(e)'
    <3> DEFINE o == Offset(p)
               t == to'[p]
    <3>0. /\ o \in Int /\ n + (m + 1) - o = w + 1
          /\ m + 1 \in 1..(m + 1) /\ \A i \in 1..(m + 1) : i \in 1..m \/ i = m + 1
      <4>1. o \in Int /\ n \in Nat /\ m \in Nat /\ w = n + m - o
        BY <2>1, <2>4
      <4> HIDE DEF n, m, o
      <4> QED
        BY <4>1, OneMore
    <3>1. n + (m + 1) - o <= sent[e]
      <4> DEFINE a == Len(AheadOf(e))
                 f == Len(from[e])
      <4>1. w \in Int /\ a \in Nat /\ f \in Nat /\ ((w + 1) + a) + f = sent[e]
        BY <2>4, <2>6
      <4> HIDE DEF a, f
      <4>2. w + 1 <= sent[e]
        BY <4>1
      <4> QED
        BY <3>0, <4>2
    <3>2. \A i \in 1..(m + 1) : n + i > o => t[i] = n + i - o
      <4>1. \A i \in 1..m : n + i > o => t[i] = n + i - o
        BY <2>5 DEF Delivered
      <4>2. t[m + 1] = n + (m + 1) - o
        BY <2>5, <2>6, <3>0
      <4> HIDE DEF n, m, o, t
      <4> QED
        BY <3>0, <4>1, <4>2
    <3> QED
      BY <1>1, <2>5, <3>1, <3>2 DEF Delivered
  <2> QED
    BY <2>8, <2>9
<1> QED
  BY <1>2, <1>3, <1>4 DEF Write

LEMMA ActWay ==
  ASSUME Types, Answered, Ending, NEW d \in Ends, Act(d),
         NEW e \in Ends, Delivered(e), Whole(e)
  PROVE  Delivered(e)' /\ Whole(e)'
<1>1. UNCHANGED <<handler, uplink, open, ahead, hand>> /\ AheadOf(e)' = AheadOf(e)
  BY DEF Act, Send, HalfClose, FullClose, Receive, SeeEnd, Reset, proxy, AheadOf
<1>2. gone \subseteq gone'
  BY DEF Act, Send, HalfClose, FullClose, Receive, SeeEnd, Reset, ends
<1>3. Heard(e)' => Heard(e)
  BY <1>1, <1>2 DEF Heard
<1>4. CASE HalfClose(d) \/ FullClose(d) \/ SeeEnd(d)
  <2>1. UNCHANGED <<from, to, sent, got>>
    BY <1>4 DEF HalfClose, FullClose, SeeEnd
  <2>2. Written(Peer(e))' = Written(Peer(e))
    BY <1>1, <2>1 DEF Written, Unanswered
  <2> QED
    BY <1>1, <1>3, <2>1, <2>2, Unmoved
<1>5. CASE Send(d)
  <2>1. UNCHANGED <<to, got>>
    BY <1>5 DEF Send
  <2>2. Written(Peer(e))' = Written(Peer(e))
    BY <1>1, <2>1 DEF Written, Unanswered
  <2>3. CASE d # e
    <3>1. from'[e] = from[e] /\ sent'[e] = sent[e]
      BY <1>5, <2>3 DEF Send, Types
    <3> QED
      BY <1>1, <1>3, <2>1, <2>2, <3>1, Unmoved
  <2>4. CASE d = e
    <3> DEFINE a == (Written(Peer(e)) + Len(hand[e])) + Len(AheadOf(e))
               f == Len(from[e])
    <3>1. /\ from[e] \in Seq(Nat) /\ f \in Nat /\ sent[e] \in Nat /\ a \in Int
          /\ Len(got[Peer(e)]) \in Nat /\ Len(to[Peer(e)]) \in Nat /\ Offset(Peer(e)) \in {0, 1}
      BY WayTypes
    <3>2. from'[e] = Append(from[e], sent[e] + 1) /\ sent'[e] = sent[e] + 1
      BY <1>5, <2>4 DEF Send, Types
    <3>3. /\ Len(from'[e]) = f + 1 /\ from'[e][f + 1] = sent[e] + 1
          /\ \A i \in 1..f : from'[e][i] = from[e][i]
      BY <3>1, <3>2, AppendOf
    <3>4. ASSUME Heard(e)
          PROVE  /\ a + Len(from'[e]) = sent'[e]
                 /\ \A i \in 1..Len(from'[e]) : from'[e][i] = a + i
      <4>1. a + f = sent[e] /\ \A i \in 1..f : from[e][i] = a + i
        BY <3>4 DEF Whole
      <4> HIDE DEF a
      <4>2. \A i \in 1..(f + 1) : i \in 1..f \/ i = f + 1
        BY <3>1
      <4>3. a + (f + 1) = sent[e] + 1
        BY <3>1, <4>1
      <4>4. \A i \in 1..(f + 1) : from'[e][i] = a + i
        BY <3>3, <4>1, <4>2, <4>3
      <4> QED
        BY <3>2, <3>3, <4>3, <4>4
    <3>5. Whole(e)'
      BY <1>1, <1>3, <2>2, <3>4 DEF Whole
    <3>6. Delivered(e)'
      <4>1. sent[e] <= sent'[e] /\ sent'[e] \in Nat
        BY <3>1, <3>2
      <4>2. Len(got[Peer(e)]) + Len(to[Peer(e)]) - Offset(Peer(e)) <= sent'[e]
        BY <3>1, <4>1 DEF Delivered
      <4> QED
        BY <2>1, <4>2 DEF Delivered
    <3> QED
      BY <3>5, <3>6
  <2> QED
    BY <2>3, <2>4
<1>6. CASE Receive(d)
  <2>1. UNCHANGED <<from, sent>>
    BY <1>6 DEF Receive
  <2>2. CASE d # Peer(e)
    <3>1. got'[Peer(e)] = got[Peer(e)] /\ to'[Peer(e)] = to[Peer(e)]
      BY <1>6, <2>2, PeerOf DEF Receive, Types
    <3>2. Written(Peer(e))' = Written(Peer(e))
      BY <1>1, <3>1 DEF Written, Unanswered
    <3> QED
      BY <1>1, <1>3, <2>1, <3>1, <3>2, Unmoved
  <2>3. CASE d = Peer(e)
    <3> DEFINE p == Peer(e)
               n == Len(got[p])
               m == Len(to[p])
               o == Offset(p)
    <3>1. /\ got[p] \in Seq(Nat) /\ to[p] \in Seq(Nat) /\ to[p] # <<>>
          /\ n \in Nat /\ m \in Nat /\ o \in {0, 1} /\ sent[e] \in Nat
      BY <1>6, <2>3, WayTypes DEF Receive
    <3>2. /\ Head(to[p]) \in Nat /\ Head(to[p]) = to[p][1] /\ m # 0
          /\ Len(Tail(to[p])) = m - 1 /\ \A i \in 1..Len(Tail(to[p])) : Tail(to[p])[i] = to[p][i + 1]
      BY <3>1, TailOf
    <3>3. got'[p] = Append(got[p], Head(to[p])) /\ to'[p] = Tail(to[p])
      BY <1>6, <2>3, PeerOf DEF Receive, Types
    <3>4. /\ Len(got'[p]) = n + 1 /\ got'[p][n + 1] = to[p][1]
          /\ \A i \in 1..n : got'[p][i] = got[p][i]
      BY <3>1, <3>2, <3>3, AppendOf
    <3>5. /\ Len(to'[p]) = m - 1 /\ \A i \in 1..(m - 1) : to'[p][i] = to[p][i + 1]
      BY <3>2, <3>3
    <3>9. /\ o \in Int /\ (n + 1) + (m - 1) - o = n + m - o
          /\ 1 \in 1..m
          /\ \A i \in 1..(n + 1) : i \in 1..n \/ i = n + 1
          /\ \A i \in 1..(m - 1) : i + 1 \in 1..m /\ n + (i + 1) = (n + 1) + i
      <4>1. o \in Int /\ n \in Nat /\ m \in Nat /\ m # 0
        BY <3>1, <3>2
      <4> HIDE DEF n, m, o
      <4> QED
        BY <4>1, OneOver
    <3>6. Written(p)' = Written(p)
      <4>1. (n + 1) + (m - 1) - o = n + m - o
        BY <3>9
      <4>2. Len(got'[p]) + Len(to'[p]) - o = Len(got[p]) + Len(to[p]) - o
        BY <3>4, <3>5, <4>1
      <4> QED
        BY <1>1, <4>2 DEF Written, Unanswered
    <3>7. Whole(e)'
      BY <1>1, <1>3, <2>1, <3>6 DEF Whole
    <3>8. Delivered(e)'
      <4>1. (n + 1) + (m - 1) - o <= sent[e]
        BY <3>9 DEF Delivered
      <4>2. \A i \in 1..(n + 1) : i > o => got'[p][i] = i - o
        <5>1. \A i \in 1..n : i > o => got'[p][i] = i - o
          BY <3>4 DEF Delivered
        <5>2. n + 1 > o => got'[p][n + 1] = n + 1 - o
          BY <3>4, <3>9 DEF Delivered
        <5> DEFINE g == got'[p]
        <5>3. /\ \A i \in 1..n : i > o => g[i] = i - o
              /\ n + 1 > o => g[n + 1] = n + 1 - o
          BY <5>1, <5>2
        <5>5. n \in Nat /\ o \in Int /\ \A i \in 1..(n + 1) : i \in 1..n \/ i = n + 1
          BY <3>1, <3>9
        <5> HIDE DEF n, o, g
        <5>4. \A i \in 1..(n + 1) : i > o => g[i] = i - o
          BY <5>3, <5>5
        <5> QED
          BY <5>4 DEF g
      <4>3. \A i \in 1..(m - 1) : (n + 1) + i > o => to'[p][i] = (n + 1) + i - o
        <5> SUFFICES ASSUME NEW i \in 1..(m - 1), (n + 1) + i > o
                     PROVE  to'[p][i] = (n + 1) + i - o
          OBVIOUS
        <5>1. i + 1 \in 1..m /\ n + (i + 1) = (n + 1) + i
          BY <3>9
        <5>2. to[p][i + 1] = n + (i + 1) - o
          BY <5>1 DEF Delivered
        <5>3. to'[p][i] = to[p][i + 1]
          BY <3>5
        <5>4. n \in Nat /\ o \in Int
          BY <3>1, <3>9
        <5> HIDE DEF n, m, o, p
        <5>5. i \in Int
          BY DEF m
        <5> QED
          BY <5>1, <5>2, <5>3, <5>4, <5>5
      <4> QED
        BY <2>1, <3>4, <3>5, <4>1, <4>2, <4>3 DEF Delivered
    <3> QED
      BY <3>7, <3>8
  <2> QED
    BY <2>2, <2>3
<1>7. CASE Reset(d)
  <2>1. UNCHANGED <<from, sent, got>>
    BY <1>7 DEF Reset, ends
  <2>2. CASE d # Peer(e)
    <3>1. to'[Peer(e)] = to[Peer(e)]
      BY <1>7, <2>2, PeerOf DEF Reset, Types
    <3>2. Written(Peer(e))' = Written(Peer(e))
      BY <1>1, <2>1, <3>1 DEF Written, Unanswered
    <3> QED
      BY <1>1, <1>3, <2>1, <3>1, <3>2, Unmoved
  <2>3. CASE d = Peer(e)
    <3>1. ~Heard(e)
      BY <1>7, <2>3 DEF Reset, Heard, Reached, Ending, Unanswered, Peer
    <3>2. to'[Peer(e)] = <<>> /\ Len(<<>>) = 0
      BY <1>7, <2>3, PeerOf DEF Reset, Types
    <3>3. Len(got[Peer(e)]) + 0 - Offset(Peer(e)) <= sent[e]
      <4> DEFINE n == Len(got[Peer(e)])
                 m == Len(to[Peer(e)])
                 o == Offset(Peer(e))
      <4>1. n \in Nat /\ m \in Nat /\ o \in Int /\ sent[e] \in Nat /\ n + m - o <= sent[e]
        BY WayTypes DEF Delivered
      <4> HIDE DEF n, m, o
      <4>2. n + 0 - o <= sent[e]
        BY <4>1, NoneLeft
      <4> QED
        BY <4>2 DEF n, o
    <3>4. Delivered(e)'
      BY <2>1, <3>2, <3>3 DEF Delivered
    <3> QED
      BY <1>3, <3>1, <3>4 DEF Whole
  <2> QED
    BY <2>2, <2>3
<1> QED
  BY <1>4, <1>5, <1>6, <1>7 DEF Act

-----------------------------------------------------------------------------
(* The invariant.                                                          *)

LEMMA IInvStep == IInv /\ [Next]_vars => IInv'
<1> SUFFICES ASSUME IInv, [Next]_vars PROVE IInv'
  OBVIOUS
<1> USE DEF IInv
<1>1. CASE Conducting
  <2>1. Next
    BY <1>1 DEF Next, Step, Conducting
  <2> QED
    BY <1>1, <2>1, ConductingTypes, AnsweredStep, EndingStep, ConductingWay
<1>2. ASSUME NEW d \in Ends, Read(d) PROVE IInv'
  <2>1. Next
    BY <1>2 DEF Next, Step
  <2> QED
    BY <1>2, <2>1, ReadTypes, AnsweredStep, EndingStep, ReadWay
<1>3. ASSUME NEW d \in Ends, Write(d) PROVE IInv'
  <2>1. Next
    BY <1>3 DEF Next, Step
  <2> QED
    BY <1>3, <2>1, WriteTypes, AnsweredStep, EndingStep, WriteWay
<1>4. ASSUME NEW d \in Ends, Act(d) PROVE IInv'
  <2>1. Next
    BY <1>4 DEF Next
  <2> QED
    BY <1>4, <2>1, ActTypes, AnsweredStep, EndingStep, ActWay
<1>5. CASE UNCHANGED vars
  <2>1. Types' /\ Answered' /\ Ending'
    BY <1>5 DEF vars, Types, Answered, Ending, Unanswered, Reached
  <2>2. ASSUME NEW e \in Ends PROVE Delivered(e)' /\ Whole(e)'
    BY <1>5, Unmoved DEF vars, AheadOf, Heard, Written, Unanswered
  <2> QED
    BY <2>1, <2>2
<1> QED
  BY <1>1, <1>2, <1>3, <1>4, <1>5 DEF Next, Step, Conducting

LEMMA Invariance == Spec => []IInv
<1>1. Init => IInv
  BY Initially
<1>2. IInv /\ [Next]_vars => IInv'
  BY IInvStep
<1> QED
  BY <1>1, <1>2, PTL DEF Spec

\* What is in the sockets and with the ends has its type, and a client hears of
\* its CONNECT before anything else.
THEOREM TypeCorrect == Spec => []TypeOK
<1>1. IInv => TypeOK
  <2> SUFFICES ASSUME IInv PROVE TypeOK
    OBVIOUS
  <2>1. ASSUME NEW e \in Ends
        PROVE  sent[e] \in 0..MaxChunks /\ Len(hand[e]) <= 1 /\ Len(to[e]) <= Window
    BY DEF IInv, Types
  <2>2. got["client"] # <<>> => Head(got["client"]) \in {200, 502}
    <3>1. got["client"] \in Seq(Nat)
      BY DEF IInv, Types, Ends
    <3>2. got["client"] # <<>> => Head(got["client"]) = got["client"][1]
      BY <3>1, TailOf
    <3> QED
      BY <3>2 DEF IInv, Answered
  <2> QED
    BY <2>1, <2>2 DEF IInv, Types, TypeOK
<1> QED
  BY <1>1, Invariance, PTL

-----------------------------------------------------------------------------
(* Streams.                                                                *)

LEMMA TailAppend ==
  ASSUME NEW s \in Seq(Nat), NEW n \in Nat, s # <<>>
  PROVE  Tail(Append(s, n)) = Append(Tail(s), n)
OBVIOUS

LEMMA SentOf ==
  ASSUME Types, NEW e \in Ends
  PROVE  /\ Sent(e) \in Seq(Nat) /\ Len(Sent(e)) = sent[e] /\ sent[e] \in Nat
         /\ \A i \in 1..sent[e] : Sent(e)[i] = i
<1>1. sent[e] \in Nat
  BY Sizes DEF Types
<1> QED
  BY <1>1 DEF Sent

\* The sender's sequence grows by the number of the chunk.
LEMMA SendStep ==
  ASSUME Types, NEW e \in Ends, Send(e)
  PROVE  Sent(e)' = Append(Sent(e), sent[e] + 1) /\ sent[e] + 1 \in 1..MaxChunks
<1>1. sent[e] \in Nat /\ sent'[e] = sent[e] + 1 /\ sent[e] + 1 \in 1..MaxChunks
  BY Sizes DEF Send, Types
<1> DEFINE k == sent[e]
<1>2. [i \in 1..(k + 1) |-> i] = Append([i \in 1..k |-> i], k + 1)
  <2>1. k \in Nat
    BY <1>1
  <2> HIDE DEF k
  <2> QED
    BY <2>1
<1> QED
  BY <1>1, <1>2 DEF Sent

\* The peer of e gets the next chunk of it, or the answer to its CONNECT.
LEMMA ReceiveStep ==
  ASSUME Types, Answered, Ending, NEW e \in Ends, Delivered(e), Receive(Peer(e))
  PROVE  /\ Peer(e) \notin eof
         /\ \/ UNCHANGED Received(Peer(e))
            \/ /\ Len(Received(Peer(e))) < Len(Sent(e))
               /\ Received(Peer(e))' = Append(Received(Peer(e)), Sent(e)[Len(Received(Peer(e))) + 1])
<1> DEFINE p == Peer(e)
           n == Len(got[p])
           m == Len(to[p])
           o == Offset(p)
           x == Head(to[p])
<1>1. /\ got[p] \in Seq(Nat) /\ to[p] \in Seq(Nat) /\ to[p] # <<>> /\ p \in Ends
      /\ n \in Nat /\ m \in Nat /\ o \in {0, 1} /\ sent[e] \in Nat
  BY WayTypes, PeerOf DEF Receive
<1>2. p \notin eof
  BY <1>1 DEF Ending
<1>3. x \in Nat /\ x = to[p][1] /\ m # 0
  BY <1>1, TailOf
<1>4. got'[p] = Append(got[p], x)
  BY <1>1 DEF Receive, Types
<1>5. n + 1 > o => x = n + 1 - o /\ n + 1 - o <= sent[e]
  <2>1. 1 \in 1..m /\ n + m - o <= sent[e]
    BY <1>1, <1>3 DEF Delivered
  <2>2. n + 1 > o => x = n + 1 - o
    BY <1>3, <2>1 DEF Delivered
  <2>3. n \in Nat /\ m \in Nat /\ m # 0 /\ o \in Int
    BY <1>1, <1>3
  <2> HIDE DEF n, m, o, x
  <2> QED
    BY <1>1, <2>1, <2>2, <2>3
<1>6. CASE p = "client" /\ got[p] = <<>>
  <2>1. Received(p) = <<>>
    BY <1>6 DEF Received
  <2>2. got'[p] = <<x>>
    BY <1>4, <1>6
  <2>3. Received(p)' = <<>>
    BY <1>6, <2>2 DEF Received
  <2> QED
    BY <1>2, <2>1, <2>3
<1>7. CASE ~(p = "client" /\ got[p] = <<>>)
  <2> DEFINE r == Received(p)
  <2>1. /\ r \in Seq(Nat) /\ Len(r) = n - o /\ n + 1 > o
        /\ Received(p)' = Append(r, x)
    <3>1. CASE p = "client"
      <4>1. o = 1 /\ got[p] # <<>> /\ r = Tail(got[p])
        BY <1>7, <3>1 DEF Received, Offset
      <4>2. r \in Seq(Nat) /\ Len(r) = n - 1 /\ n # 0
        BY <1>1, <4>1, TailOf
      <4>3. got'[p] # <<>>
        <5>1. Append(got[p], x) # <<>>
          BY <1>1, <1>3, AppendOf
        <5> QED
          BY <1>4, <5>1
      <4>4. Received(p)' = Tail(Append(got[p], x))
        BY <1>4, <3>1, <4>3 DEF Received
      <4>5. Received(p)' = Append(r, x)
        BY <1>1, <1>3, <4>1, <4>4, TailAppend
      <4>6. n + 1 > o
        BY <1>1, <4>1, <4>2
      <4> QED
        BY <4>1, <4>2, <4>5, <4>6
    <3>2. CASE p # "client"
      <4>1. o = 0 /\ r = got[p] /\ Received(p)' = got'[p]
        BY <3>2 DEF Received, Offset
      <4> QED
        BY <1>1, <1>4, <4>1
    <3> QED
      BY <3>1, <3>2
  <2>2. Len(Sent(e)) = sent[e] /\ \A i \in 1..sent[e] : Sent(e)[i] = i
    BY SentOf
  <2>3. x = Len(r) + 1 /\ Len(r) < sent[e] /\ Len(r) + 1 \in 1..sent[e]
    <3>1. /\ n \in Nat /\ o \in Int /\ sent[e] \in Nat /\ x = n + 1 - o /\ n + 1 - o <= sent[e]
          /\ Len(r) = n - o /\ Len(r) \in Nat
      BY <1>1, <1>5, <2>1
    <3> HIDE DEF n, o, x, r
    <3> QED
      BY <3>1
  <2>4. Sent(e)[Len(r) + 1] = x
    BY <2>2, <2>3
  <2> QED
    BY <1>2, <2>1, <2>2, <2>3, <2>4
<1> QED
  BY <1>6, <1>7

\* No step gives the peer of e anything but a receive of its own, and none
\* shows it an end but what finds a side closed.
LEMMA OtherStep ==
  ASSUME Types, Ending, NEW e \in Ends, Next, ~Send(e), ~Receive(Peer(e))
  PROVE  UNCHANGED <<Sent(e), Received(Peer(e))>>
<1>1. sent'[e] = sent[e]
  <2>1. ASSUME NEW d \in Ends, Send(d) PROVE sent'[e] = sent[e]
    BY <2>1 DEF Send, Types
  <2>2. (\E d \in Ends : Send(d)) \/ sent' = sent
    BY DEF Next, Step, Act, DialFails, DialSucceeds, Answer, Return, CloseClient, CloseUpstream,
           Read, Write, HalfClose, FullClose, Receive, SeeEnd, Reset, ends
  <2> QED
    BY <2>1, <2>2
<1>2. got'[Peer(e)] = got[Peer(e)]
  <2>1. ASSUME NEW d \in Ends, Receive(d) PROVE got'[Peer(e)] = got[Peer(e)]
    BY <2>1, PeerOf DEF Receive, Types
  <2>2. (\E d \in Ends : Receive(d)) \/ got' = got
    BY DEF Next, Step, Act, DialFails, DialSucceeds, Answer, Return, CloseClient, CloseUpstream,
           Read, Write, Send, HalfClose, FullClose, SeeEnd, Reset, ends
  <2> QED
    BY <2>1, <2>2
<1> QED
  BY <1>1, <1>2 DEF Sent, Received

\* A side that no longer waits: an end has closed, or the host was not reached.
Over == shut # {} \/ (handler \in {"close", "done"} /\ ~Reached("host"))

\* What is over stays over, and only then does an end see it; moving a chunk
\* changes neither.
LEMMA ClosingStep ==
  ASSUME Types, Ending, Next
  PROVE  /\ shut # {} => shut' # {}
         /\ Over => Over'
         /\ (\E e \in Ends : Send(e) \/ Receive(e)) =>
              UNCHANGED <<shut, eof, handler, open, uplink>>
         /\ \A e \in Ends : e \in eof => e \in eof'
         /\ eof' # eof => UNCHANGED <<shut, handler, open, uplink, sent, got>>
         /\ "host" \in eof' => "host" \in eof \/ shut # {}
         /\ "client" \in eof' => "client" \in eof \/ Over
<1>1. ASSUME NEW e \in Ends, Send(e) \/ Receive(e)
      PROVE  UNCHANGED <<shut, eof, handler, open, uplink>>
  BY <1>1 DEF Send, Receive, proxy
<1>2. ASSUME NEW e \in Ends, SeeEnd(e)
      PROVE  /\ UNCHANGED <<shut, handler, open, uplink, sent, got>> /\ eof' = eof \cup {e}
             /\ e = "host" => shut # {}
             /\ e = "client" => Over
  <2>1. UNCHANGED <<shut, handler, open, uplink, sent, got>> /\ eof' = eof \cup {e}
    BY <1>2 DEF SeeEnd, proxy
  <2>2. e = "host" => shut # {}
    BY <1>2 DEF SeeEnd, Reached, Ending
  <2>3. e = "client" => Over
    BY <1>2 DEF SeeEnd, Reached, Ending, Over
  <2> QED
    BY <2>1, <2>2, <2>3
<1>3. CASE ~\E e \in Ends : Send(e) \/ Receive(e) \/ SeeEnd(e)
  <2>1. eof' = eof /\ shut \subseteq shut'
    BY <1>3 DEF Next, Step, Act, DialFails, DialSucceeds, Answer, Return, CloseClient,
                CloseUpstream, Read, Write, HalfClose, FullClose, Reset, ends
  <2>2. Over => Over'
    BY ZenonT(40), <1>3, <2>1 DEF Next, Step, Act, DialFails, DialSucceeds, Answer, Return, CloseClient,
                CloseUpstream, Read, Write, Copying, StopCopy, HalfClose, FullClose, Reset,
                ends, proxy, Over, Reached, Ends
  <2> QED
    BY <1>3, <2>1, <2>2
<1> QED
  <2>1. ASSUME NEW e \in Ends, Send(e) \/ Receive(e)
        PROVE  UNCHANGED Over
    BY <1>1, <2>1 DEF Over, Reached
  <2>2. ASSUME NEW e \in Ends, SeeEnd(e)
        PROVE  UNCHANGED Over
    BY <1>2, <2>2 DEF Over, Reached
  <2> QED
    BY <1>1, <1>2, <1>3, <2>1, <2>2

LEMMA UpStep == IInv /\ IInv' /\ [Next]_vars => [Up!Next]_Up!vars
<1> SUFFICES ASSUME IInv, Next PROVE [Up!Next]_Up!vars
  BY DEF vars, Up!vars, Sent, Received
<1> USE DEF IInv
<1>0. "client" \in Ends /\ Peer("client") = "host" /\ "host" \in Ends
  BY DEF Ends, Peer
<1>1. CASE Send("client")
  <2>1. Sent("client")' = Append(Sent("client"), sent["client"] + 1)
        /\ sent["client"] + 1 \in 1..MaxChunks
    BY <1>0, <1>1, SendStep
  <2>2. UNCHANGED <<got, shut, eof>>
    BY <1>1 DEF Send
  <2> QED
    BY <2>1, <2>2 DEF Up!Next, Up!Send, Received
<1>2. CASE Receive("host")
  <2>1. UNCHANGED <<sent, shut, eof>>
    BY <1>2 DEF Receive
  <2> QED
    BY <1>0, <1>2, <2>1, ReceiveStep DEF Up!Next, Up!Get, Up!vars, Sent
<1>3. CASE ~Send("client") /\ ~Receive("host")
  <2>1. UNCHANGED <<Sent("client"), Received("host")>>
    BY <1>0, <1>3, OtherStep
  <2>2. /\ shut # {} => shut' # {}
        /\ "host" \in eof => "host" \in eof'
        /\ eof' # eof => UNCHANGED shut
        /\ "host" \in eof' => "host" \in eof \/ shut # {}
    BY <1>0, ClosingStep
  <2>3. CASE eof' # eof /\ "host" \in eof'
    BY <2>1, <2>2, <2>3 DEF Up!Next, Up!End, Up!vars
  <2>4. CASE ("host" \in eof') = ("host" \in eof) /\ shut' # {}
    BY <2>1, <2>2, <2>4 DEF Up!Next, Up!Close
  <2>5. CASE ("host" \in eof') = ("host" \in eof) /\ shut' = {}
    BY <2>1, <2>2, <2>5 DEF Up!vars
  <2> QED
    BY <2>2, <2>3, <2>4, <2>5
<1> QED
  BY <1>1, <1>2, <1>3

LEMMA DownStep == IInv /\ IInv' /\ [Next]_vars => [Down!Next]_Down!vars
<1> SUFFICES ASSUME IInv, Next PROVE [Down!Next]_Down!vars
  BY DEF vars, Down!vars, Sent, Received, Reached
<1> USE DEF IInv
<1>0. "client" \in Ends /\ Peer("host") = "client" /\ "host" \in Ends
  BY DEF Ends, Peer
<1>1. CASE Send("host")
  <2>1. Sent("host")' = Append(Sent("host"), sent["host"] + 1)
        /\ sent["host"] + 1 \in 1..MaxChunks
    BY <1>0, <1>1, SendStep
  <2>2. UNCHANGED <<got, shut, eof, handler, open, uplink>>
    BY <1>1 DEF Send, proxy
  <2> QED
    BY <2>1, <2>2 DEF Down!Next, Down!Send, Received, Reached
<1>2. CASE Receive("client")
  <2>1. UNCHANGED <<sent, shut, eof, handler, open, uplink>>
    BY <1>2 DEF Receive, proxy
  <2> QED
    BY <1>0, <1>2, <2>1, ReceiveStep DEF Down!Next, Down!Get, Down!vars, Sent, Reached
<1>3. CASE ~Send("host") /\ ~Receive("client")
  <2>1. UNCHANGED <<Sent("host"), Received("client")>>
    BY <1>0, <1>3, OtherStep
  <2>2. /\ Over => Over'
        /\ "client" \in eof => "client" \in eof'
        /\ eof' # eof => UNCHANGED Over
        /\ "client" \in eof' => "client" \in eof \/ Over
    <3>1. eof' # eof => UNCHANGED Over
      BY ClosingStep DEF Over, Reached
    <3> QED
      BY <1>0, <3>1, ClosingStep
  <2>3. CASE eof' # eof /\ "client" \in eof'
    BY <2>1, <2>2, <2>3 DEF Down!Next, Down!End, Down!vars, Over
  <2>4. CASE ("client" \in eof') = ("client" \in eof) /\ Over'
    BY <2>1, <2>2, <2>4 DEF Down!Next, Down!Close, Over
  <2>5. CASE ("client" \in eof') = ("client" \in eof) /\ ~Over'
    BY <2>1, <2>2, <2>5 DEF Down!vars, Over
  <2> QED
    BY <2>2, <2>3, <2>4, <2>5
<1> QED
  BY <1>1, <1>2, <1>3

\* Each direction of a tunnel is a stream: what an end gets is what the other
\* sent, in order, from the first chunk on (the one read ahead with the CONNECT
\* as well), and neither sees the end of it before an end has closed.
THEOREM TunnelIsStreams == Spec => ImplementsStreams
<1>1. Init => Up!Init /\ Down!Init
  BY DEF Init, Up!Init, Down!Init, Received, Ends
<1>2. IInv /\ IInv' /\ [Next]_vars => [Up!Next]_Up!vars /\ [Down!Next]_Down!vars
  BY UpStep, DownStep
<1> QED
  BY <1>1, <1>2, Invariance, PTL DEF Spec, ImplementsStreams, Up!Spec, Down!Spec
-----------------------------------------------------------------------------
(* The last word.  When one end alone has closed its side, only the copy   *)
(* that finds the end of what it sent can have closed anything, and        *)
(* whatever is lost afterwards is lost because the other end has sent what *)
(* nobody will read.                                                       *)

\* What e sent and the proxy has not written to its peer.
Waiting(e) == Len(hand[e]) + Len(AheadOf(e)) + Len(from[e])

\* Nothing is on the way from e but what it has sent.
Bounded(e) == Waiting(e) <= sent[e] /\ Written(Peer(e)) + Waiting(e) <= sent[e]

\* All that e sent has been written, or its peer has sent in vain.
Through(e) ==
  LET p == Peer(e) IN Written(p) = sent[e] \/ (p \notin open /\ from[p] # <<>>)

\* Only e has closed its side, and receives.
Only(e) == shut = {e} /\ gone = {}

ClientLast ==
  Only("client") =>
    /\ uplink # "none" /\ "host" \notin open => uplink = "ended"
    /\ handler = "return" => uplink = "ended"
    /\ uplink \in {"close", "ended"} => Through("client")

HostLast ==
  /\ handler = "dial" => "host" \notin shut
  /\ Only("host") =>
       /\ handler = "copy" => uplink = "copy" /\ "host" \in open
       /\ handler \in {"return", "close", "done"} => Through("host")

Lasting == ClientLast /\ HostLast /\ \A e \in Ends : Bounded(e)

LEMMA LastingInit == Init => Lasting
<1> SUFFICES ASSUME Init PROVE Lasting
  OBVIOUS
<1>1. ClientLast /\ HostLast
  BY DEF Init, ClientLast, HostLast, Only
<1>2. ASSUME NEW e \in Ends PROVE Bounded(e)
  <2>1. Len(<<>>) = 0 /\ Len(<<1>>) = 1 /\ Len(AheadOf(e)) \in {0, 1}
    BY DEF Init, AheadOf
  <2>2. /\ hand[e] = <<>> /\ from[e] = <<>> /\ to[Peer(e)] = <<>> /\ got[Peer(e)] = <<>>
        /\ sent[e] = Len(AheadOf(e)) /\ Written(Peer(e)) \in {0, -1}
    <3>1. hand[e] = <<>> /\ from[e] = <<>> /\ to[Peer(e)] = <<>> /\ got[Peer(e)] = <<>>
      BY PeerOf DEF Init
    <3>2. sent[e] = Len(AheadOf(e))
      BY <2>1 DEF Init, AheadOf
    <3>3. Written(Peer(e)) \in {0, -1}
      <4>1. Len(got[Peer(e)]) = 0 /\ Len(to[Peer(e)]) = 0 /\ Offset(Peer(e)) \in {0, 1}
        BY <2>1, <3>1 DEF Offset
      <4> QED
        BY <4>1 DEF Written
    <3> QED
      BY <3>1, <3>2, <3>3
  <2> QED
    BY <2>1, <2>2 DEF Bounded, Waiting
<1> QED
  BY <1>1, <1>2 DEF Lasting

LEMMA WaitingTypes ==
  ASSUME Types, NEW e \in Ends
  PROVE  Waiting(e) \in Nat /\ Written(Peer(e)) \in Int /\ sent[e] \in Nat
<1> DEFINE h == Len(hand[e])
           a == Len(AheadOf(e))
           f == Len(from[e])
<1>1. h \in Nat /\ a \in Nat /\ f \in Nat /\ Waiting(e) = h + a + f
  BY WayTypes DEF Waiting
<1> HIDE DEF h, a, f
<1>2. Waiting(e) \in Nat
  BY <1>1
<1> QED
  BY <1>2, WayTypes

LEMMA Typed ==
  Types => \A e \in Ends : Waiting(e) \in Nat /\ Written(Peer(e)) \in Int /\ sent[e] \in Nat
BY WaitingTypes

LEMMA TypedNext ==
  Types' => (\A e \in Ends : Waiting(e) \in Nat /\ Written(Peer(e)) \in Int /\ sent[e] \in Nat)'
BY Typed, PTL

\* What is written, waiting and sent in a direction, after a step.
Moved(e) ==
  \/ /\ sent'[e] = sent[e] /\ Waiting(e)' <= Waiting(e)
     /\ Written(Peer(e))' + Waiting(e)' <= Written(Peer(e)) + Waiting(e)
  \/ /\ sent'[e] = sent[e] + 1 /\ Waiting(e)' = Waiting(e) + 1
     /\ Written(Peer(e))' = Written(Peer(e))

LEMMA ConductingMoves ==
  ASSUME Types, Answered, Ending, Conducting, NEW e \in Ends
  PROVE  Moved(e)
<1>1. sent'[e] = sent[e] /\ Waiting(e)' = Waiting(e) /\ got' = got
  BY DEF Conducting, DialFails, DialSucceeds, Answer, Return, CloseClient, CloseUpstream,
         ends, Waiting, AheadOf
<1>2. Written(Peer(e))' <= Written(Peer(e)) /\ Written(Peer(e))' \in Int
  <2>1. CASE Unanswered /\ Peer(e) = "client"
    <3>1. got["client"] = <<>> /\ to["client"] = <<>> /\ Written(Peer(e)) = 0
      BY <2>1 DEF Answered, Written
    <3>2. to'["client"] \in {<<>>, <<200>>, <<502>>}
      BY <2>1, <3>1 DEF Conducting, DialFails, DialSucceeds, Answer, Return, CloseClient,
         CloseUpstream, Types, Ends
    <3>3. Len(to'["client"]) \in {0, 1} /\ Len(got'["client"]) = 0
      BY <1>1, <3>1, <3>2
    <3>4. Written(Peer(e))' \in {0, -1}
      BY <2>1, <3>3 DEF Written, Offset
    <3> QED
      BY <3>1, <3>4
  <2>2. CASE ~(Unanswered /\ Peer(e) = "client")
    <3>1. to'[Peer(e)] = to[Peer(e)] /\ ~(Unanswered' /\ Peer(e) = "client")
      BY <2>2, PeerOf DEF Conducting, DialFails, DialSucceeds, Answer, Return, CloseClient,
         CloseUpstream, Types, Unanswered
    <3>2. Written(Peer(e))' = Written(Peer(e))
      BY <1>1, <2>2, <3>1 DEF Written
    <3> QED
      BY <3>2, WaitingTypes
  <2> QED
    BY <2>1, <2>2
<1> DEFINE x == Waiting(e)
           w == Written(Peer(e))
           v == Written(Peer(e))'
<1>3. Waiting(e)' = x /\ v <= w /\ x \in Nat /\ w \in Int /\ v \in Int
  BY <1>1, <1>2, WaitingTypes
<1> HIDE DEF x, w, v
<1>4. x <= x /\ v + x <= w + x
  BY <1>3
<1> QED
  BY <1>1, <1>3, <1>4 DEF Moved, x, w, v

\* A chunk that is read stays on the way; one that is written, or lost, leaves it.
LEMMA ReadMoves ==
  ASSUME Types, Ending, NEW d \in Ends, Read(d), NEW e \in Ends
  PROVE  Moved(e)
<1>1. UNCHANGED <<got, to, sent>> /\ Written(Peer(e))' = Written(Peer(e))
  BY CopyGoesOn DEF Read, ends, Written
<1>2. Waiting(e)' = Waiting(e)
  <2>1. CASE d # e \/ UNCHANGED <<hand, ahead, from>>
    <3>1. hand'[e] = hand[e] /\ from'[e] = from[e]
      BY <2>1 DEF Read, Types
    <3>2. AheadOf(e)' = AheadOf(e)
      BY <2>1 DEF Read, Ahead, AheadOf, Ends
    <3> QED
      BY <3>1, <3>2 DEF Waiting
  <2>2. CASE d = e /\ Ahead(e) /\ hand' = [hand EXCEPT ![e] = <<Head(ahead)>>]
             /\ ahead' = Tail(ahead) /\ UNCHANGED from
    <3>1. AheadOf(e) = ahead /\ AheadOf(e)' = Tail(ahead) /\ ahead # <<>> /\ ahead \in Seq(Nat)
      BY <2>2 DEF Ahead, AheadOf, Types
    <3>2. hand[e] = <<>> /\ hand'[e] = <<Head(ahead)>> /\ from'[e] = from[e]
      BY <2>2 DEF Read, Types
    <3>3. Len(hand[e]) = 0 /\ Len(hand'[e]) = 1 /\ Len(from[e]) \in Nat
      BY <3>2, WayTypes
    <3>4. Len(ahead) \in Nat /\ Len(Tail(ahead)) = Len(ahead) - 1
      BY <3>1, TailOf
    <3> QED
      BY <3>1, <3>2, <3>3, <3>4 DEF Waiting
  <2>3. CASE /\ d = e /\ ~Ahead(e) /\ from[e] # <<>>
             /\ hand' = [hand EXCEPT ![e] = <<Head(from[e])>>]
             /\ from' = [from EXCEPT ![e] = Tail(@)] /\ UNCHANGED ahead
    <3>1. AheadOf(e) = <<>> /\ AheadOf(e)' = <<>> /\ Len(<<>>) = 0 /\ from[e] \in Seq(Nat)
      BY <2>3 DEF Ahead, AheadOf, Types
    <3>2. hand[e] = <<>> /\ hand'[e] = <<Head(from[e])>> /\ from'[e] = Tail(from[e])
      BY <2>3 DEF Read, Types
    <3>3. Len(hand[e]) = 0 /\ Len(hand'[e]) = 1
      BY <3>2
    <3>4. Len(from[e]) \in Nat /\ Len(Tail(from[e])) = Len(from[e]) - 1
      BY <2>3, <3>1, TailOf
    <3> QED
      BY <3>1, <3>2, <3>3, <3>4 DEF Waiting
  <2> QED
    BY <2>1, <2>2, <2>3 DEF Read
<1> QED
  BY <1>1, <1>2, WaitingTypes DEF Moved

LEMMA WriteMoves ==
  ASSUME Types, Ending, NEW d \in Ends, Write(d), NEW e \in Ends
  PROVE  Moved(e)
<1>1. UNCHANGED <<ahead, from, got, sent>> /\ ~Unanswered /\ ~Unanswered' /\ AheadOf(e)' = AheadOf(e)
  BY CopyGoesOn DEF Write, AheadOf
<1>2. CASE d # e
  <2>1. hand'[e] = hand[e] /\ to'[Peer(e)] = to[Peer(e)]
    BY <1>2, PeerOf DEF Write, Types
  <2>2. Waiting(e)' = Waiting(e) /\ Written(Peer(e))' = Written(Peer(e)) /\ sent'[e] = sent[e]
    BY <1>1, <2>1 DEF Waiting, Written
  <2> QED
    BY <2>2, WaitingTypes DEF Moved
<1>3. CASE d = e
  <2> DEFINE p == Peer(e)
             n == Len(got[p])
             m == Len(to[p])
             k == Len(to'[p])
             r == Len(AheadOf(e))
             f == Len(from[e])
             o == Offset(p)
  <2>1. hand[e] \in Seq(Nat) /\ Len(hand[e]) = 1 /\ hand'[e] = <<>> /\ Len(hand'[e]) = 0
    BY <1>3, OneOf DEF Write, Types
  <2>2. n \in Nat /\ m \in Nat /\ r \in Nat /\ f \in Nat /\ o \in Int
    BY WayTypes
  <2>3. k = m \/ k = m + 1
    <3>1. CASE to' = [to EXCEPT ![p] = @ \o hand[e]]
      BY <2>1, <3>1, ConcatOne, PeerOf DEF Types
    <3>2. CASE UNCHANGED to
      BY <3>2
    <3> QED
      BY <1>3, <3>1, <3>2 DEF Write
  <2>4. /\ Waiting(e) = 1 + r + f /\ Waiting(e)' = 0 + r + f
        /\ Written(p) = n + m - o /\ Written(p)' = n + k - o
    BY <1>1, <2>1 DEF Waiting, Written
  <2> HIDE DEF n, m, k, r, f, o
  <2>5. 0 + r + f <= 1 + r + f /\ (n + k - o) + (0 + r + f) <= (n + m - o) + (1 + r + f)
    BY <2>2, <2>3
  <2> QED
    BY <1>1, <2>4, <2>5 DEF Moved
<1> QED
  BY <1>2, <1>3

LEMMA ActMoves ==
  ASSUME Types, Answered, Ending, NEW d \in Ends, Act(d), NEW e \in Ends
  PROVE  Moved(e)
<1>1. UNCHANGED <<handler, ahead, hand>> /\ AheadOf(e)' = AheadOf(e)
  BY DEF Act, Send, HalfClose, FullClose, Receive, SeeEnd, Reset, proxy, AheadOf
<1>2. CASE sent'[e] = sent[e] /\ from'[e] = from[e] /\ UNCHANGED <<got[Peer(e)], to[Peer(e)]>>
  <2>1. Waiting(e)' = Waiting(e) /\ Written(Peer(e))' = Written(Peer(e))
    BY <1>1, <1>2 DEF Waiting, Written, Unanswered
  <2> QED
    BY <1>2, <2>1, WaitingTypes DEF Moved
<1>3. CASE Send(d) /\ d = e
  <2>1. from'[e] = Append(from[e], sent[e] + 1) /\ sent'[e] = sent[e] + 1 /\ UNCHANGED <<to, got>>
    BY <1>3 DEF Send, Types
  <2>2. Len(from'[e]) = Len(from[e]) + 1
    BY <2>1, WayTypes, AppendOf
  <2> DEFINE h == Len(hand[e])
             a == Len(AheadOf(e))
             f == Len(from[e])
  <2>3. h \in Nat /\ a \in Nat /\ f \in Nat /\ Waiting(e) = h + a + f /\ Waiting(e)' = h + a + (f + 1)
    BY <1>1, <2>2, WayTypes DEF Waiting
  <2> HIDE DEF h, a, f
  <2>4. Waiting(e)' = Waiting(e) + 1
    BY <2>3
  <2>5. Written(Peer(e))' = Written(Peer(e))
    BY <1>1, <2>1 DEF Written, Unanswered
  <2> QED
    BY <2>1, <2>4, <2>5 DEF Moved
<1>4. CASE d = Peer(e) /\ (Receive(d) \/ Reset(d))
  <2> DEFINE p == Peer(e)
             n == Len(got[p])
             m == Len(to[p])
             k == Len(got'[p])
             j == Len(to'[p])
             o == Offset(p)
  <2>1. UNCHANGED <<from, sent>> /\ Waiting(e)' = Waiting(e)
    <3>1. UNCHANGED <<from, sent>>
      BY <1>4 DEF Receive, Reset, ends
    <3> QED
      BY <1>1, <3>1 DEF Waiting
  <2>2. got[p] \in Seq(Nat) /\ to[p] \in Seq(Nat) /\ to[p] # <<>> /\ p \in Ends
    BY <1>4, PeerOf, WayTypes DEF Receive, Reset
  <2>3. n \in Nat /\ m \in Nat /\ m # 0 /\ o \in Int
    BY <2>2, WayTypes, TailOf
  <2>4. (k = n + 1 /\ j = m - 1) \/ (k = n /\ j = 0)
    <3>1. CASE Receive(p)
      <4>1. got'[p] = Append(got[p], Head(to[p])) /\ to'[p] = Tail(to[p])
        BY <2>2, <3>1 DEF Receive, Types
      <4> QED
        BY <2>2, <4>1, TailOf, AppendOf
    <3>2. CASE Reset(p)
      BY <2>2, <3>2 DEF Reset, ends, Types
    <3> QED
      BY <1>4, <3>1, <3>2
  <2>5. \/ (~Unanswered /\ ~Unanswered')
        \/ (p # "client" /\ Unanswered = Unanswered')
    BY <1>1, <2>2 DEF Answered, Unanswered, Ends
  <2>6. Written(p) = n + m - o /\ Written(p)' = k + j - o
    BY <2>5 DEF Written
  <2> HIDE DEF n, m, k, j, o
  <2>7. Written(p)' <= Written(p) /\ Written(p)' \in Int /\ Written(p) \in Int
    BY <2>3, <2>4, <2>6
  <2>8. Waiting(e) \in Nat
    BY WaitingTypes
  <2>9. Waiting(e) <= Waiting(e) /\ Written(p)' + Waiting(e) <= Written(p) + Waiting(e)
    BY <2>7, <2>8
  <2> QED
    BY <2>1, <2>9 DEF Moved
<1>5. CASE ~(Send(d) /\ d = e) /\ ~(d = Peer(e) /\ (Receive(d) \/ Reset(d)))
  <2>1. from'[e] = from[e] /\ sent'[e] = sent[e]
    BY <1>5 DEF Act, Send, HalfClose, FullClose, Receive, SeeEnd, Reset, ends, Types
  <2>2. UNCHANGED <<got[Peer(e)], to[Peer(e)]>>
    BY <1>5, PeerOf DEF Act, Send, HalfClose, FullClose, Receive, SeeEnd, Reset, ends, Types
  <2> QED
    BY <1>2, <2>1, <2>2
<1> QED
  BY <1>3, <1>4, <1>5

LEMMA BoundedStep ==
  ASSUME Types, Types', Answered, Ending, Next, NEW e \in Ends, Bounded(e)
  PROVE  Bounded(e)'
<1>1. Moved(e)
  BY ConductingMoves, ReadMoves, WriteMoves, ActMoves DEF Next, Step, Conducting
<1> DEFINE x == Waiting(e)
           w == Written(Peer(e))
           s == sent[e]
           y == Waiting(e)'
           v == Written(Peer(e))'
<1>2. x \in Nat /\ w \in Int /\ s \in Nat /\ x <= s /\ w + x <= s
  BY WaitingTypes DEF Bounded
<1>3. y \in Nat /\ v \in Int
  <2>1. (\A d \in Ends : Waiting(d) \in Nat /\ Written(Peer(d)) \in Int /\ sent[d] \in Nat)'
    BY TypedNext
  <2> QED
    BY <2>1
<1>4. \/ sent'[e] = s /\ y <= x /\ v + y <= w + x
      \/ sent'[e] = s + 1 /\ y = x + 1 /\ v = w
  BY <1>1 DEF Moved
<1> HIDE DEF x, w, s, y, v
<1>5. y <= sent'[e] /\ v + y <= sent'[e]
  BY <1>2, <1>3, <1>4
<1> QED
  BY <1>5 DEF Bounded, y, v

\* Once the copy of what e sent has ended with all of it written, that stays so,
\* but for a reset of a socket that its peer has written to in vain.
LEMMA ThroughStep ==
  ASSUME Types, Answered, Ending, Next, NEW e \in Ends, Through(e),
         e \in shut, ~Copying(e), ~Unanswered
  PROVE  Through(e)'
<1> DEFINE p == Peer(e)
<1>0. p \in Ends /\ p # e
  BY PeerOf
<1>1. CASE p \notin open /\ from[p] # <<>>
  <2>1. p \notin open'
    BY <1>1 DEF Next, Step, Act, DialFails, DialSucceeds, Answer, Return, CloseClient,
       CloseUpstream, Read, Write, Send, HalfClose, FullClose, Receive, SeeEnd, Reset, proxy,
       Unanswered
  <2>2. from'[p] # <<>>
    <3>1. ASSUME NEW d \in Ends, Read(d) PROVE from'[p] = from[p]
      <4>1. CASE d = p
        <5>1. from' = from
          BY <1>1, <3>1, <4>1 DEF Read
        <5> QED
          BY <5>1
      <4>2. CASE d # p
        BY <1>0, <3>1, <4>2 DEF Read, Types
      <4> QED
        BY <4>1, <4>2
    <3>2. ASSUME NEW d \in Ends, Send(d) PROVE from'[p] # <<>>
      <4>1. CASE d = p
        <5>1. from[p] \in Seq(Nat) /\ sent[p] \in Nat
          BY <1>0, Sizes DEF Types
        <5>2. from'[p] = Append(from[p], sent[p] + 1)
          BY <1>0, <3>2, <4>1 DEF Send, Types
        <5> QED
          BY <5>1, <5>2, AppendOf
      <4>2. CASE d # p
        BY <1>0, <1>1, <3>2, <4>2 DEF Send, Types
      <4> QED
        BY <4>1, <4>2
    <3>3. (\E d \in Ends : Read(d) \/ Send(d)) \/ from' = from
      BY DEF Next, Step, Act, DialFails, DialSucceeds, Answer, Return, CloseClient,
         CloseUpstream, Write, HalfClose, FullClose, Receive, SeeEnd, Reset
    <3> QED
      BY <1>1, <3>1, <3>2, <3>3
  <2> QED
    BY <2>1, <2>2 DEF Through
<1>2. CASE Written(p) = sent[e] /\ ~(p \notin open /\ from[p] # <<>>)
  <2>1. sent'[e] = sent[e]
    <3>1. ASSUME NEW d \in Ends, Send(d) PROVE sent'[e] = sent[e]
      BY <3>1 DEF Send, Types
    <3>2. (\E d \in Ends : Send(d)) \/ sent' = sent
      BY DEF Next, Step, Act, DialFails, DialSucceeds, Answer, Return, CloseClient,
         CloseUpstream, Read, Write, HalfClose, FullClose, Receive, SeeEnd, Reset, ends
    <3> QED
      BY <3>1, <3>2
  <2>2. ~Unanswered'
    BY DEF Next, Step, Act, DialFails, DialSucceeds, Answer, Return, CloseClient, CloseUpstream,
       Read, Write, StopCopy, Send, HalfClose, FullClose, Receive, SeeEnd, Reset, proxy, Unanswered
  <2>3. Written(p)' = Written(p)
    <3>1. CASE UNCHANGED <<got[p], to[p]>>
      BY <2>2, <3>1 DEF Written
    <3>2. CASE Receive(p)
      <4> DEFINE n == Len(got[p])
                 m == Len(to[p])
                 o == Offset(p)
      <4>1. got[p] \in Seq(Nat) /\ to[p] \in Seq(Nat) /\ to[p] # <<>>
        BY <3>2, WayTypes DEF Receive
      <4>2. got'[p] = Append(got[p], Head(to[p])) /\ to'[p] = Tail(to[p])
        BY <1>0, <3>2 DEF Receive, Types
      <4>3. Len(got'[p]) = n + 1 /\ Len(to'[p]) = m - 1
        BY <4>1, <4>2, TailOf, AppendOf
      <4>4. n \in Nat /\ m \in Nat /\ o \in Int
        BY WayTypes
      <4>5. Written(p) = n + m - o /\ Written(p)' = (n + 1) + (m - 1) - o
        BY <2>2, <4>3 DEF Written
      <4> HIDE DEF n, m, o
      <4> QED
        BY <4>4, <4>5
    <3>3. \A d \in Ends : Receive(d) /\ d # p => UNCHANGED <<got[p], to[p]>>
      BY <1>0 DEF Receive, Types
    <3>4. ASSUME NEW d \in Ends, Write(d) PROVE UNCHANGED <<got[p], to[p]>>
      <4>1. d # e
        BY <3>4 DEF Write
      <4> QED
        BY <1>0, <3>4, <4>1, PeerOf DEF Write, ends, Types
    <3>5. ASSUME NEW d \in Ends, Reset(d) PROVE UNCHANGED <<got[p], to[p]>>
      BY <1>0, <1>2, <3>5 DEF Reset, ends, Types
    <3>6. \/ \E d \in Ends : Receive(d) \/ Write(d) \/ Reset(d)
          \/ UNCHANGED <<got, to>>
      BY DEF Next, Step, Act, DialFails, DialSucceeds, Answer, Return, CloseClient, CloseUpstream,
         Read, Send, HalfClose, FullClose, SeeEnd, ends, Unanswered
    <3> QED
      BY <3>1, <3>2, <3>3, <3>4, <3>5, <3>6
  <2> QED
    BY <1>2, <2>1, <2>3 DEF Through
<1> QED
  BY <1>1, <1>2 DEF Through

\* An end that closes its side, or goes, is the only thing that the step does.
LEMMA ShutStep ==
  ASSUME Next
  PROVE  /\ gone \subseteq gone' /\ shut \subseteq shut'
         /\ shut' # shut => UNCHANGED proxy /\ \E e \in Ends : Reached(e) /\ shut' = shut \cup {e}
BY DEF Next, Step, Act, DialFails, DialSucceeds, Answer, Return, CloseClient, CloseUpstream,
   Read, Write, Send, HalfClose, FullClose, Receive, SeeEnd, Reset, ends

\* A copy that ends having read everything, to an end that is there, has written
\* all that was sent.
LEMMA AllWritten ==
  ASSUME Types, NEW e \in Ends, Whole(e), Heard(e),
         hand[e] = <<>>, AheadOf(e) = <<>>, from[e] = <<>>
  PROVE  Written(Peer(e)) = sent[e]
<1>1. Len(<<>>) = 0 /\ Written(Peer(e)) \in Int
  BY WayTypes
<1>2. ((Written(Peer(e)) + 0) + 0) + 0 = sent[e]
  BY <1>1 DEF Whole
<1> QED
  BY <1>1, <1>2

LEMMA ClientLastStep ==
  ASSUME IInv, ClientLast, Next
  PROVE  ClientLast'
<1> SUFFICES ASSUME Only("client")'
             PROVE  (/\ uplink # "none" /\ "host" \notin open => uplink = "ended"
                     /\ handler = "return" => uplink = "ended"
                     /\ uplink \in {"close", "ended"} => Through("client"))'
  BY DEF ClientLast
<1> USE DEF IInv
<1>0. "client" \in Ends /\ Peer("client") = "host" /\ "host" \in Ends /\ Peer("host") = "client"
  BY DEF Ends, Peer
<1>1. CASE shut' # shut
  <2>1. UNCHANGED <<handler, uplink, open>> /\ shut = {}
    BY <1>1, ShutStep DEF Only, proxy
  <2> QED
    BY <2>1 DEF Ending
<1>2. CASE shut' = shut
  <2>1. Only("client") /\ gone' = {}
    BY <1>2, ShutStep DEF Only
  <2>2. /\ uplink # "none" /\ "host" \notin open => uplink = "ended"
        /\ handler = "return" => uplink = "ended"
        /\ uplink \in {"close", "ended"} => Through("client")
    BY <2>1 DEF ClientLast
  <2>3. "client" \in shut /\ "host" \notin shut /\ gone = {}
    BY <2>1 DEF Only
  <2>4. uplink' # "none" /\ "host" \notin open' => uplink' = "ended"
    BY <2>2, <2>3 DEF Next, Step, Act, DialFails, DialSucceeds, Answer, Return, CloseClient,
       CloseUpstream, Read, Write, Copying, StopCopy, Peer, Ends, Send, HalfClose, FullClose, Receive,
       SeeEnd, Reset, proxy, Ending, Unanswered
  <2>5. handler' = "return" => uplink' = "ended"
    BY <2>2, <2>3 DEF Next, Step, Act, DialFails, DialSucceeds, Answer, Return, CloseClient,
       CloseUpstream, Read, Write, Copying, StopCopy, Peer, Ends, Send, HalfClose, FullClose, Receive,
       SeeEnd, Reset, proxy, Ending, Unanswered
  <2>6. ASSUME uplink' \in {"close", "ended"} PROVE Through("client")'
    <3>1. CASE uplink \in {"close", "ended"}
      BY <1>0, <2>2, <2>3, <3>1, ThroughStep DEF Ending, Copying
    <3>2. CASE uplink \notin {"close", "ended"}
      <4>1. uplink = "copy" /\ "host" \in open /\ (Read("client") \/ Write("client"))
        BY <2>2, <2>6, <3>2 DEF Next, Step, Act, DialFails, DialSucceeds, Answer, Return,
           CloseClient, CloseUpstream, Read, Write, Copying, StopCopy, Ends, Send, HalfClose,
           FullClose, Receive, SeeEnd, Reset, proxy, Types
      <4>2. /\ Read("client") /\ ~Ahead("client") /\ from["client"] = <<>>
            /\ hand["client"] = <<>>
        BY <1>0, <2>3, <2>6, <4>1 DEF Read, Write, StopCopy, Ending
      <4>3. Heard("client") /\ AheadOf("client") = <<>>
        BY <1>0, <2>3, <4>1, <4>2 DEF Heard, Ahead, AheadOf
      <4>4. Written("host") = sent["client"]
        BY <1>0, <4>2, <4>3, AllWritten
      <4>5. UNCHANGED <<got, to, sent>> /\ ~Unanswered /\ ~Unanswered'
        BY <1>0, <4>2, CopyGoesOn DEF Read, ends
      <4> QED
        BY <1>0, <4>4, <4>5 DEF Through, Written
    <3> QED
      BY <3>1, <3>2
  <2> QED
    BY <2>4, <2>5, <2>6
<1> QED
  BY <1>1, <1>2

LEMMA HostLastStep ==
  ASSUME IInv, HostLast, Next
  PROVE  HostLast'
<1> USE DEF IInv
<1>0. "client" \in Ends /\ Peer("client") = "host" /\ "host" \in Ends /\ Peer("host") = "client"
  BY DEF Ends, Peer
<1>1. handler' = "dial" => "host" \notin shut'
  <2> SUFFICES ASSUME handler' = "dial" PROVE "host" \notin shut'
    OBVIOUS
  <2>1. handler = "dial"
    BY DEF Next, Step, Act, DialFails, DialSucceeds, Answer, Return, CloseClient, CloseUpstream,
       Read, Write, StopCopy, Send, HalfClose, FullClose, Receive, SeeEnd, Reset, proxy
  <2>2. ~Reached("host") /\ "host" \notin shut
    BY <2>1 DEF Ending, Unanswered, Reached, HostLast
  <2> QED
    BY <2>2, ShutStep
<1>2. ASSUME Only("host")'
      PROVE  /\ handler' = "copy" => uplink' = "copy" /\ "host" \in open'
             /\ handler' \in {"return", "close", "done"} => Through("host")'
  <2>1. CASE shut' # shut
    <3>1. UNCHANGED <<handler, uplink, open>> /\ shut = {} /\ Reached("host")
      BY <1>2, <2>1, ShutStep DEF Only, proxy
    <3> QED
      BY <3>1 DEF Types, Ending, Unanswered, Reached
  <2>2. CASE shut' = shut
    <3>1. Only("host") /\ gone' = {}
      BY <1>2, <2>2, ShutStep DEF Only
    <3>2. /\ handler = "copy" => uplink = "copy" /\ "host" \in open
          /\ handler \in {"return", "close", "done"} => Through("host")
          /\ handler # "dial"
      BY <3>1 DEF HostLast, Only
    <3>3. "host" \in shut /\ "client" \notin shut /\ gone = {}
      BY <3>1 DEF Only
    <3>4. handler' = "copy" => uplink' = "copy" /\ "host" \in open'
      BY <3>2, <3>3 DEF Next, Step, Act, DialFails, DialSucceeds, Answer, Return, CloseClient,
         CloseUpstream, Read, Write, Copying, StopCopy, Peer, Ends, Send, HalfClose, FullClose,
         Receive, SeeEnd, Reset, proxy, Ending, Unanswered
    <3>5. ASSUME handler' \in {"return", "close", "done"} PROVE Through("host")'
      <4>1. CASE handler \in {"return", "close", "done"}
        BY <1>0, <3>2, <3>3, <4>1, ThroughStep DEF Unanswered, Copying
      <4>2. CASE handler \notin {"return", "close", "done"}
        <5>1. handler = "copy" /\ (Read("host") \/ Write("host"))
          BY <3>2, <3>3, <3>5, <4>2 DEF Next, Step, Act, DialFails, DialSucceeds, Answer, Return,
             CloseClient, CloseUpstream, Read, Write, Copying, StopCopy, Ends, Send, HalfClose,
             FullClose, Receive, SeeEnd, Reset, proxy, Types
        <5>2. "client" \in open /\ "host" \in open
          BY <3>2, <5>1 DEF Ending
        <5>3. Read("host") /\ from["host"] = <<>> /\ hand["host"] = <<>>
          BY <1>0, <3>3, <3>5, <5>1, <5>2 DEF Read, Write, StopCopy, Ahead
        <5>4. Heard("host") /\ AheadOf("host") = <<>>
          BY <1>0, <3>3, <5>2 DEF Heard, AheadOf
        <5>5. Written("client") = sent["host"]
          BY <1>0, <5>3, <5>4, AllWritten
        <5>6. UNCHANGED <<got, to, sent>> /\ ~Unanswered /\ ~Unanswered'
          BY <1>0, <5>3, CopyGoesOn DEF Read, ends
        <5> QED
          BY <1>0, <5>5, <5>6 DEF Through, Written
      <4> QED
        BY <4>1, <4>2
    <3> QED
      BY <3>4, <3>5
  <2> QED
    BY <2>1, <2>2
<1> QED
  BY <1>1, <1>2 DEF HostLast

LEMMA LastingStep == IInv /\ IInv' /\ Lasting /\ [Next]_vars => Lasting'
<1>1. ASSUME IInv, IInv', Lasting, Next PROVE Lasting'
  BY <1>1, ClientLastStep, HostLastStep, BoundedStep DEF Lasting, IInv
<1>2. ASSUME Lasting, UNCHANGED vars PROVE Lasting'
  BY <1>2 DEF Lasting, ClientLast, HostLast, Only, Through, Bounded, Waiting, AheadOf, Written,
     Unanswered, vars
<1> QED
  BY <1>1, <1>2

\* What has been got, with nothing more to come, is all of it when it is as much.
LEMMA ReceivedAll ==
  ASSUME Types, NEW e \in Ends, Delivered(e), to[Peer(e)] = <<>>, ~(Peer(e) = "client" /\ Unanswered),
         Written(Peer(e)) = sent[e]
  PROVE  Received(Peer(e)) = Sent(e)
<1> DEFINE p == Peer(e)
           n == Len(got[p])
           o == Offset(p)
           s == sent[e]
           r == Received(p)
<1>1. got[p] \in Seq(Nat) /\ n \in Nat /\ s \in Nat /\ o \in Int
  BY WayTypes
<1>2. n - o = s
  <2>1. Len(<<>>) = 0 /\ n + Len(to[p]) - o = s
    BY DEF Written
  <2> HIDE DEF n, o, s
  <2>2. n + 0 - o = s
    BY <2>1
  <2> QED
    BY <1>1, <2>2
<1>3. r \in Seq(Nat) /\ Len(r) = s /\ \A i \in 1..s : r[i] = got[p][i + o]
  <2>1. CASE p = "client"
    <3>1. o = 1 /\ n = s + 1
      <4>1. o = 1
        BY <2>1 DEF Offset
      <4> HIDE DEF n, o, s
      <4> QED
        BY <1>1, <1>2, <4>1
    <3>2. got[p] # <<>>
      <4>1. Len(<<>>) = 0
        OBVIOUS
      <4> QED
        BY <1>1, <3>1, <4>1
    <3>3. r = Tail(got[p])
      BY <2>1, <3>2 DEF Received
    <3> QED
      BY <1>1, <3>1, <3>2, <3>3, TailOf
  <2>2. CASE p # "client"
    <3>1. r = got[p] /\ o = 0
      BY <2>2 DEF Received, Offset
    <3> QED
      BY <1>1, <1>2, <3>1
  <2> QED
    BY <2>1, <2>2
<1>4. \A i \in 1..s : got[p][i + o] = i
  <2>1. \A i \in 1..n : i > o => got[p][i] = i - o
    BY DEF Delivered
  <2>2. o \in {0, 1}
    BY DEF Offset
  <2> HIDE DEF n, o, s
  <2> QED
    BY <1>1, <1>2, <2>1, <2>2
<1>5. Sent(e) \in Seq(Nat) /\ Len(Sent(e)) = s /\ \A i \in 1..s : Sent(e)[i] = i
  BY SentOf
<1> HIDE DEF r, s
<1>6. r = Sent(e)
  BY <1>3, <1>4, <1>5, SeqEqual
<1> QED
  BY <1>6 DEF r

\* What waits for nobody has not been received.
LEMMA InVain ==
  ASSUME Types, Answered, NEW e \in Ends, Bounded(e), from[e] # <<>>
  PROVE  Received(Peer(e)) # Sent(e)
<1> DEFINE p == Peer(e)
           n == Len(got[p])
           m == Len(to[p])
           h == Len(hand[e])
           a == Len(AheadOf(e))
           f == Len(from[e])
           o == Offset(p)
           s == sent[e]
<1>1. n \in Nat /\ m \in Nat /\ h \in Nat /\ a \in Nat /\ f \in Nat /\ f # 0 /\ s \in Nat
  BY WayTypes, TailOf
<1>2. h + a + f <= s /\ Written(p) + (h + a + f) <= s
  BY DEF Bounded, Waiting
<1>3. Len(Received(p)) < s
  <2>1. CASE p = "client" /\ got[p] # <<>>
    <3>1. Len(Received(p)) = n - 1
      BY <2>1, WayTypes, TailOf DEF Received
    <3>2. Written(p) = n + m - 1
      BY <2>1 DEF Written, Offset, Answered
    <3> HIDE DEF n, m, h, a, f, s
    <3> QED
      BY <1>1, <1>2, <3>1, <3>2
  <2>2. CASE p # "client"
    <3>1. Received(p) = got[p] /\ Written(p) = n + m - 0
      BY <2>2 DEF Received, Written, Offset
    <3>2. Len(Received(p)) = n
      BY <3>1
    <3> HIDE DEF n, m, h, a, f, s
    <3> QED
      BY <1>1, <1>2, <3>1, <3>2
  <2>3. CASE got[p] = <<>>
    <3>1. Len(Received(p)) = 0
      BY <2>3 DEF Received
    <3> HIDE DEF n, m, h, a, f, s
    <3> QED
      BY <1>1, <1>2, <3>1
  <2> QED
    BY <2>1, <2>2, <2>3
<1>4. Len(Sent(e)) = s
  BY SentOf
<1> HIDE DEF s
<1>5. Len(Received(p)) # Len(Sent(e))
  BY <1>1, <1>3, <1>4, SMT DEF s
<1> QED
  BY <1>5

\* For any number of chunks and sockets of any size, and wherever the two copies
\* are: an end that closes its side when it has everything loses nothing of what
\* it said, although either copy may then close both sockets.
THEOREM LastWord == Spec => []LastWordArrives
<1>1. IInv /\ Lasting => LastWordArrives
  <2> SUFFICES ASSUME IInv, Lasting, NEW e \in Ends, shut = {e}, gone = {}, Peer(e) \in eof,
                      Received(e) = Sent(Peer(e))
               PROVE  Received(Peer(e)) = Sent(e)
    BY DEF LastWordArrives
  <2>0. "client" \in Ends /\ Peer("client") = "host" /\ "host" \in Ends /\ Peer("host") = "client"
    BY DEF Ends, Peer
  <2>1. to[Peer(e)] = <<>> /\ Peer(e) \notin open /\ Reached(Peer(e))
    BY DEF IInv, Ending
  <2>2. ~Unanswered /\ Through(e)
    <3>1. CASE e = "client"
      <4>1. uplink = "ended"
        BY <2>0, <2>1, <3>1 DEF Lasting, ClientLast, Only, Reached
      <4> QED
        BY <3>1, <4>1 DEF Lasting, ClientLast, Only, IInv, Ending
    <3>2. CASE e = "host"
      <4>1. handler = "done"
        BY <2>0, <2>1, <3>2 DEF IInv, Ending
      <4> QED
        BY <3>2, <4>1 DEF Lasting, HostLast, Only, Unanswered
    <3> QED
      BY <3>1, <3>2 DEF Ends
  <2>3. from[Peer(e)] = <<>>
    <3>1. Peer(e) \in Ends /\ Peer(Peer(e)) = e
      BY PeerOf
    <3> QED
      BY <3>1, InVain DEF IInv, Lasting
  <2>4. Written(Peer(e)) = sent[e]
    BY <2>2, <2>3 DEF Through
  <2> QED
    BY <2>1, <2>2, <2>4, ReceivedAll DEF IInv
<1>2. IInv /\ IInv' /\ Lasting /\ [Next]_vars => Lasting'
  BY LastingStep
<1> QED
  BY <1>1, <1>2, LastingInit, Invariance, PTL DEF Spec
===============================================================================
