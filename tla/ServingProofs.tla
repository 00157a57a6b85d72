---------------------------- MODULE ServingProofs ----------------------------
(***************************************************************************)
(* Connections and shutdown for any number of connections and any depth of *)
(* CONNECT within CONNECT: no goroutine closes a connection another one    *)
(* uses, none is left open that nobody would close, and a shutdown that    *)
(* says it is complete has served all it accepted.                         *)
(*                                                                         *)
(* A connection is a stack of levels.  The invariant says what an inner    *)
(* level tells of every level around it (Nested, Handed), that an open     *)
(* connection has one that holds it (Held), and that the WaitGroup counts  *)
(* what Serve has started and not seen end (Counted).                      *)
(***************************************************************************)
EXTENDS Serving, FiniteSetTheorems, TLAPS

\* A handler that uses its connection.
Busy == {"hijacked", "dial", "copy"}

\* The level l of c is where c is used.
UsedAt(c, l) == server[c][l] = "serving" \/ handler[c][l] \in Busy

\* A handler runs on a connection that its server has given away; a level within
\* another exists only once that one's server did and its handler dispatched it.
Nested ==
  \A c \in Conns :
    /\ \A l \in Levels : handler[c][l] # "none" => server[c][l] = "hijacked"
    /\ \A l, m \in Levels : l < m /\ server[c][m] # "none" =>
         server[c][l] = "hijacked" /\ handler[c][l] \in {"inner", "close", "done"}

\* While a level is used, the handlers around it wait for it or have gone.
Handed ==
  \A c \in Conns : \A l, m \in Levels :
    l < m /\ UsedAt(c, m) => handler[c][l] \in {"inner", "done"}

\* An open connection is in the hands of some level that will close it.
Held ==
  \A c \in open :
    \/ accepted = c
    \/ \E l \in Levels : UsedAt(c, l) \/ handler[c][l] = "close"

\* Between Accept and Add the connection is nobody's yet.
Pending ==
  /\ accept = "add" <=> accepted # NoConn
  /\ accepted # NoConn => server[accepted][1] = "none" /\ accepted \in open

\* The WaitGroup counts the connections whose first server runs.
Counted ==
  /\ IsFiniteSet(counted) /\ counter = Cardinality(counted)
  /\ \A c \in Conns : server[c][1] = "serving" => c \in counted
  /\ \A c \in counted : server[c][1] # "none"

\* The drain begins when Accept has returned for good, and ends with nobody left.
Draining ==
  /\ main \in {"drain", "complete", "forced"} => accept = "returned"
  /\ main = "complete" => counted = {}

\* The inductive invariant.
IInv ==
  /\ TypeOK /\ Nested /\ Handed /\ Held /\ Pending /\ Counted /\ Draining
  /\ NotClosedInUse

-----------------------------------------------------------------------------
(* What writing one level does.                                            *)

\* The types of server and handler.
ServerType == server \in [Conns -> [Levels -> {"none", "serving", "closed", "hijacked"}]]
HandlerType ==
  handler \in [Conns -> [Levels -> {"none", "hijacked", "dial", "copy", "inner", "close",
  "done"}]]

\* new is old with v at the level l of c.
Written(new, old, c, l, v) ==
  \A d \in Conns, k \in Levels : new[d][k] = IF d = c /\ k = l THEN v ELSE old[d][k]

\* Assigning to one level of server,
LEMMA WriteServer ==
  ASSUME ServerType, NEW c \in Conns, NEW l \in Levels,
         NEW s \in {"none", "serving", "closed", "hijacked"},
         server' = [server EXCEPT ![c][l] = s]
  PROVE  ServerType' /\ Written(server', server, c, l, s)
BY DEF ServerType, Written

\* and of handler.
LEMMA WriteHandler ==
  ASSUME HandlerType, NEW c \in Conns, NEW l \in Levels,
         NEW s \in {"none", "hijacked", "dial", "copy", "inner", "close", "done"},
         handler' = [handler EXCEPT ![c][l] = s]
  PROVE  HandlerType' /\ Written(handler', handler, c, l, s)
BY DEF HandlerType, Written

\* The first level is one, and what is within a level is a level.
LEMMA LevelsFrom1 ==
  /\ 1 \in Levels /\ Levels \subseteq Nat
  /\ \A l \in Levels : l < MaxDepth => l + 1 \in Levels
BY ServingAssumption DEF ServingAssumption, Levels

-----------------------------------------------------------------------------
(* What each step of a connection does, level by level.                    *)

\* What a step within a connection leaves alone.
Aside == UNCHANGED <<listening, accept, accepted, counter, counted, mainVars>>

\* The steps within a connection, as facts about each level.
Ends(c, l) ==
  /\ server[c][l] = "serving" /\ Written(server', server, c, l, "closed")
  /\ open' = open \ {c} /\ handler' = handler /\ Aside

Hijacks(c, l) ==
  /\ server[c][l] = "serving" /\ Written(server', server, c, l, "hijacked")
  /\ Written(handler', handler, c, l, "hijacked")
  /\ open' = open /\ Aside

GoesIn(c, l) ==
  /\ handler[c][l] = "hijacked" /\ Written(handler', handler, c, l, "inner")
  /\ l + 1 \in Levels /\ Written(server', server, c, l + 1, "serving")
  /\ open' = open /\ Aside

Proceeds(c, l) ==
  /\ handler[c][l] \in Busy
  /\ \E to \in {"dial", "copy", "close"} : Written(handler', handler, c, l, to)
  /\ server' = server /\ open' = open /\ Aside

ClosedWithin(c, l) ==
  /\ handler[c][l] = "inner" /\ l + 1 \in Levels /\ server[c][l + 1] = "closed"
  /\ Written(handler', handler, c, l, "close")
  /\ server' = server /\ open' = open /\ Aside

GoneWithin(c, l) ==
  /\ handler[c][l] = "inner" /\ l + 1 \in Levels /\ server[c][l + 1] = "hijacked"
  /\ Written(handler', handler, c, l, "done")
  /\ server' = server /\ open' = open /\ Aside

Closes(c, l) ==
  /\ handler[c][l] = "close" /\ Written(handler', handler, c, l, "done")
  /\ open' = open \ {c} /\ server' = server /\ Aside

\* Add, whatever connection was accepted.
Adds(c) ==
  /\ accept = "add" /\ accepted = c /\ Written(server', server, c, 1, "serving")
  /\ accept' = "accept" /\ accepted' = NoConn
  /\ counter' = counter + 1 /\ counted' = counted \cup {c}
  /\ UNCHANGED <<listening, handler, open, mainVars>>

\* The steps that leave the connections alone.
Elsewhere ==
  \/ UNCHANGED vars \/ AcceptFails \/ Wake \/ AcceptClosed \/ Main
  \/ \E sig \in Signals : Send(sig)

\* What a step within c comes to.
Within(c, l) ==
  \/ Ends(c, l) \/ Hijacks(c, l) \/ GoesIn(c, l) \/ Proceeds(c, l)
  \/ ClosedWithin(c, l) \/ GoneWithin(c, l) \/ Closes(c, l)

\* Every step is one of these, and keeps servers and handlers within their types.
LEMMA Steps ==
  ASSUME IInv, [Next]_vars
  PROVE  /\ \/ Elsewhere \/ (\E c \in Conns : Accept(c) \/ Done(c) \/ Adds(c))
            \/ \E c \in Conns, l \in Levels : Within(c, l)
         /\ ServerType' /\ HandlerType'
<1> DEFINE Some == \/ Elsewhere \/ (\E c \in Conns : Accept(c) \/ Done(c) \/ Adds(c))
                   \/ \E c \in Conns, l \in Levels : Within(c, l)
           Goal == Some /\ ServerType' /\ HandlerType'
<1>i. ServerType /\ HandlerType
  BY DEF IInv, TypeOK, ServerType, HandlerType
<1>s. ASSUME UNCHANGED <<server, handler>> PROVE ServerType' /\ HandlerType'
  BY <1>i, <1>s DEF ServerType, HandlerType
<1>1. CASE Elsewhere
  BY <1>1, <1>s DEF Elsewhere, vars, connVars, AcceptFails, Wake, AcceptClosed, Main, Send,
     TakeSignal, ReloadEnds, CloseListener, ServeDone, Drained, GraceElapsed, Interrupted, Exit
<1>2. ASSUME NEW c \in Conns, Accept(c) \/ Done(c) PROVE Goal
  BY <1>2, <1>s DEF Accept, Done
<1>3. CASE Add
  <2>1. accepted \in Conns
    BY <1>3 DEF IInv, TypeOK, Pending, Add
  <2>2. ServerType' /\ Written(server', server, accepted, 1, "serving")
    BY <1>i, <1>3, <2>1, WriteServer, LevelsFrom1 DEF Add
  <2>3. HandlerType'
    BY <1>i, <1>3 DEF Add, HandlerType
  <2>4. Adds(accepted)
    BY <1>3, <2>2 DEF Add, Adds
  <2> QED
    BY <2>1, <2>2, <2>3, <2>4
<1>4. ASSUME NEW c \in Conns, NEW l \in Levels, ServerCloses(c, l) PROVE Goal
  <2>1. ServerType' /\ Written(server', server, c, l, "closed")
    BY <1>i, <1>4, WriteServer DEF ServerCloses, SetServer
  <2>2. HandlerType' /\ Ends(c, l)
    BY <1>i, <1>4, <2>1 DEF ServerCloses, Ends, Aside, acceptVars, HandlerType
  <2> QED
    BY <2>1, <2>2 DEF Within
<1>5. ASSUME NEW c \in Conns, NEW l \in Levels, Hijack(c, l) PROVE Goal
  <2>1. ServerType' /\ Written(server', server, c, l, "hijacked")
    BY <1>i, <1>5, WriteServer DEF Hijack, SetServer
  <2>2. HandlerType' /\ Written(handler', handler, c, l, "hijacked")
    BY <1>i, <1>5, WriteHandler DEF Hijack, SetHandler
  <2>3. Hijacks(c, l)
    BY <1>5, <2>1, <2>2 DEF Hijack, Hijacks, Aside, acceptVars
  <2> QED
    BY <2>1, <2>2, <2>3 DEF Within
<1>6. ASSUME NEW c \in Conns, NEW l \in Levels, Dispatch(c, l), server' # server \/ SetHandler(c, l, "inner")
      PROVE Goal
  <2>1. /\ handler[c][l] = "hijacked" /\ SetHandler(c, l, "inner") /\ l < MaxDepth
        /\ SetServer(c, l + 1, "serving") /\ UNCHANGED <<acceptVars, counted, open, mainVars>>
    <3>1. ~ (SetHandler(c, l, "inner") /\ (SetHandler(c, l, "dial") \/ SetHandler(c, l, "close")))
      BY <1>i DEF SetHandler, HandlerType
    <3> QED
      BY <1>6, <3>1 DEF Dispatch
  <2>2. l + 1 \in Levels
    BY <2>1, LevelsFrom1
  <2>3. ServerType' /\ Written(server', server, c, l + 1, "serving")
    BY <1>i, <2>1, <2>2, WriteServer DEF SetServer
  <2>4. HandlerType' /\ Written(handler', handler, c, l, "inner")
    BY <1>i, <2>1, WriteHandler DEF SetHandler
  <2>5. GoesIn(c, l)
    BY <2>1, <2>2, <2>3, <2>4 DEF GoesIn, Aside, acceptVars
  <2> QED
    BY <2>3, <2>4, <2>5 DEF Within
<1>7. ASSUME NEW c \in Conns, NEW l \in Levels, NEW to \in {"dial", "copy", "close"},
             handler[c][l] \in Busy, SetHandler(c, l, to),
             UNCHANGED <<acceptVars, server, counted, open, mainVars>>
      PROVE Goal
  <2>1. HandlerType' /\ Written(handler', handler, c, l, to)
    BY <1>i, <1>7, WriteHandler DEF SetHandler
  <2>2. ServerType' /\ Proceeds(c, l)
    BY <1>i, <1>7, <2>1 DEF Proceeds, Aside, acceptVars, ServerType
  <2> QED
    BY <2>1, <2>2 DEF Within
<1>8. ASSUME NEW c \in Conns, NEW l \in Levels, Dispatch(c, l) \/ Tunnel(c, l) \/ CopyEnds(c, l)
      PROVE Goal
  BY <1>6, <1>7, <1>8 DEF Dispatch, Tunnel, CopyEnds, Busy
<1>9. ASSUME NEW c \in Conns, NEW l \in Levels, l < MaxDepth, InnerReturns(c, l) PROVE Goal
  <2>1. l + 1 \in Levels
    BY <1>9, LevelsFrom1
  <2>2. /\ SetHandler(c, l, "close") => HandlerType' /\ Written(handler', handler, c, l, "close")
        /\ SetHandler(c, l, "done") => HandlerType' /\ Written(handler', handler, c, l, "done")
    BY <1>i, WriteHandler DEF SetHandler
  <2>3. ServerType' /\ HandlerType' /\ (ClosedWithin(c, l) \/ GoneWithin(c, l))
    BY <1>i, <1>9, <2>1, <2>2 DEF InnerReturns, ClosedWithin, GoneWithin, Aside, acceptVars,
       ServerType
  <2> QED
    BY <2>3 DEF Within
<1>10. ASSUME NEW c \in Conns, NEW l \in Levels, CloseClient(c, l) PROVE Goal
  <2>1. HandlerType' /\ Written(handler', handler, c, l, "done")
    BY <1>i, <1>10, WriteHandler DEF CloseClient, SetHandler
  <2>2. ServerType' /\ Closes(c, l)
    BY <1>i, <1>10, <2>1 DEF CloseClient, Closes, Aside, acceptVars, ServerType
  <2> QED
    BY <2>1, <2>2 DEF Within
<1> QED
  BY <1>1, <1>2, <1>3, <1>4, <1>5, <1>8, <1>9, <1>10 DEF Next, Connection, Elsewhere

\* Connections are opened by Accept only.
LEMMA OpenConns ==
  ASSUME IInv, [Next]_vars
  PROVE  open' \subseteq Conns
<1>1. open \subseteq Conns
  BY DEF IInv, TypeOK
<1>2. CASE Elsewhere
  BY <1>1, <1>2 DEF Elsewhere, vars, acceptVars, connVars, AcceptFails, Wake, AcceptClosed,
     Main, Send, TakeSignal,
     ReloadEnds, CloseListener, ServeDone, Drained, GraceElapsed, Interrupted, Exit
<1>3. ASSUME NEW c \in Conns, Accept(c) \/ Done(c) \/ Adds(c) PROVE open' \subseteq Conns
  BY <1>1, <1>3 DEF Accept, Done, Adds
<1>4. ASSUME NEW c \in Conns, NEW l \in Levels, Within(c, l) PROVE open' \subseteq Conns
  BY <1>1, <1>4 DEF Within, Ends, Hijacks, GoesIn, Proceeds, ClosedWithin, GoneWithin, Closes
<1> QED
  BY <1>2, <1>3, <1>4, Steps

-----------------------------------------------------------------------------
(* The invariant.                                                          *)

\* The invariant holds at first.
LEMMA InvInit == Init => IInv
<1> SUFFICES ASSUME Init PROVE IInv
  OBVIOUS
<1>1. TypeOK
  BY ServingAssumption DEF ServingAssumption, Init, TypeOK
<1>2. /\ \A c \in Conns, l \in Levels : server[c][l] = "none" /\ handler[c][l] = "none"
      /\ 1 \in Levels
  BY LevelsFrom1 DEF Init
<1>3. Nested /\ Handed /\ Held /\ NotClosedInUse
  BY <1>2 DEF Init, Nested, Handed, Held, NotClosedInUse, Used, UsedAt, Busy
<1>4. Pending /\ Draining
  BY DEF Init, Pending, Draining
<1>5. Counted
  BY <1>2, FS_EmptySet DEF Init, Counted
<1> QED
  BY <1>1, <1>3, <1>4, <1>5 DEF IInv

\* Levels are entered from without and in order.
LEMMA NestedStep == IInv /\ [Next]_vars => Nested'
<1> SUFFICES ASSUME IInv, [Next]_vars, NEW e \in Conns, NEW k \in Levels
             PROVE  /\ handler'[e][k] # "none" => server'[e][k] = "hijacked"
                    /\ \A m \in Levels : k < m /\ server'[e][m] # "none" =>
                         server'[e][k] = "hijacked" /\ handler'[e][k] \in {"inner", "close",
                         "done"}
  BY DEF Nested
<1> DEFINE Goal == /\ handler'[e][k] # "none" => server'[e][k] = "hijacked"
                   /\ \A m \in Levels : k < m /\ server'[e][m] # "none" =>
                        server'[e][k] = "hijacked" /\ handler'[e][k] \in {"inner", "close",
                        "done"}
<1>i. Nested /\ Pending
  BY DEF IInv
<1>t. Levels \subseteq Nat /\ 1 \in Levels /\ \A l \in Levels : 1 <= l
  BY LevelsFrom1, ServingAssumption DEF Levels, ServingAssumption
<1> USE DEF Nested, Pending, Busy
<1>1. CASE Elsewhere
  BY <1>i, <1>1 DEF Elsewhere, vars, acceptVars, connVars, AcceptFails, Wake, AcceptClosed,
     Main, Send, TakeSignal,
     ReloadEnds, CloseListener, ServeDone, Drained, GraceElapsed, Interrupted, Exit
<1>2. ASSUME NEW c \in Conns, Accept(c) PROVE Goal
  BY <1>i, <1>t, <1>2 DEF Accept, Written
<1>3. ASSUME NEW c \in Conns, Done(c) PROVE Goal
  BY <1>i, <1>t, <1>3 DEF Done, Written
<1>4. ASSUME NEW c \in Conns, Adds(c) PROVE Goal
  BY <1>i, <1>t, <1>4 DEF Adds, Written
<1>5. ASSUME NEW c \in Conns, NEW l \in Levels, Ends(c, l) PROVE Goal
  BY <1>i, <1>t, <1>5 DEF Ends, Aside, Written
<1>6. ASSUME NEW c \in Conns, NEW l \in Levels, Hijacks(c, l) PROVE Goal
  BY <1>i, <1>t, <1>6 DEF Hijacks, Aside, Written
<1>7. ASSUME NEW c \in Conns, NEW l \in Levels, GoesIn(c, l) PROVE Goal
  BY <1>i, <1>t, <1>7 DEF GoesIn, Aside, Written
<1>8. ASSUME NEW c \in Conns, NEW l \in Levels, Proceeds(c, l) PROVE Goal
  BY <1>i, <1>t, <1>8 DEF Proceeds, Aside, Written
<1>9. ASSUME NEW c \in Conns, NEW l \in Levels, ClosedWithin(c, l) PROVE Goal
  BY <1>i, <1>t, <1>9 DEF ClosedWithin, Aside, Written
<1>10. ASSUME NEW c \in Conns, NEW l \in Levels, GoneWithin(c, l) PROVE Goal
  BY <1>i, <1>t, <1>10 DEF GoneWithin, Aside, Written
<1>11. ASSUME NEW c \in Conns, NEW l \in Levels, Closes(c, l) PROVE Goal
  BY <1>i, <1>t, <1>11 DEF Closes, Aside, Written
<1> QED
  BY Steps, <1>1, <1>2, <1>3, <1>4, <1>5, <1>6, <1>7, <1>8, <1>9, <1>10, <1>11 DEF Within

\* Whoever is around a level in use waits for it or has gone.
LEMMA HandedStep == IInv /\ [Next]_vars => Handed'
<1> SUFFICES ASSUME IInv, [Next]_vars, NEW e \in Conns, NEW k \in Levels, NEW m \in Levels,
                    k < m, UsedAt(e, m)'
             PROVE  handler'[e][k] \in {"inner", "done"}
  BY DEF Handed
<1> DEFINE Goal == handler'[e][k] \in {"inner", "done"}
<1>i. Nested /\ Handed /\ Pending
  BY DEF IInv
<1>t. Levels \subseteq Nat /\ 1 \in Levels /\ \A l \in Levels : 1 <= l
  BY LevelsFrom1, ServingAssumption DEF Levels, ServingAssumption
<1> USE DEF Nested, Handed, Pending, UsedAt, Busy
<1>1. CASE Elsewhere
  BY <1>i, <1>1 DEF Elsewhere, vars, acceptVars, connVars, AcceptFails, Wake, AcceptClosed,
     Main, Send, TakeSignal,
     ReloadEnds, CloseListener, ServeDone, Drained, GraceElapsed, Interrupted, Exit
<1>2. ASSUME NEW c \in Conns, Accept(c) PROVE Goal
  BY <1>i, <1>t, <1>2 DEF Accept, Written
<1>3. ASSUME NEW c \in Conns, Done(c) PROVE Goal
  BY <1>i, <1>t, <1>3 DEF Done, Written
<1>4. ASSUME NEW c \in Conns, Adds(c) PROVE Goal
  BY <1>i, <1>t, <1>4 DEF Adds, Written
<1>5. ASSUME NEW c \in Conns, NEW l \in Levels, Ends(c, l) PROVE Goal
  BY <1>i, <1>t, <1>5 DEF Ends, Aside, Written
<1>6. ASSUME NEW c \in Conns, NEW l \in Levels, Hijacks(c, l) PROVE Goal
  BY <1>i, <1>t, <1>6 DEF Hijacks, Aside, Written
<1>7. ASSUME NEW c \in Conns, NEW l \in Levels, GoesIn(c, l) PROVE Goal
  BY <1>i, <1>t, <1>7 DEF GoesIn, Aside, Written
<1>8. ASSUME NEW c \in Conns, NEW l \in Levels, Proceeds(c, l) PROVE Goal
  BY <1>i, <1>t, <1>8 DEF Proceeds, Aside, Written
<1>9. ASSUME NEW c \in Conns, NEW l \in Levels, ClosedWithin(c, l) PROVE Goal
  BY <1>i, <1>t, <1>9 DEF ClosedWithin, Aside, Written
<1>10. ASSUME NEW c \in Conns, NEW l \in Levels, GoneWithin(c, l) PROVE Goal
  BY <1>i, <1>t, <1>10 DEF GoneWithin, Aside, Written
<1>11. ASSUME NEW c \in Conns, NEW l \in Levels, Closes(c, l) PROVE Goal
  BY <1>i, <1>t, <1>11 DEF Closes, Aside, Written
<1> QED
  BY Steps, <1>1, <1>2, <1>3, <1>4, <1>5, <1>6, <1>7, <1>8, <1>9, <1>10, <1>11 DEF Within

\* An open connection is held by some level.
LEMMA HeldStep == IInv /\ [Next]_vars => Held'
<1> SUFFICES ASSUME IInv, [Next]_vars PROVE Held'
  OBVIOUS
<1>e. open' \subseteq Conns
  BY OpenConns
<1> SUFFICES ASSUME NEW e \in Conns, e \in open'
             PROVE  \/ accepted' = e
                    \/ \E k \in Levels : UsedAt(e, k)' \/ handler'[e][k] = "close"
  BY <1>e DEF Held
<1> DEFINE Goal == \/ accepted' = e
                   \/ \E k \in Levels : UsedAt(e, k)' \/ handler'[e][k] = "close"
<1>i. Held /\ Pending
  BY DEF IInv
<1>t. Levels \subseteq Nat /\ 1 \in Levels /\ \A l \in Levels : 1 <= l
  BY LevelsFrom1, ServingAssumption DEF Levels, ServingAssumption
<1>p. e \in open => \/ accepted = e
                     \/ \E k \in Levels : UsedAt(e, k) \/ handler[e][k] = "close"
  BY DEF IInv, Held
<1>n. \A c \in Conns, l \in Levels : handler[c][l] # "none" => server[c][l] = "hijacked"
  BY DEF IInv, Nested
<1> USE DEF Pending, UsedAt, Busy
<1>1. CASE Elsewhere
  BY <1>i, <1>1, <1>p DEF Elsewhere, vars, acceptVars, connVars, AcceptFails, Wake,
     AcceptClosed, Main, Send, TakeSignal,
     ReloadEnds, CloseListener, ServeDone, Drained, GraceElapsed, Interrupted, Exit
<1>2. ASSUME NEW c \in Conns, Accept(c) PROVE Goal
  <2>1. CASE e = c
    BY <1>2, <2>1 DEF Accept
  <2>2. CASE e # c
    <3>1. e \in open /\ accepted # e
      BY <1>i, <1>2, <2>2, ServingAssumption DEF Accept, ServingAssumption
    <3> QED
      BY <1>p, <1>2, <3>1 DEF Accept
  <2> QED
    BY <2>1, <2>2
<1>3. ASSUME NEW c \in Conns, Done(c) PROVE Goal
  BY <1>i, <1>t, <1>3, <1>p DEF Done, Written
<1>4. ASSUME NEW c \in Conns, Adds(c) PROVE Goal
  <2>1. CASE e = c
    <3>1. UsedAt(c, 1)'
      BY <1>t, <1>4 DEF Adds, Written
    <3> QED
      BY <1>t, <2>1, <3>1
  <2>2. CASE e # c
    <3>1. PICK k \in Levels : UsedAt(e, k) \/ handler[e][k] = "close"
      BY <1>p, <1>4, <2>2 DEF Adds
    <3>2. UsedAt(e, k)' \/ handler'[e][k] = "close"
      BY <1>4, <2>2, <3>1 DEF Adds, Written
    <3> QED
      BY <3>2
  <2> QED
    BY <2>1, <2>2
<1>5. ASSUME NEW c \in Conns, NEW l \in Levels, Ends(c, l) PROVE Goal
  <2>1. e \in open /\ e # c
    BY <1>5 DEF Ends
  <2>2. CASE accepted = e
    BY <1>5, <2>2 DEF Ends, Aside
  <2>3. ASSUME NEW k \in Levels, UsedAt(e, k) \/ handler[e][k] = "close" PROVE Goal
    <3>1. UsedAt(e, k)' \/ handler'[e][k] = "close"
      BY <1>5, <2>1, <2>3 DEF Ends, Written
    <3> QED
      BY <3>1
  <2> QED
    BY <1>p, <2>1, <2>2, <2>3
<1>6. ASSUME NEW c \in Conns, NEW l \in Levels, Hijacks(c, l) PROVE Goal
  <2>1. e \in open
    BY <1>6 DEF Hijacks
  <2>2. CASE accepted = e
    BY <1>6, <2>2 DEF Hijacks, Aside
  <2>3. ASSUME NEW k \in Levels, UsedAt(e, k) \/ handler[e][k] = "close", ~(e = c /\ k = l)
        PROVE  Goal
    <3>1. UsedAt(e, k)' \/ handler'[e][k] = "close"
      BY <1>6, <2>3 DEF Hijacks, Written
    <3> QED
      BY <3>1
  <2>4. CASE e = c
    <3>1. UsedAt(c, l)'
      BY <1>6 DEF Hijacks, Written
    <3> QED
      BY <1>6, <2>4, <3>1 DEF Hijacks
  <2> QED
    BY <1>p, <2>1, <2>2, <2>3, <2>4
<1>7. ASSUME NEW c \in Conns, NEW l \in Levels, GoesIn(c, l) PROVE Goal
  <2>1. e \in open
    BY <1>7 DEF GoesIn
  <2>2. CASE accepted = e
    BY <1>7, <2>2 DEF GoesIn, Aside
  <2>3. ASSUME NEW k \in Levels, UsedAt(e, k) \/ handler[e][k] = "close", ~(e = c /\ k = l)
        PROVE  Goal
    <3>1. UsedAt(e, k)' \/ handler'[e][k] = "close"
      BY <1>7, <2>3 DEF GoesIn, Written
    <3> QED
      BY <3>1
  <2>4. CASE e = c
    <3>1. UsedAt(c, l + 1)'
      BY <1>7 DEF GoesIn, Written
    <3> QED
      BY <1>7, <2>4, <3>1 DEF GoesIn
  <2> QED
    BY <1>p, <2>1, <2>2, <2>3, <2>4
<1>8. ASSUME NEW c \in Conns, NEW l \in Levels, Proceeds(c, l) PROVE Goal
  <2>1. e \in open
    BY <1>8 DEF Proceeds
  <2>2. CASE accepted = e
    BY <1>8, <2>2 DEF Proceeds, Aside
  <2>3. ASSUME NEW k \in Levels, UsedAt(e, k) \/ handler[e][k] = "close", ~(e = c /\ k = l)
        PROVE  Goal
    <3>1. UsedAt(e, k)' \/ handler'[e][k] = "close"
      BY <1>8, <2>3 DEF Proceeds, Written
    <3> QED
      BY <3>1
  <2>4. CASE e = c
    <3>1. UsedAt(c, l)' \/ handler'[c][l] = "close"
      BY <1>8 DEF Proceeds, Written
    <3> QED
      BY <1>8, <2>4, <3>1 DEF Proceeds
  <2> QED
    BY <1>p, <2>1, <2>2, <2>3, <2>4
<1>9. ASSUME NEW c \in Conns, NEW l \in Levels, ClosedWithin(c, l) PROVE Goal
  <2>1. e \in open
    BY <1>9 DEF ClosedWithin
  <2>2. CASE accepted = e
    BY <1>9, <2>2 DEF ClosedWithin, Aside
  <2>3. ASSUME NEW k \in Levels, UsedAt(e, k) \/ handler[e][k] = "close", ~(e = c /\ k = l)
        PROVE  Goal
    <3>1. UsedAt(e, k)' \/ handler'[e][k] = "close"
      BY <1>9, <2>3 DEF ClosedWithin, Written
    <3> QED
      BY <3>1
  <2>4. CASE e = c
    <3>1. UsedAt(c, l)' \/ handler'[c][l] = "close"
      BY <1>9 DEF ClosedWithin, Written
    <3> QED
      BY <1>9, <2>4, <3>1 DEF ClosedWithin
  <2> QED
    BY <1>p, <2>1, <2>2, <2>3, <2>4
<1>10. ASSUME NEW c \in Conns, NEW l \in Levels, GoneWithin(c, l) PROVE Goal
  <2>1. e \in open
    BY <1>10 DEF GoneWithin
  <2>2. CASE accepted = e
    BY <1>10, <2>2 DEF GoneWithin, Aside
  <2>3. ASSUME NEW k \in Levels, UsedAt(e, k) \/ handler[e][k] = "close" PROVE Goal
    <3>0. ~(e = c /\ k = l)
      BY <1>n, <1>10, <2>3 DEF GoneWithin
    <3>1. UsedAt(e, k)' \/ handler'[e][k] = "close"
      BY <1>10, <2>3, <3>0 DEF GoneWithin, Written
    <3> QED
      BY <3>1
  <2> QED
    BY <1>p, <2>1, <2>2, <2>3
<1>11. ASSUME NEW c \in Conns, NEW l \in Levels, Closes(c, l) PROVE Goal
  <2>1. e \in open /\ e # c
    BY <1>11 DEF Closes
  <2>2. CASE accepted = e
    BY <1>11, <2>2 DEF Closes, Aside
  <2>3. ASSUME NEW k \in Levels, UsedAt(e, k) \/ handler[e][k] = "close" PROVE Goal
    <3>1. UsedAt(e, k)' \/ handler'[e][k] = "close"
      BY <1>11, <2>1, <2>3 DEF Closes, Written
    <3> QED
      BY <3>1
  <2> QED
    BY <1>p, <2>1, <2>2, <2>3
<1> QED
  BY Steps, <1>1, <1>2, <1>3, <1>4, <1>5, <1>6, <1>7, <1>8, <1>9, <1>10, <1>11 DEF Within

\* Nobody touches a connection before Add.
LEMMA PendingStep == IInv /\ [Next]_vars => Pending'
<1> SUFFICES ASSUME IInv, [Next]_vars PROVE Pending'
  OBVIOUS
<1>i. Nested /\ Pending
  BY DEF IInv
<1>t. Levels \subseteq Nat /\ 1 \in Levels /\ \A l \in Levels : 1 <= l
  BY LevelsFrom1, ServingAssumption DEF Levels, ServingAssumption
<1>p. accepted # NoConn => accepted \in Conns
        /\ \A l \in Levels : server[accepted][l] = "none" /\ handler[accepted][l] = "none"
  <2>1. accepted # NoConn => accepted \in Conns
    BY DEF IInv, TypeOK
  <2>2. ASSUME accepted # NoConn, NEW l \in Levels
        PROVE  server[accepted][l] = "none" /\ handler[accepted][l] = "none"
    <3>1. accepted \in Conns /\ server[accepted][1] = "none"
      BY <1>i, <2>1, <2>2 DEF Pending
    <3>2. server[accepted][l] = "none"
      BY <1>i, <1>t, <3>1 DEF Nested
    <3> QED
      BY <1>i, <3>1, <3>2 DEF Nested
  <2> QED
    BY <2>1, <2>2
<1>c. NoConn \notin Conns
  BY ServingAssumption DEF ServingAssumption
<1> USE DEF Pending, Busy
<1>1. CASE Elsewhere
  BY <1>i, <1>1, <1>p, <1>c DEF Elsewhere, vars, acceptVars, connVars, AcceptFails, Wake,
     AcceptClosed, Main, Send, TakeSignal,
     ReloadEnds, CloseListener, ServeDone, Drained, GraceElapsed, Interrupted, Exit
<1>2. ASSUME NEW c \in Conns, Accept(c) PROVE Pending'
  BY <1>i, <1>t, <1>2, <1>p, <1>c DEF Accept, Written
<1>3. ASSUME NEW c \in Conns, Done(c) PROVE Pending'
  BY <1>i, <1>t, <1>3, <1>p, <1>c DEF Done, Written
<1>4. ASSUME NEW c \in Conns, Adds(c) PROVE Pending'
  BY <1>i, <1>t, <1>4, <1>p, <1>c DEF Adds, Written
<1>5. ASSUME NEW c \in Conns, NEW l \in Levels, Ends(c, l) PROVE Pending'
  BY <1>i, <1>t, <1>5, <1>p, <1>c DEF Ends, Aside, Written
<1>6. ASSUME NEW c \in Conns, NEW l \in Levels, Hijacks(c, l) PROVE Pending'
  BY <1>i, <1>t, <1>6, <1>p, <1>c DEF Hijacks, Aside, Written
<1>7. ASSUME NEW c \in Conns, NEW l \in Levels, GoesIn(c, l) PROVE Pending'
  BY <1>i, <1>t, <1>7, <1>p, <1>c DEF GoesIn, Aside, Written
<1>8. ASSUME NEW c \in Conns, NEW l \in Levels, Proceeds(c, l) PROVE Pending'
  BY <1>i, <1>t, <1>8, <1>p, <1>c DEF Proceeds, Aside, Written
<1>9. ASSUME NEW c \in Conns, NEW l \in Levels, ClosedWithin(c, l) PROVE Pending'
  BY <1>i, <1>t, <1>9, <1>p, <1>c DEF ClosedWithin, Aside, Written
<1>10. ASSUME NEW c \in Conns, NEW l \in Levels, GoneWithin(c, l) PROVE Pending'
  BY <1>i, <1>t, <1>10, <1>p, <1>c DEF GoneWithin, Aside, Written
<1>11. ASSUME NEW c \in Conns, NEW l \in Levels, Closes(c, l) PROVE Pending'
  BY <1>i, <1>t, <1>11, <1>p, <1>c DEF Closes, Aside, Written
<1> QED
  BY Steps, <1>1, <1>2, <1>3, <1>4, <1>5, <1>6, <1>7, <1>8, <1>9, <1>10, <1>11 DEF Within

\* A level in use keeps its connection open.
LEMMA UseStep == IInv /\ [Next]_vars => NotClosedInUse'
<1> SUFFICES ASSUME IInv, [Next]_vars PROVE NotClosedInUse'
  OBVIOUS
<1>i. Nested /\ Handed /\ Pending /\ NotClosedInUse
  BY DEF IInv
<1>t. Levels \subseteq Nat /\ 1 \in Levels /\ \A l \in Levels : 1 <= l
  BY LevelsFrom1, ServingAssumption DEF Levels, ServingAssumption
<1> USE DEF Nested, Handed, Pending, NotClosedInUse, Used, UsedAt, Busy
<1>1. CASE Elsewhere
  BY <1>i, <1>1 DEF Elsewhere, vars, acceptVars, connVars, AcceptFails, Wake, AcceptClosed,
     Main, Send, TakeSignal,
     ReloadEnds, CloseListener, ServeDone, Drained, GraceElapsed, Interrupted, Exit
<1>2. ASSUME NEW c \in Conns, Accept(c) PROVE NotClosedInUse'
  BY <1>i, <1>t, <1>2 DEF Accept, Written
<1>3. ASSUME NEW c \in Conns, Done(c) PROVE NotClosedInUse'
  BY <1>i, <1>t, <1>3 DEF Done, Written
<1>4. ASSUME NEW c \in Conns, Adds(c) PROVE NotClosedInUse'
  BY <1>i, <1>t, <1>4 DEF Adds, Written
<1>5. ASSUME NEW c \in Conns, NEW l \in Levels, Ends(c, l) PROVE NotClosedInUse'
  BY <1>i, <1>t, <1>5 DEF Ends, Aside, Written
<1>6. ASSUME NEW c \in Conns, NEW l \in Levels, Hijacks(c, l) PROVE NotClosedInUse'
  BY <1>i, <1>t, <1>6 DEF Hijacks, Aside, Written
<1>7. ASSUME NEW c \in Conns, NEW l \in Levels, GoesIn(c, l) PROVE NotClosedInUse'
  BY <1>i, <1>t, <1>7 DEF GoesIn, Aside, Written
<1>8. ASSUME NEW c \in Conns, NEW l \in Levels, Proceeds(c, l) PROVE NotClosedInUse'
  BY <1>i, <1>t, <1>8 DEF Proceeds, Aside, Written
<1>9. ASSUME NEW c \in Conns, NEW l \in Levels, ClosedWithin(c, l) PROVE NotClosedInUse'
  <2>1. ASSUME NEW e \in Conns, NEW k \in Levels, UsedAt(e, k)' PROVE UsedAt(e, k)
    BY <1>9, <2>1 DEF ClosedWithin, Written
  <2>2. open' = open
    BY <1>9 DEF ClosedWithin
  <2>3. ASSUME NEW e \in Conns, Used(e)' PROVE Used(e)
    <3>1. PICK k \in Levels : UsedAt(e, k)'
      BY <2>3
    <3>2. UsedAt(e, k)
      BY <2>1, <3>1
    <3> QED
      BY <3>2
  <2>4. \A e \in Conns : Used(e) => e \in open
    BY <1>i
  <2> HIDE DEF Used, UsedAt
  <2> QED
    BY <2>2, <2>3, <2>4
<1>10. ASSUME NEW c \in Conns, NEW l \in Levels, GoneWithin(c, l) PROVE NotClosedInUse'
  <2>1. ASSUME NEW e \in Conns, NEW k \in Levels, UsedAt(e, k)' PROVE UsedAt(e, k)
    BY <1>10, <2>1 DEF GoneWithin, Written
  <2>2. open' = open
    BY <1>10 DEF GoneWithin
  <2>3. ASSUME NEW e \in Conns, Used(e)' PROVE Used(e)
    <3>1. PICK k \in Levels : UsedAt(e, k)'
      BY <2>3
    <3>2. UsedAt(e, k)
      BY <2>1, <3>1
    <3> QED
      BY <3>2
  <2>4. \A e \in Conns : Used(e) => e \in open
    BY <1>i
  <2> HIDE DEF Used, UsedAt
  <2> QED
    BY <2>2, <2>3, <2>4
<1>11. ASSUME NEW c \in Conns, NEW l \in Levels, Closes(c, l) PROVE NotClosedInUse'
  BY <1>i, <1>t, <1>11 DEF Closes, Aside, Written
<1> QED
  BY Steps, <1>1, <1>2, <1>3, <1>4, <1>5, <1>6, <1>7, <1>8, <1>9, <1>10, <1>11 DEF Within

\* The WaitGroup counts whom Serve has started and not seen end.
LEMMA CountedStep == IInv /\ [Next]_vars => Counted'
<1> SUFFICES ASSUME IInv, [Next]_vars PROVE Counted'
  OBVIOUS
<1>i. Counted /\ Pending
  BY DEF IInv
<1>t. 1 \in Levels /\ Levels \subseteq Nat /\ \A l \in Levels : l + 1 # 1
  BY LevelsFrom1, ServingAssumption DEF Levels, ServingAssumption
<1>s. counted \subseteq Conns
  BY DEF IInv, TypeOK
<1>1. ASSUME UNCHANGED <<counter, counted>>, \A c \in Conns : server'[c][1] = "serving" => server[c][1] = "serving",
             \A c \in Conns : server[c][1] # "none" => server'[c][1] # "none"
      PROVE  Counted'
  BY <1>i, <1>s, <1>1 DEF Counted
<1>2. CASE Elsewhere
  BY <1>1, <1>2 DEF Elsewhere, vars, acceptVars, connVars, AcceptFails, Wake, AcceptClosed,
     Main, Send, TakeSignal,
     ReloadEnds, CloseListener, ServeDone, Drained, GraceElapsed, Interrupted, Exit
<1>3. ASSUME NEW c \in Conns, Accept(c) PROVE Counted'
  BY <1>1, <1>3 DEF Accept
<1>4. ASSUME NEW c \in Conns, Done(c) PROVE Counted'
  <2>1. /\ c \in counted /\ server[c][1] # "serving" /\ counter' = counter - 1
        /\ counted' = counted \ {c} /\ server' = server
    BY <1>4 DEF Done
  <2>2. IsFiniteSet(counted') /\ Cardinality(counted') = Cardinality(counted) - 1
    BY <1>i, <2>1, FS_RemoveElement DEF Counted
  <2> QED
    BY <1>i, <2>1, <2>2 DEF Counted
<1>5. ASSUME NEW c \in Conns, Adds(c) PROVE Counted'
  <2>1. /\ c \notin counted /\ counter' = counter + 1 /\ counted' = counted \cup {c}
        /\ \A d \in Conns : server'[d][1] = IF d = c THEN "serving" ELSE server[d][1]
    <3>1. accepted = c /\ accepted # NoConn
      BY <1>i, <1>5 DEF Adds, Pending
    <3>2. c \notin counted
      BY <1>i, <3>1 DEF Pending, Counted
    <3> QED
      BY <1>t, <1>5, <3>2 DEF Adds, Written
  <2>2. IsFiniteSet(counted') /\ Cardinality(counted') = Cardinality(counted) + 1
    BY <1>i, <2>1, FS_AddElement DEF Counted
  <2> QED
    BY <1>i, <1>s, <2>1, <2>2 DEF Counted
<1>6. ASSUME NEW c \in Conns, NEW l \in Levels, Within(c, l) PROVE Counted'
  <2>1. GoesIn(c, l) \/ Ends(c, l) \/ Hijacks(c, l) \/ server' = server
    BY <1>6 DEF Within, Proceeds, ClosedWithin, GoneWithin, Closes
  <2>2. UNCHANGED <<counter, counted>>
    BY <1>6 DEF Within, GoesIn, Ends, Hijacks, Proceeds, ClosedWithin, GoneWithin, Closes, Aside
  <2>3. \A d \in Conns : /\ server'[d][1] = "serving" => server[d][1] = "serving"
                         /\ server[d][1] # "none" => server'[d][1] # "none"
    BY <1>t, <2>1 DEF GoesIn, Ends, Hijacks, Written
  <2> QED
    BY <1>1, <2>2, <2>3
<1> QED
  BY <1>2, <1>3, <1>4, <1>5, <1>6, Steps

\* The drain is over when nobody is counted any more, and nothing comes after.
LEMMA DrainingStep == IInv /\ [Next]_vars => Draining'
<1> SUFFICES ASSUME IInv, [Next]_vars PROVE Draining'
  OBVIOUS
<1>i. Draining /\ Counted
  BY DEF IInv
<1>x. UNCHANGED vars \/ main \notin {"complete", "forced"}
  BY DEF Next, Exited
<1>1. ASSUME main' = main, accept = "returned" => accept' = "returned" PROVE Draining'
  <2>1. CASE UNCHANGED vars
    BY <1>i, <2>1 DEF Draining, vars, acceptVars, connVars, mainVars
  <2>2. CASE main \notin {"complete", "forced"}
    BY <1>i, <1>1, <2>2 DEF Draining
  <2> QED
    BY <1>x, <2>1, <2>2
<1>2. CASE Elsewhere
  <2>1. CASE UNCHANGED vars \/ AcceptFails \/ Wake \/ AcceptClosed \/ \E sig \in Signals : Send(sig)
    BY <1>1, <2>1 DEF vars, acceptVars, mainVars, AcceptFails, Wake, AcceptClosed, Send
  <2>2. CASE TakeSignal \/ ReloadEnds \/ CloseListener
    BY <1>i, <2>2 DEF TakeSignal, ReloadEnds, CloseListener, Draining
  <2>3. CASE ServeDone \/ GraceElapsed \/ Interrupted
    BY <1>i, <2>3 DEF ServeDone, GraceElapsed, Interrupted, Exit, acceptVars, Draining
  <2>4. CASE Drained
    <3>1. counted = {}
      BY <1>i, <2>4, FS_EmptySet DEF Drained, Counted
    <3> QED
      BY <1>i, <2>4, <3>1 DEF Drained, Exit, acceptVars, connVars, Draining
  <2> QED
    BY <1>2, <2>1, <2>2, <2>3, <2>4 DEF Elsewhere, Main
<1>3. ASSUME NEW c \in Conns, Accept(c) \/ Done(c) \/ Adds(c) PROVE Draining'
  BY <1>1, <1>3 DEF Accept, Done, Adds, mainVars
<1>4. ASSUME NEW c \in Conns, NEW l \in Levels, Within(c, l) PROVE Draining'
  <2>1. Aside
    BY <1>4 DEF Within, GoesIn, Ends, Hijacks, Proceeds, ClosedWithin, GoneWithin, Closes
  <2> QED
    BY <1>1, <2>1 DEF Aside, mainVars
<1> QED
  BY <1>2, <1>3, <1>4, Steps

\* The variables besides servers, handlers and the counter keep their types.
TypeRest ==
  /\ listening \in BOOLEAN
  /\ accept \in {"accept", "add", "backoff", "returned"}
  /\ accepted \in Conns \cup {NoConn}
  /\ counted \subseteq Conns
  /\ main \in {"wait", "reload", "close", "await", "drain", "complete", "forced"}
  /\ sigCh \in Signals \cup {NoSignal}
  /\ sent \in Nat
  /\ exitAsked \in BOOLEAN

\* Every variable keeps its type.
LEMMA TypeStep == IInv /\ [Next]_vars => TypeOK'
<1> SUFFICES ASSUME IInv, [Next]_vars PROVE TypeOK'
  OBVIOUS
<1>i. TypeRest
  BY DEF IInv, TypeOK, TypeRest
<1>1. counter' \in Nat
  BY CountedStep, FS_CardinalityType DEF Counted
<1>2. TypeRest'
  <2> USE DEF TypeRest
  <2>1. CASE Elsewhere
    <3>1. CASE UNCHANGED vars \/ AcceptFails \/ Wake \/ AcceptClosed
      BY <1>i, <3>1 DEF vars, acceptVars, connVars, mainVars, AcceptFails, Wake, AcceptClosed
    <3>2. ASSUME NEW sig \in Signals, Send(sig) PROVE TypeRest'
      BY <1>i, <3>2 DEF Send, acceptVars, connVars
    <3>3. CASE Main
      BY <1>i, <3>3 DEF Main, TakeSignal, ReloadEnds, CloseListener, ServeDone, Drained,
         GraceElapsed, Interrupted, Exit, acceptVars, connVars
    <3> QED
      BY <2>1, <3>1, <3>2, <3>3 DEF Elsewhere
  <2>2. ASSUME NEW c \in Conns, Accept(c) \/ Done(c) \/ Adds(c) PROVE TypeRest'
    BY <1>i, <2>2 DEF Accept, Done, Adds, mainVars
  <2>3. ASSUME NEW c \in Conns, NEW l \in Levels, Within(c, l) PROVE TypeRest'
    <3>1. Aside
      BY <2>3 DEF Within, GoesIn, Ends, Hijacks, Proceeds, ClosedWithin, GoneWithin, Closes
    <3> QED
      BY <1>i, <3>1 DEF Aside, mainVars
  <2> QED
    BY <2>1, <2>2, <2>3, Steps
<1> QED
  BY <1>1, <1>2, Steps, OpenConns DEF TypeOK, TypeRest, ServerType, HandlerType

\* Every step preserves the invariant,
LEMMA InvStep == IInv /\ [Next]_vars => IInv'
BY TypeStep, NestedStep, HandedStep, HeldStep, PendingStep, CountedStep, DrainingStep, UseStep
   DEF IInv

\* which therefore always holds.
LEMMA Invariance == Spec => []IInv
<1> QED
  BY InvInit, InvStep, PTL DEF Spec

-----------------------------------------------------------------------------
(* The theorems.                                                           *)

\* However connections, handlers and signals interleave, every variable keeps its
\* type; in particular Done never takes the WaitGroup below zero, which would panic.
THEOREM TypeCorrect == Spec => []TypeOK
<1>1. IInv => TypeOK
  BY DEF IInv
<1> QED
  BY <1>1, Invariance, PTL

\* At any depth of CONNECT within CONNECT, no goroutine closes a connection that
\* another one uses.
THEOREM NeverClosedInUse == Spec => []NotClosedInUse
<1>1. IInv => NotClosedInUse
  BY DEF IInv
<1> QED
  BY <1>1, Invariance, PTL

\* Every open connection has a goroutine that will close it.
THEOREM NothingLeaks == Spec => []NoLeak
<1>1. IInv => NoLeak
  BY DEF IInv, Held, NoLeak, Owned, Used, UsedAt, Busy
<1> QED
  BY <1>1, Invariance, PTL

\* A shutdown that reports it is complete has served what it had accepted.
THEOREM CompleteMeansServed == Spec => []DrainCoversServed
<1>1. IInv => DrainCoversServed
  BY DEF IInv, TypeOK, Draining, Pending, Counted, DrainCoversServed
<1> QED
  BY <1>1, Invariance, PTL
==============================================================================
