---------------------------- MODULE StartupProofs ----------------------------
(***************************************************************************)
(* However many processes start in one directory, with whatever options,   *)
(* and whatever crashes, a saved configuration is not written over.        *)
(***************************************************************************)
EXTENDS Startup, TLAPS

\* The places of a process.
Places ==
  {"off", "failed", "listen", "ensure", "create", "write", "pair", "load", "serving"}

\* Whoever is about to write while there is a saved file looked before it was
\* saved, and the user came in between.
Raced ==
  file = "user" => \A p \in Processes : Creating(p) => p \in raced

\* The inductive invariant.
IInv == pc \in [Processes -> Places] /\ Raced

LEMMA IInvInit == Init => IInv
BY DEF Init, IInv, Places, Raced, Creating

\* The steps of a process leave a saved file as it is, or nobody new sets out to
\* create one while it is there.
LEMMA IInvStep == IInv /\ [Next]_vars => IInv'
<1> SUFFICES ASSUME IInv, [Next]_vars
             PROVE  IInv'
  OBVIOUS
<1> USE DEF IInv, Places, Raced, Creating
<1>1. ASSUME NEW p \in Processes, Start(p) PROVE IInv'
  BY <1>1 DEF Start, Goto, Fail
<1>2. ASSUME NEW p \in Processes, Listen(p) PROVE IInv'
  BY <1>2 DEF Listen, Goto, Fail
<1>3. ASSUME NEW p \in Processes, Ensure(p) PROVE IInv'
  BY <1>3 DEF Ensure, Goto, Fail, Refuse
<1>4. ASSUME NEW p \in Processes, Create(p) PROVE IInv'
  BY <1>4 DEF Create, Goto, Fail, Refuse
<1>5. ASSUME NEW p \in Processes, Write(p) PROVE IInv'
  BY <1>5 DEF Write, Goto, Fail, Refuse
<1>6. ASSUME NEW p \in Processes, LoadPair(p) PROVE IInv'
  BY <1>6 DEF LoadPair, Goto, Fail, Refuse
<1>7. ASSUME NEW p \in Processes, Load(p) PROVE IInv'
  BY <1>7 DEF Load, Goto, Fail, Refuse
<1>8. ASSUME NEW p \in Processes, Crash(p) PROVE IInv'
  BY <1>8 DEF Crash, Goto
<1>9. ASSUME NEW content \in {"user", "bad", "absent"}, Edit(content) PROVE IInv'
  BY <1>9 DEF Edit
<1>10. CASE UNCHANGED vars
  BY <1>10 DEF vars
<1> QED
  BY <1>1, <1>2, <1>3, <1>4, <1>5, <1>6, <1>7, <1>8, <1>9, <1>10 DEF Next, Step

-----------------------------------------------------------------------------
(* The theorem.                                                            *)

\* Of the steps of a process, only the end of a creation that began before the
\* file was there writes over what a user has saved.
LEMMA Spared ==
  IInv /\ [Next]_vars =>
    [file = "user" /\ file' # "user" =>
       edits' # edits \/ \E p \in raced : pc[p] \in {"create", "write"}]_vars
<1> SUFFICES ASSUME IInv, Next, file = "user", file' # "user", edits' = edits
             PROVE  \E p \in raced : pc[p] \in {"create", "write"}
  OBVIOUS
<1>1. PICK p \in Processes : Create(p) \/ Write(p)
  <2>1. ASSUME NEW content \in {"user", "bad", "absent"}, Edit(content) PROVE FALSE
    BY <2>1 DEF Edit
  <2>2. ASSUME NEW p \in Processes,
               \/ Start(p) \/ Listen(p) \/ Ensure(p) \/ LoadPair(p) \/ Load(p) \/ Crash(p)
        PROVE  FALSE
    BY <2>2 DEF Start, Listen, Ensure, LoadPair, Load, Crash
  <2> QED
    BY <2>1, <2>2 DEF Next, Step
<1>2. pc[p] \in {"create", "write"}
  BY <1>1 DEF Create, Write
<1>3. p \in raced
  BY <1>2 DEF IInv, Places, Raced, Creating
<1> QED
  BY <1>2, <1>3

\* For any number of processes, with any options and any number of crashes and
\* restarts: a file that a user saved stays until the next edit, but for a
\* process that had found no file before the save (config.go:173).
THEOREM UserFileSpared == Spec => KeepsUserFile
  BY IInvInit, IInvStep, Spared, PTL DEF Spec, KeepsUserFile
==============================================================================
