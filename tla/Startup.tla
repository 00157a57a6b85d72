-------------------------------- MODULE Startup --------------------------------
(***************************************************************************)
(* From main to serving (src/cmd/mrp/main.go, config.Ensure, ca.Load and   *)
(* the first load of the configuration).                                   *)
(*                                                                         *)
(* Processes may start, crash and start again in one directory, each with  *)
(* its options; the user saves and deletes the configuration meanwhile.    *)
(* os.WriteFile first makes the file empty and then writes it.  The file   *)
(* system may refuse any operation.                                        *)
(***************************************************************************)
EXTENDS Integers

CONSTANTS
  Processes,
  Options,    \* [valid, config, cert, key, port]: all are good; which are given
  MaxEdits,   \* bound: saves and deletions of the user
  MaxStarts   \* bound: starts of each process

ASSUME StartupAssumption ==
  /\ Options \subseteq
       [valid: BOOLEAN, config: BOOLEAN, cert: BOOLEAN, key: BOOLEAN, port: 1..65535]
  /\ MaxEdits \in Nat /\ MaxStarts \in Nat

Pairs == {"none", "one", "both", "notCA"}

VARIABLES
  pc,       \* where each process is; "off" also when it has crashed
  opts,     \* startupOptions
  mitm,     \* the processes that got an authority from ca.Load
  file,     \* the configuration: absent, empty, default, user, or bad
  pair,     \* what there is of the CA pair
  edits, starts,
  cut,      \* history: the file is what an interrupted creation left
  raced,    \* history: the processes that found no file before the last edit
  refused   \* history: those whose present start the file system refused something

vars == <<pc, opts, mitm, file, pair, edits, starts, cut, raced, refused>>

Init ==
  /\ pc = [p \in Processes |-> "off"]
  /\ opts \in [Processes -> Options]
  /\ mitm = {}
  /\ file \in {"absent", "user"}
  /\ pair \in Pairs
  /\ edits = 0 /\ starts = [p \in Processes |-> 0]
  /\ cut = FALSE /\ raced = {} /\ refused = {}

Goto(p, step) == pc' = [pc EXCEPT ![p] = step]
Fail(p) == Goto(p, "failed")
Refuse(p) == Fail(p) /\ refused' = refused \cup {p}
Listening(p) == pc[p] \notin {"off", "failed", "listen"}

-----------------------------------------------------------------------------
(* main: listen comes first, then buildProxy.                              *)

\* parseStartupOptions.
Start(p) ==
  /\ pc[p] \in {"off", "failed"} /\ starts[p] < MaxStarts
  /\ IF opts[p].valid THEN Goto(p, "listen") ELSE Fail(p)
  /\ starts' = [starts EXCEPT ![p] = @ + 1]
  /\ mitm' = mitm \ {p} /\ refused' = refused \ {p}
  /\ UNCHANGED <<opts, file, pair, edits, cut, raced>>

\* Seeded fault: the port is shared (SO_REUSEPORT).
ListenShared(p) ==
  /\ pc[p] = "listen"
  /\ Fail(p) \/ Goto(p, "ensure")
  /\ UNCHANGED <<opts, mitm, file, pair, edits, starts, cut, raced, refused>>

Listen(p) ==
  /\ pc[p] = "listen"
  /\ \/ Fail(p)                        \* whoever else has the port
     \/ /\ \A q \in Processes \ {p} : Listening(q) => opts[q].port # opts[p].port
        /\ Goto(p, "ensure")
  /\ UNCHANGED <<opts, mitm, file, pair, edits, starts, cut, raced, refused>>

\* Seeded fault: the file is created without a look whether there is one.
EnsureUnchecked(p) ==
  /\ pc[p] = "ensure"
  /\ \/ /\ Goto(p, IF opts[p].config THEN "pair" ELSE "create")
        /\ UNCHANGED refused
     \/ ~opts[p].config /\ Refuse(p)
  /\ raced' = raced \ {p}
  /\ UNCHANGED <<opts, mitm, file, pair, edits, starts, cut>>

\* A file named by --config is not even looked for (main.go:85).
Ensure(p) ==
  /\ pc[p] = "ensure"
  /\ \/ /\ Goto(p, IF opts[p].config \/ file # "absent" THEN "pair" ELSE "create")
        /\ UNCHANGED refused
     \/ ~opts[p].config /\ Refuse(p)     \* Stat fails otherwise
  /\ raced' = raced \ {p}
  /\ UNCHANGED <<opts, mitm, file, pair, edits, starts, cut>>

Create(p) ==
  /\ pc[p] = "create"
  /\ \/ /\ file' = "empty"
        /\ Goto(p, "write")
        /\ UNCHANGED refused
     \/ Refuse(p) /\ UNCHANGED file      \* it cannot be opened
  /\ UNCHANGED <<opts, mitm, pair, edits, starts, cut, raced>>

\* What a user has saved since is another file, or is written over in part.
Write(p) ==
  /\ pc[p] = "write"
  /\ \/ /\ file' \in CASE file \in {"empty", "default"} -> {"default"}
                       [] file = "absent" -> {"absent"}
                       [] OTHER -> {file, "bad"}
        /\ cut' = (cut /\ file' # "default")
        /\ Goto(p, "pair")
        /\ UNCHANGED refused
     \/ /\ Refuse(p)                      \* the disk is full
        /\ cut' = (cut \/ file = "empty")
        /\ UNCHANGED file
  /\ UNCHANGED <<opts, mitm, pair, edits, starts, raced>>

\* --cert and --key go together; ca.Load takes neither file for an answer only
\* when they were not given, and a file of which Stat fails for none.
LoadPair(p) ==
  /\ pc[p] = "pair"
  /\ \/ /\ opts[p].cert = opts[p].key /\ pair = "both"
        /\ Goto(p, "load")
        /\ mitm' = mitm \cup {p}
        /\ UNCHANGED refused
     \/ /\ ~opts[p].cert /\ ~opts[p].key
        /\ Goto(p, "load")
        /\ refused' = IF pair = "none" THEN refused ELSE refused \cup {p}
        /\ UNCHANGED mitm
     \/ /\ opts[p].cert # opts[p].key \/ pair \in {"one", "notCA"}
             \/ (opts[p].cert /\ pair = "none")
        /\ Fail(p)
        /\ UNCHANGED <<mitm, refused>>
     \/ /\ opts[p].cert = opts[p].key     \* Stat of one file, or a read fails
        /\ opts[p].cert \/ pair # "none"
        /\ Refuse(p)
        /\ UNCHANGED mitm
  /\ UNCHANGED <<opts, file, pair, edits, starts, cut, raced>>

\* proxy.New: the first reload must succeed.
Load(p) ==
  /\ pc[p] = "load"
  /\ \/ /\ IF file \in {"default", "user"} THEN Goto(p, "serving") ELSE Fail(p)
        /\ UNCHANGED refused
     \/ Refuse(p)                         \* the file cannot be read
  /\ UNCHANGED <<opts, mitm, file, pair, edits, starts, cut, raced>>

-----------------------------------------------------------------------------
Crash(p) ==
  /\ pc[p] \notin {"off", "failed"}
  /\ Goto(p, "off")
  /\ cut' = (cut \/ (pc[p] = "write" /\ file = "empty"))
  /\ UNCHANGED <<opts, mitm, file, pair, edits, starts, raced, refused>>

Edit(content) ==
  /\ edits < MaxEdits
  /\ file' = content
  /\ edits' = edits + 1
  /\ cut' = FALSE
  /\ raced' = {p \in Processes : pc[p] \in {"create", "write"}}
  /\ UNCHANGED <<pc, opts, mitm, pair, starts, refused>>

Step(p) ==
  \/ Listen(p) \/ Ensure(p) \/ Create(p) \/ Write(p) \/ LoadPair(p) \/ Load(p)

Next ==
  \/ \E p \in Processes : Start(p) \/ Step(p) \/ Crash(p)
  \/ \E content \in {"user", "bad", "absent"} : Edit(content)

\* A process that has been started runs.
Spec == Init /\ [][Next]_vars /\ \A p \in Processes : WF_vars(Step(p))

-----------------------------------------------------------------------------
(* Properties.                                                             *)

\* Starting changes no file that a user saved (config.go:171), whatever crashed
\* or failed before and however many processes start, but in the moment between
\* a look at the missing file and its creation.
KeepsUserFile ==
  [][file = "user" /\ file' # "user" =>
       edits' # edits \/ \E p \in raced : pc[p] \in {"create", "write"}]_vars

\* The options of p and the CA pair are ones to start with.
Usable(p) ==
  LET o == opts[p] IN
  /\ o.valid /\ o.cert = o.key
  /\ pair = "both" \/ (pair = "none" /\ ~o.cert)

Creating(p) == pc[p] \in {"create", "write"}

\* What may keep a process that got its port from serving: a refusal of the file
\* system; the trace of a creation that was interrupted (config.go:180) or, by a
\* process that listens on another port in the same directory, is not yet done;
\* a bad file; and a missing one where --config names it, which README.md:162 and
\* main.go:49 say is created, but main.go:85 does not create.
Hindered(p) ==
  \/ p \in refused
  \/ cut \/ \E q \in Processes : Creating(q) /\ opts[q].port # opts[p].port
  \/ file = "bad"
  \/ file = "absent" /\ opts[p].config

\* A process that got its port serves, creating the configuration if there is
\* none, unless it crashes, the user edits meanwhile, or one of these hinders it.
StartServes ==
  \A p \in Processes :
    pc[p] = "ensure" /\ Usable(p) /\ edits = MaxEdits
      ~> pc[p] \in {"serving", "off"} \/ Hindered(p)
===============================================================================
