--------------------------- MODULE ProcessesProofs ---------------------------
(***************************************************************************)
(* Proofs about Processes, for any processes, commands, pacts and bounds.  *)
(*                                                                         *)
(* While every command has been given on a settled host, one thing at a    *)
(* time is under way: at most one process is alive, at most one command    *)
(* runs, and the process is the one that the command started or stops.     *)
(***************************************************************************)
EXTENDS Processes, TLAPS

---------------------------------------------------------------------------
(* The invariant.                                                          *)

Stages(op) ==
    CASE op = "none"  -> {"idle"}
      [] op = "start" -> {"spawn", "note", "wait", "verify", "bail", "unlink", "up"}
      [] op = "stop"  -> {"await", "unlink"}
      [] op = "init"  -> {"create", "leave"}

Ats == {"idle", "spawn", "note", "wait", "verify", "bail", "unlink", "up", "await", "create",
        "leave"}

Cmd == [op : {"none", "start", "stop", "init"}, at : Ats, of : Pids \cup Pacts \cup {None},
        cfg : Config]

\* Whose step it is: a command that has spawned or stops a process names it.
Names(c) ==
    \/ cmd[c].op = "start" /\ cmd[c].at # "spawn"
    \/ cmd[c].op = "stop" /\ cmd[c].at = "await"

CmdOK(c) ==
    /\ cmd[c].at \in Stages(cmd[c].op)
    /\ Names(c) => cmd[c].of \in Pids /\ proc[cmd[c].of] # "new"
    /\ cmd[c].op = "init" => cmd[c].of \in Pacts

States == {"new", "loading", "loaded", "minting", "binding", "bound", "serving", "closing",
           "closed", "flushed", "dead", "killed"}

\* What a process keeps at each point of its life.
Life(p) ==
    /\ key[p] # None <=> proc[p] \in {"binding"} \cup Answering \cup {"closed", "flushed"}
    /\ copy[p] # NoConfig => proc[p] = "minting"
    /\ held[p] # {} => Alive(p) /\ proc[p] \notin {"loading", "flushed"}

Types ==
    /\ pidFile \in Pids \cup {None} /\ registry \in Config /\ stranger \in BOOLEAN
    /\ proc \in [Pids -> States] /\ copy \in [Pids -> Config]
    /\ key \in [Pids -> Pids \cup {None}] /\ held \in [Pids -> SUBSET Pacts]
    /\ cmd \in [Cmds -> Cmd]
    /\ \A p \in Pids : Life(p)
    /\ \A c \in Cmds : CmdOK(c)

Counted ==
    commands \in 0 .. MaxCommands /\ crashes \in 0 .. MaxCrashes /\ raced \in BOOLEAN

\* Everything that is alive is p.
Only(p) == \A q \in Pids : Alive(q) => q = p

NoneAlive == \A q \in Pids : ~Alive(q)

OneAlive == \A p \in Pids : Alive(p) => Only(p)

OneBusy == \A c, d \in Cmds : ~Free(c) /\ ~Free(d) => c = d

Reachable ==
    \A p \in Pids :
        /\ proc[p] = "serving" => pidFile = p
        /\ proc[p] \in {"binding", "bound", "serving"} => registry.token = key[p]

Leaving(p) == proc[p] \in {"closing", "closed", "flushed"}

\* On its way out, or gone.
Ending(p) == Leaving(p) \/ proc[p] \in {"dead", "killed"}

\* How far the command is, and which process it leaves alive.
StageOK(c) ==
    /\ cmd[c].op = "start" =>
          /\ cmd[c].at = "spawn" => NoneAlive
          /\ cmd[c].at \in {"note", "wait", "verify", "bail", "unlink"} => Only(cmd[c].of)
          /\ cmd[c].at \in {"note", "wait"} => ~Leaving(cmd[c].of)
          /\ cmd[c].at = "verify" => stranger \/ proc[cmd[c].of] \in {"bound", "serving", "killed"}
          /\ cmd[c].at = "unlink" => Ending(cmd[c].of)
    /\ cmd[c].op = "stop" =>
          /\ cmd[c].at = "await" => Only(cmd[c].of) /\ Ending(cmd[c].of)
          /\ cmd[c].at = "unlink" => NoneAlive
    /\ cmd[c].op = "init" => NoneAlive

Quiet == OneAlive /\ OneBusy /\ Reachable /\ \A c \in Cmds : StageOK(c)

IInv == Types /\ Counted /\ (~raced => Quiet)

---------------------------------------------------------------------------
(* What a step does to one command, and to one process.                    *)

LEMMA NoConfigType == NoConfig \in Config /\ NoConfig.token = None /\ NoConfig.pacts = {}
  BY DEF NoConfig, Config

\* Command c becomes what the arguments say.
Moved(c, op, at, of, cfg) ==
    /\ cmd' \in [Cmds -> Cmd]
    /\ cmd'[c].op = op /\ cmd'[c].at = at /\ cmd'[c].of = of /\ cmd'[c].cfg = cfg
    /\ \A d \in Cmds \ {c} : cmd'[d] = cmd[d]

LEMMA MovedTo ==
    ASSUME Types, NEW c \in Cmds, NEW k \in Cmd, cmd' = [cmd EXCEPT ![c] = k]
    PROVE  Moved(c, k.op, k.at, k.of, k.cfg)
  BY DEF Types, Moved

LEMMA GotoMoves ==
    ASSUME Types, NEW c \in Cmds, NEW at \in Ats, Goto(c, at)
    PROVE  Moved(c, cmd[c].op, at, cmd[c].of, cmd[c].cfg)
<1> DEFINE k == [cmd[c] EXCEPT !.at = at]
<1>1. cmd[c] \in Cmd
  BY DEF Types
<1>2. k \in Cmd
  BY <1>1 DEF Cmd
<1>3. k.op = cmd[c].op /\ k.at = at /\ k.of = cmd[c].of /\ k.cfg = cmd[c].cfg
  BY <1>1 DEF Cmd
<1>4. cmd' = [cmd EXCEPT ![c] = k]
  BY DEF Goto
<1> HIDE DEF k
<1>5. QED
  BY <1>2, <1>3, <1>4, MovedTo

LEMMA EndMoves ==
    ASSUME Types, NEW c \in Cmds, End(c)
    PROVE  Moved(c, "none", "idle", None, NoConfig)
<1>1. Idle \in Cmd /\ Idle.op = "none" /\ Idle.at = "idle" /\ Idle.of = None /\ Idle.cfg = NoConfig
  BY NoConfigType DEF Idle, Cmd, Ats
<1>2. QED
  BY <1>1, MovedTo DEF End

LEMMA BeginMoves ==
    ASSUME Types, NEW c \in Cmds, NEW op \in {"none", "start", "stop", "init"}, NEW at \in Ats,
           NEW of \in Pids \cup Pacts \cup {None}, NEW cfg \in Config,
           Begin(c, op, at, of, cfg)
    PROVE  Moved(c, op, at, of, cfg)
<1> DEFINE k == [op |-> op, at |-> at, of |-> of, cfg |-> cfg]
<1>1. k \in Cmd
  BY DEF Cmd
<1>2. cmd' = [cmd EXCEPT ![c] = k]
  BY DEF Begin
<1>3. k.op = op /\ k.at = at /\ k.of = of /\ k.cfg = cfg
  OBVIOUS
<1> HIDE DEF k
<1>4. QED
  BY <1>1, <1>2, <1>3, MovedTo

\* Process p becomes what `at` says, the others stay as they are.
Turn(p, at) ==
    /\ proc' \in [Pids -> States] /\ copy' \in [Pids -> Config]
    /\ key' \in [Pids -> Pids \cup {None}] /\ held' \in [Pids -> SUBSET Pacts]
    /\ proc'[p] = at /\ Life(p)'
    /\ \A q \in Pids \ {p} :
          proc'[q] = proc[q] /\ copy'[q] = copy[q] /\ key'[q] = key[q] /\ held'[q] = held[q]

LEMMA GoneTurns ==
    ASSUME Types, NEW p \in Pids, NEW how \in {"dead", "killed"}, GoneAs(p, how)
    PROVE  Turn(p, how)
<1>1. /\ proc' \in [Pids -> States] /\ copy' \in [Pids -> Config]
      /\ key' \in [Pids -> Pids \cup {None}] /\ held' \in [Pids -> SUBSET Pacts]
      /\ proc'[p] = how /\ copy'[p] = NoConfig /\ key'[p] = None /\ held'[p] = {}
  BY NoConfigType DEF Types, GoneAs, States
<1>2. Life(p)'
  BY <1>1 DEF Life, Alive, Starting, Answering
<1>3. QED
  BY <1>1, <1>2 DEF Turn, GoneAs, Types

LEMMA BecomeTurns ==
    ASSUME Types, NEW p \in Pids, NEW at \in States, Become(p, at),
           (proc[p] \in {"binding"} \cup Answering \cup {"closed", "flushed"})
              <=> at \in {"binding"} \cup Answering \cup {"closed", "flushed"},
           proc[p] # "minting" /\ at # "minting",
           held[p] # {} => at \in (Starting \cup Answering \cup {"closed"}) \ {"loading"}
    PROVE  Turn(p, at) /\ UNCHANGED <<key, copy, held>>
<1>1. /\ proc' \in [Pids -> States] /\ proc'[p] = at /\ UNCHANGED <<copy, key, held>>
      /\ \A q \in Pids \ {p} : proc'[q] = proc[q]
  BY DEF Types, Become
<1>2. Life(p)
  BY DEF Types
<1>3. Life(p)'
  BY <1>1, <1>2 DEF Life, Alive, Starting, Answering
<1>4. QED
  BY <1>1, <1>3 DEF Turn, Types

\* SIGTERM kills what is starting, and closes what serves.
LEMMA TerminateTurns ==
    ASSUME Types, NEW p \in Pids, Terminate(p)
    PROVE  /\ \E at \in States : Turn(p, at)
           /\ proc'[p] = IF proc[p] \in Starting THEN "dead"
                         ELSE IF proc[p] = "serving" THEN "closing" ELSE proc[p]
           /\ \A q \in Pids \ {p} : proc'[q] = proc[q] /\ key'[q] = key[q]
<1>1. CASE proc[p] \in Starting /\ GoneAs(p, "dead")
  BY <1>1, GoneTurns DEF Turn, States
<1>2. CASE proc[p] = "serving" /\ Become(p, "closing")
  <2>1. Turn(p, "closing")
    BY <1>2, BecomeTurns DEF States, Answering, Starting
  <2>2. QED
    BY <1>2, <2>1 DEF Turn, States, Starting
<1>3. CASE proc[p] \notin Starting \cup {"serving"} /\ UNCHANGED procVars
  <2>1. Turn(p, proc[p])
    BY <1>3 DEF procVars, Turn, Types, Life, Alive
  <2>2. QED
    BY <1>3, <2>1 DEF Types, Turn
<1>4. QED
  BY <1>1, <1>2, <1>3 DEF Terminate

\* Types hold again after a step of one process and one command.
LEMMA TypesStep ==
    ASSUME Types, pidFile' \in Pids \cup {None}, registry' \in Config, stranger' = stranger,
           UNCHANGED procVars \/ \E p \in Pids, at \in States \ {"new"} : Turn(p, at),
           UNCHANGED cmd \/ \E c \in Cmds : CmdOK(c)' /\ \E op, at, of, cfg : Moved(c, op, at, of, cfg)
    PROVE  Types'
<1>1. /\ proc' \in [Pids -> States] /\ copy' \in [Pids -> Config]
      /\ key' \in [Pids -> Pids \cup {None}] /\ held' \in [Pids -> SUBSET Pacts]
      /\ \A q \in Pids : Life(q)' /\ (proc[q] # "new" => proc'[q] # "new")
  <2>1. CASE UNCHANGED procVars
    BY <2>1 DEF procVars, Types, Life, Alive
  <2>2. ASSUME NEW p \in Pids, NEW at \in States \ {"new"}, Turn(p, at) PROVE <1>1
    <3>1. ASSUME NEW q \in Pids \ {p} PROVE Life(q)' /\ (proc[q] # "new" => proc'[q] # "new")
      BY <2>2 DEF Types, Turn, Life, Alive
    <3>2. QED
      BY <2>2, <3>1 DEF Turn
  <2>3. QED
    BY <2>1, <2>2
<1>2. cmd' \in [Cmds -> Cmd] /\ \A c \in Cmds : CmdOK(c)'
  <2>1. ASSUME NEW d \in Cmds, cmd'[d] = cmd[d] PROVE CmdOK(d)'
    BY <1>1, <2>1 DEF Types, CmdOK, Names
  <2>2. QED
    BY <2>1 DEF Types, Moved
<1>3. QED
  BY <1>1, <1>2 DEF Types

---------------------------------------------------------------------------
(* One thing at a time.                                                    *)

\* A process that is one of those still on their way or serving is alive.
LEMMA ReachableIsAlive ==
    ASSUME NEW p \in Pids, proc[p] \in {"binding", "bound", "serving"} PROVE Alive(p)
  BY DEF Alive, Starting, Answering

\* A step of the process that is alive, under a command that stays where it is.
LEMMA ProcKeepsQuiet ==
    ASSUME Types, Quiet, NEW p \in Pids, Alive(p), NEW at \in States \ {"new"}, Turn(p, at),
           UNCHANGED <<cmd, stranger>>,
           Ending(p) => Ending(p)',
           \/ /\ proc[p] \in {"bound", "serving"} => at \in {"bound", "serving", "killed"}
              /\ Leaving(p)' => Leaving(p)
           \/ \A c \in Cmds : Free(c),
           at = "serving" => pidFile' = p,
           at \in {"binding", "bound", "serving"} => registry'.token = key'[p]
    PROVE  Quiet'
<1>1. \A q \in Pids \ {p} : ~Alive(q) /\ proc'[q] = proc[q] /\ ~Alive(q)'
  BY DEF Quiet, OneAlive, Only, Turn, Alive
<1>2. OneAlive'
  BY <1>1 DEF OneAlive, Only
<1>3. Reachable'
  <2>1. \A q \in Pids \ {p} : proc'[q] \notin {"binding", "bound", "serving"}
    BY <1>1, ReachableIsAlive
  <2>2. proc'[p] = at
    BY DEF Turn
  <2>3. QED
    BY <2>1, <2>2 DEF Reachable
<1>4. OneBusy'
  BY DEF Quiet, OneBusy, Free
<1>5. ASSUME NEW c \in Cmds PROVE StageOK(c)'
  <2>1. StageOK(c) /\ CmdOK(c) /\ cmd'[c] = cmd[c]
    BY DEF Quiet, Types
  <2>2. \A q \in Pids : Only(q) => q = p /\ Only(q)'
    BY <1>1 DEF Only
  <2>3. ~NoneAlive
    BY DEF NoneAlive
  <2>4. CASE cmd[c].op = "start" /\ ~Free(c)
    <3>1. cmd[c].at # "spawn" => cmd[c].of \in Pids
      BY <2>1, <2>4 DEF CmdOK, Names
    <3>2. cmd[c].at \in {"note", "wait", "verify", "bail", "unlink"} =>
             cmd[c].of = p /\ Only(cmd[c].of)'
      BY <2>1, <2>2, <2>4, <3>1 DEF StageOK
    <3>3. cmd[c].at = "verify" => stranger \/ at \in {"bound", "serving", "killed"}
      BY <2>1, <2>4, <3>2 DEF StageOK, Alive, Starting, Answering
    <3>4. cmd[c].at \in {"note", "wait"} => ~Leaving(p)'
      BY <2>1, <2>4, <3>2 DEF StageOK
    <3>5. cmd[c].at = "unlink" => Ending(p)'
      BY <2>1, <2>4, <3>2 DEF StageOK
    <3>6. proc'[p] = at
      BY DEF Turn
    <3>7. QED
      BY <2>1, <2>3, <2>4, <3>2, <3>3, <3>4, <3>5, <3>6 DEF StageOK
  <2>5. CASE cmd[c].op = "stop"
    <3>1. cmd[c].at = "await" => cmd[c].of \in Pids
      BY <2>1, <2>5 DEF CmdOK, Names
    <3>2. cmd[c].at = "await" => cmd[c].of = p /\ Only(cmd[c].of)'
      BY <2>1, <2>2, <2>5, <3>1 DEF StageOK
    <3>3. QED
      BY <2>1, <2>3, <2>5, <3>2 DEF StageOK
  <2>6. CASE Free(c) \/ cmd[c].op \notin {"start", "stop"}
    BY <2>1, <2>3, <2>6 DEF StageOK, CmdOK, Stages, Free
  <2>7. QED
    BY <2>4, <2>5, <2>6
<1>6. QED
  BY <1>2, <1>3, <1>4, <1>5 DEF Quiet

\* A step of the only command that is under way.
LEMMA OneCommand ==
    ASSUME Types', NEW c \in Cmds, \A d \in Cmds \ {c} : Free(d)',
           OneAlive', Reachable', StageOK(c)'
    PROVE  Quiet'
<1>1. OneBusy'
  BY DEF OneBusy
<1>2. ASSUME NEW d \in Cmds \ {c} PROVE StageOK(d)'
  <2>1. cmd'[d].at \in Stages(cmd'[d].op) /\ cmd'[d].at \in {"idle", "up"}
    BY DEF Types, CmdOK, Free
  <2>2. QED
    BY <2>1 DEF StageOK, Stages
<1>3. QED
  BY <1>1, <1>2 DEF Quiet

LEMMA CmdKeepsQuiet ==
    ASSUME Types', Quiet, NEW c \in Cmds, ~Free(c), NEW op, NEW at, NEW of, NEW cfg,
           Moved(c, op, at, of, cfg), UNCHANGED <<proc, key>>, Reachable', StageOK(c)'
    PROVE  Quiet'
<1>1. OneAlive'
  BY DEF Quiet, OneAlive, Only, Alive
<1>2. \A d \in Cmds \ {c} : Free(d)'
  BY DEF Quiet, OneBusy, Free, Moved
<1>3. QED
  BY <1>1, <1>2, OneCommand

\* On a settled host only the daemon that the PID file names is alive.
LEMMA SettledServes ==
    ASSUME Quiet, Settled, NEW p \in Pids, Alive(p)
    PROVE  proc[p] = "serving" /\ pidFile = p /\ LooksAlive
  BY ProcessesAssumption DEF Quiet, Settled, Reachable, Alive, Starting, Answering, LooksAlive

---------------------------------------------------------------------------
(* start                                                                   *)

\* Each step keeps the types, and what is said while nothing has raced.
Kept == Types' /\ (~raced' => Quiet')

LEMMA StartKeeps == ASSUME IInv, NEW c \in Cmds, Start(c) PROVE Kept
<1>1. /\ Types /\ ~LooksAlive /\ Begin(c, "start", "spawn", None, NoConfig)
      /\ UNCHANGED <<pidFile, registry, stranger, proc, copy, key, held>>
  BY DEF Start, files, procVars, IInv
<1>2. Moved(c, "start", "spawn", None, NoConfig)
  BY <1>1, BeginMoves, NoConfigType DEF Ats
<1>3. CmdOK(c)'
  BY <1>2 DEF Moved, CmdOK, Stages, Names
<1>4. Types'
  BY <1>1, <1>2, <1>3, TypesStep DEF Types, procVars
<1>5. ASSUME ~raced' PROVE Quiet'
  <2>1. Settled /\ Quiet
    BY <1>1, <1>5 DEF Begin, MayCommand, Commanded, IInv
  <2>2. NoneAlive /\ NoneAlive'
    BY <1>1, <2>1, SettledServes DEF NoneAlive, Alive
  <2>3. OneAlive' /\ Reachable'
    BY <2>2, ReachableIsAlive DEF NoneAlive, OneAlive, Reachable, Alive, Starting, Answering
  <2>4. StageOK(c)'
    BY <1>2, <2>2 DEF StageOK, Moved
  <2>5. \A d \in Cmds \ {c} : Free(d)'
    BY <1>2, <2>1 DEF Settled, Free, Moved
  <2>6. QED
    BY <1>4, <2>3, <2>4, <2>5, OneCommand
<1>6. QED
  BY <1>4, <1>5 DEF Kept

LEMMA SpawnKeeps == ASSUME IInv, NEW c \in Cmds, NEW p \in Pids, Spawn(c, p) PROVE Kept
<1> DEFINE k == [cmd[c] EXCEPT !.at = "note", !.of = p]
<1>1. /\ Types /\ cmd[c].op = "start" /\ cmd[c].at = "spawn" /\ proc[p] = "new"
      /\ Become(p, "loading") /\ cmd' = [cmd EXCEPT ![c] = k] /\ cmd[c] \in Cmd
      /\ UNCHANGED <<pidFile, registry, stranger, raced>>
  BY DEF Spawn, At, Fresh, files, counters, IInv, Types
<1>2. k \in Cmd /\ k.op = "start" /\ k.at = "note" /\ k.of = p /\ k.cfg = cmd[c].cfg
  <2>1. k \in Cmd
    BY <1>1 DEF Cmd, Ats
  <2>2. QED
    BY <1>1, <2>1 DEF Cmd
<1> HIDE DEF k
<1>3. Moved(c, "start", "note", p, cmd[c].cfg)
  BY <1>1, <1>2, MovedTo
<1>4. held[p] = {}
  BY <1>1 DEF Types, Life, Alive, Starting, Answering
<1>5. Turn(p, "loading") /\ UNCHANGED <<key, copy, held>>
  BY <1>1, <1>4, BecomeTurns DEF States, Starting, Answering
<1>6. CmdOK(c)'
  BY <1>3, <1>5 DEF Moved, CmdOK, Stages, Turn
<1>7. Types'
  <2>1. \E q \in Pids, at \in States \ {"new"} : Turn(q, at)
    BY <1>5 DEF States
  <2>2. QED
    BY <1>1, <1>3, <1>6, <2>1, TypesStep DEF Types
<1>8. ASSUME ~raced' PROVE Quiet'
  <2>1. Quiet
    BY <1>1, <1>8 DEF IInv
  <2>2. NoneAlive
    BY <1>1, <2>1 DEF Quiet, StageOK
  <2>3. \A q \in Pids \ {p} : proc'[q] = proc[q] /\ ~Alive(q)'
    BY <1>5, <2>2 DEF NoneAlive, Alive, Turn
  <2>4. proc'[p] = "loading"
    BY <1>5 DEF Turn
  <2>5. OneAlive' /\ Only(p)'
    BY <2>3 DEF OneAlive, Only
  <2>6. Reachable'
    BY <2>3, <2>4 DEF Reachable, Alive, Starting, Answering
  <2>7. StageOK(c)'
    BY <1>3, <2>4, <2>5 DEF StageOK, Moved, Leaving
  <2>8. \A d \in Cmds \ {c} : Free(d)'
    BY <1>1, <1>3, <2>1 DEF Quiet, OneBusy, Free, Moved
  <2>9. QED
    BY <1>7, <2>5, <2>6, <2>7, <2>8, OneCommand
<1>9. QED
  BY <1>7, <1>8 DEF Kept

LEMMA NoteKeeps == ASSUME IInv, NEW c \in Cmds, Note(c) PROVE Kept
<1>1. /\ Types /\ cmd[c].op = "start" /\ cmd[c].at = "note" /\ pidFile' = cmd[c].of
      /\ Goto(c, "wait") /\ UNCHANGED <<registry, stranger, proc, copy, key, held, raced>>
      /\ CmdOK(c)
  BY DEF Note, At, procVars, counters, IInv, Types
<1>2. Moved(c, "start", "wait", cmd[c].of, cmd[c].cfg)
  BY <1>1, GotoMoves DEF Ats
<1>3. cmd[c].of \in Pids /\ proc[cmd[c].of] # "new"
  BY <1>1 DEF CmdOK, Names
<1>4. CmdOK(c)'
  BY <1>1, <1>2, <1>3 DEF Moved, CmdOK, Stages
<1>5. Types'
  BY <1>1, <1>2, <1>3, <1>4, TypesStep DEF Types, procVars
<1>6. ASSUME ~raced' PROVE Quiet'
  <2>1. Quiet /\ Only(cmd[c].of)
    BY <1>1, <1>6 DEF IInv, Quiet, StageOK
  <2>2. Reachable'
    BY <1>1, <2>1, ReachableIsAlive DEF Quiet, Reachable, Only
  <2>3. StageOK(c)'
    BY <1>1, <1>2, <2>1 DEF StageOK, Quiet, Moved, Only, Alive, Leaving
  <2>4. QED
    BY <1>1, <1>2, <1>5, <2>1, <2>2, <2>3, CmdKeepsQuiet DEF Free
<1>7. QED
  BY <1>5, <1>6 DEF Kept

\* Ready, NotReady and Verify only look.
LEMMA LookKeeps ==
    ASSUME IInv, NEW c \in Cmds, NEW at \in {"up", "verify", "bail"}, Goto(c, at),
           cmd[c].op = "start", cmd[c].at \in {"wait", "verify"},
           at = "verify" => PortTaken /\ Alive(cmd[c].of) /\ cmd[c].at = "wait",
           UNCHANGED <<files, procVars, counters>>
    PROVE  Kept
<1>1. /\ Types /\ CmdOK(c)
      /\ UNCHANGED <<pidFile, registry, stranger, proc, copy, key, held, raced>>
  BY DEF procVars, files, counters, IInv, Types
<1>2. Moved(c, "start", at, cmd[c].of, cmd[c].cfg)
  BY <1>1, GotoMoves DEF Ats
<1>3. cmd[c].of \in Pids /\ proc[cmd[c].of] # "new"
  BY <1>1 DEF CmdOK, Names
<1>4. CmdOK(c)'
  BY <1>1, <1>2, <1>3 DEF Moved, CmdOK, Stages
<1>5. Types'
  BY <1>1, <1>2, <1>4, TypesStep DEF Types, procVars
<1>6. ASSUME ~raced' PROVE Quiet'
  <2>1. Quiet /\ Only(cmd[c].of)
    BY <1>1, <1>6 DEF IInv, Quiet, StageOK
  <2>2. Reachable'
    BY <1>1, <2>1 DEF Quiet, Reachable
  <2>3. at = "verify" => stranger \/ proc[cmd[c].of] \in {"bound", "serving", "killed"}
    <3> SUFFICES ASSUME at = "verify", ~stranger PROVE proc[cmd[c].of] \in {"bound", "serving", "killed"}
      OBVIOUS
    <3>1. PICK p \in Pids : proc[p] \in Answering
      BY DEF PortTaken
    <3>2. p = cmd[c].of
      BY <2>1, <3>1 DEF Only, Alive
    <3>3. ~Leaving(cmd[c].of)
      BY <2>1 DEF Quiet, StageOK
    <3>4. QED
      BY <3>1, <3>2, <3>3 DEF Answering, Leaving
  <2>4. StageOK(c)'
    BY <1>1, <1>2, <2>1, <2>3 DEF StageOK, Moved, Only, Alive
  <2>5. QED
    BY <1>1, <1>2, <1>5, <2>1, <2>2, <2>4, CmdKeepsQuiet DEF Free
<1>7. QED
  BY <1>5, <1>6 DEF Kept

LEMMA ReadyKeeps ==
    ASSUME IInv, NEW c \in Cmds, Ready(c) \/ NotReady(c) \/ Verify(c) PROVE Kept
<1>1. PICK at \in {"up", "verify", "bail"} :
         /\ Goto(c, at)
         /\ at = "verify" => PortTaken /\ Alive(cmd[c].of) /\ cmd[c].at = "wait"
  BY DEF Ready, NotReady, Verify, At
<1>2. /\ cmd[c].op = "start" /\ cmd[c].at \in {"wait", "verify"}
      /\ UNCHANGED <<files, procVars, counters>>
  BY DEF Ready, NotReady, Verify, At
<1>3. QED
  BY <1>1, <1>2, LookKeeps

LEMMA BailKeeps == ASSUME IInv, NEW c \in Cmds, Bail(c) PROVE Kept
<1>1. /\ Types /\ cmd[c].op = "start" /\ cmd[c].at = "bail" /\ CmdOK(c)
      /\ Terminate(cmd[c].of) /\ Goto(c, "unlink")
      /\ UNCHANGED <<pidFile, registry, stranger, raced>>
  BY DEF Bail, At, files, counters, IInv, Types
<1>2. PICK p \in Pids : p = cmd[c].of /\ proc[p] # "new"
  BY <1>1 DEF CmdOK, Names
<1>3. Moved(c, "start", "unlink", p, cmd[c].cfg)
  BY <1>1, <1>2, GotoMoves DEF Ats
<1>4. PICK at \in States : Turn(p, at)
  BY <1>1, <1>2, TerminateTurns
<1>5. /\ proc'[p] = IF proc[p] \in Starting THEN "dead"
                    ELSE IF proc[p] = "serving" THEN "closing" ELSE proc[p]
      /\ proc'[p] = at
  BY <1>1, <1>2, <1>4, TerminateTurns DEF Turn
<1>6. proc[p] \in States
  BY <1>1, <1>2 DEF Types
<1>7. Ending(p)' /\ at # "new"
  BY <1>2, <1>5, <1>6 DEF Ending, Leaving, States, Starting
<1>8. CmdOK(c)'
  BY <1>2, <1>3, <1>5, <1>7 DEF Moved, CmdOK, Stages
<1>9. Types'
  BY <1>1, <1>2, <1>3, <1>4, <1>7, <1>8, TypesStep DEF Types
<1>10. ASSUME ~raced' PROVE Quiet'
  <2>1. Quiet /\ Only(p)
    BY <1>1, <1>2, <1>10 DEF IInv, Quiet, StageOK
  <2>2. \A q \in Pids \ {p} : proc'[q] = proc[q] /\ ~Alive(q)'
    BY <1>4, <2>1 DEF Only, Alive, Turn
  <2>3. OneAlive' /\ Only(p)'
    BY <2>2 DEF OneAlive, Only
  <2>4. Reachable'
    BY <1>7, <2>2 DEF Reachable, Ending, Leaving, Alive, Starting, Answering
  <2>5. StageOK(c)'
    BY <1>3, <1>7, <2>3 DEF StageOK, Moved
  <2>6. \A d \in Cmds \ {c} : Free(d)'
    BY <1>1, <1>3, <2>1 DEF Quiet, OneBusy, Free, Moved
  <2>7. QED
    BY <1>9, <2>3, <2>4, <2>5, <2>6, OneCommand
<1>11. QED
  BY <1>9, <1>10 DEF Kept

LEMMA UnlinkKeeps == ASSUME IInv, NEW c \in Cmds, Unlink(c) PROVE Kept
<1>1. /\ Types /\ cmd[c].at = "unlink" /\ CmdOK(c) /\ pidFile' = None /\ End(c)
      /\ UNCHANGED <<registry, stranger, proc, copy, key, held, raced>>
  BY DEF Unlink, procVars, counters, IInv, Types
<1>2. Moved(c, "none", "idle", None, NoConfig)
  BY <1>1, EndMoves
<1>3. CmdOK(c)'
  BY <1>2 DEF Moved, CmdOK, Stages, Names
<1>4. Types'
  BY <1>1, <1>2, <1>3, TypesStep DEF Types, procVars
<1>5. ASSUME ~raced' PROVE Quiet'
  <2>1. Quiet /\ StageOK(c)
    BY <1>1, <1>5 DEF IInv, Quiet
  <2>2. \A q \in Pids : proc[q] # "serving"
    <3>1. CASE cmd[c].op = "start"
      BY <1>1, <2>1, <3>1 DEF StageOK, Only, Ending, Leaving, Alive, Answering
    <3>2. CASE cmd[c].op = "stop"
      BY <1>1, <2>1, <3>2 DEF StageOK, NoneAlive, Alive, Answering
    <3>3. cmd[c].op \in {"start", "stop"}
      BY <1>1 DEF CmdOK, Stages, Types, Cmd
    <3>4. QED
      BY <3>1, <3>2, <3>3
  <2>3. Reachable'
    BY <1>1, <2>1, <2>2 DEF Quiet, Reachable
  <2>4. StageOK(c)'
    BY <1>2 DEF StageOK, Moved
  <2>5. QED
    BY <1>1, <1>2, <1>4, <2>1, <2>3, <2>4, CmdKeepsQuiet DEF Free
<1>6. QED
  BY <1>4, <1>5 DEF Kept

\* A command that is over, and has not touched the files.
LEMMA EndKeeps ==
    ASSUME IInv, NEW c \in Cmds, ~Free(c), End(c),
           UNCHANGED <<files, procVars, raced>>
    PROVE  Kept
<1>1. /\ Types /\ UNCHANGED <<pidFile, registry, stranger, proc, copy, key, held>>
  BY DEF procVars, files, IInv
<1>2. Moved(c, "none", "idle", None, NoConfig)
  BY <1>1, EndMoves
<1>3. CmdOK(c)'
  BY <1>2 DEF Moved, CmdOK, Stages, Names
<1>4. Types'
  BY <1>1, <1>2, <1>3, TypesStep DEF Types
<1>5. ASSUME ~raced' PROVE Quiet'
  <2>1. Quiet
    BY <1>5 DEF IInv
  <2>2. Reachable' /\ StageOK(c)'
    BY <1>1, <1>2, <2>1 DEF Quiet, Reachable, StageOK, Moved
  <2>3. QED
    BY <1>1, <1>2, <1>4, <2>1, <2>2, CmdKeepsQuiet
<1>6. QED
  BY <1>4, <1>5 DEF Kept

LEMMA LeaveKeeps == ASSUME IInv, NEW c \in Cmds, Leave(c) \/ Abandon(c) PROVE Kept
<1>1. ~Free(c) /\ End(c) /\ UNCHANGED <<files, procVars, raced>>
  BY DEF Leave, Abandon, At, Free, counters
<1>2. QED
  BY <1>1, EndKeeps

---------------------------------------------------------------------------
(* stop                                                                    *)

LEMMA StopKeeps == ASSUME IInv, NEW c \in Cmds, Stop(c) PROVE Kept
<1>1. PICK p \in Pids :
         /\ p = pidFile /\ Types
         /\ UNCHANGED <<pidFile, registry, stranger>>
  BY DEF Stop, files, IInv, Types
<1>2. CASE LooksAlive /\ Begin(c, "stop", "await", pidFile, NoConfig) /\ Terminate(pidFile)
  <2>1. Moved(c, "stop", "await", p, NoConfig)
    BY <1>1, <1>2, BeginMoves, NoConfigType DEF Ats
  <2>2. proc[p] # "new" /\ proc[p] \in States
    BY <1>1, <1>2 DEF LooksAlive, Alive, Starting, Answering, Types
  <2>3. PICK at \in States : Turn(p, at)
    BY <1>1, <1>2, TerminateTurns
  <2>4. /\ proc'[p] = IF proc[p] \in Starting THEN "dead"
                      ELSE IF proc[p] = "serving" THEN "closing" ELSE proc[p]
        /\ proc'[p] = at
    BY <1>1, <1>2, <2>3, TerminateTurns DEF Turn
  <2>5. Ending(p)' /\ at # "new"
    BY <2>2, <2>4 DEF Ending, Leaving, States, Starting
  <2>6. CmdOK(c)'
    BY <1>1, <2>1, <2>4, <2>5 DEF Moved, CmdOK, Stages
  <2>7. Types'
    BY <1>1, <2>1, <2>3, <2>5, <2>6, TypesStep DEF Types
  <2>8. ASSUME ~raced' PROVE Quiet'
    <3>1. Settled /\ Quiet
      BY <1>2, <2>8 DEF Begin, MayCommand, Commanded, IInv
    <3>2. Only(p)
      BY <1>1, <3>1, SettledServes DEF Only
    <3>3. \A q \in Pids \ {p} : proc'[q] = proc[q] /\ ~Alive(q)'
      BY <2>3, <3>2 DEF Only, Alive, Turn
    <3>4. OneAlive' /\ Only(p)'
      BY <3>3 DEF OneAlive, Only
    <3>5. Reachable'
      BY <2>5, <3>3 DEF Reachable, Ending, Leaving, Alive, Starting, Answering
    <3>6. StageOK(c)'
      BY <2>1, <2>5, <3>4 DEF StageOK, Moved
    <3>7. \A d \in Cmds \ {c} : Free(d)'
      BY <2>1, <3>1 DEF Settled, Free, Moved
    <3>8. QED
      BY <2>7, <3>4, <3>5, <3>6, <3>7, OneCommand
  <2>9. QED
    BY <2>7, <2>8 DEF Kept
<1>3. CASE ~LooksAlive /\ Begin(c, "stop", "unlink", None, NoConfig) /\ UNCHANGED procVars
  <2>1. Moved(c, "stop", "unlink", None, NoConfig)
    BY <1>1, <1>3, BeginMoves, NoConfigType DEF Ats
  <2>2. CmdOK(c)'
    BY <2>1 DEF Moved, CmdOK, Stages, Names
  <2>3. Types'
    BY <1>1, <1>3, <2>1, <2>2, TypesStep DEF Types
  <2>4. ASSUME ~raced' PROVE Quiet'
    <3>1. Settled /\ Quiet
      BY <1>3, <2>4 DEF Begin, MayCommand, Commanded, IInv
    <3>2. NoneAlive /\ NoneAlive'
      BY <1>3, <3>1, SettledServes DEF NoneAlive, Alive, procVars
    <3>3. OneAlive' /\ Reachable'
      BY <3>2 DEF NoneAlive, OneAlive, Reachable, Alive, Starting, Answering
    <3>4. StageOK(c)'
      BY <2>1, <3>2 DEF StageOK, Moved
    <3>5. \A d \in Cmds \ {c} : Free(d)'
      BY <2>1, <3>1 DEF Settled, Free, Moved
    <3>6. QED
      BY <2>3, <3>3, <3>4, <3>5, OneCommand
  <2>5. QED
    BY <2>3, <2>4 DEF Kept
<1>4. QED
  BY <1>2, <1>3 DEF Stop

LEMMA StoppedKeeps == ASSUME IInv, NEW c \in Cmds, Stopped(c) PROVE Kept
<1> DEFINE p == cmd[c].of
<1>1. /\ Types /\ cmd[c].op = "stop" /\ cmd[c].at = "await" /\ CmdOK(c)
      /\ IF Alive(p) THEN GoneAs(p, "killed") ELSE UNCHANGED procVars
      /\ Goto(c, "unlink") /\ UNCHANGED <<pidFile, registry, stranger, raced>>
  BY DEF Stopped, At, files, counters, IInv, Types
<1>2. p \in Pids /\ proc[p] # "new"
  BY <1>1 DEF CmdOK, Names
<1>3. Moved(c, "stop", "unlink", p, cmd[c].cfg)
  BY <1>1, GotoMoves DEF Ats
<1>4. CmdOK(c)'
  BY <1>3 DEF Moved, CmdOK, Stages, Names
<1>5. Types' /\ (UNCHANGED procVars \/ Turn(p, "killed"))
  <2>1. CASE Alive(p)
    <3>1. Turn(p, "killed")
      BY <1>1, <1>2, <2>1, GoneTurns
    <3>2. \E q \in Pids, at \in States \ {"new"} : Turn(q, at)
      BY <1>2, <3>1 DEF States
    <3>3. QED
      BY <1>1, <1>3, <1>4, <3>1, <3>2, TypesStep DEF Types
  <2>2. CASE ~Alive(p)
    BY <1>1, <1>3, <1>4, <2>2, TypesStep DEF Types
  <2>3. QED
    BY <2>1, <2>2
<1>6. ASSUME ~raced' PROVE Quiet'
  <2>1. Quiet /\ Only(p)
    BY <1>1, <1>6 DEF IInv, Quiet, StageOK
  <2>2. NoneAlive'
    <3>1. CASE Alive(p)
      <4>1. Turn(p, "killed")
        BY <1>1, <1>2, <3>1, GoneTurns
      <4>2. QED
        BY <2>1, <4>1 DEF Only, NoneAlive, Turn, Alive, Starting, Answering
    <3>2. CASE ~Alive(p)
      BY <1>1, <2>1, <3>2 DEF Only, NoneAlive, Alive, procVars
    <3>3. QED
      BY <3>1, <3>2
  <2>3. OneAlive' /\ Reachable'
    BY <2>2 DEF NoneAlive, OneAlive, Reachable, Alive, Starting, Answering
  <2>4. StageOK(c)'
    BY <1>3, <2>2 DEF StageOK, Moved
  <2>5. \A d \in Cmds \ {c} : Free(d)'
    BY <1>1, <1>3, <2>1 DEF Quiet, OneBusy, Free, Moved
  <2>6. QED
    BY <1>5, <2>3, <2>4, <2>5, OneCommand
<1>7. QED
  BY <1>5, <1>6 DEF Kept

---------------------------------------------------------------------------
(* init                                                                    *)

LEMMA SealPactKeeps == ASSUME IInv, NEW c \in Cmds, NEW k \in Pacts, SealPact(c, k) PROVE Kept
<1>1. /\ Types /\ ~LooksAlive /\ Begin(c, "init", "create", k, registry) /\ registry \in Config
      /\ UNCHANGED <<pidFile, registry, stranger, proc, copy, key, held>>
  BY DEF SealPact, files, procVars, IInv, Types
<1>2. Moved(c, "init", "create", k, registry)
  BY <1>1, BeginMoves DEF Ats
<1>3. CmdOK(c)'
  BY <1>2 DEF Moved, CmdOK, Stages, Names
<1>4. Types'
  BY <1>1, <1>2, <1>3, TypesStep DEF Types, procVars
<1>5. ASSUME ~raced' PROVE Quiet'
  <2>1. Settled /\ Quiet
    BY <1>1, <1>5 DEF Begin, MayCommand, Commanded, IInv
  <2>2. NoneAlive /\ NoneAlive'
    BY <1>1, <2>1, SettledServes DEF NoneAlive, Alive
  <2>3. OneAlive' /\ Reachable'
    BY <2>2, ReachableIsAlive DEF NoneAlive, OneAlive, Reachable, Alive, Starting, Answering
  <2>4. StageOK(c)'
    BY <1>2, <2>2 DEF StageOK, Moved
  <2>5. \A d \in Cmds \ {c} : Free(d)'
    BY <1>2, <2>1 DEF Settled, Free, Moved
  <2>6. QED
    BY <1>4, <2>3, <2>4, <2>5, OneCommand
<1>6. QED
  BY <1>4, <1>5 DEF Kept

LEMMA RegisterKeeps == ASSUME IInv, NEW c \in Cmds, Register(c) PROVE Kept
<1> DEFINE k == [cmd[c] EXCEPT !.at = "leave", !.cfg = NoConfig]
           r == [cmd[c].cfg EXCEPT !.pacts = @ \cup {cmd[c].of}]
<1>1. /\ Types /\ cmd[c].op = "init" /\ cmd[c].at = "create" /\ CmdOK(c) /\ cmd[c] \in Cmd
      /\ registry' = r /\ cmd' = [cmd EXCEPT ![c] = k]
      /\ UNCHANGED <<pidFile, stranger, proc, copy, key, held, raced>>
  BY DEF Register, At, procVars, counters, IInv, Types
<1>2. k \in Cmd /\ k.op = "init" /\ k.at = "leave" /\ k.of = cmd[c].of /\ k.cfg = NoConfig
  <2>1. k \in Cmd
    BY <1>1, NoConfigType DEF Cmd, Ats
  <2>2. QED
    BY <1>1, <2>1 DEF Cmd
<1>3. r \in Config
  <2>1. cmd[c].of \in Pacts /\ cmd[c].cfg \in Config
    BY <1>1 DEF CmdOK, Cmd
  <2>2. QED
    BY <2>1 DEF Config
<1> HIDE DEF k, r
<1>4. Moved(c, "init", "leave", cmd[c].of, NoConfig)
  BY <1>1, <1>2, MovedTo
<1>5. CmdOK(c)'
  BY <1>1, <1>4 DEF Moved, CmdOK, Stages, Names
<1>6. Types'
  BY <1>1, <1>3, <1>4, <1>5, TypesStep DEF Types, procVars
<1>7. ASSUME ~raced' PROVE Quiet'
  <2>1. Quiet /\ NoneAlive
    BY <1>1, <1>7 DEF IInv, Quiet, StageOK
  <2>2. NoneAlive'
    BY <1>1, <2>1 DEF NoneAlive, Alive
  <2>3. Reachable' /\ StageOK(c)'
    BY <1>4, <2>2 DEF NoneAlive, Reachable, Alive, Starting, Answering, StageOK, Moved
  <2>4. QED
    BY <1>1, <1>4, <1>6, <2>1, <2>3, CmdKeepsQuiet DEF Free
<1>8. QED
  BY <1>6, <1>7 DEF Kept

---------------------------------------------------------------------------
(* The daemon process                                                      *)

\* A step of process p that leaves the commands where they are.
LEMMA ProcKeeps ==
    ASSUME IInv, NEW p \in Pids, Alive(p), NEW at \in States \ {"new"}, Turn(p, at),
           pidFile' \in Pids \cup {None}, registry' \in Config,
           UNCHANGED <<cmd, stranger, raced>>,
           Ending(p) => Ending(p)', Leaving(p)' => Leaving(p),
           proc[p] \in {"bound", "serving"} => at \in {"bound", "serving", "killed"},
           at = "serving" => pidFile' = p,
           at \in {"binding", "bound", "serving"} => registry'.token = key'[p]
    PROVE  Kept
<1>1. Types'
  BY TypesStep DEF IInv, Types
<1>2. ~raced' => Quiet'
  BY ProcKeepsQuiet DEF IInv
<1>3. QED
  BY <1>1, <1>2 DEF Kept

LEMMA ForegroundKeeps == ASSUME IInv, NEW p \in Pids, Foreground(p) PROVE Kept
<1>1. /\ Types /\ ~LooksAlive /\ proc[p] = "new" /\ MayCommand /\ Commanded
      /\ Become(p, "loading") /\ UNCHANGED <<pidFile, registry, stranger, cmd>>
  BY DEF Foreground, Fresh, files, IInv
<1>2. held[p] = {}
  BY <1>1 DEF Types, Life, Alive, Starting, Answering
<1>3. Turn(p, "loading") /\ UNCHANGED <<key, copy, held>>
  BY <1>1, <1>2, BecomeTurns DEF States, Starting, Answering
<1>4. Types'
  <2>1. \E q \in Pids, at \in States \ {"new"} : Turn(q, at)
    BY <1>3 DEF States
  <2>2. QED
    BY <1>1, <2>1, TypesStep DEF Types
<1>5. ASSUME ~raced' PROVE Quiet'
  <2>1. Settled /\ Quiet
    BY <1>1, <1>5 DEF MayCommand, Commanded, IInv
  <2>2. \A q \in Pids \ {p} : proc'[q] = proc[q] /\ ~Alive(q)'
    BY <1>1, <1>3, <2>1, SettledServes DEF Turn, Alive
  <2>3. proc'[p] = "loading"
    BY <1>3 DEF Turn
  <2>4. OneAlive'
    BY <2>2 DEF OneAlive, Only
  <2>5. Reachable'
    BY <2>2, <2>3 DEF Reachable, Alive, Starting, Answering
  <2>6. OneBusy' /\ \A c \in Cmds : Free(c)'
    BY <1>1, <2>1 DEF Settled, OneBusy, Free
  <2>7. ASSUME NEW c \in Cmds PROVE StageOK(c)'
    <3>1. cmd'[c].at \in Stages(cmd'[c].op) /\ cmd'[c].at \in {"idle", "up"}
      BY <1>4, <2>6 DEF Types, CmdOK, Free
    <3>2. QED
      BY <3>1 DEF StageOK, Stages
  <2>8. QED
    BY <2>4, <2>5, <2>6, <2>7 DEF Quiet
<1>6. QED
  BY <1>4, <1>5 DEF Kept

LEMMA LoadKeeps == ASSUME IInv, NEW p \in Pids, Load(p) PROVE Kept
<1>1. /\ Types /\ proc[p] = "loading" /\ Alive(p) /\ registry \in Config
      /\ UNCHANGED <<pidFile, registry, stranger, cmd, raced>>
  BY DEF Load, files, counters, IInv, Types, Alive, Starting
<1>2. PICK at \in {"dead", "loaded"} : Turn(p, at)
  <2>1. CASE GoneAs(p, "dead")
    BY <1>1, <2>1, GoneTurns
  <2>2. CASE /\ proc' = [proc EXCEPT ![p] = "loaded"]
             /\ held' = [held EXCEPT ![p] = registry.pacts] /\ UNCHANGED <<copy, key>>
    <3>1. registry.pacts \in SUBSET Pacts
      BY <1>1 DEF Config
    <3>2. Life(p)
      BY <1>1 DEF Types
    <3>3. /\ proc' \in [Pids -> States] /\ proc'[p] = "loaded"
          /\ held' \in [Pids -> SUBSET Pacts]
          /\ \A q \in Pids \ {p} : proc'[q] = proc[q] /\ held'[q] = held[q]
      BY <1>1, <2>2, <3>1 DEF Types, States
    <3>4. Life(p)'
      BY <1>1, <2>2, <3>2, <3>3 DEF Life, Alive, Starting, Answering
    <3>5. QED
      BY <1>1, <2>2, <3>3, <3>4 DEF Turn, Types
  <2>3. QED
    BY <2>1, <2>2 DEF Load
<1>3. proc'[p] = at
  BY <1>2 DEF Turn
<1>4. QED
  BY <1>1, <1>2, <1>3, ProcKeeps DEF Types, States, Ending, Leaving

LEMMA ReadTokenKeeps == ASSUME IInv, NEW p \in Pids, ReadToken(p) PROVE Kept
<1>1. /\ Types /\ proc[p] = "loaded" /\ Alive(p) /\ registry \in Config /\ Life(p)
      /\ UNCHANGED <<pidFile, registry, stranger, cmd, raced, held>>
  BY DEF ReadToken, files, counters, IInv, Types, Alive, Starting
<1>2. CASE /\ registry.token # None /\ key' = [key EXCEPT ![p] = registry.token]
           /\ proc' = [proc EXCEPT ![p] = "binding"] /\ UNCHANGED copy
  <2>1. registry.token \in Pids
    BY <1>1, <1>2 DEF Config
  <2>2. /\ proc' \in [Pids -> States] /\ proc'[p] = "binding" /\ key' \in [Pids -> Pids \cup {None}]
        /\ key'[p] = registry.token
        /\ \A q \in Pids \ {p} : proc'[q] = proc[q] /\ key'[q] = key[q]
    BY <1>1, <1>2, <2>1 DEF Types, States
  <2>3. Life(p)'
    BY <1>1, <1>2, <2>2 DEF Life, Alive, Starting, Answering
  <2>4. Turn(p, "binding")
    BY <1>1, <1>2, <2>2, <2>3 DEF Turn, Types
  <2>5. QED
    BY <1>1, <2>2, <2>4, ProcKeeps DEF Types, States, Ending, Leaving
<1>3. CASE /\ copy' = [copy EXCEPT ![p] = registry]
           /\ proc' = [proc EXCEPT ![p] = "minting"] /\ UNCHANGED key
  <2>1. /\ proc' \in [Pids -> States] /\ proc'[p] = "minting" /\ copy' \in [Pids -> Config]
        /\ \A q \in Pids \ {p} : proc'[q] = proc[q] /\ copy'[q] = copy[q]
    BY <1>1, <1>3 DEF Types, States
  <2>2. Life(p)'
    BY <1>1, <1>3, <2>1 DEF Life, Alive, Starting, Answering
  <2>3. Turn(p, "minting")
    BY <1>1, <1>3, <2>1, <2>2 DEF Turn, Types
  <2>4. QED
    BY <1>1, <2>1, <2>3, ProcKeeps DEF Types, States, Ending, Leaving
<1>4. QED
  BY <1>2, <1>3 DEF ReadToken

LEMMA SaveTokenKeeps == ASSUME IInv, NEW p \in Pids, SaveToken(p) PROVE Kept
<1> DEFINE r == [copy[p] EXCEPT !.token = p]
<1>1. /\ Types /\ proc[p] = "minting" /\ Alive(p) /\ copy[p] \in Config /\ Life(p)
      /\ registry' = r /\ key' = [key EXCEPT ![p] = p]
      /\ copy' = [copy EXCEPT ![p] = NoConfig] /\ proc' = [proc EXCEPT ![p] = "binding"]
      /\ UNCHANGED <<pidFile, stranger, cmd, raced, held>>
  BY DEF SaveToken, counters, IInv, Types, Alive, Starting
<1>2. r \in Config /\ r.token = p
  BY <1>1 DEF Config
<1> HIDE DEF r
<1>3. /\ proc' \in [Pids -> States] /\ proc'[p] = "binding" /\ key' \in [Pids -> Pids \cup {None}]
      /\ key'[p] = p /\ copy' \in [Pids -> Config] /\ copy'[p] = NoConfig
      /\ \A q \in Pids \ {p} : proc'[q] = proc[q] /\ key'[q] = key[q] /\ copy'[q] = copy[q]
  BY <1>1, NoConfigType DEF Types, States
<1>4. Life(p)'
  BY <1>1, <1>3, ProcessesAssumption DEF Life, Alive, Starting, Answering
<1>5. Turn(p, "binding")
  BY <1>1, <1>3, <1>4 DEF Turn, Types
<1>6. QED
  BY <1>1, <1>2, <1>3, <1>5, ProcKeeps DEF Types, States, Ending, Leaving

LEMMA BindKeeps == ASSUME IInv, NEW p \in Pids, Bind(p) PROVE Kept
<1>1. /\ Types /\ proc[p] = "binding" /\ Alive(p) /\ registry \in Config
      /\ UNCHANGED <<pidFile, registry, stranger, cmd, raced>>
  BY DEF Bind, files, counters, IInv, Types, Alive, Starting
<1>2. CASE GoneAs(p, "dead")
  <2>1. Turn(p, "dead") /\ proc'[p] = "dead"
    BY <1>1, <1>2, GoneTurns DEF Turn
  <2>2. QED
    BY <1>1, <2>1, ProcKeeps DEF Types, States, Ending, Leaving
<1>3. CASE Become(p, "bound")
  <2>1. Turn(p, "bound") /\ UNCHANGED key /\ proc'[p] = "bound"
    BY <1>1, <1>3, BecomeTurns DEF Starting, Answering, States, Turn
  <2>2. CASE raced
    BY <1>1, <2>1, <2>2, TypesStep DEF Kept, Types, States
  <2>3. CASE ~raced
    <3>1. registry.token = key[p]
      BY <1>1, <2>3 DEF IInv, Quiet, Reachable
    <3>2. QED
      BY <1>1, <2>1, <3>1, ProcKeeps DEF Types, States, Ending, Leaving
  <2>4. QED
    BY <2>2, <2>3 DEF IInv, Counted
<1>4. QED
  BY <1>2, <1>3 DEF Bind

LEMMA WritePidKeeps == ASSUME IInv, NEW p \in Pids, WritePid(p) PROVE Kept
<1>1. /\ Types /\ proc[p] = "bound" /\ Alive(p) /\ registry \in Config /\ pidFile' = p
      /\ Become(p, "serving") /\ UNCHANGED <<registry, stranger, cmd, raced>>
  BY DEF WritePid, counters, IInv, Types, Alive, Starting
<1>2. Turn(p, "serving") /\ UNCHANGED key /\ proc'[p] = "serving"
  BY <1>1, BecomeTurns DEF Starting, Answering, States, Turn
<1>3. CASE raced
  BY <1>1, <1>2, <1>3, TypesStep DEF Kept, Types, States
<1>4. CASE ~raced
  <2>1. registry.token = key[p]
    BY <1>1, <1>4 DEF IInv, Quiet, Reachable
  <2>2. QED
    BY <1>1, <1>2, <2>1, ProcKeeps DEF Types, States, Ending, Leaving
<1>5. QED
  BY <1>3, <1>4 DEF IInv, Counted

LEMMA InterruptKeeps == ASSUME IInv, NEW p \in Pids, Interrupt(p) PROVE Kept
<1>1. /\ Types /\ proc[p] = "serving" /\ Alive(p) /\ MayCommand /\ Commanded
      /\ Terminate(p) /\ UNCHANGED <<pidFile, registry, stranger, cmd>>
  BY DEF Interrupt, files, IInv, Alive, Answering
<1>2. Turn(p, "closing") /\ proc'[p] = "closing"
  BY <1>1, TerminateTurns DEF Turn, Starting
<1>3. Types'
  <2>1. \E q \in Pids, at \in States \ {"new"} : Turn(q, at)
    BY <1>2 DEF States
  <2>2. QED
    BY <1>1, <2>1, TypesStep DEF Types
<1>4. ASSUME ~raced' PROVE Quiet'
  <2>1. Quiet /\ \A c \in Cmds : Free(c)
    BY <1>1, <1>4 DEF MayCommand, Commanded, IInv, Settled
  <2>2. QED
    BY <1>1, <1>2, <2>1, ProcKeepsQuiet DEF States, Ending, Leaving
<1>5. QED
  BY <1>3, <1>4 DEF Kept

LEMMA CloseApiKeeps == ASSUME IInv, NEW p \in Pids, CloseApi(p) PROVE Kept
<1>1. /\ Types /\ proc[p] = "closing" /\ Alive(p) /\ registry \in Config
      /\ Become(p, "closed") /\ UNCHANGED <<pidFile, registry, stranger, cmd, raced>>
  BY DEF CloseApi, files, counters, IInv, Types, Alive, Answering
<1>2. Turn(p, "closed") /\ proc'[p] = "closed"
  BY <1>1, BecomeTurns DEF Starting, Answering, States, Turn
<1>3. QED
  BY <1>1, <1>2, ProcKeeps DEF Types, States, Ending, Leaving

LEMMA StopDaemonKeeps == ASSUME IInv, NEW p \in Pids, StopDaemon(p) PROVE Kept
<1>1. /\ Types /\ proc[p] = "closed" /\ Alive(p) /\ registry \in Config /\ Life(p)
      /\ proc' = [proc EXCEPT ![p] = "flushed"] /\ held' = [held EXCEPT ![p] = {}]
      /\ UNCHANGED <<pidFile, registry, stranger, cmd, raced, copy, key>>
  BY DEF StopDaemon, files, counters, IInv, Types, Alive
<1>2. /\ proc' \in [Pids -> States] /\ proc'[p] = "flushed" /\ held' \in [Pids -> SUBSET Pacts]
      /\ held'[p] = {}
      /\ \A q \in Pids \ {p} : proc'[q] = proc[q] /\ held'[q] = held[q]
  BY <1>1 DEF Types, States
<1>3. Life(p)'
  BY <1>1, <1>2 DEF Life, Alive, Starting, Answering
<1>4. Turn(p, "flushed")
  BY <1>1, <1>2, <1>3 DEF Turn, Types
<1>5. QED
  BY <1>1, <1>2, <1>4, ProcKeeps DEF Types, States, Ending, Leaving

LEMMA ExitKeeps ==
    ASSUME IInv, NEW p \in Pids, Exit(p) \/ Kill(p)
    PROVE  Kept
<1>1. /\ Types /\ Alive(p) /\ registry \in Config /\ pidFile' \in Pids \cup {None}
      /\ UNCHANGED <<registry, stranger, cmd, raced>>
  BY DEF Exit, Kill, files, counters, IInv, Types, Alive
<1>2. PICK how \in {"dead", "killed"} :
         /\ GoneAs(p, how)
         /\ proc[p] \in {"bound", "serving"} => how = "killed"
  BY DEF Exit, Kill
<1>3. Turn(p, how) /\ proc'[p] = how
  BY <1>1, <1>2, GoneTurns DEF Turn
<1>4. QED
  BY <1>1, <1>2, <1>3, ProcKeeps DEF States, Ending, Leaving

---------------------------------------------------------------------------
(* The invariant.                                                          *)

LEMMA InitImpliesIInv == Init => IInv
<1> SUFFICES ASSUME Init PROVE IInv
  OBVIOUS
<1>1. Idle \in Cmd /\ Idle.op = "none" /\ Idle.at = "idle"
  BY NoConfigType DEF Idle, Cmd, Ats
<1>2. /\ proc \in [Pids -> States] /\ copy \in [Pids -> Config]
      /\ key \in [Pids -> Pids \cup {None}] /\ held \in [Pids -> SUBSET Pacts]
      /\ cmd \in [Cmds -> Cmd] /\ registry \in Config /\ pidFile = None /\ stranger \in BOOLEAN
      /\ \A p \in Pids : proc[p] = "new" /\ copy[p] = NoConfig /\ key[p] = None /\ held[p] = {}
      /\ \A c \in Cmds : cmd[c] = Idle
  BY <1>1, NoConfigType DEF Init, States
<1>3. \A p \in Pids : Life(p) /\ ~Alive(p)
  BY <1>2 DEF Life, Alive, Starting, Answering
<1>4. \A c \in Cmds : CmdOK(c) /\ Free(c) /\ StageOK(c)
  BY <1>1, <1>2 DEF CmdOK, Stages, Names, Free, StageOK
<1>5. Types
  BY <1>2, <1>3, <1>4 DEF Types
<1>6. Quiet
  BY <1>2, <1>3, <1>4 DEF Quiet, OneAlive, OneBusy, Reachable
<1>7. Counted
  <2>1. 0 \in 0 .. MaxCommands /\ 0 \in 0 .. MaxCrashes
    BY ProcessesAssumption
  <2>2. QED
    BY <2>1 DEF Init, Counted
<1>8. QED
  BY <1>5, <1>6, <1>7 DEF IInv

\* The steps of a command, and those of a process.
CommandStep(c) ==
    \/ Start(c) \/ (\E p \in Pids : Spawn(c, p)) \/ Note(c) \/ Ready(c) \/ NotReady(c)
    \/ Verify(c) \/ Bail(c) \/ Unlink(c) \/ Stop(c) \/ Stopped(c)
    \/ (\E k \in Pacts : SealPact(c, k)) \/ Register(c) \/ Leave(c) \/ Abandon(c)

ProcessStep(p) ==
    \/ Foreground(p) \/ Load(p) \/ ReadToken(p) \/ SaveToken(p) \/ Bind(p)
    \/ WritePid(p) \/ Interrupt(p) \/ CloseApi(p) \/ StopDaemon(p) \/ Exit(p) \/ Kill(p)

LEMMA NextIsOf == Next <=> (\E c \in Cmds : CommandStep(c)) \/ \E p \in Pids : ProcessStep(p)
  BY DEF Next, CommandStep, ProcessStep

LEMMA CountsKept == ASSUME Counted, [Next]_vars PROVE Counted'
<1> DEFINE Given == MayCommand /\ Commanded /\ UNCHANGED crashes
           Lost == crashes < MaxCrashes /\ crashes' = crashes + 1 /\ UNCHANGED <<commands, raced>>
<1>1. Given \/ Lost \/ UNCHANGED counters
  <2>1. ASSUME NEW c \in Cmds, CommandStep(c)
        PROVE  Given \/ Lost \/ UNCHANGED counters
    BY <2>1 DEF CommandStep, Start, Spawn, Note, Ready, NotReady, Verify, Bail, Unlink, Stop, Stopped, SealPact,
                Register, Leave, Abandon, Begin
  <2>2. ASSUME NEW p \in Pids, ProcessStep(p)
        PROVE  Given \/ Lost \/ UNCHANGED counters
    BY <2>2 DEF ProcessStep, Foreground, Load, ReadToken, SaveToken, Bind, WritePid, Interrupt, CloseApi,
                StopDaemon, Exit, Kill
  <2>3. UNCHANGED vars => UNCHANGED counters
    BY DEF vars
  <2>4. QED
    BY <2>1, <2>2, <2>3, NextIsOf
<1>2. CASE Given
  <2>1. /\ commands \in 0 .. MaxCommands /\ commands < MaxCommands /\ commands' = commands + 1
        /\ MaxCommands \in Nat
    BY <1>2, ProcessesAssumption DEF MayCommand, Commanded, Counted
  <2>2. commands' \in 0 .. MaxCommands
    BY <2>1
  <2>3. raced' \in BOOLEAN
    BY <1>2 DEF Commanded
  <2>4. QED
    BY <1>2, <2>2, <2>3 DEF Counted
<1>3. CASE Lost
  <2>1. /\ crashes \in 0 .. MaxCrashes /\ crashes < MaxCrashes /\ crashes' = crashes + 1
        /\ MaxCrashes \in Nat
    BY <1>3, ProcessesAssumption DEF Counted
  <2>2. crashes' \in 0 .. MaxCrashes
    BY <2>1
  <2>3. QED
    BY <1>3, <2>2 DEF Counted
<1>4. CASE UNCHANGED counters
  BY <1>4 DEF Counted, counters
<1>5. QED
  BY <1>1, <1>2, <1>3, <1>4

LEMMA NextKeepsIInv == IInv /\ [Next]_vars => IInv'
<1> SUFFICES ASSUME IInv, [Next]_vars PROVE IInv'
  OBVIOUS
<1>1. ASSUME NEW c \in Cmds, CommandStep(c)
      PROVE  Kept
  BY <1>1, StartKeeps, SpawnKeeps, NoteKeeps, ReadyKeeps, BailKeeps, UnlinkKeeps, StopKeeps,
     StoppedKeeps, SealPactKeeps, RegisterKeeps, LeaveKeeps DEF CommandStep
<1>2. ASSUME NEW p \in Pids, ProcessStep(p)
      PROVE  Kept
  BY <1>2, ForegroundKeeps, LoadKeeps, ReadTokenKeeps, SaveTokenKeeps, BindKeeps, WritePidKeeps,
     InterruptKeeps, CloseApiKeeps, StopDaemonKeeps, ExitKeeps DEF ProcessStep
<1>3. ASSUME UNCHANGED vars PROVE Kept
  <2>1. UNCHANGED <<pidFile, registry, stranger, proc, copy, key, held, cmd, raced>>
    BY <1>3 DEF vars, files, procVars, counters
  <2>2. Types'
    BY <2>1, TypesStep DEF IInv, Types, procVars
  <2>3. Quiet' <=> Quiet
    BY <2>1 DEF Quiet, OneAlive, OneBusy, Reachable, StageOK, Only, NoneAlive, Ending, Leaving,
                Alive, Free
  <2>4. raced' = raced
    BY <2>1
  <2>5. QED
    BY <2>2, <2>3, <2>4 DEF Kept, IInv
<1>4. Kept
  BY <1>1, <1>2, <1>3, NextIsOf
<1>5. Counted'
  BY CountsKept DEF IInv
<1>6. QED
  BY <1>4, <1>5 DEF Kept, IInv

\* The inductive invariant holds of every run: while the commands are given one
\* at a time, one process is alive at most, and it is the one the command that is
\* under way, if any, has started or is stopping.
THEOREM Invariant == Spec => []IInv
  BY InitImpliesIInv, NextKeepsIInv, PTL DEF Spec

\* Types, and what a process keeps at each point of its life: its copy of
\* daemon.json while it mints, storage until it is flushed, and a token from the
\* moment it has one, whatever commands race (start-foreground.ts).
THEOREM TypeCorrect == Spec => []TypeOK
<1>1. ASSUME IInv PROVE TypeOK
  <2>1. \A c \in Cmds : cmd[c].of \in Pids \cup Pacts \cup {None} /\ cmd[c].cfg \in Config
    BY <1>1 DEF IInv, Types, Cmd
  <2>2. QED
    BY <1>1, <2>1 DEF IInv, Types, Counted, Life, TypeOK
<1>2. QED
  BY <1>1, Invariant, PTL

\* On a host where each command was given when nothing was under way, and
\* whatever was killed before: a daemon that serves is the one the PID file names,
\* and daemon.json has its token (start.ts, start-foreground.ts, stop.ts).
THEOREM ReachableDaemon == Spec => []DaemonIsReachable
<1>1. IInv => DaemonIsReachable
  BY DEF IInv, Quiet, Reachable, DaemonIsReachable
<1>2. QED
  BY <1>1, Invariant, PTL

\* In the same case: start reports success only when its own child has the port or
\* was killed meanwhile (or, with no pact registered, a stranger answers), and
\* stop reports that the daemon is gone only when no daemon of this data directory
\* is alive (start.ts, stop.ts).
THEOREM TruthfulCommands == Spec => CommandsTellTheTruth
<1> DEFINE Truth == \A c \in Cmds : ~raced =>
        /\ ~At(c, "start", "up") /\ At(c, "start", "up")' =>
               \/ proc[cmd[c].of] \in Answering \cup {"killed"}
               \/ stranger /\ registry.pacts = {}
        /\ At(c, "stop", "unlink") /\ Free(c)' => \A p \in Pids : ~Alive(p)
<1>1. ASSUME IInv, [Next]_vars PROVE [Truth]_vars
  <2>1. ASSUME NEW c \in Cmds, ~raced, At(c, "stop", "unlink") PROVE \A p \in Pids : ~Alive(p)
    BY <1>1, <2>1 DEF IInv, Quiet, StageOK, NoneAlive, At
  <2>2. ASSUME NEW c \in Cmds, ~raced, ~At(c, "start", "up"), At(c, "start", "up")'
        PROVE  \/ proc[cmd[c].of] \in Answering \cup {"killed"}
               \/ stranger /\ registry.pacts = {}
    <3>1. Types /\ Quiet /\ StageOK(c)
      BY <1>1, <2>2 DEF IInv, Quiet
    <3>2. cmd'[c] # cmd[c]
      BY <2>2 DEF At
    <3>3. CommandStep(c)
      <4>1. PICK d \in Cmds : CommandStep(d)
        <5>1. ASSUME NEW p \in Pids, ProcessStep(p) PROVE UNCHANGED cmd
          BY <5>1 DEF ProcessStep, Foreground, Load, ReadToken, SaveToken, Bind, WritePid,
                      Interrupt, CloseApi, StopDaemon, Exit, Kill
        <5>2. UNCHANGED vars => UNCHANGED cmd
          BY DEF vars
        <5>3. QED
          BY <1>1, <3>2, <5>1, <5>2, NextIsOf
      <4>2. \E k : cmd' = [cmd EXCEPT ![d] = k]
        BY <4>1 DEF CommandStep, Start, Spawn, Note, Ready, NotReady, Verify, Bail, Unlink, Stop,
                    Stopped, SealPact, Register, Leave, Abandon, Begin, Goto, End
      <4>3. d = c
        BY <3>1, <3>2, <4>2 DEF Types
      <4>4. QED
        BY <4>1, <4>3
    <3>4. cmd'[c].at = "up" /\ cmd'[c].op = "start"
      BY <2>2 DEF At
    <3>5. Ready(c) \/ Verify(c)
      <4>1. ~Start(c) /\ ~Stop(c) /\ \A k \in Pacts : ~SealPact(c, k)
        BY <3>1, <3>4 DEF Start, Stop, SealPact, Begin, Types
      <4>2. ~Note(c) /\ ~NotReady(c) /\ ~Bail(c) /\ ~Stopped(c)
        BY <3>1, <3>4, GotoMoves DEF Note, NotReady, Bail, Stopped, Moved, Ats
      <4>3. ~Unlink(c) /\ ~Leave(c) /\ ~Abandon(c)
        BY <3>1, <3>4, EndMoves DEF Unlink, Leave, Abandon, Moved
      <4>4. \A p \in Pids : ~Spawn(c, p)
        BY <3>1, <3>4 DEF Spawn, Types, Cmd
      <4>5. ~Register(c)
        BY <3>1, <3>4 DEF Register, Types, Cmd
      <4>6. QED
        BY <3>3, <4>1, <4>2, <4>3, <4>4, <4>5 DEF CommandStep
    <3>6. CASE Ready(c)
      <4>1. /\ PortTaken /\ Only(cmd[c].of)
            /\ registry.pacts = {} \/ Goto(c, "verify")
        BY <3>1, <3>6 DEF Ready, At, StageOK
      <4>2. registry.pacts = {}
        BY <3>1, <3>4, <4>1, GotoMoves DEF Moved, Ats
      <4>3. QED
        BY <4>1, <4>2 DEF PortTaken, Only, Alive
    <3>7. CASE Verify(c)
      <4>1. Ours \/ Goto(c, "bail")
        BY <3>7 DEF Verify
      <4>2. Ours
        BY <3>1, <3>4, <4>1, GotoMoves DEF Moved, Ats
      <4>3. QED
        BY <3>1, <3>7, <4>2 DEF Ours, Verify, At, StageOK, Answering
    <3>8. QED
      BY <3>5, <3>6, <3>7
  <2>3. QED
    BY <2>1, <2>2
<1>2. QED
  BY <1>1, Invariant, PTL DEF Spec, CommandsTellTheTruth

==============================================================================
