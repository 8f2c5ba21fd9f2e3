------------------------------ MODULE Processes ------------------------------
(***************************************************************************)
(* The daemon processes of one data directory and the commands that start  *)
(* and stop them (start.ts, start-foreground.ts, stop.ts, init.ts, pid.ts).*)
(*                                                                         *)
(* Commands find the daemon through three things: the PID file, the port,  *)
(* and daemon.json, which has the token its API asks for.  All processes   *)
(* use one port; the daemon of another data directory may have it          *)
(* (`stranger`).  daemon.json is its token and the set of its pacts: what  *)
(* a running daemon does to them is the module Registry.  The storage of a *)
(* pact is open in one process at a time (external: the corestore's lock). *)
(***************************************************************************)
EXTENDS Naturals, FiniteSets

CONSTANTS
    Pids,        \* processes, in the order in which they are spawned
    Cmds,        \* commands that may be under way at once
    Pacts,
    None,
    MaxCommands, \* bound: commands given
    MaxCrashes   \* bound: daemons and commands that are killed

ASSUME ProcessesAssumption ==
    /\ Pids \subseteq Nat /\ None \notin Pids \cup Pacts
    /\ MaxCommands \in Nat /\ MaxCrashes \in Nat

VARIABLES
    pidFile,  \* <dataDir>/pid
    registry, \* daemon.json
    stranger, \* another data directory's daemon has the port
    proc,     \* proc[p]: how far process p is
    copy,     \* copy[p]: the daemon.json that ensureApiToken read
    key,      \* key[p]: the token that the API of p asks for
    held,     \* held[p]: the pacts whose storage p has open
    cmd,      \* cmd[c]: where command c is
    commands, crashes,
    raced     \* history: a command was given before the one before had settled

procVars == <<proc, copy, key, held>>
files == <<pidFile, registry, stranger>>
counters == <<commands, crashes, raced>>
vars == <<files, procVars, cmd, counters>>

Config == [token : Pids \cup {None}, pacts : SUBSET Pacts]

NoConfig == [token |-> None, pacts |-> {}]

Idle == [op |-> "none", at |-> "idle", of |-> None, cfg |-> NoConfig]

\* Before its signal handlers are installed a process dies of SIGTERM.
Starting == {"loading", "loaded", "minting", "binding", "bound"}

Answering == {"bound", "serving", "closing"}

Alive(p) == proc[p] \in Starting \cup Answering \cup {"closed", "flushed"}

LooksAlive == pidFile # None /\ Alive(pidFile)

PortTaken == stranger \/ \E p \in Pids : proc[p] \in Answering

Free(c) == cmd[c].at \in {"idle", "up"}

\* Nothing is under way on the host.
Settled ==
    /\ \A c \in Cmds : Free(c)
    /\ \A p \in Pids : proc[p] \in {"new", "serving", "dead", "killed"}

\* Bounds: no more than MaxCommands, and none when nothing is said of the
\* host any more.
MayCommand == ~raced /\ commands < MaxCommands

Commanded == commands' = commands + 1 /\ raced' = ~Settled

At(c, op, at) == cmd[c].op = op /\ cmd[c].at = at

Begin(c, op, at, of, cfg) ==
    /\ Free(c) /\ MayCommand /\ Commanded
    /\ cmd' = [cmd EXCEPT ![c] = [op |-> op, at |-> at, of |-> of, cfg |-> cfg]]
    /\ UNCHANGED crashes

Goto(c, at) == cmd' = [cmd EXCEPT ![c].at = at]

End(c) == cmd' = [cmd EXCEPT ![c] = Idle]

GoneAs(p, how) ==
    /\ proc' = [proc EXCEPT ![p] = how]
    /\ copy' = [copy EXCEPT ![p] = NoConfig]
    /\ key' = [key EXCEPT ![p] = None]
    /\ held' = [held EXCEPT ![p] = {}]

Become(p, at) == proc' = [proc EXCEPT ![p] = at] /\ UNCHANGED <<copy, key, held>>

\* SIGTERM; a daemon that is already shutting down ignores it.
Terminate(p) ==
    \/ proc[p] \in Starting /\ GoneAs(p, "dead")
    \/ proc[p] = "serving" /\ Become(p, "closing")
    \/ proc[p] \notin Starting \cup {"serving"} /\ UNCHANGED procVars

---------------------------------------------------------------------------
(* start: spawn the daemon, write its PID as a best guess, wait until the  *)
(* port answers, and check that it is this data directory's daemon.        *)

Start(c) ==
    /\ ~LooksAlive
    /\ Begin(c, "start", "spawn", None, NoConfig)
    /\ UNCHANGED <<files, procVars>>

\* A new process: PIDs are not used twice.
Fresh(p) == proc[p] = "new" /\ \A q \in Pids : q < p => proc[q] # "new"

Spawn(c, p) ==
    /\ At(c, "start", "spawn") /\ Fresh(p)
    /\ Become(p, "loading")
    /\ cmd' = [cmd EXCEPT ![c].at = "note", ![c].of = p]
    /\ UNCHANGED <<files, counters>>

Note(c) ==
    /\ At(c, "start", "note")
    /\ pidFile' = cmd[c].of
    /\ Goto(c, "wait")
    /\ UNCHANGED <<registry, stranger, procVars, counters>>

\* Whoever answers is taken for the child.
ReadyAtOnce(c) ==
    /\ At(c, "start", "wait") /\ Alive(cmd[c].of) /\ PortTaken
    /\ Goto(c, "up")
    /\ UNCHANGED <<files, procVars, counters>>

\* waitForReady asks no more than that the child lives and the port answers;
\* without a pact of our own that is all the command asks.
Ready(c) ==
    /\ At(c, "start", "wait") /\ Alive(cmd[c].of) /\ PortTaken
    /\ Goto(c, IF registry.pacts = {} THEN "up" ELSE "verify")
    /\ UNCHANGED <<files, procVars, counters>>

\* The child is gone, or ten seconds have passed without an answer.
NotReady(c) ==
    /\ At(c, "start", "wait")
    /\ Alive(cmd[c].of) => ~PortTaken
    /\ Goto(c, "bail")
    /\ UNCHANGED <<files, procVars, counters>>

\* Whoever answers on the port takes our token and has one of our pacts.
\* An answer that does not come counts as a yes.
Ours ==
    /\ ~stranger
    /\ \A p \in Pids : proc[p] \in Answering =>
           registry.token = key[p] /\ held[p] \cap registry.pacts # {}

Verify(c) ==
    /\ At(c, "start", "verify")
    /\ Goto(c, IF Ours THEN "up" ELSE "bail")
    /\ UNCHANGED <<files, procVars, counters>>

Bail(c) ==
    /\ At(c, "start", "bail")
    /\ Terminate(cmd[c].of)
    /\ Goto(c, "unlink")
    /\ UNCHANGED <<files, counters>>

\* removePidFile, whoever the file names by now; also the end of stop.
Unlink(c) ==
    /\ cmd[c].at = "unlink"
    /\ pidFile' = None
    /\ End(c)
    /\ UNCHANGED <<registry, stranger, procVars, counters>>

---------------------------------------------------------------------------
(* start --foreground, and the detached child of start.                    *)

Foreground(p) ==
    /\ ~LooksAlive /\ Fresh(p) /\ MayCommand /\ Commanded
    /\ Become(p, "loading")
    /\ UNCHANGED <<files, cmd, crashes>>

HeldByOthers(p) ==
    UNION {held[q] : q \in Pids \ {p}} \cup {cmd[c].of : c \in {d \in Cmds : At(d, "init", "leave")}}

Load(p) ==
    /\ proc[p] = "loading"
    /\ IF registry.pacts \cap HeldByOthers(p) # {}
       THEN GoneAs(p, "dead")
       ELSE /\ proc' = [proc EXCEPT ![p] = "loaded"]
            /\ held' = [held EXCEPT ![p] = registry.pacts]
            /\ UNCHANGED <<copy, key>>
    /\ UNCHANGED <<files, cmd, counters>>

\* ensureApiToken: the file has a token, or one is minted into a copy of it.
ReadToken(p) ==
    /\ proc[p] = "loaded"
    /\ \/ /\ registry.token # None
          /\ key' = [key EXCEPT ![p] = registry.token]
          /\ proc' = [proc EXCEPT ![p] = "binding"]
          /\ UNCHANGED copy
       \/ /\ registry.token = None
          /\ copy' = [copy EXCEPT ![p] = registry]
          /\ proc' = [proc EXCEPT ![p] = "minting"]
          /\ UNCHANGED key
    /\ UNCHANGED <<files, held, cmd, counters>>

SaveToken(p) ==
    /\ proc[p] = "minting"
    /\ registry' = [copy[p] EXCEPT !.token = p]
    /\ key' = [key EXCEPT ![p] = p]
    /\ copy' = [copy EXCEPT ![p] = NoConfig]
    /\ proc' = [proc EXCEPT ![p] = "binding"]
    /\ UNCHANGED <<pidFile, stranger, held, cmd, counters>>

Bind(p) ==
    /\ proc[p] = "binding"
    /\ IF PortTaken THEN GoneAs(p, "dead") ELSE Become(p, "bound")
    /\ UNCHANGED <<files, cmd, counters>>

\* A daemon that leaves a PID file it finds as it is.
WritePidIfNone(p) ==
    /\ proc[p] = "bound"
    /\ pidFile' = IF pidFile = None THEN p ELSE pidFile
    /\ Become(p, "serving")
    /\ UNCHANGED <<registry, stranger, cmd, counters>>

WritePid(p) ==
    /\ proc[p] = "bound"
    /\ pidFile' = p
    /\ Become(p, "serving")
    /\ UNCHANGED <<registry, stranger, cmd, counters>>

\* Ctrl-C in the foreground.
Interrupt(p) ==
    /\ proc[p] = "serving" /\ MayCommand /\ Commanded
    /\ Terminate(p)
    /\ UNCHANGED <<files, cmd, crashes>>

\* The shutdown: app.close, daemon.stop, removePidFile, exit.
CloseApi(p) ==
    /\ proc[p] = "closing"
    /\ Become(p, "closed")
    /\ UNCHANGED <<files, cmd, counters>>

\* The storage is left open until the process exits.
StopWithoutClose(p) ==
    /\ proc[p] = "closed"
    /\ Become(p, "flushed")
    /\ UNCHANGED <<files, cmd, counters>>

StopDaemon(p) ==
    /\ proc[p] = "closed"
    /\ proc' = [proc EXCEPT ![p] = "flushed"]
    /\ held' = [held EXCEPT ![p] = {}]
    /\ UNCHANGED <<files, copy, key, cmd, counters>>

Exit(p) ==
    /\ proc[p] = "flushed"
    /\ pidFile' = None
    /\ GoneAs(p, "dead")
    /\ UNCHANGED <<registry, stranger, cmd, counters>>

Kill(p) ==
    /\ Alive(p) /\ crashes < MaxCrashes
    /\ crashes' = crashes + 1
    /\ GoneAs(p, "killed")
    /\ UNCHANGED <<files, cmd, commands, raced>>

---------------------------------------------------------------------------
(* stop                                                                    *)

Stop(c) ==
    /\ pidFile # None
    /\ \/ LooksAlive /\ Begin(c, "stop", "await", pidFile, NoConfig) /\ Terminate(pidFile)
       \/ ~LooksAlive /\ Begin(c, "stop", "unlink", None, NoConfig) /\ UNCHANGED procVars
    /\ UNCHANGED files

\* No SIGKILL.
StoppedInTime(c) ==
    /\ At(c, "stop", "await")
    /\ UNCHANGED procVars
    /\ Goto(c, "unlink")
    /\ UNCHANGED <<files, counters>>

\* The process is gone, or five seconds have passed and it gets SIGKILL.
Stopped(c) ==
    /\ At(c, "stop", "await")
    /\ IF Alive(cmd[c].of) THEN GoneAs(cmd[c].of, "killed") ELSE UNCHANGED procVars
    /\ Goto(c, "unlink")
    /\ UNCHANGED <<files, counters>>

---------------------------------------------------------------------------
(* init without a daemon: createPact reads daemon.json, makes the pact,    *)
(* and writes what it read with the pact added; then the pact is closed.   *)

SealPact(c, k) ==
    /\ ~LooksAlive /\ k \notin registry.pacts
    /\ Begin(c, "init", "create", k, registry)
    /\ UNCHANGED <<files, procVars>>

Register(c) ==
    /\ At(c, "init", "create")
    /\ registry' = [cmd[c].cfg EXCEPT !.pacts = @ \cup {cmd[c].of}]
    /\ cmd' = [cmd EXCEPT ![c].at = "leave", ![c].cfg = NoConfig]
    /\ UNCHANGED <<pidFile, stranger, procVars, counters>>

Leave(c) ==
    /\ At(c, "init", "leave")
    /\ End(c)
    /\ UNCHANGED <<files, procVars, counters>>

\* The user interrupts a command; a child that was spawned goes on.
Abandon(c) ==
    /\ ~Free(c) /\ crashes < MaxCrashes
    /\ crashes' = crashes + 1
    /\ End(c)
    /\ UNCHANGED <<files, procVars, commands, raced>>

---------------------------------------------------------------------------

Init ==
    /\ pidFile = None /\ registry = NoConfig /\ stranger \in BOOLEAN
    /\ proc = [p \in Pids |-> "new"]
    /\ copy = [p \in Pids |-> NoConfig]
    /\ key = [p \in Pids |-> None]
    /\ held = [p \in Pids |-> {}]
    /\ cmd = [c \in Cmds |-> Idle]
    /\ commands = 0 /\ crashes = 0 /\ raced = FALSE

Next ==
    \/ \E c \in Cmds :
        \/ Start(c) \/ (\E p \in Pids : Spawn(c, p)) \/ Note(c) \/ Ready(c) \/ NotReady(c)
        \/ Verify(c) \/ Bail(c) \/ Unlink(c) \/ Stop(c) \/ Stopped(c)
        \/ (\E k \in Pacts : SealPact(c, k)) \/ Register(c) \/ Leave(c) \/ Abandon(c)
    \/ \E p \in Pids :
        \/ Foreground(p) \/ Load(p) \/ ReadToken(p) \/ SaveToken(p) \/ Bind(p)
        \/ WritePid(p) \/ Interrupt(p) \/ CloseApi(p) \/ StopDaemon(p) \/ Exit(p) \/ Kill(p)

Spec == Init /\ [][Next]_vars

---------------------------------------------------------------------------
(* Properties                                                              *)

\* Types, and what a process keeps at each point of its life: a copy of
\* daemon.json while it mints, storage only until it is flushed, and a token
\* from the moment it has one (start-foreground.ts).
TypeOK ==
    /\ pidFile \in Pids \cup {None} /\ registry \in Config /\ stranger \in BOOLEAN
    /\ copy \in [Pids -> Config] /\ held \in [Pids -> SUBSET Pacts]
    /\ \A p \in Pids :
        /\ key[p] \in Pids \cup {None}
        /\ key[p] # None <=> proc[p] \in {"binding"} \cup Answering \cup {"closed", "flushed"}
        /\ copy[p] # NoConfig => proc[p] = "minting"
        /\ held[p] # {} => Alive(p) /\ proc[p] \notin {"loading", "flushed"}
    /\ \A c \in Cmds : cmd[c].of \in Pids \cup Pacts \cup {None} /\ cmd[c].cfg \in Config
    /\ commands \in 0 .. MaxCommands /\ crashes \in 0 .. MaxCrashes /\ raced \in BOOLEAN

\* As long as each command is given when nothing is under way, and whatever
\* was killed before: a daemon that serves is the one the PID file names,
\* and daemon.json has its token.  So stop, invite and the others reach it
\* (pid.ts:48, config.ts:198).
DaemonIsReachable ==
    Settled /\ ~raced =>
        \A p \in Pids : proc[p] = "serving" => pidFile = p /\ registry.token = key[p]

\* In the same case: start says that the daemon runs only when its own child
\* has the port, or was killed meanwhile; the exception is start.ts:132, where
\* with no pact registered nothing is verified and a stranger's answer is taken
\* for the child's.  And when stop says that the daemon is gone, no daemon of
\* this data directory runs (stop.ts:26).
CommandsTellTheTruth ==
    [][\A c \in Cmds : ~raced =>
        /\ ~At(c, "start", "up") /\ At(c, "start", "up")' =>
               \/ proc[cmd[c].of] \in Answering \cup {"killed"}
               \/ stranger /\ registry.pacts = {}
        /\ At(c, "stop", "unlink") /\ Free(c)' => \A p \in Pids : ~Alive(p)]_vars
==============================================================================
