------------------------------ MODULE Registry ------------------------------
(***************************************************************************)
(* The pacts of one host: the registry daemon.json, the directory of each  *)
(* pact, and the map `_pacts` of the pacts the daemon has open (daemon.ts, *)
(* config.ts, routes/pacts.ts).                                            *)
(*                                                                         *)
(* A request reads the registry once, works on that copy across its awaits *)
(* and writes it back whole.  Requests overlap, and the daemon may stop    *)
(* between any two awaits.  An entry's dataDir is the directory of its     *)
(* alias; the order of the entries and `_currentAlias`, which only the     *)
(* single-pact accessors read, are left out.                               *)
(***************************************************************************)
EXTENDS Naturals, FiniteSets

CONSTANTS
    Aliases,    \* local names of pacts, and of their directories
    Pacts,      \* pact ids
    Workers,    \* HTTP requests that may be under way at once
    MaxCrashes, \* bound: how often the daemon stops
    None, Bare

ASSUME RegistryAssumption ==
    /\ None \notin Aliases \cup Pacts /\ Bare \notin Pacts \cup {None}
    /\ MaxCrashes \in Nat

VARIABLES
    file,     \* daemon.json
    tmp,      \* daemon.json.tmp, None if there is none
    dirs,     \* dirs[a]: the pact config.json names, Bare without one
    open,     \* _pacts: open[a] is the pact open under alias a
    job,      \* job[w]: where request w is
    up,       \* the daemon runs
    crashes,  \* how often it stopped
    suspect   \* history: aliases that the three hazards below have met

disk == <<file, tmp, dirs>>
vars == <<disk, open, job, up, crashes, suspect>>

Config == [entries : [Aliases -> Pacts \cup {None}], current : Aliases \cup {None}]

Registered(cfg) == {a \in Aliases : cfg.entries[a] # None}

---------------------------------------------------------------------------
(* Requests.  `held`: the request found the pact open; `behind`: another    *)
(* one has saved since it read the registry.                               *)

Idle == [op |-> "none"]

\* No copy of the registry is kept, or none any more.
NoCopy == [entries |-> [a \in Aliases |-> None], current |-> None]

Busy == {w \in Workers : job[w] # Idle}

Touches(w) == IF job[w] = Idle THEN {} ELSE {job[w].alias, job[w].to}

\* Hazard 1: two requests are under way on one alias.
Contended(w, names) ==
    names \cap UNION {Touches(v) : v \in Workers \ {w}}

\* Bound: no request begins when nothing is said of any alias any more.
MayBegin(w) == up /\ job[w] = Idle /\ suspect # Aliases

Begin(w, op, pc, a, b, held, cfg) ==
    /\ MayBegin(w)
    /\ job' = [job EXCEPT ![w] = [op |-> op, pc |-> pc, alias |-> a, to |-> b,
                                  held |-> held, behind |-> FALSE, cfg |-> cfg,
                                  pact |-> None]]
    /\ suspect' = suspect \cup Contended(w, {a, b})
    /\ UNCHANGED <<up, crashes>>

Goto(w, pc) == job' = [job EXCEPT ![w].pc = pc]

Done(w) == job' = [job EXCEPT ![w] = Idle]

At(w, pc) == job[w] # Idle /\ job[w].pc = pc

\* Hazard 2: a rename has moved the directory and its save never comes.
Moved(w) == job[w] # Idle /\ job[w].op = "rename" /\ job[w].pc \in {"write", "commit"}

CutShort(w) == IF Moved(w) THEN {job[w].alias, job[w].to} ELSE {}

---------------------------------------------------------------------------
(* createPact and joinPact.                                                *)

Made(a) == [dirs EXCEPT ![a] = IF @ = None THEN Bare ELSE @]

Create(w, a) ==
    /\ file.entries[a] = None
    /\ Begin(w, "create", "make", a, a, FALSE, file)
    /\ dirs' = Made(a)
    /\ UNCHANGED <<file, tmp, open>>

\* A join of a pact that is registered under this alias already is an Open.
Join(w, a, p) ==
    /\ MayBegin(w)
    /\ file.entries[a] = None
    /\ job' = [job EXCEPT ![w] = [op |-> "join", pc |-> "make", alias |-> a, to |-> a,
                                  held |-> FALSE, behind |-> FALSE, cfg |-> file,
                                  pact |-> p]]
    /\ suspect' = suspect \cup Contended(w, {a})
    /\ dirs' = Made(a)
    /\ UNCHANGED <<file, tmp, open, up, crashes>>

\* No entry, directory or request has had this pact.
Fresh(p) ==
    /\ \A a \in Aliases : file.entries[a] # p /\ dirs[a] # p /\ open[a] # p
    /\ \A w \in Busy : job[w].pact # p /\ \A a \in Aliases : job[w].cfg.entries[a] # p

\* Mutant: the copy is written without what it was read with.
WithAlone(cfg, a, p) ==
    [entries |-> [NoCopy.entries EXCEPT ![a] = p], current |-> a]

With(cfg, a, p) ==
    [entries |-> [cfg.entries EXCEPT ![a] = p],
     current |-> IF cfg.current = None THEN a ELSE cfg.current]

\* Pact.create or Pact.join writes the configuration.  Over the directory of an
\* earlier pact of the alias, a create may come up with that pact again.
Make(w, p) ==
    /\ At(w, "make")
    /\ LET a == job[w].alias
       IN  /\ IF job[w].op = "join" THEN p = job[w].pact ELSE Fresh(p) \/ p = dirs[a]
           /\ dirs' = [dirs EXCEPT ![a] = p]
           /\ job' = [job EXCEPT ![w].pc = "write", ![w].pact = p,
                                 ![w].cfg = With(@, a, p)]
    /\ UNCHANGED <<file, tmp, open, up, crashes, suspect>>

\* The store cannot be opened.
MakeFails(w) ==
    /\ At(w, "make")
    /\ Done(w)
    /\ UNCHANGED <<disk, open, up, crashes, suspect>>

---------------------------------------------------------------------------
(* setCurrentAlias, openPact.                                              *)

Switch(w, a) ==
    /\ file.entries[a] # None
    /\ Begin(w, "switch", "write", a, a, FALSE, [file EXCEPT !.current = a])
    /\ UNCHANGED <<disk, open>>

Open(w, a) ==
    /\ file.entries[a] # None /\ open[a] = None
    /\ Begin(w, "open", "load", a, a, FALSE, NoCopy)
    /\ UNCHANGED <<disk, open>>

\* Pact.load: opening the store makes a directory that is missing; without a
\* configuration it throws.  A store that is open already may refuse.
Load(w) ==
    /\ At(w, "load")
    /\ LET a == job[w].to
       IN  /\ dirs' = Made(a)
           /\ \/ dirs[a] \in Pacts /\ open' = [open EXCEPT ![a] = dirs[a]]
              \/ (dirs[a] \notin Pacts \/ open[a] # None) /\ UNCHANGED open
    /\ Done(w)
    /\ UNCHANGED <<file, tmp, up, crashes, suspect>>

---------------------------------------------------------------------------
(* removePact.                                                             *)

\* `pacts[0]` becomes current.
Without(cfg, a, c) ==
    [entries |-> [cfg.entries EXCEPT ![a] = None],
     current |-> IF cfg.current = a THEN c ELSE cfg.current]

Remaining(cfg, a) ==
    IF Registered(cfg) = {a} THEN {None} ELSE Registered(cfg) \ {a}

Remove(w, a) ==
    /\ file.entries[a] # None
    /\ \/ open[a] # None /\ Begin(w, "remove", "close", a, a, TRUE, file)
       \/ /\ open[a] = None
          /\ \E c \in Remaining(file, a) :
                Begin(w, "remove", "write", a, a, FALSE, Without(file, a, c))
    /\ UNCHANGED <<disk, open>>

\* Mutant: the directory goes before the entry does.
LeaveWiped(w, c) ==
    /\ At(w, "close") /\ job[w].op = "remove"
    /\ c \in Remaining(job[w].cfg, job[w].alias)
    /\ open' = [open EXCEPT ![job[w].alias] = None]
    /\ dirs' = [dirs EXCEPT ![job[w].alias] = None]
    /\ job' = [job EXCEPT ![w].pc = "write", ![w].cfg = Without(@, job[w].alias, c)]
    /\ UNCHANGED <<file, tmp, up, crashes, suspect>>

\* Mutant: the pact stays in the map.
LeaveKept(w, c) ==
    /\ At(w, "close") /\ job[w].op = "remove"
    /\ c \in Remaining(job[w].cfg, job[w].alias)
    /\ job' = [job EXCEPT ![w].pc = "write", ![w].cfg = Without(@, job[w].alias, c)]
    /\ UNCHANGED <<disk, open, up, crashes, suspect>>

\* The parting entries are written and have had two seconds; the pact closes.
Leave(w, c) ==
    /\ At(w, "close") /\ job[w].op = "remove"
    /\ c \in Remaining(job[w].cfg, job[w].alias)
    /\ open' = [open EXCEPT ![job[w].alias] = None]
    /\ job' = [job EXCEPT ![w].pc = "write", ![w].cfg = Without(@, job[w].alias, c)]
    /\ UNCHANGED <<disk, up, crashes, suspect>>

Wipe(w) ==
    /\ At(w, "wipe")
    /\ dirs' = [dirs EXCEPT ![job[w].alias] = None]
    /\ Done(w)
    /\ UNCHANGED <<file, tmp, open, up, crashes, suspect>>

---------------------------------------------------------------------------
(* renamePact.                                                             *)

Rename(w, a, b) ==
    /\ file.entries[a] # None /\ file.entries[b] = None
    /\ LET held == open[a] # None
       IN  Begin(w, "rename", IF held THEN "close" ELSE "move", a, b, held, file)
    /\ UNCHANGED <<disk, open>>

Close(w) ==
    /\ At(w, "close") /\ job[w].op = "rename"
    /\ open' = [open EXCEPT ![job[w].alias] = None]
    /\ Goto(w, "move")
    /\ UNCHANGED <<disk, up, crashes, suspect>>

Renamed(cfg, a, b) ==
    [entries |-> [cfg.entries EXCEPT ![a] = None, ![b] = cfg.entries[a]],
     current |-> IF cfg.current = a THEN b ELSE cfg.current]

\* fs.rename throws if the old directory is missing, or the new one holds
\* something; then the request is over, and the pact stays closed.
Move(w) ==
    /\ At(w, "move")
    /\ LET a == job[w].alias
           b == job[w].to
       IN  \/ /\ dirs[a] # None /\ dirs[b] \in {None, Bare}
              /\ dirs' = [dirs EXCEPT ![a] = None, ![b] = dirs[a]]
              /\ job' = [job EXCEPT ![w].pc = "write", ![w].cfg = Renamed(@, a, b)]
           \/ /\ dirs[a] = None \/ dirs[b] # None
              /\ Done(w)
              /\ UNCHANGED dirs
    /\ UNCHANGED <<file, tmp, open, up, crashes, suspect>>

---------------------------------------------------------------------------
(* saveDaemonConfig.                                                       *)

Write(w) ==
    /\ At(w, "write")
    /\ tmp' = job[w].cfg
    /\ Goto(w, "commit")
    /\ UNCHANGED <<file, dirs, open, up, crashes, suspect>>

\* What request w wants of the entry of a, given the others as they are.
Wanted(w, a) ==
    IF a \in Touches(w) THEN job[w].cfg.entries[a] ELSE file.entries[a]

\* Hazard 3: a copy that is out of date, or that of another request, is saved.
Clobbered(w) ==
    IF job[w].behind \/ tmp # job[w].cfg
    THEN {a \in Aliases : tmp.entries[a] # Wanted(w, a)} ELSE {}

\* What is wrong with one name of a rename is passed on to the other.
PassedOn(w) ==
    IF Touches(w) \cap (suspect \cup Clobbered(w)) = {} THEN {} ELSE Touches(w)

\* What request w has left to do once its copy is saved.
Rest(w) ==
    CASE job[w].op = "remove" -> [job[w] EXCEPT !.pc = "wipe", !.cfg = NoCopy]
      [] job[w].op = "rename" /\ job[w].held -> [job[w] EXCEPT !.pc = "load", !.cfg = NoCopy]
      [] OTHER -> Idle

Saved(w) ==
    job' = [v \in Workers |->
                IF v = w THEN Rest(w)
                ELSE IF v \in Busy /\ job[v].pc \notin {"wipe", "load"}
                THEN [job[v] EXCEPT !.behind = TRUE]
                ELSE job[v]]

\* The rename of the .tmp.  Without one it throws: another request has taken it.
Commit(w) ==
    /\ At(w, "commit")
    /\ IF tmp = None
       THEN /\ Done(w)
            /\ suspect' = suspect \cup CutShort(w)
            /\ UNCHANGED <<file, tmp, open>>
       ELSE /\ file' = tmp
            /\ tmp' = None
            /\ suspect' = suspect \cup Clobbered(w) \cup PassedOn(w)
            /\ Saved(w)
            /\ open' = IF job[w].op \in {"create", "join"}
                       THEN [open EXCEPT ![job[w].alias] = job[w].pact] ELSE open
    /\ UNCHANGED <<dirs, up, crashes>>

---------------------------------------------------------------------------
(* The daemon stops, and starts again.                                     *)

Crash ==
    /\ up /\ crashes < MaxCrashes
    /\ up' = FALSE
    /\ crashes' = crashes + 1
    /\ open' = [a \in Aliases |-> None]
    /\ job' = [w \in Workers |-> Idle]
    /\ suspect' = suspect \cup UNION {CutShort(w) : w \in Workers}
    /\ UNCHANGED disk

\* Mutant: an entry that does not load is passed over.
RestartRegardless ==
    /\ ~up
    /\ up' = TRUE
    /\ open' = [a \in Aliases |-> IF file.entries[a] = None THEN None ELSE dirs[a]]
    /\ UNCHANGED <<disk, job, crashes, suspect>>

\* Daemon.load opens every entry; one that does not load stops the start.
Restart ==
    /\ ~up
    /\ \A a \in Registered(file) : dirs[a] \in Pacts
    /\ up' = TRUE
    /\ open' = [a \in Aliases |-> IF file.entries[a] = None THEN None ELSE dirs[a]]
    /\ UNCHANGED <<disk, job, crashes, suspect>>

---------------------------------------------------------------------------

Init ==
    /\ file = [entries |-> [a \in Aliases |-> None], current |-> None]
    /\ tmp = None
    /\ dirs = [a \in Aliases |-> None]
    /\ open = [a \in Aliases |-> None]
    /\ job = [w \in Workers |-> Idle]
    /\ up = TRUE
    /\ crashes = 0
    /\ suspect = {}

Request(w) ==
    \E a \in Aliases :
        \/ Create(w, a)
        \/ \E p \in Pacts : Join(w, a, p)
        \/ Switch(w, a)
        \/ Open(w, a)
        \/ Remove(w, a)
        \/ \E b \in Aliases : Rename(w, a, b)

Proceed(w) ==
    \/ \E p \in Pacts : Make(w, p)
    \/ MakeFails(w)
    \/ Load(w)
    \/ \E c \in Aliases \cup {None} : Leave(w, c)
    \/ Wipe(w)
    \/ Close(w)
    \/ Move(w)
    \/ Write(w)
    \/ Commit(w)

Next ==
    \/ \E w \in Workers : Request(w) \/ Proceed(w)
    \/ Crash
    \/ Restart

Spec == Init /\ [][Next]_vars

---------------------------------------------------------------------------
(* Properties.                                                             *)

TypeOK ==
    /\ file \in Config
    /\ tmp \in Config \cup {None}
    /\ dirs \in [Aliases -> Pacts \cup {None, Bare}]
    /\ open \in [Aliases -> Pacts \cup {None}]
    /\ \A w \in Busy :
        /\ job[w].op \in {"create", "join", "switch", "open", "remove", "rename"}
        /\ job[w].pc \in {"make", "load", "close", "wipe", "move", "write", "commit"}
        /\ {job[w].alias, job[w].to} \subseteq Aliases
        /\ job[w].cfg \in Config /\ job[w].pact \in Pacts \cup {None}
        /\ job[w].held \in BOOLEAN /\ job[w].behind \in BOOLEAN
    /\ up \in BOOLEAN /\ crashes \in 0..MaxCrashes
    /\ suspect \subseteq Aliases
    /\ file.current \in Registered(file) \cup {None}
    /\ ~up => Busy = {} /\ \A a \in Aliases : open[a] = None

\* Every registered pact has the directory and the configuration a start needs,
\* whenever the daemon stops.  A rename is the exception, between moving the
\* directory and saving.
RegisteredLoads ==
    \A a \in Registered(file) \ suspect :
        dirs[a] = file.entries[a] \/ \E w \in Workers : a \in CutShort(w)

\* The daemon has no pact open, and so replicates none, that is not registered
\* under its alias.
OpenIsRegistered ==
    \A a \in Aliases \ suspect : open[a] # None => file.entries[a] = open[a]

\* A pact leaves the registry only when somebody asked to remove or to rename
\* it, and a rename takes it along.
NothingVanishes ==
    [][\A a \in Registered(file) \ suspect' :
        file'.entries[a] # file.entries[a] =>
            \E w \in Workers :
                /\ At(w, "commit") /\ job[w].alias = a
                /\ \/ job[w].op = "remove"
                   \/ job[w].op = "rename" /\ file'.entries[job[w].to] = file.entries[a]
      ]_vars
=============================================================================
