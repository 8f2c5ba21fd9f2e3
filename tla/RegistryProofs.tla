--------------------------- MODULE RegistryProofs ---------------------------
(***************************************************************************)
(* Proofs about Registry, for any aliases, pacts, requests and crashes.    *)
(*                                                                         *)
(* An alias that none of the three hazards has met (a *clear* one) is      *)
(* touched by one request at most, and what that request does to the file, *)
(* the directory and the map follows its own protocol.  The invariant says *)
(* how far it is, request by request and alias by alias; the rest is a     *)
(* frame: no step changes a clear alias that its request does not touch.   *)
(***************************************************************************)
EXTENDS Registry, TLAPS

Clear == Aliases \ suspect

\* A registry, or a copy of one, whose current pact is one of its own.
CurrentOK(cfg) == cfg.current \in Registered(cfg) \cup {None}

Ops == {"create", "join", "switch", "open", "remove", "rename"}

Stages(op) ==
    CASE op \in {"create", "join"} -> {"make", "write", "commit"}
      [] op = "switch" -> {"write", "commit"}
      [] op = "open" -> {"load"}
      [] op = "remove" -> {"close", "write", "commit", "wipe"}
      [] op = "rename" -> {"close", "move", "write", "commit", "load"}

---------------------------------------------------------------------------
(* The invariant.                                                          *)

Job == [op : Ops, pc : {"make", "load", "close", "wipe", "move", "write", "commit"},
        alias : Aliases, to : Aliases, held : BOOLEAN, behind : BOOLEAN, cfg : Config,
        pact : Pacts \cup {None}]

\* What holds of a request whatever it has met.
JobOK(j) ==
    /\ j \in Job
    /\ j.pc \in Stages(j.op)
    /\ CurrentOK(j.cfg)
    /\ j.op = "rename" <=> j.alias # j.to
    /\ j.op \in {"create", "join"} /\ j.pc # "make" =>
          j.pact # None /\ j.cfg.entries[j.alias] = j.pact
    /\ j.op = "rename" /\ j.pc \in {"close", "move"} => j.cfg.entries[j.alias] # None
    /\ j.op = "rename" /\ j.pc \in {"write", "commit"} =>
          j.cfg.entries[j.alias] = None /\ j.cfg.entries[j.to] # None
    /\ j.op = "remove" /\ j.pc \in {"write", "commit"} => j.cfg.entries[j.alias] = None

\* A copy that nobody has overtaken differs from the file only in the aliases of
\* its own request.
UpToDate(w) ==
    ~job[w].behind /\ job[w].pc \notin {"wipe", "load"} =>
        \A c \in Aliases \ Touches(w) : job[w].cfg.entries[c] = file.entries[c]

\* How far a request is with a clear alias.
Creating(w) ==
    job[w].op \in {"create", "join"} /\ job[w].alias \in Clear =>
        /\ file.entries[job[w].alias] = None
        /\ job[w].pc # "make" => dirs[job[w].alias] = job[w].pact

Switching(w) ==
    job[w].op = "switch" /\ job[w].alias \in Clear =>
        job[w].cfg.entries[job[w].alias] = file.entries[job[w].alias]

Removing(w) ==
    job[w].op = "remove" /\ job[w].alias \in Clear =>
        /\ job[w].pc # "close" => open[job[w].alias] = None
        /\ job[w].pc = "wipe" => file.entries[job[w].alias] = None

Renaming(w) ==
    job[w].op = "rename" /\ job[w].pc # "load" =>
        LET a == job[w].alias
            b == job[w].to
        IN  /\ b \in Clear => file.entries[b] = None
            /\ a \in Clear =>
                /\ job[w].pc \in {"close", "move"} => job[w].cfg.entries[a] = file.entries[a]
                /\ job[w].pc # "close" => open[a] = None
            /\ {a, b} \subseteq Clear /\ job[w].pc \in {"write", "commit"} =>
                  dirs[b] = job[w].cfg.entries[b] /\ job[w].cfg.entries[b] = file.entries[a]

Loading(w) ==
    job[w].pc = "load" /\ job[w].to \in Clear => file.entries[job[w].to] # None

Progress(w) ==
    UpToDate(w) /\ Creating(w) /\ Switching(w) /\ Removing(w) /\ Renaming(w) /\ Loading(w)

\* No two requests touch a clear alias.
Apart == \A v, w \in Workers : v # w => Touches(v) \cap Touches(w) \subseteq suspect

AliasOK(a) ==
    /\ file.entries[a] # None =>
          dirs[a] = file.entries[a] \/ \E w \in Workers : a \in CutShort(w)
    /\ open[a] # None => file.entries[a] = open[a]

Types ==
    /\ file \in Config /\ CurrentOK(file)
    /\ tmp \in Config \cup {None} /\ (tmp # None => CurrentOK(tmp))
    /\ dirs \in [Aliases -> Pacts \cup {None, Bare}]
    /\ open \in [Aliases -> Pacts \cup {None}]
    /\ job \in [Workers -> Job \cup {Idle}]
    /\ \A w \in Busy : JobOK(job[w])
    /\ up \in BOOLEAN /\ crashes \in 0..MaxCrashes
    /\ suspect \subseteq Aliases
    /\ ~up => Busy = {} /\ \A a \in Aliases : open[a] = None

IInv ==
    /\ Types
    /\ Apart
    /\ \A w \in Busy : Progress(w)
    /\ \A a \in Clear : AliasOK(a)

---------------------------------------------------------------------------
(* Requests apart from each other.                                         *)

LEMMA BusyIsJob ==
    ASSUME Types, NEW w \in Workers, job[w] # Idle
    PROVE  job[w] \in Job /\ JobOK(job[w])
  BY DEF Types, Busy

LEMMA IdleIsNoJob == Idle \notin Job
  BY DEF Idle, Job, Ops

LEMMA CutShortIsTouched == ASSUME NEW w \in Workers PROVE CutShort(w) \subseteq Touches(w)
  BY DEF CutShort, Touches, Moved

\* A step of request w that leaves alone what is clear and not in T keeps the
\* invariant of every other request, and of every alias that is not in T.
LEMMA Frame ==
    ASSUME IInv, NEW w \in Workers, NEW T \in SUBSET Aliases,
           Touches(w) \subseteq T, Touches(w)' \subseteq T, suspect \subseteq suspect',
           \A c \in Aliases \ (T \cup suspect') :
              file'.entries[c] = file.entries[c] /\ dirs'[c] = dirs[c] /\ open'[c] = open[c],
           \A v \in Workers \ {w} :
              \/ job'[v] = job[v] /\ (job[v] = Idle \/ job[v].pc \in {"wipe", "load"} \/ file' = file)
              \/ v \in Busy /\ job'[v] = [job[v] EXCEPT !.behind = TRUE],
           \A v \in Workers \ {w} : T \cap Touches(v) \subseteq suspect'
    PROVE  /\ \A v \in Busy' \ {w} : v \in Busy /\ Progress(v)'
           /\ \A c \in Clear' \ T : AliasOK(c)'
           /\ Apart'
<1>1. \A v \in Workers \ {w} :
         /\ (v \in Busy)' <=> v \in Busy
         /\ v \in Busy =>
              /\ job'[v].op = job[v].op /\ job'[v].pc = job[v].pc
              /\ job'[v].alias = job[v].alias /\ job'[v].to = job[v].to
              /\ job'[v].held = job[v].held /\ job'[v].cfg = job[v].cfg
              /\ job'[v].pact = job[v].pact
              /\ \/ job'[v].pc \in {"wipe", "load"} \/ job'[v].behind
                 \/ job'[v].behind = job[v].behind /\ file' = file
  <2> TAKE v \in Workers \ {w}
  <2>1. CASE job[v] = Idle
    BY <2>1 DEF Busy
  <2>2. CASE job[v] # Idle
    <3>1. job[v] \in Job
      BY <2>2, BusyIsJob DEF IInv
    <3>2. [job[v] EXCEPT !.behind = TRUE] \in Job
      BY <3>1 DEF Job
    <3>3. QED
      BY <2>2, <3>1, <3>2, IdleIsNoJob DEF Busy, Job
  <2>3. QED
    BY <2>1, <2>2
<1>2. \A v \in Workers \ {w} : Touches(v)' = Touches(v) /\ CutShort(v)' = CutShort(v)
  BY <1>1 DEF Touches, CutShort, Moved, Busy
<1>3. ASSUME NEW v \in Busy' \ {w} PROVE v \in Busy /\ Progress(v)'
  <2>1. v \in Workers \ {w} /\ v \in Busy /\ Progress(v) /\ JobOK(job[v])
    BY <1>1, <1>3 DEF Busy, IInv, Types
  <2>2. Touches(v) = {job[v].alias, job[v].to} /\ Touches(v) \subseteq Aliases
    BY <2>1 DEF Touches, Busy, JobOK, Job
  <2>3. \A c \in Touches(v) \cap Clear' :
           /\ c \in Clear
           /\ file'.entries[c] = file.entries[c] /\ dirs'[c] = dirs[c] /\ open'[c] = open[c]
    BY <2>1, <2>2 DEF Clear
  <2>4. UpToDate(v)'
    BY <1>1, <1>2, <2>1 DEF Progress, UpToDate
  <2>5. Creating(v)'
    BY <1>1, <2>1, <2>2, <2>3 DEF Progress, Creating
  <2>6. Switching(v)'
    BY <1>1, <2>1, <2>2, <2>3 DEF Progress, Switching
  <2>7. Removing(v)'
    BY <1>1, <2>1, <2>2, <2>3 DEF Progress, Removing
  <2>8. Renaming(v)'
    <3>1. Renaming(v)
      BY <2>1 DEF Progress
    <3>2. SUFFICES ASSUME job[v].op = "rename", job[v].pc # "load" PROVE Renaming(v)'
      BY <1>1, <2>1 DEF Renaming
    <3>3. /\ job[v].to \in Clear' => file.entries[job[v].to] = None
          /\ job[v].alias \in Clear' =>
               /\ job[v].pc \in {"close", "move"} =>
                    job[v].cfg.entries[job[v].alias] = file.entries[job[v].alias]
               /\ job[v].pc # "close" => open[job[v].alias] = None
          /\ {job[v].alias, job[v].to} \subseteq Clear' /\ job[v].pc \in {"write", "commit"} =>
               /\ dirs[job[v].to] = job[v].cfg.entries[job[v].to]
               /\ job[v].cfg.entries[job[v].to] = file.entries[job[v].alias]
      BY <2>2, <2>3, <3>1, <3>2 DEF Renaming
    <3>4. /\ job[v].to \in Clear' => file'.entries[job[v].to] = None
          /\ job[v].alias \in Clear' =>
               /\ job[v].pc \in {"close", "move"} =>
                    job[v].cfg.entries[job[v].alias] = file'.entries[job[v].alias]
               /\ job[v].pc # "close" => open'[job[v].alias] = None
          /\ {job[v].alias, job[v].to} \subseteq Clear' /\ job[v].pc \in {"write", "commit"} =>
               /\ dirs'[job[v].to] = job[v].cfg.entries[job[v].to]
               /\ job[v].cfg.entries[job[v].to] = file'.entries[job[v].alias]
      BY <2>2, <2>3, <3>3
    <3>5. /\ job'[v].pc = job[v].pc /\ job'[v].alias = job[v].alias /\ job'[v].to = job[v].to
          /\ job'[v].cfg = job[v].cfg
      BY <1>1, <2>1
    <3>6. QED
      BY <3>4, <3>5 DEF Renaming
  <2>9. Loading(v)'
    BY <1>1, <2>1, <2>2, <2>3 DEF Progress, Loading
  <2>10. QED
    BY <2>1, <2>4, <2>5, <2>6, <2>7, <2>8, <2>9 DEF Progress
<1>4. ASSUME NEW c \in Clear' \ T PROVE AliasOK(c)'
  <2>1. c \in Clear /\ file'.entries[c] = file.entries[c] /\ dirs'[c] = dirs[c] /\ open'[c] = open[c]
    BY <1>4 DEF Clear
  <2>2. c \notin CutShort(w)
    BY <1>4, CutShortIsTouched
  <2>3. (\E v \in Workers : c \in CutShort(v)) => \E v \in Workers : c \in CutShort(v)'
    BY <1>2, <2>2
  <2>4. QED
    BY <2>1, <2>3 DEF IInv, AliasOK
<1>5. Apart'
  BY <1>2 DEF IInv, Apart
<1>6. QED
  BY <1>3, <1>4, <1>5

\* A step of request w on its way: it changes its own aliases only.
LEMMA StepKeeps ==
    ASSUME IInv, NEW w \in Busy, NEW j, job' = [job EXCEPT ![w] = j],
           j = Idle \/ (JobOK(j) /\ j.alias = job[w].alias /\ j.to = job[w].to),
           UNCHANGED <<file, up, crashes, suspect>>,
           tmp' \in Config \cup {None}, tmp' # None => CurrentOK(tmp'),
           dirs' \in [Aliases -> Pacts \cup {None, Bare}],
           open' \in [Aliases -> Pacts \cup {None}],
           \A c \in Aliases \ Touches(w) : dirs'[c] = dirs[c] /\ open'[c] = open[c],
           j # Idle => Progress(w)',
           \A c \in Touches(w) \cap Clear : AliasOK(c)'
    PROVE  IInv'
<1>1. /\ w \in Workers /\ job[w] \in Job /\ job[w] # Idle /\ JobOK(job[w]) /\ up
      /\ Touches(w) = {job[w].alias, job[w].to} /\ Touches(w) \subseteq Aliases
  BY BusyIsJob DEF IInv, Types, Busy, Touches, Job
<1>2. /\ job'[w] = j /\ job' \in [Workers -> Job \cup {Idle}]
      /\ \A v \in Workers \ {w} : job'[v] = job[v]
  BY <1>1 DEF IInv, Types, JobOK
<1>3. Touches(w)' \subseteq Touches(w)
  BY <1>1, <1>2 DEF Touches
<1>4. \A v \in Workers \ {w} : Touches(w) \cap Touches(v) \subseteq suspect'
  BY <1>1 DEF IInv, Apart
<1>5. /\ \A v \in Busy' \ {w} : v \in Busy /\ Progress(v)'
      /\ \A c \in Clear' \ Touches(w) : AliasOK(c)'
      /\ Apart'
  BY <1>1, <1>2, <1>3, <1>4, Frame
<1>6. \A v \in Busy' : Progress(v)'
  BY <1>2, <1>5 DEF Busy
<1>7. \A c \in Clear' : AliasOK(c)'
  BY <1>5 DEF Clear
<1>8. \A v \in Busy' : JobOK(job'[v])
  BY <1>2 DEF Busy, IInv, Types
<1>9. Types'
  BY <1>1, <1>2, <1>8 DEF IInv, Types, CurrentOK, Registered
<1>10. QED
  BY <1>5, <1>6, <1>7, <1>9 DEF IInv

\* Nobody else has cut short a rename of a clear alias that request w touches.
LEMMA OwnLoads ==
    ASSUME IInv, NEW w \in Busy, NEW a \in Touches(w) \cap Clear, a \notin CutShort(w),
           file.entries[a] # None
    PROVE  dirs[a] = file.entries[a]
<1>1. \A v \in Workers \ {w} : a \notin Touches(v)
  BY DEF IInv, Apart, Busy, Clear
<1>2. \A v \in Workers : a \notin CutShort(v)
  BY <1>1, CutShortIsTouched
<1>3. QED
  BY <1>2 DEF IInv, AliasOK

---------------------------------------------------------------------------
(* createPact and joinPact.                                                *)

LEMMA WithType ==
    ASSUME NEW cfg \in Config, CurrentOK(cfg), NEW a \in Aliases, NEW p \in Pacts
    PROVE  /\ With(cfg, a, p) \in Config /\ CurrentOK(With(cfg, a, p))
           /\ With(cfg, a, p).entries[a] = p
           /\ \A c \in Aliases \ {a} : With(cfg, a, p).entries[c] = cfg.entries[c]
  BY RegistryAssumption DEF With, Config, CurrentOK, Registered

LEMMA MakeKeeps ==
    ASSUME IInv, NEW w \in Workers, NEW p \in Pacts, Make(w, p)
    PROVE  IInv'
<1> DEFINE a == job[w].alias
           j == [job[w] EXCEPT !.pc = "write", !.pact = p, !.cfg = With(@, a, p)]
<1>1. w \in Busy /\ job[w].pc = "make" /\ JobOK(job[w]) /\ Progress(w)
  BY BusyIsJob DEF Make, At, Busy, IInv
<1>2. /\ job[w] \in Job /\ job[w].op \in {"create", "join"} /\ job[w].to = a /\ a \in Aliases
      /\ Touches(w) = {a} /\ job[w].cfg \in Config /\ CurrentOK(job[w].cfg)
  BY <1>1 DEF JobOK, Job, Stages, Ops, Touches, Busy
<1>3. job' = [job EXCEPT ![w] = j] /\ dirs' = [dirs EXCEPT ![a] = p]
  BY DEF Make
<1>4. /\ j.op = job[w].op /\ j.pc = "write" /\ j.alias = a /\ j.to = a /\ j.pact = p
      /\ j.behind = job[w].behind /\ j.cfg = With(job[w].cfg, a, p) /\ j \in Job /\ j # Idle
  <2>1. With(job[w].cfg, a, p) \in Config
    BY <1>2, WithType
  <2>2. j \in Job
    BY <1>2, <2>1 DEF Job
  <2>3. QED
    BY <1>2, <2>2, IdleIsNoJob DEF Job
<1>5. JobOK(j)
  BY <1>2, <1>4, WithType, RegistryAssumption DEF JobOK, Stages
<1>6. UNCHANGED <<file, tmp, open, up, crashes, suspect>>
  BY DEF Make
<1>7. job'[w] = j /\ Touches(w)' = {a}
  BY <1>2, <1>3, <1>4 DEF IInv, Types, Touches
<1>8. UpToDate(w)'
  BY <1>1, <1>2, <1>4, <1>6, <1>7, WithType DEF Progress, UpToDate
<1>9. Creating(w)'
  BY <1>1, <1>2, <1>3, <1>4, <1>6, <1>7 DEF Progress, Creating, Clear, IInv, Types
<1>10. Progress(w)'
  BY <1>2, <1>4, <1>7, <1>8, <1>9 DEF Progress, Switching, Removing, Renaming, Loading
<1>11. \A c \in Touches(w) \cap Clear : AliasOK(c)'
  BY <1>1, <1>2, <1>6 DEF Progress, Creating, AliasOK, IInv
<1>12. QED
  BY <1>1, <1>2, <1>3, <1>4, <1>5, <1>6, <1>10, <1>11, StepKeeps DEF IInv, Types

LEMMA MakeFailsKeeps ==
    ASSUME IInv, NEW w \in Workers, MakeFails(w)
    PROVE  IInv'
<1>1. w \in Busy /\ job[w].pc = "make" /\ JobOK(job[w]) /\ Progress(w)
  BY BusyIsJob DEF MakeFails, At, Busy, IInv
<1>2. job' = [job EXCEPT ![w] = Idle] /\ UNCHANGED <<file, tmp, dirs, open, up, crashes, suspect>>
  BY DEF MakeFails, Done, disk
<1>3. \A c \in Touches(w) \cap Clear : AliasOK(c)'
  BY <1>1, <1>2 DEF Progress, Creating, AliasOK, IInv, JobOK, Job, Stages, Ops, Touches
<1>4. QED
  BY <1>1, <1>2, <1>3, StepKeeps DEF IInv, Types

---------------------------------------------------------------------------
(* openPact.                                                               *)

LEMMA LoadKeeps ==
    ASSUME IInv, NEW w \in Workers, Load(w)
    PROVE  IInv'
<1> DEFINE a == job[w].to
<1>1. w \in Busy /\ job[w].pc = "load" /\ job[w] \in Job /\ JobOK(job[w]) /\ Progress(w)
  BY BusyIsJob DEF Load, At, Busy, IInv
<1>2. a \in Touches(w) /\ a \in Aliases /\ CutShort(w) = {}
  BY <1>1 DEF Touches, Job, Busy, CutShort, Moved
<1>3. /\ job' = [job EXCEPT ![w] = Idle] /\ UNCHANGED <<file, tmp, up, crashes, suspect>>
      /\ dirs' = [dirs EXCEPT ![a] = IF @ = None THEN Bare ELSE @]
      /\ \/ open' = [open EXCEPT ![a] = dirs[a]] /\ dirs[a] \in Pacts
         \/ open' = open
  BY DEF Load, Done, Made
<1>4. /\ dirs' \in [Aliases -> Pacts \cup {None, Bare}]
      /\ \A c \in Aliases : dirs'[c] # dirs[c] => c = a /\ dirs[c] = None
  BY <1>2, <1>3 DEF IInv, Types
<1>5. /\ open' \in [Aliases -> Pacts \cup {None}]
      /\ \A c \in Aliases : open'[c] # open[c] => c = a /\ open'[c] = dirs[c]
  BY <1>2, <1>3 DEF IInv, Types
<1>6. ASSUME NEW c \in Touches(w) \cap Clear PROVE AliasOK(c)'
  <2>1. AliasOK(c) /\ c \in Aliases
    BY DEF IInv, Clear
  <2>2. file.entries[c] # None => dirs[c] = file.entries[c]
    BY <1>1, <1>2, OwnLoads
  <2>3. file.entries[c] # None => dirs'[c] = dirs[c]
    BY <1>4, <2>1, <2>2
  <2>4. open'[c] # None => file.entries[c] = open'[c]
    <3>1. c = a => file.entries[c] # None
      BY <1>1 DEF Progress, Loading
    <3>2. QED
      BY <1>5, <2>1, <2>2, <3>1 DEF AliasOK
  <2>5. QED
    BY <1>3, <2>2, <2>3, <2>4 DEF AliasOK
<1>7. \A c \in Aliases \ Touches(w) : dirs'[c] = dirs[c] /\ open'[c] = open[c]
  BY <1>2, <1>4, <1>5
<1>8. QED
  BY <1>1, <1>3, <1>4, <1>5, <1>6, <1>7, StepKeeps DEF IInv, Types

---------------------------------------------------------------------------
(* removePact.                                                             *)

LEMMA WithoutType ==
    ASSUME NEW cfg \in Config, CurrentOK(cfg), NEW a \in Aliases, NEW c \in Remaining(cfg, a)
    PROVE  /\ Without(cfg, a, c) \in Config /\ CurrentOK(Without(cfg, a, c))
           /\ Without(cfg, a, c).entries[a] = None
           /\ \A b \in Aliases \ {a} : Without(cfg, a, c).entries[b] = cfg.entries[b]
<1>1. c \in (Registered(cfg) \ {a}) \cup {None}
  BY DEF Remaining
<1>2. Without(cfg, a, c) \in Config
  BY <1>1 DEF Without, Config, Registered
<1>3. /\ Without(cfg, a, c).entries[a] = None
      /\ \A b \in Aliases \ {a} : Without(cfg, a, c).entries[b] = cfg.entries[b]
  BY DEF Without, Config
<1>4. CurrentOK(Without(cfg, a, c))
  <2>1. Registered(Without(cfg, a, c)) = Registered(cfg) \ {a}
    BY <1>3 DEF Registered
  <2>2. QED
    BY <1>1, <2>1 DEF CurrentOK, Without
<1>5. QED
  BY <1>2, <1>3, <1>4

LEMMA LeaveKeeps ==
    ASSUME IInv, NEW w \in Workers, NEW c, Leave(w, c)
    PROVE  IInv'
<1> DEFINE a == job[w].alias
           cfg == Without(job[w].cfg, a, c)
           j == [job[w] EXCEPT !.pc = "write", !.cfg = Without(@, a, c)]
<1>1. /\ w \in Busy /\ job[w].pc = "close" /\ job[w].op = "remove" /\ job[w] \in Job
      /\ JobOK(job[w]) /\ Progress(w)
  BY BusyIsJob DEF Leave, At, Busy, IInv
<1>2. a \in Aliases /\ job[w].to = a /\ Touches(w) = {a} /\ CutShort(w) = {}
  BY <1>1 DEF Touches, Job, JobOK, Busy, CutShort, Moved
<1>3. /\ job' = [job EXCEPT ![w] = j] /\ open' = [open EXCEPT ![a] = None]
      /\ c \in Remaining(job[w].cfg, a)
      /\ UNCHANGED <<file, tmp, dirs, up, crashes, suspect>>
  BY DEF Leave, disk
<1>4. /\ cfg \in Config /\ CurrentOK(cfg) /\ cfg.entries[a] = None
      /\ \A b \in Aliases \ {a} : cfg.entries[b] = job[w].cfg.entries[b]
  <2>1. job[w].cfg \in Config /\ CurrentOK(job[w].cfg)
    BY <1>1 DEF Job, JobOK
  <2>2. QED
    BY <1>2, <1>3, <2>1, WithoutType
<1> HIDE DEF cfg
<1>5. j \in Job /\ j = [job[w] EXCEPT !.pc = "write", !.cfg = cfg]
  BY <1>1, <1>4 DEF Job, cfg
<1>6. /\ j.op = "remove" /\ j.pc = "write" /\ j.alias = a /\ j.to = a
      /\ j.behind = job[w].behind /\ j.cfg = cfg /\ j # Idle
  BY <1>1, <1>2, <1>5, IdleIsNoJob DEF Job
<1> HIDE DEF j
<1>7. JobOK(j)
  BY <1>4, <1>5, <1>6 DEF JobOK, Stages
<1>8. job'[w] = j /\ Touches(w)' = {a}
  BY <1>3, <1>6 DEF IInv, Types, Touches
<1>9. UpToDate(w)'
  BY <1>1, <1>2, <1>3, <1>4, <1>6, <1>8 DEF Progress, UpToDate
<1>10. Removing(w)'
  BY <1>1, <1>2, <1>3, <1>6, <1>8 DEF Removing, IInv, Types
<1>11. Progress(w)'
  BY <1>6, <1>8, <1>9, <1>10 DEF Progress, Creating, Switching, Renaming, Loading
<1>12. \A b \in Touches(w) \cap Clear : AliasOK(b)'
  <2>1. a \in Clear /\ file.entries[a] # None => dirs[a] = file.entries[a]
    BY <1>1, <1>2, OwnLoads
  <2>2. QED
    BY <1>2, <1>3, <2>1 DEF AliasOK, IInv, Types
<1>13. QED
  BY <1>1, <1>2, <1>3, <1>6, <1>7, <1>11, <1>12, StepKeeps DEF IInv, Types

LEMMA WipeKeeps ==
    ASSUME IInv, NEW w \in Workers, Wipe(w)
    PROVE  IInv'
<1> DEFINE a == job[w].alias
<1>1. w \in Busy /\ job[w].pc = "wipe" /\ job[w] \in Job /\ JobOK(job[w]) /\ Progress(w)
  BY BusyIsJob DEF Wipe, At, Busy, IInv
<1>2. job[w].op = "remove" /\ a \in Aliases /\ job[w].to = a /\ Touches(w) = {a}
  BY <1>1 DEF Touches, Job, JobOK, Busy, Ops, Stages
<1>3. /\ job' = [job EXCEPT ![w] = Idle] /\ dirs' = [dirs EXCEPT ![a] = None]
      /\ UNCHANGED <<file, tmp, open, up, crashes, suspect>>
  BY DEF Wipe, Done
<1>4. \A b \in Touches(w) \cap Clear : AliasOK(b)'
  BY <1>1, <1>2, <1>3 DEF Progress, Removing, AliasOK, IInv
<1>5. QED
  BY <1>1, <1>2, <1>3, <1>4, StepKeeps DEF IInv, Types

---------------------------------------------------------------------------
(* renamePact.                                                             *)

LEMMA CloseKeeps ==
    ASSUME IInv, NEW w \in Workers, Close(w)
    PROVE  IInv'
<1> DEFINE a == job[w].alias
           j == [job[w] EXCEPT !.pc = "move"]
<1>1. /\ w \in Busy /\ job[w].pc = "close" /\ job[w].op = "rename" /\ job[w] \in Job
      /\ JobOK(job[w]) /\ Progress(w)
  BY BusyIsJob DEF Close, At, Busy, IInv
<1>2. /\ a \in Aliases /\ job[w].to \in Aliases /\ Touches(w) = {a, job[w].to}
      /\ CutShort(w) = {}
  BY <1>1 DEF Touches, Job, Busy, CutShort, Moved
<1>3. /\ job' = [job EXCEPT ![w] = j] /\ open' = [open EXCEPT ![a] = None]
      /\ UNCHANGED <<file, tmp, dirs, up, crashes, suspect>>
  BY DEF Close, Goto, disk
<1>4. j \in Job
  BY <1>1 DEF Job
<1>5. /\ j.op = "rename" /\ j.pc = "move" /\ j.alias = a /\ j.to = job[w].to
      /\ j.behind = job[w].behind /\ j.cfg = job[w].cfg /\ j # Idle
  BY <1>1, <1>4, IdleIsNoJob DEF Job
<1> HIDE DEF j
<1>6. JobOK(j)
  BY <1>1, <1>4, <1>5 DEF JobOK, Stages
<1>7. job'[w] = j /\ Touches(w)' = Touches(w)
  BY <1>2, <1>3, <1>5 DEF IInv, Types, Touches
<1>8. UpToDate(w)'
  BY <1>1, <1>3, <1>5, <1>7 DEF Progress, UpToDate
<1>9. Renaming(w)'
  BY <1>1, <1>2, <1>3, <1>5, <1>7 DEF Progress, Renaming, Clear, IInv, Types
<1>10. Progress(w)'
  BY <1>5, <1>7, <1>8, <1>9 DEF Progress, Creating, Switching, Removing, Loading
<1>11. \A b \in Touches(w) \cap Clear : AliasOK(b)'
  <2>1. \A b \in Touches(w) \cap Clear : file.entries[b] # None => dirs[b] = file.entries[b]
    BY <1>1, <1>2, OwnLoads
  <2>2. QED
    BY <1>2, <1>3, <2>1 DEF AliasOK, IInv, Types
<1>12. QED
  BY <1>1, <1>2, <1>3, <1>5, <1>6, <1>10, <1>11, StepKeeps DEF IInv, Types

LEMMA RenamedType ==
    ASSUME NEW cfg \in Config, CurrentOK(cfg), NEW a \in Aliases, NEW b \in Aliases, a # b
    PROVE  /\ Renamed(cfg, a, b) \in Config /\ (cfg.entries[a] # None => CurrentOK(Renamed(cfg, a, b)))
           /\ Renamed(cfg, a, b).entries[a] = None
           /\ Renamed(cfg, a, b).entries[b] = cfg.entries[a]
           /\ \A c \in Aliases \ {a, b} : Renamed(cfg, a, b).entries[c] = cfg.entries[c]
<1>1. Renamed(cfg, a, b) \in Config
  BY DEF Renamed, Config
<1>2. /\ Renamed(cfg, a, b).entries[a] = None
      /\ Renamed(cfg, a, b).entries[b] = cfg.entries[a]
      /\ \A c \in Aliases \ {a, b} : Renamed(cfg, a, b).entries[c] = cfg.entries[c]
  BY DEF Renamed, Config
<1>3. cfg.entries[a] # None => CurrentOK(Renamed(cfg, a, b))
  <2>1. cfg.entries[a] # None =>
           b \in Registered(Renamed(cfg, a, b))
           /\ \A c \in Registered(cfg) \ {a} : c \in Registered(Renamed(cfg, a, b))
    BY <1>2 DEF Registered
  <2>2. QED
    BY <2>1 DEF CurrentOK, Renamed
<1>4. QED
  BY <1>1, <1>2, <1>3

LEMMA MoveKeeps ==
    ASSUME IInv, NEW w \in Workers, Move(w)
    PROVE  IInv'
<1> DEFINE a == job[w].alias
           b == job[w].to
           cfg == Renamed(job[w].cfg, a, b)
           j == [job[w] EXCEPT !.pc = "write", !.cfg = Renamed(@, a, b)]
<1>1. /\ w \in Busy /\ job[w].pc = "move" /\ job[w] \in Job /\ JobOK(job[w]) /\ Progress(w)
  BY BusyIsJob DEF Move, At, Busy, IInv
<1>2. /\ job[w].op = "rename" /\ a # b /\ a \in Aliases /\ b \in Aliases
      /\ Touches(w) = {a, b} /\ CutShort(w) = {} /\ job[w].cfg.entries[a] # None
  BY <1>1 DEF Touches, Job, JobOK, Stages, Ops, Busy, CutShort, Moved
<1>3. UNCHANGED <<file, tmp, open, up, crashes, suspect>>
  BY DEF Move
<1>4. \A c \in Touches(w) \cap Clear : file.entries[c] # None => dirs[c] = file.entries[c]
  BY <1>1, <1>2, OwnLoads
<1>5. CASE /\ dirs[a] # None /\ dirs[b] \in {None, Bare}
           /\ dirs' = [dirs EXCEPT ![a] = None, ![b] = dirs[a]]
           /\ job' = [job EXCEPT ![w] = j]
  <2>1. /\ cfg \in Config /\ CurrentOK(cfg) /\ cfg.entries[a] = None
        /\ cfg.entries[b] = job[w].cfg.entries[a]
        /\ \A c \in Aliases \ {a, b} : cfg.entries[c] = job[w].cfg.entries[c]
    <3>1. job[w].cfg \in Config /\ CurrentOK(job[w].cfg)
      BY <1>1 DEF Job, JobOK
    <3>2. QED
      BY <1>2, <3>1, RenamedType
  <2> HIDE DEF cfg
  <2>2. j \in Job /\ j = [job[w] EXCEPT !.pc = "write", !.cfg = cfg]
    BY <1>1, <2>1 DEF Job, cfg
  <2>3. /\ j.op = "rename" /\ j.pc = "write" /\ j.alias = a /\ j.to = b
        /\ j.behind = job[w].behind /\ j.cfg = cfg /\ j # Idle
    BY <1>1, <1>2, <2>2, IdleIsNoJob DEF Job
  <2> HIDE DEF j
  <2>4. JobOK(j)
    BY <1>2, <2>1, <2>2, <2>3 DEF JobOK, Stages
  <2>5. job'[w] = j /\ Touches(w)' = {a, b}
    BY <1>1, <1>5, <2>3 DEF IInv, Types, Touches, Busy
  <2>6. UpToDate(w)'
    BY <1>1, <1>2, <1>3, <2>1, <2>3, <2>5 DEF Progress, UpToDate
  <2>7. /\ dirs' \in [Aliases -> Pacts \cup {None, Bare}]
        /\ dirs'[a] = None /\ dirs'[b] = dirs[a]
        /\ \A c \in Aliases \ {a, b} : dirs'[c] = dirs[c]
    BY <1>2, <1>5 DEF IInv, Types
  <2>8. Renaming(w)'
    BY <1>1, <1>2, <1>3, <1>4, <2>1, <2>3, <2>5, <2>7 DEF Progress, Renaming, Clear
  <2>9. Progress(w)'
    BY <2>3, <2>5, <2>6, <2>8 DEF Progress, Creating, Switching, Removing, Loading
  <2>10. CutShort(w)' = {a, b}
    BY <1>1, <2>3, <2>5 DEF CutShort, Moved, Busy
  <2>11. \A c \in Touches(w) \cap Clear : AliasOK(c)'
    BY <1>1, <1>2, <1>3, <2>10 DEF AliasOK, IInv, Busy
  <2>12. QED
    BY <1>1, <1>2, <1>3, <1>5, <2>3, <2>4, <2>7, <2>9, <2>11, StepKeeps DEF IInv, Types
<1>6. CASE job' = [job EXCEPT ![w] = Idle] /\ dirs' = dirs
  <2>1. \A c \in Touches(w) \cap Clear : AliasOK(c)'
    BY <1>3, <1>4, <1>6 DEF AliasOK, IInv
  <2>2. QED
    BY <1>1, <1>3, <1>6, <2>1, StepKeeps DEF IInv, Types
<1>7. QED
  BY <1>5, <1>6 DEF Move, Done

---------------------------------------------------------------------------
(* saveDaemonConfig.                                                       *)

LEMMA WriteKeeps ==
    ASSUME IInv, NEW w \in Workers, Write(w)
    PROVE  IInv'
<1> DEFINE j == [job[w] EXCEPT !.pc = "commit"]
<1>1. /\ w \in Busy /\ job[w].pc = "write" /\ job[w] \in Job /\ JobOK(job[w]) /\ Progress(w)
  BY BusyIsJob DEF Write, At, Busy, IInv
<1>2. Touches(w) = {job[w].alias, job[w].to} /\ Touches(w) \subseteq Aliases
  BY <1>1 DEF Touches, Job, Busy
<1>3. /\ job' = [job EXCEPT ![w] = j] /\ tmp' = job[w].cfg
      /\ UNCHANGED <<file, dirs, open, up, crashes, suspect>>
  BY DEF Write, Goto
<1>4. j \in Job
  BY <1>1 DEF Job
<1>5. /\ j.op = job[w].op /\ j.pc = "commit" /\ j.alias = job[w].alias /\ j.to = job[w].to
      /\ j.behind = job[w].behind /\ j.cfg = job[w].cfg /\ j.pact = job[w].pact /\ j # Idle
  BY <1>1, <1>4, IdleIsNoJob DEF Job
<1> HIDE DEF j
<1>6. JobOK(j)
  <2>1. j.pc \in Stages(j.op)
    BY <1>1, <1>5 DEF JobOK, Stages, Job, Ops
  <2>2. QED
    BY <1>1, <1>4, <1>5, <2>1 DEF JobOK
<1>7. job'[w] = j /\ Touches(w)' = Touches(w)
  BY <1>2, <1>3, <1>5 DEF IInv, Types, Touches
<1>8. UpToDate(w)'
  BY <1>1, <1>3, <1>5, <1>7 DEF Progress, UpToDate
<1>9. Creating(w)' /\ Switching(w)' /\ Removing(w)' /\ Loading(w)'
  BY <1>1, <1>2, <1>3, <1>5, <1>7 DEF Progress, Creating, Switching, Removing, Loading, Clear
<1>10. Renaming(w)'
  BY <1>1, <1>2, <1>3, <1>5, <1>7 DEF Progress, Renaming, Clear
<1>11. CutShort(w)' = CutShort(w)
  BY <1>1, <1>5, <1>7 DEF CutShort, Moved, Busy
<1>12. \A v \in Workers \ {w} : CutShort(v)' = CutShort(v)
  BY <1>3 DEF CutShort, Moved, IInv, Types
<1>13. \A c \in Touches(w) \cap Clear : AliasOK(c)'
  BY <1>1, <1>3, <1>11, <1>12 DEF AliasOK, IInv
<1>14. job[w].cfg \in Config /\ CurrentOK(job[w].cfg)
  BY <1>1 DEF Job, JobOK
<1>15. QED
  BY <1>1, <1>3, <1>5, <1>6, <1>8, <1>9, <1>10, <1>13, <1>14, StepKeeps DEF Progress, IInv, Types

\* What a save leaves of the job of w.
LEMMA RestType ==
    ASSUME IInv, NEW w \in Busy, job[w].pc = "commit"
    PROVE  \/ Rest(w) = Idle /\ job[w].op # "remove"
           \/ /\ Rest(w) \in Job /\ Rest(w).op = job[w].op /\ Rest(w).alias = job[w].alias
              /\ Rest(w).to = job[w].to /\ JobOK(Rest(w)) /\ Rest(w) # Idle
              /\ \/ job[w].op = "remove" /\ Rest(w).pc = "wipe"
                 \/ job[w].op = "rename" /\ Rest(w).pc = "load"
<1>1. NoCopy \in Config /\ CurrentOK(NoCopy)
  BY DEF NoCopy, Config, CurrentOK
<1>2. w \in Workers /\ job[w] \in Job /\ JobOK(job[w])
  BY BusyIsJob DEF IInv, Busy
<1>3. CASE job[w].op = "remove"
  <2> DEFINE j == [job[w] EXCEPT !.pc = "wipe", !.cfg = NoCopy]
  <2>1. j \in Job
    BY <1>1, <1>2 DEF Job
  <2>2. /\ j.op = "remove" /\ j.alias = job[w].alias /\ j.to = job[w].to
        /\ j.pc = "wipe" /\ j.cfg = NoCopy /\ j # Idle
    BY <1>2, <1>3, <2>1, IdleIsNoJob DEF Job
  <2> HIDE DEF j
  <2>3. JobOK(j)
    BY <1>1, <1>2, <1>3, <2>1, <2>2 DEF JobOK, Stages
  <2>4. Rest(w) = j
    BY <1>3 DEF Rest, j
  <2>5. QED
    BY <1>3, <2>1, <2>2, <2>3, <2>4
<1>4. CASE job[w].op = "rename" /\ job[w].held
  <2> DEFINE j == [job[w] EXCEPT !.pc = "load", !.cfg = NoCopy]
  <2>1. j \in Job
    BY <1>1, <1>2 DEF Job
  <2>2. /\ j.op = "rename" /\ j.alias = job[w].alias /\ j.to = job[w].to
        /\ j.pc = "load" /\ j.cfg = NoCopy /\ j # Idle
    BY <1>2, <1>4, <2>1, IdleIsNoJob DEF Job
  <2> HIDE DEF j
  <2>3. JobOK(j)
    BY <1>1, <1>2, <1>4, <2>1, <2>2 DEF JobOK, Stages
  <2>4. Rest(w) = j
    BY <1>4 DEF Rest, j
  <2>5. QED
    BY <1>4, <2>1, <2>2, <2>3, <2>4
<1>5. CASE job[w].op # "remove" /\ ~(job[w].op = "rename" /\ job[w].held)
  BY <1>5 DEF Rest
<1>6. QED
  BY <1>3, <1>4, <1>5

\* A commit saves what request w wants, for every alias it does not clobber: the
\* copy agrees with the file but for the aliases of w.
LEMMA CommitSaves ==
    ASSUME IInv, NEW w \in Busy, job[w].pc = "commit", tmp \in Config,
           NEW c \in Aliases \ Clobbered(w)
    PROVE  /\ c \notin Touches(w) => tmp.entries[c] = file.entries[c]
           /\ c \in Touches(w) => tmp.entries[c] = job[w].cfg.entries[c]
<1>1. w \in Workers /\ job[w] \in Job /\ UpToDate(w)
  BY BusyIsJob DEF IInv, Busy, Progress
<1>2. CASE job[w].behind \/ tmp # job[w].cfg
  BY <1>2 DEF Clobbered, Wanted
<1>3. CASE ~job[w].behind /\ tmp = job[w].cfg
  BY <1>1, <1>3 DEF UpToDate
<1>4. QED
  BY <1>2, <1>3

LEMMA CommitKeeps ==
    ASSUME IInv, NEW w \in Workers, Commit(w)
    PROVE  IInv'
<1> DEFINE a == job[w].alias
           b == job[w].to
<1>1. /\ w \in Busy /\ job[w].pc = "commit" /\ job[w] \in Job /\ JobOK(job[w]) /\ Progress(w)
  BY BusyIsJob DEF Commit, At, Busy, IInv
<1>2. /\ a \in Aliases /\ b \in Aliases /\ Touches(w) = {a, b}
      /\ job[w].op # "rename" => a = b
  BY <1>1 DEF Touches, Job, JobOK, Busy
<1>3. UNCHANGED <<dirs, up, crashes>> /\ up
  BY <1>1 DEF Commit, IInv, Types
<1>4. \A v \in Workers \ {w} : Touches(w) \cap Touches(v) \subseteq suspect
  BY DEF IInv, Apart
<1>5. CASE tmp = None
  <2>1. /\ job' = [job EXCEPT ![w] = Idle] /\ suspect' = suspect \cup CutShort(w)
        /\ UNCHANGED <<file, tmp, open>>
    BY <1>5 DEF Commit, Done
  <2>2. /\ job' \in [Workers -> Job \cup {Idle}] /\ job'[w] = Idle
        /\ \A v \in Workers \ {w} : job'[v] = job[v]
    BY <2>1 DEF IInv, Types
  <2>3. Touches(w)' = {}
    BY <2>2 DEF Touches
  <2>4. suspect' \subseteq Aliases
    BY <1>2, <2>1, CutShortIsTouched DEF IInv, Types
  <2>5. /\ \A v \in Busy' \ {w} : v \in Busy /\ Progress(v)'
        /\ \A c \in Clear' \ Touches(w) : AliasOK(c)'
        /\ Apart'
    BY <1>1, <1>2, <1>3, <1>4, <2>1, <2>2, <2>3, Frame
  <2>6. \A c \in Clear' \cap Touches(w) : AliasOK(c)'
    <3> TAKE c \in Clear' \cap Touches(w)
    <3>1. c \in Touches(w) \cap Clear /\ c \notin CutShort(w)
      BY <2>1 DEF Clear
    <3>2. file.entries[c] # None => dirs[c] = file.entries[c]
      BY <1>1, <3>1, OwnLoads
    <3>3. QED
      BY <1>3, <2>1, <3>1, <3>2 DEF AliasOK, IInv
  <2>7. w \notin Busy'
    BY <2>2 DEF Busy
  <2>8. Types'
    BY <1>3, <2>1, <2>2, <2>4 DEF IInv, Types, CurrentOK, Registered, Busy
  <2>9. QED
    BY <2>5, <2>6, <2>7, <2>8 DEF IInv, Clear
<1>6. CASE tmp # None
  <2>1. /\ file' = tmp /\ tmp' = None
        /\ suspect' = suspect \cup Clobbered(w) \cup PassedOn(w) /\ Saved(w)
        /\ open' = IF job[w].op \in {"create", "join"}
                   THEN [open EXCEPT ![a] = job[w].pact] ELSE open
    BY <1>6 DEF Commit
  <2>2. tmp \in Config /\ CurrentOK(tmp)
    BY <1>6 DEF IInv, Types
  <2>3. /\ job'[w] = Rest(w)
        /\ \A v \in Workers \ {w} :
              job'[v] = IF v \in Busy /\ job[v].pc \notin {"wipe", "load"}
                        THEN [job[v] EXCEPT !.behind = TRUE] ELSE job[v]
    BY <2>1 DEF Saved
  <2>4. \/ job'[w] = Idle /\ job[w].op # "remove"
        \/ /\ job'[w] \in Job /\ job'[w].op = job[w].op /\ job'[w].alias = a
           /\ job'[w].to = b /\ JobOK(job'[w]) /\ job'[w] # Idle
           /\ \/ job[w].op = "remove" /\ job'[w].pc = "wipe"
              \/ job[w].op = "rename" /\ job'[w].pc = "load"
    BY <1>1, <2>3, RestType
  <2>5. Touches(w)' \subseteq Touches(w)
    BY <1>2, <2>4 DEF Touches
  <2>6. suspect' \subseteq Aliases /\ suspect \subseteq suspect'
    BY <1>2, <2>1 DEF Clobbered, PassedOn, IInv, Types
  <2>7. \A c \in Clear' :
           /\ c \notin Touches(w) => file'.entries[c] = file.entries[c]
           /\ c \in Touches(w) => file'.entries[c] = job[w].cfg.entries[c]
    BY <1>1, <2>1, <2>2, CommitSaves DEF Clear
  <2>8. \A c \in Clear' \cap Touches(w) : Touches(w) \subseteq Clear
    BY <1>2, <2>1 DEF PassedOn, Clear
  <2>9. \A v \in Workers \ {w} :
           \/ job'[v] = job[v] /\ (job[v] = Idle \/ job[v].pc \in {"wipe", "load"} \/ file' = file)
           \/ v \in Busy /\ job'[v] = [job[v] EXCEPT !.behind = TRUE]
    BY <2>3 DEF Busy
  <2>10. /\ open' \in [Aliases -> Pacts \cup {None}]
         /\ \A c \in Aliases \ Touches(w) : open'[c] = open[c]
         /\ job[w].op \in {"create", "join"} => open'[a] = job[w].pact
         /\ job[w].op \notin {"create", "join"} => open' = open
    BY <1>1, <1>2, <2>1 DEF IInv, Types, Job
  <2>11. /\ \A v \in Busy' \ {w} : v \in Busy /\ Progress(v)'
         /\ \A c \in Clear' \ Touches(w) : AliasOK(c)'
         /\ Apart'
    <3>1. \A c \in Aliases \ (Touches(w) \cup suspect') :
             file'.entries[c] = file.entries[c] /\ dirs'[c] = dirs[c] /\ open'[c] = open[c]
      BY <1>3, <2>7, <2>10 DEF Clear
    <3>2. \A v \in Workers \ {w} : Touches(w) \cap Touches(v) \subseteq suspect'
      BY <1>4, <2>6
    <3>3. QED
      BY <1>2, <2>5, <2>6, <2>9, <3>1, <3>2, Frame
  <2>12. w \in Busy' => Progress(w)'
    <3> SUFFICES ASSUME w \in Busy' PROVE Progress(w)'
      OBVIOUS
    <3>1. /\ job'[w].op = job[w].op /\ job'[w].alias = a /\ job'[w].to = b
          /\ \/ job[w].op = "remove" /\ job'[w].pc = "wipe"
             \/ job[w].op = "rename" /\ job'[w].pc = "load"
      BY <2>4 DEF Busy
    <3>2. UpToDate(w)' /\ Creating(w)' /\ Switching(w)'
      BY <3>1 DEF UpToDate, Creating, Switching
    <3>3. Removing(w)'
      <4>1. job[w].op = "remove" => job[w].cfg.entries[a] = None
        BY <1>1 DEF JobOK
      <4>2. QED
        BY <1>1, <1>2, <2>6, <2>7, <2>10, <3>1, <4>1 DEF Removing, Progress, Clear
    <3>4. Renaming(w)'
      BY <3>1 DEF Renaming
    <3>5. Loading(w)'
      <4>1. job[w].op = "rename" => job[w].cfg.entries[b] # None
        BY <1>1 DEF JobOK
      <4>2. QED
        BY <1>2, <2>7, <3>1, <4>1 DEF Loading
    <3>6. QED
      BY <3>2, <3>3, <3>4, <3>5 DEF Progress
  <2>13. ASSUME NEW c \in Clear' \cap Touches(w) PROVE AliasOK(c)'
    <3>1. /\ c \in Clear /\ Touches(w) \subseteq Clear /\ c \in Touches(w) \cap Clear
          /\ file'.entries[c] = job[w].cfg.entries[c] /\ AliasOK(c)
      BY <2>6, <2>7, <2>8 DEF Clear, IInv
    <3>2. job[w].op # "rename" /\ file.entries[c] # None => dirs[c] = file.entries[c]
      BY <1>1, <3>1, OwnLoads DEF CutShort, Moved
    <3>3. CASE job[w].op \in {"create", "join"}
      BY <1>1, <1>2, <1>3, <2>10, <3>1, <3>3 DEF AliasOK, Progress, Creating, JobOK
    <3>4. CASE job[w].op = "switch"
      BY <1>1, <1>2, <1>3, <2>10, <3>1, <3>2, <3>4 DEF AliasOK, Progress, Switching
    <3>5. CASE job[w].op = "remove"
      BY <1>1, <1>2, <1>3, <2>10, <3>1, <3>5 DEF AliasOK, Progress, Removing, JobOK
    <3>6. CASE job[w].op = "rename"
      <4>1. /\ job[w].cfg.entries[a] = None /\ open[a] = None /\ file.entries[b] = None
            /\ dirs[b] = job[w].cfg.entries[b] /\ a # b
        BY <1>1, <1>2, <3>1, <3>6 DEF Progress, Renaming, JobOK
      <4>2. open[b] = None
        BY <1>2, <3>1, <4>1 DEF IInv, AliasOK
      <4>3. QED
        BY <1>2, <1>3, <2>10, <3>1, <3>6, <4>1, <4>2 DEF AliasOK
    <3>7. QED
      BY <1>1, <3>3, <3>4, <3>5, <3>6 DEF JobOK, Stages, Job, Ops
  <2>14. job' \in [Workers -> Job \cup {Idle}] /\ \A v \in Busy' : JobOK(job'[v])
    <3>1. \A v \in Workers \ {w} :
             job'[v] \in Job \cup {Idle} /\ (job'[v] # Idle => JobOK(job'[v]))
      <4> TAKE v \in Workers \ {w}
      <4>1. CASE job'[v] = job[v]
        BY <4>1 DEF IInv, Types, Busy
      <4>2. CASE v \in Busy /\ job'[v] = [job[v] EXCEPT !.behind = TRUE]
        <5>1. job[v] \in Job /\ JobOK(job[v])
          BY <4>2, BusyIsJob DEF IInv, Busy
        <5>2. job'[v] \in Job
          BY <4>2, <5>1 DEF Job
        <5>3. /\ job'[v].op = job[v].op /\ job'[v].pc = job[v].pc
              /\ job'[v].alias = job[v].alias /\ job'[v].to = job[v].to
              /\ job'[v].cfg = job[v].cfg /\ job'[v].pact = job[v].pact
          BY <4>2, <5>1 DEF Job
        <5>4. QED
          BY <5>1, <5>2, <5>3 DEF JobOK
      <4>3. QED
        BY <2>9, <4>1, <4>2
    <3>2. job'[w] \in Job \cup {Idle} /\ (job'[w] # Idle => JobOK(job'[w]))
      BY <2>4
    <3>3. \A v \in Workers : job'[v] \in Job \cup {Idle}
      BY <3>1, <3>2
    <3>4. job' \in [Workers -> Job \cup {Idle}]
      BY <2>1, <3>3 DEF Saved
    <3>5. QED
      BY <3>1, <3>2, <3>4 DEF Busy
  <2>15. Types'
    BY <1>3, <2>1, <2>2, <2>6, <2>10, <2>14 DEF IInv, Types, CurrentOK, Registered
  <2>16. QED
    BY <2>11, <2>12, <2>13, <2>15 DEF IInv, Clear
<1>7. QED
  BY <1>5, <1>6

---------------------------------------------------------------------------
(* A request begins.                                                       *)

\* Whoever is under way on its aliases makes them suspect; a directory is made
\* only where none was.
LEMMA BeginKeeps ==
    ASSUME IInv, NEW w \in Workers, job[w] = Idle, up, NEW j, JobOK(j),
           job' = [job EXCEPT ![w] = j],
           suspect' = suspect \cup Contended(w, {j.alias, j.to}),
           UNCHANGED <<file, tmp, open, up, crashes>>,
           dirs' = dirs \/ (dirs' = Made(j.alias) /\ file.entries[j.alias] = None),
           Progress(w)'
    PROVE  IInv'
<1> DEFINE T == {j.alias, j.to}
<1>1. j \in Job /\ T \subseteq Aliases /\ j # Idle /\ Touches(w) = {} /\ CutShort(w) = {}
  BY IdleIsNoJob DEF JobOK, Job, Touches, CutShort, Moved
<1>2. /\ job'[w] = j /\ job' \in [Workers -> Job \cup {Idle}]
      /\ \A v \in Workers \ {w} : job'[v] = job[v]
  BY <1>1 DEF IInv, Types
<1>3. Touches(w)' = T
  BY <1>1, <1>2 DEF Touches
<1>4. /\ dirs' \in [Aliases -> Pacts \cup {None, Bare}]
      /\ \A c \in Aliases : dirs'[c] # dirs[c] => c \in T /\ file.entries[c] = None
  BY <1>1 DEF Made, IInv, Types
<1>5. \A v \in Workers \ {w} : T \cap Touches(v) \subseteq suspect'
  BY DEF Contended
<1>6. suspect' \subseteq Aliases /\ suspect \subseteq suspect'
  BY <1>1 DEF Contended, IInv, Types
<1>7. /\ \A v \in Busy' \ {w} : v \in Busy /\ Progress(v)'
      /\ \A c \in Clear' \ T : AliasOK(c)'
      /\ Apart'
  BY <1>1, <1>2, <1>3, <1>4, <1>5, <1>6, Frame
<1>8. ASSUME NEW c \in Clear' PROVE AliasOK(c)'
  <2>1. c \in Aliases /\ AliasOK(c)
    BY <1>6 DEF Clear, IInv
  <2>2. (\E v \in Workers : c \in CutShort(v)) => \E v \in Workers : c \in CutShort(v)'
    BY <1>1, <1>2 DEF CutShort, Moved
  <2>3. QED
    BY <1>4, <2>1, <2>2 DEF AliasOK
<1>9. \A v \in Busy' : Progress(v)'
  BY <1>7
<1>10. \A v \in Busy' : JobOK(job'[v])
  BY <1>2 DEF Busy, IInv, Types
<1>11. Types'
  BY <1>2, <1>4, <1>6, <1>10 DEF IInv, Types, CurrentOK, Registered
<1>12. QED
  BY <1>7, <1>8, <1>9, <1>11 DEF IInv

\* The request that Begin starts.
Started(w, j, op, pc, a, b, cfg) ==
    /\ job' = [job EXCEPT ![w] = j] /\ job'[w] = j /\ Touches(w)' = {a, b}
    /\ j.op = op /\ j.pc = pc /\ j.alias = a /\ j.to = b /\ ~j.behind /\ j.cfg = cfg
    /\ job[w] = Idle /\ up
    /\ suspect' = suspect \cup Contended(w, {j.alias, j.to})
    /\ UNCHANGED <<up, crashes>>

LEMMA BeginType ==
    ASSUME IInv, NEW w \in Workers, NEW op \in Ops,
           NEW pc \in {"make", "load", "close", "wipe", "move", "write", "commit"},
           NEW a \in Aliases, NEW b \in Aliases, NEW held \in BOOLEAN, NEW cfg \in Config,
           Begin(w, op, pc, a, b, held, cfg)
    PROVE  \E j \in Job : Started(w, j, op, pc, a, b, cfg)
<1> DEFINE j == [op |-> op, pc |-> pc, alias |-> a, to |-> b, held |-> held,
                 behind |-> FALSE, cfg |-> cfg, pact |-> None]
<1>1. j \in Job
  BY DEF Job
<1>2. /\ job' = [job EXCEPT ![w] = j] /\ job[w] = Idle /\ up
      /\ suspect' = suspect \cup Contended(w, {a, b}) /\ UNCHANGED <<up, crashes>>
  BY DEF Begin, MayBegin
<1>3. job'[w] = j /\ j # Idle
  BY <1>1, <1>2, IdleIsNoJob DEF IInv, Types
<1>4. Touches(w)' = {a, b}
  BY <1>3 DEF Touches
<1>5. Started(w, j, op, pc, a, b, cfg)
  BY <1>2, <1>3, <1>4 DEF Started
<1>6. QED
  BY <1>1, <1>5

LEMMA CreateKeeps ==
    ASSUME IInv, NEW w \in Workers, NEW a \in Aliases, Create(w, a)
    PROVE  IInv'
<1>1. /\ file \in Config /\ CurrentOK(file) /\ file.entries[a] = None
      /\ Begin(w, "create", "make", a, a, FALSE, file)
      /\ dirs' = Made(a) /\ UNCHANGED <<file, tmp, open>>
  BY DEF Create, IInv, Types
<1>2. PICK j \in Job : Started(w, j, "create", "make", a, a, file)
  BY <1>1, BeginType DEF Ops
<1>3. JobOK(j)
  BY <1>1, <1>2 DEF JobOK, Stages, Started
<1>4. Progress(w)'
  BY <1>1, <1>2 DEF Started, Progress, UpToDate, Creating, Switching, Removing, Renaming, Loading
<1>5. QED
  BY <1>1, <1>2, <1>3, <1>4, BeginKeeps DEF Started

LEMMA JoinKeeps ==
    ASSUME IInv, NEW w \in Workers, NEW a \in Aliases, NEW p \in Pacts, Join(w, a, p)
    PROVE  IInv'
<1> DEFINE j == [op |-> "join", pc |-> "make", alias |-> a, to |-> a, held |-> FALSE,
                 behind |-> FALSE, cfg |-> file, pact |-> p]
<1>1. /\ file \in Config /\ CurrentOK(file) /\ file.entries[a] = None
      /\ job' = [job EXCEPT ![w] = j] /\ up /\ job[w] = Idle
      /\ suspect' = suspect \cup Contended(w, {a})
      /\ dirs' = Made(a) /\ UNCHANGED <<file, tmp, open, up, crashes>>
  BY DEF Join, MayBegin, IInv, Types
<1>2. j \in Job /\ j # Idle
  <2>1. j \in Job
    BY <1>1 DEF Job, Ops
  <2>2. QED
    BY <2>1, IdleIsNoJob
<1>3. JobOK(j)
  BY <1>1, <1>2 DEF JobOK, Stages, Started
<1>4. job'[w] = j /\ Touches(w)' = {a}
  BY <1>1, <1>2 DEF IInv, Types, Touches
<1>5. Progress(w)'
  BY <1>1, <1>4 DEF Started, Progress, UpToDate, Creating, Switching, Removing, Renaming, Loading
<1>6. j.alias = a /\ j.to = a /\ {j.alias, j.to} = {a}
  OBVIOUS
<1> HIDE DEF j
<1>7. QED
  BY <1>1, <1>3, <1>5, <1>6, BeginKeeps DEF Started

LEMMA SwitchKeeps ==
    ASSUME IInv, NEW w \in Workers, NEW a \in Aliases, Switch(w, a)
    PROVE  IInv'
<1> DEFINE cfg == [file EXCEPT !.current = a]
<1>1. /\ file \in Config /\ CurrentOK(file) /\ file.entries[a] # None
      /\ Begin(w, "switch", "write", a, a, FALSE, cfg)
      /\ UNCHANGED <<file, tmp, dirs, open>>
  BY DEF Switch, disk, IInv, Types
<1>2. /\ cfg \in Config /\ cfg.current = a /\ cfg.entries = file.entries /\ CurrentOK(cfg)
  BY <1>1 DEF Config, CurrentOK, Registered
<1> HIDE DEF cfg
<1>3. PICK j \in Job : Started(w, j, "switch", "write", a, a, cfg)
  BY <1>1, <1>2, BeginType DEF Ops
<1>4. JobOK(j)
  BY <1>2, <1>3 DEF JobOK, Stages, Started
<1>5. Progress(w)'
  BY <1>1, <1>2, <1>3 DEF Started, Progress, UpToDate, Creating, Switching, Removing, Renaming, Loading
<1>6. QED
  BY <1>1, <1>3, <1>4, <1>5, BeginKeeps DEF Started

LEMMA OpenKeeps ==
    ASSUME IInv, NEW w \in Workers, NEW a \in Aliases, Open(w, a)
    PROVE  IInv'
<1>1. /\ file.entries[a] # None /\ Begin(w, "open", "load", a, a, FALSE, NoCopy)
      /\ UNCHANGED <<file, tmp, dirs, open>>
  BY DEF Open, disk
<1>2. NoCopy \in Config /\ CurrentOK(NoCopy)
  BY DEF NoCopy, Config, CurrentOK
<1>3. PICK j \in Job : Started(w, j, "open", "load", a, a, NoCopy)
  BY <1>1, <1>2, BeginType DEF Ops
<1>4. JobOK(j)
  BY <1>2, <1>3 DEF JobOK, Stages, Started
<1>5. Progress(w)'
  BY <1>1, <1>3 DEF Started, Progress, UpToDate, Creating, Switching, Removing, Renaming, Loading
<1>6. QED
  BY <1>1, <1>3, <1>4, <1>5, BeginKeeps DEF Started

LEMMA RemoveKeeps ==
    ASSUME IInv, NEW w \in Workers, NEW a \in Aliases, Remove(w, a)
    PROVE  IInv'
<1>1. /\ file \in Config /\ CurrentOK(file) /\ UNCHANGED <<file, tmp, dirs, open>>
  BY DEF Remove, disk, IInv, Types
<1>2. CASE Begin(w, "remove", "close", a, a, TRUE, file)
  <2>1. PICK j \in Job : Started(w, j, "remove", "close", a, a, file)
    BY <1>1, <1>2, BeginType DEF Ops
  <2>2. JobOK(j)
    BY <1>1, <2>1 DEF JobOK, Stages, Started
  <2>3. Progress(w)'
    BY <1>1, <2>1 DEF Started, Progress, UpToDate, Creating, Switching, Removing, Renaming, Loading
  <2>4. QED
    BY <1>1, <2>1, <2>2, <2>3, BeginKeeps DEF Started
<1>3. ASSUME open[a] = None, NEW c \in Remaining(file, a),
             Begin(w, "remove", "write", a, a, FALSE, Without(file, a, c))
      PROVE  IInv'
  <2> DEFINE cfg == Without(file, a, c)
  <2>1. /\ cfg \in Config /\ CurrentOK(cfg) /\ cfg.entries[a] = None
        /\ \A b \in Aliases \ {a} : cfg.entries[b] = file.entries[b]
    BY <1>1, <1>3, WithoutType
  <2> HIDE DEF cfg
  <2>2. PICK j \in Job : Started(w, j, "remove", "write", a, a, cfg)
    BY <1>3, <2>1, BeginType DEF Ops, cfg
  <2>3. JobOK(j)
    BY <2>1, <2>2 DEF JobOK, Stages, Started
  <2>4. Progress(w)'
    BY <1>1, <1>3, <2>1, <2>2
       DEF Started, Progress, UpToDate, Creating, Switching, Removing, Renaming, Loading
  <2>5. QED
    BY <1>1, <2>2, <2>3, <2>4, BeginKeeps DEF Started
<1>4. QED
  BY <1>2, <1>3 DEF Remove

LEMMA RenameKeeps ==
    ASSUME IInv, NEW w \in Workers, NEW a \in Aliases, NEW b \in Aliases, Rename(w, a, b)
    PROVE  IInv'
<1> DEFINE held == open[a] # None
           pc == IF held THEN "close" ELSE "move"
<1>1. /\ file \in Config /\ CurrentOK(file) /\ a # b
      /\ file.entries[a] # None /\ file.entries[b] = None
      /\ Begin(w, "rename", pc, a, b, held, file) /\ UNCHANGED <<file, tmp, dirs, open>>
  BY DEF Rename, disk, IInv, Types
<1>2. /\ held \in BOOLEAN /\ pc \in {"close", "move"}
      /\ pc \in {"make", "load", "close", "wipe", "move", "write", "commit"}
      /\ pc # "close" => open[a] = None
  OBVIOUS
<1> HIDE DEF held, pc
<1>3. PICK j \in Job : Started(w, j, "rename", pc, a, b, file)
  BY <1>1, <1>2, BeginType DEF Ops
<1>4. JobOK(j)
  BY <1>1, <1>2, <1>3 DEF JobOK, Stages, Started
<1>5. UpToDate(w)' /\ Creating(w)' /\ Switching(w)' /\ Removing(w)' /\ Loading(w)'
  BY <1>1, <1>2, <1>3 DEF Started, UpToDate, Creating, Switching, Removing, Loading
<1>6. Renaming(w)'
  BY <1>1, <1>2, <1>3 DEF Started, Renaming
<1>7. QED
  BY <1>1, <1>3, <1>4, <1>5, <1>6, BeginKeeps DEF Progress, Started

---------------------------------------------------------------------------
(* The daemon stops, and starts again.                                     *)

LEMMA CrashKeeps == ASSUME IInv, Crash PROVE IInv'
<1>1. /\ \A w \in Workers : job'[w] = Idle
      /\ job' \in [Workers -> Job \cup {Idle}]
      /\ \A a \in Aliases : open'[a] = None
      /\ open' \in [Aliases -> Pacts \cup {None}]
      /\ UNCHANGED <<file, tmp, dirs>>
      /\ suspect' = suspect \cup UNION {CutShort(w) : w \in Workers}
  BY DEF Crash, disk
<1>2. Busy' = {} /\ \A w \in Workers : Touches(w)' = {}
  BY <1>1 DEF Busy, Touches
<1>3. \A w \in Workers : CutShort(w) \subseteq Aliases
  BY BusyIsJob DEF IInv, CutShort, Moved, Job
<1>4. suspect' \subseteq Aliases
  BY <1>1, <1>3 DEF IInv, Types
<1>5. up' \in BOOLEAN /\ crashes' \in 0..MaxCrashes
  <2>1. crashes \in 0..MaxCrashes
    BY DEF IInv, Types
  <2>2. crashes < MaxCrashes /\ crashes' = crashes + 1 /\ up' = FALSE
    BY DEF Crash
  <2>3. MaxCrashes \in Nat
    BY RegistryAssumption
  <2>4. crashes' \in 0..MaxCrashes
    BY <2>1, <2>2, <2>3
  <2>5. up' \in BOOLEAN
    BY <2>2
  <2>6. QED
    BY <2>4, <2>5
<1>6. Types'
  BY <1>1, <1>2, <1>4, <1>5 DEF IInv, Types, CurrentOK, Registered
<1>7. ASSUME NEW a \in Clear' PROVE AliasOK(a)'
  <2>1. a \in Clear /\ \A w \in Workers : a \notin CutShort(w)
    BY <1>1 DEF Clear
  <2>2. QED
    BY <1>1, <2>1 DEF IInv, AliasOK, Clear
<1>8. QED
  BY <1>2, <1>6, <1>7 DEF IInv, Apart

LEMMA RestartKeeps == ASSUME IInv, Restart PROVE IInv'
<1>1. /\ UNCHANGED <<file, tmp, dirs, job, crashes, suspect>> /\ up' = TRUE /\ Busy = {}
      /\ \A a \in Registered(file) : dirs[a] \in Pacts
      /\ open' = [a \in Aliases |-> IF file.entries[a] = None THEN None ELSE dirs[a]]
  BY DEF Restart, disk, IInv, Types
<1>2. open' \in [Aliases -> Pacts \cup {None}]
  BY <1>1 DEF Registered
<1>3. Types'
  BY <1>1, <1>2 DEF IInv, Types, CurrentOK, Registered, Busy
<1>4. \A w \in Workers : CutShort(w) = {}
  BY <1>1 DEF CutShort, Moved, Busy
<1>5. \A a \in Clear' : AliasOK(a)'
  BY <1>1, <1>4 DEF IInv, AliasOK, Clear
<1>6. Busy' = {}
  BY <1>1 DEF Busy
<1>7. Apart'
  BY <1>1 DEF IInv, Apart, Touches
<1>8. QED
  BY <1>3, <1>5, <1>6, <1>7 DEF IInv

---------------------------------------------------------------------------
(* The invariant.                                                          *)

LEMMA InitImpliesIInv == Init => IInv
<1> SUFFICES ASSUME Init PROVE IInv
  OBVIOUS
<1>1. /\ Busy = {} /\ \A w \in Workers : Touches(w) = {}
  BY DEF Init, Busy, Touches
<1>2. file \in Config /\ CurrentOK(file)
  BY DEF Init, Config, CurrentOK
<1>3. /\ dirs \in [Aliases -> Pacts \cup {None, Bare}]
      /\ open \in [Aliases -> Pacts \cup {None}]
      /\ job \in [Workers -> Job \cup {Idle}]
      /\ up \in BOOLEAN /\ crashes \in 0..MaxCrashes /\ suspect \subseteq Aliases /\ up
      /\ tmp = None
  BY RegistryAssumption DEF Init
<1>4. Types
  BY <1>1, <1>2, <1>3 DEF Types
<1>5. \A a \in Clear : AliasOK(a)
  BY DEF Init, AliasOK, Clear
<1>6. QED
  BY <1>1, <1>4, <1>5 DEF IInv, Apart

LEMMA NextKeepsIInv == IInv /\ [Next]_vars => IInv'
<1> SUFFICES ASSUME IInv, [Next]_vars PROVE IInv'
  OBVIOUS
<1>1. ASSUME NEW w \in Workers, Request(w) PROVE IInv'
  BY <1>1, CreateKeeps, JoinKeeps, SwitchKeeps, OpenKeeps, RemoveKeeps, RenameKeeps DEF Request
<1>2. ASSUME NEW w \in Workers, Proceed(w) PROVE IInv'
  BY <1>2, MakeKeeps, MakeFailsKeeps, LoadKeeps, LeaveKeeps, WipeKeeps, CloseKeeps, MoveKeeps,
     WriteKeeps, CommitKeeps DEF Proceed
<1>3. CASE UNCHANGED vars
  <2>1. UNCHANGED <<file, tmp, dirs, open, job, up, crashes, suspect>>
    BY <1>3 DEF vars, disk
  <2>2. Types' /\ Apart' /\ Busy' = Busy /\ Clear' = Clear
    BY <2>1 DEF IInv, Types, Apart, Busy, Clear, Touches, CurrentOK, Registered
  <2>3. \A w \in Busy : Progress(w)'
    BY <2>1, <2>2 DEF IInv, Progress, UpToDate, Creating, Switching, Removing, Renaming, Loading,
                      Touches
  <2>4. \A a \in Clear : AliasOK(a)'
    BY <2>1, <2>2 DEF IInv, AliasOK, CutShort, Moved
  <2>5. QED
    BY <2>2, <2>3, <2>4 DEF IInv
<1>4. QED
  BY <1>1, <1>2, <1>3, CrashKeeps, RestartKeeps DEF Next

\* The inductive invariant holds of every run: what every request has done so
\* far, and how the registry, the directories and the map follow from it.
THEOREM Invariant == Spec => []IInv
  BY InitImpliesIInv, NextKeepsIInv, PTL DEF Spec

\* The state has its type.  Beyond the shapes: the current pact of daemon.json
\* is always one of its entries, or none (config.ts, daemon.ts); and a daemon
\* that is down has no request under way and no pact open.
THEOREM TypeCorrect == Spec => []TypeOK
<1>1. IInv => TypeOK
  BY DEF IInv, Types, TypeOK, JobOK, Job, Ops, Busy, CurrentOK
<1>2. QED
  BY <1>1, Invariant, PTL

\* Every pact of the registry that no hazard has met has its directory with its
\* own configuration, at every point where the daemon may stop, but for the
\* rename that has moved the directory and is about to save (daemon.ts).
THEOREM RegistryLoads == Spec => []RegisteredLoads
<1>1. IInv => RegisteredLoads
  BY DEF IInv, RegisteredLoads, AliasOK, Clear, Registered
<1>2. QED
  BY <1>1, Invariant, PTL

\* The daemon has a pact open only under the alias it is registered under: the
\* map _pacts is never ahead of daemon.json (daemon.ts).
THEOREM OpenPactsAreRegistered == Spec => []OpenIsRegistered
<1>1. IInv => OpenIsRegistered
  BY DEF IInv, OpenIsRegistered, AliasOK, Clear
<1>2. QED
  BY <1>1, Invariant, PTL

\* A pact that no hazard has met leaves daemon.json only by the save of a
\* request that was to remove or to rename it, and a rename takes it along
\* (saveDaemonConfig after removePact and renamePact).
THEOREM RegistryKeepsItsPacts == Spec => NothingVanishes
<1> DEFINE Step(a) ==
              file'.entries[a] # file.entries[a] =>
                  \E w \in Workers :
                      /\ At(w, "commit") /\ job[w].alias = a
                      /\ \/ job[w].op = "remove"
                         \/ job[w].op = "rename" /\ file'.entries[job[w].to] = file.entries[a]
           Kept == \A a \in Registered(file) \ suspect' : Step(a)
<1>1. ASSUME IInv, [Next]_vars PROVE [Kept]_vars
  <2>1. CASE file' = file
    BY <2>1
  <2>2. ASSUME NEW w \in Workers, Commit(w) PROVE Kept
    <3> SUFFICES ASSUME NEW a \in Aliases \ suspect', file.entries[a] # None,
                        file'.entries[a] # file.entries[a]
                 PROVE  Step(a)
      BY DEF Registered
    <3>1. tmp # None
      BY <2>2 DEF Commit
    <3>2. /\ w \in Busy /\ At(w, "commit") /\ job[w].pc = "commit" /\ job[w] \in Job
          /\ JobOK(job[w]) /\ Progress(w) /\ tmp \in Config
          /\ Touches(w) = {job[w].alias, job[w].to} /\ Touches(w) \subseteq Aliases
      BY <1>1, <2>2, <3>1, BusyIsJob DEF Commit, At, Busy, IInv, Types, Touches, Job
    <3>3. file' = tmp /\ suspect' = suspect \cup Clobbered(w) \cup PassedOn(w)
      BY <2>2, <3>1 DEF Commit
    <3>4. a \in Touches(w) /\ file'.entries[a] = job[w].cfg.entries[a]
      BY <1>1, <3>2, <3>3, CommitSaves
    <3>5. Touches(w) \subseteq Clear /\ Touches(w) \cap Clobbered(w) = {}
      BY <3>2, <3>3, <3>4 DEF PassedOn, Clear
    <3>6. CASE job[w].op \in {"create", "join", "switch"}
      BY <3>2, <3>4, <3>5, <3>6 DEF Progress, Creating, Switching, JobOK
    <3>7. CASE job[w].op = "remove"
      BY <3>2, <3>4, <3>7 DEF JobOK
    <3>8. CASE job[w].op = "rename"
      <4>1. /\ file.entries[job[w].to] = None
            /\ job[w].cfg.entries[job[w].to] = file.entries[job[w].alias]
        BY <3>2, <3>5, <3>8 DEF Progress, Renaming
      <4>2. a = job[w].alias
        BY <3>2, <3>4, <4>1
      <4>3. file'.entries[job[w].to] = job[w].cfg.entries[job[w].to]
        BY <1>1, <3>2, <3>3, <3>5, CommitSaves
      <4>4. QED
        BY <3>2, <3>8, <4>1, <4>2, <4>3
    <3>9. QED
      BY <3>2, <3>6, <3>7, <3>8 DEF JobOK, Stages, Job, Ops
  <2>3. file' = file \/ \E w \in Workers : Commit(w)
    <3>1. ASSUME NEW w \in Workers, Request(w) PROVE file' = file
      BY <3>1 DEF Request, Create, Join, Switch, Open, Remove, Rename, disk
    <3>2. ASSUME NEW w \in Workers, Proceed(w) PROVE file' = file \/ Commit(w)
      BY <3>2 DEF Proceed, Make, MakeFails, Load, Leave, Wipe, Close, Move, Write, disk
    <3>3. CASE Crash \/ Restart \/ UNCHANGED vars
      BY <3>3 DEF Crash, Restart, vars, disk
    <3>4. QED
      BY <1>1, <3>1, <3>2, <3>3 DEF Next
  <2>4. QED
    BY <2>1, <2>2, <2>3
<1>2. QED
  BY <1>1, Invariant, PTL DEF Spec, NothingVanishes

============================================================================
