------------------------------- MODULE Tasks -------------------------------
(***************************************************************************)
(* One task coordinated by several daemons (api/routes/tasks.ts over       *)
(* api/tasks-state.ts).  Every daemon appends to its own core; Autobase    *)
(* brings the blocks of the other cores into a daemon's view in per-writer *)
(* order and never before the blocks they depend on.  A request reads the  *)
(* view, and only later checks what it read and appends: another request   *)
(* or a delivered block may fall in between.                               *)
(*                                                                         *)
(* Clients are the concurrent HTTP requests; several may use one daemon.   *)
(***************************************************************************)
EXTENDS TaskReducer, FiniteSets

CONSTANTS
    Peers,      \* daemons, as the ranks of their writer keys
    Clients,    \* concurrent requests
    HomeOf,     \* the daemon each client talks to
    Creator,    \* the daemon the task was created on
    Assignees,  \* whom the task may be reserved for: daemons, or None
    BaseSeq,    \* blocks already in every core when the task is created
    ClaimTtl,   \* claimTtlMs
    MaxClock,   \* bound on the wall clock
    LastCall,   \* bound on the time of an append
    MaxEntries  \* bound on the entries about the task

ASSUME TasksAssumption ==
    /\ Peers \subseteq Nat \ {0} /\ IsFiniteSet(Peers)
    /\ Creator \in Peers
    /\ Assignees \subseteq Peers \cup {None}
    /\ None \notin Nat
    /\ HomeOf \in [Clients -> Peers]
    /\ BaseSeq \in Nat /\ ClaimTtl \in Nat /\ MaxClock \in Nat
    /\ LastCall \in Nat /\ MaxEntries \in Nat \ {0}

VARIABLES
    clock,      \* wall clock
    log,        \* log[p]: the task entries of p's own core
    view,       \* view[p][w]: how many of w's entries are in p's view
    request,    \* request[c]: where client c's request is
    answers     \* answers given with a 200, and refusals after an append

vars == <<clock, log, view, request, answers>>

Idle == [at |-> "idle"]

Ops == {"claimed", "complete", "open"}  \* claim, complete, release

---------------------------------------------------------------------------
(* What a view holds, and what a route reads from it.                      *)

EntriesIn(v) == UNION {{log[w][i] : i \in 1..v[w]} : w \in Peers}

AllEntries == EntriesIn([w \in Peers |-> Len(log[w])])

StateIn(v) == ReduceTaskHistory(EntriesIn(v), ClaimTtl, clock)

\* The state daemon p reports now.
GetTaskState(p) == StateIn(view[p])

SeqNo(i) == BaseSeq + i

\* `deps` are the blocks Autobase makes it wait for, `saw` (history only) the
\* ones the handler's check had read.
NewEntry(p, kind, saw) ==
    [writer |-> p, seq |-> SeqNo(Len(log[p]) + 1), kind |-> kind,
     ts |-> clock, assigned_to |-> None, deps |-> view[p], saw |-> saw]

CreateEntry(assignee) ==
    [writer |-> Creator, seq |-> SeqNo(1), kind |-> "create",
     ts |-> 0, assigned_to |-> assignee, deps |-> [p \in Peers |-> 0],
     saw |-> [p \in Peers |-> 0]]

Init ==
    /\ clock = 0
    /\ \E assignee \in Assignees :
          log = [p \in Peers |->
                    IF p = Creator THEN <<CreateEntry(assignee)>> ELSE <<>>]
    /\ view = [p \in Peers |-> [w \in Peers |-> IF {p, w} = {Creator} THEN 1 ELSE 0]]
    /\ request = [c \in Clients |-> Idle]
    /\ answers = {}

---------------------------------------------------------------------------
(* The routes' checks on the state they read.                              *)

MayClaimUnlessComplete(p, before) ==
    /\ before.status \in {"open", "claimed"}
    /\ before.assigned_to \in {None, p}

MayClaim(p, before) ==
    /\ before.status = "open"
    /\ before.assigned_to \in {None, p}

MayComplete(p, before) ==
    /\ before.status \in {"open", "claimed"}
    /\ before.status = "claimed" => before.claimed_by = p

MayRelease(p, before) ==
    /\ before.status = "claimed"
    /\ before.claimed_by = p

Passes(op, p, before) ==
    CASE op = "claimed" -> MayClaim(p, before)
      [] op = "complete" -> MayComplete(p, before)
      [] op = "open" -> MayRelease(p, before)

---------------------------------------------------------------------------
(* One request: check and append, wait, answer.                            *)

\* The views p has passed through, or may have: what a handler that started
\* to read some time ago, and was overtaken since, has read.
EarlierViews(p) ==
    {v \in [Peers -> 0..MaxEntries] :
        /\ \A w \in Peers : v[w] <= view[p][w]
        /\ \A e \in EntriesIn(v) : \A w \in Peers : e.deps[w] <= v[w]}

\* The handler checks what it read and, without giving up the thread, stamps
\* the entry and hands it to Autobase.  A check that fails answers 404 or 409
\* and changes nothing.
AppendEntry(c, op, saw) ==
    LET p == HomeOf[c]
        entry == NewEntry(p, op, saw)
    IN /\ request[c] = Idle
       /\ Cardinality(AllEntries) < MaxEntries
       /\ clock <= LastCall
       /\ Passes(op, p, StateIn(saw))
       /\ log' = [log EXCEPT ![p] = Append(@, entry)]
       /\ request' = [request EXCEPT ![c] =
                [at |-> "waiting", op |-> op, seq |-> entry.seq]]
       /\ UNCHANGED <<clock, view, answers>>

\* 200, or 409 TASK_ALREADY_CLAIMED for a claim that is not the holder.
OutcomeOf(op, p, after) ==
    IF op = "claimed" /\ ~(after.status = "claimed" /\ after.claimed_by = p)
    THEN "lost"
    ELSE "ok"

\* waitForView polls until the appended entry is in the view.  (The id it
\* looks for is derived from the length of the core after the append and may be
\* that of a later entry of the same core, which only delays the answer.)
Answer(c) ==
    LET p == HomeOf[c]
    IN /\ request[c].at = "waiting"
       /\ request[c].seq <= SeqNo(view[p][p])
       /\ answers' = answers \cup
            {[op |-> request[c].op, peer |-> p, seq |-> request[c].seq,
              outcome |-> OutcomeOf(request[c].op, p, GetTaskState(p))]}
       /\ request' = [request EXCEPT ![c] = Idle]
       /\ UNCHANGED <<clock, log, view>>

\* 504 VIEW_TIMEOUT: the entry is in the core but not seen in time.
ViewTimeout(c) ==
    /\ request[c].at = "waiting"
    /\ request' = [request EXCEPT ![c] = Idle]
    /\ UNCHANGED <<clock, log, view, answers>>

---------------------------------------------------------------------------
(* The environment: Autobase and the clock.                                *)

DeliverOutOfOrder(p, w) ==
    /\ view[p][w] < Len(log[w])
    /\ view' = [view EXCEPT ![p][w] = @ + 1]
    /\ UNCHANGED <<clock, log, request, answers>>

\* The next block of w's core enters p's view once its dependencies have.
Deliver(p, w) ==
    LET n == view[p][w] + 1
    IN /\ n <= Len(log[w])
       /\ \A x \in Peers \ {w} : log[w][n].deps[x] <= view[p][x]
       /\ view' = [view EXCEPT ![p][w] = n]
       /\ UNCHANGED <<clock, log, request, answers>>

Tick ==
    /\ clock < MaxClock
    /\ clock' = clock + 1
    /\ UNCHANGED <<log, view, request, answers>>

Next ==
    \/ \E c \in Clients :
        \/ \E op \in Ops, saw \in EarlierViews(HomeOf[c]) : AppendEntry(c, op, saw)
        \/ Answer(c)
        \/ ViewTimeout(c)
    \/ \E p, w \in Peers : Deliver(p, w)
    \/ Tick

Spec == Init /\ [][Next]_vars

\* Connected peers keep replicating, and time passes.
FairSpec ==
    /\ Spec
    /\ \A p, w \in Peers : WF_vars(Deliver(p, w))
    /\ WF_vars(Tick)

\* The daemons in step: a request starts only when every view holds every
\* block, and reads all of it.
InStep ==
    \A p \in Peers : \A w \in Peers : view[p][w] = Len(log[w])

SyncedNext ==
    \/ /\ InStep
       /\ \A c \in Clients : request[c] = Idle
       /\ \E c \in Clients, op \in Ops : AppendEntry(c, op, view[HomeOf[c]])
    \/ \E c \in Clients : Answer(c) \/ ViewTimeout(c)
    \/ \E p, w \in Peers : Deliver(p, w)
    \/ Tick

SyncedSpec == Init /\ [][SyncedNext]_vars

---------------------------------------------------------------------------
(* Properties.                                                             *)

Entry ==
    [writer : Peers, seq : Nat, kind : Ops \cup {"create"}, ts : Nat,
     assigned_to : Peers \cup {None}, deps : [Peers -> Nat], saw : [Peers -> Nat]]

Request ==
    {Idle}
    \cup [at : {"waiting"}, op : Ops, seq : Nat]

AnswerRecord ==
    [op : Ops, peer : Peers, seq : Nat, outcome : {"ok", "lost"}]

\* Types, and what Autobase guarantees of a view: it never runs ahead of a
\* core, and it holds the dependencies of every block it holds.
TypeOK ==
    /\ clock \in Nat
    /\ log \in [Peers -> Seq(Entry)]
    /\ view \in [Peers -> [Peers -> Nat]]
    /\ \A p, w \in Peers : view[p][w] <= Len(log[w])
    /\ \A p, w \in Peers : \A e \in EntriesIn(view[p]) : e.deps[w] <= view[p][w]
    /\ request \in [Clients -> Request]
    /\ answers \subseteq AnswerRecord

\* The route's check and the reducer agree: when a view that holds all of its
\* own daemon's entries shows a claimable task, a claim appended now by that
\* daemon holds the task in that view, wherever its id sorts among the entries
\* already there (tasks.ts claim, tasks-state.ts applyTaskUpdate).
OpenIsClaimable ==
    \A p \in Peers :
        (view[p][p] = Len(log[p]) /\ MayClaim(p, GetTaskState(p))) =>
            LET after == ReduceTaskHistory(
                            EntriesIn(view[p]) \cup {NewEntry(p, "claimed", view[p])},
                            ClaimTtl, clock)
            IN after.status = "claimed" /\ after.claimed_by = p

EntryOf(a) == log[a.peer][a.seq - BaseSeq]

Saw(e, f) == f.seq - BaseSeq <= e.saw[f.writer]

\* Neither of the two handlers had read the other's entry.
Unseen(e, f) == ~Saw(e, f) /\ ~Saw(f, e)

Stands(a, state) ==
    CASE a.op = "claimed" -> state.status = "claimed" /\ state.claimed_by = a.peer
      [] a.op = "complete" -> state.status = "complete"
      [] a.op = "open" -> state.status = "claimed" => state.claimed_by # a.peer

\* What a 200 told a client stays true in every view that holds its entry,
\* until the daemon itself moves on, the claim runs past its TTL, or the view
\* receives an entry whose handler had not read it and which it had not read.
AnswerStands ==
    \A a \in answers : \A q \in Peers :
        LET e == EntryOf(a)
            known == EntriesIn(view[q])
        IN (a.outcome = "ok" /\ e \in known) =>
             \/ Stands(a, GetTaskState(q))
             \/ a.op = "claimed" /\ clock - e.ts > ClaimTtl
             \/ \E f \in known : f.writer = a.peer /\ f.seq > a.seq
             \/ \E f \in known \ {e} : Unseen(e, f)

\* The state of all the entries there are.
GlobalState == ReduceTaskHistory(AllEntries, ClaimTtl, clock)

\* README, "Claims are race-safe": a claim answered 409 TASK_ALREADY_CLAIMED
\* is rejected.  A daemon told so, which has appended nothing since, is not the
\* claimer once every entry is known.
LostClaimStaysLost ==
    \A a \in answers :
        (a.outcome = "lost" /\ SeqNo(Len(log[a.peer])) = a.seq) =>
            ~(GlobalState.status = "claimed" /\ GlobalState.claimed_by = a.peer)

\* tasks-state.ts, lifecycle: "claimed -> open (only the claimer can release)".
\* A daemon whose release was answered 200, and which has appended nothing
\* since, is not the claimer.
ReleaseReopens ==
    \A a \in answers :
        (a.op = "open" /\ SeqNo(Len(log[a.peer])) = a.seq) =>
            ~(GlobalState.status = "claimed" /\ GlobalState.claimed_by = a.peer)

\* README, Features: "Tasks auto-expire; claims never deadlock".  Whatever
\* claimers do, no view reports the task claimed for ever.
NoClaimDeadlock == <>[](\A p \in Peers : GetTaskState(p).status # "claimed")

Board == INSTANCE TaskBoard WITH
    status <- GlobalState.status,
    claimed_by <- GlobalState.claimed_by,
    assigned_to <- GlobalState.assigned_to

\* Every handler had read all the entries appended before its own.
NoneUnseen == \A e, f \in AllEntries : e # f => ~Unseen(e, f)

\* README, "Task state machine".  As long as nothing is appended blindly, the
\* state of all the entries moves as one shared board does, in spite of a fold
\* by entry id, not in the order of the appends, of claims that run out by the
\* clock, and of views that lag behind the cores.
ImplementsBoard ==
    /\ Board!Init
    /\ [][~NoneUnseen' \/ Board!Next]_(Board!board)

============================================================================
