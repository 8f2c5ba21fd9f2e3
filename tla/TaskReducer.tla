---------------------------- MODULE TaskReducer ----------------------------
(***************************************************************************)
(* The pure part of task coordination (api/tasks-state.ts, entry-id.ts):   *)
(* the order of entry ids and the fold that turns the entries a view holds *)
(* about one task into the task's state.                                   *)
(*                                                                         *)
(* A writer is the rank of its 8-hex key prefix, a natural number, so that *)
(* comparing writers is comparing the first half of two entry ids.  An     *)
(* update's agent_id is its writer: apply() drops every other entry.       *)
(***************************************************************************)
EXTENDS Integers, Sequences, SequencesExt

CONSTANT None  \* null: no claimer, no assignee, no claim time, no result

Statuses == {"open", "claimed", "complete"}

NoTask == [status |-> "missing"]

---------------------------------------------------------------------------
(* Entry ids: `<8 hex of the writer key>-<seq>`, compared as strings.      *)

Width[n \in Nat] == IF n < 10 THEN 1 ELSE 1 + Width[n \div 10]

NumeralAfter(m, n) == m > n

\* String order of two decimal numerals: the shorter one is compared with as
\* many leading digits of the longer, so "10" comes before "9".
NumeralBefore(m, n) ==
    LET surplus == Width[n] - Width[m]
    IN CASE surplus = 0 -> m < n
         [] surplus > 0 -> m <= n \div 10^surplus
         [] surplus < 0 -> m \div 10^(-surplus) < n

IdBefore(e, f) ==
    \/ e.writer < f.writer
    \/ e.writer = f.writer /\ NumeralBefore(e.seq, f.seq)

---------------------------------------------------------------------------
(* The reducer.                                                            *)

\* Only the creating entry has no refs.
IsOriginal(e) == e.kind = "create"

InitialTaskState(original) ==
    [status |-> "open", claimed_by |-> None, claimed_at |-> None,
     assigned_to |-> original.assigned_to, result |-> None, expired |-> FALSE]

PastTtl(state, ts, ttl) ==
    /\ state.status = "claimed"
    /\ state.claimed_at # None
    /\ ts - state.claimed_at > ttl

ApplyClaim(state, update, claimExpiredByEntry) ==
    IF /\ state.status = "open" \/ claimExpiredByEntry
       /\ state.assigned_to \in {None, update.writer}
    THEN [state EXCEPT !.status = "claimed",
                       !.claimed_by = update.writer,
                       !.claimed_at = update.ts]
    ELSE state

ApplyComplete(state, update, claimExpiredByEntry) ==
    LET done == [state EXCEPT !.status = "complete",
                              !.result = <<update.writer, update.seq>>]
    IN CASE state.status = "open" -> done
         [] claimExpiredByEntry -> [done EXCEPT !.claimed_by = None]
         [] /\ state.status = "claimed"
            /\ ~claimExpiredByEntry
            /\ update.writer = state.claimed_by -> done
         [] OTHER -> state

ApplyRelease(state, update, claimExpiredByEntry) ==
    IF /\ state.status = "claimed"
       /\ ~claimExpiredByEntry
       /\ update.writer = state.claimed_by
    THEN [state EXCEPT !.status = "open",
                       !.claimed_by = None,
                       !.claimed_at = None]
    ELSE state

ApplyTaskUpdate(state, update, ttl) ==
    LET claimExpiredByEntry == PastTtl(state, update.ts, ttl)
    IN CASE update.kind = "claimed" ->
                ApplyClaim(state, update, claimExpiredByEntry)
         [] update.kind = "complete" ->
                ApplyComplete(state, update, claimExpiredByEntry)
         [] update.kind = "open" ->
                ApplyRelease(state, update, claimExpiredByEntry)
         [] OTHER -> state

ReportAtInclusive(state, ttl, now) ==
    IF state.status = "claimed" /\ now - state.claimed_at >= ttl
    THEN [state EXCEPT !.status = "open", !.claimed_by = None, !.expired = TRUE]
    ELSE state

ReportWithoutTtl(state, ttl, now) == state

\* The observer's check, after the fold: a claim past its TTL by the wall
\* clock is reported open.
ReportAt(state, ttl, now) ==
    IF PastTtl(state, now, ttl)
    THEN [state EXCEPT !.status = "open", !.claimed_by = None, !.expired = TRUE]
    ELSE state

\* The entry of a set that sorts last.
LastById(entries) == CHOOSE e \in entries : \A f \in entries \ {e} : IdBefore(f, e)

FirstOriginal(entries) ==
    CHOOSE e \in entries :
        /\ IsOriginal(e)
        /\ \A f \in entries \ {e} : IsOriginal(f) => IdBefore(e, f)

\* The fold over the entries sorted by id, original left out.  (Binding the
\* state with \in makes TLC evaluate it once a step.)
ReduceTaskHistory(entries, ttl, now) ==
    LET original == FirstOriginal(entries)
        Step(update, state) ==
            CHOOSE next \in {ApplyTaskUpdate(s, update, ttl) : s \in {state}} : TRUE
        Self(update) == update
    IN IF \A e \in entries : ~IsOriginal(e)
       THEN NoTask
       ELSE ReportAt(MapThenFoldSet(Step, InitialTaskState(original), Self,
                                    LastById, entries \ {original}),
                     ttl, now)

============================================================================
