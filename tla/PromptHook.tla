----------------------------- MODULE PromptHook -----------------------------
(***************************************************************************)
(* The hook that tells an agent, before each prompt, what its peers wrote  *)
(* since the last one (cli/src/commands/hook.ts, lib/hook-cursor.ts).      *)
(*                                                                         *)
(* Its cursor is the time at which it finished, by its own clock.  The     *)
(* place of an entry in the feed serves as its timestamp; a peer's clock   *)
(* may be ahead.  Every entry is a peer's.                                 *)
(***************************************************************************)
EXTENDS PactView

CONSTANTS
    MaxClock,   \* bound of the clock
    ShowLimit   \* how many entries of a type a prompt is shown

ASSUME PromptHookAssumption == {MaxClock, ShowLimit} \subseteq Nat \ {0}

VARIABLES
    clock,
    lastSeen,   \* the cursor file, 0 if there is none
    hook,       \* "idle", "reading", "told": the output is written
    unread,     \* the types whose list has not been answered
    fresh,      \* what the lists brought
    shown,      \* history: what was shown
    skipped     \* history: what the hook passed over, see below

hookVars == <<clock, lastSeen, hook, unread, fresh, shown, skipped>>

HookInit ==
    /\ clock = 1 /\ lastSeen = 0
    /\ hook = "idle" /\ unread = {} /\ fresh = {}
    /\ shown = {} /\ skipped = {}

AllTypes == {TypeOrder[i] : i \in 1..Len(TypeOrder)}

Tick ==
    /\ clock < MaxClock
    /\ clock' = clock + 1
    /\ UNCHANGED <<lastSeen, hook, unread, fresh, shown, skipped>>

\* session-start, which shows the state of the pact instead, and the first
\* prompt of a project: what is there up to now will not be shown.
Bootstrap ==
    /\ hook = "idle"
    /\ lastSeen' = clock
    /\ skipped' = skipped \cup {e \in view : e <= clock}
    /\ UNCHANGED <<clock, hook, unread, fresh, shown>>

\* Mutant: the cursor moves when the hook begins.
PromptMovesOn ==
    /\ hook = "idle" /\ lastSeen > 0
    /\ hook' = "reading" /\ unread' = AllTypes
    /\ lastSeen' = clock
    /\ UNCHANGED <<clock, fresh, shown, skipped>>

\* prompt-submit asks for the lists of all types at once.
Prompt ==
    /\ hook = "idle" /\ lastSeen > 0
    /\ hook' = "reading" /\ unread' = AllTypes
    /\ UNCHANGED <<clock, lastSeen, fresh, shown, skipped>>

News(t) == {e \in OfType(t) : e > lastSeen}

\* The newest ones; the rest of a long list is passed over.
Top(s) == {e \in s : Cardinality({f \in s : f > e}) < ShowLimit}

Read(t) ==
    /\ hook = "reading" /\ t \in unread
    /\ unread' = unread \ {t}
    /\ fresh' = fresh \cup Top(News(t))
    /\ skipped' = skipped \cup (News(t) \ Top(News(t)))
    /\ UNCHANGED <<clock, lastSeen, hook, shown>>

Tell ==
    /\ hook = "reading" /\ unread = {}
    /\ hook' = "told"
    /\ shown' = shown \cup fresh
    /\ fresh' = {}
    /\ UNCHANGED <<clock, lastSeen, unread, skipped>>

Save ==
    /\ hook = "told"
    /\ hook' = "idle"
    /\ lastSeen' = clock
    /\ UNCHANGED <<clock, unread, fresh, shown, skipped>>

\* A list fails, or the hook is killed; the cursor stays where it was.
Fail ==
    /\ hook # "idle"
    /\ hook' = "idle" /\ unread' = {} /\ fresh' = {}
    /\ UNCHANGED <<clock, lastSeen, shown, skipped>>

HookStep ==
    \/ Tick \/ Bootstrap \/ Prompt \/ Tell \/ Save \/ Fail
    \/ \E t \in AllTypes : Read(t)

\* An entry that comes with a time the cursor has passed, or after its list was
\* read by a hook that is going to move the cursor to the present.
Tardy ==
    {e \in applied : e <= lastSeen \/ (hook # "idle" /\ TypeOf[e] \notin unread)}

HookCommit ==
    /\ skipped' = skipped \cup Tardy
    /\ UNCHANGED <<clock, lastSeen, hook, unread, fresh, shown>>

---------------------------------------------------------------------------
(* Properties.                                                             *)

HookTypeOK ==
    /\ clock \in 1..MaxClock /\ lastSeen \in 0..clock
    /\ hook \in {"idle", "reading", "told"}
    /\ unread \subseteq AllTypes
    /\ fresh \cup shown \cup skipped \subseteq view
    /\ hook # "reading" => unread = {} /\ fresh = {}

\* What an agent is never told of is what came too late for the cursor, what a
\* list was too long for, or what was there before it began.  A hook that dies
\* loses nothing.
PromptTells == \A e \in view : e <= lastSeen => e \in shown \cup skipped
=============================================================================
