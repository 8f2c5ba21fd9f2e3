------------------------------ MODULE PactView ------------------------------
(***************************************************************************)
(* The view of one pact on one daemon, as its readers meet it: Autobase    *)
(* applies entries (apply.ts), commits what it applied and then emits      *)
(* `update`; the daemon passes the events on (_wireEvents in daemon.ts).   *)
(*                                                                         *)
(* An entry is its place in the order of (timestamp, id).  Entries arrive  *)
(* in any order: a peer's may come late.                                   *)
(***************************************************************************)
EXTENDS Naturals, FiniteSets, Sequences

CONSTANTS
    Entries,    \* places in the feed
    TypeOrder,  \* the entry types, in the order they are scanned
    TypeOf      \* TypeOf[e]: the type of e

ASSUME PactViewAssumption ==
    /\ Entries \subseteq Nat \ {0} /\ IsFiniteSet(Entries)
    /\ TypeOrder \in Seq({TypeOrder[i] : i \in DOMAIN TypeOrder}) /\ TypeOrder # <<>>
    /\ \A e \in Entries : \E i \in 1..Len(TypeOrder) : TypeOf[e] = TypeOrder[i]

VARIABLES
    applied,   \* put by apply(), and not yet to be read
    view,      \* committed
    updating,  \* committed, and `update` not yet emitted
    late       \* history: entries that came when a newer one was readable

viewVars == <<applied, view, updating, late>>

ViewInit == applied = {} /\ view = {} /\ updating = FALSE /\ late = {}

\* makeApply on one entry; `entry-applied` is emitted in this step.
Apply(e) ==
    /\ ~updating /\ e \in Entries \ (view \cup applied)
    /\ applied' = applied \cup {e}
    /\ UNCHANGED <<view, updating, late>>

Newly == {e \in applied : \E f \in view : f > e}

Commit ==
    /\ applied # {}
    /\ view' = view \cup applied
    /\ late' = late \cup Newly
    /\ applied' = {}
    /\ updating' = TRUE

\* Autobase emits `update`; who listens now is woken.
Update ==
    /\ updating
    /\ updating' = FALSE
    /\ UNCHANGED <<applied, view, late>>

\* What a read of the range of one type returns.
OfType(t) == {e \in view : TypeOf[e] = t}

\* A set of entries, as it is read in one order or the other.
Sorted(s, Before(_, _)) ==
    CHOOSE f \in [1..Cardinality(s) -> s] :
        \A i \in 1..Cardinality(s) : \A j \in 1..(i - 1) : Before(f[j], f[i])

ViewTypeOK ==
    /\ applied \subseteq Entries /\ view \subseteq Entries /\ late \subseteq view
    /\ updating \in BOOLEAN
=============================================================================
