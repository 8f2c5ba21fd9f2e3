----------------------------- MODULE Dashboard -----------------------------
(***************************************************************************)
(* A page of the dashboard that lists the entries of a pact: the event     *)
(* stream of the daemon (routes/events.ts), the browser's subscription     *)
(* (useSse.ts), and the query that every event runs again (useQuery.ts).   *)
(*                                                                         *)
(* What the page shows is a version of the view: how many entries it had   *)
(* when the daemon answered.  Only events of this pact are frames here.    *)
(***************************************************************************)
EXTENDS PactView

CONSTANTS
    Threshold,  \* frames the socket may hold before the daemon closes it
    None,
    Asked       \* a fetch that has not been answered

ASSUME DashboardAssumption == Threshold \in Nat /\ {None, Asked} \cap Nat = {} /\ None # Asked

VARIABLES
    stream,   \* "open", "ending" when the daemon has closed it, "down"
    frames,   \* frames written that the page has not handled
    mounted,  \* the page is on the screen
    fetch,    \* the promise in the cache that is pending: None, Asked, or its answer
    cached,   \* `value` of the cache entry, None if undefined
    failed,   \* `error` of the cache entry is set
    painted,  \* `data` of the page
    missed,   \* history: an event of the pact never reached the page
    joined    \* history: an event joined a fetch that was answered before it

query == <<fetch, cached, failed, painted>>
dashboardVars == <<stream, frames, mounted, query, missed, joined>>

DashboardInit ==
    /\ stream = "open" /\ frames = 0
    /\ mounted = FALSE
    /\ fetch = None /\ cached = None /\ failed = FALSE /\ painted = None
    /\ missed = FALSE /\ joined = FALSE

Version == Cardinality(view)

---------------------------------------------------------------------------
(* The event stream.                                                       *)

\* Mutant: nobody looks at how much the socket holds.
WriteAlways == frames' = frames + 1 /\ UNCHANGED stream

\* writeFrame: a client that does not read is cut off, not skipped.
WriteFrame ==
    IF frames > Threshold THEN stream' = "ending" /\ UNCHANGED frames
    ELSE frames' = frames + 1 /\ UNCHANGED stream

\* An event of the daemon, `entry-applied` or `update`.
Emit ==
    /\ IF stream = "open" THEN WriteFrame ELSE UNCHANGED <<stream, frames>>
    /\ missed' = (missed \/ stream' # "open")
    /\ UNCHANGED <<mounted, query, joined>>

Keepalive ==
    /\ stream = "open" /\ frames > Threshold
    /\ stream' = "ending"
    /\ UNCHANGED <<frames, mounted, query, missed, joined>>

\* The client has read all that was written before the end.
Ends ==
    /\ stream = "ending" /\ frames = 0
    /\ stream' = "down"
    /\ UNCHANGED <<frames, mounted, query, missed, joined>>

Breaks ==
    /\ stream # "down"
    /\ stream' = "down"
    /\ frames' = 0
    /\ missed' = (missed \/ frames > 0)
    /\ UNCHANGED <<mounted, query, joined>>

\* The EventSource tries again; nothing is fetched on account of it.
Reconnect ==
    /\ stream = "down"
    /\ stream' = "open"
    /\ UNCHANGED <<frames, mounted, query, missed, joined>>

---------------------------------------------------------------------------
(* useQuery.                                                               *)

\* A cache entry is settled if it has a value, be it an earlier one, or an error.
Settled == cached # None \/ failed

\* Mutant: what is in flight is shared, whatever it began as.
EffectShares ==
    IF fetch = None
    THEN /\ fetch' = Asked /\ failed' = FALSE
         /\ painted' = cached
         /\ UNCHANGED joined
    ELSE /\ painted' = cached
         /\ UNCHANGED <<fetch, failed, joined>>

\* The effect: a fetch of its own, unless the first one is still in flight.
Effect ==
    IF fetch = None \/ Settled
    THEN /\ fetch' = Asked /\ failed' = FALSE
         /\ painted' = cached
         /\ UNCHANGED joined
    ELSE /\ joined' = (joined \/ fetch # Asked)
         /\ painted' = cached
         /\ UNCHANGED <<fetch, failed>>

\* An event changes `trigger`, and the effect of a page that is there runs.
HandleFrame ==
    /\ frames > 0
    /\ frames' = frames - 1
    /\ IF mounted THEN Effect ELSE UNCHANGED <<fetch, failed, painted, joined>>
    /\ UNCHANGED <<stream, mounted, cached, missed>>

\* refetch() of the page; an event of another pact also changes `trigger`, to 0.
Refetch ==
    /\ mounted
    /\ Effect
    /\ UNCHANGED <<stream, frames, mounted, cached, missed>>

Mount ==
    /\ ~mounted
    /\ mounted' = TRUE
    /\ Effect
    /\ UNCHANGED <<stream, frames, cached, missed>>

Unmount ==
    /\ mounted
    /\ mounted' = FALSE
    /\ painted' = None
    /\ UNCHANGED <<stream, frames, fetch, cached, failed, missed, joined>>

\* The daemon reads the view: from here on the answer can only grow old.
Serve ==
    /\ fetch = Asked
    /\ fetch' = Version
    /\ missed' = FALSE /\ joined' = FALSE
    /\ UNCHANGED <<stream, frames, mounted, cached, failed, painted>>

\* Earlier promises of this key were cancelled; they change nothing that shows.
Resolve ==
    /\ fetch \in Nat
    /\ fetch' = None
    /\ cached' = fetch
    /\ painted' = IF mounted THEN fetch ELSE painted
    /\ UNCHANGED <<stream, frames, mounted, failed, missed, joined>>

Reject ==
    /\ fetch # None
    /\ fetch' = None
    /\ failed' = TRUE
    /\ painted' = IF mounted THEN cached ELSE painted
    /\ UNCHANGED <<stream, frames, mounted, cached, missed, joined>>

DashboardStep ==
    \/ Keepalive \/ Ends \/ Breaks \/ Reconnect
    \/ HandleFrame \/ Refetch \/ Mount \/ Unmount \/ Serve \/ Resolve \/ Reject

---------------------------------------------------------------------------
(* Properties.                                                             *)

DashboardTypeOK ==
    /\ stream \in {"open", "ending", "down"}
    /\ frames \in 0..(Threshold + 1)
    /\ {mounted, failed, missed, joined} \subseteq BOOLEAN
    /\ fetch \in {None, Asked} \cup 0..Version
    /\ {cached, painted} \subseteq {None} \cup 0..Version

Quiet ==
    /\ mounted /\ fetch = None /\ ~failed
    /\ stream = "open" /\ frames = 0
    /\ applied = {} /\ ~updating

\* A page that has settled, on a stream that is open, shows the pact as it is.
\* Two cases apart: an event was lost with a connection, and nothing has asked
\* since; or an event came while the first fetch of the page was on its way.
PageIsFresh == Quiet => painted = Version \/ missed \/ joined
=============================================================================
