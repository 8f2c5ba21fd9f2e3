----------------------------- MODULE ChangeFeed -----------------------------
(***************************************************************************)
(* GET /changes (routes/changes.ts) read by the stream of the SDK          *)
(* (sdk/src/resources/changes.ts): one client that replays the pact, or    *)
(* seeks its head first, and then polls for ever.  The daemon scans the    *)
(* types one after the other, and entries may arrive between two scans.    *)
(***************************************************************************)
EXTENDS PactView, SequencesExt

CONSTANTS
    Limit,    \* `limit`, the entries of a page
    MaxDrops  \* bound: how often a request breaks off

ASSUME ChangeFeedAssumption == Limit \in Nat \ {0} /\ MaxDrops \in Nat

VARIABLES
    at,         \* where the client's request is
    scanned,    \* how many types it has read
    found,      \* what it found in them
    cursor,     \* the client's cursor, 0 for null
    bootstrapping,
    delivered,  \* what the client was handed, in order
    drops,
    before,     \* history: the view the client sought past
    slipped     \* history: entries that came behind a scan

feedVars == <<at, scanned, found, cursor, bootstrapping, delivered, drops,
              before, slipped>>

FeedInit ==
    /\ at \in {"seek", "ready"}
    /\ scanned = 0 /\ found = {}
    /\ cursor = 0
    /\ bootstrapping = TRUE
    /\ delivered = <<>>
    /\ drops = 0 /\ before = {} /\ slipped = {}

Types == {TypeOrder[i] : i \in 1..Len(TypeOrder)}

Scanned(t) == \E i \in 1..scanned : TypeOrder[i] = t

LastType == scanned + 1 = Len(TypeOrder)

---------------------------------------------------------------------------
(* headCursor: one peek per type.                                          *)

Newest(s) == CHOOSE e \in s : \A f \in s : f <= e

Seek ==
    /\ at = "seek"
    /\ LET heads == found \cup OfType(TypeOrder[scanned + 1])
       IN  IF LastType
           THEN /\ cursor' = IF heads = {} THEN 0 ELSE Newest(heads)
                /\ at' = "ready"
                /\ before' = view
                /\ found' = {} /\ scanned' = 0
           ELSE /\ found' = heads /\ scanned' = scanned + 1
                /\ UNCHANGED <<cursor, at, before>>
    /\ UNCHANGED <<bootstrapping, delivered, drops, slipped>>

---------------------------------------------------------------------------
(* poll.                                                                   *)

Poll ==
    /\ at = "ready"
    /\ at' = "scan"
    /\ UNCHANGED <<scanned, found, cursor, bootstrapping, delivered, drops,
                   before, slipped>>

\* Mutant: the entry at the cursor is past it.
FromCursor(e) == e >= cursor

AfterCursor(e) == e > cursor

\* Mutant: the newest entries make the page.
NewestPage(s) ==
    LET sorted == Sorted(s, <)
    IN  SubSeq(sorted, IF Len(sorted) > Limit THEN Len(sorted) - Limit + 1 ELSE 1,
               Len(sorted))

\* The first entries by byTsThenId.
Page(s) ==
    LET sorted == Sorted(s, <)
    IN  SubSeq(sorted, 1, IF Len(sorted) > Limit THEN Limit ELSE Len(sorted))

\* The generator yields a page that is not empty, and stays in bootstrap mode
\* while there is more; an empty one means that it is time to wait.
Answer(s) ==
    /\ at' = "ready"
    /\ delivered' = delivered \o Page(s)
    /\ cursor' = IF s = {} THEN cursor ELSE Page(s)[Len(Page(s))]
    /\ bootstrapping' = (Cardinality(s) > Limit)

\* readChangesOnce, type by type; with `wait`, an empty first read goes to sleep.
Scan ==
    /\ at \in {"scan", "rescan"}
    /\ LET all == found \cup {e \in OfType(TypeOrder[scanned + 1]) : AfterCursor(e)}
       IN  IF ~LastType
           THEN /\ found' = all /\ scanned' = scanned + 1
                /\ UNCHANGED <<at, delivered, cursor, bootstrapping>>
           ELSE /\ found' = {} /\ scanned' = 0
                /\ IF all # {} \/ bootstrapping \/ at = "rescan"
                   THEN Answer(all)
                   ELSE at' = "wait" /\ UNCHANGED <<delivered, cursor, bootstrapping>>
    /\ UNCHANGED <<drops, before, slipped>>

\* Mutant: only an update ends the wait.
ElapseNever == FALSE /\ UNCHANGED feedVars

\* The wait is over: one more scan.
Elapse ==
    /\ at = "wait"
    /\ at' = "rescan"
    /\ UNCHANGED <<scanned, found, cursor, bootstrapping, delivered, drops,
                   before, slipped>>

\* The request breaks off, or its answer is lost; the caller opens a new stream
\* with the cursor of the last page it has.
Drop ==
    /\ at \in {"scan", "wait", "rescan"} /\ drops < MaxDrops
    /\ at' = "ready"
    /\ scanned' = 0 /\ found' = {}
    /\ bootstrapping' = TRUE
    /\ drops' = drops + 1
    /\ UNCHANGED <<cursor, delivered, before, slipped>>

FeedStep == Seek \/ Poll \/ Scan \/ Elapse \/ Drop

---------------------------------------------------------------------------
(* What the pact does, as the request sees it.                             *)

\* Entries of a type the request has read already.
Behind == {e \in applied : at \in {"scan", "rescan"} /\ Scanned(TypeOf[e])}

FeedCommit ==
    /\ slipped' = slipped \cup Behind
    /\ UNCHANGED <<at, scanned, found, cursor, bootstrapping, delivered, drops, before>>

\* A request that sleeps is woken.
FeedUpdate ==
    /\ at' = IF at = "wait" THEN "rescan" ELSE at
    /\ UNCHANGED <<scanned, found, cursor, bootstrapping, delivered, drops,
                   before, slipped>>

---------------------------------------------------------------------------
(* Properties.                                                             *)

FeedTypeOK ==
    /\ at \in {"seek", "ready", "scan", "wait", "rescan"}
    /\ scanned \in 0..(Len(TypeOrder) - 1)
    /\ found \subseteq Entries
    /\ cursor \in Entries \cup {0}
    /\ bootstrapping \in BOOLEAN
    /\ delivered \in Seq(Entries)
    /\ drops \in 0..MaxDrops
    /\ before \subseteq view /\ slipped \subseteq view
    /\ at \in {"ready", "wait"} => scanned = 0 /\ found = {}

Received == ToSet(delivered)

\* The only entries a client may never see are those that came when a newer one
\* was there to be read, and those that came behind a scan under way.
Excused == late \cup slipped \cup before

\* What the client is handed is in chronological order, nothing comes twice, and
\* nothing that is not excused is passed over, however its requests break off and
\* whatever arrives late.
FeedIsExact ==
    /\ \A i \in 1..Len(delivered) :
        /\ delivered[i] <= cursor
        /\ \A j \in 1..(i - 1) : delivered[j] < delivered[i]
    /\ \A e \in view \ Excused : e <= cursor => e \in Received
=============================================================================
