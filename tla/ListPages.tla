------------------------------ MODULE ListPages ------------------------------
(***************************************************************************)
(* The lists of one type, page by page: listByType (api/views.ts) behind   *)
(* the routes of messages, knowledge and tasks, walked by paginate of the  *)
(* SDK (sdk/src/resources/paginate.ts).  Entries may arrive between two    *)
(* pages, and between the rows of a page and the peek for has_more.        *)
(***************************************************************************)
EXTENDS PactView, SequencesExt

CONSTANTS
    ListType,  \* the type that is listed
    PageSize   \* `limit`

ASSUME ListPagesAssumption == PageSize \in Nat \ {0}

VARIABLES
    order,    \* "asc" or "desc"
    wanted,   \* the rows that pass the filter of the list
    kept,     \* those of them that pass the status filter of the tasks route
    walk,     \* "page", "peek" or "done": what comes next
    lastKey,  \* the cursor, 0 for null
    listed,   \* what the caller was handed
    behind    \* history: rows that came when the walk was past their place

listVars == <<order, wanted, kept, walk, lastKey, listed, behind>>

Rows == {e \in Entries : TypeOf[e] = ListType}

ListInit ==
    /\ order \in {"asc", "desc"}
    /\ wanted \in SUBSET Rows /\ kept \in SUBSET wanted
    /\ walk = "page" /\ lastKey = 0
    /\ listed = <<>> /\ behind = {}

Precedes(e, f) == IF order = "asc" THEN e < f ELSE f < e

\* The range beyond the cursor.
Beyond(k) == {e \in OfType(ListType) : k = 0 \/ Precedes(k, e)}

FirstOf(s) == {e \in s : Cardinality({f \in s : Precedes(f, e)}) < PageSize}

LastOf(s) == CHOOSE e \in s : \A f \in s \ {e} : Precedes(f, e)

\* Mutant: `limit` is given to the stream, and the filter sees what comes out.
RowsFiltered(k) == FirstOf(Beyond(k)) \cap wanted

\* The rows of a page: the filter is applied before they are counted.
RowsOf(k) == FirstOf(Beyond(k) \cap wanted)

\* listByType up to the peek.  The status filter of the tasks route thins the
\* page out later, and leaves its cursor alone.
ReadPage ==
    /\ walk = "page"
    /\ LET rows == RowsOf(lastKey)
       IN  /\ listed' = listed \o Sorted(rows \cap kept, Precedes)
           /\ lastKey' = IF rows = {} THEN 0 ELSE LastOf(rows)
    /\ walk' = "peek"
    /\ UNCHANGED <<order, wanted, kept, behind>>

\* peekHasMore, and paginate, which asks for another page or stops.
PeekHasMore ==
    /\ walk = "peek"
    /\ walk' = IF lastKey # 0 /\ Beyond(lastKey) # {} THEN "page" ELSE "done"
    /\ UNCHANGED <<order, wanted, kept, lastKey, listed, behind>>

ListStep == ReadPage \/ PeekHasMore

\* No page to come will have e.
Past(e) ==
    \/ walk = "done"
    \/ lastKey = 0 /\ walk = "peek"
    \/ lastKey # 0 /\ Precedes(e, lastKey)

ListCommit ==
    /\ behind' = behind \cup {e \in applied : Past(e)}
    /\ UNCHANGED <<order, wanted, kept, walk, lastKey, listed>>

---------------------------------------------------------------------------
(* Properties.                                                             *)

ListTypeOK ==
    /\ order \in {"asc", "desc"}
    /\ kept \subseteq wanted /\ wanted \subseteq Rows
    /\ walk \in {"page", "peek", "done"}
    /\ lastKey \in {0} \cup wanted
    /\ listed \in Seq(kept) /\ behind \subseteq view

\* A walk over all pages hands out every row that passes the filters once, in
\* the order asked for, whatever the filters reject and whatever arrives on the
\* way, except what came when the walk was past its place.
ListsAll ==
    /\ \A i \in 1..Len(listed) : \A j \in 1..(i - 1) : Precedes(listed[j], listed[i])
    /\ walk = "done" => \A e \in view \cap kept : e \in ToSet(listed) \cup behind
=============================================================================
