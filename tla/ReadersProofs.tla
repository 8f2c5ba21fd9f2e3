---------------------------- MODULE ReadersProofs ----------------------------
(***************************************************************************)
(* Proofs about Readers, for any entries, types, page sizes and bounds.    *)
(*                                                                         *)
(* One invariant per kind of reader.  A reader that a behaviour does not   *)
(* have stays where it began, so each invariant says both what the reader  *)
(* keeps while it runs and that it is untouched otherwise.                 *)
(***************************************************************************)
EXTENDS Readers, FiniteSetTheorems, TLAPS

---------------------------------------------------------------------------
(* Finite sets in order.                                                   *)

Linear(R, S) ==
    /\ \A x, y, z \in S : <<x, y>> \in R /\ <<y, z>> \in R => <<x, z>> \in R
    /\ \A x, y \in S : x # y => <<x, y>> \in R \/ <<y, x>> \in R
    /\ \A x \in S : <<x, x>> \notin R

LEMMA LeastExists == ASSUME NEW T \in SUBSET Nat, T # {} PROVE \E x \in T : \A y \in T : x <= y
<1>1. PICK x \in T : \A y \in T : ~(<<y, x>> \in OpToRel(<, Nat))
  BY NatLessThanWellFounded, WFMin
<1>2. \A y \in T : ~(y < x)
  BY <1>1 DEF OpToRel
<1>3. QED
  BY <1>2

LEMMA LastExists ==
    ASSUME NEW S, IsFiniteSet(S), S # {}, NEW R, Linear(R, S)
    PROVE  \E x \in S : \A y \in S \ {x} : <<y, x>> \in R
<1> DEFINE Bad(T) == T # {} /\ ~\E x \in T : \A y \in T \ {x} : <<y, x>> \in R
           D == {n \in Nat : \E T \in SUBSET S : Bad(T) /\ Cardinality(T) = n}
<1>1. \A T \in SUBSET S : IsFiniteSet(T) /\ Cardinality(T) \in Nat
  BY FS_Subset, FS_CardinalityType
<1>2. SUFFICES ASSUME D # {} PROVE FALSE
  BY <1>1
<1>3. PICK n \in D : \A m \in D : n <= m
  BY <1>2, LeastExists
<1>4. PICK T \in SUBSET S : Bad(T) /\ Cardinality(T) = n
  BY <1>3
<1>5. PICK x \in T : TRUE
  BY <1>4
<1>6. IsFiniteSet(T \ {x}) /\ Cardinality(T \ {x}) = n - 1
  BY <1>1, <1>4, <1>5, FS_RemoveElement
<1>7. n \in Nat /\ n - 1 \in Nat
  BY <1>1, <1>3, <1>6
<1>8. ~Bad(T \ {x})
  BY <1>3, <1>6, <1>7
<1>9. T \ {x} # {}
  BY <1>4, <1>5
<1>10. PICK z \in T \ {x} : \A y \in (T \ {x}) \ {z} : <<y, z>> \in R
  BY <1>8, <1>9
<1>11. CASE <<x, z>> \in R
  <2>1. \A y \in T \ {z} : <<y, z>> \in R
    BY <1>10, <1>11
  <2>2. QED
    BY <1>4, <1>10, <2>1
<1>12. CASE <<x, z>> \notin R
  <2>1. x \in S /\ z \in S /\ <<z, x>> \in R
    BY <1>5, <1>10, <1>12 DEF Linear
  <2>2. \A y \in T \ {x} : <<y, x>> \in R
    BY <1>10, <2>1 DEF Linear
  <2>3. QED
    BY <1>4, <1>5, <2>2
<1>13. QED
  BY <1>11, <1>12

LEMMA SortExists ==
    ASSUME NEW S, IsFiniteSet(S), NEW R, Linear(R, S)
    PROVE  \E f \in [1..Cardinality(S) -> S] :
              \A i \in 1..Cardinality(S) : \A j \in 1..(i - 1) : <<f[j], f[i]>> \in R
<1> DEFINE Good(n, T) == \E f \in [1..n -> T] :
                            \A i \in 1..n : \A j \in 1..(i - 1) : <<f[j], f[i]>> \in R
           D == {n \in Nat : \E T \in SUBSET S : ~Good(n, T) /\ Cardinality(T) = n}
<1>1. \A T \in SUBSET S : IsFiniteSet(T) /\ Cardinality(T) \in Nat
  BY FS_Subset, FS_CardinalityType
<1>2. SUFFICES ASSUME D # {} PROVE FALSE
  BY <1>1
<1>3. PICK n \in D : \A m \in D : n <= m
  BY <1>2, LeastExists
<1>4. PICK T \in SUBSET S : ~Good(n, T) /\ Cardinality(T) = n
  BY <1>3
<1>5. n \in Nat
  OBVIOUS
<1>6. CASE n = 0
  <2>1. [i \in 1..0 |-> i] \in [1..0 -> T]
    OBVIOUS
  <2>2. \A i \in 1..0 : FALSE
    OBVIOUS
  <2>3. Good(0, T)
    BY <2>1, <2>2
  <2>4. QED
    BY <1>4, <1>6, <2>3
<1>7. CASE n # 0
  <2>1. IsFiniteSet(T) /\ T # {} /\ Linear(R, T)
    BY <1>1, <1>4, <1>7, FS_EmptySet DEF Linear
  <2>2. PICK x \in T : \A y \in T \ {x} : <<y, x>> \in R
    BY <2>1, LastExists
  <2>3. IsFiniteSet(T \ {x}) /\ Cardinality(T \ {x}) = n - 1 /\ n - 1 \in Nat /\ n - 1 < n
    BY <1>4, <1>5, <1>7, <2>1, FS_RemoveElement
  <2>4. Good(n - 1, T \ {x})
    BY <1>3, <2>3
  <2>5. PICK f \in [1..(n - 1) -> T \ {x}] :
           \A i \in 1..(n - 1) : \A j \in 1..(i - 1) : <<f[j], f[i]>> \in R
    BY <2>4
  <2> DEFINE g == [i \in 1..n |-> IF i = n THEN x ELSE f[i]]
  <2>6. \A i \in 1..n : i # n => i \in 1..(n - 1)
    BY <1>5
  <2>7. g \in [1..n -> T]
    BY <2>2, <2>5, <2>6
  <2>8. ASSUME NEW i \in 1..n, NEW j \in 1..(i - 1) PROVE <<g[j], g[i]>> \in R
    <3>1. j \in 1..(n - 1) /\ j # n /\ j \in 1..n
      BY <1>5
    <3>2. g[j] = f[j] /\ f[j] \in T \ {x}
      BY <2>5, <3>1
    <3>3. CASE i = n
      BY <2>2, <3>2, <3>3
    <3>4. CASE i # n
      BY <2>5, <2>6, <3>2, <3>4
    <3>5. QED
      BY <3>3, <3>4
  <2>9. QED
    BY <1>4, <2>7, <2>8
<1>8. QED
  BY <1>6, <1>7

\* An enumeration in order reaches every element.
LEMMA SortReaches ==
    ASSUME NEW S, IsFiniteSet(S), NEW R, Linear(R, S), NEW f \in [1..Cardinality(S) -> S],
           \A i \in 1..Cardinality(S) : \A j \in 1..(i - 1) : <<f[j], f[i]>> \in R
    PROVE  f \in Seq(S) /\ Len(f) = Cardinality(S) /\ \A e \in S : \E i \in 1..Len(f) : f[i] = e
<1> DEFINE n == Cardinality(S)
<1>1. n \in Nat
  BY FS_CardinalityType
<1>2. f \in Seq(S) /\ Len(f) = n
  BY <1>1
<1>3. \A i, j \in 1..n : f[i] = f[j] => i = j
  <2> SUFFICES ASSUME NEW i \in 1..n, NEW j \in 1..n, j < i, f[i] = f[j] PROVE FALSE
    BY <1>1
  <2>1. j \in 1..(i - 1) /\ f[i] \in S
    BY <1>1
  <2>2. QED
    BY <2>1 DEF Linear
<1>4. f \in Injection(1..n, S)
  BY <1>3 DEF Injection, IsInjective
<1>5. IsFiniteSet(1..n) /\ Cardinality(1..n) = n
  BY <1>1, FS_Interval
<1>6. f \in Surjection(1..n, S)
  BY <1>4, <1>5, FS_Injection
<1>7. QED
  BY <1>2, <1>6 DEF Surjection
---------------------------------------------------------------------------
(* Entries in order.                                                       *)

Less == {p \in Nat \X Nat : p[1] < p[2]}

InOrder == {p \in Nat \X Nat : Precedes(p[1], p[2])}

LEMMA EntriesAre == Entries \subseteq Nat /\ 0 \notin Entries /\ IsFiniteSet(Entries)
  BY PactViewAssumption

LEMMA FiniteEntries == ASSUME NEW s \in SUBSET Entries PROVE IsFiniteSet(s) /\ Cardinality(s) \in Nat
  BY EntriesAre, FS_Subset, FS_CardinalityType

LEMMA Linearities ==
    /\ \A s \in SUBSET Entries : Linear(Less, s)
    /\ order \in {"asc", "desc"} => \A s \in SUBSET Entries : Linear(InOrder, s)
<1>1. Linear(Less, Entries)
  BY EntriesAre DEF Linear, Less
<1>2. ASSUME order = "asc" PROVE Linear(InOrder, Entries)
  BY <1>2, EntriesAre DEF Linear, InOrder, Precedes
<1>3. ASSUME order = "desc" PROVE Linear(InOrder, Entries)
  BY <1>3, EntriesAre DEF Linear, InOrder, Precedes
<1>4. QED
  BY <1>1, <1>2, <1>3 DEF Linear

LEMMA SortedFeed ==
    ASSUME NEW s \in SUBSET Entries
    PROVE  /\ Sorted(s, <) \in Seq(s) /\ Len(Sorted(s, <)) = Cardinality(s)
           /\ \A i \in 1..Len(Sorted(s, <)) : \A j \in 1..(i - 1) : Sorted(s, <)[j] < Sorted(s, <)[i]
           /\ \A e \in s : \E i \in 1..Len(Sorted(s, <)) : Sorted(s, <)[i] = e
<1> DEFINE n == Cardinality(s)
           f == Sorted(s, <)
           Rising(g) == \A i \in 1..n : \A j \in 1..(i - 1) : g[j] < g[i]
<1>1. n \in Nat /\ IsFiniteSet(s) /\ s \subseteq Nat /\ Linear(Less, s)
  BY FiniteEntries, EntriesAre, Linearities
<1>2. ASSUME NEW g \in [1..n -> s]
      PROVE  Rising(g) <=> \A i \in 1..n : \A j \in 1..(i - 1) : <<g[j], g[i]>> \in Less
  <2> HIDE DEF n
  <2>1. \A i \in 1..n : \A j \in 1..(i - 1) : j \in 1..n
    BY <1>1
  <2>2. \A i \in 1..n : g[i] \in Nat
    BY <1>1, <1>2
  <2>3. QED
    BY <2>1, <2>2 DEF Less
<1>3. \E g \in [1..n -> s] : Rising(g)
  BY <1>1, <1>2, SortExists
<1>4. f = CHOOSE g \in [1..n -> s] : Rising(g)
  BY DEF Sorted
<1>5. f \in [1..n -> s] /\ Rising(f)
  BY <1>3, <1>4
<1> HIDE DEF f
<1>6. \A i \in 1..n : \A j \in 1..(i - 1) : <<f[j], f[i]>> \in Less
  BY <1>2, <1>5
<1>7. f \in Seq(s) /\ Len(f) = n /\ \A e \in s : \E i \in 1..Len(f) : f[i] = e
  BY <1>1, <1>5, <1>6, SortReaches
<1>8. QED
  BY <1>5, <1>7 DEF f

LEMMA SortedRows ==
    ASSUME NEW s \in SUBSET Entries, order \in {"asc", "desc"}
    PROVE  /\ Sorted(s, Precedes) \in Seq(s) /\ Len(Sorted(s, Precedes)) = Cardinality(s)
           /\ \A i \in 1..Len(Sorted(s, Precedes)) : \A j \in 1..(i - 1) :
                 Precedes(Sorted(s, Precedes)[j], Sorted(s, Precedes)[i])
           /\ \A e \in s : \E i \in 1..Len(Sorted(s, Precedes)) : Sorted(s, Precedes)[i] = e
<1> DEFINE n == Cardinality(s)
           f == Sorted(s, Precedes)
           Rising(g) == \A i \in 1..n : \A j \in 1..(i - 1) : Precedes(g[j], g[i])
<1>1. n \in Nat /\ IsFiniteSet(s) /\ s \subseteq Nat /\ Linear(InOrder, s)
  BY FiniteEntries, EntriesAre, Linearities
<1>2. ASSUME NEW g \in [1..n -> s]
      PROVE  Rising(g) <=> \A i \in 1..n : \A j \in 1..(i - 1) : <<g[j], g[i]>> \in InOrder
  <2> HIDE DEF n
  <2>1. \A i \in 1..n : \A j \in 1..(i - 1) : j \in 1..n
    BY <1>1
  <2>2. \A i \in 1..n : g[i] \in Nat
    BY <1>1, <1>2
  <2>3. QED
    BY <2>1, <2>2 DEF InOrder
<1>3. \E g \in [1..n -> s] : Rising(g)
  BY <1>1, <1>2, SortExists
<1>4. f = CHOOSE g \in [1..n -> s] : Rising(g)
  BY DEF Sorted
<1>5. f \in [1..n -> s] /\ Rising(f)
  BY <1>3, <1>4
<1> HIDE DEF f
<1>6. \A i \in 1..n : \A j \in 1..(i - 1) : <<f[j], f[i]>> \in InOrder
  BY <1>2, <1>5
<1>7. f \in Seq(s) /\ Len(f) = n /\ \A e \in s : \E i \in 1..Len(f) : f[i] = e
  BY <1>1, <1>5, <1>6, SortReaches
<1>8. QED
  BY <1>5, <1>7 DEF f

---------------------------------------------------------------------------
(* The view.                                                               *)

ViewInv == ViewTypeOK /\ applied \cap view = {} /\ (updating => applied = {})

LEMMA ViewInitHolds == ASSUME Init PROVE ViewInv
  BY DEF Init, FullView, ViewInit, ViewInv, ViewTypeOK

LEMMA ViewStep == ASSUME ViewInv, [Next]_vars PROVE ViewInv'
<1>1. CASE ApplyEntry
  BY <1>1 DEF ApplyEntry, Apply, ViewInv, ViewTypeOK
<1>2. CASE CommitView
  <2>1. Newly \subseteq applied
    BY DEF Newly
  <2>2. QED
    BY <1>2, <2>1 DEF CommitView, Commit, ViewInv, ViewTypeOK
<1>3. CASE EmitUpdate
  BY <1>3 DEF EmitUpdate, Update, ViewInv, ViewTypeOK
<1>4. CASE UNCHANGED viewVars
  BY <1>4 DEF viewVars, ViewInv, ViewTypeOK
<1>5. QED
  BY <1>1, <1>2, <1>3, <1>4
     DEF Next, FeedReads, ListReads, PageReads, HookReads, InstallerRuns, vars

\* A step of the view grows it by what was applied, or leaves it alone.
LEMMA ViewGrows ==
    ASSUME ViewInv, [Next]_vars
    PROVE  CommitView \/ UNCHANGED <<view, late>>
  BY DEF Next, ApplyEntry, Apply, EmitUpdate, Update, FeedReads, ListReads, PageReads, HookReads,
         InstallerRuns, vars, viewVars

---------------------------------------------------------------------------
(* The change feed.                                                        *)

\* Past the cursor, a scan has found all that it had to, and nothing else.
Scanning ==
    at \in {"scan", "rescan"} =>
        /\ \A e \in found : e > cursor
        /\ \A e \in view \ Excused : e > cursor /\ Scanned(TypeOf[e]) => e \in found

FeedInv ==
    /\ FeedTypeOK /\ FeedIsExact /\ Scanning
    /\ found \subseteq view /\ cursor \in view \cup {0}
    /\ at = "seek" => cursor = 0
    /\ reader # "feed" => at = "ready" /\ cursor = 0

LEMMA NewestIs ==
    ASSUME NEW s \in SUBSET Entries, s # {}
    PROVE  Newest(s) \in s
<1>1. IsFiniteSet(s) /\ Linear(Less, s) /\ s \subseteq Nat
  BY FiniteEntries, Linearities, EntriesAre
<1>2. \A R : Linear(R, s) => \E e \in s : \A f \in s \ {e} : <<f, e>> \in R
  BY <1>1, LastExists
<1>3. PICK e \in s : \A f \in s \ {e} : <<f, e>> \in Less
  BY <1>1, <1>2
<1>4. \A f \in s : f <= e
  <2>1. \A f \in s \ {e} : f < e
    BY <1>3 DEF Less
  <2>2. QED
    BY <1>1, <2>1
<1>5. QED
  BY <1>4 DEF Newest

LEMMA PageIs ==
    ASSUME NEW s \in SUBSET Entries
    PROVE  /\ Page(s) \in Seq(s)
           /\ \A i \in 1..Len(Page(s)) : \A j \in 1..(i - 1) : Page(s)[j] < Page(s)[i]
           /\ s = {} => Len(Page(s)) = 0
           /\ s # {} => /\ Len(Page(s)) > 0
                        /\ \A e \in s : e <= Page(s)[Len(Page(s))]
                              => \E i \in 1..Len(Page(s)) : Page(s)[i] = e
<1> DEFINE f == Sorted(s, <)
           n == IF Len(f) > Limit THEN Limit ELSE Len(f)
<1>1. /\ f \in Seq(s) /\ Len(f) = Cardinality(s)
      /\ \A i \in 1..Len(f) : \A j \in 1..(i - 1) : f[j] < f[i]
      /\ \A e \in s : \E i \in 1..Len(f) : f[i] = e
  BY SortedFeed
<1>2. Page(s) = SubSeq(f, 1, n)
  BY DEF Page
<1> HIDE DEF f
<1>3. n \in 0..Len(f) /\ n \in Nat /\ Len(f) \in Nat
  BY <1>1, ChangeFeedAssumption
<1>4. /\ SubSeq(f, 1, n) \in Seq(s) /\ Len(SubSeq(f, 1, n)) = n
      /\ \A i \in 1..n : SubSeq(f, 1, n)[i] = f[i]
  <2> HIDE DEF n
  <2>1. QED
    BY <1>1, <1>3
<1>5. s = {} => n = 0
  BY <1>1, <1>3, FS_EmptySet
<1>6. s # {} => n > 0
  BY <1>1, ChangeFeedAssumption
<1> HIDE DEF n
<1>7. \A i \in 1..n : \A j \in 1..(i - 1) : Page(s)[j] < Page(s)[i]
  BY <1>1, <1>2, <1>3, <1>4
<1>8. ASSUME s # {}, NEW e \in s, e <= Page(s)[n] PROVE \E i \in 1..n : Page(s)[i] = e
  <2>1. PICK i \in 1..Len(f) : f[i] = e
    BY <1>1
  <2>2. n \in 1..Len(f) /\ Page(s)[n] = f[n]
    BY <1>2, <1>3, <1>4, <1>6, <1>8
  <2>3. f[n] \in Nat /\ f[i] \in Nat
    <3>1. f[n] \in s /\ f[i] \in s
      BY <1>1, <2>1, <2>2
    <3>2. QED
      BY <3>1, EntriesAre
  <2>4. ~(n < i)
    <3>1. n < i => n \in 1..(i - 1)
      BY <2>2
    <3>2. QED
      BY <1>1, <1>8, <2>1, <2>2, <2>3, <3>1
  <2>5. i \in 1..n
    BY <2>2, <2>4
  <2>6. QED
    BY <1>2, <1>4, <2>1, <2>5
<1>9. QED
  BY <1>2, <1>4, <1>5, <1>6, <1>7, <1>8

LEMMA FeedInitHolds == ASSUME Init PROVE FeedInv
<1>1. Len(TypeOrder) \in Nat \ {0}
  BY PactViewAssumption
<1>2. 0 \in 0..(Len(TypeOrder) - 1) /\ 0 \in 0..MaxDrops
  BY <1>1, ChangeFeedAssumption
<1>3. /\ at \in {"seek", "ready"} /\ scanned = 0 /\ found = {} /\ cursor = 0 /\ bootstrapping = TRUE
      /\ delivered = <<>> /\ drops = 0 /\ before = {} /\ slipped = {} /\ (reader # "feed" => at = "ready")
  BY DEF Init, FeedInit
<1>4. delivered \in Seq(Entries) /\ Len(delivered) = 0
  BY <1>3
<1>5. FeedTypeOK
  BY <1>2, <1>3, <1>4 DEF FeedTypeOK
<1>6. view \subseteq Entries
  BY ViewInitHolds DEF ViewInv, ViewTypeOK
<1>7. FeedIsExact
  <2>1. \A e \in view : ~(e <= 0)
    BY <1>6, EntriesAre
  <2>2. QED
    BY <1>3, <1>4, <2>1 DEF FeedIsExact
<1>8. QED
  BY <1>3, <1>5, <1>7 DEF FeedInv, Scanning

LEMMA TypesAre ==
    /\ Len(TypeOrder) \in Nat \ {0}
    /\ \A e \in Entries : \E i \in 1..Len(TypeOrder) : TypeOf[e] = TypeOrder[i]
  BY PactViewAssumption

LEMMA FeedCommitKeeps == ASSUME ViewInv, FeedInv, CommitView PROVE FeedInv'
<1>1. /\ view' = view \cup applied /\ late' = late \cup Newly
      /\ UNCHANGED <<reader, at, scanned, found, cursor, bootstrapping, delivered, drops, before>>
      /\ slipped \subseteq slipped' /\ slipped' \subseteq slipped \cup applied
  BY DEF CommitView, Commit, FeedCommit, feedVars, Behind
<1>2. at \in {"scan", "rescan"} => Behind \subseteq slipped'
  BY DEF CommitView, FeedCommit, FeedInv
<1>3. applied \subseteq Entries /\ applied \cap view = {} /\ view \subseteq Entries
  BY DEF ViewInv, ViewTypeOK
<1>4. FeedTypeOK'
  BY <1>1 DEF FeedInv, FeedTypeOK
<1>5. Excused \subseteq Excused'
  BY <1>1 DEF Excused
<1>6. ASSUME NEW e \in applied, e <= cursor PROVE e \in late'
  <2>1. cursor \in view /\ e # cursor
    BY <1>3, <1>6, EntriesAre DEF FeedInv
  <2>2. e < cursor
    BY <1>3, <1>6, <2>1, EntriesAre
  <2>3. e \in Newly
    BY <2>1, <2>2 DEF Newly
  <2>4. QED
    BY <1>1, <2>3
<1>7. FeedIsExact'
  <2>1. \A e \in view' \ Excused' : e <= cursor' => e \in Received'
    BY <1>1, <1>5, <1>6 DEF FeedInv, FeedIsExact, Excused, Received
  <2>2. QED
    BY <1>1, <2>1 DEF FeedInv, FeedIsExact
<1>8. Scanning'
  <2> SUFFICES ASSUME at \in {"scan", "rescan"}, NEW e \in view' \ Excused', e > cursor,
                      Scanned(TypeOf[e])
               PROVE  e \in found
    BY <1>1 DEF Scanning, Scanned, FeedInv
  <2>1. e \notin applied
    BY <1>2 DEF Behind, Excused
  <2>2. QED
    BY <1>1, <1>5, <2>1 DEF FeedInv, Scanning
<1>9. QED
  BY <1>1, <1>4, <1>7, <1>8 DEF FeedInv

\* A step that reads nothing.
LEMMA FeedMovesOn ==
    ASSUME FeedInv, UNCHANGED <<view, late, cursor, delivered, before, slipped, reader>>,
           bootstrapping' \in BOOLEAN, drops' \in 0..MaxDrops,
           \/ UNCHANGED <<at, scanned, found>>
           \/ /\ scanned' = 0 /\ found' = {} /\ at' \in {"ready", "scan", "wait", "rescan"}
              /\ reader = "feed"
    PROVE  FeedInv'
<1>1. Len(TypeOrder) \in Nat \ {0}
  BY TypesAre
<1>2. FeedTypeOK'
  <2>1. 0 \in 0..(Len(TypeOrder) - 1)
    BY <1>1
  <2>2. QED
    BY <2>1 DEF FeedInv, FeedTypeOK
<1>3. FeedIsExact' /\ Excused' = Excused
  BY DEF FeedInv, FeedIsExact, Received, Excused
<1>4. Scanning'
  <2>1. CASE UNCHANGED <<at, scanned, found>>
    BY <1>3, <2>1 DEF FeedInv, Scanning, Scanned
  <2>2. CASE scanned' = 0 /\ found' = {}
    <3>1. \A t : ~Scanned(t)'
      BY <2>2 DEF Scanned
    <3>2. QED
      BY <2>2, <3>1 DEF Scanning
  <2>3. QED
    BY <2>1, <2>2
<1>5. QED
  BY <1>2, <1>3, <1>4 DEF FeedInv

LEMMA SeekKeeps ==
    ASSUME ViewInv, FeedInv, reader = "feed", Seek, UNCHANGED <<view, late, reader>>
    PROVE  FeedInv'
<1> DEFINE heads == found \cup OfType(TypeOrder[scanned + 1])
<1>1. heads \subseteq view /\ view \subseteq Entries
  BY DEF OfType, FeedInv, ViewInv, ViewTypeOK
<1>2. /\ at = "seek" /\ cursor = 0 /\ scanned \in 0..(Len(TypeOrder) - 1)
      /\ UNCHANGED <<bootstrapping, delivered, drops, slipped>>
  BY DEF Seek, FeedInv, FeedTypeOK
<1>3. \A i \in 1..Len(delivered) : delivered[i] \in Nat /\ delivered[i] # 0
  <2>1. delivered \in Seq(Entries)
    BY DEF FeedInv, FeedTypeOK
  <2>2. \A i \in 1..Len(delivered) : delivered[i] \in Entries
    BY <2>1
  <2>3. QED
    BY <2>2, EntriesAre
<1>4. Len(delivered) = 0
  <2>1. Len(delivered) \in Nat /\ \A i \in 1..Len(delivered) : delivered[i] <= 0
    BY <1>2 DEF FeedInv, FeedTypeOK, FeedIsExact
  <2>2. \A i \in 1..Len(delivered) : FALSE
    BY <1>3, <2>1
  <2>3. QED
    BY <2>1, <2>2
<1>5. CASE LastType
  <2>1. cursor' \in view \cup {0}
    BY <1>1, <1>5, NewestIs DEF Seek
  <2>2. at' = "ready" /\ before' = view /\ found' = {} /\ scanned' = 0
    BY <1>5 DEF Seek
  <2>3. 0 \in 0..(Len(TypeOrder) - 1)
    BY TypesAre
  <2>4. FeedTypeOK'
    BY <1>1, <1>2, <2>1, <2>2, <2>3 DEF FeedInv, FeedTypeOK
  <2>5. FeedIsExact'
    BY <1>2, <1>4, <2>2 DEF FeedIsExact, Excused
  <2>6. QED
    BY <1>2, <2>1, <2>2, <2>4, <2>5 DEF FeedInv, Scanning
<1>6. CASE ~LastType
  <2>1. found' = heads /\ scanned' = scanned + 1 /\ UNCHANGED <<cursor, at, before>>
    BY <1>6 DEF Seek
  <2>2. scanned' \in 0..(Len(TypeOrder) - 1)
    BY <1>2, <1>6, <2>1, TypesAre DEF LastType
  <2>3. found' \subseteq Entries
    BY <1>1, <2>1
  <2>4. FeedTypeOK'
    BY <1>2, <2>1, <2>2, <2>3 DEF FeedInv, FeedTypeOK
  <2>5. FeedIsExact'
    BY <1>2, <2>1 DEF FeedInv, FeedIsExact, Excused, Received
  <2>6. QED
    BY <1>1, <1>2, <2>1, <2>4, <2>5 DEF FeedInv, Scanning
<1>7. QED
  BY <1>5, <1>6

\* A page is handed over, of all that is past the cursor.
LEMMA AnswerKeeps ==
    ASSUME ViewInv, FeedInv, reader = "feed", NEW s \in SUBSET view, \A e \in s : e > cursor,
           \A e \in view \ Excused : e > cursor => e \in s,
           Answer(s), found' = {}, scanned' = 0, UNCHANGED <<drops, before, slipped, view, late, reader>>
    PROVE  FeedInv'
<1> DEFINE p == Page(s)
           n == Len(p)
           m == Len(delivered)
<1>1. s \in SUBSET Entries /\ view \subseteq Entries
  BY DEF ViewInv, ViewTypeOK
<1>2. /\ p \in Seq(s) /\ \A i \in 1..n : \A j \in 1..(i - 1) : p[j] < p[i]
      /\ s = {} => n = 0
      /\ s # {} => n > 0 /\ \A e \in s : e <= p[n] => \E i \in 1..n : p[i] = e
  BY <1>1, PageIs
<1>3. /\ at' = "ready" /\ delivered' = delivered \o p /\ cursor' = IF s = {} THEN cursor ELSE p[n]
      /\ bootstrapping' \in BOOLEAN
  BY DEF Answer
<1> HIDE DEF p
<1>4. /\ delivered \in Seq(Entries) /\ p \in Seq(Entries) /\ n \in Nat /\ m \in Nat
      /\ \A i \in 1..n : p[i] \in s
  <2>1. delivered \in Seq(Entries) /\ m \in Nat
    BY DEF FeedInv, FeedTypeOK
  <2>2. n \in Nat /\ \A i \in 1..n : p[i] \in s
    BY <1>2
  <2>3. p \in Seq(Entries)
    BY <1>1, <1>2
  <2>4. QED
    BY <2>1, <2>2, <2>3
<1>5. /\ delivered' \in Seq(Entries) /\ Len(delivered') = m + n
      /\ \A i \in 1..(m + n) : delivered'[i] = IF i <= m THEN delivered[i] ELSE p[i - m]
  <2> HIDE DEF n, m
  <2>1. Len(p) = n /\ Len(delivered) = m
    BY DEF n, m
  <2>2. QED
    BY <1>3, <1>4, <2>1
<1>6. cursor' \in view \cup {0} /\ cursor' \in Nat /\ cursor \in Nat /\ cursor <= cursor'
  <2>1. cursor \in view \cup {0} /\ cursor \in Nat
    BY <1>1, EntriesAre DEF FeedInv
  <2>2. CASE s = {}
    BY <1>3, <2>1, <2>2
  <2>3. CASE s # {}
    <3>1. p[n] \in s
      BY <1>2, <1>4, <2>3
    <3>2. p[n] \in Nat /\ p[n] > cursor /\ p[n] \in view
      BY <1>1, <3>1, EntriesAre
    <3>3. QED
      BY <1>3, <2>1, <2>3, <3>2
  <2>4. QED
    BY <2>2, <2>3
<1>7. ASSUME NEW i \in 1..n PROVE p[i] <= cursor' /\ p[i] > cursor /\ p[i] \in Nat
  <2>1. s # {} /\ p[i] \in s /\ p[n] \in s /\ i \in Nat /\ n \in 1..n
    BY <1>2, <1>4
  <2>2. p[i] \in Nat /\ p[n] \in Nat /\ p[i] > cursor
    BY <1>1, <2>1, EntriesAre
  <2>3. i = n \/ i \in 1..(n - 1)
    BY <1>4
  <2>4. p[i] <= p[n]
    BY <1>2, <2>1, <2>2, <2>3
  <2>5. QED
    BY <1>3, <2>1, <2>2, <2>4
<1>8. \A i \in 1..m : delivered[i] <= cursor /\ delivered[i] \in Nat
  <2>1. \A i \in 1..m : delivered[i] \in Entries
    BY <1>4
  <2>2. QED
    BY <2>1, EntriesAre DEF FeedInv, FeedIsExact
<1> HIDE DEF n, m
<1>9. ASSUME NEW i \in 1..(m + n)
      PROVE  /\ delivered'[i] <= cursor'
             /\ \A j \in 1..(i - 1) : delivered'[j] < delivered'[i]
  <2>1. CASE i <= m
    <3>1. i \in 1..m /\ \A j \in 1..(i - 1) : j \in 1..m /\ j <= m /\ j \in 1..(m + n)
      BY <1>4, <2>1
    <3>2. \A j \in 1..(i - 1) : delivered[j] < delivered[i]
      BY <3>1 DEF FeedInv, FeedIsExact, m
    <3>3. QED
      BY <1>5, <1>6, <1>8, <2>1, <3>1, <3>2
  <2>2. CASE ~(i <= m)
    <3>1. i - m \in 1..n /\ delivered'[i] = p[i - m]
      BY <1>4, <1>5, <2>2
    <3>2. p[i - m] <= cursor' /\ p[i - m] > cursor /\ p[i - m] \in Nat
      BY <1>7, <3>1
    <3>3. ASSUME NEW j \in 1..(i - 1) PROVE delivered'[j] < p[i - m]
      <4>1. j \in 1..(m + n)
        BY <1>4
      <4>2. CASE j <= m
        <5>1. j \in 1..m /\ delivered'[j] = delivered[j]
          BY <1>4, <1>5, <4>1, <4>2
        <5>2. QED
          BY <1>6, <1>8, <3>2, <5>1
      <4>3. CASE ~(j <= m)
        <5>1. j - m \in 1..((i - m) - 1) /\ delivered'[j] = p[j - m]
          BY <1>4, <1>5, <4>1, <4>3
        <5>2. QED
          BY <1>2, <3>1, <5>1 DEF n
      <4>4. QED
        BY <4>2, <4>3
    <3>4. QED
      BY <3>1, <3>2, <3>3
  <2>3. QED
    BY <2>1, <2>2
<1>10. Received' = Received \cup {p[i] : i \in 1..n}
  <2>1. DOMAIN delivered' = 1..(m + n) /\ DOMAIN delivered = 1..m
    BY <1>4, <1>5 DEF m
  <2>2. \A i \in 1..m : i \in 1..(m + n) /\ delivered'[i] = delivered[i]
    BY <1>4, <1>5
  <2>3. \A i \in 1..n : i + m \in 1..(m + n) /\ delivered'[i + m] = p[i]
    BY <1>4, <1>5
  <2>4. \A i \in 1..(m + n) : i \in 1..m \/ (i - m \in 1..n /\ delivered'[i] = p[i - m])
    BY <1>4, <1>5
  <2>5. QED
    BY <2>1, <2>2, <2>3, <2>4 DEF Received, ToSet
<1>11. ASSUME NEW e \in view' \ Excused', e <= cursor' PROVE e \in Received'
  <2>1. e \in view \ Excused /\ e \in Nat
    BY <1>1, EntriesAre DEF Excused
  <2>2. CASE e <= cursor
    BY <1>10, <2>1, <2>2 DEF FeedInv, FeedIsExact
  <2>3. CASE ~(e <= cursor)
    <3>1. e \in s
      BY <1>6, <2>1, <2>3
    <3>2. \E i \in 1..n : p[i] = e
      BY <1>2, <1>3, <1>11, <3>1 DEF n
    <3>3. QED
      BY <1>10, <3>2
  <2>4. QED
    BY <2>2, <2>3
<1>12. FeedIsExact'
  BY <1>5, <1>9, <1>11 DEF FeedIsExact
<1>13. FeedTypeOK'
  <2>1. 0 \in 0..(Len(TypeOrder) - 1)
    BY TypesAre
  <2>2. cursor' \in Entries \cup {0}
    BY <1>1, <1>6
  <2>3. QED
    BY <1>3, <1>5, <2>1, <2>2 DEF FeedInv, FeedTypeOK
<1>14. QED
  BY <1>3, <1>6, <1>12, <1>13 DEF FeedInv, Scanning

LEMMA ScanKeeps ==
    ASSUME ViewInv, FeedInv, reader = "feed", Scan, UNCHANGED <<view, late, reader>>
    PROVE  FeedInv'
<1> DEFINE t == TypeOrder[scanned + 1]
           all == found \cup {e \in OfType(t) : AfterCursor(e)}
<1>1. /\ at \in {"scan", "rescan"} /\ UNCHANGED <<drops, before, slipped>>
      /\ scanned \in 0..(Len(TypeOrder) - 1) /\ found \subseteq view
      /\ \A e \in found : e > cursor
  BY DEF Scan, FeedInv, FeedTypeOK, Scanning
<1>2. all \subseteq view /\ \A e \in all : e > cursor
  BY <1>1 DEF OfType, AfterCursor
<1>3. ASSUME NEW e \in view \ Excused, e > cursor, Scanned(TypeOf[e]) \/ TypeOf[e] = t
      PROVE  e \in all
  BY <1>1, <1>3 DEF FeedInv, Scanning, OfType, AfterCursor
<1>4. CASE ~LastType
  <2>1. found' = all /\ scanned' = scanned + 1 /\ UNCHANGED <<at, delivered, cursor, bootstrapping>>
    BY <1>4 DEF Scan
  <2> HIDE DEF all
  <2>2. scanned' \in 0..(Len(TypeOrder) - 1)
    BY <1>1, <1>4, <2>1, TypesAre DEF LastType
  <2>3. FeedTypeOK'
    BY <1>1, <1>2, <2>1, <2>2 DEF FeedInv, FeedTypeOK, ViewInv, ViewTypeOK
  <2>4. FeedIsExact' /\ Excused' = Excused
    BY <1>1, <2>1 DEF FeedInv, FeedIsExact, Received, Excused
  <2>5. \A u : Scanned(u)' => Scanned(u) \/ u = t
    <3>1. \A i \in 1..(scanned + 1) : i \in 1..scanned \/ i = scanned + 1
      BY <1>1
    <3>2. QED
      BY <2>1, <3>1 DEF Scanned
  <2>6. Scanning'
    BY <1>1, <1>2, <1>3, <2>1, <2>4, <2>5 DEF Scanning
  <2>7. QED
    BY <1>1, <1>2, <2>1, <2>3, <2>4, <2>6 DEF FeedInv
<1>5. CASE LastType
  <2>1. \A e \in view : Scanned(TypeOf[e]) \/ TypeOf[e] = t
    <3>1. view \subseteq Entries
      BY DEF ViewInv, ViewTypeOK
    <3>2. \A i \in 1..Len(TypeOrder) : i \in 1..scanned \/ i = scanned + 1
      BY <1>1, <1>5, TypesAre DEF LastType
    <3>3. QED
      BY <3>1, <3>2, TypesAre DEF Scanned
  <2>2. found' = {} /\ scanned' = 0
    BY <1>5 DEF Scan
  <2>3. CASE all # {} \/ bootstrapping \/ at = "rescan"
    <3>1. Answer(all)
      BY <1>5, <2>3 DEF Scan
    <3>2. all \in SUBSET view /\ \A e \in view \ Excused : e > cursor => e \in all
      BY <1>2, <1>3, <2>1
    <3> HIDE DEF all
    <3>3. QED
      BY <1>1, <1>2, <2>2, <3>1, <3>2, AnswerKeeps
  <2>4. CASE ~(all # {} \/ bootstrapping \/ at = "rescan")
    <3>1. at' = "wait" /\ UNCHANGED <<delivered, cursor, bootstrapping>>
      BY <1>5, <2>4 DEF Scan
    <3>2. bootstrapping' \in BOOLEAN /\ drops' \in 0..MaxDrops
      BY <1>1, <3>1 DEF FeedInv, FeedTypeOK
    <3>3. QED
      BY <1>1, <2>2, <3>1, <3>2, FeedMovesOn
  <2>5. QED
    BY <2>3, <2>4
<1>6. QED
  BY <1>4, <1>5

LEMMA FeedStepKeeps ==
    ASSUME ViewInv, FeedInv, reader = "feed", FeedStep, UNCHANGED <<view, late, reader>>
    PROVE  FeedInv'
<1>1. FeedTypeOK
  BY DEF FeedInv
<1>2. at \in {"ready", "wait"} => scanned = 0 /\ found = {}
  BY <1>1 DEF FeedTypeOK
<1>3. CASE Poll
  BY <1>1, <1>2, <1>3, FeedMovesOn DEF Poll, FeedTypeOK
<1>4. CASE Elapse
  BY <1>1, <1>2, <1>4, FeedMovesOn DEF Elapse, FeedTypeOK
<1>5. CASE Drop
  <2>1. drops' \in 0..MaxDrops
    <3>1. drops \in 0..MaxDrops /\ drops < MaxDrops /\ drops' = drops + 1
      BY <1>1, <1>5 DEF Drop, FeedTypeOK
    <3>2. QED
      BY <3>1, ChangeFeedAssumption
  <2>2. QED
    BY <1>5, <2>1, FeedMovesOn DEF Drop
<1>6. QED
  BY <1>3, <1>4, <1>5, SeekKeeps, ScanKeeps DEF FeedStep

LEMMA FeedInvStep == ASSUME ViewInv, FeedInv, [Next]_vars PROVE FeedInv'
<1>1. CASE CommitView
  BY <1>1, FeedCommitKeeps
<1>2. CASE FeedReads
  BY <1>2, FeedStepKeeps DEF FeedReads, viewVars
<1>3. FeedTypeOK
  BY DEF FeedInv
<1>4. CASE EmitUpdate
  <2>1. UNCHANGED <<view, late, reader>>
    BY <1>4 DEF EmitUpdate, Update
  <2>2. CASE reader = "feed" /\ at = "wait"
    <3>1. FeedUpdate
      BY <1>4, <2>2 DEF EmitUpdate
    <3>2. at' = "rescan" /\ UNCHANGED <<scanned, found, cursor, bootstrapping, delivered, drops, before, slipped>>
      BY <2>2, <3>1 DEF FeedUpdate
    <3>3. QED
      BY <1>3, <2>1, <2>2, <3>2, FeedMovesOn DEF FeedTypeOK
  <2>3. CASE ~(reader = "feed" /\ at = "wait")
    <3>1. UNCHANGED feedVars
      BY <1>4, <2>3 DEF EmitUpdate, FeedUpdate, feedVars
    <3>2. QED
      BY <1>3, <2>1, <3>1, FeedMovesOn DEF FeedTypeOK, feedVars
  <2>4. QED
    BY <2>2, <2>3
<1>5. CASE UNCHANGED <<view, late, reader, feedVars>>
  BY <1>3, <1>5, FeedMovesOn DEF FeedTypeOK, feedVars
<1>6. QED
  BY <1>1, <1>2, <1>4, <1>5
     DEF Next, ApplyEntry, Apply, ListReads, PageReads, HookReads, InstallerRuns, vars, viewVars

---------------------------------------------------------------------------
(* The walk over the pages of a list.                                      *)

LEMMA PrecedesIs ==
    ASSUME order \in {"asc", "desc"}
    PROVE  /\ \A x, y, z \in Nat : Precedes(x, y) /\ Precedes(y, z) => Precedes(x, z)
           /\ \A x, y \in Nat : x # y => Precedes(x, y) \/ Precedes(y, x)
           /\ \A x, y \in Nat : ~(Precedes(x, y) /\ Precedes(y, x)) /\ ~Precedes(x, x)
  BY DEF Precedes

Backwards == {p \in Nat \X Nat : Precedes(p[2], p[1])}

LEMMA LastIs ==
    ASSUME order \in {"asc", "desc"}, NEW s \in SUBSET Entries, s # {}
    PROVE  LastOf(s) \in s /\ \A f \in s \ {LastOf(s)} : Precedes(f, LastOf(s))
<1>1. IsFiniteSet(s) /\ Linear(InOrder, s) /\ s \subseteq Nat
  BY FiniteEntries, Linearities, EntriesAre
<1>2. \A R : Linear(R, s) => \E e \in s : \A f \in s \ {e} : <<f, e>> \in R
  BY <1>1, LastExists
<1>3. PICK e \in s : \A f \in s \ {e} : <<f, e>> \in InOrder
  BY <1>1, <1>2
<1>4. \A f \in s \ {e} : Precedes(f, e)
  BY <1>3 DEF InOrder
<1>5. QED
  BY <1>4 DEF LastOf

LEMMA FirstIs ==
    ASSUME order \in {"asc", "desc"}, NEW s \in SUBSET Entries
    PROVE  /\ s # {} => FirstOf(s) # {}
           /\ \A e \in FirstOf(s) : \A f \in s : Precedes(f, e) => f \in FirstOf(s)
<1>1. IsFiniteSet(s) /\ s \subseteq Nat
  BY FiniteEntries, EntriesAre
<1>2. ASSUME s # {} PROVE FirstOf(s) # {}
  <2>1. Linear(Backwards, s)
    BY <1>1, PrecedesIs DEF Linear, Backwards
  <2>2. \A R : Linear(R, s) => \E e \in s : \A f \in s \ {e} : <<f, e>> \in R
    BY <1>1, <1>2, LastExists
  <2>3. PICK e \in s : \A f \in s \ {e} : <<f, e>> \in Backwards
    BY <2>1, <2>2
  <2>4. \A f \in s \ {e} : Precedes(e, f) /\ e \in Nat /\ f \in Nat
    BY <1>1, <2>3 DEF Backwards
  <2>5. {f \in s : Precedes(f, e)} = {}
    BY <1>1, <2>4, PrecedesIs
  <2>6. Cardinality({f \in s : Precedes(f, e)}) < PageSize
    BY <2>5, FS_EmptySet, ListPagesAssumption
  <2>7. QED
    BY <2>6 DEF FirstOf
<1>3. ASSUME NEW e \in FirstOf(s), NEW f \in s, Precedes(f, e) PROVE f \in FirstOf(s)
  <2> DEFINE U == {g \in s : Precedes(g, f)}
             V == {g \in s : Precedes(g, e)}
  <2>1. e \in s /\ Cardinality(V) < PageSize
    BY DEF FirstOf
  <2>2. U \subseteq V /\ V \subseteq s
    BY <1>1, <1>3, <2>1, PrecedesIs
  <2> HIDE DEF U, V
  <2>3. IsFiniteSet(V) /\ Cardinality(V) \in Nat
    BY <1>1, <2>2, FS_Subset, FS_CardinalityType
  <2>4. Cardinality(U) \in Nat /\ Cardinality(U) <= Cardinality(V)
    BY <2>2, <2>3, FS_Subset, FS_CardinalityType
  <2>5. Cardinality(U) < PageSize
    BY <2>1, <2>3, <2>4, ListPagesAssumption
  <2>6. QED
    BY <2>5 DEF FirstOf, U
<1>4. QED
  BY <1>2, <1>3

Ordered(R, a) == \A i \in 1..Len(a) : \A j \in 1..(i - 1) : <<a[j], a[i]>> \in R

Below(R, A, B) == \A e \in A : \A f \in B : <<e, f>> \in R

\* One enumeration in order, and another one beyond it.
LEMMA JoinSorted ==
    ASSUME NEW S, NEW R, NEW a \in Seq(S), NEW b \in Seq(S), NEW c, c = a \o b,
           Ordered(R, a), Ordered(R, b), Below(R, ToSet(a), ToSet(b))
    PROVE  c \in Seq(S) /\ Ordered(R, c) /\ \A e : e \in ToSet(c) <=> e \in ToSet(a) \/ e \in ToSet(b)
<1> DEFINE m == Len(a)
           n == Len(b)
<1>1. c \in Seq(S) /\ Len(c) = m + n /\ m \in Nat /\ n \in Nat
  OBVIOUS
<1>2. \A i \in 1..(m + n) : c[i] = IF i <= m THEN a[i] ELSE b[i - m]
  OBVIOUS
<1>3. DOMAIN a = 1..m /\ DOMAIN b = 1..n /\ DOMAIN c = 1..(m + n)
  BY <1>1
<1> HIDE DEF m, n
<1>4. ASSUME NEW i \in 1..(m + n), NEW j \in 1..(i - 1) PROVE <<c[j], c[i]>> \in R
  <2>1. j \in 1..(m + n) /\ j < i
    BY <1>1
  <2>2. CASE i <= m
    <3>1. i \in 1..m /\ j <= m /\ c[j] = a[j] /\ c[i] = a[i]
      BY <1>1, <1>2, <2>1, <2>2
    <3>2. QED
      BY <3>1 DEF m, Ordered
  <2>3. CASE ~(i <= m) /\ j <= m
    <3>1. i - m \in 1..n /\ j \in 1..m /\ c[j] = a[j] /\ c[i] = b[i - m]
      BY <1>1, <1>2, <2>1, <2>3
    <3>2. a[j] \in ToSet(a) /\ b[i - m] \in ToSet(b)
      BY <1>3, <3>1 DEF ToSet
    <3>3. QED
      BY <3>1, <3>2 DEF Below
  <2>4. CASE ~(i <= m) /\ ~(j <= m)
    <3>1. i - m \in 1..n /\ j - m \in 1..((i - m) - 1) /\ c[j] = b[j - m] /\ c[i] = b[i - m]
      BY <1>1, <1>2, <2>1, <2>4
    <3>2. QED
      BY <3>1 DEF n, Ordered
  <2>5. QED
    BY <2>2, <2>3, <2>4
<1>5. ToSet(c) = ToSet(a) \cup ToSet(b)
  <2>1. ASSUME NEW i \in 1..m PROVE a[i] \in ToSet(c)
    <3>1. i \in 1..(m + n) /\ c[i] = a[i]
      BY <1>1, <1>2
    <3>2. QED
      BY <1>3, <3>1 DEF ToSet
  <2>2. ASSUME NEW i \in 1..n PROVE b[i] \in ToSet(c)
    <3>1. i + m \in 1..(m + n) /\ c[i + m] = b[i]
      BY <1>1, <1>2
    <3>2. QED
      BY <1>3, <3>1 DEF ToSet
  <2>3. ASSUME NEW i \in 1..(m + n) PROVE c[i] \in ToSet(a) \cup ToSet(b)
    <3>1. \/ i \in 1..m /\ c[i] = a[i]
          \/ i - m \in 1..n /\ c[i] = b[i - m]
      BY <1>1, <1>2
    <3>2. QED
      BY <1>3, <3>1 DEF ToSet
  <2>4. QED
    BY <1>3, <2>1, <2>2, <2>3 DEF ToSet
<1>6. QED
  BY <1>1, <1>4, <1>5 DEF Ordered

\* Where the walk is: what it has passed was handed out, or came behind it.
Walked == \A e \in view \cap kept : Past(e) \/ e = lastKey => e \in ToSet(listed) \cup behind

ListInv ==
    /\ ListTypeOK /\ Walked
    /\ lastKey \in view \cup {0}
    /\ \A i \in 1..Len(listed) : \A j \in 1..(i - 1) : Precedes(listed[j], listed[i])
    /\ lastKey # 0 => \A e \in ToSet(listed) : e = lastKey \/ Precedes(e, lastKey)
    /\ lastKey = 0 /\ walk = "page" => listed = <<>>
    /\ reader # "list" => kept = {}

LEMMA ListInitHolds == ASSUME Init PROVE ListInv
<1>1. /\ order \in {"asc", "desc"} /\ wanted \subseteq Rows /\ kept \subseteq wanted
      /\ walk = "page" /\ lastKey = 0 /\ listed = <<>> /\ behind = {}
      /\ reader # "list" => kept = {}
  BY DEF Init, ListInit
<1>2. listed \in Seq(kept) /\ Len(listed) = 0
  BY <1>1
<1>3. 0 \notin view
  BY ViewInitHolds, EntriesAre DEF ViewInv, ViewTypeOK
<1>4. ListTypeOK
  BY <1>1, <1>2 DEF ListTypeOK
<1>5. Walked
  BY <1>1, <1>3 DEF Walked, Past
<1>6. QED
  BY <1>1, <1>2, <1>4, <1>5 DEF ListInv

LEMMA ListCommitKeeps == ASSUME ViewInv, ListInv, CommitView PROVE ListInv'
<1>1. /\ view' = view \cup applied
      /\ UNCHANGED <<reader, order, wanted, kept, walk, lastKey, listed>>
      /\ behind \subseteq behind' /\ behind' \subseteq behind \cup applied
  BY DEF CommitView, Commit, ListCommit, listVars
<1>2. ASSUME NEW e \in applied, e \in kept, Past(e) PROVE e \in behind'
  BY <1>2 DEF CommitView, ListCommit, ListInv
<1>3. lastKey \notin applied
  BY EntriesAre DEF ListInv, ViewInv, ViewTypeOK
<1>4. \A e : Past(e)' <=> Past(e)
  BY <1>1 DEF Past, Precedes
<1>5. Walked'
  BY <1>1, <1>2, <1>3, <1>4 DEF ListInv, Walked
<1>6. ListTypeOK'
  BY <1>1 DEF ListInv, ListTypeOK
<1>7. QED
  BY <1>1, <1>5, <1>6 DEF ListInv, Precedes

LEMMA ReadPageKeeps ==
    ASSUME ViewInv, ListInv, reader = "list", ReadPage, UNCHANGED <<view, reader>>
    PROVE  ListInv'
<1> DEFINE s == Beyond(lastKey) \cap wanted
           rows == FirstOf(s)
           t == rows \cap kept
           b == Sorted(t, Precedes)
<1>1. /\ walk = "page" /\ walk' = "peek" /\ UNCHANGED <<order, wanted, kept, behind, view, reader>>
      /\ listed' = listed \o b /\ lastKey' = IF rows = {} THEN 0 ELSE LastOf(rows)
  BY DEF ReadPage, RowsOf
<1>2. /\ order \in {"asc", "desc"} /\ view \subseteq Entries /\ Entries \subseteq Nat /\ 0 \notin Entries
      /\ lastKey \in view \cup {0} /\ kept \subseteq wanted /\ wanted \subseteq Rows /\ listed \in Seq(kept)
  BY EntriesAre DEF ListInv, ListTypeOK, ViewInv, ViewTypeOK
<1>3. s \subseteq view /\ \A e \in s : e \in wanted /\ (lastKey = 0 \/ Precedes(lastKey, e))
  BY DEF Beyond, OfType
<1>4. \A e \in view \cap wanted : e \in s \/ (lastKey # 0 /\ ~Precedes(lastKey, e))
  BY <1>2 DEF Beyond, OfType, Rows
<1>5. rows \subseteq s
  BY DEF FirstOf
<1>6. /\ s # {} => rows # {}
      /\ \A e \in rows : \A f \in s : Precedes(f, e) => f \in rows
  BY <1>2, <1>3, FirstIs
<1> HIDE DEF s, rows
<1>7. rows # {} => LastOf(rows) \in rows /\ \A f \in rows \ {LastOf(rows)} : Precedes(f, LastOf(rows))
  BY <1>2, <1>3, <1>5, LastIs
<1>8. /\ b \in Seq(t) /\ \A i \in 1..Len(b) : \A j \in 1..(i - 1) : Precedes(b[j], b[i])
      /\ \A e \in t : \E i \in 1..Len(b) : b[i] = e
  <2>1. t \in SUBSET Entries
    BY <1>2, <1>3, <1>5
  <2> HIDE DEF t
  <2>2. QED
    BY <1>2, <2>1, SortedRows
<1>9. t \subseteq rows /\ t \subseteq kept
  OBVIOUS
<1> HIDE DEF t, b
<1>10. ToSet(b) = t /\ b \in Seq(kept) /\ ToSet(listed) \subseteq kept
  <2>1. DOMAIN b = 1..Len(b) /\ \A i \in 1..Len(b) : b[i] \in t
    BY <1>8
  <2>2. ToSet(b) = t
    BY <1>8, <2>1 DEF ToSet
  <2>3. b \in Seq(kept)
    BY <1>8, <1>9
  <2>4. ToSet(listed) \subseteq kept
    BY <1>2 DEF ToSet
  <2>5. QED
    BY <2>2, <2>3, <2>4
<1>11. kept \subseteq Nat
  BY <1>2 DEF Rows
<1>12. \A e \in ToSet(listed) : \A f \in rows : Precedes(e, f)
  <2> SUFFICES ASSUME NEW e \in ToSet(listed), NEW f \in rows PROVE Precedes(e, f)
    OBVIOUS
  <2>1. e \in Nat /\ f \in Nat /\ lastKey \in Nat
    <3>1. e \in kept
      BY <1>10
    <3>2. f \in view
      BY <1>3, <1>5
    <3>3. QED
      BY <1>2, <1>11, <3>1, <3>2
  <2>2. CASE lastKey = 0
    <3>1. listed = <<>>
      BY <1>1, <2>2 DEF ListInv
    <3>2. QED
      BY <3>1 DEF ToSet
  <2>3. CASE lastKey # 0
    <3>1. Precedes(lastKey, f) /\ (e = lastKey \/ Precedes(e, lastKey))
      BY <1>3, <1>5, <2>3 DEF ListInv
    <3>2. QED
      BY <1>2, <2>1, <3>1, PrecedesIs
  <2>4. QED
    BY <2>2, <2>3
<1>13. /\ listed' \in Seq(kept) /\ ToSet(listed') = ToSet(listed) \cup t
       /\ \A i \in 1..Len(listed') : \A j \in 1..(i - 1) : Precedes(listed'[j], listed'[i])
  <2>1. /\ \A i \in 1..Len(listed) : listed[i] \in ToSet(listed) /\ listed[i] \in Nat
        /\ \A i \in 1..Len(b) : b[i] \in t /\ b[i] \in Nat
    <3>1. /\ \A i \in 1..Len(listed) : listed[i] \in ToSet(listed)
          /\ \A i \in 1..Len(b) : b[i] \in t
      BY <1>2, <1>8 DEF ToSet
    <3>2. QED
      BY <1>9, <1>10, <1>11, <3>1
  <2>2. Ordered(InOrder, listed)
    <3>1. \A i \in 1..Len(listed) : \A j \in 1..(i - 1) : j \in 1..Len(listed)
      BY <1>2
    <3>2. QED
      BY <2>1, <3>1 DEF InOrder, ListInv, Ordered
  <2>3. Ordered(InOrder, b)
    <3>1. \A i \in 1..Len(b) : \A j \in 1..(i - 1) : j \in 1..Len(b)
      BY <1>8
    <3>2. QED
      BY <1>8, <2>1, <3>1 DEF InOrder, Ordered
  <2>4. Below(InOrder, ToSet(listed), ToSet(b))
    BY <1>9, <1>10, <1>11, <1>12 DEF InOrder, Below
  <2>5. listed' \in Seq(kept) /\ Ordered(InOrder, listed') /\ ToSet(listed') = ToSet(listed) \cup ToSet(b)
    <3>1. listed \in Seq(kept) /\ b \in Seq(kept) /\ listed' = listed \o b
      BY <1>1, <1>2, <1>10
    <3>2. \A R : Ordered(R, listed) /\ Ordered(R, b) /\ Below(R, ToSet(listed), ToSet(b)) =>
                    /\ listed' \in Seq(kept) /\ Ordered(R, listed')
                    /\ \A e : e \in ToSet(listed') <=> e \in ToSet(listed) \/ e \in ToSet(b)
      BY <3>1, JoinSorted
    <3>3. QED
      BY <2>2, <2>3, <2>4, <3>2
  <2>6. QED
    BY <1>1, <1>10, <2>5 DEF InOrder, Ordered
<1>14. lastKey' \in view \cup {0} /\ lastKey' \in wanted \cup {0}
  BY <1>1, <1>3, <1>5, <1>7
<1>15. lastKey' # 0 => \A e \in ToSet(listed') : e = lastKey' \/ Precedes(e, lastKey')
  <2> SUFFICES ASSUME lastKey' # 0, NEW e \in ToSet(listed) \cup t
               PROVE  e = lastKey' \/ Precedes(e, lastKey')
    BY <1>13
  <2>1. rows # {} /\ lastKey' \in rows /\ \A f \in rows \ {lastKey'} : Precedes(f, lastKey')
    BY <1>1, <1>7
  <2>2. QED
    BY <1>9, <1>12, <2>1
<1>16. Walked'
  <2> SUFFICES ASSUME NEW e \in view \cap kept, Past(e)' \/ e = lastKey'
               PROVE  e \in ToSet(listed') \cup behind
    BY <1>1 DEF Walked
  <2>1. e \in Nat /\ e # 0 /\ lastKey \in Nat
    BY <1>2
  <2>2. ASSUME lastKey # 0, ~Precedes(lastKey, e) PROVE e \in ToSet(listed') \cup behind
    <3>1. Past(e) \/ e = lastKey
      BY <1>2, <2>1, <2>2, PrecedesIs DEF Past
    <3>2. QED
      BY <1>13, <3>1 DEF ListInv, Walked
  <2>3. ASSUME e \in s PROVE e \in t
    <3>1. rows # {} /\ lastKey' = LastOf(rows) /\ lastKey' \in rows
      BY <1>1, <1>6, <1>7, <2>3
    <3>2. lastKey' # 0
      BY <1>2, <1>3, <1>5, <3>1
    <3>3. e = lastKey' \/ Precedes(e, lastKey')
      BY <1>1, <3>2 DEF Past, Precedes
    <3>4. e \in rows
      BY <1>6, <2>3, <3>1, <3>3
    <3>5. QED
      BY <3>4 DEF t
  <2>4. QED
    BY <1>2, <1>4, <1>13, <2>2, <2>3
<1>17. ListTypeOK'
  BY <1>1, <1>13, <1>14 DEF ListInv, ListTypeOK
<1>18. QED
  BY <1>1, <1>13, <1>14, <1>15, <1>16, <1>17 DEF ListInv, Precedes

LEMMA PeekHasMoreKeeps ==
    ASSUME ViewInv, ListInv, reader = "list", PeekHasMore, UNCHANGED <<view, reader>>
    PROVE  ListInv'
<1>1. /\ walk = "peek" /\ UNCHANGED <<order, wanted, kept, lastKey, listed, behind, view, reader>>
      /\ walk' = IF lastKey # 0 /\ Beyond(lastKey) # {} THEN "page" ELSE "done"
  BY DEF PeekHasMore
<1>2. /\ order \in {"asc", "desc"} /\ view \subseteq Entries /\ Entries \subseteq Nat /\ 0 \notin Entries
      /\ lastKey \in view \cup {0} /\ kept \subseteq Rows
  BY EntriesAre DEF ListInv, ListTypeOK, ViewInv, ViewTypeOK
<1>3. Walked'
  <2> SUFFICES ASSUME NEW e \in view \cap kept, Past(e)' \/ e = lastKey
               PROVE  e \in ToSet(listed) \cup behind
    BY <1>1 DEF Walked
  <2>1. CASE walk' = "page"
    <3>1. Past(e) \/ e = lastKey
      BY <1>1, <2>1 DEF Past, Precedes
    <3>2. QED
      BY <3>1 DEF ListInv, Walked
  <2>2. CASE walk' = "done"
    <3>1. lastKey = 0 \/ e \notin Beyond(lastKey)
      BY <1>1, <2>2
    <3>2. lastKey # 0 => ~Precedes(lastKey, e)
      BY <1>2, <3>1 DEF Beyond, OfType, Rows
    <3>3. e \in Nat /\ lastKey \in Nat
      BY <1>2
    <3>4. Past(e) \/ e = lastKey
      BY <1>1, <1>2, <3>2, <3>3, PrecedesIs DEF Past
    <3>5. QED
      BY <3>4 DEF ListInv, Walked
  <2>3. QED
    BY <1>1, <2>1, <2>2
<1>4. ListTypeOK'
  BY <1>1 DEF ListInv, ListTypeOK
<1>5. lastKey' = 0 /\ walk' = "page" => listed' = <<>>
  BY <1>1
<1>6. QED
  BY <1>1, <1>3, <1>4, <1>5 DEF ListInv, Precedes

LEMMA ListInvStep == ASSUME ViewInv, ListInv, [Next]_vars PROVE ListInv'
<1>1. CASE CommitView
  BY <1>1, ListCommitKeeps
<1>2. CASE ListReads
  BY <1>2, ReadPageKeeps, PeekHasMoreKeeps DEF ListReads, ListStep, viewVars
<1>3. CASE UNCHANGED <<view, reader, listVars>>
  <2>1. UNCHANGED <<view, reader, order, wanted, kept, walk, lastKey, listed, behind>>
    BY <1>3 DEF listVars
  <2>2. ListTypeOK' /\ Walked'
    BY <2>1 DEF ListInv, ListTypeOK, Walked, Past, Precedes
  <2>3. QED
    BY <2>1, <2>2 DEF ListInv, Precedes
<1>4. QED
  BY <1>1, <1>2, <1>3
     DEF Next, ApplyEntry, Apply, EmitUpdate, Update, FeedReads, PageReads, HookReads, InstallerRuns,
         vars, viewVars

---------------------------------------------------------------------------
(* The page of the dashboard.                                              *)

\* An event on its way to the page, or one that is excused.
Coming == updating \/ frames > 0 \/ missed \/ joined

DashboardInv ==
    /\ DashboardTypeOK
    /\ mounted /\ fetch = None /\ ~failed => painted = Version \/ Coming
    /\ mounted /\ fetch \in Nat => fetch = Version \/ Coming
    /\ reader # "page" => ~mounted /\ fetch = None

LEMMA VersionIs ==
    ASSUME ViewInv
    PROVE  Version \in Nat /\ IsFiniteSet(view)
  BY FiniteEntries DEF ViewInv, ViewTypeOK, Version

LEMMA TokensAre == None \notin Nat /\ Asked \notin Nat /\ None # Asked /\ Threshold \in Nat
  BY DashboardAssumption

LEMMA DashboardInitHolds == ASSUME Init PROVE DashboardInv
<1>1. /\ stream = "open" /\ frames = 0 /\ mounted = FALSE /\ fetch = None /\ cached = None
      /\ failed = FALSE /\ painted = None /\ missed = FALSE /\ joined = FALSE
  BY DEF Init, DashboardInit
<1>2. 0 \in 0..(Threshold + 1)
  BY TokensAre
<1>3. DashboardTypeOK
  BY <1>1, <1>2 DEF DashboardTypeOK
<1>4. QED
  BY <1>1, <1>3, TokensAre DEF DashboardInv

LEMMA DashboardCommitKeeps == ASSUME ViewInv, DashboardInv, CommitView PROVE DashboardInv'
<1>1. /\ view \subseteq view' /\ updating' = TRUE
      /\ UNCHANGED <<reader, stream, frames, mounted, fetch, cached, failed, painted, missed, joined>>
  BY DEF CommitView, Commit, dashboardVars, query
<1>2. view' \in SUBSET Entries
  BY DEF CommitView, Commit, ViewInv, ViewTypeOK
<1>3. Version \in Nat /\ Version' \in Nat /\ Version <= Version'
  <2>1. IsFiniteSet(view') /\ Cardinality(view') \in Nat
    BY <1>2, FiniteEntries
  <2>2. Cardinality(view) <= Cardinality(view')
    BY <1>1, <2>1, FS_Subset
  <2>3. QED
    BY <2>1, <2>2, VersionIs DEF Version
<1>4. 0..Version \subseteq 0..Version'
  BY <1>3
<1>5. DashboardTypeOK'
  BY <1>1, <1>4 DEF DashboardInv, DashboardTypeOK
<1>6. Coming'
  BY <1>1 DEF Coming
<1>7. QED
  BY <1>1, <1>5, <1>6 DEF DashboardInv

\* An event becomes a frame, or is missed.
LEMMA EmitKeeps ==
    ASSUME ViewInv, DashboardInv, Emit, reader = "page", UNCHANGED <<view, reader>>,
           updating' \in BOOLEAN
    PROVE  DashboardInv'
<1>1. /\ UNCHANGED <<mounted, fetch, cached, failed, painted, joined, view, reader>>
      /\ missed' = (missed \/ stream' # "open")
  BY DEF Emit, query
<1>2. /\ stream \in {"open", "ending", "down"} /\ frames \in 0..(Threshold + 1)
      /\ missed \in BOOLEAN
  BY DEF DashboardInv, DashboardTypeOK
<1>3. stream' \in {"open", "ending", "down"} /\ frames' \in 0..(Threshold + 1) /\ (frames' > 0 \/ stream' # "open")
  <2>1. CASE stream = "open" /\ frames > Threshold
    BY <1>2, <2>1 DEF Emit, WriteFrame
  <2>2. CASE stream = "open" /\ ~(frames > Threshold)
    <3>1. frames' = frames + 1 /\ stream' = stream
      BY <2>2 DEF Emit, WriteFrame
    <3>2. QED
      BY <1>2, <2>2, <3>1, TokensAre
  <2>3. CASE stream # "open"
    BY <1>2, <2>3 DEF Emit
  <2>4. QED
    BY <2>1, <2>2, <2>3
<1>4. missed' \in BOOLEAN
  BY <1>1
<1>5. DashboardTypeOK'
  BY <1>1, <1>3, <1>4 DEF DashboardInv, DashboardTypeOK, Version
<1>6. Coming'
  BY <1>1, <1>3 DEF Coming
<1>7. QED
  BY <1>1, <1>5, <1>6 DEF DashboardInv

\* The stream ends or comes back: what was on its way is there still, or is missed.
LEMMA StreamKeeps ==
    ASSUME ViewInv, DashboardInv, Keepalive \/ Ends \/ Breaks \/ Reconnect,
           UNCHANGED <<view, updating, reader>>
    PROVE  DashboardInv'
<1>1. /\ UNCHANGED <<mounted, fetch, cached, failed, painted, joined, view, updating, reader>>
      /\ stream' \in {"open", "ending", "down"} /\ frames' \in {frames, 0}
      /\ missed' \in BOOLEAN /\ (missed => missed') /\ (frames > 0 => frames' > 0 \/ missed')
  <2>1. UNCHANGED <<mounted, fetch, cached, failed, painted, joined, view, updating, reader>>
    BY DEF Keepalive, Ends, Breaks, Reconnect, query
  <2>2. missed \in BOOLEAN /\ stream \in {"open", "ending", "down"}
    BY DEF DashboardInv, DashboardTypeOK
  <2>3. CASE Keepalive \/ Ends \/ Reconnect
    BY <2>1, <2>2, <2>3 DEF Keepalive, Ends, Reconnect
  <2>4. CASE Breaks
    <3>1. stream' = "down" /\ frames' = 0 /\ missed' = (missed \/ frames > 0)
      BY <2>4 DEF Breaks
    <3>2. QED
      BY <2>1, <2>2, <3>1
  <2>5. QED
    BY <2>3, <2>4
<1>2. frames' \in 0..(Threshold + 1)
  BY <1>1, TokensAre DEF DashboardInv, DashboardTypeOK
<1>3. DashboardTypeOK'
  BY <1>1, <1>2 DEF DashboardInv, DashboardTypeOK, Version
<1>4. Coming => Coming'
  BY <1>1 DEF Coming
<1>5. QED
  BY <1>1, <1>3, <1>4 DEF DashboardInv, Version

\* The effect of a page leaves it with a fetch that will be answered from now on,
\* or joined to one that has been.
LEMMA EffectKeeps ==
    ASSUME ViewInv, DashboardInv, Effect, reader = "page",
           frames' \in 0..(Threshold + 1), mounted' \in BOOLEAN,
           UNCHANGED <<stream, cached, missed, view, updating, reader>>
    PROVE  DashboardInv'
<1>1. /\ painted' = cached /\ joined' \in BOOLEAN /\ failed' \in BOOLEAN
      /\ fetch' \in {fetch, Asked} /\ fetch' # None /\ (fetch' # Asked => joined')
  BY TokensAre DEF Effect, DashboardInv, DashboardTypeOK
<1>2. DashboardTypeOK'
  BY <1>1 DEF DashboardInv, DashboardTypeOK, Version
<1>3. fetch' \in Nat => Coming'
  BY <1>1, TokensAre DEF Coming
<1>4. QED
  BY <1>1, <1>2, <1>3 DEF DashboardInv

LEMMA DashboardStepKeeps ==
    ASSUME ViewInv, DashboardInv, reader = "page", DashboardStep, UNCHANGED <<view, updating, reader>>
    PROVE  DashboardInv'
<1>1. /\ stream \in {"open", "ending", "down"} /\ frames \in 0..(Threshold + 1)
      /\ {mounted, failed, missed, joined} \subseteq BOOLEAN
      /\ fetch \in {None, Asked} \cup 0..Version
      /\ {cached, painted} \subseteq {None} \cup 0..Version
  BY DEF DashboardInv, DashboardTypeOK
<1>2. Version' = Version /\ Version \in Nat /\ Version \in 0..Version
  BY VersionIs DEF Version
<1>3. CASE HandleFrame
  <2>1. frames' \in 0..(Threshold + 1) /\ UNCHANGED <<stream, mounted, cached, missed>>
    BY <1>1, <1>3, TokensAre DEF HandleFrame
  <2>2. CASE mounted
    BY <1>1, <1>3, <2>1, <2>2, EffectKeeps DEF HandleFrame
  <2>3. CASE ~mounted
    <3>1. UNCHANGED <<fetch, failed, painted, joined>>
      BY <1>3, <2>3 DEF HandleFrame
    <3>2. DashboardTypeOK'
      BY <1>1, <1>2, <2>1, <3>1 DEF DashboardTypeOK
    <3>3. QED
      BY <2>1, <2>3, <3>2 DEF DashboardInv
  <2>4. QED
    BY <2>2, <2>3
<1>4. CASE Refetch \/ Mount
  BY <1>1, <1>4, EffectKeeps DEF Refetch, Mount
<1>5. CASE Unmount
  <2>1. mounted' = FALSE /\ painted' = None
        /\ UNCHANGED <<stream, frames, fetch, cached, failed, missed, joined>>
    BY <1>5 DEF Unmount
  <2>2. DashboardTypeOK'
    BY <1>1, <1>2, <2>1 DEF DashboardTypeOK
  <2>3. QED
    BY <2>1, <2>2 DEF DashboardInv
<1>6. CASE Serve
  <2>1. /\ fetch' = Version /\ missed' = FALSE /\ joined' = FALSE
        /\ UNCHANGED <<stream, frames, mounted, cached, failed, painted>>
    BY <1>6 DEF Serve
  <2>2. DashboardTypeOK'
    BY <1>1, <1>2, <2>1 DEF DashboardTypeOK
  <2>3. fetch' # None /\ fetch' = Version'
    BY <1>2, <2>1, TokensAre
  <2>4. QED
    BY <2>2, <2>3 DEF DashboardInv
<1>7. CASE Resolve
  <2>1. /\ fetch \in Nat /\ fetch' = None /\ cached' = fetch
        /\ painted' = IF mounted THEN fetch ELSE painted
        /\ UNCHANGED <<stream, frames, mounted, failed, missed, joined>>
    BY <1>7 DEF Resolve
  <2>2. fetch \in 0..Version
    BY <1>1, <2>1, TokensAre
  <2>3. DashboardTypeOK'
    BY <1>1, <1>2, <2>1, <2>2 DEF DashboardTypeOK
  <2>4. mounted => painted' = Version' \/ Coming'
    BY <1>2, <2>1 DEF DashboardInv, Coming
  <2>5. QED
    BY <2>1, <2>3, <2>4, TokensAre DEF DashboardInv
<1>8. CASE Reject
  <2>1. /\ fetch' = None /\ failed' = TRUE /\ painted' = IF mounted THEN cached ELSE painted
        /\ UNCHANGED <<stream, frames, mounted, cached, missed, joined>>
    BY <1>8 DEF Reject
  <2>2. DashboardTypeOK'
    BY <1>1, <1>2, <2>1 DEF DashboardTypeOK
  <2>3. QED
    BY <2>1, <2>2, TokensAre DEF DashboardInv
<1>9. QED
  BY <1>3, <1>4, <1>5, <1>6, <1>7, <1>8, StreamKeeps DEF DashboardStep

LEMMA DashboardInvStep == ASSUME ViewInv, DashboardInv, [Next]_vars PROVE DashboardInv'
<1>1. CASE CommitView
  BY <1>1, DashboardCommitKeeps
<1>2. CASE PageReads
  BY <1>2, DashboardStepKeeps DEF PageReads, viewVars
<1>3. CASE UNCHANGED <<view, reader, dashboardVars>> /\ (updating' = updating \/ reader # "page")
  <2>1. UNCHANGED <<view, reader, stream, frames, mounted, fetch, cached, failed, painted, missed, joined>>
    BY <1>3 DEF dashboardVars, query
  <2>2. DashboardTypeOK'
    BY <2>1 DEF DashboardInv, DashboardTypeOK, Version
  <2>3. CASE reader # "page"
    BY <2>1, <2>2, <2>3, TokensAre DEF DashboardInv
  <2>4. CASE updating' = updating
    BY <2>1, <2>2, <2>4 DEF DashboardInv, Version, Coming
  <2>5. QED
    BY <1>3, <2>3, <2>4
<1>4. CASE ApplyEntry \/ EmitUpdate
  <2>1. UNCHANGED <<view, reader>> /\ updating' \in BOOLEAN
    BY <1>4 DEF ApplyEntry, Apply, EmitUpdate, Update, ViewInv, ViewTypeOK
  <2>2. CASE reader = "page"
    BY <1>4, <2>1, <2>2, EmitKeeps DEF ApplyEntry, EmitUpdate
  <2>3. CASE reader # "page"
    BY <1>3, <1>4, <2>1, <2>3 DEF ApplyEntry, EmitUpdate
  <2>4. QED
    BY <2>2, <2>3
<1>5. QED
  BY <1>1, <1>2, <1>3, <1>4
     DEF Next, FeedReads, ListReads, HookReads, InstallerRuns, vars, viewVars

---------------------------------------------------------------------------
(* The prompt hook.                                                        *)

HookInv ==
    /\ HookTypeOK /\ PromptTells
    /\ hook = "reading" =>
          \A e \in view : e > lastSeen /\ TypeOf[e] \notin unread => e \in fresh \cup skipped
    /\ hook = "told" => view \subseteq shown \cup skipped
    /\ reader # "hook" => hook = "idle" /\ lastSeen = 0

LEMMA HookInitHolds == ASSUME Init PROVE HookInv
<1>1. /\ clock = 1 /\ lastSeen = 0 /\ hook = "idle" /\ unread = {} /\ fresh = {}
      /\ shown = {} /\ skipped = {}
  BY DEF Init, HookInit
<1>2. view \subseteq Entries
  BY ViewInitHolds DEF ViewInv, ViewTypeOK
<1>3. \A e \in view : ~(e <= 0)
  BY <1>2, EntriesAre
<1>4. 1 \in 1..MaxClock /\ 0 \in 0..1
  BY PromptHookAssumption
<1>5. HookTypeOK
  BY <1>1, <1>4 DEF HookTypeOK
<1>6. QED
  BY <1>1, <1>3, <1>5 DEF HookInv, PromptTells

LEMMA HookCommitKeeps == ASSUME ViewInv, HookInv, CommitView PROVE HookInv'
<1>1. /\ view' = view \cup applied /\ UNCHANGED <<reader, clock, lastSeen, hook, unread, fresh, shown>>
      /\ skipped \subseteq skipped' /\ skipped' \subseteq skipped \cup applied
  BY DEF CommitView, Commit, HookCommit, hookVars, Tardy
<1>2. \A e \in applied : e \in Nat /\ e # 0
  BY EntriesAre DEF ViewInv, ViewTypeOK
<1>3. \A e \in applied : e <= lastSeen => e \in skipped'
  BY <1>2 DEF CommitView, HookCommit, Tardy, HookInv
<1>4. \A e \in applied : hook # "idle" /\ TypeOf[e] \notin unread => e \in skipped'
  BY DEF CommitView, HookCommit, Tardy, HookInv
<1>5. HookTypeOK'
  BY <1>1 DEF HookInv, HookTypeOK
<1>6. PromptTells'
  BY <1>1, <1>3 DEF HookInv, PromptTells
<1>7. hook = "told" => unread = {}
  BY DEF HookInv, HookTypeOK
<1>8. QED
  BY <1>1, <1>4, <1>5, <1>6, <1>7 DEF HookInv

LEMMA HookStepKeeps ==
    ASSUME ViewInv, HookInv, reader = "hook", HookStep, UNCHANGED <<view, reader>>
    PROVE  HookInv'
<1>1. /\ HookTypeOK /\ PromptTells /\ clock \in 1..MaxClock /\ lastSeen \in 0..clock
      /\ MaxClock \in Nat
  BY PromptHookAssumption DEF HookInv, HookTypeOK
<1>2. view \subseteq Nat /\ \A e \in view : TypeOf[e] \in AllTypes
  BY TypesAre, EntriesAre DEF ViewInv, ViewTypeOK, AllTypes
<1>3. CASE Tick
  <2>1. clock' = clock + 1 /\ clock < MaxClock /\ UNCHANGED <<lastSeen, hook, unread, fresh, shown, skipped>>
    BY <1>3 DEF Tick
  <2>2. clock' \in 1..MaxClock /\ lastSeen' \in 0..clock'
    BY <1>1, <2>1
  <2>3. QED
    BY <1>1, <2>1, <2>2 DEF HookInv, HookTypeOK, PromptTells
<1>4. CASE Bootstrap
  <2>1. /\ hook = "idle" /\ lastSeen' = clock /\ skipped' = skipped \cup {e \in view : e <= clock}
        /\ UNCHANGED <<clock, hook, unread, fresh, shown>>
    BY <1>4 DEF Bootstrap
  <2>2. lastSeen' \in 0..clock'
    BY <1>1, <2>1
  <2>3. QED
    BY <1>1, <2>1, <2>2 DEF HookInv, HookTypeOK, PromptTells
<1>5. CASE Prompt
  <2>1. hook' = "reading" /\ unread' = AllTypes /\ UNCHANGED <<clock, lastSeen, fresh, shown, skipped>>
    BY <1>5 DEF Prompt
  <2>2. QED
    BY <1>1, <1>2, <2>1 DEF HookInv, HookTypeOK, PromptTells
<1>6. ASSUME NEW t \in AllTypes, Read(t) PROVE HookInv'
  <2>1. /\ hook = "reading" /\ unread' = unread \ {t} /\ fresh' = fresh \cup Top(News(t))
        /\ skipped' = skipped \cup (News(t) \ Top(News(t)))
        /\ UNCHANGED <<clock, lastSeen, hook, shown>>
    BY <1>6 DEF Read
  <2>2. Top(News(t)) \subseteq News(t) /\ News(t) = {e \in view : TypeOf[e] = t /\ e > lastSeen}
    BY DEF Top, News, OfType
  <2>3. HookTypeOK'
    BY <1>1, <2>1, <2>2 DEF HookTypeOK
  <2>4. PromptTells'
    BY <1>1, <2>1 DEF PromptTells
  <2>5. \A e \in view : e > lastSeen /\ TypeOf[e] \notin unread' => e \in fresh' \cup skipped'
    BY <2>1, <2>2 DEF HookInv
  <2>6. QED
    BY <2>1, <2>3, <2>4, <2>5 DEF HookInv
<1>7. CASE Tell
  <2>1. /\ hook = "reading" /\ unread = {} /\ hook' = "told" /\ shown' = shown \cup fresh /\ fresh' = {}
        /\ UNCHANGED <<clock, lastSeen, unread, skipped>>
    BY <1>7 DEF Tell
  <2>2. \A e \in view : e <= lastSeen \/ e > lastSeen
    BY <1>1, <1>2
  <2>3. view \subseteq shown' \cup skipped'
    BY <1>1, <2>1, <2>2 DEF HookInv, PromptTells
  <2>4. HookTypeOK'
    BY <1>1, <2>1 DEF HookTypeOK
  <2>5. QED
    BY <2>1, <2>3, <2>4 DEF HookInv, PromptTells
<1>8. CASE Save
  <2>1. hook = "told" /\ hook' = "idle" /\ lastSeen' = clock /\ UNCHANGED <<clock, unread, fresh, shown, skipped>>
    BY <1>8 DEF Save
  <2>2. lastSeen' \in 0..clock'
    BY <1>1, <2>1
  <2>3. HookTypeOK'
    BY <1>1, <2>1, <2>2 DEF HookTypeOK
  <2>4. QED
    BY <2>1, <2>3 DEF HookInv, PromptTells
<1>9. CASE Fail
  <2>1. hook' = "idle" /\ unread' = {} /\ fresh' = {} /\ UNCHANGED <<clock, lastSeen, shown, skipped>>
    BY <1>9 DEF Fail
  <2>2. QED
    BY <1>1, <2>1 DEF HookInv, HookTypeOK, PromptTells
<1>10. QED
  BY <1>3, <1>4, <1>5, <1>6, <1>7, <1>8, <1>9 DEF HookStep

LEMMA HookInvStep == ASSUME ViewInv, HookInv, [Next]_vars PROVE HookInv'
<1>1. CASE CommitView
  BY <1>1, HookCommitKeeps
<1>2. CASE HookReads
  BY <1>2, HookStepKeeps DEF HookReads, viewVars
<1>3. CASE UNCHANGED <<view, reader, hookVars>>
  BY <1>3 DEF hookVars, HookInv, HookTypeOK, PromptTells
<1>4. QED
  BY <1>1, <1>2, <1>3
     DEF Next, ApplyEntry, Apply, EmitUpdate, Update, FeedReads, ListReads, PageReads, InstallerRuns,
         vars, viewVars

---------------------------------------------------------------------------
(* Installing skills.                                                      *)

\* The file of skill e is there, with the content of e or of a namesake.
OnDisk(e) == skillFile[FileOf[e]] \in Namesakes(e) \cap view

Phases == {"write", "rename", "read", "record", "commit"}

\* The types, with the shape of a request.
SkillTypes ==
    /\ skillFile \in [Files -> Skills \cup {0}] /\ skillTmp \in [Files -> Skills \cup {0}]
    /\ manifest \subseteq Skills /\ manifestTmp \subseteq Skills
    /\ install \in [Installers -> [at : Phases, entry : Skills, copy : SUBSET Skills] \cup {NoInstall}]
    /\ \A w \in Installers : install[w] # NoInstall => install[w].entry \in view
    /\ confirmed \subseteq view /\ crossed \subseteq view
    /\ installs \in 0..MaxInstalls /\ kills \in 0..MaxKills

\* A .tmp has the content of a skill of its name.
TmpsAreTheirs ==
    \A f \in Files : skillTmp[f] # 0 => FileOf[skillTmp[f]] = f /\ skillTmp[f] \in view

\* What is recorded, or going to be, is on disk.
RecordedOnDisk ==
    /\ \A e \in manifest \cup manifestTmp : OnDisk(e)
    /\ \A w \in Installers :
        /\ install[w].at \in {"read", "record", "commit"} => OnDisk(install[w].entry)
        /\ \A e \in install[w].copy : OnDisk(e)

\* Two updates of the manifest at once are marked.
CrossedAreMarked ==
    \A v, w \in Updating : v # w => install[w].entry \in crossed

\* An update keeps what is confirmed, and its own skill unless it is marked.
UpdatesKeep ==
    \A w \in Updating :
        /\ install[w].at = "record" => confirmed \ crossed \subseteq install[w].copy
        /\ install[w].at = "commit" /\ manifestTmp # {} =>
              /\ confirmed \ crossed \subseteq manifestTmp
              /\ install[w].entry \in manifestTmp \cup crossed

SkillInv ==
    /\ SkillTypes /\ TmpsAreTheirs /\ RecordedOnDisk /\ CrossedAreMarked /\ UpdatesKeep
    /\ confirmed \ crossed \subseteq manifest

Requests == [at : Phases, entry : Skills, copy : SUBSET Skills]

LEMMA NotNoInstall == \A r \in Requests : r # NoInstall /\ r.at \in Phases /\ r.entry \in Skills
                                           /\ r.copy \in SUBSET Skills
  BY DEF Requests, NoInstall, Phases

LEMMA SkillInitHolds == ASSUME Init PROVE SkillInv
<1>1. /\ skillFile = [f \in Files |-> 0] /\ skillTmp = [f \in Files |-> 0]
      /\ manifest = {} /\ manifestTmp = {} /\ install = [w \in Installers |-> NoInstall]
      /\ confirmed = {} /\ crossed = {} /\ installs = 0 /\ kills = 0
  BY DEF Init, InstallInit
<1>2. \A w \in Installers : install[w] = NoInstall /\ install[w].at = "none" /\ install[w].copy = {}
  BY <1>1 DEF NoInstall
<1>3. 0 \in 0..MaxInstalls /\ 0 \in 0..MaxKills
  BY InstalledSkillsAssumption
<1>4. SkillTypes
  BY <1>1, <1>2, <1>3 DEF SkillTypes
<1>5. TmpsAreTheirs
  BY <1>1 DEF TmpsAreTheirs
<1>6. RecordedOnDisk
  BY <1>1, <1>2 DEF RecordedOnDisk
<1>7. CrossedAreMarked /\ UpdatesKeep
  BY <1>2 DEF CrossedAreMarked, UpdatesKeep, Updating
<1>8. QED
  BY <1>1, <1>4, <1>5, <1>6, <1>7 DEF SkillInv

LEMMA SkillViewGrows ==
    ASSUME SkillInv, view \subseteq view', UNCHANGED skillVars
    PROVE  SkillInv'
<1>1. UNCHANGED <<skillFile, skillTmp, manifest, manifestTmp, install, confirmed, crossed, installs, kills>>
  BY DEF skillVars
<1>2. \A e : OnDisk(e) => OnDisk(e)'
  BY <1>1 DEF OnDisk
<1>3. SkillTypes'
  BY <1>1 DEF SkillInv, SkillTypes
<1>4. TmpsAreTheirs' /\ RecordedOnDisk'
  BY <1>1, <1>2 DEF SkillInv, TmpsAreTheirs, RecordedOnDisk
<1>5. CrossedAreMarked' /\ UpdatesKeep'
  BY <1>1 DEF SkillInv, CrossedAreMarked, UpdatesKeep, Updating
<1>6. QED
  BY <1>1, <1>3, <1>4, <1>5 DEF SkillInv

\* What a request w is when it is in a phase, and what it becomes.
LEMMA PhaseIs ==
    ASSUME SkillInv, NEW w \in Installers, NEW a \in Phases, Doing(w, a)
    PROVE  install[w] \in Requests /\ install[w].at = a /\ install[w].entry \in view
           /\ FileOf[install[w].entry] \in Files
<1>1. install[w] \in Requests \cup {NoInstall} /\ install[w].at = a
  BY DEF SkillInv, SkillTypes, Requests, Doing
<1>2. install[w] # NoInstall
  BY <1>1 DEF NoInstall, Phases
<1>3. install[w].entry \in Skills /\ install[w].entry \in view
  BY <1>1, <1>2 DEF SkillInv, SkillTypes, Requests
<1>4. QED
  BY <1>1, <1>2, <1>3 DEF Files

\* A request w that becomes r, where nobody starts an update.
LEMMA BecomesIs ==
    ASSUME SkillInv, NEW w \in Installers, NEW r \in Requests \cup {NoInstall},
           install' = [install EXCEPT ![w] = r], r # NoInstall => r.entry \in view, view' = view
    PROVE  /\ install' \in [Installers -> Requests \cup {NoInstall}] /\ install'[w] = r
           /\ \A v \in Installers \ {w} : install'[v] = install[v]
           /\ \A v \in Installers : install'[v] # NoInstall => install'[v].entry \in view'
<1>1. install \in [Installers -> Requests \cup {NoInstall}]
  BY DEF SkillInv, SkillTypes, Requests
<1>2. /\ install' \in [Installers -> Requests \cup {NoInstall}] /\ install'[w] = r
      /\ \A v \in Installers \ {w} : install'[v] = install[v]
  BY <1>1
<1>3. QED
  BY <1>2 DEF SkillInv, SkillTypes

\* Up to the manifest: the files may change, and no update is under way for w.
LEMMA BeforeUpdate ==
    ASSUME SkillInv, NEW w \in Installers, NEW r \in Requests \cup {NoInstall},
           install' = [install EXCEPT ![w] = r], r # NoInstall => r.entry \in view,
           r.at \notin {"record", "commit"}, r.copy \subseteq install[w].copy,
           r.at = "read" => OnDisk(r.entry)',
           \A e \in Skills : OnDisk(e) => OnDisk(e)',
           skillFile' \in [Files -> Skills \cup {0}], skillTmp' \in [Files -> Skills \cup {0}],
           TmpsAreTheirs', installs' \in 0..MaxInstalls,
           UNCHANGED <<view, manifest, manifestTmp, confirmed, crossed, kills>>
    PROVE  SkillInv'
<1>1. /\ install' \in [Installers -> Requests \cup {NoInstall}] /\ install'[w] = r
      /\ \A v \in Installers \ {w} : install'[v] = install[v]
      /\ \A v \in Installers : install'[v] # NoInstall => install'[v].entry \in view'
  BY BecomesIs
<1>2. SkillTypes'
  BY <1>1 DEF SkillInv, SkillTypes, Requests
<1>3. Updating' \subseteq Updating /\ w \notin Updating'
  BY <1>1 DEF Updating
<1>4. CrossedAreMarked'
  BY <1>1, <1>3 DEF SkillInv, CrossedAreMarked, Updating
<1>5. UpdatesKeep'
  BY <1>1, <1>3 DEF SkillInv, UpdatesKeep, Updating
<1>6. RecordedOnDisk'
  <2>1. manifest \subseteq Skills /\ manifestTmp \subseteq Skills
    BY DEF SkillInv, SkillTypes
  <2>2. \A v \in Installers : install[v].copy \subseteq Skills
    BY NotNoInstall DEF SkillInv, SkillTypes, Requests, NoInstall
  <2>3. \A v \in Installers : install[v].at \in Phases => install[v].entry \in Skills
    BY NotNoInstall DEF SkillInv, SkillTypes, Requests, NoInstall, Phases
  <2>4. \A v \in Installers \ {w} :
           install'[v].at \in {"read", "record", "commit"} =>
              \A d \in Skills : d = install'[v].entry => OnDisk(d)'
    BY <1>1 DEF SkillInv, RecordedOnDisk
  <2>5. \A v \in Installers : \A e \in install'[v].copy : OnDisk(e)'
    BY <1>1, <2>2 DEF SkillInv, RecordedOnDisk
  <2>6. \A e \in manifest' \cup manifestTmp' : OnDisk(e)'
    BY <2>1 DEF SkillInv, RecordedOnDisk
  <2>7. \A v \in Installers :
           install'[v].at \in {"read", "record", "commit"} =>
              \A d \in Skills : d = install'[v].entry => OnDisk(d)'
    BY <1>1, <2>4
  <2>8. \A v \in Installers : install'[v].at \in {"read", "record", "commit"} => install'[v].entry \in Skills
    BY <1>1, <2>3, NotNoInstall DEF Phases, NoInstall
  <2>9. (\A v \in Installers :
            install[v].at \in {"read", "record", "commit"} => OnDisk(install[v].entry))'
    BY <2>7, <2>8
  <2>10. QED
    BY <2>5, <2>6, <2>9 DEF RecordedOnDisk
<1>7. QED
  BY <1>2, <1>4, <1>5, <1>6 DEF SkillInv

LEMMA SameDisk ==
    ASSUME UNCHANGED <<skillFile, view>>
    PROVE  \A e : OnDisk(e)' <=> OnDisk(e)
  BY DEF OnDisk

LEMMA InstallKeeps ==
    ASSUME ViewInv, SkillInv, NEW w \in Installers, NEW e \in Skills, Install(w, e), UNCHANGED view
    PROVE  SkillInv'
<1> DEFINE r == [at |-> "write", entry |-> e, copy |-> {}]
<1>1. r \in Requests /\ r.at = "write" /\ r.copy = {} /\ r.entry = e
  BY DEF Requests, Phases
<1>2. /\ e \in view /\ install' = [install EXCEPT ![w] = r] /\ installs' = installs + 1 /\ installs < MaxInstalls
      /\ UNCHANGED <<skillFile, skillTmp, manifest, manifestTmp, confirmed, crossed, kills, view>>
  BY DEF Install, OfType
<1> HIDE DEF r
<1>3. installs' \in 0..MaxInstalls
  BY <1>2, InstalledSkillsAssumption DEF SkillInv, SkillTypes
<1>4. TmpsAreTheirs'
  BY <1>2 DEF SkillInv, TmpsAreTheirs
<1>5. skillFile' \in [Files -> Skills \cup {0}] /\ skillTmp' \in [Files -> Skills \cup {0}]
  BY <1>2 DEF SkillInv, SkillTypes
<1>6. QED
  BY <1>1, <1>2, <1>3, <1>4, <1>5, SameDisk, BeforeUpdate

LEMMA WriteSkillKeeps ==
    ASSUME ViewInv, SkillInv, NEW w \in Installers, WriteSkill(w), UNCHANGED view
    PROVE  SkillInv'
<1> DEFINE r == [install[w] EXCEPT !.at = "rename"]
           e == install[w].entry
<1>1. install[w] \in Requests /\ e \in view /\ e \in Skills /\ FileOf[e] \in Files
  BY PhaseIs, NotNoInstall DEF WriteSkill, Phases
<1>2. r \in Requests /\ r.at = "rename" /\ r.entry = e /\ r.copy = install[w].copy
  BY <1>1 DEF Requests, Phases
<1>3. /\ install' = [install EXCEPT ![w] = r] /\ skillTmp' = [skillTmp EXCEPT ![FileOf[e]] = e]
      /\ UNCHANGED <<skillFile, manifest, manifestTmp, confirmed, crossed, installs, kills, view>>
  BY DEF WriteSkill, Advance
<1> HIDE DEF r, e
<1>4. skillTmp \in [Files -> Skills \cup {0}] /\ skillFile \in [Files -> Skills \cup {0}]
      /\ installs \in 0..MaxInstalls
  BY DEF SkillInv, SkillTypes
<1>5. skillTmp' \in [Files -> Skills \cup {0}]
  BY <1>1, <1>3, <1>4
<1>6. TmpsAreTheirs'
  BY <1>1, <1>3, <1>4 DEF SkillInv, TmpsAreTheirs
<1>7. QED
  BY <1>1, <1>2, <1>3, <1>4, <1>5, <1>6, SameDisk, BeforeUpdate

LEMMA RenameSkillKeeps ==
    ASSUME ViewInv, SkillInv, NEW w \in Installers, RenameSkill(w), UNCHANGED view
    PROVE  SkillInv'
<1>e. PICK e \in Skills : e = install[w].entry
  BY PhaseIs, NotNoInstall DEF RenameSkill, Phases
<1> DEFINE f == FileOf[e]
<1>1. install[w] \in Requests /\ e \in view /\ e \in Skills /\ f \in Files
  BY <1>e, PhaseIs, NotNoInstall DEF RenameSkill, Phases
<1>2. PICK r \in Requests : /\ r = [install[w] EXCEPT !.at = "read"]
                            /\ r.at = "read" /\ r.entry = e /\ r.copy = install[w].copy
  <2>1. [install[w] EXCEPT !.at = "read"] \in Requests
    BY <1>1 DEF Requests, Phases
  <2>2. QED
    BY <1>e, <1>1, <2>1 DEF Requests
<1>3. UNCHANGED <<manifest, manifestTmp, confirmed, crossed, installs, kills, view>>
  BY DEF RenameSkill
<1>4. skillTmp \in [Files -> Skills \cup {0}] /\ skillFile \in [Files -> Skills \cup {0}]
      /\ installs \in 0..MaxInstalls
  BY DEF SkillInv, SkillTypes
<1>5. CASE skillTmp[f] = 0
  <2>1. install' = [install EXCEPT ![w] = NoInstall] /\ UNCHANGED <<skillFile, skillTmp>>
    BY <1>e, <1>5 DEF RenameSkill, Finish
  <2>2. NoInstall.at = "none" /\ NoInstall.copy = {}
    BY DEF NoInstall
  <2>3. TmpsAreTheirs'
    BY <1>3, <2>1 DEF SkillInv, TmpsAreTheirs
  <2>4. \A d \in Skills : OnDisk(d) => OnDisk(d)'
    BY <1>3, <2>1, SameDisk
  <2>5. QED
    BY <1>3, <1>4, <2>1, <2>2, <2>3, <2>4, BeforeUpdate
<1>6. CASE skillTmp[f] # 0
  <2>1. /\ skillFile' = [skillFile EXCEPT ![f] = skillTmp[f]] /\ skillTmp' = [skillTmp EXCEPT ![f] = 0]
        /\ install' = [install EXCEPT ![w] = r]
    BY <1>e, <1>2, <1>6 DEF RenameSkill, Advance
  <2>2. skillTmp[f] \in Skills /\ FileOf[skillTmp[f]] = f /\ skillTmp[f] \in view
    BY <1>1, <1>4, <1>6 DEF SkillInv, TmpsAreTheirs
  <2> HIDE DEF f
  <2>3. skillFile' \in [Files -> Skills \cup {0}] /\ skillTmp' \in [Files -> Skills \cup {0}]
    BY <1>1, <1>4, <2>1, <2>2
  <2>4. TmpsAreTheirs'
    BY <1>1, <1>3, <1>4, <2>1 DEF SkillInv, TmpsAreTheirs
  <2>5. \A d \in Skills : FileOf[d] = f => OnDisk(d)'
    BY <1>1, <1>3, <1>4, <2>1, <2>2 DEF OnDisk, Namesakes
  <2>6. \A d \in Skills : FileOf[d] # f /\ OnDisk(d) => OnDisk(d)'
    <3>1. \A d \in Skills : FileOf[d] \in Files
      BY DEF Files
    <3>2. QED
      BY <1>3, <1>4, <2>1, <3>1 DEF OnDisk
  <2>7. \A d \in Skills : OnDisk(d) => OnDisk(d)'
    BY <2>5, <2>6
  <2>8. OnDisk(e)'
    BY <1>1, <2>5 DEF f
  <2>9. /\ r.at \notin {"record", "commit"} /\ r.copy \subseteq install[w].copy
        /\ r # NoInstall => r.entry \in view
    BY <1>1, <1>2
  <2>10. r.at = "read" => OnDisk(r.entry)'
    BY <1>2, <2>8
  <2>11. QED
    BY <1>2, <1>3, <1>4, <2>1, <2>3, <2>4, <2>7, <2>9, <2>10, BeforeUpdate
<1>7. QED
  BY <1>5, <1>6

\* An update of the manifest: the files of the skills stay.
LEMMA DuringUpdate ==
    ASSUME SkillInv, NEW w \in Installers, NEW r \in Requests \cup {NoInstall},
           install' = [install EXCEPT ![w] = r], r # NoInstall => r.entry \in view,
           r.at \in {"read", "record", "commit"} => OnDisk(r.entry),
           \A d \in manifest' \cup manifestTmp' \cup r.copy : OnDisk(d),
           manifest' \subseteq Skills, manifestTmp' \subseteq Skills,
           confirmed' \subseteq view, crossed' \subseteq view,
           UNCHANGED <<skillFile, skillTmp, installs, kills, view>>
    PROVE  SkillTypes' /\ TmpsAreTheirs' /\ RecordedOnDisk'
<1>1. /\ install' \in [Installers -> Requests \cup {NoInstall}] /\ install'[w] = r
      /\ \A v \in Installers \ {w} : install'[v] = install[v]
      /\ \A v \in Installers : install'[v] # NoInstall => install'[v].entry \in view'
  BY BecomesIs
<1>2. SkillTypes'
  BY <1>1 DEF SkillInv, SkillTypes, Requests
<1>3. TmpsAreTheirs'
  BY DEF SkillInv, TmpsAreTheirs
<1>4. RecordedOnDisk'
  <2>1. \A d : OnDisk(d)' <=> OnDisk(d)
    BY SameDisk
  <2>2. \A v \in Installers :
           /\ install'[v].at \in {"read", "record", "commit"} => OnDisk(install'[v].entry)
           /\ \A d \in install'[v].copy : OnDisk(d)
    BY <1>1 DEF SkillInv, RecordedOnDisk
  <2>3. \A d : skillFile'[FileOf[d]] \in Namesakes(d) \cap view' <=> OnDisk(d)
    BY DEF OnDisk
  <2>4. QED
    BY <2>2, <2>3 DEF RecordedOnDisk, OnDisk
<1>5. QED
  BY <1>2, <1>3, <1>4

LEMMA ReadInstalledKeeps ==
    ASSUME SkillInv, NEW w \in Installers, ReadInstalled(w), UNCHANGED view
    PROVE  SkillInv'
<1>1. /\ install[w] \in Requests /\ install[w].at = "read" /\ install[w].entry \in view
      /\ manifest \subseteq Skills /\ manifestTmp \subseteq Skills /\ confirmed \subseteq view /\ crossed \subseteq view
  BY PhaseIs DEF ReadInstalled, Phases, SkillInv, SkillTypes
<1>2. PICK r \in Requests : /\ r = [install[w] EXCEPT !.at = "record", !.copy = manifest]
                            /\ r.at = "record" /\ r.entry = install[w].entry /\ r.copy = manifest
  <2>1. [install[w] EXCEPT !.at = "record", !.copy = manifest] \in Requests
    BY <1>1 DEF Requests, Phases
  <2>2. QED
    BY <1>1, <2>1 DEF Requests
<1>3. /\ install' = [install EXCEPT ![w] = r]
      /\ crossed' = IF Updating = {} THEN crossed ELSE crossed \cup {install[v].entry : v \in Updating \cup {w}}
      /\ UNCHANGED <<skillFile, skillTmp, manifest, manifestTmp, confirmed, installs, kills, view>>
  BY <1>2 DEF ReadInstalled
<1>4. /\ install'[w] = r /\ \A v \in Installers \ {w} : install'[v] = install[v]
  BY <1>1, <1>2, <1>3, BecomesIs
<1>5. Updating \subseteq Installers \ {w} /\ Updating' = Updating \cup {w}
  BY <1>1, <1>2, <1>4 DEF Updating
<1>6. crossed \subseteq crossed' /\ crossed' \subseteq view
  <2>1. \A v \in Updating : install[v].entry \in view
    BY DEF SkillInv, SkillTypes, Updating, NoInstall
  <2>2. QED
    BY <1>1, <1>3, <2>1
<1>7. SkillTypes' /\ TmpsAreTheirs' /\ RecordedOnDisk'
  <2>1. OnDisk(install[w].entry) /\ \A d \in manifest \cup manifestTmp : OnDisk(d)
    BY <1>1 DEF SkillInv, RecordedOnDisk
  <2>2. QED
    BY <1>1, <1>2, <1>3, <1>6, <2>1, DuringUpdate
<1>8. CrossedAreMarked'
  <2>1. CASE Updating = {}
    BY <1>5, <2>1 DEF CrossedAreMarked
  <2>2. CASE Updating # {}
    <3>1. \A v \in Updating \cup {w} : install'[v].entry = install[v].entry
      BY <1>2, <1>4, <1>5
    <3>2. \A v \in Updating \cup {w} : install[v].entry \in crossed'
      BY <1>3, <2>2
    <3>3. QED
      BY <1>5, <3>1, <3>2 DEF CrossedAreMarked
  <2>3. QED
    BY <2>1, <2>2
<1>9. UpdatesKeep'
  <2>1. confirmed' \ crossed' \subseteq manifest
    BY <1>3, <1>6 DEF SkillInv
  <2>2. \A v \in Updating : install'[v] = install[v]
    BY <1>4, <1>5
  <2>3. \A v \in Updating :
           /\ install'[v].at = "record" => confirmed' \ crossed' \subseteq install'[v].copy
           /\ install'[v].at = "commit" /\ manifestTmp' # {} =>
                 confirmed' \ crossed' \subseteq manifestTmp' /\ install'[v].entry \in manifestTmp' \cup crossed'
    BY <1>3, <1>6, <2>2 DEF SkillInv, UpdatesKeep
  <2>4. QED
    BY <1>2, <1>4, <1>5, <2>1, <2>3 DEF UpdatesKeep
<1>10. confirmed' \ crossed' \subseteq manifest'
  BY <1>3, <1>6 DEF SkillInv
<1>11. QED
  BY <1>7, <1>8, <1>9, <1>10 DEF SkillInv

LEMMA WriteInstalledKeeps ==
    ASSUME SkillInv, NEW w \in Installers, WriteInstalled(w), UNCHANGED view
    PROVE  SkillInv'
<1>1. /\ install[w] \in Requests /\ install[w].at = "record" /\ install[w].entry \in view
      /\ manifest \subseteq Skills /\ manifestTmp \subseteq Skills /\ confirmed \subseteq view /\ crossed \subseteq view
  BY PhaseIs DEF WriteInstalled, Phases, SkillInv, SkillTypes
<1>2. PICK r \in Requests : /\ r = [install[w] EXCEPT !.at = "commit"]
                            /\ r.at = "commit" /\ r.entry = install[w].entry /\ r.copy = install[w].copy
  <2>1. [install[w] EXCEPT !.at = "commit"] \in Requests
    BY <1>1 DEF Requests, Phases
  <2>2. QED
    BY <1>1, <2>1 DEF Requests
<1>3. /\ install' = [install EXCEPT ![w] = r] /\ manifestTmp' = install[w].copy \cup {install[w].entry}
      /\ UNCHANGED <<skillFile, skillTmp, manifest, confirmed, crossed, installs, kills, view>>
  BY <1>2 DEF WriteInstalled, Advance
<1>4. /\ install'[w] = r /\ \A v \in Installers \ {w} : install'[v] = install[v]
  BY <1>1, <1>2, <1>3, BecomesIs
<1>5. w \in Updating /\ Updating \subseteq Installers /\ Updating' = Updating
  BY <1>1, <1>2, <1>4 DEF Updating
<1>6. SkillTypes' /\ TmpsAreTheirs' /\ RecordedOnDisk'
  <2>1. OnDisk(install[w].entry) /\ \A d \in manifest \cup install[w].copy : OnDisk(d)
    BY <1>1 DEF SkillInv, RecordedOnDisk
  <2>2. manifestTmp' \subseteq Skills
    BY <1>1, <1>3 DEF Requests
  <2>3. \A d \in manifest' \cup manifestTmp' \cup r.copy : OnDisk(d)
    BY <1>2, <1>3, <2>1
  <2>4. QED
    BY <1>1, <1>2, <1>3, <2>1, <2>2, <2>3, DuringUpdate
<1>7. CrossedAreMarked'
  <2>1. \A v \in Updating : install'[v].entry = install[v].entry
    BY <1>2, <1>4, <1>5
  <2>2. QED
    BY <1>3, <1>5, <2>1 DEF SkillInv, CrossedAreMarked
<1>8. UpdatesKeep'
  <2>1. confirmed \ crossed \subseteq manifestTmp'
    BY <1>1, <1>3, <1>5 DEF SkillInv, UpdatesKeep
  <2>2. \A v \in Updating \ {w} : install'[v] = install[v] /\ install[v].entry \in crossed
    BY <1>4, <1>5 DEF SkillInv, CrossedAreMarked
  <2>3. \A v \in Updating \ {w} :
           /\ install'[v].at = "record" => confirmed' \ crossed' \subseteq install'[v].copy
           /\ install'[v].entry \in crossed'
    BY <1>3, <2>2 DEF SkillInv, UpdatesKeep
  <2>4. install'[w].at = "commit" /\ install'[w].entry \in manifestTmp'
    <3>1. install[w].entry \in manifestTmp'
      BY <1>3
    <3>2. QED
      BY <1>2, <1>4, <3>1
  <2>5. QED
    BY <1>3, <1>5, <2>1, <2>3, <2>4 DEF UpdatesKeep
<1>9. QED
  BY <1>3, <1>6, <1>7, <1>8 DEF SkillInv

LEMMA RenameInstalledKeeps ==
    ASSUME SkillInv, NEW w \in Installers, RenameInstalled(w), UNCHANGED view
    PROVE  SkillInv'
<1>1. /\ install[w] \in Requests /\ install[w].at = "commit" /\ install[w].entry \in view
      /\ manifest \subseteq Skills /\ manifestTmp \subseteq Skills /\ confirmed \subseteq view /\ crossed \subseteq view
  BY PhaseIs DEF RenameInstalled, Phases, SkillInv, SkillTypes
<1>2. /\ install' = [install EXCEPT ![w] = NoInstall]
      /\ UNCHANGED <<skillFile, skillTmp, crossed, installs, kills, view>>
  BY DEF RenameInstalled, Finish
<1>3. NoInstall.at = "none" /\ NoInstall.copy = {}
  BY DEF NoInstall
<1>4. /\ install'[w] = NoInstall /\ \A v \in Installers \ {w} : install'[v] = install[v]
  BY <1>2, BecomesIs
<1>5. w \in Updating /\ Updating' = Updating \ {w}
  BY <1>1, <1>3, <1>4 DEF Updating
<1>6. \A v \in Updating' : install'[v] = install[v]
  BY <1>4, <1>5 DEF Updating
<1>7. CrossedAreMarked'
  BY <1>2, <1>5, <1>6 DEF SkillInv, CrossedAreMarked
<1>8. \A d \in manifest \cup manifestTmp : OnDisk(d)
  BY DEF SkillInv, RecordedOnDisk
<1>9. CASE manifestTmp = {} /\ UNCHANGED <<manifest, manifestTmp, confirmed>>
  <2>1. SkillTypes' /\ TmpsAreTheirs' /\ RecordedOnDisk'
    BY <1>1, <1>2, <1>3, <1>8, <1>9, DuringUpdate
  <2>2. UpdatesKeep'
    BY <1>2, <1>5, <1>6, <1>9 DEF SkillInv, UpdatesKeep
  <2>3. QED
    BY <1>2, <1>7, <1>9, <2>1, <2>2 DEF SkillInv
<1>10. CASE /\ manifestTmp # {} /\ manifest' = manifestTmp /\ manifestTmp' = {}
            /\ confirmed' = confirmed \cup {install[w].entry}
  <2>1. SkillTypes' /\ TmpsAreTheirs' /\ RecordedOnDisk'
    BY <1>1, <1>2, <1>3, <1>8, <1>10, DuringUpdate
  <2>2. confirmed' \ crossed' \subseteq manifest'
    BY <1>1, <1>2, <1>5, <1>10 DEF SkillInv, UpdatesKeep
  <2>3. \A v \in Updating' : install[w].entry \in crossed
    BY <1>5 DEF SkillInv, CrossedAreMarked
  <2>4. \A v \in Updating' : confirmed' \ crossed' \subseteq confirmed \ crossed
    BY <1>2, <1>10, <2>3
  <2>5. \A v \in Updating' : install'[v].at = "record" => confirmed \ crossed \subseteq install'[v].copy
    BY <1>5, <1>6 DEF SkillInv, UpdatesKeep
  <2>6. UpdatesKeep'
    BY <1>10, <2>4, <2>5 DEF UpdatesKeep
  <2>7. QED
    BY <1>7, <2>1, <2>2, <2>6 DEF SkillInv
<1>11. QED
  BY <1>9, <1>10 DEF RenameInstalled

LEMMA KillInstallsKeeps ==
    ASSUME SkillInv, KillInstalls, UNCHANGED view
    PROVE  SkillInv'
<1>1. /\ kills' = kills + 1 /\ kills < MaxKills /\ install' = [w \in Installers |-> NoInstall]
      /\ UNCHANGED <<skillFile, skillTmp, manifest, manifestTmp, confirmed, crossed, installs, view>>
  BY DEF KillInstalls
<1>2. \A w \in Installers : install'[w] = NoInstall /\ install'[w].at = "none" /\ install'[w].copy = {}
  BY <1>1 DEF NoInstall
<1>3. kills' \in 0..MaxKills
  BY <1>1, InstalledSkillsAssumption DEF SkillInv, SkillTypes
<1>4. SkillTypes'
  BY <1>1, <1>2, <1>3 DEF SkillInv, SkillTypes
<1>5. Updating' = {}
  BY <1>2 DEF Updating
<1>6. CrossedAreMarked' /\ UpdatesKeep'
  BY <1>5 DEF CrossedAreMarked, UpdatesKeep
<1>7. TmpsAreTheirs'
  BY <1>1 DEF SkillInv, TmpsAreTheirs
<1>8. RecordedOnDisk'
  BY <1>1, <1>2 DEF SkillInv, RecordedOnDisk, OnDisk
<1>9. QED
  BY <1>1, <1>4, <1>6, <1>7, <1>8 DEF SkillInv

LEMMA SkillInvStep == ASSUME ViewInv, SkillInv, [Next]_vars PROVE SkillInv'
<1>1. CASE InstallerRuns
  <2>1. InstallStep /\ view' = view
    BY <1>1 DEF InstallerRuns, viewVars
  <2>2. CASE KillInstalls
    BY <2>1, <2>2, KillInstallsKeeps
  <2>3. CASE \E w \in Installers :
                \/ \E e \in Skills : Install(w, e)
                \/ WriteSkill(w) \/ RenameSkill(w)
                \/ ReadInstalled(w) \/ WriteInstalled(w) \/ RenameInstalled(w)
    BY <2>1, <2>3, InstallKeeps, WriteSkillKeeps, RenameSkillKeeps, ReadInstalledKeeps, WriteInstalledKeeps,
       RenameInstalledKeeps
  <2>4. QED
    BY <2>1, <2>2, <2>3 DEF InstallStep
<1>2. CASE ~InstallerRuns
  <2>1. UNCHANGED skillVars
    BY <1>2 DEF Next, ApplyEntry, CommitView, EmitUpdate, FeedReads, ListReads, PageReads, HookReads, vars
  <2>2. view \subseteq view'
    BY ViewGrows DEF CommitView, Commit
  <2>3. QED
    BY <2>1, <2>2, SkillViewGrows
<1>3. QED
  BY <1>1, <1>2

---------------------------------------------------------------------------
(* The invariant of a pact with any reader.                                *)

IInv ==
    /\ reader \in {"feed", "list", "page", "hook", "installer"}
    /\ ViewInv /\ FeedInv /\ ListInv /\ DashboardInv /\ HookInv /\ SkillInv

LEMMA InitHolds == Init => IInv
<1> SUFFICES ASSUME Init PROVE IInv
  OBVIOUS
<1>1. reader \in {"feed", "list", "page", "hook", "installer"}
  BY DEF Init
<1>2. QED
  BY <1>1, ViewInitHolds, FeedInitHolds, ListInitHolds, DashboardInitHolds, HookInitHolds, SkillInitHolds
     DEF IInv

LEMMA StepKeeps == IInv /\ [Next]_vars => IInv'
<1> SUFFICES ASSUME IInv, [Next]_vars PROVE IInv'
  OBVIOUS
<1>1. reader' = reader
  BY DEF Next, ApplyEntry, CommitView, EmitUpdate, FeedReads, ListReads, PageReads, HookReads,
         InstallerRuns, vars
<1>2. QED
  BY <1>1, ViewStep, FeedInvStep, ListInvStep, DashboardInvStep, HookInvStep, SkillInvStep DEF IInv

---------------------------------------------------------------------------
(* What holds of the system.                                               *)

\* Whichever reader a pact has, and however entries, commits and updates fall
\* between its steps, the invariant holds.
THEOREM Invariant == Spec => []IInv
<1>1. QED
  BY InitHolds, StepKeeps, PTL DEF Spec

\* The state of the view and of every reader keeps its types; whatever a reader
\* has, shows or has installed is an entry that the view holds.
THEOREM TypeCorrect == Spec => []TypeOK
<1>1. IInv => TypeOK
  <2> SUFFICES ASSUME IInv PROVE TypeOK
    OBVIOUS
  <2>1. \A w \in Installers :
           /\ install[w].at \in {"none", "write", "rename", "read", "record", "commit"}
           /\ install[w].entry \in view \cup {0} /\ install[w].copy \subseteq Skills
    <3>1. SUFFICES ASSUME NEW w \in Installers
                   PROVE  /\ install[w].at \in {"none", "write", "rename", "read", "record", "commit"}
                          /\ install[w].entry \in view \cup {0} /\ install[w].copy \subseteq Skills
      OBVIOUS
    <3>2. CASE install[w] = NoInstall
      BY <3>2 DEF NoInstall
    <3>3. CASE install[w] # NoInstall
      <4>1. install[w] \in Requests /\ install[w].entry \in view
        BY <3>3 DEF IInv, SkillInv, SkillTypes, Requests
      <4>2. QED
        BY <4>1 DEF Requests, Phases
    <3>4. QED
      BY <3>2, <3>3
  <2>2. InstallTypeOK
    BY <2>1 DEF IInv, SkillInv, SkillTypes, InstallTypeOK
  <2>3. QED
    BY <2>2 DEF IInv, ViewInv, FeedInv, ListInv, DashboardInv, HookInv, TypeOK
<1>2. QED
  BY <1>1, Invariant, PTL

\* The change feed hands out entries in increasing order, none twice and none
\* beyond the cursor; an entry that the cursor has passed was received, unless it
\* came late, slipped behind a scan under way, or was there before the feed began:
\* for any page limit, and however often a request breaks off.
THEOREM FeedExact == Spec => []FeedIsExact
<1>1. IInv => FeedIsExact
  BY DEF IInv, FeedInv
<1>2. QED
  BY <1>1, Invariant, PTL

\* A walk over the pages of a list hands out its rows in order, none twice, and
\* at its end has handed out every row that the filters keep, but for rows that
\* were committed behind it.
THEOREM WalksListAll == Spec => []ListsAll
<1>1. IInv => ListsAll
  BY DEF IInv, ListInv, Walked, ListsAll, Past
<1>2. QED
  BY <1>1, Invariant, PTL

\* A page of the dashboard that has nothing to fetch and nothing to hear shows
\* the version that the view is at, unless an event was lost with a connection or
\* came while the first fetch of the page was on its way.
THEOREM FreshPages == Spec => []PageIsFresh
<1>1. IInv => PageIsFresh
  BY DEF IInv, DashboardInv, PageIsFresh, Quiet, Coming
<1>2. QED
  BY <1>1, Invariant, PTL

\* Every entry up to the hook's lastSeen was shown to the agent, or is one of
\* those that the hook is known to skip, wherever it died.
THEOREM HookTells == Spec => []PromptTells
<1>1. IInv => PromptTells
  BY DEF IInv, HookInv
<1>2. QED
  BY <1>1, Invariant, PTL

\* What the manifest records is on disk under the name it goes by, and a
\* confirmed install stays recorded unless its update met another's: for any
\* number of requests at once, and wherever the daemon is killed.
THEOREM InstalledTrue == Spec => []InstalledIsTrue
<1>1. IInv => InstalledIsTrue
  BY DEF IInv, SkillInv, RecordedOnDisk, OnDisk, InstalledIsTrue
<1>2. QED
  BY <1>1, Invariant, PTL
==============================================================================
