----------------------------- MODULE TasksProofs -----------------------------
(***************************************************************************)
(* Proofs about Tasks, for any daemons, clients, clocks and number of      *)
(* entries.                                                                *)
(*                                                                         *)
(* What a daemon reports of a task is a fold over the entries it knows.    *)
(* The fold is first brought into the shape of a recursion on finite sets, *)
(* and a set of states that every later entry keeps is then what the fold  *)
(* ends in, whatever else it has read (SuffixStays).  Inductions are by    *)
(* least counterexample.                                                   *)
(***************************************************************************)
EXTENDS Tasks, FiniteSetTheorems, TLAPS

---------------------------------------------------------------------------
(* Finite sets.                                                            *)

LEMMA LeastExists == ASSUME NEW T \in SUBSET Nat, T # {} PROVE \E x \in T : \A y \in T : x <= y
<1>1. PICK x \in T : \A y \in T : ~(<<y, x>> \in OpToRel(<, Nat))
  BY NatLessThanWellFounded, WFMin
<1>2. \A y \in T : ~(y < x)
  BY <1>1 DEF OpToRel
<1>3. QED
  BY <1>2

\* A family of finite sets has a smallest one.
LEMMA SmallestExists ==
    ASSUME NEW S, IsFiniteSet(S), NEW D \in SUBSET SUBSET S, D # {}
    PROVE  \E T \in D : \A U \in D : ~(U \subseteq T /\ U # T)
<1>1. \A T \in D : IsFiniteSet(T) /\ Cardinality(T) \in Nat
  BY FS_Subset, FS_CardinalityType
<1>2. PICK T \in D : \A U \in D : Cardinality(T) <= Cardinality(U)
  <2> DEFINE C == {Cardinality(T) : T \in D}
  <2>1. C \in SUBSET Nat /\ C # {}
    BY <1>1
  <2>2. PICK n \in C : \A m \in C : n <= m
    BY <2>1, LeastExists
  <2>3. QED
    BY <2>2
<1>3. ASSUME NEW U \in D, U \subseteq T, U # T PROVE FALSE
  <2>1. Cardinality(U) <= Cardinality(T) /\ (Cardinality(U) = Cardinality(T) => U = T)
    BY <1>1, <1>3, FS_Subset
  <2>2. QED
    BY <1>1, <1>2, <1>3, <2>1
<1>4. QED
  BY <1>3

---------------------------------------------------------------------------
(* The fold of the reducer, as a recursion on the sets of entries.         *)

\* What the entry that sorts last in s makes of the state of the others.
AfterLast(before, s, ttl) ==
    CHOOSE next \in {ApplyTaskUpdate(x, LastById(s), ttl) : x \in {before}} : TRUE

LEMMA AfterLastIs == \A before, s, ttl : AfterLast(before, s, ttl) = ApplyTaskUpdate(before, LastById(s), ttl)
  BY DEF AfterLast

Steps(iter, S, o, ttl) ==
    [s \in SUBSET S |-> IF s = {} THEN InitialTaskState(o) ELSE AfterLast(iter[s \ {LastById(s)}], s, ttl)]

Folded(S, o, ttl) == CHOOSE iter : iter = Steps(iter, S, o, ttl)

\* The state after the updates S to the task that o created.
Raw(S, o, ttl) == Folded(S, o, ttl)[S]

LEMMA ReduceIsRaw ==
    ASSUME NEW E, NEW ttl, NEW now, \E e \in E : IsOriginal(e)
    PROVE  ReduceTaskHistory(E, ttl, now)
              = ReportAt(Raw(E \ {FirstOriginal(E)}, FirstOriginal(E), ttl), ttl, now)
  BY Zenon DEF ReduceTaskHistory, MapThenFoldSet, Raw, Folded, Steps, AfterLast

Lasting(S) == \A s \in SUBSET S : s # {} => LastById(s) \in s

LEMMA StepsAre ==
    ASSUME NEW S, NEW o, NEW ttl, NEW g, g = Steps(g, S, o, ttl)
    PROVE  /\ g[{}] = InitialTaskState(o)
           /\ \A s \in SUBSET S : s # {} => g[s] = AfterLast(g[s \ {LastById(s)}], s, ttl)
<1>1. \A s \in SUBSET S :
         g[s] = IF s = {} THEN InitialTaskState(o) ELSE AfterLast(g[s \ {LastById(s)}], s, ttl)
  BY Zenon DEF Steps
<1>2. {} \in SUBSET S
  OBVIOUS
<1>3. QED
  BY <1>1, <1>2

\* Two folds agree wherever both are defined.
LEMMA FoldsAgree ==
    ASSUME NEW S, IsFiniteSet(S), Lasting(S), NEW T \in SUBSET S, NEW o, NEW ttl,
           NEW g, g = Steps(g, S, o, ttl), NEW h, h = Steps(h, T, o, ttl)
    PROVE  \A s \in SUBSET T : g[s] = h[s]
<1> DEFINE D == {s \in SUBSET T : g[s] # h[s]}
<1>1. SUFFICES ASSUME D # {} PROVE FALSE
  OBVIOUS
<1>2. D \in SUBSET SUBSET S
  OBVIOUS
<1>3. PICK s \in D : \A u \in D : ~(u \subseteq s /\ u # s)
  <2> HIDE DEF D
  <2>1. QED
    BY <1>1, <1>2, SmallestExists
<1>4. g[{}] = h[{}]
  BY StepsAre
<1>5. s # {} /\ s \in SUBSET T /\ s \in SUBSET S
  BY <1>3, <1>4
<1>6. LastById(s) \in s
  BY <1>5 DEF Lasting
<1> DEFINE r == s \ {LastById(s)}
<1>7. r \in SUBSET T /\ r \subseteq s /\ r # s
  BY <1>5, <1>6
<1>8. g[r] = h[r]
  BY <1>3, <1>7
<1>9. g[s] = AfterLast(g[r], s, ttl) /\ h[s] = AfterLast(h[r], s, ttl)
  BY <1>5, StepsAre
<1>10. QED
  BY <1>3, <1>8, <1>9

LEMMA FoldExists ==
    ASSUME NEW S, IsFiniteSet(S), Lasting(S), NEW o, NEW ttl
    PROVE  \E g : g = Steps(g, S, o, ttl)
<1> DEFINE Has(T) == \E g : g = Steps(g, T, o, ttl)
           D == {T \in SUBSET S : ~Has(T)}
<1>1. SUFFICES ASSUME D # {} PROVE FALSE
  OBVIOUS
<1>2. D \in SUBSET SUBSET S
  OBVIOUS
<1>3. PICK T \in D : \A u \in D : ~(u \subseteq T /\ u # T)
  <2> HIDE DEF D
  <2>1. QED
    BY <1>1, <1>2, SmallestExists
<1>4. T \in SUBSET S /\ ~Has(T) /\ \A u \in SUBSET T : u # T => Has(u)
  BY <1>3
<1> HIDE DEF D
<1> DEFINE Of(u) == CHOOSE g : g = Steps(g, u, o, ttl)
           val(u) == Of(u)[u]
           iter == [s \in SUBSET T |->
                      IF s = {} THEN InitialTaskState(o) ELSE AfterLast(val(s \ {LastById(s)}), s, ttl)]
<1>5. \A u \in SUBSET T : u # T => Of(u) = Steps(Of(u), u, o, ttl)
  BY <1>4, Zenon
<1>6. \A s \in SUBSET T : s # {} => LastById(s) \in s /\ s \ {LastById(s)} \in SUBSET T
                                    /\ s \ {LastById(s)} # T
  BY <1>4 DEF Lasting
<1>7. ASSUME NEW r \in SUBSET T, r # T PROVE val(r) = iter[r]
  <2> DEFINE g == Of(r)
  <2>1. g = Steps(g, r, o, ttl)
    BY <1>5, <1>7
  <2>2. CASE r = {}
    <3>1. val(r) = InitialTaskState(o)
      <4>1. g[{}] = InitialTaskState(o)
        <5> HIDE DEF g
        <5>1. QED
          BY <2>1, StepsAre
      <4>2. QED
        BY <2>2, <4>1
    <3>2. QED
      BY <2>2, <3>1
  <2>3. CASE r # {}
    <3> DEFINE l == LastById(r)
               q == r \ {l}
               h == Of(q)
    <3>1. l \in r /\ q \in SUBSET r /\ q \in SUBSET T /\ q # T
      BY <1>6, <2>3
    <3>2. h = Steps(h, q, o, ttl)
      BY <1>5, <3>1
    <3>3. IsFiniteSet(r) /\ Lasting(r)
      BY <1>4, FS_Subset DEF Lasting
    <3>4. g[q] = h[q]
      <4> HIDE DEF g, h, q, l
      <4>1. QED
        BY <2>1, <3>1, <3>2, <3>3, FoldsAgree
    <3>5. g[r] = AfterLast(g[q], r, ttl)
      <4> HIDE DEF g
      <4>1. \A s \in SUBSET r : s # {} => g[s] = AfterLast(g[s \ {LastById(s)}], s, ttl)
        BY <2>1, StepsAre
      <4>2. QED
        BY <2>3, <4>1
    <3>6. iter[r] = AfterLast(val(q), r, ttl)
      BY <1>7, <2>3
    <3>7. QED
      BY <3>4, <3>5, <3>6
  <2>4. QED
    BY <2>2, <2>3
<1>8. iter = Steps(iter, T, o, ttl)
  <2>1. \A s \in SUBSET T : s # {} => val(s \ {LastById(s)}) = iter[s \ {LastById(s)}]
    BY <1>6, <1>7
  <2> HIDE DEF val
  <2>2. \A s \in SUBSET T :
           iter[s] = IF s = {} THEN InitialTaskState(o) ELSE AfterLast(iter[s \ {LastById(s)}], s, ttl)
    BY <2>1
  <2>3. QED
    BY <2>2 DEF Steps
<1>9. QED
  BY <1>4, <1>8

\* The updates S in order: the state of none is the initial one, and the last one
\* is applied to the state of the others.
LEMMA RawIs ==
    ASSUME NEW S, IsFiniteSet(S), Lasting(S), NEW o, NEW ttl
    PROVE  /\ S = {} => Raw(S, o, ttl) = InitialTaskState(o)
           /\ S # {} => Raw(S, o, ttl) = ApplyTaskUpdate(Raw(S \ {LastById(S)}, o, ttl), LastById(S), ttl)
<1> DEFINE F == Folded(S, o, ttl)
<1>1. F = Steps(F, S, o, ttl)
  BY FoldExists, Zenon DEF Folded
<1>2. F[{}] = InitialTaskState(o) /\ (S # {} => F[S] = AfterLast(F[S \ {LastById(S)}], S, ttl))
  <2> HIDE DEF F
  <2>1. \A s \in SUBSET S : s # {} => F[s] = AfterLast(F[s \ {LastById(s)}], s, ttl)
    BY <1>1, StepsAre
  <2>2. QED
    BY <1>1, <2>1, StepsAre
<1>3. CASE S = {}
  BY <1>2, <1>3 DEF Raw
<1>4. CASE S # {}
  <2> DEFINE r == S \ {LastById(S)}
             G == Folded(r, o, ttl)
  <2>1. r \in SUBSET S /\ IsFiniteSet(r) /\ Lasting(r)
    BY FS_Subset DEF Lasting
  <2>2. G = Steps(G, r, o, ttl)
    <3> HIDE DEF r
    <3>1. QED
      BY <2>1, FoldExists, Zenon DEF Folded
  <2>3. F[r] = G[r]
    <3> HIDE DEF F, G, r
    <3>1. QED
      BY <1>1, <2>1, <2>2, FoldsAgree
  <2>4. QED
    BY <1>2, <1>4, <2>3, AfterLastIs DEF Raw
<1>5. QED
  BY <1>3, <1>4

---------------------------------------------------------------------------
(* The order of the entries.                                               *)

\* Entries that have ids of their own, compared as numbers where the writer is
\* the same.
Sortable(S) ==
    /\ IsFiniteSet(S)
    /\ \A e \in S : e.writer \in Nat /\ e.seq \in Nat
    /\ \A e, f \in S :
          /\ e # f => e.writer # f.writer \/ e.seq # f.seq
          /\ NumeralBefore(e.seq, f.seq) <=> e.seq < f.seq

LEMMA IdOrder ==
    ASSUME NEW S, Sortable(S)
    PROVE  /\ \A x, y \in S : IdBefore(x, y) => ~IdBefore(y, x)
           /\ \A x, y \in S : x # y => IdBefore(x, y) \/ IdBefore(y, x)
           /\ \A x, y, z \in S : IdBefore(x, y) /\ IdBefore(y, z) => IdBefore(x, z)
<1>1. \A x, y \in S : IdBefore(x, y) <=> x.writer < y.writer \/ (x.writer = y.writer /\ x.seq < y.seq)
  BY DEF Sortable, IdBefore
<1>2. \A x \in S : x.writer \in Nat /\ x.seq \in Nat
  BY DEF Sortable
<1>3. \A x, y \in S : x # y => x.writer # y.writer \/ x.seq # y.seq
  BY DEF Sortable
<1>4. QED
  BY <1>1, <1>2, <1>3

LEMMA SortableParts == ASSUME NEW S, Sortable(S), NEW s \in SUBSET S PROVE Sortable(s)
  BY FS_Subset DEF Sortable

LEMMA LastIs ==
    ASSUME NEW S, Sortable(S), S # {}
    PROVE  LastById(S) \in S /\ \A f \in S \ {LastById(S)} : IdBefore(f, LastById(S))
<1> DEFINE Has(T) == \E e \in T : \A f \in T \ {e} : IdBefore(f, e)
           D == {T \in SUBSET S : T # {} /\ ~Has(T)}
<1>1. Has(S)
  <2>1. SUFFICES ASSUME D # {} PROVE FALSE
    OBVIOUS
  <2>2. D \in SUBSET SUBSET S /\ IsFiniteSet(S)
    BY DEF Sortable
  <2>3. PICK T \in D : \A u \in D : ~(u \subseteq T /\ u # T)
    <3> HIDE DEF D
    <3>1. QED
      BY <2>1, <2>2, SmallestExists
  <2>4. PICK x \in T : TRUE
    BY <2>3
  <2>5. T \ {x} # {}
    BY <2>3, <2>4
  <2>6. PICK z \in T \ {x} : \A f \in (T \ {x}) \ {z} : IdBefore(f, z)
    <3>1. T \ {x} \in SUBSET S /\ T \ {x} \subseteq T /\ T \ {x} # T
      BY <2>3, <2>4
    <3>2. T \ {x} \notin D
      BY <2>3, <3>1
    <3>3. Has(T \ {x})
      BY <2>5, <3>1, <3>2
    <3>4. QED
      BY <3>3
  <2>7. x \in S /\ z \in S /\ T \subseteq S /\ x # z
    BY <2>3, <2>4, <2>6
  <2>8. CASE IdBefore(x, z)
    BY <2>3, <2>6, <2>8
  <2>9. CASE IdBefore(z, x)
    <3>1. \A f \in T \ {x} : IdBefore(f, x)
      BY <2>6, <2>7, <2>9, IdOrder
    <3>2. QED
      BY <2>3, <2>4, <3>1
  <2>10. QED
    BY <2>7, <2>8, <2>9, IdOrder
<1>2. QED
  BY <1>1, Zenon DEF LastById

LEMMA SortableLasts == ASSUME NEW S, Sortable(S) PROVE Lasting(S) /\ IsFiniteSet(S)
  BY SortableParts, LastIs DEF Lasting, Sortable

\* The last of two sets, one of which sorts before the other.
LEMMA LastOfLater ==
    ASSUME NEW A, NEW T, Sortable(A \cup T), \A x \in A : \A y \in T : IdBefore(x, y), T # {}
    PROVE  /\ LastById(T) \in T /\ LastById(A \cup T) = LastById(T)
           /\ (A \cup T) \ {LastById(T)} = A \cup (T \ {LastById(T)})
<1>1. PICK B : B = A \cup T
  OBVIOUS
<1>2. PICK l, m : l = LastById(B) /\ m = LastById(T)
  OBVIOUS
<1>3. Sortable(B) /\ B # {} /\ Sortable(T)
  <2>1. T \in SUBSET (A \cup T)
    OBVIOUS
  <2>2. QED
    BY <1>1, <2>1, SortableParts
<1>4. l \in B /\ \A f \in B \ {l} : IdBefore(f, l)
  BY <1>2, <1>3, LastIs
<1>5. m \in T /\ \A f \in T \ {m} : IdBefore(f, m)
  BY <1>2, <1>3, LastIs
<1>6. \A x, y \in B : IdBefore(x, y) => ~IdBefore(y, x)
  BY <1>3, IdOrder
<1>7. l = m
  BY <1>1, <1>4, <1>5, <1>6
<1>8. m \notin A
  BY <1>1, <1>5, <1>6
<1>9. QED
  BY <1>1, <1>2, <1>5, <1>7, <1>8

\* A set of states that the entries of Q keep is one that they end in.
LEMMA SuffixStays ==
    ASSUME NEW A, NEW Q, Sortable(A \cup Q), \A x \in A : \A y \in Q : IdBefore(x, y),
           NEW o, NEW ttl, NEW Good, Raw(A, o, ttl) \in Good,
           \A s \in Good : \A g \in Q : ApplyTaskUpdate(s, g, ttl) \in Good
    PROVE  Raw(A \cup Q, o, ttl) \in Good
<1> DEFINE D == {T \in SUBSET Q : Raw(A \cup T, o, ttl) \notin Good}
<1>1. SUFFICES ASSUME D # {} PROVE FALSE
  OBVIOUS
<1>2. D \in SUBSET SUBSET Q /\ IsFiniteSet(Q)
  BY FS_Subset DEF Sortable
<1>3. PICK T \in D : \A u \in D : ~(u \subseteq T /\ u # T)
  <2> HIDE DEF D
  <2>1. QED
    BY <1>1, <1>2, SmallestExists
<1>4. T \in SUBSET Q /\ Raw(A \cup T, o, ttl) \notin Good
  BY <1>3
<1>5. T # {}
  <2>1. T = {} => A \cup T = A
    OBVIOUS
  <2>2. QED
    BY <1>4, <2>1
<1>6. Sortable(A \cup T) /\ A \cup T # {}
  <2>1. A \cup T \in SUBSET (A \cup Q)
    BY <1>4
  <2>2. QED
    BY <1>5, <2>1, SortableParts
<1>7. PICK l : l = LastById(T)
  OBVIOUS
<1>8. l \in T /\ LastById(A \cup T) = l /\ (A \cup T) \ {l} = A \cup (T \ {l})
  BY <1>4, <1>5, <1>6, <1>7, LastOfLater
<1>9. Raw(A \cup (T \ {l}), o, ttl) \in Good
  <2>1. T \ {l} \in SUBSET Q /\ T \ {l} \subseteq T /\ T \ {l} # T
    BY <1>4, <1>8
  <2>2. QED
    BY <1>3, <2>1
<1>10. Raw(A \cup T, o, ttl) = ApplyTaskUpdate(Raw(A \cup (T \ {l}), o, ttl), l, ttl)
  <2>1. IsFiniteSet(A \cup T) /\ Lasting(A \cup T)
    BY <1>6, SortableLasts
  <2>2. QED
    BY <1>6, <1>8, <2>1, RawIs
<1>11. QED
  BY <1>4, <1>8, <1>9, <1>10

\* After entries that leave the task as it was created, the others fold as if they
\* were alone.
LEMMA SuffixFollows ==
    ASSUME NEW A, NEW Q, Sortable(A \cup Q), \A x \in A : \A y \in Q : IdBefore(x, y),
           NEW o, NEW ttl, Raw(A, o, ttl) = InitialTaskState(o)
    PROVE  Raw(A \cup Q, o, ttl) = Raw(Q, o, ttl)
<1> DEFINE D == {T \in SUBSET Q : Raw(A \cup T, o, ttl) # Raw(T, o, ttl)}
<1>1. SUFFICES ASSUME D # {} PROVE FALSE
  OBVIOUS
<1>2. D \in SUBSET SUBSET Q /\ IsFiniteSet(Q)
  BY FS_Subset DEF Sortable
<1>3. PICK T \in D : \A u \in D : ~(u \subseteq T /\ u # T)
  <2> HIDE DEF D
  <2>1. QED
    BY <1>1, <1>2, SmallestExists
<1>4. T \in SUBSET Q /\ Raw(A \cup T, o, ttl) # Raw(T, o, ttl)
  BY <1>3
<1>5. Sortable(A \cup T) /\ Sortable(T)
  <2>1. A \cup T \in SUBSET (A \cup Q) /\ T \in SUBSET (A \cup Q)
    BY <1>4
  <2>2. QED
    BY <2>1, SortableParts
<1>6. T # {}
  <2>1. T = {} => A \cup T = A /\ Raw(T, o, ttl) = InitialTaskState(o)
    BY <1>5, SortableLasts, RawIs
  <2>2. QED
    BY <1>4, <2>1
<1>7. PICK l : l = LastById(T)
  OBVIOUS
<1>8. l \in T /\ LastById(A \cup T) = l /\ (A \cup T) \ {l} = A \cup (T \ {l})
  BY <1>4, <1>5, <1>6, <1>7, LastOfLater
<1>9. Raw(A \cup (T \ {l}), o, ttl) = Raw(T \ {l}, o, ttl)
  <2>1. T \ {l} \in SUBSET Q /\ T \ {l} \subseteq T /\ T \ {l} # T
    BY <1>4, <1>8
  <2>2. QED
    BY <1>3, <2>1
<1>10. Raw(A \cup T, o, ttl) = ApplyTaskUpdate(Raw(A \cup (T \ {l}), o, ttl), l, ttl)
  <2>1. IsFiniteSet(A \cup T) /\ Lasting(A \cup T)
    BY <1>5, SortableLasts
  <2>2. A \cup T # {}
    BY <1>6
  <2>3. QED
    BY <1>8, <2>1, <2>2, RawIs
<1>11. Raw(T, o, ttl) = ApplyTaskUpdate(Raw(T \ {l}, o, ttl), l, ttl)
  <2>1. IsFiniteSet(T) /\ Lasting(T)
    BY <1>5, SortableLasts
  <2>2. QED
    BY <1>6, <1>7, <2>1, RawIs
<1>12. QED
  BY <1>4, <1>9, <1>10, <1>11

---------------------------------------------------------------------------
(* What one entry does to the state of a task reserved for a (or None).    *)

Proper(a) ==
    {s \in [status : Statuses, claimed_by : Nat \cup {None}, claimed_at : Nat \cup {None},
            assigned_to : {a}, result : (Nat \X Nat) \cup {None}, expired : {FALSE}] :
        /\ s.status = "open" => s.claimed_by = None /\ s.claimed_at = None
        /\ s.status = "claimed" => s.claimed_by \in Nat /\ s.claimed_at \in Nat
        /\ s.status # "complete" => s.result = None}

Stamps(S) == \A g \in S : g.writer \in Nat /\ g.seq \in Nat /\ g.ts \in Nat

LEMMA NoneIs == None \notin Nat
  BY TasksAssumption

LEMMA ProperIs ==
    ASSUME NEW a, NEW s \in Proper(a)
    PROVE  /\ s.status \in Statuses /\ s.assigned_to = a
           /\ s.status = "open" => s.claimed_by = None
           /\ s.status = "claimed" => s.claimed_by \in Nat /\ s.claimed_at \in Nat /\ s.claimed_at # None
  BY NoneIs DEF Proper

LEMMA ClaimIs ==
    ASSUME NEW a, NEW s \in Proper(a), NEW g, Stamps({g}), NEW past \in BOOLEAN, past => s.status = "claimed"
    PROVE  /\ ApplyClaim(s, g, past) \in Proper(a)
           /\ \/ /\ s.status = "open" \/ past
                 /\ a \in {None, g.writer}
                 /\ ApplyClaim(s, g, past).status = "claimed"
                 /\ ApplyClaim(s, g, past).claimed_by = g.writer
                 /\ ApplyClaim(s, g, past).claimed_at = g.ts
              \/ /\ ~((s.status = "open" \/ past) /\ a \in {None, g.writer})
                 /\ ApplyClaim(s, g, past) = s
<1> DEFINE r == [s EXCEPT !.status = "claimed", !.claimed_by = g.writer, !.claimed_at = g.ts]
<1>1. s.status = "open" \/ past => r \in Proper(a) /\ r.status = "claimed" /\ r.claimed_by = g.writer /\ r.claimed_at = g.ts
  BY DEF Proper, Statuses, Stamps
<1>2. s.assigned_to = a
  BY ProperIs
<1>3. ApplyClaim(s, g, past) = IF (s.status = "open" \/ past) /\ a \in {None, g.writer} THEN r ELSE s
  BY <1>2 DEF ApplyClaim
<1> HIDE DEF r
<1>4. QED
  BY <1>1, <1>3

LEMMA CompleteIs ==
    ASSUME NEW a, NEW s \in Proper(a), NEW g, Stamps({g}), NEW past \in BOOLEAN, past => s.status = "claimed"
    PROVE  /\ ApplyComplete(s, g, past) \in Proper(a)
           /\ \/ /\ s.status = "open" \/ past \/ (s.status = "claimed" /\ s.claimed_by = g.writer)
                 /\ ApplyComplete(s, g, past).status = "complete"
                 /\ ApplyComplete(s, g, past).claimed_by = IF s.status = "open" \/ past THEN None ELSE s.claimed_by
              \/ /\ ~(s.status = "open" \/ past \/ (s.status = "claimed" /\ s.claimed_by = g.writer))
                 /\ ApplyComplete(s, g, past) = s
<1> DEFINE r == [s EXCEPT !.status = "complete", !.result = <<g.writer, g.seq>>]
           q == [r EXCEPT !.claimed_by = None]
<1>1. r \in Proper(a) /\ r.status = "complete" /\ r.claimed_by = s.claimed_by
  BY DEF Proper, Statuses, Stamps
<1>2. q \in Proper(a) /\ q.status = "complete" /\ q.claimed_by = None
  <2> HIDE DEF r
  <2>1. QED
    BY <1>1 DEF Proper
<1>3. ApplyComplete(s, g, past) =
         CASE s.status = "open" -> r
           [] past -> q
           [] s.status = "claimed" /\ ~past /\ g.writer = s.claimed_by -> r
           [] OTHER -> s
  BY DEF ApplyComplete
<1> HIDE DEF r, q
<1>4. CASE s.status = "open"
  BY <1>1, <1>3, <1>4, ProperIs
<1>5. CASE past
  BY <1>2, <1>3, <1>5
<1>6. CASE s.status # "open" /\ ~past
  BY <1>1, <1>3, <1>6
<1>7. QED
  BY <1>4, <1>5, <1>6

LEMMA ReleaseIs ==
    ASSUME NEW a, NEW s \in Proper(a), NEW g, NEW past \in BOOLEAN
    PROVE  /\ ApplyRelease(s, g, past) \in Proper(a)
           /\ \/ /\ s.status = "claimed" /\ ~past /\ s.claimed_by = g.writer
                 /\ ApplyRelease(s, g, past).status = "open"
              \/ /\ ~(s.status = "claimed" /\ ~past /\ s.claimed_by = g.writer)
                 /\ ApplyRelease(s, g, past) = s
<1> DEFINE r == [s EXCEPT !.status = "open", !.claimed_by = None, !.claimed_at = None]
<1>1. s.status = "claimed" => r \in Proper(a) /\ r.status = "open"
  BY DEF Proper, Statuses
<1>2. ApplyRelease(s, g, past) =
         IF s.status = "claimed" /\ ~past /\ g.writer = s.claimed_by THEN r ELSE s
  BY DEF ApplyRelease
<1> HIDE DEF r
<1>3. QED
  BY <1>1, <1>2

\* An entry g does nothing, claims the task, completes it, or releases it.
LEMMA ApplyIs ==
    ASSUME NEW a, NEW s \in Proper(a), NEW g, Stamps({g}), NEW ttl
    PROVE  /\ ApplyTaskUpdate(s, g, ttl) \in Proper(a)
           /\ \/ ApplyTaskUpdate(s, g, ttl) = s
              \/ /\ s.status = "open" \/ PastTtl(s, g.ts, ttl)
                 /\ ApplyTaskUpdate(s, g, ttl).status = "claimed"
                 /\ ApplyTaskUpdate(s, g, ttl).claimed_by = g.writer
                 /\ ApplyTaskUpdate(s, g, ttl).claimed_at = g.ts
              \/ /\ s.status = "open" \/ PastTtl(s, g.ts, ttl) \/ (s.status = "claimed" /\ s.claimed_by = g.writer)
                 /\ ApplyTaskUpdate(s, g, ttl).status = "complete"
              \/ /\ s.status = "claimed" /\ ~PastTtl(s, g.ts, ttl) /\ s.claimed_by = g.writer
                 /\ ApplyTaskUpdate(s, g, ttl).status = "open"
           /\ g.kind = "claimed" /\ (s.status = "open" \/ PastTtl(s, g.ts, ttl)) /\ a \in {None, g.writer} =>
                 /\ ApplyTaskUpdate(s, g, ttl).status = "claimed"
                 /\ ApplyTaskUpdate(s, g, ttl).claimed_by = g.writer
                 /\ ApplyTaskUpdate(s, g, ttl).claimed_at = g.ts
           /\ /\ g.kind = "complete"
              /\ s.status = "open" \/ PastTtl(s, g.ts, ttl) \/ (s.status = "claimed" /\ s.claimed_by = g.writer)
              => /\ ApplyTaskUpdate(s, g, ttl).status = "complete"
                 /\ ApplyTaskUpdate(s, g, ttl).claimed_by =
                       IF s.status = "open" \/ PastTtl(s, g.ts, ttl) THEN None ELSE s.claimed_by
           /\ g.kind = "open" /\ s.status = "claimed" /\ s.claimed_by = g.writer /\ ~PastTtl(s, g.ts, ttl) =>
                 ApplyTaskUpdate(s, g, ttl).status = "open"
<1>1. PICK past \in BOOLEAN : past = PastTtl(s, g.ts, ttl)
  BY DEF PastTtl
<1>2. past => s.status = "claimed"
  BY <1>1 DEF PastTtl
<1>3. ApplyTaskUpdate(s, g, ttl) =
         CASE g.kind = "claimed" -> ApplyClaim(s, g, past)
           [] g.kind = "complete" -> ApplyComplete(s, g, past)
           [] g.kind = "open" -> ApplyRelease(s, g, past)
           [] OTHER -> s
  BY <1>1, Zenon DEF ApplyTaskUpdate
<1>4. CASE g.kind = "claimed"
  <2>1. ApplyTaskUpdate(s, g, ttl) = ApplyClaim(s, g, past)
    BY <1>3, <1>4
  <2>2. QED
    BY <1>1, <1>2, <1>4, <2>1, ClaimIs
<1>5. CASE g.kind = "complete"
  <2>1. ApplyTaskUpdate(s, g, ttl) = ApplyComplete(s, g, past)
    BY <1>3, <1>5
  <2>2. QED
    BY <1>1, <1>2, <1>5, <2>1, CompleteIs
<1>6. CASE g.kind = "open"
  <2>1. ApplyTaskUpdate(s, g, ttl) = ApplyRelease(s, g, past)
    BY <1>3, <1>6
  <2>2. QED
    BY <1>1, <1>6, <2>1, ReleaseIs
<1>7. CASE g.kind \notin {"claimed", "complete", "open"}
  BY <1>3, <1>7
<1>8. QED
  BY <1>4, <1>5, <1>6, <1>7

---------------------------------------------------------------------------
(* An entry e among entries Y: those that sort before it, and after it.    *)

Prior(Y, e) == {g \in Y : IdBefore(g, e)}

Later(Y, e) == {g \in Y : IdBefore(e, g)}

\* Nothing of e's own writer sorts after it.
OwnLast(Y, e) == \A g \in Y : g.writer = e.writer => IdBefore(g, e)

LEMMA RawStays ==
    ASSUME NEW S, Sortable(S), NEW o, NEW ttl, NEW Good, InitialTaskState(o) \in Good,
           \A s \in Good : \A g \in S : ApplyTaskUpdate(s, g, ttl) \in Good
    PROVE  Raw(S, o, ttl) \in Good
<1>1. Sortable({}) /\ {} \cup S = S
  BY SortableParts
<1>2. Raw({}, o, ttl) = InitialTaskState(o)
  BY <1>1, SortableLasts, RawIs
<1>3. Raw({} \cup S, o, ttl) \in Good
  <2>1. Sortable({} \cup S) /\ \A x \in {} : \A y \in S : IdBefore(x, y)
    BY <1>1
  <2>2. Raw({}, o, ttl) \in Good
    BY <1>2
  <2>3. QED
    BY <2>1, <2>2, SuffixStays
<1>4. QED
  BY <1>1, <1>3

LEMMA InitialIs ==
    ASSUME NEW o
    PROVE  InitialTaskState(o) \in Proper(o.assigned_to) /\ InitialTaskState(o).status = "open"
  BY DEF InitialTaskState, Proper, Statuses

LEMMA SplitIs ==
    ASSUME NEW Y, NEW e, e \notin Y, Sortable(Y \cup {e})
    PROVE  /\ Y = Prior(Y, e) \cup Later(Y, e)
           /\ Y \cup {e} = (Prior(Y, e) \cup {e}) \cup Later(Y, e)
           /\ \A x \in Prior(Y, e) \cup {e} : \A y \in Later(Y, e) : IdBefore(x, y)
           /\ Sortable(Prior(Y, e)) /\ Sortable(Prior(Y, e) \cup {e}) /\ Sortable(Y)
           /\ \A o, ttl : Raw(Prior(Y, e) \cup {e}, o, ttl) = ApplyTaskUpdate(Raw(Prior(Y, e), o, ttl), e, ttl)
<1> DEFINE P == Prior(Y, e)
           Q == Later(Y, e)
<1>1. P \subseteq Y /\ Q \subseteq Y /\ (\A x \in P : IdBefore(x, e)) /\ (\A x \in Q : IdBefore(e, x))
  BY DEF Prior, Later
<1>2. \A x \in Y : x \in P \/ x \in Q
  BY IdOrder DEF Prior, Later
<1> HIDE DEF P, Q
<1>3. \A x \in P : \A y \in Q : IdBefore(x, y)
  <2>1. SUFFICES ASSUME NEW x \in P, NEW y \in Q PROVE IdBefore(x, y)
    OBVIOUS
  <2>2. x \in Y \cup {e} /\ y \in Y \cup {e} /\ e \in Y \cup {e} /\ IdBefore(x, e) /\ IdBefore(e, y)
    BY <1>1
  <2>3. QED
    BY <2>2, IdOrder
<1>4. Sortable(P) /\ Sortable(P \cup {e}) /\ Sortable(Y)
  <2>1. P \in SUBSET (Y \cup {e}) /\ P \cup {e} \in SUBSET (Y \cup {e}) /\ Y \in SUBSET (Y \cup {e})
    BY <1>1
  <2>2. QED
    BY <2>1, SortableParts
<1>5. LastById(P \cup {e}) = e
  <2> DEFINE B == P \cup {e}
             l == LastById(B)
  <2>1. l \in B /\ \A f \in B \ {l} : IdBefore(f, l)
    <3>1. Sortable(B) /\ B # {}
      BY <1>4
    <3> HIDE DEF B
    <3>2. QED
      BY <3>1, LastIs
  <2>2. SUFFICES ASSUME l # e PROVE FALSE
    OBVIOUS
  <2>3. l \in Y /\ IdBefore(l, e) /\ IdBefore(e, l)
    BY <1>1, <2>1, <2>2
  <2> HIDE DEF l
  <2>4. QED
    BY <2>3, IdOrder
<1>6. (P \cup {e}) \ {e} = P
  BY <1>1
<1>7. \A o, ttl : Raw(P \cup {e}, o, ttl) = ApplyTaskUpdate(Raw(P, o, ttl), e, ttl)
  <2>1. SUFFICES ASSUME NEW o, NEW ttl
                 PROVE  Raw(P \cup {e}, o, ttl) = ApplyTaskUpdate(Raw(P, o, ttl), e, ttl)
    OBVIOUS
  <2>2. IsFiniteSet(P \cup {e}) /\ Lasting(P \cup {e}) /\ P \cup {e} # {}
    BY <1>4, SortableLasts
  <2>3. QED
    BY <1>5, <1>6, <2>2, RawIs
<1>8. QED
  BY <1>1, <1>2, <1>3, <1>4, <1>7 DEF P, Q

LEMMA WithPrior ==
    ASSUME NEW Y, NEW e, e \notin Y, Sortable(Y \cup {e}), NEW o, NEW ttl
    PROVE  Raw(Prior(Y, e) \cup {e}, o, ttl) = ApplyTaskUpdate(Raw(Prior(Y, e), o, ttl), e, ttl)
<1>1. \A u, v : Raw(Prior(Y, e) \cup {e}, u, v) = ApplyTaskUpdate(Raw(Prior(Y, e), u, v), e, v)
  BY SplitIs
<1>2. QED
  BY <1>1

\* Before e the task is held by a writer that does not sort after e's.
LEMMA PriorIs ==
    ASSUME NEW Y, NEW e, e \notin Y, Sortable(Y \cup {e}), Stamps(Y \cup {e}), OwnLast(Y, e),
           NEW o, NEW ttl
    PROVE  /\ Raw(Prior(Y, e), o, ttl) \in Proper(o.assigned_to)
           /\ Raw(Prior(Y, e), o, ttl).status = "claimed" => Raw(Prior(Y, e), o, ttl).claimed_by <= e.writer
           /\ \A g \in Later(Y, e) : e.writer < g.writer /\ Stamps({g})
<1> DEFINE Good == {s \in Proper(o.assigned_to) : s.status = "claimed" => s.claimed_by <= e.writer}
<1>1. \A g \in Prior(Y, e) : g.writer <= e.writer /\ Stamps({g})
  BY DEF Prior, IdBefore, Stamps
<1>2. InitialTaskState(o) \in Good
  BY InitialIs
<1>3. \A s \in Good : \A g \in Prior(Y, e) : ApplyTaskUpdate(s, g, ttl) \in Good
  <2>1. SUFFICES ASSUME NEW s \in Good, NEW g \in Prior(Y, e) PROVE ApplyTaskUpdate(s, g, ttl) \in Good
    OBVIOUS
  <2>2. s \in Proper(o.assigned_to) /\ Stamps({g}) /\ g.writer <= e.writer
    BY <1>1
  <2>3. QED
    BY <2>2, ApplyIs
<1>4. Raw(Prior(Y, e), o, ttl) \in Good
  <2> HIDE DEF Good
  <2>1. Sortable(Prior(Y, e))
    BY SplitIs
  <2>2. QED
    BY <1>2, <1>3, <2>1, RawStays
<1>5. \A g \in Later(Y, e) : e.writer < g.writer /\ Stamps({g})
  <2>1. SUFFICES ASSUME NEW g \in Later(Y, e) PROVE e.writer < g.writer /\ Stamps({g})
    OBVIOUS
  <2>2. g \in Y /\ IdBefore(e, g) /\ ~IdBefore(g, e)
    <3>1. g \in Y /\ IdBefore(e, g)
      BY DEF Later
    <3>2. QED
      BY <3>1, IdOrder
  <2>3. g.writer # e.writer
    BY <2>2 DEF OwnLast
  <2>4. QED
    BY <2>2, <2>3 DEF IdBefore, Stamps
<1>6. QED
  BY <1>4, <1>5

\* A claim that has not run out for the entries to come, of others, stays, and so
\* does a completed task.
LEMMA StaysAsIs ==
    ASSUME NEW a, NEW s \in Proper(a), NEW ttl, NEW Q, Stamps(Q),
           \/ s.status = "complete"
           \/ s.status = "claimed" /\ \A g \in Q : g.writer # s.claimed_by /\ ~PastTtl(s, g.ts, ttl)
    PROVE  \A g \in Q : ApplyTaskUpdate(s, g, ttl) = s
<1>1. SUFFICES ASSUME NEW g \in Q PROVE ApplyTaskUpdate(s, g, ttl) = s
  OBVIOUS
<1>2. Stamps({g})
  BY DEF Stamps
<1>3. s.status # "open" /\ ~PastTtl(s, g.ts, ttl) /\ ~(s.status = "claimed" /\ s.claimed_by = g.writer)
  BY DEF PastTtl
<1>4. QED
  BY <1>2, <1>3, ApplyIs

\* What e finds, if it is complete or a claim that has not run out, is what all of
\* Y ends in.
LEMMA Undisturbed ==
    ASSUME NEW Y, NEW e, e \notin Y, Sortable(Y \cup {e}), Stamps(Y \cup {e}), OwnLast(Y, e),
           \A g \in Y : g.ts <= e.ts, NEW o, NEW ttl \in Nat,
           NEW s, s = Raw(Prior(Y, e), o, ttl),
           s.status = "complete" \/ (s.status = "claimed" /\ ~PastTtl(s, e.ts, ttl))
    PROVE  Raw(Y, o, ttl) = s /\ ReportAt(s, ttl, e.ts) = s
<1>1. s \in Proper(o.assigned_to) /\ Stamps(Later(Y, e))
  BY PriorIs DEF Stamps, Later
<1>2. s.status = "claimed" => \A g \in Later(Y, e) : g.writer # s.claimed_by /\ ~PastTtl(s, g.ts, ttl)
  <2>1. SUFFICES ASSUME s.status = "claimed", NEW g \in Later(Y, e)
                 PROVE  g.writer # s.claimed_by /\ ~PastTtl(s, g.ts, ttl)
    OBVIOUS
  <2>2. /\ s.claimed_by \in Nat /\ s.claimed_at \in Nat /\ s.claimed_at # None
        /\ s.claimed_by <= e.writer /\ e.writer < g.writer
    BY <1>1, <2>1, ProperIs, PriorIs
  <2>3. g.ts <= e.ts /\ g.ts \in Nat /\ e.ts \in Nat /\ g.writer \in Nat /\ e.writer \in Nat
    BY DEF Later, Stamps
  <2>4. ~(e.ts - s.claimed_at > ttl)
    BY <2>1, <2>2 DEF PastTtl
  <2>5. QED
    BY <2>2, <2>3, <2>4 DEF PastTtl
<1>3. \A x \in {s} : \A g \in Later(Y, e) : ApplyTaskUpdate(x, g, ttl) \in {s}
  BY <1>1, <1>2, StaysAsIs
<1>4. Raw(Prior(Y, e) \cup Later(Y, e), o, ttl) \in {s}
  <2>1. /\ Sortable(Prior(Y, e) \cup Later(Y, e))
        /\ \A x \in Prior(Y, e) : \A y \in Later(Y, e) : IdBefore(x, y)
    BY SplitIs
  <2>2. QED
    BY <1>3, <2>1, SuffixStays
<1>5. Raw(Y, o, ttl) = s
  BY <1>4, SplitIs
<1>6. ReportAt(s, ttl, e.ts) = s
  BY DEF ReportAt, PastTtl
<1>7. QED
  BY <1>5, <1>6

LEMMA RawProper ==
    ASSUME NEW Y, Sortable(Y), Stamps(Y), NEW o, NEW ttl
    PROVE  Raw(Y, o, ttl) \in Proper(o.assigned_to)
<1>1. InitialTaskState(o) \in Proper(o.assigned_to)
  BY InitialIs
<1>2. \A s \in Proper(o.assigned_to) : \A g \in Y : ApplyTaskUpdate(s, g, ttl) \in Proper(o.assigned_to)
  <2>1. \A g \in Y : Stamps({g})
    BY DEF Stamps
  <2>2. QED
    BY <2>1, ApplyIs
<1>3. QED
  BY <1>1, <1>2, RawStays

\* What is reported: a claim that has run out, as an open task.
LEMMA ReportIs ==
    ASSUME NEW a, NEW s \in Proper(a), NEW ttl, NEW now
    PROVE  /\ ReportAt(s, ttl, now).assigned_to = a
           /\ PastTtl(s, now, ttl) => ReportAt(s, ttl, now).status = "open"
           /\ ~PastTtl(s, now, ttl) => ReportAt(s, ttl, now) = s
           /\ ReportAt(s, ttl, now).status = "open" => ReportAt(s, ttl, now).claimed_by = None
  BY DEF ReportAt, Proper, Statuses

\* The states in which e's writer has no claim that has not run out by e.
Lapsed(a, e, ttl) ==
    {s \in Proper(a) : s.status = "claimed" /\ s.claimed_by = e.writer => PastTtl(s, e.ts, ttl)}

\* No entry of a higher writer gives e's writer a claim.
LEMMA LapsedStays ==
    ASSUME NEW Y, NEW e, e \notin Y, Sortable(Y \cup {e}), Stamps(Y \cup {e}), OwnLast(Y, e), NEW o, NEW ttl
    PROVE  \A x \in Lapsed(o.assigned_to, e, ttl) : \A g \in Later(Y, e) :
              ApplyTaskUpdate(x, g, ttl) \in Lapsed(o.assigned_to, e, ttl)
<1>1. SUFFICES ASSUME NEW x \in Lapsed(o.assigned_to, e, ttl), NEW g \in Later(Y, e)
               PROVE  ApplyTaskUpdate(x, g, ttl) \in Lapsed(o.assigned_to, e, ttl)
  OBVIOUS
<1>2. e.writer < g.writer /\ Stamps({g}) /\ x \in Proper(o.assigned_to)
  BY PriorIs DEF Lapsed
<1>3. e.writer \in Nat /\ g.writer \in Nat
  BY <1>2 DEF Stamps
<1>4. PICK n : n = ApplyTaskUpdate(x, g, ttl)
  OBVIOUS
<1>5. n \in Proper(o.assigned_to) /\ (n = x \/ n.status # "claimed" \/ n.claimed_by = g.writer)
  <2>1. n \in Proper(o.assigned_to)
    BY <1>2, <1>4, ApplyIs
  <2>2. n = x \/ n.status # "claimed" \/ n.claimed_by = g.writer
    BY <1>2, <1>4, ApplyIs
  <2>3. QED
    BY <2>1, <2>2
<1>6. QED
  BY <1>2, <1>3, <1>4, <1>5 DEF Lapsed

\* What the others report claimed by e's writer is what e finds.
LEMMA HolderBefore ==
    ASSUME NEW Y, NEW e, e \notin Y, Sortable(Y \cup {e}), Stamps(Y \cup {e}), OwnLast(Y, e),
           \A g \in Y : g.ts <= e.ts, NEW o, NEW ttl \in Nat,
           NEW r, r = ReportAt(Raw(Y, o, ttl), ttl, e.ts), r.status = "claimed", r.claimed_by = e.writer,
           NEW s, s = Raw(Prior(Y, e), o, ttl)
    PROVE  s.status = "claimed" /\ s.claimed_by = e.writer /\ ~PastTtl(s, e.ts, ttl)
<1>1. s \in Proper(o.assigned_to)
  BY PriorIs
<1>2. CASE s.status = "complete" \/ (s.status = "claimed" /\ ~PastTtl(s, e.ts, ttl))
  <2>1. r = s
    BY <1>2, Undisturbed
  <2>2. QED
    BY <1>2, <2>1
<1>3. CASE s.status = "open" \/ PastTtl(s, e.ts, ttl)
  <2>1. s \in Lapsed(o.assigned_to, e, ttl)
    BY <1>1, <1>3 DEF Lapsed
  <2>2. Raw(Prior(Y, e) \cup Later(Y, e), o, ttl) \in Lapsed(o.assigned_to, e, ttl)
    <3>1. /\ Sortable(Prior(Y, e) \cup Later(Y, e))
          /\ \A x \in Prior(Y, e) : \A y \in Later(Y, e) : IdBefore(x, y)
      BY SplitIs
    <3>2. QED
      BY <2>1, <3>1, LapsedStays, SuffixStays
  <2>3. PICK z \in Lapsed(o.assigned_to, e, ttl) : z = Raw(Y, o, ttl)
    BY <2>2, SplitIs
  <2>4. z \in Proper(o.assigned_to)
    BY DEF Lapsed
  <2>5. ~PastTtl(z, e.ts, ttl) /\ r = z
    BY <2>3, <2>4, ReportIs
  <2>6. QED
    BY <2>5 DEF Lapsed
<1>4. QED
  BY <1>1, <1>2, <1>3, ProperIs DEF Statuses

\* A claim by e of a task that the others report open holds it.
LEMMA ClaimHolds ==
    ASSUME NEW Y, NEW e, e \notin Y, Sortable(Y \cup {e}), Stamps(Y \cup {e}), OwnLast(Y, e),
           \A g \in Y : g.ts <= e.ts, NEW o, NEW ttl \in Nat,
           e.kind = "claimed", o.assigned_to \in {None, e.writer},
           ReportAt(Raw(Y, o, ttl), ttl, e.ts).status = "open"
    PROVE  /\ Raw(Y \cup {e}, o, ttl).status = "claimed"
           /\ Raw(Y \cup {e}, o, ttl).claimed_by = e.writer
           /\ Raw(Y \cup {e}, o, ttl).claimed_at = e.ts
<1>1. PICK s : s = Raw(Prior(Y, e), o, ttl)
  OBVIOUS
<1>2. s \in Proper(o.assigned_to) /\ Stamps({e})
  BY <1>1, PriorIs DEF Stamps
<1>3. s.status = "open" \/ PastTtl(s, e.ts, ttl)
  <2>1. SUFFICES ASSUME s.status # "open", ~PastTtl(s, e.ts, ttl) PROVE FALSE
    OBVIOUS
  <2>2. s.status = "complete" \/ s.status = "claimed"
    BY <1>2, <2>1, ProperIs DEF Statuses
  <2>3. Raw(Y, o, ttl) = s /\ ReportAt(s, ttl, e.ts) = s
    BY <1>1, <2>1, <2>2, Undisturbed
  <2>4. QED
    BY <2>1, <2>3
<1>4. PICK n : n = ApplyTaskUpdate(s, e, ttl)
  OBVIOUS
<1>5. n \in Proper(o.assigned_to) /\ n.status = "claimed" /\ n.claimed_by = e.writer /\ n.claimed_at = e.ts
  BY <1>2, <1>3, <1>4, ApplyIs
<1>6. Raw(Prior(Y, e) \cup {e}, o, ttl) = n
  BY <1>1, <1>4, WithPrior
<1>7. \A g \in Later(Y, e) : g.writer # n.claimed_by /\ ~PastTtl(n, g.ts, ttl)
  <2>1. SUFFICES ASSUME NEW g \in Later(Y, e) PROVE g.writer # n.claimed_by /\ ~PastTtl(n, g.ts, ttl)
    OBVIOUS
  <2>2. g.ts <= e.ts /\ g.ts \in Nat /\ e.ts \in Nat /\ g.writer \in Nat /\ e.writer \in Nat
    BY DEF Later, Stamps
  <2>3. e.writer < g.writer
    BY PriorIs
  <2>4. QED
    BY <1>5, <2>2, <2>3 DEF PastTtl
<1>8. Raw(Y \cup {e}, o, ttl) \in {n}
  <2>1. Stamps(Later(Y, e))
    BY DEF Stamps, Later
  <2>2. \A x \in {n} : \A g \in Later(Y, e) : ApplyTaskUpdate(x, g, ttl) \in {n}
    BY <1>5, <1>7, <2>1, StaysAsIs
  <2>3. Raw((Prior(Y, e) \cup {e}) \cup Later(Y, e), o, ttl) \in {n}
    <3>1. /\ Sortable((Prior(Y, e) \cup {e}) \cup Later(Y, e))
          /\ \A x \in Prior(Y, e) \cup {e} : \A y \in Later(Y, e) : IdBefore(x, y)
      BY SplitIs
    <3>2. Raw(Prior(Y, e) \cup {e}, o, ttl) \in {n}
      BY <1>6
    <3>3. QED
      BY <2>2, <3>1, <3>2, SuffixStays
  <2>4. QED
    BY <2>3, SplitIs
<1>9. QED
  BY <1>5, <1>8

\* A completion by e of a task that the others report open, or claimed by e's
\* writer, completes it.
LEMMA CompleteHolds ==
    ASSUME NEW Y, NEW e, e \notin Y, Sortable(Y \cup {e}), Stamps(Y \cup {e}), OwnLast(Y, e),
           \A g \in Y : g.ts <= e.ts, NEW o, NEW ttl \in Nat, e.kind = "complete",
           NEW r, r = ReportAt(Raw(Y, o, ttl), ttl, e.ts),
           r.status = "open" \/ (r.status = "claimed" /\ r.claimed_by = e.writer)
    PROVE  Raw(Y \cup {e}, o, ttl).status = "complete" /\ Raw(Y \cup {e}, o, ttl).claimed_by = r.claimed_by
<1>1. PICK s : s = Raw(Prior(Y, e), o, ttl)
  OBVIOUS
<1>2. s \in Proper(o.assigned_to) /\ Stamps({e})
  BY <1>1, PriorIs DEF Stamps
<1>3. /\ r.status = "open" => r.claimed_by = None /\ (s.status = "open" \/ PastTtl(s, e.ts, ttl))
      /\ r.status = "claimed" => s.status = "claimed" /\ s.claimed_by = e.writer /\ ~PastTtl(s, e.ts, ttl)
  <2>1. ASSUME r.status = "open" PROVE r.claimed_by = None /\ (s.status = "open" \/ PastTtl(s, e.ts, ttl))
    <3>1. Sortable(Y) /\ Stamps(Y)
      BY SplitIs DEF Stamps
    <3>2. r.claimed_by = None
      BY <2>1, <3>1, RawProper, ReportIs
    <3>3. SUFFICES ASSUME s.status # "open", ~PastTtl(s, e.ts, ttl) PROVE FALSE
      BY <3>2
    <3>4. s.status = "complete" \/ s.status = "claimed"
      BY <1>2, <3>3, ProperIs DEF Statuses
    <3>5. Raw(Y, o, ttl) = s /\ ReportAt(s, ttl, e.ts) = s
      BY <1>1, <3>3, <3>4, Undisturbed
    <3>6. QED
      BY <2>1, <3>3, <3>5
  <2>2. QED
    BY <1>1, <2>1, HolderBefore
<1>4. PICK n : n = ApplyTaskUpdate(s, e, ttl)
  OBVIOUS
<1>5. n \in Proper(o.assigned_to) /\ n.status = "complete" /\ n.claimed_by = r.claimed_by
  <2>1. n \in Proper(o.assigned_to)
    BY <1>2, <1>4, ApplyIs
  <2>2. n.status = "complete" /\ n.claimed_by = IF s.status = "open" \/ PastTtl(s, e.ts, ttl) THEN None ELSE s.claimed_by
    BY <1>2, <1>3, <1>4, ApplyIs
  <2>3. QED
    BY <1>3, <2>1, <2>2
<1>6. Raw(Prior(Y, e) \cup {e}, o, ttl) = n
  BY <1>1, <1>4, WithPrior
<1>7. Raw(Y \cup {e}, o, ttl) \in {n}
  <2>1. Stamps(Later(Y, e))
    BY DEF Stamps, Later
  <2>2. \A x \in {n} : \A g \in Later(Y, e) : ApplyTaskUpdate(x, g, ttl) \in {n}
    BY <1>5, <2>1, StaysAsIs
  <2>3. Raw((Prior(Y, e) \cup {e}) \cup Later(Y, e), o, ttl) \in {n}
    <3>1. /\ Sortable((Prior(Y, e) \cup {e}) \cup Later(Y, e))
          /\ \A x \in Prior(Y, e) \cup {e} : \A y \in Later(Y, e) : IdBefore(x, y)
      BY SplitIs
    <3>2. Raw(Prior(Y, e) \cup {e}, o, ttl) \in {n}
      BY <1>6
    <3>3. QED
      BY <2>2, <3>1, <3>2, SuffixStays
  <2>4. QED
    BY <2>3, SplitIs
<1>8. QED
  BY <1>5, <1>7

\* After its release the writer of e does not hold the task, whatever else there
\* is: the claim that the release did not end has run out.
LEMMA ReleaseHolds ==
    ASSUME NEW Y, NEW e, e \notin Y, Sortable(Y \cup {e}), Stamps(Y \cup {e}), OwnLast(Y, e),
           NEW o, NEW ttl \in Nat, e.kind = "open", NEW now \in Nat, e.ts <= now,
           NEW r, r = ReportAt(Raw(Y \cup {e}, o, ttl), ttl, now), r.status = "claimed"
    PROVE  r.claimed_by # e.writer
<1> DEFINE Good == Lapsed(o.assigned_to, e, ttl)
<1>1. PICK s : s = Raw(Prior(Y, e), o, ttl)
  OBVIOUS
<1>2. s \in Proper(o.assigned_to) /\ Stamps({e})
  BY <1>1, PriorIs DEF Stamps
<1>3. ApplyTaskUpdate(s, e, ttl) \in Good
  <2>1. PICK n : n = ApplyTaskUpdate(s, e, ttl)
    OBVIOUS
  <2>2. n \in Proper(o.assigned_to)
    BY <1>2, <2>1, ApplyIs
  <2>3. CASE s.status = "claimed" /\ s.claimed_by = e.writer /\ ~PastTtl(s, e.ts, ttl)
    <3>1. n.status = "open"
      BY <1>2, <2>1, <2>3, ApplyIs
    <3>2. QED
      BY <2>1, <2>2, <3>1 DEF Lapsed
  <2>4. CASE ~(s.status = "claimed" /\ s.claimed_by = e.writer /\ ~PastTtl(s, e.ts, ttl))
    <3>1. n = s
      BY <2>1, <2>4 DEF ApplyTaskUpdate, ApplyRelease
    <3>2. QED
      BY <2>1, <2>2, <2>4, <3>1 DEF Lapsed
  <2>5. QED
    BY <2>3, <2>4
<1>4. \A x \in Good : \A g \in Later(Y, e) : ApplyTaskUpdate(x, g, ttl) \in Good
  BY LapsedStays
<1>5. Raw(Y \cup {e}, o, ttl) \in Good
  <2> HIDE DEF Good
  <2>1. Raw(Prior(Y, e) \cup {e}, o, ttl) \in Good
    BY <1>1, <1>3, WithPrior
  <2>2. /\ Sortable((Prior(Y, e) \cup {e}) \cup Later(Y, e))
        /\ \A x \in Prior(Y, e) \cup {e} : \A y \in Later(Y, e) : IdBefore(x, y)
    BY SplitIs
  <2>3. Raw((Prior(Y, e) \cup {e}) \cup Later(Y, e), o, ttl) \in Good
    BY <1>4, <2>1, <2>2, SuffixStays
  <2>4. QED
    BY <2>3, SplitIs
<1>6. PICK z \in Good : z = Raw(Y \cup {e}, o, ttl)
  BY <1>5
<1>7. SUFFICES ASSUME r.claimed_by = e.writer PROVE FALSE
  OBVIOUS
<1>8. r = z /\ ~PastTtl(z, now, ttl)
  BY <1>6, <1>7, <1>2, NoneIs DEF ReportAt, Stamps, Proper, Lapsed
<1>9. PastTtl(z, e.ts, ttl) /\ z.claimed_at \in Nat
  BY <1>6, <1>7, <1>8, ProperIs DEF Lapsed
<1>10. e.ts \in Nat
  BY <1>2 DEF Stamps
<1>11. QED
  BY <1>8, <1>9, <1>10 DEF PastTtl

LEMMA OpenIsInitial ==
    ASSUME NEW o, NEW s \in Proper(o.assigned_to), s.status = "open"
    PROVE  s = InitialTaskState(o)
<1>1. s = [status |-> s.status, claimed_by |-> s.claimed_by, claimed_at |-> s.claimed_at,
           assigned_to |-> s.assigned_to, result |-> s.result, expired |-> s.expired]
  BY DEF Proper
<1>2. /\ s.claimed_by = None /\ s.claimed_at = None /\ s.assigned_to = o.assigned_to
      /\ s.result = None /\ s.expired = FALSE
  BY DEF Proper
<1>3. QED
  BY <1>1, <1>2 DEF InitialTaskState

\* A release by the holder leaves the task to the entries that sort after it.
LEMMA ReleaseOpens ==
    ASSUME NEW Y, NEW e, e \notin Y, Sortable(Y \cup {e}), Stamps(Y \cup {e}), OwnLast(Y, e),
           \A g \in Y : g.ts <= e.ts, NEW o, NEW ttl \in Nat, e.kind = "open",
           NEW r, r = ReportAt(Raw(Y, o, ttl), ttl, e.ts), r.status = "claimed", r.claimed_by = e.writer
    PROVE  Raw(Y \cup {e}, o, ttl) = Raw(Later(Y, e), o, ttl)
<1>1. PICK s : s = Raw(Prior(Y, e), o, ttl)
  OBVIOUS
<1>2. s \in Proper(o.assigned_to) /\ Stamps({e})
  BY <1>1, PriorIs DEF Stamps
<1>3. s.status = "claimed" /\ s.claimed_by = e.writer /\ ~PastTtl(s, e.ts, ttl)
  BY <1>1, HolderBefore
<1>4. PICK n : n = ApplyTaskUpdate(s, e, ttl)
  OBVIOUS
<1>5. n \in Proper(o.assigned_to) /\ n.status = "open"
  BY <1>2, <1>3, <1>4, ApplyIs
<1>6. Raw(Prior(Y, e) \cup {e}, o, ttl) = InitialTaskState(o)
  BY <1>1, <1>4, <1>5, WithPrior, OpenIsInitial
<1>7. Raw((Prior(Y, e) \cup {e}) \cup Later(Y, e), o, ttl) = Raw(Later(Y, e), o, ttl)
  <2>1. /\ Sortable((Prior(Y, e) \cup {e}) \cup Later(Y, e))
        /\ \A x \in Prior(Y, e) \cup {e} : \A y \in Later(Y, e) : IdBefore(x, y)
    BY SplitIs
  <2>2. QED
    BY <1>6, <2>1, SuffixFollows
<1>8. QED
  BY <1>7, SplitIs

---------------------------------------------------------------------------
(* The board.  A release hands the task to the entries that sort           *)
(* after it, those of higher writers, so what these make of it alone is    *)
(* part of the invariant: an open task, unless one of them holds it.       *)

Above(Y, w) == {g \in Y : w < g.writer}

\* What the entries of the writers above w report.
Seen(Y, w, o, ttl, now) == ReportAt(Raw(Above(Y, w), o, ttl), ttl, now)

\* h holds the task since t: with the entries of the writers above w alone it does
\* if it is one of them, and otherwise nobody does.
HeldBy(Y, h, t, o, ttl, now) ==
    \A w \in Nat :
        LET s == Seen(Y, w, o, ttl, now)
        IN  IF w < h THEN s.status = "claimed" /\ s.claimed_by = h /\ s.claimed_at = t
            ELSE s.status = "open"

\* Nobody holds the task if h is 0.
OnBoard(Y, o, ttl, now) ==
    \/ Raw(Y, o, ttl).status = "complete"
    \/ \E h \in Nat : \E t \in Nat : HeldBy(Y, h, t, o, ttl, now)

\* An entry to come of a task's updates.
Comes(Y, e) ==
    /\ e \notin Y /\ Sortable(Y \cup {e}) /\ Stamps(Y \cup {e}) /\ OwnLast(Y, e)
    /\ \A g \in Y : g.ts <= e.ts
    /\ \A g \in Y \cup {e} : 0 < g.writer

LEMMA AboveIs ==
    ASSUME NEW Y, NEW e, Comes(Y, e)
    PROVE  /\ Above(Y, 0) = Y /\ Above(Y \cup {e}, 0) = Y \cup {e}
           /\ Later(Y, e) = Above(Y, e.writer)
           /\ \A w \in Nat : Sortable(Above(Y, w)) /\ Stamps(Above(Y, w))
           /\ \A w \in Nat : ~(w < e.writer) => Above(Y \cup {e}, w) = Above(Y, w)
           /\ \A w \in Nat : w < e.writer =>
                 /\ Above(Y \cup {e}, w) = Above(Y, w) \cup {e}
                 /\ Comes(Above(Y, w), e)
                 /\ Later(Above(Y, w), e) = Above(Y, e.writer)
<1>1. \A g \in Y \cup {e} : g.writer \in Nat
  BY DEF Comes, Stamps
<1>2. Above(Y, 0) = Y /\ Above(Y \cup {e}, 0) = Y \cup {e}
  BY DEF Above, Comes
<1>3. \A g \in Y : IdBefore(e, g) <=> e.writer < g.writer
  <2>1. SUFFICES ASSUME NEW g \in Y PROVE IdBefore(e, g) <=> e.writer < g.writer
    OBVIOUS
  <2>2. IdBefore(g, e) => ~IdBefore(e, g)
    BY IdOrder DEF Comes
  <2>3. g.writer = e.writer => IdBefore(g, e)
    BY DEF Comes, OwnLast
  <2>4. QED
    BY <1>1, <2>2, <2>3 DEF IdBefore
<1>4. \A w \in Nat : Above(Y, w) \in SUBSET (Y \cup {e}) /\ Above(Y, w) \cup {e} \in SUBSET (Y \cup {e})
  BY DEF Above
<1>5. \A w \in Nat : Sortable(Above(Y, w)) /\ Stamps(Above(Y, w))
  BY <1>4, SortableParts DEF Comes, Stamps
<1>6. \A w \in Nat : Comes(Above(Y, w), e)
  <2>1. \A w \in Nat : Sortable(Above(Y, w) \cup {e})
    BY <1>4, SortableParts DEF Comes
  <2>2. QED
    BY <1>4, <2>1 DEF Comes, Stamps, OwnLast, Above
<1>7. \A w \in Nat : w < e.writer => Later(Above(Y, w), e) = Above(Y, e.writer)
  BY <1>1, <1>3 DEF Later, Above
<1>8. Later(Y, e) = Above(Y, e.writer)
  BY <1>3 DEF Later, Above
<1>9. \A w \in Nat : ~(w < e.writer) => Above(Y \cup {e}, w) = Above(Y, w)
  BY DEF Above
<1>10. \A w \in Nat : w < e.writer => Above(Y \cup {e}, w) = Above(Y, w) \cup {e}
  BY DEF Above
<1>11. QED
  BY <1>2, <1>5, <1>6, <1>7, <1>8, <1>9, <1>10

\* A claim of an open task puts its writer on the board.
LEMMA ClaimOnBoard ==
    ASSUME NEW Y, NEW e, Comes(Y, e), NEW o, NEW ttl \in Nat,
           OnBoard(Y, o, ttl, e.ts), NEW r, r = ReportAt(Raw(Y, o, ttl), ttl, e.ts),
           e.kind = "claimed", r.status = "open", o.assigned_to \in {None, e.writer}
    PROVE  /\ OnBoard(Y \cup {e}, o, ttl, e.ts)
           /\ ReportAt(Raw(Y \cup {e}, o, ttl), ttl, e.ts).status = "claimed"
           /\ ReportAt(Raw(Y \cup {e}, o, ttl), ttl, e.ts).claimed_by = e.writer
<1>0. /\ Above(Y, 0) = Y /\ Above(Y \cup {e}, 0) = Y \cup {e}
  BY AboveIs
<1>b. \A w \in Nat : ~(w < e.writer) => Above(Y \cup {e}, w) = Above(Y, w)
  BY DEF Above
<1>a. \A w \in Nat : w < e.writer =>
            /\ Above(Y \cup {e}, w) = Above(Y, w) \cup {e}
            /\ Comes(Above(Y, w), e)
            /\ Later(Above(Y, w), e) = Above(Y, e.writer)
  BY AboveIs
<1>1. e.writer \in Nat /\ e.ts \in Nat /\ 0 < e.writer
  BY DEF Comes, Stamps
<1>2. Raw(Y, o, ttl).status # "complete"
  BY DEF ReportAt, PastTtl
<1>3a. PICK h \in Nat : \E t \in Nat : HeldBy(Y, h, t, o, ttl, e.ts)
  BY <1>2 DEF OnBoard
<1>3. PICK t \in Nat : HeldBy(Y, h, t, o, ttl, e.ts)
  BY <1>3a
<1>4. Seen(Y, 0, o, ttl, e.ts) = r
  BY <1>0 DEF Seen
<1>5. h = 0
  <2>1. 0 < h => Seen(Y, 0, o, ttl, e.ts).status = "claimed"
    BY <1>3 DEF HeldBy
  <2>2. QED
    BY <1>4, <2>1
<1>6. \A w \in Nat : Seen(Y, w, o, ttl, e.ts).status = "open"
  BY <1>3, <1>5 DEF HeldBy
<1>7. ASSUME NEW w \in Nat, w < e.writer
      PROVE  /\ Seen(Y \cup {e}, w, o, ttl, e.ts).status = "claimed"
             /\ Seen(Y \cup {e}, w, o, ttl, e.ts).claimed_by = e.writer
             /\ Seen(Y \cup {e}, w, o, ttl, e.ts).claimed_at = e.ts
  <2>1. PICK A : A = Above(Y, w)
    OBVIOUS
  <2>2. Comes(A, e) /\ Above(Y \cup {e}, w) = A \cup {e}
    BY <1>7, <2>1, <1>a
  <2>3. ReportAt(Raw(A, o, ttl), ttl, e.ts).status = "open"
    BY <1>6, <2>1 DEF Seen
  <2>4. PICK z : z = Raw(A \cup {e}, o, ttl)
    OBVIOUS
  <2>5. z.status = "claimed" /\ z.claimed_by = e.writer /\ z.claimed_at = e.ts
    BY <2>2, <2>3, <2>4, ClaimHolds DEF Comes
  <2>6. ReportAt(z, ttl, e.ts) = z
    BY <1>1, <2>5 DEF ReportAt, PastTtl
  <2>7. QED
    BY <2>2, <2>4, <2>5, <2>6 DEF Seen
<1>8. \A w \in Nat : ~(w < e.writer) => Seen(Y \cup {e}, w, o, ttl, e.ts).status = "open"
  BY <1>6, <1>b DEF Seen
<1>9. HeldBy(Y \cup {e}, e.writer, e.ts, o, ttl, e.ts)
  BY <1>7, <1>8 DEF HeldBy
<1>10. Seen(Y \cup {e}, 0, o, ttl, e.ts) = ReportAt(Raw(Y \cup {e}, o, ttl), ttl, e.ts)
  BY <1>0 DEF Seen
<1>11. QED
  BY <1>1, <1>7, <1>9, <1>10 DEF OnBoard

\* A release by the holder takes it off the board.
LEMMA ReleaseOnBoard ==
    ASSUME NEW Y, NEW e, Comes(Y, e), NEW o, NEW ttl \in Nat,
           OnBoard(Y, o, ttl, e.ts), NEW r, r = ReportAt(Raw(Y, o, ttl), ttl, e.ts),
           e.kind = "open", r.status = "claimed", r.claimed_by = e.writer
    PROVE  /\ OnBoard(Y \cup {e}, o, ttl, e.ts)
           /\ ReportAt(Raw(Y \cup {e}, o, ttl), ttl, e.ts).status = "open"
<1>0. /\ Above(Y, 0) = Y /\ Above(Y \cup {e}, 0) = Y \cup {e}
      /\ \A w \in Nat : ~(w < e.writer) => Above(Y \cup {e}, w) = Above(Y, w)
      /\ \A w \in Nat : w < e.writer =>
            /\ Above(Y \cup {e}, w) = Above(Y, w) \cup {e}
            /\ Comes(Above(Y, w), e)
            /\ Later(Above(Y, w), e) = Above(Y, e.writer)
  BY AboveIs
<1>1. e.writer \in Nat /\ e.ts \in Nat /\ 0 < e.writer
  BY DEF Comes, Stamps
<1>2. Raw(Y, o, ttl).status # "complete"
  BY DEF ReportAt, PastTtl
<1>3a. PICK h \in Nat : \E t \in Nat : HeldBy(Y, h, t, o, ttl, e.ts)
  BY <1>2 DEF OnBoard
<1>3. PICK t \in Nat : HeldBy(Y, h, t, o, ttl, e.ts)
  BY <1>3a
<1>4. Seen(Y, 0, o, ttl, e.ts) = r
  BY <1>0 DEF Seen
<1>5. h = e.writer
  <2>1. /\ 0 < h => Seen(Y, 0, o, ttl, e.ts).claimed_by = h
        /\ ~(0 < h) => Seen(Y, 0, o, ttl, e.ts).status = "open"
    BY <1>3 DEF HeldBy
  <2>2. QED
    BY <1>4, <2>1
<1>6. /\ \A w \in Nat : ~(w < e.writer) => Seen(Y, w, o, ttl, e.ts).status = "open"
      /\ \A w \in Nat : w < e.writer =>
            /\ Seen(Y, w, o, ttl, e.ts).status = "claimed"
            /\ Seen(Y, w, o, ttl, e.ts).claimed_by = e.writer
  BY <1>3, <1>5 DEF HeldBy
<1>7. ASSUME NEW w \in Nat, w < e.writer PROVE Seen(Y \cup {e}, w, o, ttl, e.ts).status = "open"
  <2>1. PICK A : A = Above(Y, w)
    OBVIOUS
  <2>2. Comes(A, e) /\ Above(Y \cup {e}, w) = A \cup {e} /\ Later(A, e) = Above(Y, e.writer)
    BY <1>7, <2>1, <1>0
  <2>3. PICK q : q = ReportAt(Raw(A, o, ttl), ttl, e.ts)
    OBVIOUS
  <2>4. q.status = "claimed" /\ q.claimed_by = e.writer
    BY <1>6, <1>7, <2>1, <2>3 DEF Seen
  <2>5. Raw(A \cup {e}, o, ttl) = Raw(Later(A, e), o, ttl)
    BY <2>2, <2>3, <2>4, ReleaseOpens DEF Comes
  <2>6. Seen(Y \cup {e}, w, o, ttl, e.ts) = Seen(Y, e.writer, o, ttl, e.ts)
    BY <2>2, <2>5 DEF Seen
  <2>7. QED
    BY <1>1, <1>6, <2>6
<1>8. \A w \in Nat : ~(w < e.writer) => Seen(Y \cup {e}, w, o, ttl, e.ts).status = "open"
  BY <1>6, <1>0 DEF Seen
<1>9. HeldBy(Y \cup {e}, 0, 0, o, ttl, e.ts)
  BY <1>7, <1>8 DEF HeldBy
<1>10. Seen(Y \cup {e}, 0, o, ttl, e.ts) = ReportAt(Raw(Y \cup {e}, o, ttl), ttl, e.ts)
  BY <1>0 DEF Seen
<1>11. QED
  BY <1>1, <1>7, <1>9, <1>10 DEF OnBoard

\* A completion is for good.
LEMMA CompleteOnBoard ==
    ASSUME NEW Y, NEW e, Comes(Y, e), NEW o, NEW ttl \in Nat,
           NEW r, r = ReportAt(Raw(Y, o, ttl), ttl, e.ts), e.kind = "complete",
           r.status = "open" \/ (r.status = "claimed" /\ r.claimed_by = e.writer)
    PROVE  /\ OnBoard(Y \cup {e}, o, ttl, e.ts)
           /\ ReportAt(Raw(Y \cup {e}, o, ttl), ttl, e.ts).status = "complete"
           /\ ReportAt(Raw(Y \cup {e}, o, ttl), ttl, e.ts).claimed_by = r.claimed_by
<1>1. PICK z : z = Raw(Y \cup {e}, o, ttl)
  OBVIOUS
<1>2. z.status = "complete" /\ z.claimed_by = r.claimed_by
  BY <1>1, CompleteHolds DEF Comes
<1>3. ReportAt(z, ttl, e.ts) = z
  BY <1>2 DEF ReportAt, PastTtl
<1>4. QED
  BY <1>1, <1>2, <1>3 DEF OnBoard

\* As time passes a claim runs out, for whatever entries report it.
LEMMA ReportLater ==
    ASSUME NEW a, NEW s \in Proper(a), NEW ttl \in Nat, NEW now \in Nat, NEW soon \in Nat, now <= soon,
           NEW r, r = ReportAt(s, ttl, now), NEW q, q = ReportAt(s, ttl, soon)
    PROVE  /\ r.status = "open" => q.status = "open"
           /\ r.status = "complete" => q = r
           /\ r.status = "claimed" =>
                 IF soon - r.claimed_at > ttl THEN q.status = "open" ELSE q = r
           /\ q.status = "open" => q.claimed_by = None
           /\ r.status = "open" => r.claimed_by = None
           /\ r.status \in Statuses
           /\ s.status = "complete" => r = s
<1>1. /\ s.status \in Statuses
      /\ s.status = "claimed" => s.claimed_at \in Nat /\ s.claimed_at # None
  BY ProperIs
<1>2. /\ PastTtl(s, now, ttl) => r.status = "open"
      /\ ~PastTtl(s, now, ttl) => r = s
      /\ PastTtl(s, soon, ttl) => q.status = "open"
      /\ ~PastTtl(s, soon, ttl) => q = s
      /\ q.status = "open" => q.claimed_by = None
      /\ r.status = "open" => r.claimed_by = None
  BY ReportIs
<1>3. /\ PastTtl(s, now, ttl) <=> s.status = "claimed" /\ now - s.claimed_at > ttl
      /\ PastTtl(s, soon, ttl) <=> s.status = "claimed" /\ soon - s.claimed_at > ttl
  BY <1>1 DEF PastTtl
<1>4. PastTtl(s, now, ttl) => PastTtl(s, soon, ttl)
  BY <1>1, <1>3
<1>5. QED
  BY <1>1, <1>2, <1>3, <1>4 DEF Statuses

LEMMA TimeOnBoard ==
    ASSUME NEW Y, Sortable(Y), Stamps(Y), NEW o, NEW ttl \in Nat,
           NEW now \in Nat, NEW soon \in Nat, now <= soon, OnBoard(Y, o, ttl, now)
    PROVE  OnBoard(Y, o, ttl, soon)
<1>1. CASE Raw(Y, o, ttl).status = "complete"
  BY <1>1 DEF OnBoard
<1>2. CASE \E h \in Nat : \E t \in Nat : HeldBy(Y, h, t, o, ttl, now)
  <2>1a. PICK h \in Nat : \E t \in Nat : HeldBy(Y, h, t, o, ttl, now)
    BY <1>2
  <2>1. PICK t \in Nat : HeldBy(Y, h, t, o, ttl, now)
    BY <2>1a
  <2>2. ASSUME NEW w \in Nat
        PROVE  /\ w < h => IF soon - t > ttl THEN Seen(Y, w, o, ttl, soon).status = "open"
                           ELSE Seen(Y, w, o, ttl, soon) = Seen(Y, w, o, ttl, now)
               /\ ~(w < h) => Seen(Y, w, o, ttl, soon).status = "open"
    <3>1. PICK s : s = Raw(Above(Y, w), o, ttl)
      OBVIOUS
    <3>2. s \in Proper(o.assigned_to)
      <4>1. Above(Y, w) \in SUBSET Y
        BY DEF Above
      <4>2. Sortable(Above(Y, w)) /\ Stamps(Above(Y, w))
        BY <4>1, SortableParts DEF Stamps
      <4>3. QED
        BY <3>1, <4>2, RawProper
    <3>3. PICK r, q : r = Seen(Y, w, o, ttl, now) /\ q = Seen(Y, w, o, ttl, soon)
      OBVIOUS
    <3>4. r = ReportAt(s, ttl, now) /\ q = ReportAt(s, ttl, soon)
      BY <3>1, <3>3 DEF Seen
    <3>5. IF w < h THEN r.status = "claimed" /\ r.claimed_at = t ELSE r.status = "open"
      BY <2>1, <3>3 DEF HeldBy
    <3>6. /\ r.status = "open" => q.status = "open"
          /\ r.status = "claimed" => IF soon - r.claimed_at > ttl THEN q.status = "open" ELSE q = r
      BY <3>2, <3>4, ReportLater
    <3>7. QED
      BY <3>3, <3>5, <3>6
  <2>3. CASE soon - t > ttl
    <3>1. HeldBy(Y, 0, 0, o, ttl, soon)
      BY <2>2, <2>3 DEF HeldBy
    <3>2. QED
      BY <3>1 DEF OnBoard
  <2>4. CASE ~(soon - t > ttl)
    <3>1. HeldBy(Y, h, t, o, ttl, soon)
      BY <2>1, <2>2, <2>4 DEF HeldBy
    <3>2. QED
      BY <3>1 DEF OnBoard
  <2>5. QED
    BY <2>3, <2>4
<1>3. QED
  BY <1>1, <1>2 DEF OnBoard

---------------------------------------------------------------------------
(* The invariant.                                                          *)

Closed(v) == \A e \in EntriesIn(v) : \A w \in Peers : e.deps[w] <= v[w]

Types ==
    /\ clock \in Nat
    /\ log \in [Peers -> Seq(Entry)]
    /\ view \in [Peers -> [Peers -> Nat]]
    /\ \A p, w \in Peers : view[p][w] <= Len(log[w])
    /\ request \in [Clients -> Request]
    /\ answers \subseteq AnswerRecord

\* Entry i of p's core: what it is, what it was appended after, and what its
\* handler had read when its check let it pass.
Stamped(e, p, i) ==
    /\ e.writer = p /\ e.seq = SeqNo(i) /\ e.ts <= clock
    /\ e.kind = "create" <=> p = Creator /\ i = 1
    /\ e.deps[p] < i
    /\ \A w \in Peers : e.saw[w] <= e.deps[w] /\ e.deps[w] <= Len(log[w])
    /\ Closed(e.saw)
    /\ \A f \in EntriesIn(e.saw) : f.ts <= e.ts
    /\ e.kind # "create" => Passes(e.kind, p, ReduceTaskHistory(EntriesIn(e.saw), ClaimTtl, e.ts))

Cores ==
    /\ Len(log[Creator]) >= 1
    /\ \A p \in Peers : Len(log[p]) <= MaxEntries
    /\ \A p \in Peers : \A i \in 1..Len(log[p]) : Stamped(log[p][i], p, i)

Views == \A p \in Peers : Closed(view[p])

Appended(op, p, seq) ==
    \E i \in 1..Len(log[p]) : seq = SeqNo(i) /\ log[p][i].kind = op

Records ==
    /\ \A c \in Clients : request[c].at = "waiting" => Appended(request[c].op, HomeOf[c], request[c].seq)
    /\ \A a \in answers : Appended(a.op, a.peer, a.seq)

IInv == Types /\ Cores /\ Views /\ Records

LEMMA EntriesAre ==
    \A v : \A x : x \in EntriesIn(v) <=> \E w \in Peers : \E i \in 1..v[w] : x = log[w][i]
  BY DEF EntriesIn

\* The cores keep what they hold.
Grows ==
    \A w \in Peers : /\ Len(log[w]) <= Len(log'[w])
                     /\ \A i \in 1..Len(log[w]) : log'[w][i] = log[w][i]

LEMMA EntriesStay ==
    ASSUME Types, Types', Grows, NEW v \in [Peers -> Nat], \A w \in Peers : v[w] <= Len(log[w])
    PROVE  EntriesIn(v)' = EntriesIn(v)
<1>1. \A w \in Peers : \A i \in 1..v[w] : log'[w][i] = log[w][i]
  <2>1. \A w \in Peers : v[w] \in Nat /\ Len(log[w]) \in Nat
    BY DEF Types
  <2>2. QED
    BY <2>1 DEF Grows
<1>2. \A x : x \in EntriesIn(v)' <=> \E w \in Peers : \E i \in 1..v[w] : x = log'[w][i]
  BY DEF EntriesIn
<1>3. \A x : x \in EntriesIn(v)' <=> x \in EntriesIn(v)
  BY <1>1, <1>2, EntriesAre
<1>4. QED
  BY <1>3

LEMMA EntryIs ==
    ASSUME NEW e \in Entry
    PROVE  /\ e.writer \in Peers /\ e.writer \in Nat /\ e.seq \in Nat /\ e.ts \in Nat
           /\ e.deps \in [Peers -> Nat] /\ e.saw \in [Peers -> Nat]
           /\ \A w \in Peers : e.deps[w] \in Nat /\ e.saw[w] \in Nat
  BY TasksAssumption DEF Entry

\* An entry of a view is an entry of a core.
LEMMA OfCores ==
    ASSUME Types, NEW v \in [Peers -> Nat], \A w \in Peers : v[w] <= Len(log[w]), NEW x \in EntriesIn(v)
    PROVE  \E w \in Peers : \E i \in 1..Len(log[w]) : i <= v[w] /\ x = log[w][i] /\ x \in Entry
<1>1. PICK w \in Peers : \E i \in 1..v[w] : x = log[w][i]
  BY EntriesAre
<1>i. PICK i \in 1..v[w] : x = log[w][i]
  BY <1>1
<1>2. log[w] \in Seq(Entry) /\ v[w] \in Nat /\ v[w] <= Len(log[w])
  BY DEF Types
<1>3. \A j \in 1..Len(log[w]) : log[w][j] \in Entry
  BY <1>2
<1>4. i \in 1..Len(log[w]) /\ i <= v[w]
  BY <1>2
<1>5. QED
  BY <1>i, <1>3, <1>4

LEMMA StampedStays ==
    ASSUME Types, Types', Grows, clock <= clock',
           NEW e \in Entry, NEW p \in Peers, NEW i \in Nat, Stamped(e, p, i)
    PROVE  Stamped(e, p, i)'
<1>1. \A w \in Peers : e.saw[w] \in Nat /\ e.deps[w] \in Nat /\ Len(log[w]) \in Nat /\ Len(log'[w]) \in Nat
  BY EntryIs DEF Types
<1>2. \A w \in Peers : e.saw[w] <= e.deps[w] /\ e.deps[w] <= Len(log[w]) /\ Len(log[w]) <= Len(log'[w])
  BY DEF Stamped, Grows
<1>3. EntriesIn(e.saw)' = EntriesIn(e.saw)
  <2>1. e.saw \in [Peers -> Nat] /\ \A w \in Peers : e.saw[w] <= Len(log[w])
    BY <1>1, <1>2, EntryIs
  <2>2. QED
    BY <2>1, EntriesStay
<1>4. Closed(e.saw)'
  BY <1>3 DEF Stamped, Closed
<1>5. e.ts <= clock'
  BY EntryIs DEF Stamped, Types
<1>6. \A w \in Peers : e.saw[w] <= e.deps[w] /\ e.deps[w] <= Len(log'[w])
  BY <1>1, <1>2
<1>7. (e.kind # "create" => Passes(e.kind, p, ReduceTaskHistory(EntriesIn(e.saw), ClaimTtl, e.ts)))'
  BY <1>3 DEF Stamped
<1>8. QED
  BY <1>3, <1>4, <1>5, <1>6, <1>7 DEF Stamped

LEMMA EntriesFinite ==
    ASSUME Types, NEW v \in [Peers -> Nat]
    PROVE  IsFiniteSet(EntriesIn(v))
<1> DEFINE Of(w) == {log[w][i] : i \in 1..v[w]}
           F == [w \in Peers |-> Of(w)]
<1>1. \A w \in Peers : IsFiniteSet(Of(w))
  <2>1. SUFFICES ASSUME NEW w \in Peers PROVE IsFiniteSet(Of(w))
    OBVIOUS
  <2>2. IsFiniteSet(1..v[w])
    BY FS_Interval
  <2> DEFINE f == [i \in 1..v[w] |-> log[w][i]]
             T == Of(w)
  <2>3. f \in Surjection(1..v[w], T)
    BY DEF Surjection
  <2> HIDE DEF f, T
  <2>4. IsFiniteSet(T)
    BY <2>2, <2>3, FS_Surjection
  <2>5. QED
    BY <2>4 DEF T
<1>2. IsFiniteSet({Of(w) : w \in Peers})
  <2> DEFINE T == {Of(w) : w \in Peers}
  <2>1. F \in Surjection(Peers, T)
    <3> HIDE DEF Of
    <3>1. QED
      BY DEF Surjection
  <2>2. IsFiniteSet(Peers)
    BY TasksAssumption
  <2> HIDE DEF F, T
  <2>3. IsFiniteSet(T)
    BY <2>1, <2>2, FS_Surjection
  <2>4. QED
    BY <2>3 DEF T
<1>3. \A T \in {Of(w) : w \in Peers} : IsFiniteSet(T)
  BY <1>1
<1>4. IsFiniteSet(UNION {Of(w) : w \in Peers})
  <2> HIDE DEF Of
  <2>1. QED
    BY <1>2, <1>3, FS_UNION
<1>5. QED
  BY <1>4 DEF EntriesIn

LEMMA EntryOfCore ==
    ASSUME Types, Cores, NEW p \in Peers, NEW i \in 1..Len(log[p])
    PROVE  /\ log[p][i] \in Entry /\ Stamped(log[p][i], p, i)
           /\ log[p][i].writer = p /\ log[p][i].seq = SeqNo(i)
<1>1. log[p] \in Seq(Entry)
  BY DEF Types
<1>2. log[p][i] \in Entry
  BY <1>1
<1>3. Stamped(log[p][i], p, i)
  BY DEF Cores
<1>4. QED
  BY <1>2, <1>3 DEF Stamped

\* The bound on the entries bounds every core.
LEMMA CoreIsSmall ==
    ASSUME Types, Cores, NEW p \in Peers
    PROVE  Len(log[p]) <= Cardinality(AllEntries) /\ Cardinality(AllEntries) \in Nat
<1> DEFINE n == Len(log[p])
           f == [i \in 1..n |-> log[p][i]]
           v == [w \in Peers |-> Len(log[w])]
<1>1. n \in Nat /\ v \in [Peers -> Nat]
  BY DEF Types
<1>2. IsFiniteSet(AllEntries)
  <2>1. AllEntries = EntriesIn(v)
    BY DEF AllEntries
  <2> HIDE DEF v
  <2>2. QED
    BY <1>1, <2>1, EntriesFinite
<1>3. f \in Injection(1..n, AllEntries)
  <2>1. \A i \in 1..n : log[p][i] \in AllEntries
    <3>1. \A x : x \in AllEntries <=> \E w \in Peers : \E i \in 1..Len(log[w]) : x = log[w][i]
      BY DEF AllEntries, EntriesIn
    <3>2. QED
      BY <3>1
  <2>2. \A i, j \in 1..n : log[p][i] = log[p][j] => i = j
    <3>1. \A i \in 1..n : log[p][i].seq = BaseSeq + i
      BY EntryOfCore DEF SeqNo
    <3>2. BaseSeq \in Nat
      BY TasksAssumption
    <3>3. SUFFICES ASSUME NEW i \in 1..n, NEW j \in 1..n, log[p][i] = log[p][j] PROVE i = j
      OBVIOUS
    <3>4. BaseSeq + i = BaseSeq + j
      BY <3>1, <3>3
    <3>5. QED
      BY <1>1, <3>2, <3>4
  <2>3. QED
    BY <2>1, <2>2 DEF Injection, IsInjective
<1>4. Cardinality(1..n) <= Cardinality(AllEntries)
  <2> HIDE DEF f, n
  <2>1. QED
    BY <1>2, <1>3, FS_Injection
<1>5. Cardinality(1..n) = n
  <2> HIDE DEF n
  <2>1. QED
    BY <1>1, FS_Interval
<1>6. QED
  BY <1>2, <1>4, <1>5, FS_CardinalityType

---------------------------------------------------------------------------
(* Ids that sort as numbers.                                               *)

\* All the blocks of a core that are about the task have numbers of as many
\* digits: with a tenth block after a ninth, ids do not sort in the order of the
\* core (the run tasks_tenth_entry).
SameWidth == \E d \in Nat : \A i \in 1..(MaxEntries + 1) : Width[SeqNo(i)] = d

LEMMA NumeralsSort ==
    ASSUME SameWidth, NEW i \in 1..(MaxEntries + 1), NEW j \in 1..(MaxEntries + 1)
    PROVE  NumeralBefore(SeqNo(i), SeqNo(j)) <=> SeqNo(i) < SeqNo(j)
<1>1. PICK d \in Nat : Width[SeqNo(i)] = d /\ Width[SeqNo(j)] = d
  BY DEF SameWidth
<1>2. Width[SeqNo(j)] - Width[SeqNo(i)] = 0
  BY <1>1
<1>3. PICK s, m, n : s = Width[n] - Width[m] /\ s = 0 /\ m = SeqNo(i) /\ n = SeqNo(j)
  BY <1>2
<1>4. NumeralBefore(m, n) = CASE s = 0 -> m < n
                              [] s > 0 -> m <= n \div 10^s
                              [] s < 0 -> m \div 10^(-s) < n
  BY <1>3, Zenon DEF NumeralBefore
<1>5. ~(s > 0) /\ ~(s < 0)
  BY <1>3
<1>6. NumeralBefore(m, n) = (m < n)
  BY <1>3, <1>4, <1>5, Zenon
<1>7. QED
  BY <1>3, <1>6, Zenon

Placed(e) == e.writer \in Peers /\ \E i \in 1..(MaxEntries + 1) : e.seq = SeqNo(i)

LEMMA PlacedSort ==
    ASSUME SameWidth, NEW S, IsFiniteSet(S), \A e \in S : Placed(e),
           \A e, f \in S : e # f => e.writer # f.writer \/ e.seq # f.seq
    PROVE  Sortable(S)
<1>1. \A e \in S : e.writer \in Nat /\ e.seq \in Nat
  <2>1. SUFFICES ASSUME NEW e \in S PROVE e.writer \in Nat /\ e.seq \in Nat
    OBVIOUS
  <2>2. PICK i \in 1..(MaxEntries + 1) : e.seq = BaseSeq + i
    BY DEF Placed, SeqNo
  <2>3. BaseSeq \in Nat /\ i \in Nat
    BY TasksAssumption
  <2>4. e.seq \in Nat
    BY <2>2, <2>3
  <2>5. e.writer \in Peers
    BY DEF Placed
  <2>6. QED
    BY <2>4, <2>5, TasksAssumption
<1>2. \A e, f \in S : NumeralBefore(e.seq, f.seq) <=> e.seq < f.seq
  <2>1. SUFFICES ASSUME NEW e \in S, NEW f \in S PROVE NumeralBefore(e.seq, f.seq) <=> e.seq < f.seq
    OBVIOUS
  <2>2. PICK i \in 1..(MaxEntries + 1) : e.seq = SeqNo(i)
    BY DEF Placed
  <2>3. PICK j \in 1..(MaxEntries + 1) : f.seq = SeqNo(j)
    BY DEF Placed
  <2>4. QED
    BY <2>2, <2>3, NumeralsSort
<1>3. QED
  BY <1>1, <1>2 DEF Sortable

\* What a view holds, with an entry to come of p or without.
LEMMA ViewSorts ==
    ASSUME SameWidth, Types, Cores, NEW v \in [Peers -> Nat], \A w \in Peers : v[w] <= Len(log[w]),
           NEW E, \A x \in E : x \in EntriesIn(v) \/ \E p \in Peers : x.writer = p /\ x.seq = SeqNo(Len(log[p]) + 1),
           \A x, y \in E : x \notin EntriesIn(v) /\ y \notin EntriesIn(v) => x = y, IsFiniteSet(E)
    PROVE  Sortable(E)
<1>1. \A x \in EntriesIn(v) : \E w \in Peers : \E i \in 1..Len(log[w]) : x = log[w][i] /\ x.writer = w /\ x.seq = SeqNo(i)
  BY OfCores, EntryOfCore
<1>2. \A w \in Peers : Len(log[w]) \in Nat /\ Len(log[w]) <= MaxEntries /\ MaxEntries \in Nat
  BY TasksAssumption DEF Types, Cores
<1>3. \A x \in E : Placed(x)
  BY <1>1, <1>2 DEF Placed
<1>4. \A x, y \in E : x # y => x.writer # y.writer \/ x.seq # y.seq
  <2>1. SUFFICES ASSUME NEW x \in E, NEW y \in E, x.writer = y.writer, x.seq = y.seq PROVE x = y
    OBVIOUS
  <2>2. \A i, j \in Nat : SeqNo(i) = SeqNo(j) => i = j
    BY TasksAssumption DEF SeqNo
  <2>3. CASE x \in EntriesIn(v) /\ y \in EntriesIn(v)
    BY <1>1, <1>2, <2>1, <2>2, <2>3
  <2>4. CASE x \in EntriesIn(v) /\ y \notin EntriesIn(v)
    BY <1>1, <1>2, <2>1, <2>2, <2>4
  <2>5. CASE x \notin EntriesIn(v) /\ y \in EntriesIn(v)
    BY <1>1, <1>2, <2>1, <2>2, <2>5
  <2>6. QED
    BY <2>3, <2>4, <2>5
<1>5. QED
  BY <1>3, <1>4, PlacedSort

---------------------------------------------------------------------------
(* Every step keeps the invariant.                                         *)

LEMMA CreateIs ==
    ASSUME NEW assignee \in Assignees
    PROVE  LET e == CreateEntry(assignee)
           IN  /\ e \in Entry /\ e.writer = Creator /\ e.seq = SeqNo(1) /\ e.kind = "create" /\ e.ts = 0
               /\ \A w \in Peers : e.deps[w] = 0 /\ e.saw[w] = 0
  BY TasksAssumption DEF CreateEntry, Entry, SeqNo

LEMMA InitHolds == Init => IInv
<1> SUFFICES ASSUME Init PROVE IInv
  OBVIOUS
<1>1. PICK assignee \in Assignees :
         log = [p \in Peers |-> IF p = Creator THEN <<CreateEntry(assignee)>> ELSE <<>>]
  BY DEF Init
<1>2. PICK e : e = CreateEntry(assignee)
  OBVIOUS
<1>3. /\ e \in Entry /\ e.writer = Creator /\ e.seq = SeqNo(1) /\ e.kind = "create" /\ e.ts = 0
      /\ \A w \in Peers : e.deps[w] = 0 /\ e.saw[w] = 0
  BY <1>2, CreateIs
<1>4. \A p \in Peers : log[p] = IF p = Creator THEN <<e>> ELSE <<>>
  BY <1>1, <1>2
<1>5. /\ log \in [Peers -> Seq(Entry)]
      /\ \A p \in Peers : Len(log[p]) = IF p = Creator THEN 1 ELSE 0
      /\ \A p \in Peers : \A i \in 1..Len(log[p]) : p = Creator /\ i = 1 /\ log[p][i] = e
  BY <1>1, <1>2, <1>3, <1>4
<1>6. \A p, w \in Peers : view[p][w] = IF {p, w} = {Creator} THEN 1 ELSE 0
  BY DEF Init
<1>7. Types
  <2>1. view \in [Peers -> [Peers -> Nat]]
    BY DEF Init
  <2>2. \A p, w \in Peers : view[p][w] <= Len(log[w])
    <3>1. SUFFICES ASSUME NEW p \in Peers, NEW w \in Peers PROVE view[p][w] <= Len(log[w])
      OBVIOUS
    <3>2. CASE {p, w} = {Creator}
      <4>1. w = Creator
        BY <3>2
      <4>2. Len(log[w]) = 1 /\ view[p][w] = 1
        BY <1>5, <1>6, <3>2, <4>1
      <4>3. QED
        BY <4>2
    <3>3. CASE {p, w} # {Creator}
      <4>1. view[p][w] = 0 /\ Len(log[w]) \in {0, 1}
        BY <1>5, <1>6, <3>3
      <4>2. QED
        BY <4>1
    <3>4. QED
      BY <3>2, <3>3
  <2>3. clock \in Nat /\ request \in [Clients -> Request] /\ answers \subseteq AnswerRecord
    BY DEF Init, Request
  <2>4. QED
    BY <1>5, <2>1, <2>2, <2>3 DEF Types
<1>8. EntriesIn(e.saw) = {}
  BY <1>3, EntriesAre
<1>9. Cores
  <2>1. Creator \in Peers /\ clock = 0 /\ MaxEntries \in Nat \ {0}
    BY TasksAssumption DEF Init
  <2>2. \A w \in Peers : Len(log[w]) \in Nat /\ e.deps[w] <= Len(log[w])
    BY <1>3, <1>7 DEF Types
  <2>3. Stamped(e, Creator, 1)
    BY <1>3, <1>8, <2>1, <2>2 DEF Stamped, Closed
  <2>4. Len(log[Creator]) >= 1 /\ \A p \in Peers : Len(log[p]) <= MaxEntries
    <3>1. \A p \in Peers : Len(log[p]) = 0 \/ Len(log[p]) = 1
      BY <1>5
    <3>2. Len(log[Creator]) = 1 /\ 0 <= MaxEntries /\ 1 <= MaxEntries
      BY <1>5, <2>1
    <3>3. Len(log[Creator]) >= 1
      BY <3>2
    <3>4. ASSUME NEW p \in Peers PROVE Len(log[p]) <= MaxEntries
      BY <3>1, <3>2
    <3>5. QED
      BY <3>3, <3>4
  <2>5. QED
    BY <1>5, <2>1, <2>3, <2>4 DEF Cores
<1>10. Views
  <2>1. SUFFICES ASSUME NEW p \in Peers, NEW x \in EntriesIn(view[p]), NEW w \in Peers PROVE x.deps[w] <= view[p][w]
    BY DEF Views, Closed
  <2>2. x = e
    <3>1. view[p] \in [Peers -> Nat] /\ \A u \in Peers : view[p][u] <= Len(log[u])
      BY <1>7 DEF Types
    <3>2. \E u \in Peers : \E i \in 1..Len(log[u]) : x = log[u][i]
      BY <1>7, <3>1, OfCores
    <3>3. QED
      BY <1>5, <3>2
  <2>3. QED
    BY <1>3, <1>7, <2>2 DEF Types
<1>11. Records
  BY DEF Init, Records, Idle
<1>12. QED
  BY <1>7, <1>9, <1>10, <1>11 DEF IInv

\* What no append changes.
LEMMA AppendedStays ==
    ASSUME Types, Types', Grows, NEW op, NEW p \in Peers, NEW seq, Appended(op, p, seq)
    PROVE  Appended(op, p, seq)'
<1>1. PICK i \in 1..Len(log[p]) : seq = SeqNo(i) /\ log[p][i].kind = op
  BY DEF Appended
<1>2. Len(log[p]) \in Nat /\ Len(log'[p]) \in Nat
  BY DEF Types
<1>3. i \in 1..Len(log'[p]) /\ log'[p][i] = log[p][i]
  BY <1>2 DEF Grows
<1>4. QED
  BY <1>1, <1>3 DEF Appended

LEMMA SameLog ==
    ASSUME UNCHANGED log
    PROVE  Grows /\ (Types => (\A w \in Peers : Len(log[w]) \in Nat)) /\ \A v : EntriesIn(v)' = EntriesIn(v)
  BY DEF Grows, Types, EntriesIn

\* Cores stay as they are while the clock may go on.
LEMMA CoresStay ==
    ASSUME Types, Types', Cores, UNCHANGED log, clock <= clock'
    PROVE  Cores'
<1>1. Grows
  BY SameLog
<1>2. \A p \in Peers : Len(log'[p]) <= MaxEntries
  BY DEF Cores
<1>3. \A p \in Peers : \A i \in 1..Len(log[p]) : \A e \in Entry : e = log[p][i] => Stamped(e, p, i)'
  <2>1. SUFFICES ASSUME NEW p \in Peers, NEW i \in 1..Len(log[p]), NEW e \in Entry, e = log[p][i]
                 PROVE  Stamped(e, p, i)'
    OBVIOUS
  <2>2. Stamped(e, p, i) /\ i \in Nat
    BY <2>1, EntryOfCore DEF Types
  <2>3. QED
    BY <1>1, <2>2, StampedStays
<1>4. \A p \in Peers : \A i \in 1..Len(log'[p]) : \A e \in Entry : e = log'[p][i] => Stamped(e, p, i)'
  BY <1>3
<1>5. \A p \in Peers : \A i \in 1..Len(log'[p]) : log'[p][i] \in Entry
  <2>1. \A p \in Peers : \A i \in 1..Len(log[p]) : log[p][i] \in Entry
    BY EntryOfCore
  <2>2. QED
    BY <2>1
<1>6. (\A p \in Peers : \A i \in 1..Len(log[p]) : Stamped(log[p][i], p, i))'
  BY <1>4, <1>5
<1>7. QED
  BY <1>2, <1>6 DEF Cores

LEMMA AppendKeeps ==
    ASSUME IInv, NEW c \in Clients, NEW op \in Ops, NEW saw \in [Peers -> Nat],
           \A w \in Peers : saw[w] <= view[HomeOf[c]][w], Closed(saw), AppendEntry(c, op, saw)
    PROVE  IInv'
<1>1. PICK p \in Peers : p = HomeOf[c]
  BY TasksAssumption
<1>2. PICK e : e = NewEntry(p, op, saw)
  OBVIOUS
<1>n. PICK n : n = Len(log[p]) + 1
  OBVIOUS
<1>3. /\ log' = [log EXCEPT ![p] = Append(@, e)]
      /\ request' = [request EXCEPT ![c] = [at |-> "waiting", op |-> op, seq |-> e.seq]]
      /\ UNCHANGED <<clock, view, answers>>
      /\ Cardinality(AllEntries) < MaxEntries
      /\ Passes(op, p, StateIn(saw))
  BY <1>1, <1>2 DEF AppendEntry
<1>4. Types /\ Cores /\ Views /\ Records
  BY DEF IInv
<1>5. /\ log[p] \in Seq(Entry) /\ \A w \in Peers : Len(log[w]) \in Nat
      /\ clock \in Nat /\ view[p] \in [Peers -> Nat] /\ \A w \in Peers : view[p][w] <= Len(log[w])
  BY <1>4 DEF Types
<1>6. /\ e.writer = p /\ e.seq = SeqNo(n) /\ e.kind = op /\ e.ts = clock /\ e.deps = view[p] /\ e.saw = saw
      /\ e \in Entry
  BY <1>2, <1>n, <1>5, TasksAssumption DEF NewEntry, Entry, SeqNo, Ops
<1>7. /\ log' \in [Peers -> Seq(Entry)]
      /\ Len(log'[p]) = n /\ log'[p][n] = e /\ \A i \in 1..Len(log[p]) : log'[p][i] = log[p][i]
      /\ \A w \in Peers \ {p} : log'[w] = log[w]
  BY <1>3, <1>4, <1>5, <1>6, <1>n DEF Types
<1>8. Grows /\ \A w \in Peers : Len(log'[w]) \in Nat
  <2>1. \A w \in Peers \ {p} : Len(log'[w]) = Len(log[w]) /\ \A i \in 1..Len(log[w]) : log'[w][i] = log[w][i]
    BY <1>7
  <2>2. Len(log[p]) <= Len(log'[p]) /\ Len(log'[p]) \in Nat
    BY <1>5, <1>7, <1>n
  <2>3. \A w \in Peers \ {p} : Len(log[w]) <= Len(log'[w]) /\ Len(log'[w]) \in Nat
    BY <1>5, <2>1
  <2>4. QED
    BY <1>7, <2>1, <2>2, <2>3 DEF Grows
<1>9. Types'
  <2>1. request' \in [Clients -> Request]
    <3>1. [at |-> "waiting", op |-> op, seq |-> e.seq] \in Request
      BY <1>6, EntryIs DEF Request
    <3>2. QED
      BY <1>3, <1>4, <3>1 DEF Types
  <2>2. \A q, w \in Peers : view'[q][w] <= Len(log'[w])
    <3>1. \A q, w \in Peers : view[q][w] \in Nat /\ view[q][w] <= Len(log[w])
      BY <1>4 DEF Types
    <3>2. QED
      BY <1>3, <1>5, <1>8, <3>1 DEF Grows
  <2>3. QED
    BY <1>3, <1>4, <1>7, <2>1, <2>2 DEF Types
<1>10. EntriesIn(saw)' = EntriesIn(saw)
  <2>1. \A w \in Peers : saw[w] <= Len(log[w])
    BY <1>1, <1>5
  <2>2. QED
    BY <1>4, <1>8, <1>9, <2>1, EntriesStay
<1>11. \A f \in EntriesIn(saw) : f.ts <= clock
  <2>1. SUFFICES ASSUME NEW f \in EntriesIn(saw) PROVE f.ts <= clock
    OBVIOUS
  <2>2. \A w \in Peers : saw[w] <= Len(log[w])
    BY <1>1, <1>5
  <2>3. PICK w \in Peers : \E i \in 1..Len(log[w]) : f = log[w][i]
    BY <1>4, <2>2, OfCores
  <2>4. PICK i \in 1..Len(log[w]) : f = log[w][i]
    BY <2>3
  <2>5. QED
    BY <1>4, <2>4, EntryOfCore DEF Stamped
<1>12. Stamped(e, p, n)'
  <2>1. e.writer = p /\ e.seq = SeqNo(n) /\ e.ts <= clock'
    BY <1>3, <1>5, <1>6
  <2>2. ~(p = Creator /\ n = 1) /\ e.kind # "create"
    <3>1. op # "create"
      BY DEF Ops
    <3>2. p = Creator => Len(log[p]) >= 1
      BY <1>4 DEF Cores
    <3>3. QED
      BY <1>5, <1>6, <1>n, <3>1, <3>2
  <2>3. e.deps[p] < n
    BY <1>5, <1>6, <1>n
  <2>4. \A w \in Peers : e.saw[w] <= e.deps[w] /\ e.deps[w] <= Len(log'[w])
    <3>1. \A w \in Peers : e.deps[w] <= Len(log[w]) /\ Len(log[w]) <= Len(log'[w]) /\ e.deps[w] \in Nat
      BY <1>5, <1>6, <1>8 DEF Grows
    <3>2. QED
      BY <1>1, <1>5, <1>6, <1>8, <3>1
  <2>5. Closed(e.saw)'
    BY <1>6, <1>10 DEF Closed
  <2>6. (\A f \in EntriesIn(e.saw) : f.ts <= e.ts)'
    BY <1>6, <1>10, <1>11
  <2>7. Passes(e.kind, p, ReduceTaskHistory(EntriesIn(e.saw), ClaimTtl, e.ts))'
    BY <1>3, <1>6, <1>10 DEF StateIn
  <2>8. QED
    BY <2>1, <2>2, <2>3, <2>4, <2>5, <2>6, <2>7 DEF Stamped
<1>13. Cores'
  <2>1. \A w \in Peers : Len(log'[w]) <= MaxEntries
    <3>1. n <= MaxEntries
      BY <1>3, <1>4, <1>5, <1>n, CoreIsSmall, TasksAssumption
    <3>2. QED
      BY <1>4, <1>7, <3>1 DEF Cores
  <2>2. \A w \in Peers : \A i \in 1..Len(log'[w]) : \A f \in Entry : f = log'[w][i] => Stamped(f, w, i)'
    <3>1. SUFFICES ASSUME NEW w \in Peers, NEW i \in 1..Len(log'[w]), NEW f \in Entry, f = log'[w][i]
                   PROVE  Stamped(f, w, i)'
      OBVIOUS
    <3>2. CASE w = p /\ i = n
      BY <1>7, <1>12, <3>1, <3>2
    <3>3. CASE ~(w = p /\ i = n)
      <4>1. i \in 1..Len(log[w]) /\ f = log[w][i]
        <5>1. CASE w = p
          <6>1. i \in 1..n /\ i # n
            BY <1>7, <3>1, <3>3, <5>1
          <6>2. i \in 1..Len(log[p])
            BY <1>5, <1>n, <6>1
          <6>3. QED
            BY <1>7, <3>1, <5>1, <6>2
        <5>2. CASE w # p
          BY <1>7, <3>1, <5>2
        <5>3. QED
          BY <5>1, <5>2
      <4>2. Stamped(f, w, i) /\ i \in Nat
        BY <1>4, <1>5, <4>1, EntryOfCore
      <4>3. clock <= clock'
        BY <1>3, <1>5
      <4>4. QED
        BY <1>4, <1>8, <1>9, <4>2, <4>3, StampedStays
    <3>4. QED
      BY <3>2, <3>3
  <2>3. \A w \in Peers : \A i \in 1..Len(log'[w]) : log'[w][i] \in Entry
    <3>1. \A w \in Peers : log'[w] \in Seq(Entry)
      BY <1>7
    <3>2. QED
      BY <3>1
  <2>4. (\A w \in Peers : \A i \in 1..Len(log[w]) : Stamped(log[w][i], w, i))'
    BY <2>2, <2>3
  <2>5. QED
    <3>1. Creator \in Peers
      BY TasksAssumption
    <3>2. Len(log[Creator]) >= 1 /\ Len(log[Creator]) <= Len(log'[Creator])
      BY <1>4, <1>8, <3>1 DEF Cores, Grows
    <3>3. Len(log'[Creator]) >= 1
      BY <1>5, <1>8, <3>1, <3>2
    <3>4. QED
      BY <2>1, <2>4, <3>3 DEF Cores
<1>14. Views'
  <2>1. \A q \in Peers : EntriesIn(view[q])' = EntriesIn(view[q])
    <3>1. SUFFICES ASSUME NEW q \in Peers PROVE EntriesIn(view[q])' = EntriesIn(view[q])
      OBVIOUS
    <3>2. PICK v \in [Peers -> Nat] : v = view[q]
      BY <1>4 DEF Types
    <3>3. EntriesIn(v)' = EntriesIn(v)
      BY <1>4, <1>8, <1>9, <3>2, EntriesStay DEF Types
    <3>4. view'[q] = v
      BY <1>3, <3>2
    <3>5. QED
      BY <3>2, <3>3, <3>4
  <2>2. QED
    BY <1>3, <1>4, <2>1 DEF Views, Closed
<1>15. Records'
  <2>1. \A d \in Clients : HomeOf[d] \in Peers
    BY TasksAssumption
  <2>2. Appended(op, p, e.seq)'
    BY <1>6, <1>7, <1>n DEF Appended
  <2>3. \A d \in Clients \ {c} : request'[d] = request[d]
    BY <1>3, <1>4 DEF Types
  <2>4. request'[c] = [at |-> "waiting", op |-> op, seq |-> e.seq]
    BY <1>3, <1>4 DEF Types
  <2>5. \A d \in Clients \ {c} :
           request[d].at = "waiting" => Appended(request[d].op, HomeOf[d], request[d].seq)'
    <3>1. SUFFICES ASSUME NEW d \in Clients \ {c}, request[d].at = "waiting",
                          NEW o, o = request[d].op, NEW s, s = request[d].seq
                   PROVE  Appended(o, HomeOf[d], s)'
      BY <2>3
    <3>2. QED
      BY <1>4, <1>8, <1>9, <2>1, <3>1, AppendedStays DEF Records
  <2>6. \A a \in answers : Appended(a.op, a.peer, a.seq)'
    <3>1. SUFFICES ASSUME NEW a \in answers PROVE Appended(a.op, a.peer, a.seq)'
      OBVIOUS
    <3>2. a.peer \in Peers
      BY <1>4 DEF Types, AnswerRecord
    <3>3. QED
      BY <1>4, <1>8, <1>9, <3>2, AppendedStays DEF Records
  <2>7. QED
    BY <1>1, <1>3, <2>2, <2>3, <2>4, <2>5, <2>6 DEF Records
<1>16. QED
  BY <1>9, <1>13, <1>14, <1>15 DEF IInv

\* A step of which the cores and views know nothing.
LEMMA QuietKeeps ==
    ASSUME IInv, UNCHANGED <<log, view>>, clock' \in Nat, clock <= clock',
           request' \in [Clients -> Request], answers' \subseteq AnswerRecord, Records'
    PROVE  IInv'
<1>1. Types /\ Cores /\ Views
  BY DEF IInv
<1>2. Types'
  BY <1>1 DEF Types
<1>3. Cores'
  BY <1>1, <1>2, CoresStay
<1>4. Views'
  BY <1>1, SameLog DEF Views, Closed
<1>5. QED
  BY <1>2, <1>3, <1>4 DEF IInv

LEMMA ViewTimeoutKeeps == ASSUME IInv, NEW c \in Clients, ViewTimeout(c) PROVE IInv'
<1>1. /\ request' = [request EXCEPT ![c] = Idle] /\ UNCHANGED <<clock, log, view, answers>>
      /\ Types /\ Records
  BY DEF ViewTimeout, IInv
<1>2. Idle \in Request /\ Idle.at # "waiting"
  BY DEF Request, Idle
<1>3. request' \in [Clients -> Request] /\ \A d \in Clients : request'[d] \in {request[d], Idle}
  BY <1>1, <1>2 DEF Types
<1>4. \A d \in Clients : request'[d].at = "waiting" => request'[d] = request[d]
  BY <1>2, <1>3
<1>5. Records'
  BY <1>1, <1>4 DEF Records, Appended
<1>6. clock' \in Nat /\ clock <= clock' /\ answers' \subseteq AnswerRecord
  BY <1>1 DEF Types
<1>7. QED
  BY <1>1, <1>3, <1>5, <1>6, QuietKeeps

LEMMA AnswerKeeps == ASSUME IInv, NEW c \in Clients, Answer(c) PROVE IInv'
<1> DEFINE a == [op |-> request[c].op, peer |-> HomeOf[c], seq |-> request[c].seq,
                 outcome |-> OutcomeOf(request[c].op, HomeOf[c], GetTaskState(HomeOf[c]))]
<1>1. /\ request' = [request EXCEPT ![c] = Idle] /\ UNCHANGED <<clock, log, view>>
      /\ answers' = answers \cup {a} /\ request[c].at = "waiting"
      /\ Types /\ Records
  BY DEF Answer, IInv
<1>2. Idle \in Request /\ Idle.at # "waiting"
  BY DEF Request, Idle
<1>3. request' \in [Clients -> Request] /\ \A d \in Clients : request'[d] \in {request[d], Idle}
  BY <1>1, <1>2 DEF Types
<1>4. \A d \in Clients : request'[d].at = "waiting" => request'[d] = request[d]
  BY <1>2, <1>3
<1>5. a.op = request[c].op /\ a.peer = HomeOf[c] /\ a.seq = request[c].seq
  OBVIOUS
<1>6. a \in AnswerRecord
  <2>1. request[c] \in [at : {"waiting"}, op : Ops, seq : Nat]
    <3>1. request[c] \in Request /\ request[c] # Idle
      BY <1>1, <1>2 DEF Types
    <3>2. QED
      BY <3>1 DEF Request
  <2>2. OutcomeOf(request[c].op, HomeOf[c], GetTaskState(HomeOf[c])) \in {"ok", "lost"}
    BY DEF OutcomeOf
  <2>3. HomeOf[c] \in Peers
    BY TasksAssumption
  <2>4. QED
    BY <2>1, <2>2, <2>3 DEF AnswerRecord
<1>7. Appended(a.op, a.peer, a.seq)
  BY <1>1, <1>5 DEF Records
<1> HIDE DEF a
<1>8. \A op, p, seq : Appended(op, p, seq)' <=> Appended(op, p, seq)
  BY <1>1 DEF Appended
<1>9. \A b \in answers' : Appended(b.op, b.peer, b.seq)
  BY <1>1, <1>7 DEF Records
<1>10. \A d \in Clients : request'[d].at = "waiting" => Appended(request'[d].op, HomeOf[d], request'[d].seq)
  BY <1>1, <1>4 DEF Records
<1>11. Records'
  BY <1>1, <1>9, <1>10 DEF Records, Appended
<1>12. clock' \in Nat /\ clock <= clock' /\ answers' \subseteq AnswerRecord
  BY <1>1, <1>6 DEF Types
<1>13. QED
  BY <1>1, <1>3, <1>11, <1>12, QuietKeeps

LEMMA TickKeeps == ASSUME IInv, Tick PROVE IInv'
<1>1. clock \in Nat /\ clock' = clock + 1 /\ UNCHANGED <<log, view, request, answers>>
      /\ request \in [Clients -> Request] /\ answers \subseteq AnswerRecord /\ Records
  BY DEF Tick, IInv, Types
<1>2. Records'
  BY <1>1 DEF Records, Appended
<1>3. QED
  BY <1>1, <1>2, QuietKeeps

LEMMA DeliverKeeps == ASSUME IInv, NEW p \in Peers, NEW w \in Peers, Deliver(p, w) PROVE IInv'
<1>1. PICK n : n = view[p][w] + 1
  OBVIOUS
<1>2. PICK v : v = [view[p] EXCEPT ![w] = n]
  OBVIOUS
<1>3. Types /\ Cores /\ Views /\ Records
  BY DEF IInv
<1>4. /\ n <= Len(log[w]) /\ \A x \in Peers \ {w} : log[w][n].deps[x] <= view[p][x]
      /\ view' = [view EXCEPT ![p] = v]
      /\ UNCHANGED <<clock, log, request, answers>>
  <2>1. view' = [view EXCEPT ![p][w] = n]
    BY <1>1 DEF Deliver
  <2>2. QED
    BY <1>1, <1>2, <2>1 DEF Deliver
<1>5. /\ view[p] \in [Peers -> Nat] /\ view \in [Peers -> [Peers -> Nat]]
      /\ \A q, u \in Peers : view[q][u] <= Len(log[u])
      /\ \A u \in Peers : Len(log[u]) \in Nat
  BY <1>3 DEF Types
<1>6. v \in [Peers -> Nat] /\ v[w] = n /\ n \in 1..Len(log[w]) /\ \A u \in Peers \ {w} : v[u] = view[p][u]
  BY <1>1, <1>2, <1>4, <1>5
<1>7. view' \in [Peers -> [Peers -> Nat]] /\ view'[p] = v /\ \A q \in Peers \ {p} : view'[q] = view[q]
  BY <1>4, <1>5, <1>6
<1>8. Types'
  <2>1. \A u \in Peers : v[u] <= Len(log[u])
    <3>1. \A u \in Peers \ {w} : v[u] <= Len(log[u])
      BY <1>5, <1>6
    <3>2. QED
      BY <1>4, <1>6, <3>1
  <2>2. \A q, u \in Peers : view'[q][u] <= Len(log[u])
    BY <1>5, <1>7, <2>1
  <2>3. QED
    BY <1>3, <1>4, <1>7, <2>2 DEF Types
<1>9. Cores'
  <2>1. clock <= clock'
    BY <1>3, <1>4 DEF Types
  <2>2. QED
    BY <1>3, <1>4, <1>8, <2>1, CoresStay
<1>10. Closed(v)
  <2>1. SUFFICES ASSUME NEW x \in EntriesIn(v), NEW u \in Peers PROVE x.deps[u] <= v[u]
    BY DEF Closed
  <2>2. CASE x \in EntriesIn(view[p])
    <3>1. x.deps[u] <= view[p][u]
      BY <1>3, <2>2 DEF Views, Closed
    <3>2. x.deps[u] \in Nat
      <4>1. PICK q : q = view[p]
        OBVIOUS
      <4>2. q \in [Peers -> Nat] /\ (\A y \in Peers : q[y] <= Len(log[y])) /\ x \in EntriesIn(q)
        BY <1>5, <2>2, <4>1
      <4>3. \E y \in Peers : \E i \in 1..Len(log[y]) : x = log[y][i] /\ x \in Entry
        BY <1>3, <4>2, OfCores
      <4>4. QED
        BY <4>3, EntryIs
    <3>3. view[p][u] <= v[u]
      BY <1>1, <1>5, <1>6
    <3>4. QED
      BY <1>5, <1>6, <3>1, <3>2, <3>3
  <2>3. CASE x = log[w][n]
    <3>1. Stamped(x, w, n) /\ x \in Entry
      BY <1>3, <1>6, <2>3, EntryOfCore
    <3>2. CASE u = w
      BY <1>5, <1>6, <3>1, <3>2, EntryIs DEF Stamped
    <3>3. CASE u # w
      BY <1>4, <1>6, <2>3, <3>3
    <3>4. QED
      BY <3>2, <3>3
  <2>4. x \in EntriesIn(view[p]) \/ x = log[w][n]
    <3>1. PICK y \in Peers : \E i \in 1..v[y] : x = log[y][i]
      BY EntriesAre
    <3>2. PICK i \in 1..v[y] : x = log[y][i]
      BY <3>1
    <3>3. CASE y # w
      BY <1>6, <3>2, <3>3, EntriesAre
    <3>4. CASE y = w /\ i # n
      <4>1. i \in 1..view[p][w]
        BY <1>1, <1>5, <1>6, <3>2, <3>4
      <4>2. QED
        BY <3>2, <3>4, <4>1, EntriesAre
    <3>5. CASE y = w /\ i = n
      BY <3>2, <3>5
    <3>6. QED
      BY <3>3, <3>4, <3>5
  <2>5. QED
    BY <2>2, <2>3, <2>4
<1>11. Views'
  <2>1. \A u : EntriesIn(u)' = EntriesIn(u)
    BY <1>4, SameLog
  <2>2. \A q \in Peers : Closed(view[q])
    BY <1>3 DEF Views
  <2>3. \A q \in Peers : \A u : u = view'[q] => Closed(u)'
    <3>1. \A u : Closed(u) => Closed(u)'
      BY <2>1 DEF Closed
    <3>2. QED
      BY <1>7, <1>10, <2>2, <3>1
  <2>4. QED
    BY <2>3 DEF Views
<1>12. Records'
  BY <1>3, <1>4 DEF Records, Appended
<1>13. QED
  BY <1>8, <1>9, <1>11, <1>12 DEF IInv

LEMMA EarlierIs ==
    ASSUME NEW p \in Peers, NEW saw \in EarlierViews(p)
    PROVE  saw \in [Peers -> Nat] /\ (\A w \in Peers : saw[w] <= view[p][w]) /\ Closed(saw)
<1>1. /\ saw \in [Peers -> 0..MaxEntries] /\ \A w \in Peers : saw[w] <= view[p][w]
      /\ \A e \in EntriesIn(saw) : \A w \in Peers : e.deps[w] <= saw[w]
  BY DEF EarlierViews
<1>2. \A i \in 0..MaxEntries : i \in Nat
  BY TasksAssumption
<1>3. saw \in [Peers -> Nat]
  BY <1>1, <1>2
<1>4. QED
  BY <1>1, <1>3 DEF Closed

LEMMA StepKeeps == IInv /\ [Next]_vars => IInv'
<1> SUFFICES ASSUME IInv, [Next]_vars PROVE IInv'
  OBVIOUS
<1>1. ASSUME NEW c \in Clients, NEW op \in Ops, NEW saw \in EarlierViews(HomeOf[c]), AppendEntry(c, op, saw)
      PROVE  IInv'
  <2>1. saw \in [Peers -> Nat] /\ (\A w \in Peers : saw[w] <= view[HomeOf[c]][w]) /\ Closed(saw)
    BY EarlierIs, TasksAssumption
  <2>2. QED
    BY <1>1, <2>1, AppendKeeps
<1>2. CASE UNCHANGED vars
  <2>1. UNCHANGED <<clock, log, view, request, answers>>
    BY <1>2 DEF vars
  <2>2. Records'
    BY <2>1 DEF IInv, Records, Appended
  <2>3. clock' \in Nat /\ clock <= clock' /\ request' \in [Clients -> Request] /\ answers' \subseteq AnswerRecord
    BY <2>1 DEF IInv, Types
  <2>4. QED
    BY <2>1, <2>2, <2>3, QuietKeeps
<1>3. QED
  BY <1>1, <1>2, AnswerKeeps, ViewTimeoutKeeps, DeliverKeeps, TickKeeps DEF Next

\* The daemons in step are a special case: the view of the moment is one that a
\* handler may have read.
LEMMA SyncedStepKeeps == IInv /\ [SyncedNext]_vars => IInv'
<1> SUFFICES ASSUME IInv, SyncedNext PROVE IInv'
  BY StepKeeps
<1>1. ASSUME NEW c \in Clients, NEW op \in Ops, AppendEntry(c, op, view[HomeOf[c]]) PROVE IInv'
  <2>1. PICK v : v = view[HomeOf[c]]
    OBVIOUS
  <2>2. v \in [Peers -> Nat] /\ (\A w \in Peers : v[w] <= view[HomeOf[c]][w]) /\ Closed(v)
    <3>1. HomeOf[c] \in Peers
      BY TasksAssumption
    <3>2. v \in [Peers -> Nat]
      BY <2>1, <3>1 DEF IInv, Types
    <3>3. \A w \in Peers : v[w] <= v[w]
      BY <3>2
    <3>4. QED
      BY <2>1, <3>1, <3>2, <3>3 DEF IInv, Views
  <2>3. QED
    BY <1>1, <2>1, <2>2, AppendKeeps
<1>2. QED
  BY <1>1, AnswerKeeps, ViewTimeoutKeeps, DeliverKeeps, TickKeeps DEF SyncedNext

---------------------------------------------------------------------------
(* What the cores hold, to the fold.                                       *)

Original == log[Creator][1]

LEMMA OriginalIs ==
    ASSUME IInv
    PROVE  /\ Original.kind = "create" /\ Original \in Entry
           /\ \A p \in Peers : \A i \in 1..Len(log[p]) : log[p][i].kind = "create" => log[p][i] = Original
<1>1. Creator \in Peers /\ Types /\ Cores
  BY TasksAssumption DEF IInv
<1>2. 1 \in 1..Len(log[Creator])
  BY <1>1 DEF Types, Cores
<1>3. Stamped(Original, Creator, 1) /\ Original \in Entry
  BY <1>1, <1>2, EntryOfCore DEF Original
<1>4. \A p \in Peers : \A i \in 1..Len(log[p]) : Stamped(log[p][i], p, i)
  BY <1>1, EntryOfCore
<1>5. QED
  BY <1>3, <1>4 DEF Stamped, Original

\* A view, as far as the cores reach.
Reached(v) == v \in [Peers -> Nat] /\ \A w \in Peers : v[w] <= Len(log[w])

LEMMA ReducesTo ==
    ASSUME IInv, NEW v, Reached(v), NEW E, \A x \in E : x \in EntriesIn(v) \/ x.kind # "create", NEW now
    PROVE  /\ Original \in E =>
                 ReduceTaskHistory(E, ClaimTtl, now) = ReportAt(Raw(E \ {Original}, Original, ClaimTtl), ClaimTtl, now)
           /\ Original \notin E => ReduceTaskHistory(E, ClaimTtl, now) = NoTask
<1>1. \A x \in E : IsOriginal(x) => x = Original
  <2>1. SUFFICES ASSUME NEW x \in E, IsOriginal(x) PROVE x = Original
    OBVIOUS
  <2>2. x \in EntriesIn(v) /\ x.kind = "create"
    BY <2>1 DEF IsOriginal
  <2>3. \E w \in Peers : \E i \in 1..Len(log[w]) : x = log[w][i]
    BY <2>2, OfCores DEF IInv, Reached
  <2>4. QED
    BY <2>2, <2>3, OriginalIs
<1>2. IsOriginal(Original)
  BY OriginalIs DEF IsOriginal
<1>3. CASE Original \in E
  <2>1. FirstOriginal(E) = Original
    BY <1>1, <1>2, <1>3, Zenon DEF FirstOriginal
  <2>2. \E e \in E : IsOriginal(e)
    BY <1>2, <1>3
  <2>3. QED
    BY <1>3, <2>1, <2>2, ReduceIsRaw
<1>4. CASE Original \notin E
  <2>1. \A x \in E : ~IsOriginal(x)
    BY <1>1, <1>4
  <2>2. QED
    BY <1>4, <2>1, Zenon DEF ReduceTaskHistory
<1>5. QED
  BY <1>3, <1>4

LEMMA NoTaskIs == NoTask.status = "missing"
  BY DEF NoTask

\* The parts of a view are as the lemmas on entries want them.
LEMMA ViewIs ==
    ASSUME IInv, SameWidth, NEW v, Reached(v)
    PROVE  /\ Sortable(EntriesIn(v)) /\ Stamps(EntriesIn(v)) /\ IsFiniteSet(EntriesIn(v))
           /\ \A x \in EntriesIn(v) : x \in Entry /\ x.ts <= clock
           /\ \A x \in EntriesIn(v) : \E w \in Peers : \E i \in 1..Len(log[w]) :
                 i <= v[w] /\ x = log[w][i] /\ x.writer = w /\ x.seq = SeqNo(i) /\ Stamped(x, w, i)
<1>1. Types /\ Cores /\ v \in [Peers -> Nat] /\ \A w \in Peers : v[w] <= Len(log[w])
  BY DEF IInv, Reached
<1>2. \A x \in EntriesIn(v) : \E w \in Peers : \E i \in 1..Len(log[w]) :
         i <= v[w] /\ x = log[w][i] /\ x \in Entry
  BY <1>1, OfCores
<1>3. \A x \in EntriesIn(v) : \E w \in Peers : \E i \in 1..Len(log[w]) :
         i <= v[w] /\ x = log[w][i] /\ x.writer = w /\ x.seq = SeqNo(i) /\ Stamped(x, w, i)
  BY <1>1, <1>2, EntryOfCore
<1>4. IsFiniteSet(EntriesIn(v))
  BY <1>1, EntriesFinite
<1>5. \A x \in EntriesIn(v) : x \in Entry /\ x.ts <= clock
  BY <1>2, <1>3 DEF Stamped
<1>6. Stamps(EntriesIn(v))
  BY <1>5, EntryIs DEF Stamps
<1>7. Sortable(EntriesIn(v))
  BY <1>1, <1>4, ViewSorts
<1>8. QED
  BY <1>3, <1>4, <1>5, <1>6, <1>7

\* An update that p is about to append.
IsNext(e, p) ==
    e.writer = p /\ e.seq = SeqNo(Len(log[p]) + 1) /\ e.kind \in Ops /\ e.ts = clock

\* It comes after all of p's own in a view.
LEMMA NewEntryComes ==
    ASSUME IInv, SameWidth, NEW p \in Peers, NEW v, Reached(v), v[p] = Len(log[p]),
           Original \in EntriesIn(v), NEW e, IsNext(e, p),
           NEW Y, Y = EntriesIn(v) \ {Original}
    PROVE  e \notin EntriesIn(v) /\ Comes(Y, e)
<1>1. Len(log[p]) \in Nat /\ clock \in Nat
  BY DEF IInv, Types
<1>2. PICK X : X = EntriesIn(v)
  OBVIOUS
<1>3. e.writer = p /\ e.seq = SeqNo(Len(log[p]) + 1) /\ e.kind \in Ops /\ e.ts = clock
  BY DEF IsNext
<1>4. /\ Sortable(X) /\ Stamps(X) /\ IsFiniteSet(X) /\ \A x \in X : x.ts <= clock
      /\ \A x \in X : \E w \in Peers : \E i \in 1..Len(log[w]) : x.writer = w /\ x.seq = SeqNo(i)
  BY <1>2, ViewIs
<1>5. \A x \in X : x.writer = p => x.seq < e.seq
  <2>1. \A i \in 1..Len(log[p]) : SeqNo(i) < SeqNo(Len(log[p]) + 1)
    BY <1>1, TasksAssumption DEF SeqNo
  <2>2. QED
    BY <1>3, <1>4, <2>1
<1>6. e \notin X /\ e.seq \in Nat
  <2>1. e.seq \in Nat
    BY <1>1, <1>3, TasksAssumption DEF SeqNo
  <2>2. QED
    BY <1>3, <1>5, <2>1
<1>7. PICK E : E = X \cup {e}
  OBVIOUS
<1>8. Sortable(E)
  <2>1. IsFiniteSet(E)
    BY <1>4, <1>7, FS_AddElement
  <2>2. \A x \in E : x \in EntriesIn(v) \/ \E w \in Peers : x.writer = w /\ x.seq = SeqNo(Len(log[w]) + 1)
    BY <1>2, <1>3, <1>7
  <2>3. \A x, y \in E : x \notin EntriesIn(v) /\ y \notin EntriesIn(v) => x = y
    BY <1>2, <1>7
  <2>4. Types /\ Cores /\ v \in [Peers -> Nat] /\ \A w \in Peers : v[w] <= Len(log[w])
    BY DEF IInv, Reached
  <2>5. QED
    BY <2>1, <2>2, <2>3, <2>4, ViewSorts
<1>9. Comes(Y, e)
  <2>1. Y \cup {e} \in SUBSET E /\ e \notin Y /\ Y \subseteq X
    BY <1>2, <1>6, <1>7
  <2>2. Sortable(Y \cup {e})
    BY <1>8, <2>1, SortableParts
  <2>3. Stamps(Y \cup {e})
    BY <1>1, <1>3, <1>4, <1>6, <2>1, TasksAssumption DEF Stamps
  <2>4. OwnLast(Y, e)
    <3>1. SUFFICES ASSUME NEW g \in Y, g.writer = e.writer PROVE IdBefore(g, e)
      BY DEF OwnLast
    <3>2. g.seq < e.seq
      BY <1>3, <1>5, <2>1, <3>1
    <3>3. NumeralBefore(g.seq, e.seq) <=> g.seq < e.seq
      BY <2>2 DEF Sortable
    <3>4. QED
      BY <3>1, <3>2, <3>3 DEF IdBefore
  <2>5. \A g \in Y \cup {e} : 0 < g.writer
    <3>1. \A g \in Y \cup {e} : g.writer \in Peers
      BY <1>3, <1>4, <2>1
    <3>2. \A w \in Peers : 0 < w
      BY TasksAssumption
    <3>3. QED
      BY <3>1, <3>2
  <2>6. \A g \in Y : g.ts <= e.ts
    BY <1>3, <1>4, <2>1
  <2>7. QED
    BY <2>1, <2>2, <2>3, <2>4, <2>5, <2>6 DEF Comes
<1>10. QED
  BY <1>2, <1>6, <1>9

---------------------------------------------------------------------------
(* An open task is claimable.                                              *)

LEMMA ClaimableIs == ASSUME IInv, SameWidth PROVE OpenIsClaimable
<1>1. SUFFICES ASSUME NEW p \in Peers, view[p][p] = Len(log[p]), MayClaim(p, GetTaskState(p)),
                      NEW v, v = view[p], NEW e, e = NewEntry(p, "claimed", view[p]),
                      NEW r, r = ReduceTaskHistory(EntriesIn(v) \cup {e}, ClaimTtl, clock)
               PROVE  r.status = "claimed" /\ r.claimed_by = p
  BY DEF OpenIsClaimable
<1>2. Reached(v) /\ clock \in Nat /\ ClaimTtl \in Nat
  BY <1>1, TasksAssumption DEF IInv, Types, Reached
<1>3. Original \in EntriesIn(v)
  <2>1. SUFFICES ASSUME Original \notin EntriesIn(v) PROVE FALSE
    OBVIOUS
  <2>2. GetTaskState(p) = NoTask
    BY <1>1, <1>2, <2>1, ReducesTo DEF GetTaskState, StateIn
  <2>3. QED
    BY <1>1, <2>2, NoTaskIs DEF MayClaim
<1>4. PICK Y : Y = EntriesIn(v) \ {Original}
  OBVIOUS
<1>5. GetTaskState(p) = ReportAt(Raw(Y, Original, ClaimTtl), ClaimTtl, clock)
  BY <1>1, <1>2, <1>3, <1>4, ReducesTo DEF GetTaskState, StateIn
<1>6. /\ e.writer = p /\ e.kind = "claimed" /\ e.ts = clock /\ Comes(Y, e)
      /\ r = ReportAt(Raw(Y \cup {e}, Original, ClaimTtl), ClaimTtl, clock)
  <2>1. IsNext(e, p)
    BY <1>1 DEF IsNext, NewEntry, Ops
  <2>2. v[p] = Len(log[p]) /\ e.kind = "claimed"
    BY <1>1 DEF NewEntry
  <2>3. e.writer = p /\ e.ts = clock
    BY <2>1 DEF IsNext
  <2>4. Comes(Y, e)
    BY <1>2, <1>3, <1>4, <2>1, <2>2, NewEntryComes
  <2>5. r = ReportAt(Raw(Y \cup {e}, Original, ClaimTtl), ClaimTtl, clock)
    <3>1. PICK E : E = EntriesIn(v) \cup {e}
      OBVIOUS
    <3>2. Original \in E /\ \A x \in E : x \in EntriesIn(v) \/ x.kind # "create"
      BY <1>3, <2>2, <3>1
    <3>3. r = ReportAt(Raw(E \ {Original}, Original, ClaimTtl), ClaimTtl, clock)
      BY <1>1, <1>2, <3>1, <3>2, ReducesTo
    <3>4. e # Original
      BY <1>2, <1>3, <1>4, <2>1, <2>2, NewEntryComes
    <3>5. E \ {Original} = Y \cup {e}
      BY <1>4, <3>1, <3>4
    <3>6. QED
      BY <3>3, <3>5
  <2>6. QED
    BY <1>1, <2>2, <2>3, <2>4, <2>5
<1>7. /\ Original.assigned_to \in {None, e.writer}
      /\ ReportAt(Raw(Y, Original, ClaimTtl), ClaimTtl, e.ts).status = "open"
  <2>1. Sortable(Y) /\ Stamps(Y)
    BY <1>6, SplitIs DEF Comes, Stamps
  <2>2. GetTaskState(p).assigned_to = Original.assigned_to
    BY <1>5, <2>1, RawProper, ReportIs
  <2>3. QED
    BY <1>1, <1>5, <1>6, <2>2 DEF MayClaim
<1>8. PICK z : z = Raw(Y \cup {e}, Original, ClaimTtl)
  OBVIOUS
<1>9. z.status = "claimed" /\ z.claimed_by = p /\ z.claimed_at = clock
  BY <1>2, <1>6, <1>7, <1>8, ClaimHolds DEF Comes
<1>10. r = z
  BY <1>2, <1>6, <1>8, <1>9 DEF ReportAt, PastTtl
<1>11. QED
  BY <1>9, <1>10

---------------------------------------------------------------------------
(* An answer stands.                                                       *)

\* A claim or a completion, after what its handler had read, does what its
\* handler meant it to do.
LEMMA AfterEntry ==
    ASSUME IInv, SameWidth, NEW p \in Peers, NEW k \in 1..Len(log[p]), NEW e, e = log[p][k],
           e.kind \in {"claimed", "complete"}, NEW now \in Nat,
           NEW r, r = ReduceTaskHistory(EntriesIn(e.saw) \cup {e}, ClaimTtl, now)
    PROVE  /\ Original \in EntriesIn(e.saw)
           /\ e.kind = "claimed" /\ ~(now - e.ts > ClaimTtl) => r.status = "claimed" /\ r.claimed_by = p
           /\ e.kind = "complete" => r.status = "complete"
<1>1. /\ e \in Entry /\ Stamped(e, p, k) /\ e.writer = p /\ e.seq = SeqNo(k)
      /\ k \in Nat /\ ClaimTtl \in Nat /\ Types
  <2>1. Types /\ Cores
    BY DEF IInv
  <2>2. e \in Entry /\ Stamped(e, p, k) /\ e.writer = p /\ e.seq = SeqNo(k)
    BY <2>1, EntryOfCore
  <2>3. QED
    BY <2>1, <2>2, TasksAssumption
<1>2. PICK v : v = e.saw
  OBVIOUS
<1>3. Reached(v) /\ v[p] < k
  <2>1. \A w \in Peers : v[w] \in Nat /\ e.deps[w] \in Nat /\ Len(log[w]) \in Nat
    BY <1>1, <1>2, EntryIs DEF Types
  <2>2. \A w \in Peers : v[w] <= e.deps[w] /\ e.deps[w] <= Len(log[w]) /\ e.deps[p] < k
    BY <1>1, <1>2 DEF Stamped
  <2>3. v \in [Peers -> Nat]
    BY <1>1, <1>2, EntryIs
  <2>4. QED
    BY <2>1, <2>2, <2>3 DEF Reached
<1> DEFINE X == EntriesIn(v)
           Y == X \ {Original}
<1>4. /\ Sortable(X) /\ Stamps(X) /\ IsFiniteSet(X)
      /\ \A x \in X : \E w \in Peers : \E i \in 1..Len(log[w]) :
            i <= v[w] /\ x = log[w][i] /\ x.writer = w /\ x.seq = SeqNo(i)
  BY <1>3, ViewIs
<1>5. \A x \in X : x.writer = p => x.seq < e.seq
  <2>1. \A i \in Nat : i < k => SeqNo(i) < SeqNo(k)
    BY <1>1, TasksAssumption DEF SeqNo
  <2>2. \A i \in Nat : i <= v[p] => i < k
    BY <1>1, <1>3 DEF Reached
  <2>3. QED
    BY <1>1, <1>4, <2>1, <2>2
<1>6. e \notin X /\ e.seq \in Nat /\ e.ts \in Nat /\ p \in Nat
  BY <1>1, <1>5, EntryIs
<1>7. Sortable(X \cup {e})
  <2> DEFINE u == [w \in Peers |-> Len(log[w])]
  <2>1. Reached(u)
    BY <1>1 DEF Types, Reached
  <2>2. X \cup {e} \in SUBSET EntriesIn(u)
    <3>1. \A w \in Peers : u[w] = Len(log[w])
      OBVIOUS
    <3> HIDE DEF u
    <3>2. \A x : x \in EntriesIn(u) <=> \E w \in Peers : \E i \in 1..u[w] : x = log[w][i]
      BY EntriesAre
    <3>3. e \in EntriesIn(u)
      BY <3>1, <3>2
    <3>4. \A x \in X : x \in EntriesIn(u)
      BY <1>4, <3>1, <3>2
    <3>5. QED
      BY <3>3, <3>4
  <2> HIDE DEF u
  <2>3. Sortable(EntriesIn(u))
    BY <2>1, ViewIs
  <2>4. QED
    BY <2>2, <2>3, SortableParts
<1>8. PICK before : before = ReduceTaskHistory(X, ClaimTtl, e.ts)
  OBVIOUS
<1>9. Passes(e.kind, p, before)
  BY <1>1, <1>2, <1>8 DEF Stamped
<1>10. /\ e.kind = "claimed" => before.status = "open" /\ before.assigned_to \in {None, p}
       /\ e.kind = "complete" =>
             before.status = "open" \/ (before.status = "claimed" /\ before.claimed_by = p)
  BY <1>9 DEF Passes, MayClaim, MayComplete
<1>11. Original \in X
  <2>1. SUFFICES ASSUME Original \notin X PROVE FALSE
    OBVIOUS
  <2>2. before = NoTask
    BY <1>3, <1>8, <2>1, ReducesTo
  <2>3. QED
    BY <1>10, <2>2, NoTaskIs
<1>12. before = ReportAt(Raw(Y, Original, ClaimTtl), ClaimTtl, e.ts)
  BY <1>3, <1>8, <1>11, ReducesTo
<1>13. r = ReportAt(Raw(Y \cup {e}, Original, ClaimTtl), ClaimTtl, now)
  <2>1. (X \cup {e}) \ {Original} = Y \cup {e}
    BY OriginalIs
  <2>2. \A x \in X \cup {e} : x \in EntriesIn(v) \/ x.kind # "create"
    OBVIOUS
  <2>3. Original \in X \cup {e}
    BY <1>11
  <2>4. QED
    BY <1>2, <1>3, <2>1, <2>2, <2>3, ReducesTo
<1>14. /\ e \notin Y /\ Sortable(Y \cup {e}) /\ Stamps(Y \cup {e}) /\ OwnLast(Y, e)
       /\ \A g \in Y : g.ts <= e.ts
  <2>1. Y \cup {e} \in SUBSET (X \cup {e})
    OBVIOUS
  <2>2. Sortable(Y \cup {e})
    BY <1>7, <2>1, SortableParts
  <2>3. Stamps(Y \cup {e})
    BY <1>1, <1>4, <1>6 DEF Stamps
  <2>4. OwnLast(Y, e)
    BY <1>1, <1>5, <2>2 DEF OwnLast, IdBefore, Sortable
  <2>5. \A g \in Y : g.ts <= e.ts
    BY <1>1, <1>2 DEF Stamped
  <2>6. QED
    BY <1>6, <2>2, <2>3, <2>4, <2>5
<1>15. PICK s : s = Raw(Y, Original, ClaimTtl)
  OBVIOUS
<1>16. s \in Proper(Original.assigned_to) /\ before = ReportAt(s, ClaimTtl, e.ts)
  <2>1. Sortable(Y) /\ Stamps(Y)
    BY <1>14, SortableParts DEF Stamps
  <2>2. QED
    BY <1>12, <1>15, <2>1, RawProper
<1>17. PICK z : z = Raw(Y \cup {e}, Original, ClaimTtl)
  OBVIOUS
<1>18. z \in Proper(Original.assigned_to)
  BY <1>14, <1>17, RawProper
<1>19. ASSUME e.kind = "claimed", ~(now - e.ts > ClaimTtl) PROVE r.status = "claimed" /\ r.claimed_by = p
  <2>1. before.status = "open" /\ Original.assigned_to \in {None, p}
    BY <1>10, <1>16, <1>19, ReportIs
  <2>2. z.status = "claimed" /\ z.claimed_by = p /\ z.claimed_at = e.ts
    <3> HIDE DEF Y
    <3>1. QED
      BY <1>1, <1>14, <1>15, <1>16, <1>17, <1>19, <2>1, ClaimHolds
  <2>3. r = z
    BY <1>13, <1>17, <1>18, <1>19, <2>2, ReportIs DEF PastTtl
  <2>4. QED
    BY <2>2, <2>3
<1>20. ASSUME e.kind = "complete" PROVE r.status = "complete"
  <2>1. z.status = "complete"
    <3> HIDE DEF Y
    <3>1. QED
      BY <1>1, <1>10, <1>14, <1>15, <1>16, <1>17, <1>20, CompleteHolds
  <2>2. r = z
    BY <1>13, <1>17, <1>18, <2>1, ReportIs DEF PastTtl
  <2>3. QED
    BY <2>1, <2>2
<1>21. QED
  BY <1>2, <1>11, <1>19, <1>20

\* What the handler of an entry of a core had read.
LEMMA SeenIs ==
    ASSUME IInv, NEW p \in Peers, NEW k \in 1..Len(log[p]), NEW f, f = log[p][k]
    PROVE  /\ f \in Entry /\ Stamped(f, p, k) /\ f.writer = p /\ f.seq = SeqNo(k)
           /\ Reached(f.saw) /\ Closed(f.saw) /\ f.saw[p] < k
<1>1. Types /\ Cores
  BY DEF IInv
<1>2. f \in Entry /\ Stamped(f, p, k) /\ f.writer = p /\ f.seq = SeqNo(k)
  BY <1>1, EntryOfCore
<1>3. \A w \in Peers : f.saw[w] \in Nat /\ f.deps[w] \in Nat /\ Len(log[w]) \in Nat
  BY <1>1, <1>2, EntryIs DEF Types
<1>4. \A w \in Peers : f.saw[w] <= f.deps[w] /\ f.deps[w] <= Len(log[w]) /\ f.deps[p] < k
  BY <1>2 DEF Stamped
<1>5. Closed(f.saw) /\ f.saw \in [Peers -> Nat]
  BY <1>2, EntryIs DEF Stamped
<1>6. Reached(f.saw)
  <2>1. \A w \in Peers : f.saw[w] <= Len(log[w])
    BY <1>3, <1>4
  <2>2. QED
    BY <1>5, <2>1 DEF Reached
<1>7. f.saw[p] < k
  <2>1. k \in Nat
    BY <1>3
  <2>2. QED
    BY <1>3, <1>4, <2>1
<1>8. QED
  BY <1>2, <1>5, <1>6, <1>7

\* An entry's handler had read exactly the entries of the view it had read.
LEMMA SawIs ==
    ASSUME IInv, SameWidth, NEW u, Reached(u), NEW x \in EntriesIn(u), NEW f, Reached(f.saw)
    PROVE  Saw(f, x) <=> x \in EntriesIn(f.saw)
<1>1a. PICK w \in Peers : \E i \in 1..Len(log[w]) : x = log[w][i] /\ x.writer = w /\ x.seq = SeqNo(i)
  BY ViewIs
<1>1. PICK i \in 1..Len(log[w]) : x = log[w][i] /\ x.writer = w /\ x.seq = SeqNo(i)
  BY <1>1a
<1>2. \A j \in Nat : SeqNo(j) - BaseSeq = j
  BY TasksAssumption DEF SeqNo
<1>3. f.saw[w] \in Nat
  BY DEF Reached
<1>4. Saw(f, x) <=> i <= f.saw[w]
  BY <1>1, <1>2 DEF Saw
<1>5. i <= f.saw[w] => x \in EntriesIn(f.saw)
  <2>1. i <= f.saw[w] => i \in 1..f.saw[w]
    BY <1>3
  <2>2. QED
    BY <1>1, <2>1, EntriesAre
<1>6. ASSUME x \in EntriesIn(f.saw) PROVE i <= f.saw[w]
  <2>1a. PICK y \in Peers : \E j \in 1..Len(log[y]) : j <= f.saw[y] /\ x.writer = y /\ x.seq = SeqNo(j)
    BY <1>6, ViewIs
  <2>1. PICK j \in 1..Len(log[y]) : j <= f.saw[y] /\ x.writer = y /\ x.seq = SeqNo(j)
    BY <2>1a
  <2>2. y = w /\ SeqNo(j) = SeqNo(i)
    BY <1>1, <2>1
  <2>3. i \in Nat /\ j \in Nat
    <3>1. Len(log[w]) \in Nat /\ Len(log[y]) \in Nat
      BY DEF IInv, Types
    <3>2. QED
      BY <3>1
  <2>4. j = i
    BY <1>2, <2>2, <2>3
  <2>5. QED
    BY <2>1, <2>2, <2>4
<1>7. QED
  BY <1>4, <1>5, <1>6

\* A view holds all that the handlers of its entries had read, and no handler
\* had read its own entry.
LEMMA SeenWithin ==
    ASSUME IInv, SameWidth, NEW v, Reached(v), Closed(v), NEW f \in EntriesIn(v)
    PROVE  /\ Reached(f.saw) /\ Closed(f.saw) /\ f \notin EntriesIn(f.saw)
           /\ EntriesIn(f.saw) \subseteq EntriesIn(v)
<1>1a. PICK p \in Peers : \E k \in 1..Len(log[p]) : f = log[p][k]
  BY ViewIs
<1>1. PICK k \in 1..Len(log[p]) : f = log[p][k]
  BY <1>1a
<1>2. /\ f \in Entry /\ Stamped(f, p, k) /\ f.writer = p /\ f.seq = SeqNo(k)
      /\ Reached(f.saw) /\ Closed(f.saw) /\ f.saw[p] < k
  BY <1>1, SeenIs
<1>3. \A w \in Peers : f.saw[w] \in Nat /\ f.deps[w] \in Nat /\ v[w] \in Nat
  BY <1>2, EntryIs DEF Reached
<1>4. \A w \in Peers : f.saw[w] <= v[w]
  <2>1. \A w \in Peers : f.saw[w] <= f.deps[w] /\ f.deps[w] <= v[w]
    BY <1>2 DEF Stamped, Closed
  <2>2. QED
    BY <1>3, <2>1
<1>5. ASSUME NEW x \in EntriesIn(f.saw) PROVE x \in EntriesIn(v)
  <2>1a. PICK w \in Peers : \E i \in 1..f.saw[w] : x = log[w][i]
    BY EntriesAre
  <2>1. PICK i \in 1..f.saw[w] : x = log[w][i]
    BY <2>1a
  <2>2. i \in 1..v[w]
    BY <1>3, <1>4
  <2>3. QED
    BY <2>1, <2>2, EntriesAre
<1>6. f \notin EntriesIn(f.saw)
  <2>1. \A j \in Nat : SeqNo(j) - BaseSeq = j
    BY TasksAssumption DEF SeqNo
  <2>2. ~Saw(f, f)
    BY <1>2, <1>3, <2>1 DEF Saw
  <2>3. QED
    BY <1>2, <2>2, SawIs
<1>7. QED
  BY <1>2, <1>5, <1>6

\* Of the entries whose handlers had read e, one had read none of the others.
LEMMA FirstToSee ==
    ASSUME IInv, SameWidth, NEW v, Reached(v), Closed(v), NEW e,
           \E f \in EntriesIn(v) : e \in EntriesIn(f.saw)
    PROVE  \E f \in EntriesIn(v) : /\ e \in EntriesIn(f.saw)
                                   /\ \A g \in EntriesIn(f.saw) : e \notin EntriesIn(g.saw)
<1> DEFINE Past(f) == EntriesIn(f.saw)
           X == EntriesIn(v)
           After == {f \in X : e \in Past(f)}
           D == {Past(f) : f \in After}
<1>1. IsFiniteSet(X)
  BY ViewIs
<1>2. \A f \in X : Past(f) \subseteq X /\ f \notin Past(f)
  BY SeenWithin
<1>3. D \in SUBSET SUBSET X /\ D # {}
  BY <1>2
<1>4. PICK T \in D : \A U \in D : ~(U \subseteq T /\ U # T)
  <2> HIDE DEF D, X
  <2>1. QED
    BY <1>1, <1>3, SmallestExists
<1>5. PICK f \in After : T = Past(f)
  BY <1>4
<1>6. SUFFICES ASSUME NEW g \in Past(f), e \in Past(g) PROVE FALSE
  BY <1>5
<1>7. Past(g) \subseteq Past(f) /\ g \notin Past(g)
  <2>1. Reached(f.saw) /\ Closed(f.saw)
    BY <1>5, SeenWithin
  <2>2. QED
    BY <1>6, <2>1, SeenWithin
<1>8. g \in After
  BY <1>2, <1>5, <1>6
<1>9. QED
  BY <1>4, <1>5, <1>6, <1>7, <1>8

\* Nothing disturbs what a claim or a completion did: if every other entry was
\* read by its handler, or has read it, then the others are those it had read.
LEMMA NothingAfter ==
    ASSUME IInv, SameWidth, NEW v, Reached(v), Closed(v),
           NEW p \in Peers, NEW k \in 1..Len(log[p]), NEW e, e = log[p][k], e \in EntriesIn(v),
           e.kind \in {"claimed", "complete"}, e.kind = "claimed" => ~(clock - e.ts > ClaimTtl),
           \A f \in EntriesIn(v) : ~(f.writer = p /\ f.seq > e.seq),
           \A f \in EntriesIn(v) \ {e} : Saw(e, f) \/ Saw(f, e)
    PROVE  EntriesIn(v) = EntriesIn(e.saw) \cup {e}
<1>1. /\ e \in Entry /\ e.writer = p /\ e.seq = SeqNo(k)
      /\ Reached(e.saw) /\ Closed(e.saw) /\ k \in Nat
  <2>1. Len(log[p]) \in Nat
    BY DEF IInv, Types
  <2>2. QED
    BY <2>1, SeenIs
<1>2. EntriesIn(e.saw) \subseteq EntriesIn(v)
  BY SeenWithin
<1>3. \A f \in EntriesIn(v) \ {e} : f \in EntriesIn(e.saw) \/ e \in EntriesIn(f.saw)
  <2>1. SUFFICES ASSUME NEW f \in EntriesIn(v) \ {e}
                 PROVE  f \in EntriesIn(e.saw) \/ e \in EntriesIn(f.saw)
    OBVIOUS
  <2>2. Reached(f.saw)
    BY SeenWithin
  <2>3. QED
    BY <1>1, <2>2, SawIs
<1>4. SUFFICES ASSUME \E f \in EntriesIn(v) : e \in EntriesIn(f.saw) PROVE FALSE
  BY <1>2, <1>3
<1>5. PICK f \in EntriesIn(v) : /\ e \in EntriesIn(f.saw)
                                /\ \A g \in EntriesIn(f.saw) : e \notin EntriesIn(g.saw)
  BY <1>4, FirstToSee
<1>6. EntriesIn(f.saw) = EntriesIn(e.saw) \cup {e}
  <2>1. Reached(f.saw) /\ Closed(f.saw) /\ EntriesIn(f.saw) \subseteq EntriesIn(v)
    BY <1>5, SeenWithin
  <2>2. EntriesIn(e.saw) \subseteq EntriesIn(f.saw)
    BY <1>5, <2>1, SeenWithin
  <2>3. \A g \in EntriesIn(f.saw) : g = e \/ g \in EntriesIn(e.saw)
    BY <1>3, <1>5, <2>1
  <2>4. QED
    BY <1>5, <2>2, <2>3
<1>7. PICK w \in Peers : \E i \in 1..Len(log[w]) : f = log[w][i]
  BY <1>5, ViewIs
<1>8. PICK i \in 1..Len(log[w]) : f = log[w][i]
  BY <1>7
<1>9. /\ f \in Entry /\ Stamped(f, w, i) /\ f.writer = w /\ f.seq = SeqNo(i)
      /\ Reached(f.saw) /\ f.saw[w] < i /\ i \in Nat
  <2>1. Len(log[w]) \in Nat
    BY DEF IInv, Types
  <2>2. QED
    BY <1>8, <2>1, SeenIs
<1>10. w # p
  <2>1. SUFFICES ASSUME w = p PROVE FALSE
    OBVIOUS
  <2>2. Saw(f, e)
    BY <1>5, <1>9, SawIs
  <2>3. \A j \in Nat : SeqNo(j) - BaseSeq = j /\ SeqNo(j) \in Nat
    BY TasksAssumption DEF SeqNo
  <2>4. k <= f.saw[p] /\ f.saw[p] \in Nat
    BY <1>1, <1>9, <2>2, <2>3 DEF Saw, Reached
  <2>5. k < i
    BY <1>1, <1>9, <2>1, <2>4
  <2>6. SeqNo(k) < SeqNo(i)
    BY <1>1, <1>9, <2>5, TasksAssumption DEF SeqNo
  <2>7. QED
    BY <1>1, <1>5, <1>9, <2>1, <2>3, <2>6
<1>11. PICK r : r = ReduceTaskHistory(EntriesIn(e.saw) \cup {e}, ClaimTtl, f.ts)
  OBVIOUS
<1>12. ~(f.ts - e.ts > ClaimTtl) \/ e.kind # "claimed"
  <2>1. f.ts \in Nat /\ e.ts \in Nat /\ clock \in Nat /\ ClaimTtl \in Nat /\ f.ts <= clock
    BY <1>1, <1>9, EntryIs, TasksAssumption DEF IInv, Types, Stamped
  <2>2. QED
    BY <2>1
<1>13. /\ Original \in EntriesIn(e.saw)
       /\ e.kind = "claimed" => r.status = "claimed" /\ r.claimed_by = p
       /\ e.kind = "complete" => r.status = "complete"
  <2>1. f.ts \in Nat
    BY <1>9, EntryIs
  <2>2. QED
    BY <1>11, <1>12, <2>1, AfterEntry
<1>14. f.kind # "create" => Passes(f.kind, w, r)
  BY <1>6, <1>9, <1>11 DEF Stamped
<1>15. f.kind # "create"
  <2>1. SUFFICES ASSUME f.kind = "create" PROVE FALSE
    OBVIOUS
  <2>2. f = Original
    BY <1>8, <2>1, OriginalIs
  <2>3. f \in EntriesIn(f.saw)
    BY <1>6, <1>13, <2>2
  <2>4. QED
    BY <1>5, <2>3, SeenWithin
<1>16. f.kind \in {"claimed", "complete", "open"}
  BY <1>9, <1>15 DEF Entry, Ops
<1>17. QED
  BY <1>10, <1>14, <1>15, <1>16, <1>13 DEF Passes, MayClaim, MayComplete, MayRelease

\* After a release its writer does not hold the task in any view, until that
\* writer's next entry.
LEMMA ReleaseStands ==
    ASSUME IInv, SameWidth, NEW v, Reached(v), NEW p \in Peers, NEW k \in 1..Len(log[p]),
           NEW e, e = log[p][k], e \in EntriesIn(v), e.kind = "open",
           \A f \in EntriesIn(v) : ~(f.writer = p /\ f.seq > e.seq),
           StateIn(v).status = "claimed"
    PROVE  StateIn(v).claimed_by # p
<1> DEFINE X == EntriesIn(v)
           Y == X \ {Original, e}
<1>1. e \in Entry /\ e.writer = p /\ e.seq = SeqNo(k) /\ e.kind # "create"
  BY SeenIs
<1>2. /\ Sortable(X) /\ Stamps(X)
      /\ \A x \in X : \E w \in Peers : \E i \in 1..Len(log[w]) :
            x = log[w][i] /\ x.writer = w /\ x.seq = SeqNo(i)
      /\ e.ts <= clock
  BY ViewIs
<1>3. PICK r : r = StateIn(v)
  OBVIOUS
<1>4. Original \in X
  <2>1. SUFFICES ASSUME Original \notin X PROVE FALSE
    OBVIOUS
  <2>2. r = NoTask
    BY <1>3, <2>1, ReducesTo DEF StateIn
  <2>3. QED
    BY <1>3, <2>2, NoTaskIs
<1>5. X \ {Original} = Y \cup {e} /\ e \notin Y
  BY <1>1, OriginalIs
<1>6. r = ReportAt(Raw(Y \cup {e}, Original, ClaimTtl), ClaimTtl, clock)
  BY <1>3, <1>4, <1>5, ReducesTo DEF StateIn
<1>7. Sortable(Y \cup {e}) /\ Stamps(Y \cup {e})
  <2>1. Y \cup {e} \in SUBSET X
    OBVIOUS
  <2>2. QED
    BY <1>2, <2>1, SortableParts DEF Stamps
<1>8. OwnLast(Y, e)
  <2>1. SUFFICES ASSUME NEW g \in Y, g.writer = p PROVE g.seq < e.seq /\ IdBefore(g, e)
    BY <1>1 DEF OwnLast
  <2>2. PICK i \in 1..Len(log[p]) : g = log[p][i] /\ g.seq = SeqNo(i)
    BY <1>2, <2>1
  <2>3. g.seq # e.seq
    <3>1. i \in Nat /\ k \in Nat
      <4>1. Len(log[p]) \in Nat
        BY DEF IInv, Types
      <4>2. QED
        BY <4>1
    <3>2. \A m, n \in Nat : SeqNo(m) = SeqNo(n) => m = n
      BY TasksAssumption DEF SeqNo
    <3>3. QED
      BY <1>1, <2>2, <3>1, <3>2
  <2>4. g.seq \in Nat /\ e.seq \in Nat /\ (NumeralBefore(g.seq, e.seq) <=> g.seq < e.seq)
    BY <1>7 DEF Sortable
  <2>5. g.seq < e.seq
    BY <2>1, <2>3, <2>4
  <2>6. QED
    BY <1>1, <2>1, <2>4, <2>5 DEF IdBefore
<1>9. clock \in Nat /\ ClaimTtl \in Nat
  BY TasksAssumption DEF IInv, Types
<1>10. r.claimed_by # e.writer
  <2> HIDE DEF Y
  <2>1. QED
    BY <1>2, <1>3, <1>5, <1>6, <1>7, <1>8, <1>9, ReleaseHolds
<1>11. QED
  BY <1>1, <1>3, <1>10

\* The answers given stand.
LEMMA StandsIs == ASSUME IInv, SameWidth PROVE AnswerStands
<1>1. SUFFICES ASSUME NEW a \in answers, NEW q \in Peers, NEW v, v = view[q],
                      NEW e, e = EntryOf(a), e \in EntriesIn(v),
                      ~(a.op = "claimed" /\ clock - e.ts > ClaimTtl),
                      ~\E f \in EntriesIn(v) : f.writer = a.peer /\ f.seq > a.seq,
                      ~\E f \in EntriesIn(v) \ {e} : Unseen(e, f)
               PROVE  Stands(a, StateIn(v))
  BY DEF AnswerStands, GetTaskState
<1>2. PICK p : p = a.peer
  OBVIOUS
<1>3. a.op \in Ops /\ p \in Peers
  <2>1. a \in AnswerRecord
    BY DEF IInv, Types
  <2>2. QED
    BY <1>2, <2>1 DEF AnswerRecord
<1>4. PICK k \in 1..Len(log[p]) : a.seq = SeqNo(k) /\ log[p][k].kind = a.op
  BY <1>2 DEF IInv, Records, Appended
<1>5. e = log[p][k] /\ e.kind = a.op /\ e.seq = a.seq
  <2>1. Len(log[p]) \in Nat
    BY <1>3 DEF IInv, Types
  <2>2. a.seq - BaseSeq = k
    BY <1>4, <2>1, TasksAssumption DEF SeqNo
  <2>3. e = log[p][k]
    BY <1>1, <1>2, <2>2 DEF EntryOf
  <2>4. QED
    BY <1>3, <1>4, <2>3, SeenIs
<1>6. Reached(v) /\ Closed(v)
  BY <1>1 DEF IInv, Types, Views, Reached
<1>7. \A f \in EntriesIn(v) : ~(f.writer = p /\ f.seq > e.seq)
  BY <1>1, <1>2, <1>5
<1>8. CASE a.op \in {"claimed", "complete"}
  <2>1. \A f \in EntriesIn(v) \ {e} : Saw(e, f) \/ Saw(f, e)
    BY <1>1 DEF Unseen
  <2>2. EntriesIn(v) = EntriesIn(e.saw) \cup {e}
    BY <1>1, <1>3, <1>5, <1>6, <1>7, <1>8, <2>1, NothingAfter
  <2>3. PICK r : r = StateIn(v)
    OBVIOUS
  <2>4. r = ReduceTaskHistory(EntriesIn(e.saw) \cup {e}, ClaimTtl, clock)
    BY <2>2, <2>3 DEF StateIn
  <2>5. clock \in Nat
    BY DEF IInv, Types
  <2>6. /\ a.op = "claimed" => r.status = "claimed" /\ r.claimed_by = p
        /\ a.op = "complete" => r.status = "complete"
    BY <1>1, <1>3, <1>5, <1>8, <2>4, <2>5, AfterEntry
  <2>7. QED
    BY <1>2, <1>8, <2>3, <2>6 DEF Stands
<1>9. CASE a.op = "open"
  <2>1. StateIn(v).status = "claimed" => StateIn(v).claimed_by # p
    BY <1>1, <1>3, <1>5, <1>6, <1>7, <1>9, ReleaseStands
  <2>2. QED
    BY <1>2, <1>9, <2>1 DEF Stands
<1>10. QED
  BY <1>3, <1>8, <1>9 DEF Ops

---------------------------------------------------------------------------
(* The steps of the board.                                                 *)

Updates == AllEntries \ {Original}

BoardInv == NoneUnseen => OnBoard(Updates, Original, ClaimTtl, clock)

\* The view that holds everything.
Everything == [w \in Peers |-> Len(log[w])]

LEMMA AllIs ==
    ASSUME IInv
    PROVE  /\ Reached(Everything) /\ AllEntries = EntriesIn(Everything) /\ Original \in AllEntries
           /\ \A x : x \in AllEntries <=> \E w \in Peers : \E i \in 1..Len(log[w]) : x = log[w][i]
<1>1. \A w \in Peers : Len(log[w]) \in Nat
  BY DEF IInv, Types
<1>2. Reached(Everything) /\ \A w \in Peers : Everything[w] = Len(log[w])
  BY <1>1 DEF Reached, Everything
<1>3. AllEntries = EntriesIn(Everything)
  BY DEF AllEntries, Everything
<1>4. \A x : x \in AllEntries <=> \E w \in Peers : \E i \in 1..Len(log[w]) : x = log[w][i]
  BY <1>2, <1>3, EntriesAre
<1>5. Creator \in Peers /\ 1 \in 1..Len(log[Creator])
  BY <1>1, TasksAssumption DEF IInv, Cores
<1>6. QED
  BY <1>2, <1>3, <1>4, <1>5 DEF Original

LEMMA GlobalIs ==
    ASSUME IInv, SameWidth
    PROVE  /\ GlobalState = ReportAt(Raw(Updates, Original, ClaimTtl), ClaimTtl, clock)
           /\ Sortable(Updates) /\ Stamps(Updates)
           /\ Raw(Updates, Original, ClaimTtl) \in Proper(Original.assigned_to)
           /\ GlobalState.assigned_to = Original.assigned_to
<1>1. PICK v : v = Everything
  OBVIOUS
<1>2. Reached(v) /\ AllEntries = EntriesIn(v) /\ Original \in AllEntries
  BY <1>1, AllIs
<1>3. GlobalState = ReportAt(Raw(Updates, Original, ClaimTtl), ClaimTtl, clock)
  BY <1>2, ReducesTo DEF GlobalState, Updates
<1>4. Sortable(Updates) /\ Stamps(Updates)
  <2>1. Sortable(AllEntries) /\ Stamps(AllEntries)
    BY <1>2, ViewIs
  <2>2. Updates \in SUBSET AllEntries
    BY DEF Updates
  <2>3. QED
    BY <2>1, <2>2, SortableParts DEF Stamps
<1>5. Raw(Updates, Original, ClaimTtl) \in Proper(Original.assigned_to)
  BY <1>4, RawProper
<1>6. QED
  BY <1>3, <1>4, <1>5, ReportIs

\* Nothing has happened yet.
LEMMA InitOnBoard == ASSUME SameWidth, Init PROVE BoardInv /\ Board!Init
<1>1. IInv
  BY InitHolds
<1>2. PICK assignee \in Assignees :
         log = [p \in Peers |-> IF p = Creator THEN <<CreateEntry(assignee)>> ELSE <<>>]
  BY DEF Init
<1>3. PICK e : e = CreateEntry(assignee)
  OBVIOUS
<1>4. Creator \in Peers /\ \A p \in Peers : log[p] = IF p = Creator THEN <<e>> ELSE <<>>
  BY <1>2, <1>3, TasksAssumption
<1>5. Original = e /\ e.assigned_to = assignee
  BY <1>3, <1>4 DEF Original, CreateEntry
<1>6. Updates = {}
  <2>1. \A x \in AllEntries : x = e
    BY <1>1, <1>4, AllIs
  <2>2. QED
    BY <1>5, <2>1 DEF Updates
<1>7. PICK s : s = InitialTaskState(Original)
  OBVIOUS
<1>8. /\ s.status = "open" /\ s.claimed_by = None /\ s.assigned_to = assignee
      /\ \A now : ReportAt(s, ClaimTtl, now) = s
  BY <1>5, <1>7 DEF InitialTaskState, ReportAt, PastTtl
<1>9. Raw({}, Original, ClaimTtl) = s
  <2>1. Lasting({}) /\ IsFiniteSet({})
    BY FS_EmptySet DEF Lasting
  <2>2. QED
    BY <1>7, <2>1, RawIs
<1>10. BoardInv
  <2>1. \A w \in Nat : Above({}, w) = {}
    BY DEF Above
  <2>2. \A w \in Nat : Seen({}, w, Original, ClaimTtl, clock) = s
    BY <1>8, <1>9, <2>1 DEF Seen
  <2>3. HeldBy({}, 0, 0, Original, ClaimTtl, clock)
    BY <1>8, <2>2 DEF HeldBy
  <2>4. QED
    BY <1>6, <2>3 DEF BoardInv, OnBoard
<1>11. GlobalState = s
  BY <1>1, <1>6, <1>8, <1>9, GlobalIs
<1>12. QED
  BY <1>8, <1>10, <1>11, TasksAssumption DEF Board!Init

\* What an append makes of the entries there are.
LEMMA AppendAll ==
    ASSUME IInv, NEW p \in Peers, NEW e, log' = [log EXCEPT ![p] = Append(@, e)]
    PROVE  AllEntries' = AllEntries \cup {e} /\ Original' = Original
<1>1. /\ \A w \in Peers : Len(log[w]) \in Nat
      /\ log \in [Peers -> Seq(Entry)] /\ Creator \in Peers /\ Len(log[Creator]) >= 1
  BY TasksAssumption DEF IInv, Types, Cores
<1>2. \A w \in Peers : w # p => log'[w] = log[w]
  BY <1>1
<1>3. log'[p] = Append(log[p], e) /\ log[p] \in Seq(Entry)
  BY <1>1
<1>4. /\ Len(log'[p]) = Len(log[p]) + 1 /\ log'[p][Len(log[p]) + 1] = e
      /\ \A i \in 1..Len(log[p]) : log'[p][i] = log[p][i]
  BY <1>3
<1>5. \A x : x \in AllEntries' <=> \E w \in Peers : \E i \in 1..Len(log'[w]) : x = log'[w][i]
  BY DEF AllEntries, EntriesIn
<1>6. \A x : x \in AllEntries <=> \E w \in Peers : \E i \in 1..Len(log[w]) : x = log[w][i]
  BY AllIs
<1>7. \A w \in Peers : \A x : (\E i \in 1..Len(log'[w]) : x = log'[w][i])
                              <=> (\E i \in 1..Len(log[w]) : x = log[w][i]) \/ (w = p /\ x = e)
  <2>1. SUFFICES ASSUME NEW w \in Peers, NEW x
                 PROVE (\E i \in 1..Len(log'[w]) : x = log'[w][i])
                          <=> (\E i \in 1..Len(log[w]) : x = log[w][i]) \/ (w = p /\ x = e)
    OBVIOUS
  <2>2. CASE w # p
    BY <1>2, <2>2
  <2>3. CASE w = p
    <3>1. \A i : i \in 1..Len(log'[p]) <=> i \in 1..Len(log[p]) \/ i = Len(log[p]) + 1
      BY <1>1, <1>4
    <3>2. QED
      BY <1>4, <2>3, <3>1
  <2>4. QED
    BY <2>2, <2>3
<1>8. AllEntries' = AllEntries \cup {e}
  <2> DEFINE New(w, x) == \E i \in 1..Len(log'[w]) : x = log'[w][i]
             Old(w, x) == \E i \in 1..Len(log[w]) : x = log[w][i]
  <2>1. \A x : /\ x \in AllEntries' <=> \E w \in Peers : New(w, x)
               /\ x \in AllEntries <=> \E w \in Peers : Old(w, x)
               /\ \A w \in Peers : New(w, x) <=> Old(w, x) \/ (w = p /\ x = e)
    BY <1>5, <1>6, <1>7
  <2> HIDE DEF New, Old
  <2>2. \A x : x \in AllEntries' <=> x \in AllEntries \/ x = e
    BY <2>1
  <2>3. QED
    BY <2>2
<1>9. log'[Creator][1] = log[Creator][1]
  BY <1>1, <1>2, <1>4
<1>10. QED
  BY <1>8, <1>9 DEF Original

\* A handler whose entry leaves nothing unseen has read everything.
LEMMA ReadAll ==
    ASSUME IInv, NEW p \in Peers, NEW op, NEW saw \in [Peers -> Nat],
           \A w \in Peers : saw[w] <= Len(log[w]),
           NEW e, e = NewEntry(p, op, saw), e \notin AllEntries,
           AllEntries' = AllEntries \cup {e}, NoneUnseen'
    PROVE  saw = Everything /\ NoneUnseen
<1>1. \A x, y \in AllEntries \cup {e} : x # y => ~Unseen(x, y)
  BY DEF NoneUnseen
<1>2. NoneUnseen
  BY <1>1 DEF NoneUnseen
<1>3. ASSUME NEW w \in Peers PROVE saw[w] = Len(log[w])
  <2>1. /\ Len(log[w]) \in Nat /\ Len(log[p]) \in Nat /\ BaseSeq \in Nat
        /\ saw[w] \in Nat /\ saw[w] <= Len(log[w])
    BY TasksAssumption DEF IInv, Types
  <2>2. CASE Len(log[w]) = 0
    BY <2>1, <2>2
  <2>3. CASE Len(log[w]) # 0
    <3>1. PICK n \in 1..Len(log[w]) : n = Len(log[w])
      BY <2>1, <2>3
    <3>2. PICK f : f = log[w][n]
      OBVIOUS
    <3>3. f \in Entry /\ Stamped(f, w, n) /\ f.writer = w /\ f.seq = SeqNo(n)
      BY <3>2, EntryOfCore DEF IInv
    <3>4. f.saw[p] \in Nat /\ f.deps[p] \in Nat /\ f.saw[p] <= f.deps[p] /\ f.deps[p] <= Len(log[p])
      BY <3>3, EntryIs DEF Stamped
    <3>5. f \in AllEntries /\ f # e
      BY <3>1, <3>2, AllIs
    <3>6. Saw(e, f) \/ Saw(f, e)
      BY <1>1, <3>5 DEF Unseen
    <3>7. e.saw = saw /\ e.writer = p /\ e.seq = SeqNo(Len(log[p]) + 1)
      BY DEF NewEntry
    <3>8. Saw(e, f) <=> n <= saw[w]
      BY <2>1, <3>3, <3>7 DEF Saw, SeqNo
    <3>9. Saw(f, e) <=> Len(log[p]) + 1 <= f.saw[p]
      BY <2>1, <3>7 DEF Saw, SeqNo
    <3>10. QED
      BY <2>1, <3>1, <3>4, <3>6, <3>8, <3>9
  <2>4. QED
    BY <2>2, <2>3
<1>4. saw = Everything
  BY <1>3 DEF Everything
<1>5. QED
  BY <1>2, <1>4

\* A request that has read everything does to the board what the route promises.
LEMMA AppendOnBoard ==
    ASSUME IInv, SameWidth, BoardInv, NEW c \in Clients, NEW op \in Ops,
           NEW saw \in [Peers -> Nat], \A w \in Peers : saw[w] <= view[HomeOf[c]][w],
           AppendEntry(c, op, saw), NoneUnseen'
    PROVE  BoardInv' /\ Board!Next
<1>1. PICK p \in Peers : p = HomeOf[c]
  BY TasksAssumption
<1>2. PICK v : v = Everything
  OBVIOUS
<1>3. Reached(v) /\ v[p] = Len(log[p])
  BY <1>2, AllIs DEF Everything
<1>4. AllEntries = EntriesIn(v) /\ Original \in AllEntries
  BY <1>2, AllIs
<1>5. PICK e : e = NewEntry(p, op, saw)
  OBVIOUS
<1>6. /\ log' = [log EXCEPT ![p] = Append(@, e)] /\ clock' = clock
      /\ Passes(op, p, StateIn(saw))
  BY <1>1, <1>5 DEF AppendEntry
<1>7. e.writer = p /\ e.kind = op /\ e.ts = clock /\ IsNext(e, p) /\ clock \in Nat /\ ClaimTtl \in Nat
  BY <1>5, TasksAssumption DEF NewEntry, IsNext, IInv, Types
<1>8. PICK Y : Y = Updates
  OBVIOUS
<1>9. e \notin AllEntries /\ Comes(Y, e)
  <2>1. Y = EntriesIn(v) \ {Original}
    BY <1>4, <1>8 DEF Updates
  <2>2. QED
    BY <1>3, <1>4, <1>7, <2>1, NewEntryComes
<1>10. /\ AllEntries' = AllEntries \cup {e} /\ Original' = Original
       /\ Updates' = Y \cup {e}
  <2>1. AllEntries' = AllEntries \cup {e} /\ Original' = Original
    BY <1>6, AppendAll
  <2>2. QED
    BY <1>4, <1>8, <1>9, <2>1 DEF Updates
<1>11. PICK r : r = GlobalState
  OBVIOUS
<1>12. /\ r = ReportAt(Raw(Y, Original, ClaimTtl), ClaimTtl, e.ts) /\ Passes(op, p, r)
       /\ OnBoard(Y, Original, ClaimTtl, e.ts)
  <2>1. \A w \in Peers : saw[w] <= Len(log[w])
    BY <1>1 DEF IInv, Types
  <2>2. saw = v /\ NoneUnseen
    BY <1>2, <1>5, <1>9, <1>10, <2>1, ReadAll
  <2>3. r = StateIn(saw)
    BY <1>4, <1>11, <2>2 DEF GlobalState, StateIn
  <2>4. QED
    BY <1>6, <1>7, <1>8, <1>11, <2>2, <2>3, GlobalIs DEF BoardInv
<1>13. PICK q : q = GlobalState'
  OBVIOUS
<1>14. q = ReportAt(Raw(Y \cup {e}, Original, ClaimTtl), ClaimTtl, e.ts)
  <2>1. PICK E : E = AllEntries \cup {e}
    OBVIOUS
  <2>2. q = ReduceTaskHistory(E, ClaimTtl, clock)
    BY <1>6, <1>10, <1>13, <2>1 DEF GlobalState
  <2>3. Original \in E /\ \A x \in E : x \in EntriesIn(v) \/ x.kind # "create"
    BY <1>4, <1>7, <2>1 DEF Ops
  <2>4. q = ReportAt(Raw(E \ {Original}, Original, ClaimTtl), ClaimTtl, clock)
    BY <1>3, <2>2, <2>3, ReducesTo
  <2>5. E \ {Original} = Y \cup {e}
    BY <1>4, <1>8, <1>9, <2>1 DEF Updates
  <2>6. QED
    BY <1>7, <2>4, <2>5
<1>15. /\ q.assigned_to = Original.assigned_to /\ r.assigned_to = Original.assigned_to
       /\ q.status = "open" => q.claimed_by = None
  <2>1. Sortable(Y \cup {e}) /\ Stamps(Y \cup {e})
    BY <1>9 DEF Comes
  <2>2. PICK z : z = Raw(Y \cup {e}, Original, ClaimTtl)
    OBVIOUS
  <2>3. z \in Proper(Original.assigned_to)
    BY <2>1, <2>2, RawProper
  <2>4. q.assigned_to = Original.assigned_to /\ (q.status = "open" => q.claimed_by = None)
    BY <1>14, <2>2, <2>3, ReportIs
  <2>5. QED
    BY <1>11, <2>4, GlobalIs
<1>16. OnBoard(Y \cup {e}, Original, ClaimTtl, e.ts) => BoardInv'
  BY <1>6, <1>7, <1>10 DEF BoardInv
<1>17. CASE op = "claimed"
  <2>1. r.status = "open" /\ r.assigned_to \in {None, p}
    BY <1>12, <1>17 DEF Passes, MayClaim
  <2>2. Original.assigned_to \in {None, e.writer} /\ e.kind = "claimed"
    BY <1>7, <1>15, <1>17, <2>1
  <2>3. OnBoard(Y \cup {e}, Original, ClaimTtl, e.ts) /\ q.status = "claimed" /\ q.claimed_by = p
    BY <1>7, <1>9, <1>12, <1>14, <2>1, <2>2, ClaimOnBoard
  <2>4. Board!Claim(p)
    BY <1>11, <1>13, <1>15, <2>1, <2>3 DEF Board!Claim
  <2>5. QED
    BY <1>16, <2>3, <2>4 DEF Board!Next
<1>18. CASE op = "complete"
  <2>1. (r.status = "open" \/ (r.status = "claimed" /\ r.claimed_by = e.writer)) /\ e.kind = "complete"
    BY <1>7, <1>12, <1>18 DEF Passes, MayComplete
  <2>2. OnBoard(Y \cup {e}, Original, ClaimTtl, e.ts) /\ q.status = "complete" /\ q.claimed_by = r.claimed_by
    BY <1>7, <1>9, <1>12, <1>14, <2>1, CompleteOnBoard
  <2>3. Board!Complete
    BY <1>11, <1>13, <1>15, <2>1, <2>2 DEF Board!Complete
  <2>4. QED
    BY <1>16, <2>2, <2>3 DEF Board!Next
<1>19. CASE op = "open"
  <2>1. r.status = "claimed" /\ r.claimed_by = e.writer /\ e.kind = "open"
    BY <1>7, <1>12, <1>19 DEF Passes, MayRelease
  <2>2. OnBoard(Y \cup {e}, Original, ClaimTtl, e.ts) /\ q.status = "open"
    BY <1>7, <1>9, <1>12, <1>14, <2>1, ReleaseOnBoard
  <2>3. Board!Reopen
    BY <1>11, <1>13, <1>15, <2>1, <2>2 DEF Board!Reopen
  <2>4. QED
    BY <1>16, <2>2, <2>3 DEF Board!Next
<1>20. QED
  BY <1>17, <1>18, <1>19 DEF Ops

\* A claim may run out.
LEMMA TickOnBoard ==
    ASSUME IInv, SameWidth, BoardInv, Tick, NoneUnseen'
    PROVE  BoardInv' /\ [Board!Next]_(Board!board)
<1>1. log' = log /\ clock' = clock + 1 /\ clock \in Nat /\ ClaimTtl \in Nat
  BY TasksAssumption DEF Tick, IInv, Types
<1>2. PICK soon \in Nat : soon = clock' /\ clock <= soon
  BY <1>1
<1>3. AllEntries' = AllEntries /\ Original' = Original /\ Updates' = Updates /\ NoneUnseen
  <2>1. AllEntries' = AllEntries /\ Original' = Original
    BY <1>1 DEF AllEntries, EntriesIn, Original
  <2>2. NoneUnseen
    BY <2>1 DEF NoneUnseen
  <2>3. QED
    BY <2>1, <2>2 DEF Updates
<1>4. PICK Y : Y = Updates
  OBVIOUS
<1>5. PICK s : s = Raw(Y, Original, ClaimTtl)
  OBVIOUS
<1>6. /\ GlobalState = ReportAt(s, ClaimTtl, clock) /\ Sortable(Y) /\ Stamps(Y)
      /\ s \in Proper(Original.assigned_to)
  BY <1>4, <1>5, GlobalIs
<1>7. GlobalState' = ReportAt(s, ClaimTtl, soon)
  <2>1. PICK v : v = Everything
    OBVIOUS
  <2>2. Reached(v) /\ AllEntries = EntriesIn(v) /\ Original \in AllEntries
    BY <2>1, AllIs
  <2>3. GlobalState' = ReduceTaskHistory(AllEntries, ClaimTtl, soon)
    BY <1>2, <1>3 DEF GlobalState
  <2>4. QED
    BY <1>4, <1>5, <2>2, <2>3, ReducesTo DEF Updates
<1>8. PICK r, q : r = GlobalState /\ q = GlobalState'
  OBVIOUS
<1>9. r.assigned_to = Original.assigned_to /\ q.assigned_to = Original.assigned_to
  BY <1>6, <1>7, <1>8, ReportIs
<1>10. /\ r.status = "open" => q.status = "open"
       /\ r.status = "complete" => q = r
       /\ r.status = "claimed" => q.status = "open" \/ q = r
       /\ q.status = "open" => q.claimed_by = None
       /\ r.status = "open" => r.claimed_by = None
       /\ r.status \in Statuses
  BY <1>1, <1>2, <1>6, <1>7, <1>8, ReportLater
<1>11. BoardInv'
  <2>1. OnBoard(Y, Original, ClaimTtl, soon)
    BY <1>1, <1>2, <1>3, <1>4, <1>6, TimeOnBoard DEF BoardInv
  <2>2. QED
    BY <1>2, <1>3, <1>4, <2>1 DEF BoardInv
<1>12. (r.status = "claimed" /\ q.status = "open")
       \/ (q.status = r.status /\ q.claimed_by = r.claimed_by)
  BY <1>10 DEF Statuses
<1>13. [Board!Next]_(Board!board)
  <2>1. CASE r.status = "claimed" /\ q.status = "open"
    BY <1>8, <1>9, <1>10, <2>1 DEF Board!Next, Board!Reopen
  <2>2. CASE q.status = r.status /\ q.claimed_by = r.claimed_by
    BY <1>8, <1>9, <2>2 DEF Board!board
  <2>3. QED
    BY <1>12, <2>1, <2>2
<1>14. QED
  BY <1>11, <1>13

\* Nothing else is on the board.
LEMMA QuietOnBoard ==
    ASSUME BoardInv, UNCHANGED <<clock, log>>
    PROVE  BoardInv' /\ UNCHANGED Board!board
<1>1. AllEntries' = AllEntries /\ Original' = Original /\ clock' = clock
  BY DEF AllEntries, EntriesIn, Original
<1>2. GlobalState' = GlobalState
  BY <1>1 DEF GlobalState
<1>3. QED
  BY <1>1, <1>2 DEF BoardInv, NoneUnseen, Updates, Board!board

LEMMA StepOnBoard ==
    ASSUME IInv, SameWidth, BoardInv, [Next]_vars
    PROVE  BoardInv' /\ [~NoneUnseen' \/ Board!Next]_(Board!board)
<1>1. CASE ~NoneUnseen'
  BY <1>1 DEF BoardInv
<1>2. CASE NoneUnseen'
  <2>1. ASSUME NEW c \in Clients, NEW op \in Ops, NEW saw \in EarlierViews(HomeOf[c]), AppendEntry(c, op, saw)
        PROVE  BoardInv' /\ Board!Next
    <3>1. saw \in [Peers -> Nat] /\ \A w \in Peers : saw[w] <= view[HomeOf[c]][w]
      BY EarlierIs, TasksAssumption
    <3>2. QED
      BY <1>2, <2>1, <3>1, AppendOnBoard
  <2>2. ASSUME UNCHANGED <<clock, log>> PROVE BoardInv' /\ [Board!Next]_(Board!board)
    BY <2>2, QuietOnBoard
  <2>3. ASSUME NEW c \in Clients, Answer(c) \/ ViewTimeout(c) PROVE UNCHANGED <<clock, log>>
    BY <2>3 DEF Answer, ViewTimeout
  <2>4. ASSUME NEW p \in Peers, NEW w \in Peers, Deliver(p, w) PROVE UNCHANGED <<clock, log>>
    BY <2>4 DEF Deliver
  <2>5. UNCHANGED vars => UNCHANGED <<clock, log>>
    BY DEF vars
  <2>6. Tick => BoardInv' /\ [Board!Next]_(Board!board)
    BY <1>2, TickOnBoard
  <2>7. BoardInv' /\ [Board!Next]_(Board!board)
    BY <2>1, <2>2, <2>3, <2>4, <2>5, <2>6 DEF Next
  <2>8. QED
    BY <2>7
<1>3. QED
  BY <1>1, <1>2

---------------------------------------------------------------------------
(* The theorems.                                                           *)

\* The invariant holds of the system, and of the daemons in step.
THEOREM Invariant == (Spec => []IInv) /\ (SyncedSpec => []IInv)
<1>1. Spec => []IInv
  BY InitHolds, StepKeeps, PTL DEF Spec
<1>2. SyncedSpec => []IInv
  BY InitHolds, SyncedStepKeeps, PTL DEF SyncedSpec
<1>3. QED
  BY <1>1, <1>2

LEMMA TypesHold == IInv => TypeOK
  BY DEF IInv, Types, Views, Closed, TypeOK

\* Types, and what a view holds: it never runs ahead of a core, and holds
\* whatever a block it holds depends on.
THEOREM TypeCorrect == Spec => []TypeOK
  BY Invariant, TypesHold, PTL

\* If the blocks about the task have numbers of as many digits, a daemon that
\* sees the task open holds it once it has claimed it, wherever the id of the
\* claim sorts (the claim route and the reducer agree).
THEOREM OpenTasksAreClaimable == Spec => [](SameWidth => OpenIsClaimable)
<1>1. IInv => (SameWidth => OpenIsClaimable)
  BY ClaimableIs
<1>2. QED
  BY <1>1, Invariant, PTL

\* If the blocks about the task have numbers of as many digits, what a 200 told
\* a client is what every view that holds its entry reports, until the daemon
\* moves on, the claim runs out, or an entry arrives that was appended blindly.
THEOREM AnswersStand == Spec => [](SameWidth => AnswerStands)
<1>1. IInv => (SameWidth => AnswerStands)
  BY StandsIs
<1>2. QED
  BY <1>1, Invariant, PTL

\* README, "Task state machine".  If the blocks about the task have numbers of
\* as many digits, then as long as nothing is appended blindly, the state of all
\* the entries moves as one shared board does: a release opens the task although
\* it sorts before entries of other daemons, and only time takes a claim from its
\* holder.
THEOREM BoardImplemented == SameWidth => (Spec => ImplementsBoard)
<1> SUFFICES ASSUME SameWidth PROVE Spec => ImplementsBoard
  OBVIOUS
<1>1. Init => Board!Init /\ BoardInv
  BY InitOnBoard
<1>2. IInv /\ BoardInv /\ [Next]_vars => BoardInv' /\ [~NoneUnseen' \/ Board!Next]_(Board!board)
  BY StepOnBoard
<1>3. QED
  BY <1>1, <1>2, Invariant, PTL DEF Spec, ImplementsBoard
==============================================================================
