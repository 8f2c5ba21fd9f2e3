--------------------------- MODULE PactInfoProofs ---------------------------
(***************************************************************************)
(* Proofs about PactInfo, for any names, requests, slots and bounds.       *)
(*                                                                         *)
(* Two arguments.  The pact name in memory follows the last entry that has *)
(* been applied, so it is the newest one once the view has caught up.  And *)
(* whatever changes the memory starts a save: the save that captures the   *)
(* memory last, if no other overlaps with it, brings it to config.json.    *)
(***************************************************************************)
EXTENDS PactInfo, WellFoundedInduction, TLAPS

---------------------------------------------------------------------------
(* The invariant.                                                          *)

Names == AgentNames \cup {None}

Save == [pc : {"load", "write", "rename"}, by : Owners, alone : BOOLEAN,
         cfg : Contents \cup {None}]

Informed == [at |-> "informed"]

Request == [at : {"saving", "saved"}, name : Names] \cup {Idle, Informed}

Appending == [at |-> "appending"]

Announcing == [at : {"reading"}, name : AgentNames] \cup {Idle, Appending}

Types ==
    /\ creator \in BOOLEAN /\ writable \in BOOLEAN /\ up \in BOOLEAN /\ late \in BOOLEAN
    /\ raced \in BOOLEAN /\ (creator => writable)
    /\ infos \in Seq(Entries(PactNames)) /\ posted \in Seq(Entries(AgentNames))
    /\ row \in Names
    /\ viewed \in Nat /\ reach \in Nat /\ viewed <= reach /\ reach <= Len(infos)
    /\ pactName \in PactNames /\ displayName \in Names
    /\ file \in Contents /\ tmp \in Contents \cup {None}
    /\ announcing \in Announcing
    /\ saves \in [Slots -> Save \cup {Free}]
    /\ request \in [Clients -> Request]

\* A request waits for its own save, and for one only.
Waiting ==
    /\ \A c \in Clients : request[c].at = "saving" <=> \E s \in Active : saves[s].by = c
    /\ \A s, t \in Active : saves[s].by = saves[t].by /\ saves[s].by \in Clients => s = t

Followed ==
    up /\ viewed = reach /\ reach > 0 /\ infos[reach].fresh => pactName = infos[reach].name

\* The saves that have still to take what the memory holds.
Loading == {s \in Active : saves[s].pc = "load"}

\* How far a save is that no other has overlapped.
Alone ==
    \A s \in Captured :
        /\ saves[s].pc = "write" => saves[s].cfg \in Contents
        /\ saves[s].alone =>
            /\ Captured = {s}
            /\ saves[s].pc = "rename" => tmp # None
            /\ Loading = {} => IF saves[s].pc = "write" THEN saves[s].cfg = Memory ELSE tmp = Memory

\* A daemon that is down saves nothing.
Down == ~up => Active = {}

IInv == Types /\ Waiting /\ Followed /\ Alone /\ Down /\ ConfigIsKept

---------------------------------------------------------------------------
(* The least and the greatest of a set of numbers.                         *)

LEMMA LeastExists == ASSUME NEW T \in SUBSET Nat, T # {} PROVE \E x \in T : \A y \in T : x <= y
<1>1. PICK x \in T : \A y \in T : ~(<<y, x>> \in OpToRel(<, Nat))
  BY NatLessThanWellFounded, WFMin
<1>2. \A y \in T : ~(y < x)
  BY <1>1 DEF OpToRel
<1>3. QED
  BY <1>2

LEMMA GreatestExists ==
    ASSUME NEW n \in Nat, NEW T \in SUBSET (1..n), T # {}
    PROVE  \E x \in T : \A y \in T : y <= x
<1> DEFINE D == {d \in 0..n : n - d \in T}
<1>1. D \subseteq Nat /\ D # {}
  <2>1. PICK x \in T : TRUE
    OBVIOUS
  <2>2. n - x \in D
    BY <2>1
  <2>3. \A d \in D : d \in Nat
    OBVIOUS
  <2>4. QED
    BY <2>2, <2>3
<1>2. PICK d \in D : \A e \in D : d <= e
  BY <1>1, LeastExists
<1>3. \A y \in T : n - y \in D
  OBVIOUS
<1>4. QED
  BY <1>2, <1>3

---------------------------------------------------------------------------
(* The rows of the view.                                                   *)

\* A newest entry that is fresh is the name of the view.
LEMMA FreshNameIsLast ==
    ASSUME Types, NEW n \in 1..Len(infos), infos[n].fresh
    PROVE  HasName(n) /\ NameAt(n) = infos[n].name
<1>1. n \in Fresh(n) /\ \A i \in Fresh(n) : i <= n /\ i \in Nat
  BY DEF Fresh, Types
<1>2. (CHOOSE i \in Fresh(n) : \A j \in Fresh(n) : j <= i) = n
  BY <1>1 DEF Types
<1>3. QED
  BY <1>1, <1>2 DEF HasName, NameAt

LEMMA NameAtType ==
    ASSUME Types, NEW n \in 0..Len(infos), HasName(n)
    PROVE  NameAt(n) \in PactNames
<1> DEFINE m == CHOOSE i \in Fresh(n) : \A j \in Fresh(n) : j <= i
<1>1. n \in Nat /\ Fresh(n) \subseteq 1..n /\ Fresh(n) # {}
  BY DEF Fresh, HasName, Types
<1>2. \E i \in Fresh(n) : \A j \in Fresh(n) : j <= i
  BY <1>1, GreatestExists
<1>3. m \in Fresh(n)
  BY <1>2
<1>4. m \in 1..Len(infos)
  BY <1>1, <1>3 DEF Types
<1>5. infos[m] \in Entries(PactNames)
  BY <1>4 DEF Types
<1>6. NameAt(n) = infos[m].name
  BY DEF NameAt
<1>7. QED
  BY <1>5, <1>6 DEF Entries

---------------------------------------------------------------------------
(* Saves.                                                                  *)

LEMMA SaveIsNotFree == Free \notin Save
<1>1. Free.pc = "free"
  BY DEF Free
<1>2. QED
  BY <1>1 DEF Save

\* What Persist(by) does: a slot f that was free holds a save that has to load.
Begun(f, by) ==
    /\ f \in Slots \ Active
    /\ saves' \in [Slots -> Save \cup {Free}]
    /\ saves'[f].pc = "load" /\ saves'[f].by = by
    /\ \A s \in Slots \ {f} : saves'[s] = saves[s]
    /\ Active' = Active \cup {f} /\ Captured' = Captured /\ f \in Loading'

LEMMA PersistBegins ==
    ASSUME Types, NEW by \in Owners, Persist(by)
    PROVE  \E f \in Slots : Begun(f, by)
<1> DEFINE r == [pc |-> "load", by |-> by, alone |-> TRUE, cfg |-> None]
           f == FreeSlot
<1>1. f \in Slots \ Active
  <2>1. Slots \ Active # {} /\ Slots \ Active \subseteq Nat
    BY PactInfoAssumption DEF Persist, HasSlot, Active
  <2>2. QED
    BY <2>1, LeastExists DEF FreeSlot
<1>2. r \in Save /\ r.pc = "load" /\ r.by = by /\ r # Free
  <2>1. r \in Save
    BY DEF Save
  <2>2. QED
    BY <2>1, SaveIsNotFree
<1>3. saves' = [saves EXCEPT ![f] = r]
  BY DEF Persist
<1> HIDE DEF r, f
<1>4. /\ saves' \in [Slots -> Save \cup {Free}] /\ saves'[f] = r
      /\ \A s \in Slots \ {f} : saves'[s] = saves[s]
  BY <1>1, <1>2, <1>3 DEF Types
<1>5. Active' = Active \cup {f}
  BY <1>1, <1>2, <1>4 DEF Active
<1>6. Captured' = Captured
  <2>1. \A s \in Active : s \in Slots \ {f} /\ saves'[s] = saves[s]
    BY <1>1, <1>4 DEF Active
  <2>2. QED
    BY <1>2, <1>4, <1>5, <2>1 DEF Captured
<1>7. f \in Loading'
  BY <1>2, <1>4, <1>5 DEF Loading
<1>8. QED
  BY <1>1, <1>2, <1>4, <1>5, <1>6, <1>7 DEF Begun

\* While a save has still to load, what the others hold does not matter.
LEMMA BegunKeeps ==
    ASSUME IInv, NEW by \in Owners, NEW f \in Slots, Begun(f, by), UNCHANGED <<disk, up>>, up,
           \A c \in Clients : request'[c].at = "saving" <=> request[c].at = "saving" \/ c = by,
           by \in Clients => request[by].at # "saving"
    PROVE  Waiting' /\ Alone' /\ Down' /\ ConfigIsKept'
<1>1. Waiting'
  <2>1. \A s \in Active : s # f /\ saves'[s] = saves[s] /\ s \in Slots
    BY DEF Begun, Active
  <2>2. \A c \in Clients : (\E s \in Active' : saves'[s].by = c)
                             <=> (\E s \in Active : saves[s].by = c) \/ c = by
    BY <2>1 DEF Begun
  <2>3. \A s \in Active : saves[s].by = by /\ by \in Clients => FALSE
    BY DEF IInv, Waiting
  <2>4. \A s, t \in Active' : saves'[s].by = saves'[t].by /\ saves'[s].by \in Clients => s = t
    BY <2>1, <2>3 DEF Begun, IInv, Waiting
  <2>5. QED
    BY <2>2, <2>4 DEF IInv, Waiting
<1>2. Alone'
  <2>1. \A s \in Captured : s \in Slots \ {f} /\ saves'[s] = saves[s]
    BY DEF Begun, Captured, Active
  <2>2. Loading' # {} /\ Captured' = Captured /\ tmp' = tmp
    BY DEF Begun, disk
  <2>3. QED
    BY <2>1, <2>2 DEF IInv, Alone
<1>3. Active' # {} /\ up'
  BY DEF Begun
<1>4. QED
  BY <1>1, <1>2, <1>3 DEF Down, ConfigIsKept

\* A step that leaves alone the saves, the disk, the memory and how far the view
\* is.
LEMMA AsideKeeps ==
    ASSUME IInv, Types', UNCHANGED <<viewed, reach, memory, disk, saves, up, raced>>,
           infos' = infos \/ \E e : infos' = Append(infos, e),
           \A c \in Clients : request'[c].at = "saving" <=> request[c].at = "saving"
    PROVE  IInv'
<1>1. UNCHANGED <<viewed, reach, pactName, displayName, file, tmp, saves, up, raced>>
  BY DEF memory, disk
<1>2. Active' = Active /\ Captured' = Captured /\ Loading' = Loading /\ Memory' = Memory
  BY <1>1 DEF Active, Captured, Loading, Memory
<1>3. reach > 0 => infos'[reach] = infos[reach]
  BY DEF IInv, Types
<1>4. Followed'
  BY <1>1, <1>3 DEF IInv, Followed, Types
<1>5. Waiting' /\ Alone' /\ Down' /\ ConfigIsKept'
  BY <1>1, <1>2 DEF IInv, Waiting, Alone, Down, ConfigIsKept
<1>6. QED
  BY <1>4, <1>5 DEF IInv

---------------------------------------------------------------------------
(* _persistConfig                                                          *)

LEMMA MemoryType == ASSUME Types PROVE Memory \in Contents
  BY DEF Types, Memory, Contents, Names

\* A save s that becomes r, where others may cease to be alone.
LEMMA SavesType ==
    ASSUME Types, NEW s \in Active, NEW r \in Save,
           \A t \in Slots : saves'[t] = IF t = s THEN r
                            ELSE IF t \in Captured THEN [saves[t] EXCEPT !.alone = FALSE] ELSE saves[t],
           r.by = saves[s].by, saves[s].pc = "load", r.pc # "load"
    PROVE  /\ \A t \in Slots : saves'[t] \in Save \cup {Free}
           /\ Active' = Active /\ Captured' = Captured \cup {s} /\ saves'[s] = r
           /\ \A t \in Active : saves'[t].by = saves[t].by
           /\ \A t \in Captured :
                 ~saves'[t].alone /\ saves'[t].pc = saves[t].pc /\ saves'[t].cfg = saves[t].cfg
<1>1. \A t \in Active : t \in Slots /\ saves[t] \in Save
  BY DEF Active, Types
<1>2. s \notin Captured /\ Captured \subseteq Active
  BY DEF Captured
<1>3. ASSUME NEW t \in Captured
      PROVE  /\ saves'[t] \in Save /\ ~saves'[t].alone /\ saves'[t].pc = saves[t].pc
             /\ saves'[t].cfg = saves[t].cfg /\ saves'[t].by = saves[t].by
  <2>1. saves[t] \in Save /\ t \in Slots /\ t # s
    BY <1>1, <1>2, <1>3
  <2>2. saves'[t] = [saves[t] EXCEPT !.alone = FALSE]
    BY <1>3, <2>1
  <2>3. QED
    BY <2>1, <2>2 DEF Save
<1>4. ASSUME NEW t \in Slots \ (Captured \cup {s}) PROVE saves'[t] = saves[t]
  OBVIOUS
<1>5. s \in Slots /\ saves'[s] = r
  BY <1>1
<1>6. \A t \in Slots : saves'[t] \in Save \cup {Free}
  BY <1>3, <1>4, <1>5 DEF Types
<1>7. \A t \in Slots : saves'[t] # Free <=> saves[t] # Free
  BY <1>1, <1>2, <1>3, <1>4, <1>5, SaveIsNotFree DEF Active
<1>8. Active' = Active
  BY <1>7 DEF Active
<1>9. Captured' = Captured \cup {s}
  <2>1. \A t \in Active : saves'[t].pc # "load" <=> t \in Captured \cup {s}
    BY <1>1, <1>3, <1>4, <1>5 DEF Captured
  <2>2. QED
    BY <1>2, <1>8, <2>1 DEF Captured
<1>10. \A t \in Active : saves'[t].by = saves[t].by
  BY <1>1, <1>3, <1>4, <1>5
<1>11. QED
  BY <1>3, <1>5, <1>6, <1>8, <1>9, <1>10

LEMMA CaptureKeeps == ASSUME IInv, NEW s \in Slots, Capture(s) PROVE IInv'
<1> DEFINE r == [saves[s] EXCEPT !.pc = "write", !.alone = Captured = {}, !.cfg = Memory]
<1>1. /\ Types /\ saves[s].pc = "load" /\ s \in Active /\ saves[s] \in Save
      /\ UNCHANGED <<creator, infos, posted, late, writable, viewed, reach, row, pactName,
                     displayName, file, tmp, announcing, request, up, raced>>
  <2>1. Types /\ saves[s].pc = "load"
    BY DEF Capture, IInv
  <2>2. saves[s] # Free
    BY <2>1 DEF Free
  <2>3. s \in Active /\ saves[s] \in Save
    BY <2>1, <2>2 DEF Types, Active
  <2>4. QED
    BY <2>1, <2>3 DEF Capture, ledger, view, memory, disk
<1>2. r \in Save
  BY <1>1, MemoryType DEF Save
<1>3. /\ r.pc = "write" /\ r.by = saves[s].by /\ r.cfg = Memory
      /\ r.alone => Captured = {}
  BY <1>1, <1>2 DEF Save
<1>4. saves' = [t \in Slots |->
            IF t = s THEN r
            ELSE IF t \in Captured THEN [saves[t] EXCEPT !.alone = FALSE] ELSE saves[t]]
  BY DEF Capture
<1> HIDE DEF r
<1>5. /\ \A t \in Slots : saves'[t] \in Save \cup {Free}
      /\ Active' = Active /\ Captured' = Captured \cup {s} /\ saves'[s] = r
      /\ \A t \in Active : saves'[t].by = saves[t].by
      /\ \A t \in Captured :
            ~saves'[t].alone /\ saves'[t].pc = saves[t].pc /\ saves'[t].cfg = saves[t].cfg
  BY <1>1, <1>2, <1>3, <1>4, SavesType
<1>6. Types'
  <2>1. saves' \in [Slots -> Save \cup {Free}]
    BY <1>4, <1>5
  <2>2. QED
    BY <1>1, <2>1 DEF Types
<1>7. Waiting'
  BY <1>1, <1>5 DEF IInv, Waiting
<1>8. Followed'
  BY <1>1 DEF IInv, Followed
<1>9. Memory' = Memory /\ Memory \in Contents
  BY <1>1, MemoryType DEF Memory
<1>10. Alone'
  <2>1. ASSUME NEW t \in Captured
        PROVE  (saves'[t].pc = "write" => saves'[t].cfg \in Contents) /\ ~saves'[t].alone
    BY <1>5 DEF IInv, Alone
  <2>2. /\ saves'[s].cfg = Memory' /\ saves'[s].pc = "write" /\ saves'[s].cfg \in Contents
        /\ saves'[s].alone => Captured' = {s}
    BY <1>3, <1>5, <1>9
  <2>3. QED
    BY <1>5, <2>1, <2>2 DEF Alone
<1>11. Down' /\ ConfigIsKept'
  BY <1>1, <1>5 DEF IInv, Down, ConfigIsKept
<1>12. QED
  BY <1>6, <1>7, <1>8, <1>10, <1>11 DEF IInv

LEMMA WriteKeeps == ASSUME IInv, NEW s \in Slots, Write(s) PROVE IInv'
<1> DEFINE r == [saves[s] EXCEPT !.pc = "rename", !.cfg = None]
<1>1. /\ Types /\ saves[s].pc = "write" /\ s \in Active /\ saves[s] \in Save /\ s \in Captured
      /\ tmp' = saves[s].cfg
      /\ UNCHANGED <<creator, infos, posted, late, writable, viewed, reach, row, pactName,
                     displayName, file, announcing, request, up, raced>>
  BY DEF Write, IInv, Types, Active, Captured, Free, ledger, view, memory
<1>2. r \in Save
  BY <1>1 DEF Save
<1>3. r.pc = "rename" /\ r.by = saves[s].by /\ r.alone = saves[s].alone /\ r # Free
  BY <1>1, <1>2, SaveIsNotFree DEF Save
<1>4. saves' = [saves EXCEPT ![s] = r]
  BY DEF Write
<1> HIDE DEF r
<1>5. /\ saves' \in [Slots -> Save \cup {Free}] /\ saves'[s] = r
      /\ \A t \in Slots \ {s} : saves'[t] = saves[t]
  BY <1>1, <1>2, <1>4 DEF Types
<1>6. Active' = Active
  BY <1>1, <1>3, <1>5 DEF Active
<1>7. Captured' = Captured /\ Loading' = Loading
  BY <1>1, <1>3, <1>5, <1>6 DEF Captured, Loading, Active
<1>8. saves[s].cfg \in Contents
  BY <1>1 DEF IInv, Alone
<1>9. Types'
  BY <1>1, <1>5, <1>8 DEF Types
<1>10. \A t \in Active : saves'[t].by = saves[t].by
  BY <1>3, <1>5 DEF Active
<1>11. Waiting' /\ Followed' /\ Down' /\ ConfigIsKept'
  BY <1>1, <1>6, <1>10 DEF IInv, Waiting, Followed, Down, ConfigIsKept
<1>12. Memory' = Memory
  BY <1>1 DEF Memory
<1>13. Alone'
  <2>1. ASSUME NEW t \in Captured \ {s}
        PROVE  saves'[t] = saves[t] /\ ~saves[t].alone /\ (saves[t].pc = "write" => saves[t].cfg \in Contents)
    BY <1>1, <1>5 DEF IInv, Alone, Captured, Active
  <2>2. saves'[s].alone =>
           /\ Captured' = {s} /\ saves'[s].pc = "rename" /\ tmp' # None
           /\ Loading' = {} => tmp' = Memory'
    <3>1. tmp' # None
      BY <1>1, <1>8, ContentsAssumption
    <3>2. saves[s].alone =>
             Captured = {s} /\ (Loading = {} => saves[s].cfg = Memory)
      BY <1>1 DEF IInv, Alone
    <3>3. QED
      BY <1>1, <1>3, <1>5, <1>7, <1>12, <3>1, <3>2
  <2>3. saves'[s].pc = "rename"
    BY <1>3, <1>5
  <2>4. QED
    BY <1>7, <2>1, <2>2, <2>3 DEF Alone
<1>14. QED
  BY <1>9, <1>11, <1>13 DEF IInv

\* The save ends: the request that waited for it is no longer saving.
LEMMA SettledType ==
    ASSUME IInv, NEW s \in Active, NEW ok \in BOOLEAN, request' = Settled(saves[s].by, ok)
    PROVE  /\ request' \in [Clients -> Request]
           /\ \A c \in Clients :
                 request'[c].at = "saving" <=> request[c].at = "saving" /\ c # saves[s].by
<1> DEFINE b == saves[s].by
<1>1. Types /\ b \in Owners
  BY DEF IInv, Types, Active, Save
<1>2. CASE b \notin Clients
  BY <1>1, <1>2 DEF Settled, Types
<1>3. CASE b \in Clients /\ ok
  <2> DEFINE r == [request[b] EXCEPT !.at = "saved"]
  <2>1. request[b].at = "saving" /\ request[b] \in Request
    BY <1>1, <1>3 DEF IInv, Waiting, Types
  <2>2. request[b] \in [at : {"saving", "saved"}, name : Names]
    BY <2>1 DEF Request, Idle, Informed
  <2>3. r \in [at : {"saving", "saved"}, name : Names] /\ r.at = "saved"
    BY <2>2
  <2>4. request' = [request EXCEPT ![b] = r]
    BY <1>3 DEF Settled
  <2> HIDE DEF r, b
  <2>5. r \in Request
    BY <2>3 DEF Request
  <2>6. QED
    BY <1>1, <1>3, <2>3, <2>4, <2>5 DEF Types, b
<1>4. CASE b \in Clients /\ ~ok
  <2>1. request' = [request EXCEPT ![b] = Idle] /\ Idle.at = "idle" /\ Idle \in Request
    BY <1>4 DEF Settled, Idle, Request
  <2> HIDE DEF b
  <2>2. QED
    BY <1>1, <1>4, <2>1 DEF Types, b
<1>5. QED
  BY <1>2, <1>3, <1>4

LEMMA CommitKeeps == ASSUME IInv, NEW s \in Slots, Commit(s) PROVE IInv'
<1>1. /\ Types /\ saves[s].pc = "rename" /\ s \in Active /\ saves[s] \in Save /\ s \in Captured
      /\ saves' = [saves EXCEPT ![s] = Free] /\ raced' = ~saves[s].alone
      /\ request' = Settled(saves[s].by, tmp # None)
      /\ UNCHANGED <<creator, infos, posted, late, writable, viewed, reach, row, pactName,
                     displayName, announcing, up>>
  <2>1. Types /\ saves[s].pc = "rename" /\ s \in Active /\ saves[s] \in Save
    BY DEF Commit, IInv, Types, Active, Free
  <2>2. s \in Captured
    BY <2>1 DEF Captured
  <2>3. QED
    BY <2>1, <2>2 DEF Commit, ledger, view, memory
<1>2. /\ saves' \in [Slots -> Save \cup {Free}] /\ saves'[s] = Free
      /\ \A t \in Slots \ {s} : saves'[t] = saves[t]
  BY <1>1 DEF Types
<1>3. /\ Active' = Active \ {s} /\ Captured' = Captured \ {s} /\ Loading' = Loading
      /\ \A t \in Active' : saves'[t] = saves[t]
  <2>1. Active' = Active \ {s} /\ \A t \in Active' : saves'[t] = saves[t]
    BY <1>2 DEF Active
  <2>2. QED
    BY <1>1, <2>1 DEF Captured, Loading
<1>4. /\ request' \in [Clients -> Request]
      /\ \A c \in Clients :
            request'[c].at = "saving" <=> request[c].at = "saving" /\ c # saves[s].by
  BY <1>1, SettledType
<1>5. /\ file' \in Contents /\ tmp' \in Contents \cup {None}
      /\ tmp # None => file' = tmp
  BY <1>1 DEF Commit, disk, Types
<1>6. Types'
  <2>1. raced' \in BOOLEAN
    BY <1>1
  <2>2. QED
    BY <1>1, <1>2, <1>4, <1>5, <2>1 DEF Types
<1>7. Waiting'
  <2>1. \A c \in Clients : (\E t \in Active' : saves'[t].by = c)
                           <=> (\E t \in Active : saves[t].by = c) /\ c # saves[s].by
    BY <1>1, <1>3 DEF IInv, Waiting
  <2>2. QED
    BY <1>3, <1>4, <2>1 DEF IInv, Waiting
<1>8. Followed' /\ Down'
  BY <1>1, <1>3 DEF IInv, Followed, Down
<1>9. Alone'
  <2>1. \A t \in Captured' : t \in Captured /\ t # s /\ saves'[t] = saves[t] /\ ~saves[t].alone
    BY <1>1, <1>3 DEF IInv, Alone, Captured
  <2>2. QED
    BY <2>1 DEF IInv, Alone
<1>10. ConfigIsKept'
  <2> SUFFICES ASSUME Active' = {}, ~raced' PROVE file' = Memory'
    BY DEF ConfigIsKept
  <2>1. saves[s].alone
    BY <1>1
  <2>2. Loading = {}
    BY <1>3 DEF Loading
  <2>3. tmp # None /\ tmp = Memory
    BY <1>1, <2>1, <2>2 DEF IInv, Alone
  <2>4. QED
    BY <1>1, <1>5, <2>3 DEF Memory
<1>11. QED
  BY <1>6, <1>7, <1>8, <1>9, <1>10 DEF IInv

---------------------------------------------------------------------------
(* The memory changes.                                                     *)

LEMMA ApplyInfoKeeps == ASSUME IInv, ApplyInfo PROVE IInv'
<1>1. /\ Types /\ up /\ viewed \in Nat /\ viewed < Len(infos) /\ viewed' = viewed + 1
      /\ reach' = IF viewed < reach THEN reach ELSE viewed + 1
      /\ pactName' = infos[viewed + 1].name
      /\ IF pactName' = pactName THEN UNCHANGED saves ELSE Persist("hook")
      /\ UNCHANGED <<creator, infos, posted, late, writable, row, displayName, file, tmp, announcing,
                     request, up, raced>>
  BY DEF ApplyInfo, IInv, Types, ledger, disk
<1>2. infos[viewed + 1] \in Entries(PactNames)
  BY <1>1 DEF Types
<1>3. pactName' \in PactNames
  BY <1>1, <1>2 DEF Entries
<1>4. /\ viewed' \in Nat /\ reach' \in Nat /\ viewed' <= reach' /\ reach' <= Len(infos)
      /\ viewed' = reach' => pactName' = infos[reach'].name
  BY <1>1 DEF Types
<1>5. Followed'
  BY <1>1, <1>4 DEF Followed
<1>6. CASE pactName' = pactName
  <2>1. UNCHANGED <<pactName, displayName, file, tmp, saves, up, raced, request>>
    BY <1>1, <1>6
  <2>2. Types'
    BY <1>1, <1>3, <1>4, <2>1 DEF Types
  <2>3. Active' = Active /\ Captured' = Captured /\ Loading' = Loading /\ Memory' = Memory
    BY <2>1 DEF Active, Captured, Loading, Memory
  <2>4. Waiting' /\ Alone' /\ Down' /\ ConfigIsKept'
    BY <2>1, <2>3 DEF IInv, Waiting, Alone, Down, ConfigIsKept
  <2>5. QED
    BY <1>5, <2>2, <2>4 DEF IInv
<1>7. CASE pactName' # pactName
  <2>1. PICK f \in Slots : Begun(f, "hook")
    BY <1>1, <1>7, PersistBegins DEF Owners
  <2>2. Types'
    BY <1>1, <1>3, <1>4, <2>1 DEF Types, Begun
  <2>3. Waiting' /\ Alone' /\ Down' /\ ConfigIsKept'
    BY <1>1, <2>1, BegunKeeps, ContentsAssumption DEF Owners, disk
  <2>4. QED
    BY <1>5, <2>2, <2>3 DEF IInv
<1>8. QED
  BY <1>6, <1>7

LEMMA SetDisplayNameKeeps ==
    ASSUME IInv, NEW c \in Clients, NEW n \in Names, SetDisplayName(c, n)
    PROVE  IInv'
<1> DEFINE r == [at |-> "saving", name |-> n]
<1>1. /\ Types /\ up /\ request[c] = Idle /\ displayName' = n /\ Persist(c)
      /\ request' = [request EXCEPT ![c] = r]
      /\ UNCHANGED <<creator, infos, posted, late, writable, viewed, reach, row, pactName, file, tmp,
                     announcing, up, raced>>
  BY DEF SetDisplayName, IInv, ledger, view, disk
<1>2. r \in Request /\ r.at = "saving"
  BY DEF Request
<1> HIDE DEF r
<1>3. PICK f \in Slots : Begun(f, c)
  BY <1>1, PersistBegins DEF Owners
<1>4. request[c].at # "saving"
  BY <1>1 DEF Idle
<1>5. /\ request' \in [Clients -> Request]
      /\ \A d \in Clients : request'[d].at = "saving" <=> request[d].at = "saving" \/ d = c
  BY <1>1, <1>2 DEF Types
<1>6. Types'
  BY <1>1, <1>3, <1>5 DEF Types, Begun
<1>7. Waiting' /\ Alone' /\ Down' /\ ConfigIsKept'
  BY <1>1, <1>3, <1>4, <1>5, BegunKeeps DEF Owners, disk
<1>8. Followed'
  BY <1>1 DEF IInv, Followed
<1>9. QED
  BY <1>6, <1>7, <1>8 DEF IInv

---------------------------------------------------------------------------
(* The steps beside them.                                                  *)

LEMMA PostType ==
    ASSUME Types, NEW n \in Names, Post(n)
    PROVE  posted' \in Seq(Entries(AgentNames)) /\ late' \in BOOLEAN
<1>1. CASE n = None
  BY <1>1 DEF Post, Types
<1>2. CASE n # None
  <2>1. [name |-> n, fresh |-> late] \in Entries(AgentNames)
    BY <1>2 DEF Entries, Names, Types
  <2>2. posted \in Seq(Entries(AgentNames))
    BY DEF Types
  <2>3. posted' = Append(posted, [name |-> n, fresh |-> late]) /\ late' = FALSE
    BY <1>2 DEF Post
  <2>4. posted' \in Seq(Entries(AgentNames))
    BY <2>1, <2>2, <2>3
  <2>5. QED
    BY <2>3, <2>4
<1>3. QED
  BY <1>1, <1>2

LEMMA ApplyPostedKeeps == ASSUME IInv, ApplyPosted PROVE IInv'
<1>1. /\ Types /\ posted # <<>> /\ posted' = Tail(posted)
      /\ UNCHANGED <<creator, infos, late, writable, viewed, reach, pactName, displayName,
                     file, tmp, announcing, request, saves, up, raced>>
  BY DEF ApplyPosted, IInv, memory, disk, work
<1>2. posted' \in Seq(Entries(AgentNames)) /\ Head(posted) \in Entries(AgentNames)
  BY <1>1 DEF Types
<1>3. row' \in Names
  BY <1>1, <1>2 DEF ApplyPosted, UpsertAgentName, Entries, Names, Types
<1>4. Types'
  BY <1>1, <1>2, <1>3 DEF Types
<1>5. QED
  BY <1>1, <1>4, AsideKeeps DEF memory, disk

\* Admit, Tick and SetClockBack: flags alone.
LEMMA FlagsKeep ==
    ASSUME IInv, writable' \in BOOLEAN, late' \in BOOLEAN, creator => writable',
           UNCHANGED <<creator, infos, posted, view, memory, disk, work, up, raced>>
    PROVE  IInv'
<1>1. /\ Types
      /\ UNCHANGED <<creator, infos, posted, viewed, reach, row, pactName, displayName,
                     file, tmp, announcing, request, saves, up, raced>>
  BY DEF IInv, view, memory, disk, work
<1>2. Types'
  BY <1>1 DEF Types
<1>3. QED
  BY <1>1, <1>2, AsideKeeps DEF memory, disk

LEMMA EntryAppended ==
    ASSUME Types, NEW n \in PactNames, NEW fresh \in BOOLEAN,
           infos' = Append(infos, [name |-> n, fresh |-> fresh])
    PROVE  infos' \in Seq(Entries(PactNames)) /\ reach <= Len(infos')
<1>1. [name |-> n, fresh |-> fresh] \in Entries(PactNames) /\ infos \in Seq(Entries(PactNames))
  BY DEF Entries, Types
<1>2. infos' \in Seq(Entries(PactNames)) /\ Len(infos') = Len(infos) + 1
  BY <1>1
<1>3. QED
  BY <1>2 DEF Types

LEMMA OtherSetsInfoKeeps ==
    ASSUME IInv, NEW n \in PactNames, NEW fresh \in BOOLEAN, OtherSetsInfo(n, fresh)
    PROVE  IInv'
<1>1. /\ Types /\ infos' = Append(infos, [name |-> n, fresh |-> fresh])
      /\ UNCHANGED <<creator, posted, late, writable, viewed, reach, row, pactName, displayName,
                     file, tmp, announcing, request, saves, up, raced>>
  BY DEF OtherSetsInfo, IInv, view, memory, disk, work
<1>2. infos' \in Seq(Entries(PactNames)) /\ reach <= Len(infos')
  BY <1>1, EntryAppended
<1>3. Types'
  BY <1>1, <1>2 DEF Types
<1>4. QED
  BY <1>1, <1>3, AsideKeeps DEF memory, disk

\* A request that goes on without a save.
LEMMA RequestMoves ==
    ASSUME Types, NEW c \in Clients, NEW r \in {Idle, Informed}, request[c].at # "saving",
           request' = [request EXCEPT ![c] = r]
    PROVE  /\ request' \in [Clients -> Request]
           /\ \A d \in Clients : request'[d].at = "saving" <=> request[d].at = "saving"
<1>1. r.at # "saving" /\ r \in Request
  BY DEF Idle, Informed, Request
<1>2. QED
  BY <1>1 DEF Types

LEMMA SetPactInfoKeeps ==
    ASSUME IInv, NEW c \in Clients, NEW n \in PactNames, NEW fresh \in BOOLEAN,
           SetPactInfo(c, n, fresh)
    PROVE  IInv'
<1>1. /\ Types /\ request[c] = Idle /\ infos' = Append(infos, [name |-> n, fresh |-> fresh])
      /\ posted' = IF displayName = None THEN posted
                   ELSE Append(posted, [name |-> displayName, fresh |-> late])
      /\ late' = (late /\ displayName = None)
      /\ request' = [request EXCEPT ![c] = Informed]
      /\ UNCHANGED <<creator, writable, viewed, reach, row, pactName, displayName,
                     file, tmp, announcing, saves, up, raced>>
  BY DEF SetPactInfo, Informed, IInv, view, memory, disk
<1>2. infos' \in Seq(Entries(PactNames)) /\ reach <= Len(infos')
  BY <1>1, EntryAppended
<1>3. posted' \in Seq(Entries(AgentNames))
  <2>1. posted \in Seq(Entries(AgentNames))
    BY <1>1 DEF Types
  <2>2. displayName # None => [name |-> displayName, fresh |-> late] \in Entries(AgentNames)
    BY <1>1 DEF Types, Names, Entries
  <2>3. QED
    BY <1>1, <2>1, <2>2
<1>4. late' \in BOOLEAN
  BY <1>1 DEF Types
<1>5. request[c].at # "saving"
  BY <1>1 DEF Idle
<1>6. /\ request' \in [Clients -> Request]
      /\ \A d \in Clients : request'[d].at = "saving" <=> request[d].at = "saving"
  BY <1>1, <1>5, RequestMoves
<1>7. Types'
  BY <1>1, <1>2, <1>3, <1>4, <1>6 DEF Types
<1>8. QED
  BY <1>1, <1>6, <1>7, AsideKeeps DEF memory, disk

\* AnnouncePactInfoChange and AnnounceDisplayName: a request ends with a message,
\* or without.
LEMMA AnnouncedKeeps ==
    ASSUME IInv, NEW c \in Clients, NEW n \in Names, request[c].at # "saving",
           Post(n) \/ UNCHANGED <<posted, late>>,
           request' = [request EXCEPT ![c] = Idle],
           UNCHANGED <<creator, infos, writable, view, memory, disk, announcing, saves, up, raced>>
    PROVE  IInv'
<1>1. /\ Types
      /\ UNCHANGED <<creator, infos, writable, viewed, reach, row, pactName, displayName,
                     file, tmp, announcing, saves, up, raced>>
  BY DEF IInv, view, memory, disk
<1>2. posted' \in Seq(Entries(AgentNames)) /\ late' \in BOOLEAN
  <2>1. CASE Post(n)
    BY <1>1, <2>1, PostType
  <2>2. CASE UNCHANGED <<posted, late>>
    BY <1>1, <2>2 DEF Types
  <2>3. QED
    BY <2>1, <2>2
<1>3. /\ request' \in [Clients -> Request]
      /\ \A d \in Clients : request'[d].at = "saving" <=> request[d].at = "saving"
  BY <1>1, RequestMoves
<1>4. Types'
  BY <1>1, <1>2, <1>3 DEF Types
<1>5. QED
  BY <1>1, <1>3, <1>4, AsideKeeps DEF memory, disk

LEMMA AnnouncePactInfoChangeKeeps ==
    ASSUME IInv, NEW c \in Clients, AnnouncePactInfoChange(c)
    PROVE  IInv'
<1>1. displayName \in Names
  BY DEF IInv, Types
<1>2. QED
  BY <1>1, AnnouncedKeeps DEF AnnouncePactInfoChange

LEMMA AnnounceDisplayNameKeeps ==
    ASSUME IInv, NEW c \in Clients, AnnounceDisplayName(c)
    PROVE  IInv'
<1>1. request[c] \in Request /\ request[c].at = "saved"
  BY DEF AnnounceDisplayName, IInv, Types
<1>2. request[c].name \in Names
  BY <1>1 DEF Request, Idle, Informed
<1>3. QED
  BY <1>1, <1>2, AnnouncedKeeps DEF AnnounceDisplayName

\* AppendOther and the announcement of a stale name: a message, or none.
LEMMA StaleKeeps ==
    ASSUME IInv, NEW n \in Names, Post(n) \/ UNCHANGED <<posted, late>>,
           announcing' \in Announcing,
           UNCHANGED <<creator, infos, writable, view, memory, disk, request, saves, up, raced>>
    PROVE  IInv'
<1>1. /\ Types
      /\ UNCHANGED <<creator, infos, writable, viewed, reach, row, pactName, displayName,
                     file, tmp, request, saves, up, raced>>
  BY DEF IInv, view, memory, disk
<1>2. posted' \in Seq(Entries(AgentNames)) /\ late' \in BOOLEAN
  <2>1. CASE Post(n)
    BY <1>1, <2>1, PostType
  <2>2. CASE UNCHANGED <<posted, late>>
    BY <1>1, <2>2 DEF Types
  <2>3. QED
    BY <2>1, <2>2
<1>3. Types'
  BY <1>1, <1>2 DEF Types
<1>4. QED
  BY <1>1, <1>3, AsideKeeps DEF memory, disk

LEMMA AppendOtherKeeps == ASSUME IInv, AppendOther PROVE IInv'
<1>1. displayName \in Names /\ announcing \in Announcing
  BY DEF IInv, Types
<1>2. QED
  BY <1>1, StaleKeeps DEF AppendOther, work

LEMMA StaleStartKeeps == ASSUME IInv, StaleStart PROVE IInv'
<1>1. displayName \in Names /\ displayName # None
  BY DEF StaleStart, IInv, Types
<1>2. announcing' \in Announcing
  BY <1>1 DEF StaleStart, Announcing, Names
<1>3. QED
  BY <1>1, <1>2, StaleKeeps DEF StaleStart, ledger

LEMMA StaleReadKeeps == ASSUME IInv, StaleRead PROVE IInv'
<1>1. announcing \in Announcing /\ announcing.at = "reading"
  BY DEF StaleRead, IInv, Types
<1>2. announcing.name \in Names
  BY <1>1 DEF Announcing, Idle, Appending, Names
<1>3. announcing' \in Announcing
  BY DEF StaleRead, Announcing, Appending
<1>4. QED
  BY <1>2, <1>3, StaleKeeps DEF StaleRead

LEMMA StaleDoneKeeps == ASSUME IInv, StaleDone PROVE IInv'
<1>1. announcing' \in Announcing /\ None \in Names
  BY DEF StaleDone, Announcing, Names
<1>2. QED
  BY <1>1, StaleKeeps DEF StaleDone, ledger

---------------------------------------------------------------------------
(* The view is undone, and the process stops and starts.                   *)

LEMMA RewindKeeps == ASSUME IInv, Rewind PROVE IInv'
<1>1. /\ Types /\ viewed > 0 /\ viewed = reach /\ viewed' \in 0..(viewed - 1)
      /\ UNCHANGED <<creator, infos, posted, late, writable, reach, row, pactName, displayName,
                     file, tmp, announcing, request, saves, up, raced>>
  BY DEF Rewind, IInv, ledger, memory, disk, work
<1>2. viewed' \in Nat /\ viewed' < reach'
  BY <1>1 DEF Types
<1>3. Types'
  BY <1>1, <1>2 DEF Types
<1>4. Followed'
  BY <1>1, <1>2 DEF Followed, Types
<1>5. Active' = Active /\ Captured' = Captured /\ Loading' = Loading /\ Memory' = Memory
  BY <1>1 DEF Active, Captured, Loading, Memory
<1>6. Waiting' /\ Alone' /\ Down' /\ ConfigIsKept'
  BY <1>1, <1>5 DEF IInv, Waiting, Alone, Down, ConfigIsKept
<1>7. QED
  BY <1>3, <1>4, <1>6 DEF IInv

LEMMA NoneActive ==
    ASSUME saves = [s \in Slots |-> Free]
    PROVE  Active = {} /\ Captured = {}
  BY DEF Active, Captured

LEMMA CrashKeeps == ASSUME IInv, Crash PROVE IInv'
<1>1. /\ Types /\ up' = FALSE /\ announcing' = Idle /\ request' = [c \in Clients |-> Idle]
      /\ saves' = [s \in Slots |-> Free]
      /\ UNCHANGED <<creator, infos, posted, late, writable, viewed, reach, row, pactName,
                     displayName, file, tmp, raced>>
  BY DEF Crash, IInv, ledger, view, memory, disk
<1>2. Active' = {} /\ Captured' = {}
  BY <1>1 DEF Active, Captured
<1>3. Idle \in Announcing /\ Idle \in Request /\ Idle.at # "saving"
  BY DEF Announcing, Request, Idle
<1>4. Types'
  BY <1>1, <1>3 DEF Types
<1>5. Waiting' /\ Alone' /\ Down'
  BY <1>1, <1>2, <1>3 DEF Waiting, Alone, Down
<1>6. Followed' /\ ConfigIsKept'
  BY <1>1 DEF Followed, ConfigIsKept
<1>7. QED
  BY <1>4, <1>5, <1>6 DEF IInv

LEMMA LoadKeeps == ASSUME IInv, Load PROVE IInv'
<1>1. /\ Types /\ ~up /\ up' = TRUE /\ displayName' = file.own /\ raced' = FALSE
      /\ pactName' = IF HasName(viewed) THEN NameAt(viewed) ELSE file.pact
      /\ IF pactName' = file.pact THEN UNCHANGED <<file, tmp>>
         ELSE file' = [file EXCEPT !.pact = pactName'] /\ tmp' = None
      /\ UNCHANGED <<creator, infos, posted, late, writable, viewed, reach, row, announcing,
                     request, saves>>
  BY DEF Load, IInv, ledger, view, work, disk
<1>2. file \in Contents /\ file.pact \in PactNames /\ file.own \in Names
  BY <1>1 DEF Types, Contents, Names
<1>3. pactName' \in PactNames
  BY <1>1, <1>2, NameAtType DEF Types
<1>4. /\ file' \in Contents /\ file' = [pact |-> pactName', own |-> displayName']
      /\ tmp' \in Contents \cup {None}
  BY <1>1, <1>2, <1>3 DEF Types, Contents, Names
<1>5. Types'
  BY <1>1, <1>2, <1>3, <1>4 DEF Types
<1>6. Active' = {} /\ Active = {} /\ Captured' = {}
  BY <1>1 DEF IInv, Down, Active, Captured
<1>7. Waiting'
  BY <1>1, <1>6 DEF IInv, Waiting
<1>8. Followed'
  <2> SUFFICES ASSUME viewed = reach, reach > 0, infos[reach].fresh
               PROVE  pactName' = infos[reach].name
    BY <1>1 DEF Followed
  <2>1. reach \in 1..Len(infos)
    BY <1>1 DEF Types
  <2>2. HasName(reach) /\ NameAt(reach) = infos[reach].name
    BY <1>1, <2>1, FreshNameIsLast
  <2>3. QED
    BY <1>1, <2>2
<1>9. Alone' /\ Down' /\ ConfigIsKept'
  BY <1>1, <1>4, <1>6 DEF Alone, Down, ConfigIsKept, Memory
<1>10. QED
  BY <1>5, <1>7, <1>8, <1>9 DEF IInv

---------------------------------------------------------------------------

LEMMA InitHolds == Init => IInv
<1> SUFFICES ASSUME Init PROVE IInv
  OBVIOUS
<1>1. Active = {} /\ Captured = {}
  BY DEF Init, Active, Captured
<1>2. FirstPactName \in PactNames /\ FirstName \in AgentNames
  BY PactInfoAssumption
<1>3. pactName \in PactNames /\ displayName \in Names /\ Memory \in Contents
  BY <1>2 DEF Init, Memory, Contents, Names
<1>4. Idle \in Announcing /\ Idle \in Request /\ Idle.at # "saving"
  BY DEF Announcing, Request, Idle
<1>5. Types
  <2>1. /\ creator \in BOOLEAN /\ writable \in BOOLEAN /\ up \in BOOLEAN /\ late \in BOOLEAN
        /\ raced \in BOOLEAN /\ (creator => writable)
    BY DEF Init
  <2>2. /\ infos = <<>> /\ posted = <<>> /\ infos \in Seq(Entries(PactNames))
        /\ posted \in Seq(Entries(AgentNames)) /\ Len(infos) = 0 /\ viewed = 0 /\ reach = 0
    BY DEF Init
  <2>3. row \in Names /\ file \in Contents /\ tmp \in Contents \cup {None}
    BY <1>3 DEF Init, Names
  <2>4. announcing \in Announcing /\ saves \in [Slots -> Save \cup {Free}]
        /\ request \in [Clients -> Request]
    BY <1>4 DEF Init
  <2>5. viewed \in Nat /\ reach \in Nat /\ viewed <= reach /\ reach <= Len(infos)
    BY <2>2
  <2>6. QED
    BY <1>3, <2>1, <2>2, <2>3, <2>4, <2>5 DEF Types
<1>6. Waiting /\ Alone /\ Down
  BY <1>1, <1>4 DEF Init, Waiting, Alone, Down
<1>7. Followed /\ ConfigIsKept
  BY DEF Init, Followed, ConfigIsKept
<1>8. QED
  BY <1>5, <1>6, <1>7 DEF IInv

LEMMA StepKeeps == IInv /\ [Next]_vars => IInv'
<1> SUFFICES ASSUME IInv, [Next]_vars PROVE IInv'
  OBVIOUS
<1>1. ASSUME NEW s \in Slots, Capture(s) \/ Write(s) \/ Commit(s) PROVE IInv'
  BY <1>1, CaptureKeeps, WriteKeeps, CommitKeeps
<1>2. CASE ApplyInfo \/ ApplyPosted \/ Rewind
  BY <1>2, ApplyInfoKeeps, ApplyPostedKeeps, RewindKeeps
<1>3. CASE Admit
  BY <1>3, FlagsKeep DEF Admit, ledger, IInv, Types
<1>4. ASSUME NEW n \in PactNames, NEW fresh \in BOOLEAN, OtherSetsInfo(n, fresh) PROVE IInv'
  BY <1>4, OtherSetsInfoKeeps
<1>5. ASSUME NEW n \in PactNames, NEW fresh \in BOOLEAN, NEW c \in Clients, SetPactInfo(c, n, fresh)
      PROVE  IInv'
  BY <1>5, SetPactInfoKeeps
<1>6. ASSUME NEW c \in Clients, NEW n \in AgentNames \cup {None}, SetDisplayName(c, n) PROVE IInv'
  BY <1>6, SetDisplayNameKeeps DEF Names
<1>7. ASSUME NEW c \in Clients, AnnouncePactInfoChange(c) \/ AnnounceDisplayName(c) PROVE IInv'
  BY <1>7, AnnouncePactInfoChangeKeeps, AnnounceDisplayNameKeeps
<1>8. CASE AppendOther \/ StaleStart \/ StaleRead \/ StaleDone
  BY <1>8, AppendOtherKeeps, StaleStartKeeps, StaleReadKeeps, StaleDoneKeeps
<1>9. CASE Tick
  BY <1>9, FlagsKeep DEF Tick, IInv, Types
<1>10. CASE SetClockBack
  BY <1>10, FlagsKeep DEF SetClockBack, IInv, Types
<1>11. CASE Crash \/ Load
  BY <1>11, CrashKeeps, LoadKeeps
<1>12. CASE UNCHANGED vars
  BY <1>12, FlagsKeep DEF vars, ledger, IInv, Types
<1>13. QED
  BY <1>1, <1>2, <1>3, <1>4, <1>5, <1>6, <1>7, <1>8, <1>9, <1>10, <1>11, <1>12 DEF Next

---------------------------------------------------------------------------
(* What holds of the system.                                               *)

\* Whatever the requests, saves and restarts, the invariant holds of the names a
\* daemon keeps.
THEOREM Invariant == Spec => []IInv
<1>1. Init => IInv
  BY InitHolds
<1>2. IInv /\ [Next]_vars => IInv'
  BY StepKeeps
<1>3. QED
  BY <1>1, <1>2, PTL DEF Spec

\* The state keeps its types: config.json always holds a complete configuration,
\* and a request waits for a save just as long as there is one of it.
THEOREM TypeCorrect == Spec => []TypeOK
<1>1. IInv => TypeOK
  <2> SUFFICES ASSUME IInv PROVE TypeOK
    OBVIOUS
  <2>1. Types /\ Waiting
    BY DEF IInv
  <2>2. announcing.at \in {"idle", "reading", "appending"}
    BY <2>1 DEF Types, Announcing, Idle, Appending
  <2>3. \A s \in Active : saves[s] \in Save
    BY <2>1 DEF Types, Active
  <2>4. \A s \in Active : /\ saves[s].pc \in {"load", "write", "rename"}
                         /\ saves[s].by \in Owners /\ saves[s].cfg \in Contents \cup {None}
    BY <2>3 DEF Save
  <2>5. \A c \in Clients : request[c].at \in {"idle", "saving", "saved", "informed"}
    BY <2>1 DEF Types, Request, Idle, Informed
  <2>6. \A c \in Clients : request[c].at = "saving" <=> \E s \in Active : saves[s].by = c
    BY <2>1 DEF Waiting
  <2>7. /\ {creator, writable, up, late, raced} \subseteq BOOLEAN
        /\ creator => writable
        /\ infos \in Seq(Entries(PactNames)) /\ posted \in Seq(Entries(AgentNames))
        /\ row \in AgentNames \cup {None} /\ viewed <= reach /\ reach <= Len(infos)
        /\ pactName \in PactNames /\ displayName \in AgentNames \cup {None}
        /\ file \in Contents /\ tmp \in Contents \cup {None}
    BY <2>1 DEF Types, Names
  <2>8. QED
    BY <2>2, <2>4, <2>5, <2>6, <2>7 DEF TypeOK
<1>2. QED
  BY <1>1, Invariant, PTL

\* The pact name shown is the newest of the view once the view has caught up,
\* whatever has been applied again and wherever the daemon was restarted.
THEOREM PactNameSynced == Spec => []NameIsSynced
<1>1. IInv => NameIsSynced
  <2> SUFFICES ASSUME IInv, up, viewed = reach, reach > 0, infos[reach].fresh
               PROVE  pactName = NameAt(reach)
    BY DEF NameIsSynced
  <2>1. Types /\ reach \in 1..Len(infos) /\ pactName = infos[reach].name
    BY DEF IInv, Types, Followed
  <2>2. QED
    BY <2>1, FreshNameIsLast
<1>2. QED
  BY <1>1, Invariant, PTL

\* Without overlapping saves the configuration on disk is what memory holds as
\* soon as no save is under way: a restart shows the same names.
THEOREM NamesAreKept == Spec => []ConfigIsKept
<1>1. IInv => ConfigIsKept
  BY DEF IInv
<1>2. QED
  BY <1>1, Invariant, PTL
==============================================================================
