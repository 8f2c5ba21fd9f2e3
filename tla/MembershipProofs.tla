-------------------------- MODULE MembershipProofs --------------------------
(***************************************************************************)
(* Theorems about Membership, for any daemons, nonces and bounds.          *)
(***************************************************************************)
EXTENDS Membership, WellFoundedInduction, TLAPS

---------------------------------------------------------------------------
(* Types.                                                                  *)

\* The implicit first member and indexer keep a view typed.
LEMMA BootstrapType ==
    ASSUME NEW v \in View, NEW w \in Daemons
    PROVE  Bootstrap(v, w) \in View /\ Bootstrap(v, w).seen = v.seen
<1> DEFINE members == IF v.members = {} THEN {w} ELSE v.members
           indexers == IF v.indexers = {} THEN {w} ELSE v.indexers
<1>1. members \in SUBSET Daemons /\ indexers \in SUBSET Daemons
  BY DEF View
<1>2. Bootstrap(v, w) = [v EXCEPT !.members = members, !.indexers = indexers]
  BY DEF Bootstrap
<1> HIDE DEF members, indexers
<1> QED BY <1>1, <1>2 DEF View

\* What the bootstrap does to each field.
LEMMA BootstrapFields ==
    ASSUME NEW v \in View, NEW w \in Daemons
    PROVE  LET b == Bootstrap(v, w)
           IN /\ b.members = IF v.members = {} THEN {w} ELSE v.members
              /\ b.indexers = IF v.indexers = {} THEN {w} ELSE v.indexers
              /\ b.writers = v.writers /\ b.sysIndexers = v.sysIndexers
              /\ b.spent = v.spent /\ b.admits = v.admits /\ b.removed = v.removed
              /\ b.halted = v.halted
<1> DEFINE members == IF v.members = {} THEN {w} ELSE v.members
           indexers == IF v.indexers = {} THEN {w} ELSE v.indexers
<1>1. Bootstrap(v, w) = [v EXCEPT !.members = members, !.indexers = indexers]
  BY DEF Bootstrap
<1> HIDE DEF members, indexers
<1>2. LET b == Bootstrap(v, w)
      IN /\ b.members = members /\ b.indexers = indexers
         /\ b.writers = v.writers /\ b.sysIndexers = v.sysIndexers
         /\ b.spent = v.spent /\ b.admits = v.admits /\ b.removed = v.removed
         /\ b.halted = v.halted
  BY <1>1 DEF View
<1> QED BY <1>2 DEF members, indexers

\* What the kind of a block says of its other fields.
LEMMA NodeFacts ==
    ASSUME NEW node \in NodeType
    PROVE  /\ node.kind = "redeemed" => node.nonce \in Nonces /\ node.key \in Daemons
           /\ node.kind = "add" => /\ node.nonce \in Nonces \cup {None}
                                  /\ node.key \in Daemons
                                  /\ node.indexer \in BOOLEAN
           /\ node.kind \in {"remove", "leave"} => node.key \in Daemons
           /\ node.kind \in {"entry", "add", "remove", "leave", "redeemed"}
<1>1. CASE node = Entry
  BY <1>1 DEF Entry, Node
<1>2. CASE node \in [kind : {"add"}, key : Daemons, nonce : Nonces \cup {None}, indexer : BOOLEAN]
  BY <1>2
<1>3. CASE node \in [kind : {"remove", "leave"}, key : Daemons, nonce : {None}, indexer : {FALSE}]
  BY <1>3
<1>4. CASE node \in [kind : {"redeemed"}, key : Daemons, nonce : Nonces, indexer : {FALSE}]
  BY <1>4
<1> QED BY <1>1, <1>2, <1>3, <1>4 DEF NodeType

\* Autobase.addWriter keeps a view typed.
LEMMA HostAddType ==
    ASSUME NEW v \in View, NEW node \in NodeType, node.kind = "add"
    PROVE  HostAddWriter(v, node) \in View /\ HostAddWriter(v, node).seen = v.seen
<1> DEFINE writers == v.writers \cup {node.key}
           indexers == IF node.indexer THEN v.sysIndexers \cup {node.key}
                       ELSE v.sysIndexers
<1>1. writers \in SUBSET Daemons /\ indexers \in SUBSET Daemons
  BY NodeFacts DEF View
<1>2. HostAddWriter(v, node) = [v EXCEPT !.writers = writers, !.sysIndexers = indexers]
  BY DEF HostAddWriter
<1> HIDE DEF writers, indexers
<1> QED BY <1>1, <1>2 DEF View

\* The addWriter branch keeps a view typed.
LEMMA AddWriterType ==
    ASSUME NEW v \in View, NEW node \in NodeType, node.kind = "add"
    PROVE  AddWriter(v, node) \in View /\ AddWriter(v, node).seen = v.seen
<1> DEFINE h == HostAddWriter(v, node)
           members == h.members \cup {node.key}
           indexers == IF node.indexer THEN h.indexers \cup {node.key} ELSE h.indexers
           admits == IF node.nonce = None THEN h.admits
                     ELSE h.admits \cup {<<node.nonce, node.key>>}
<1>1. h \in View /\ h.seen = v.seen
  BY HostAddType
<1>2. AddWriter(v, node) =
        [h EXCEPT !.members = members, !.indexers = indexers, !.admits = admits]
  BY DEF AddWriter
<1> HIDE DEF h
<1>3. /\ members \in SUBSET Daemons /\ indexers \in SUBSET Daemons
      /\ admits \in SUBSET (Nonces \X Daemons)
  <2>1. node.key \in Daemons /\ node.nonce \in Nonces \cup {None}
    BY NodeFacts
  <2>2. /\ h.members \in SUBSET Daemons /\ h.indexers \in SUBSET Daemons
        /\ h.admits \in SUBSET (Nonces \X Daemons)
    BY <1>1 DEF View
  <2> QED BY <2>1, <2>2
<1> HIDE DEF members, indexers, admits
<1>4. [h EXCEPT !.members = members, !.indexers = indexers, !.admits = admits] \in View
  BY <1>1, <1>3 DEF View
<1>5. [h EXCEPT !.members = members, !.indexers = indexers, !.admits = admits].seen = h.seen
  BY <1>1 DEF View
<1> QED BY <1>1, <1>2, <1>4, <1>5

\* Autobase.removeWriter keeps a view typed, also when it throws.
LEMMA HostRemoveType ==
    ASSUME NEW v \in View, NEW node \in NodeType, node.kind \in {"remove", "leave"}
    PROVE  HostRemoveWriter(v, node) \in View /\ HostRemoveWriter(v, node).seen = v.seen
<1>1. CASE v.sysIndexers = {node.key}
  BY <1>1 DEF View, HostRemoveWriter
<1>2. CASE v.sysIndexers # {node.key}
  <2> DEFINE writers == v.writers \ {node.key}
             indexers == v.sysIndexers \ {node.key}
             removed == v.removed \cup {node.key}
  <2>1. /\ writers \in SUBSET Daemons /\ indexers \in SUBSET Daemons
        /\ removed \in SUBSET Daemons
    BY NodeFacts DEF View
  <2>2. HostRemoveWriter(v, node) =
          [v EXCEPT !.writers = writers, !.sysIndexers = indexers, !.removed = removed]
    BY <1>2 DEF HostRemoveWriter
  <2> HIDE DEF writers, indexers, removed
  <2> QED BY <2>1, <2>2 DEF View
<1> QED BY <1>1, <1>2

\* The removeWriter branch keeps a view typed.
LEMMA RemoveWriterType ==
    ASSUME NEW v \in View, NEW node \in NodeType, node.kind \in {"remove", "leave"}
    PROVE  RemoveWriter(v, node) \in View /\ RemoveWriter(v, node).seen = v.seen
<1> DEFINE h == HostRemoveWriter(v, node)
           members == h.members \ {node.key}
           indexers == h.indexers \ {node.key}
<1>1. h \in View /\ h.seen = v.seen
  BY HostRemoveType
<1>2. RemoveWriter(v, node) =
        IF h.halted # "no" THEN h
        ELSE [h EXCEPT !.members = members, !.indexers = indexers]
  BY DEF RemoveWriter
<1> HIDE DEF h
<1>3. members \in SUBSET Daemons /\ indexers \in SUBSET Daemons
  BY <1>1 DEF View
<1> HIDE DEF members, indexers
<1>4. [h EXCEPT !.members = members, !.indexers = indexers] \in View
  BY <1>1, <1>3 DEF View
<1>5. [h EXCEPT !.members = members, !.indexers = indexers].seen = h.seen
  BY <1>1 DEF View
<1> QED BY <1>1, <1>2, <1>4, <1>5

\* The invite-redeemed branch keeps a view typed.
LEMMA MarkSpentType ==
    ASSUME NEW v \in View, NEW node \in NodeType, node.kind = "redeemed"
    PROVE  MarkSpent(v, node) \in View /\ MarkSpent(v, node).seen = v.seen
<1> DEFINE spent == [v.spent EXCEPT ![node.nonce] = node.key]
<1>1. spent \in [Nonces -> Daemons \cup {None}]
  BY NodeFacts DEF View
<1>2. [v EXCEPT !.spent[node.nonce] = node.key] = [v EXCEPT !.spent = spent]
  BY DEF View
<1> HIDE DEF spent
<1> QED BY <1>1, <1>2 DEF View, MarkSpent

\* So does whichever branch of apply() a block takes.
LEMMA AppliedType ==
    ASSUME NEW v \in View, NEW w \in Daemons, NEW node \in NodeType
    PROVE  Applied(v, w, node) \in View /\ Applied(v, w, node).seen = v.seen
BY MarkSpentType, AddWriterType, RemoveWriterType DEF Applied

\* The view that Applied starts from.
Started(v, w) == [Bootstrap(v, w) EXCEPT !.seen[w] = @ + 1]

\* The view a block finds: bootstrapped, and its own place counted.
LEMMA StartedFields ==
    ASSUME NEW v \in View, NEW w \in Daemons
    PROVE  LET u == Started(v, w)
           IN /\ u \in View
              /\ u.seen = [v.seen EXCEPT ![w] = @ + 1]
              /\ u.members = IF v.members = {} THEN {w} ELSE v.members
              /\ u.indexers = IF v.indexers = {} THEN {w} ELSE v.indexers
              /\ u.writers = v.writers /\ u.sysIndexers = v.sysIndexers
              /\ u.spent = v.spent /\ u.admits = v.admits
              /\ u.removed = v.removed /\ u.halted = v.halted
<1> DEFINE seen == [v.seen EXCEPT ![w] = @ + 1]
           b == Bootstrap(v, w)
<1>1. /\ b \in View /\ b.seen = v.seen
      /\ b.members = IF v.members = {} THEN {w} ELSE v.members
      /\ b.indexers = IF v.indexers = {} THEN {w} ELSE v.indexers
      /\ b.writers = v.writers /\ b.sysIndexers = v.sysIndexers
      /\ b.spent = v.spent /\ b.admits = v.admits /\ b.removed = v.removed
      /\ b.halted = v.halted
  BY BootstrapType, BootstrapFields
<1> HIDE DEF b
<1>2. seen \in [Daemons -> Nat]
  BY DEF View
<1>3. Started(v, w) = [b EXCEPT !.seen = seen]
  BY <1>1 DEF View, Started, b
<1> HIDE DEF seen
<1>4. Started(v, w) \in View /\ Started(v, w).seen = seen
  BY <1>1, <1>2, <1>3 DEF View
<1>5. LET u == Started(v, w)
      IN /\ u.members = b.members /\ u.indexers = b.indexers
         /\ u.writers = b.writers /\ u.sysIndexers = b.sysIndexers
         /\ u.spent = b.spent /\ u.admits = b.admits /\ u.removed = b.removed
         /\ u.halted = b.halted
  BY <1>1, <1>3 DEF View
<1> QED BY <1>1, <1>4, <1>5 DEF seen

\* One block turns a view into a view that has seen one block more of its core.
LEMMA ApplyNodeType ==
    ASSUME NEW v \in View, NEW w \in Daemons, NEW node \in NodeType
    PROVE  /\ ApplyNode(v, w, node) \in View
           /\ ApplyNode(v, w, node).seen = [v.seen EXCEPT ![w] = @ + 1]
<1>1. Started(v, w) \in View /\ Started(v, w).seen = [v.seen EXCEPT ![w] = @ + 1]
  BY StartedFields
<1>2. ApplyNode(v, w, node) = Applied(Started(v, w), w, node)
  BY DEF ApplyNode, Started
<1> QED BY <1>1, <1>2, AppliedType

\* What the addWriter branch does to each field.
LEMMA AddWriterFields ==
    ASSUME NEW v \in View, NEW node \in NodeType, node.kind = "add"
    PROVE  LET u == AddWriter(v, node)
               promoted == IF node.indexer THEN {node.key} ELSE {}
           IN /\ u.members = v.members \cup {node.key}
              /\ u.writers = v.writers \cup {node.key}
              /\ u.indexers = v.indexers \cup promoted
              /\ u.sysIndexers = v.sysIndexers \cup promoted
              /\ u.spent = v.spent /\ u.removed = v.removed
              /\ u.admits = IF node.nonce = None THEN v.admits
                            ELSE v.admits \cup {<<node.nonce, node.key>>}
<1>1. LET h == HostAddWriter(v, node)
      IN /\ h.writers = v.writers \cup {node.key}
         /\ h.sysIndexers = IF node.indexer THEN v.sysIndexers \cup {node.key}
                            ELSE v.sysIndexers
         /\ h.members = v.members /\ h.indexers = v.indexers
         /\ h.spent = v.spent /\ h.removed = v.removed /\ h.admits = v.admits
  BY DEF HostAddWriter, View
<1>2. HostAddWriter(v, node) \in View
  BY HostAddType
<1> QED BY <1>1, <1>2 DEF AddWriter, View

\* What the removeWriter branch does to each field.
LEMMA RemoveWriterFields ==
    ASSUME NEW v \in View, NEW node \in NodeType,
           node.kind \in {"remove", "leave"}, v.halted = "no"
    PROVE  LET u == RemoveWriter(v, node)
           IN /\ u.spent = v.spent /\ u.admits = v.admits
              /\ \/ /\ u.members = v.members /\ u.indexers = v.indexers
                    /\ u.writers = v.writers /\ u.sysIndexers = v.sysIndexers
                    /\ u.removed = v.removed
                 \/ /\ v.sysIndexers # {node.key}
                    /\ u.members = v.members \ {node.key}
                    /\ u.indexers = v.indexers \ {node.key}
                    /\ u.writers = v.writers \ {node.key}
                    /\ u.sysIndexers = v.sysIndexers \ {node.key}
                    /\ u.removed = v.removed \cup {node.key}
<1> DEFINE h == HostRemoveWriter(v, node)
<1>1. h \in View
  BY HostRemoveType
<1>2. h.spent = v.spent /\ h.admits = v.admits /\ h.members = v.members
      /\ h.indexers = v.indexers
  BY DEF HostRemoveWriter, View
<1>3. CASE v.sysIndexers = {node.key}
  <2>1. h.halted # "no" /\ h.writers = v.writers /\ h.sysIndexers = v.sysIndexers
        /\ h.removed = v.removed
    BY <1>3 DEF HostRemoveWriter, View
  <2> QED BY <1>1, <1>2, <2>1 DEF RemoveWriter
<1>4. CASE v.sysIndexers # {node.key}
  <2>1. h.halted = v.halted /\ h.writers = v.writers \ {node.key}
        /\ h.sysIndexers = v.sysIndexers \ {node.key}
        /\ h.removed = v.removed \cup {node.key}
    BY <1>4 DEF HostRemoveWriter, View
  <2> HIDE DEF h
  <2>2. RemoveWriter(v, node) =
            IF h.halted # "no" THEN h
            ELSE [h EXCEPT !.members = @ \ {node.key}, !.indexers = @ \ {node.key}]
    BY DEF RemoveWriter, h
  <2> QED BY <1>1, <1>2, <1>4, <2>1, <2>2 DEF View
<1> QED BY <1>3, <1>4

---------------------------------------------------------------------------
(* What one block does to a view.                                          *)

\* The two copies of the membership agree, and somebody is an indexer.
Settled(v) ==
    /\ v.members = v.writers /\ v.indexers = v.sysIndexers
    /\ v.indexers # {} /\ v.indexers \subseteq v.members

\* Either the creator still has its authority, or it has been removed.
CreatorStays(v) ==
    Creator \notin v.removed => Creator \in v.writers /\ Creator \in v.sysIndexers

\* A view from which a block of w is applied.
ReadyFor(v, w) ==
    /\ v \in View /\ v.halted = "no" /\ CreatorStays(v)
    /\ Settled(v) \/ (v = Genesis /\ w = Creator)

\* Once a block has been applied, the keys and the writer set agree.
LEMMA StartedReady ==
    ASSUME NEW v, NEW w \in Daemons, ReadyFor(v, w)
    PROVE  /\ Started(v, w) \in View /\ Started(v, w).halted = "no"
           /\ Settled(Started(v, w)) /\ CreatorStays(Started(v, w))
<1>1. CASE Settled(v)
  <2> DEFINE u == Started(v, w)
  <2>1. v.members # {} /\ v.indexers # {} /\ v \in View
    BY <1>1 DEF Settled, ReadyFor
  <2>2. /\ u \in View /\ u.halted = v.halted /\ u.removed = v.removed
        /\ u.members = v.members /\ u.indexers = v.indexers
        /\ u.writers = v.writers /\ u.sysIndexers = v.sysIndexers
    BY <2>1, StartedFields
  <2> HIDE DEF u
  <2>3. Settled(u) /\ CreatorStays(u) /\ u.halted = "no"
    BY <1>1, <2>2 DEF ReadyFor, Settled, CreatorStays
  <2> QED BY <2>2, <2>3 DEF u
<1>2. CASE v = Genesis /\ w = Creator
  <2>1. /\ v \in View /\ v.halted = "no" /\ v.members = {} /\ v.indexers = {}
        /\ v.writers = {Creator} /\ v.sysIndexers = {Creator}
    BY <1>2 DEF Genesis, ReadyFor
  <2> DEFINE u == Started(v, w)
  <2>2. /\ u \in View /\ u.halted = "no" /\ u.removed = v.removed
        /\ u.members = {Creator} /\ u.indexers = {Creator}
        /\ u.writers = {Creator} /\ u.sysIndexers = {Creator}
    <3>1. /\ u \in View /\ u.halted = v.halted /\ u.removed = v.removed
          /\ u.members = IF v.members = {} THEN {w} ELSE v.members
          /\ u.indexers = IF v.indexers = {} THEN {w} ELSE v.indexers
          /\ u.writers = v.writers /\ u.sysIndexers = v.sysIndexers
      BY <2>1, StartedFields
    <3> HIDE DEF u
    <3> QED BY <1>2, <2>1, <3>1
  <2> HIDE DEF u
  <2>3. Settled(u) /\ CreatorStays(u)
    BY <2>2 DEF Settled, CreatorStays
  <2> QED BY <2>2, <2>3 DEF u
<1> QED BY <1>1, <1>2 DEF ReadyFor

\* Whichever branch it takes, it leaves them in agreement.
LEMMA AppliedSettled ==
    ASSUME NEW v \in View, NEW w \in Daemons, NEW node \in NodeType,
           v.halted = "no", Settled(v), CreatorStays(v)
    PROVE  LET u == Applied(v, w, node)
           IN Settled(u) /\ CreatorStays(u) /\ v.removed \subseteq u.removed
<1>1. CASE node.kind = "redeemed" /\ w \in v.indexers
  <2>1. Applied(v, w, node) = MarkSpent(v, node)
    BY <1>1 DEF Applied
  <2>2. LET u == MarkSpent(v, node)
        IN /\ u.members = v.members /\ u.indexers = v.indexers
           /\ u.writers = v.writers /\ u.sysIndexers = v.sysIndexers
           /\ u.removed = v.removed
    BY DEF MarkSpent, View
  <2> QED BY <2>1, <2>2 DEF Settled, CreatorStays
<1>2. CASE node.kind = "add" /\ w \in v.indexers
  <2>1. Applied(v, w, node) = AddWriter(v, node)
    BY <1>2 DEF Applied
  <2> DEFINE u == AddWriter(v, node)
             promoted == IF node.indexer THEN {node.key} ELSE {}
  <2>2. /\ u.members = v.members \cup {node.key} /\ u.writers = v.writers \cup {node.key}
        /\ u.indexers = v.indexers \cup promoted
        /\ u.sysIndexers = v.sysIndexers \cup promoted
        /\ u.removed = v.removed
    BY <1>2, AddWriterFields
  <2>3. promoted \subseteq {node.key}
    OBVIOUS
  <2> HIDE DEF u, promoted
  <2>4. Settled(u)
    BY <2>2, <2>3 DEF Settled
  <2>5. CreatorStays(u)
    BY <2>2 DEF CreatorStays
  <2> QED BY <2>1, <2>2, <2>4, <2>5 DEF u
<1>3. CASE node.kind \in {"remove", "leave"} /\ (w \in v.indexers \/ node.key = w)
  <2>1. Applied(v, w, node) = RemoveWriter(v, node)
    BY <1>3 DEF Applied
  <2> DEFINE u == RemoveWriter(v, node)
  <2>2. \/ /\ u.members = v.members /\ u.indexers = v.indexers
           /\ u.writers = v.writers /\ u.sysIndexers = v.sysIndexers
           /\ u.removed = v.removed
        \/ /\ v.sysIndexers # {node.key}
           /\ u.members = v.members \ {node.key}
           /\ u.indexers = v.indexers \ {node.key}
           /\ u.writers = v.writers \ {node.key}
           /\ u.sysIndexers = v.sysIndexers \ {node.key}
           /\ u.removed = v.removed \cup {node.key}
    BY <1>3, RemoveWriterFields
  <2> HIDE DEF u
  <2>3. Settled(u)
    <3>1. v.sysIndexers # {} /\ v.indexers = v.sysIndexers /\ v.indexers \subseteq v.members
          /\ v.members = v.writers
      BY DEF Settled
    <3>2. v.sysIndexers # {node.key} => v.indexers \ {node.key} # {}
      BY <3>1
    <3> QED BY <2>2, <3>1, <3>2 DEF Settled
  <2>4. CreatorStays(u)
    BY <2>2 DEF CreatorStays
  <2> QED BY <2>1, <2>2, <2>3, <2>4 DEF u
<1>4. CASE /\ ~(node.kind = "redeemed" /\ w \in v.indexers)
           /\ ~(node.kind = "add" /\ w \in v.indexers)
           /\ ~(node.kind \in {"remove", "leave"} /\ (w \in v.indexers \/ node.key = w))
  BY <1>4 DEF Applied
<1> QED BY <1>1, <1>2, <1>3, <1>4

\* A block keeps the membership settled, and the creator in power unless it
\* removes it (apply.ts, the admin branch).
LEMMA ApplyNodeSettled ==
    ASSUME NEW v, NEW w \in Daemons, NEW node \in NodeType, ReadyFor(v, w)
    PROVE  LET u == ApplyNode(v, w, node)
           IN Settled(u) /\ CreatorStays(u) /\ v.removed \subseteq u.removed
<1>1. ApplyNode(v, w, node) = Applied(Started(v, w), w, node)
  BY DEF ApplyNode, Started
<1>2. Started(v, w).removed = v.removed
  BY StartedFields DEF ReadyFor
<1> QED BY <1>1, <1>2, StartedReady, AppliedSettled

\* A block spends a nonce, or admits a writer through one, only as its kind says
\* (apply.ts, the invite-redeemed and addWriter branches).
LEMMA ApplyNodeInvites ==
    ASSUME NEW v, NEW w \in Daemons, NEW node \in NodeType, ReadyFor(v, w)
    PROVE  LET u == ApplyNode(v, w, node)
           IN /\ u.spent = v.spent
                 \/ /\ node.kind = "redeemed" /\ v.spent[node.nonce] = None
                    /\ u.spent = [v.spent EXCEPT ![node.nonce] = node.key]
              /\ u.admits = v.admits
                 \/ /\ node.kind = "add" /\ node.nonce # None
                    /\ u.admits = v.admits \cup {<<node.nonce, node.key>>}
              /\ (w = Creator /\ Creator \notin v.removed /\ node.kind = "redeemed") =>
                    u.spent[node.nonce] # None
              /\ (w = Creator /\ Creator \notin v.removed /\ node.kind = "redeemed"
                    /\ v.spent[node.nonce] = None) =>
                    u.spent = [v.spent EXCEPT ![node.nonce] = node.key]
<1> DEFINE s == Started(v, w)
<1>1. ApplyNode(v, w, node) = Applied(s, w, node)
  BY DEF ApplyNode, Started
<1>2. /\ s \in View /\ s.halted = "no" /\ Settled(s) /\ CreatorStays(s)
      /\ s.spent = v.spent /\ s.admits = v.admits /\ s.removed = v.removed
      /\ v.spent \in [Nonces -> Daemons \cup {None}]
  <2>1. v \in View
    BY DEF ReadyFor
  <2>2. v.spent \in [Nonces -> Daemons \cup {None}]
    BY <2>1 DEF View
  <2>3. s \in View /\ s.spent = v.spent /\ s.admits = v.admits /\ s.removed = v.removed
    BY <2>1, StartedFields
  <2>4. s.halted = "no" /\ Settled(s) /\ CreatorStays(s)
    BY StartedReady
  <2> QED BY <2>2, <2>3, <2>4
<1> HIDE DEF s
<1>3. CASE node.kind = "redeemed" /\ w \in s.indexers
  <2>1. node.nonce \in Nonces /\ node.key \in Daemons /\ node.key # None
    BY <1>3, NodeFacts, MembershipAssumption
  <2>2. Applied(s, w, node) = MarkSpent(s, node)
    BY <1>3 DEF Applied
  <2>3. CASE s.spent[node.nonce] = None
    <3>1. MarkSpent(s, node) = [s EXCEPT !.spent = [s.spent EXCEPT ![node.nonce] = node.key]]
      BY <1>2, <2>3 DEF MarkSpent, View
    <3>2. /\ Applied(s, w, node).spent = [s.spent EXCEPT ![node.nonce] = node.key]
          /\ Applied(s, w, node).admits = s.admits
      BY <1>2, <2>2, <3>1 DEF View
    <3>3. [v.spent EXCEPT ![node.nonce] = node.key][node.nonce] # None
      BY <1>2, <2>1
    <3> QED BY <1>1, <1>2, <1>3, <2>3, <3>2, <3>3
  <2>4. CASE s.spent[node.nonce] # None
    BY <1>1, <1>2, <1>3, <2>1, <2>2, <2>4 DEF MarkSpent
  <2> QED BY <2>3, <2>4
<1>4. CASE node.kind = "add" /\ w \in s.indexers
  <2>1. Applied(s, w, node) = AddWriter(s, node)
    BY <1>4 DEF Applied
  <2>2. /\ AddWriter(s, node).spent = s.spent
        /\ AddWriter(s, node).admits =
              IF node.nonce = None THEN s.admits
              ELSE s.admits \cup {<<node.nonce, node.key>>}
    BY <1>2, <1>4, AddWriterFields
  <2>3. node.kind # "redeemed"
    BY <1>4
  <2> QED BY <1>1, <1>2, <1>4, <2>1, <2>2, <2>3
<1>5. CASE node.kind \in {"remove", "leave"} /\ (w \in s.indexers \/ node.key = w)
  <2>1. Applied(s, w, node) = RemoveWriter(s, node)
    BY <1>5 DEF Applied
  <2> QED BY <1>1, <1>2, <1>5, <2>1, RemoveWriterFields
<1>6. CASE /\ ~(node.kind = "redeemed" /\ w \in s.indexers)
           /\ ~(node.kind = "add" /\ w \in s.indexers)
           /\ ~(node.kind \in {"remove", "leave"} /\ (w \in s.indexers \/ node.key = w))
  BY <1>1, <1>2, <1>6 DEF Applied, Settled, CreatorStays
<1> QED BY <1>3, <1>4, <1>5, <1>6

---------------------------------------------------------------------------
(* Type correctness.                                                       *)

\* What an append does to the cores.
LEMMA AppendToFacts ==
    ASSUME TypeOK, NEW d \in Daemons, NEW node \in NodeType, AppendTo(d, node)
    PROVE  /\ core' \in [Daemons -> Seq(NodeType)]
           /\ \A e \in Daemons : Len(core[e]) <= Len(core'[e])
           /\ \A e \in Daemons : \A i \in 1..Len(core[e]) : core'[e][i] = core[e][i]
           /\ \A e \in Daemons \ {d} : core'[e] = core[e]
           /\ Len(core'[d]) = Len(core[d]) + 1
           /\ core'[d][Len(core[d]) + 1] = node
<1>1. core \in [Daemons -> Seq(NodeType)]
  BY DEF TypeOK
<1>2. core' = [core EXCEPT ![d] = Append(core[d], node)]
  BY DEF AppendTo
<1>3. core[d] \in Seq(NodeType)
  BY <1>1
<1>4. /\ Append(core[d], node) \in Seq(NodeType)
      /\ Len(Append(core[d], node)) = Len(core[d]) + 1
      /\ \A i \in 1..Len(core[d]) : Append(core[d], node)[i] = core[d][i]
      /\ Append(core[d], node)[Len(core[d]) + 1] = node
  BY <1>3
<1>5. core'[d] = Append(core[d], node) /\ \A e \in Daemons \ {d} : core'[e] = core[e]
  BY <1>1, <1>2
<1>6. \A e \in Daemons : Len(core[e]) \in Nat
  BY <1>1
<1> QED BY <1>1, <1>2, <1>4, <1>5, <1>6

\* The empty view is a view.
LEMMA GenesisType == Genesis \in View
BY MembershipAssumption DEF Genesis, View

\* The blocks the operations append are blocks.
LEMMA NodesTyped ==
    /\ Entry \in NodeType
    /\ \A k \in Daemons, n \in Nonces \cup {None}, indexer \in BOOLEAN :
            Node("add", k, n, indexer) \in NodeType
    /\ \A k \in Daemons : /\ Node("remove", k, None, FALSE) \in NodeType
                          /\ Node("leave", k, None, FALSE) \in NodeType
    /\ \A k \in Daemons, n \in Nonces : Node("redeemed", k, n, FALSE) \in NodeType
BY DEF NodeType, Node

\* An append keeps the cores typed.
LEMMA AppendTyped ==
    ASSUME TypeOK, NEW d \in Daemons, NEW node \in NodeType, AppendTo(d, node),
           UNCHANGED views
    PROVE  /\ core' \in [Daemons -> Seq(NodeType)]
           /\ \A i \in 1..Len(views'), e \in Daemons : views'[i].seen[e] <= Len(core'[e])
<1>1. \A i \in 1..Len(views), e \in Daemons :
         views[i].seen[e] \in Nat /\ Len(core[e]) \in Nat /\ Len(core'[e]) \in Nat
  <2>1. core \in [Daemons -> Seq(NodeType)] /\ core' \in [Daemons -> Seq(NodeType)]
    BY AppendToFacts DEF TypeOK
  <2>2. \A i \in 1..Len(views) : views[i] \in View
    BY DEF TypeOK
  <2>3. \A i \in 1..Len(views) : views[i].seen \in [Daemons -> Nat]
    BY <2>2 DEF View
  <2> QED BY <2>1, <2>3
<1>2. \A i \in 1..Len(views), e \in Daemons : views[i].seen[e] <= Len(core[e])
  BY DEF TypeOK
<1>3. \A e \in Daemons : Len(core[e]) <= Len(core'[e])
  BY AppendToFacts
<1>4. \A i \in 1..Len(views), e \in Daemons : views[i].seen[e] <= Len(core'[e])
  BY <1>1, <1>2, <1>3
<1> QED BY <1>4, AppendToFacts

\* What Order does to the ledger.
LEMMA OrderFacts ==
    ASSUME TypeOK, NEW d \in Daemons, Order(d)
    PROVE  LET n == Latest.seen[d] + 1
               u == ApplyNode(Latest, d, core[d][n])
           IN /\ Latest \in View /\ Len(views) \in Nat \ {0}
              /\ n \in 1..Len(core[d]) /\ core[d][n] \in NodeType
              /\ d \in Latest.writers /\ Latest.halted = "no"
              /\ u \in View /\ u.seen = [Latest.seen EXCEPT ![d] = @ + 1]
              /\ views' \in Seq(View) /\ Len(views') = Len(views) + 1
              /\ views'[Len(views) + 1] = u
              /\ \A i \in 1..Len(views) : views'[i] = views[i]
<1> DEFINE n == Latest.seen[d] + 1
           u == ApplyNode(Latest, d, core[d][n])
<1>1. views \in Seq(View) /\ Len(views) \in Nat \ {0}
  BY DEF TypeOK
<1>2. Latest \in View
  BY <1>1 DEF Latest
<1>3. n \in 1..Len(core[d])
  BY <1>2 DEF View, Order
<1>4. core[d][n] \in NodeType
  BY <1>3 DEF TypeOK
<1>5. u \in View /\ u.seen = [Latest.seen EXCEPT ![d] = @ + 1]
  BY <1>2, <1>4, ApplyNodeType
<1>6. views' = Append(views, u) /\ d \in Latest.writers /\ Latest.halted = "no"
  BY DEF Order
<1> HIDE DEF n, u
<1>7. /\ views' \in Seq(View) /\ Len(views') = Len(views) + 1
      /\ views'[Len(views) + 1] = u
      /\ \A i \in 1..Len(views) : views'[i] = views[i]
  BY <1>1, <1>5, <1>6
<1> QED BY <1>1, <1>2, <1>3, <1>4, <1>5, <1>6, <1>7 DEF n, u

\* A free lock is a lock.
LEMMA FreeType == Free \in Lock
BY DEF Lock

\* The fields of a lock that is held.
LEMMA LockFields ==
    ASSUME TypeOK, lock # Free
    PROVE  /\ lock \in [stage : {"checked", "redeemed", "added"}, nonce : Nonces,
                        key : Daemons, loaded : InvitesFile]
           /\ lock.stage \in {"checked", "redeemed", "added"}
           /\ lock.nonce \in Nonces /\ lock.key \in Daemons /\ lock.loaded \in InvitesFile
<1>1. lock \in [stage : {"checked", "redeemed", "added"}, nonce : Nonces,
                key : Daemons, loaded : InvitesFile]
  BY DEF TypeOK, Lock
<1> QED BY <1>1

\* Of the four stages, three have the lock held.
LEMMA Held ==
    ASSUME lock.stage \in {"checked", "redeemed", "added"}
    PROVE  lock # Free
BY DEF Free

\* Flagging a minted invite keeps the file typed.
LEMMA FlagTyped ==
    ASSUME NEW f \in InvitesFile, NEW n \in Nonces, f[n] # {},
           NEW flag \in {"revoked", "spent"}
    PROVE  [f EXCEPT ![n] = @ \cup {flag}] \in InvitesFile
<1>1. f[n] \in InviteState
  BY DEF InvitesFile
<1>2. PICK s \in SUBSET {"revoked", "spent"} : f[n] = {"minted"} \cup s
  BY <1>1 DEF InviteState
<1>3. f[n] \cup {flag} = {"minted"} \cup (s \cup {flag}) /\ s \cup {flag} \in SUBSET {"revoked", "spent"}
  BY <1>2
<1>4. f[n] \cup {flag} \in InviteState
  BY <1>3 DEF InviteState
<1> QED BY <1>4 DEF InvitesFile

\* A nonce under redemption is in the file that was loaded: the type invariant
\* needs it to know that marking the nonce spent leaves a well-formed file.
Loaded == lock # Free => lock.loaded[lock.nonce] = {"minted"}

\* The initial states are typed.
LEMMA InitType == Init => TypeOK /\ Loaded
<1> SUFFICES ASSUME Init PROVE TypeOK /\ Loaded
  OBVIOUS
<1>1. views \in Seq(View) /\ views # <<>> /\ Len(views) = 1 /\ views[1] = Genesis
  BY GenesisType DEF Init
<1>2. \A d \in Daemons : Genesis.seen[d] = 0
  BY DEF Genesis
<1>3. file \in InvitesFile
  BY DEF Init, InvitesFile, InviteState
<1>4. core \in [Daemons -> Seq(NodeType)] /\ \A d \in Daemons : Len(core[d]) = 0
  BY DEF Init
<1>5. \A i \in 1..Len(views), d \in Daemons : views[i].seen[d] <= Len(core[d])
  BY <1>1, <1>2, <1>4
<1>6. at \in [Daemons -> 1..Len(views)]
  BY <1>1 DEF Init
<1> QED BY <1>1, <1>3, <1>4, <1>5, <1>6, FreeType DEF Init, TypeOK, Loaded

\* Every step keeps the types.
LEMMA NextType == TypeOK /\ Loaded /\ [Next]_vars => TypeOK' /\ Loaded'
<1> SUFFICES ASSUME TypeOK, Loaded, [Next]_vars PROVE TypeOK' /\ Loaded'
  OBVIOUS
<1>1. ASSUME NEW d \in Daemons, Post(d) PROVE TypeOK' /\ Loaded'
  <2>1. AppendTo(d, Entry) /\ Entry \in NodeType /\ UNCHANGED views
    BY <1>1, NodesTyped DEF Post
  <2> QED BY <1>1, <2>1, AppendTyped DEF Post, TypeOK, Loaded
<1>2. ASSUME NEW d \in Daemons, NEW k \in Daemons, NEW indexer \in BOOLEAN,
             AdminAdd(d, k, indexer)
      PROVE TypeOK' /\ Loaded'
  <2>1. /\ AppendTo(d, Node("add", k, None, indexer)) /\ UNCHANGED views
        /\ Node("add", k, None, indexer) \in NodeType
    BY <1>2, NodesTyped DEF AdminAdd
  <2> QED BY <1>2, <2>1, AppendTyped DEF AdminAdd, TypeOK, Loaded
<1>3. ASSUME NEW d \in Daemons, NEW k \in Daemons, AdminRemove(d, k)
      PROVE TypeOK' /\ Loaded'
  <2>1. /\ AppendTo(d, Node("remove", k, None, FALSE)) /\ UNCHANGED views
        /\ Node("remove", k, None, FALSE) \in NodeType
    BY <1>3, NodesTyped DEF AdminRemove
  <2> QED BY <1>3, <2>1, AppendTyped DEF AdminRemove, TypeOK, Loaded
<1>4. ASSUME NEW d \in Daemons, Leave(d) PROVE TypeOK' /\ Loaded'
  <2>1. /\ gone' \subseteq Daemons /\ waiting' \subseteq Nonces \X Daemons
        /\ lock' \in Lock /\ (lock' = lock \/ lock' = Free)
        /\ UNCHANGED <<views, at, file, told>>
    BY <1>4, FreeType DEF Leave, TypeOK
  <2>2. CASE AppendTo(d, Node("leave", d, None, FALSE))
    <3>1. Node("leave", d, None, FALSE) \in NodeType
      BY NodesTyped
    <3> QED BY <2>1, <2>2, <3>1, AppendTyped DEF TypeOK, Loaded
  <2>3. CASE UNCHANGED core
    BY <2>1, <2>3 DEF TypeOK, Loaded
  <2> QED BY <1>4, <2>2, <2>3 DEF Leave
<1>5. ASSUME NEW d \in Daemons, Order(d) PROVE TypeOK' /\ Loaded'
  <2>0. /\ views' \in Seq(View) /\ Len(views') = Len(views) + 1
        /\ Len(views) \in Nat \ {0} /\ at \in [Daemons -> 1..Len(views)]
    BY <1>5, OrderFacts DEF TypeOK
  <2>1. views' \in Seq(View) /\ views' # <<>> /\ at \in [Daemons -> 1..Len(views')]
    BY <2>0
  <2>2. ASSUME NEW i \in 1..Len(views'), NEW e \in Daemons
        PROVE  views'[i].seen[e] <= Len(core[e])
    <3>1. CASE i \in 1..Len(views)
      BY <1>5, <3>1, OrderFacts DEF TypeOK
    <3>2. CASE i = Len(views) + 1
      <4>1. /\ views'[i].seen = [Latest.seen EXCEPT ![d] = @ + 1]
            /\ Latest.seen[d] + 1 \in 1..Len(core[d]) /\ Latest \in View
        BY <1>5, <3>2, OrderFacts
      <4>2. Latest.seen \in [Daemons -> Nat]
        BY <4>1 DEF View
      <4>3. Latest.seen[e] <= Len(core[e])
        BY <2>0 DEF Latest, TypeOK
      <4>4. CASE e = d
        <5>1. views'[i].seen[d] = Latest.seen[d] + 1
          BY <4>1, <4>2
        <5>2. Latest.seen[d] + 1 <= Len(core[d])
          BY <4>1, <4>2
        <5> QED BY <4>4, <5>1, <5>2
      <4>5. CASE e # d
        BY <4>1, <4>2, <4>3, <4>5
      <4> QED BY <4>4, <4>5
    <3> QED BY <2>0, <3>1, <3>2
  <2> QED BY <1>5, <2>1, <2>2 DEF Order, TypeOK, Loaded
<1>6. ASSUME NEW d \in Daemons, CatchUp(d) PROVE TypeOK' /\ Loaded'
  BY <1>6 DEF CatchUp, TypeOK, Loaded
<1>7. ASSUME NEW n \in Nonces, CreateInvite(n) PROVE TypeOK' /\ Loaded'
  <2>1. {"minted"} \in InviteState
    BY DEF InviteState
  <2>2. file' \in InvitesFile
    BY <1>7, <2>1 DEF CreateInvite, TypeOK, InvitesFile
  <2> QED BY <1>7, <2>2 DEF CreateInvite, TypeOK, Loaded
<1>8. ASSUME NEW n \in Nonces, RevokeInvite(n) PROVE TypeOK' /\ Loaded'
  <2>1. file' \in InvitesFile
    BY <1>8, FlagTyped DEF RevokeInvite, TypeOK
  <2> QED BY <1>8, <2>1 DEF RevokeInvite, TypeOK, Loaded
<1>9. ASSUME NEW n \in Nonces, NEW k \in Daemons, RedeemArrive(n, k)
      PROVE TypeOK' /\ Loaded'
  BY <1>9 DEF RedeemArrive, TypeOK, Loaded
<1>10. ASSUME NEW n \in Nonces, NEW k \in Daemons, RedeemCheck(n, k)
       PROVE TypeOK' /\ Loaded'
  <2>1. lock' = Free \/ (lock' = Redeeming("checked", n, k, file) /\ file[n] = {"minted"})
    BY <1>10 DEF RedeemCheck
  <2>2. lock' \in Lock /\ (lock' # Free => lock'.loaded[lock'.nonce] = {"minted"})
    BY <2>1, FreeType DEF Redeeming, Lock, TypeOK
  <2> QED BY <1>10, <2>2 DEF RedeemCheck, TypeOK, Loaded
<1>11. ASSUME RedeemAppend PROVE TypeOK' /\ Loaded'
  <2>1. lock # Free
    BY <1>11, Held DEF RedeemAppend
  <2>2. /\ AppendTo(Creator, Node("redeemed", lock.key, lock.nonce, FALSE))
        /\ Node("redeemed", lock.key, lock.nonce, FALSE) \in NodeType
        /\ Creator \in Daemons /\ UNCHANGED views
    BY <1>11, <2>1, LockFields, NodesTyped, MembershipAssumption DEF RedeemAppend
  <2>3. lock' \in Lock /\ lock'.loaded = lock.loaded /\ lock'.nonce = lock.nonce
    BY <1>11, <2>1, LockFields DEF RedeemAppend, Lock
  <2> QED BY <1>11, <2>1, <2>2, <2>3, AppendTyped DEF RedeemAppend, TypeOK, Loaded
<1>12. ASSUME RedeemAdmit PROVE TypeOK' /\ Loaded'
  <2>1. lock # Free
    BY <1>12, Held DEF RedeemAdmit
  <2>2. /\ AppendTo(Creator, Node("add", lock.key, lock.nonce, FALSE))
        /\ Node("add", lock.key, lock.nonce, FALSE) \in NodeType
        /\ Creator \in Daemons /\ UNCHANGED views
    BY <1>12, <2>1, LockFields, NodesTyped, MembershipAssumption DEF RedeemAdmit
  <2>3. lock' \in Lock /\ lock'.loaded = lock.loaded /\ lock'.nonce = lock.nonce
    BY <1>12, <2>1, LockFields DEF RedeemAdmit, Lock
  <2> QED BY <1>12, <2>1, <2>2, <2>3, AppendTyped DEF RedeemAdmit, TypeOK, Loaded
<1>13. ASSUME RedeemSave PROVE TypeOK' /\ Loaded'
  <2>1. lock # Free
    BY <1>13, Held DEF RedeemSave
  <2>2. file' \in InvitesFile
    BY <1>13, <2>1, LockFields, FlagTyped DEF RedeemSave, Loaded
  <2>3. told' \subseteq Nonces \X Daemons
    BY <1>13, <2>1, LockFields DEF RedeemSave, TypeOK
  <2> QED BY <1>13, <2>2, <2>3, FreeType DEF RedeemSave, TypeOK, Loaded
<1>14. ASSUME RedeemFail PROVE TypeOK' /\ Loaded'
  BY <1>14, FreeType DEF RedeemFail, TypeOK, Loaded
<1>15. ASSUME Crash PROVE TypeOK' /\ Loaded'
  BY <1>15, FreeType DEF Crash, TypeOK, Loaded
<1>16. ASSUME UNCHANGED vars PROVE TypeOK' /\ Loaded'
  BY <1>16 DEF vars, TypeOK, Loaded, Latest
<1> QED BY <1>1, <1>2, <1>3, <1>4, <1>5, <1>6, <1>7, <1>8, <1>9, <1>10, <1>11,
           <1>12, <1>13, <1>14, <1>15, <1>16 DEF Next

\* Every reachable state is well typed, no view is ahead of a core, and
\* invites.json never holds a revoked or spent invite that was not minted.
THEOREM TypeCorrect == Spec => []TypeOK
<1> QED BY InitType, NextType, PTL DEF Spec

---------------------------------------------------------------------------
(* The two copies of the membership.                                       *)

\* Between the first view, where nobody has written yet, and every later one;
\* what was removed is never forgotten.
AuthorityInv ==
    /\ views[1] = Genesis
    /\ \A i \in 2..Len(views) : Settled(views[i])
    /\ \A i \in 1..Len(views) : CreatorStays(views[i])
    /\ \A i, j \in 1..Len(views) : i <= j => views[i].removed \subseteq views[j].removed

\* Only Autobase adds views, and it keeps those there are.
LEMMA OnlyOrderExtends ==
    ASSUME [Next]_vars
    PROVE  UNCHANGED views \/ \E d \in Daemons : Order(d)
BY DEF Next, vars, Post, AdminAdd, AdminRemove, Leave, CatchUp, CreateInvite,
       RevokeInvite, RedeemArrive, RedeemCheck, RedeemAppend, RedeemAdmit,
       RedeemSave, RedeemFail, Crash

\* The writer of the next block is one the latest view knows.
LEMMA OrderReady ==
    ASSUME TypeOK, AuthorityInv, NEW d \in Daemons, Order(d)
    PROVE  ReadyFor(Latest, d)
<1>1. /\ Latest \in View /\ Latest.halted = "no" /\ d \in Latest.writers
      /\ Len(views) \in Nat \ {0}
  BY OrderFacts
<1>2. CreatorStays(Latest)
  BY <1>1 DEF AuthorityInv, Latest
<1>3. CASE Len(views) = 1
  <2>1. Latest = Genesis
    BY <1>3 DEF AuthorityInv, Latest
  <2>2. d = Creator
    BY <1>1, <2>1 DEF Genesis
  <2> QED BY <1>1, <1>2, <2>1, <2>2 DEF ReadyFor
<1>4. CASE Len(views) # 1
  <2>1. Settled(Latest)
    BY <1>1, <1>4 DEF AuthorityInv, Latest
  <2> QED BY <1>1, <1>2, <2>1 DEF ReadyFor
<1> QED BY <1>3, <1>4

\* Before the first block there is nothing to agree on.
LEMMA AuthorityInit == Init => AuthorityInv
<1> SUFFICES ASSUME Init PROVE AuthorityInv
  OBVIOUS
<1>1. Len(views) = 1 /\ views[1] = Genesis
  BY DEF Init
<1>2. CreatorStays(Genesis)
  BY DEF CreatorStays, Genesis
<1> QED BY <1>1, <1>2 DEF AuthorityInv

\* Every step keeps the agreement.
LEMMA AuthorityNext == TypeOK /\ AuthorityInv /\ [Next]_vars => AuthorityInv'
<1> SUFFICES ASSUME TypeOK, AuthorityInv, [Next]_vars PROVE AuthorityInv'
  OBVIOUS
<1>1. CASE UNCHANGED views
  BY <1>1 DEF AuthorityInv
<1>2. ASSUME NEW d \in Daemons, Order(d) PROVE AuthorityInv'
  <2> DEFINE L == Len(views)
             u == ApplyNode(Latest, d, core[d][Latest.seen[d] + 1])
  <2>1. /\ L \in Nat \ {0} /\ Len(views') = L + 1 /\ views'[L + 1] = u
        /\ \A i \in 1..L : views'[i] = views[i]
        /\ core[d][Latest.seen[d] + 1] \in NodeType
    BY <1>2, OrderFacts
  <2>2. Settled(u) /\ CreatorStays(u) /\ Latest.removed \subseteq u.removed
    BY <1>2, <2>1, OrderReady, ApplyNodeSettled
  <2>3. \A i \in 1..L : views[i].removed \subseteq u.removed
    <3>1. \A i \in 1..L : views[i].removed \subseteq views[L].removed
      BY <2>1 DEF AuthorityInv
    <3> HIDE DEF u
    <3> QED BY <2>2, <3>1 DEF Latest
  <2> HIDE DEF u
  <2>4. views'[1] = Genesis
    BY <2>1 DEF AuthorityInv
  <2>5. \A i \in 2..(L + 1) : Settled(views'[i])
    BY <2>1, <2>2 DEF AuthorityInv
  <2>6. \A i \in 1..(L + 1) : CreatorStays(views'[i])
    BY <2>1, <2>2 DEF AuthorityInv
  <2>7. \A i, j \in 1..(L + 1) : i <= j => views'[i].removed \subseteq views'[j].removed
    <3> SUFFICES ASSUME NEW i \in 1..(L + 1), NEW j \in 1..(L + 1), i <= j
                 PROVE  views'[i].removed \subseteq views'[j].removed
      OBVIOUS
    <3>1. CASE j \in 1..L
      <4>1. i \in 1..L
        BY <2>1, <3>1
      <4> QED BY <2>1, <3>1, <4>1 DEF AuthorityInv
    <3>2. CASE j = L + 1 /\ i \in 1..L
      BY <2>1, <2>3, <3>2
    <3>3. CASE i = L + 1 /\ j = L + 1
      BY <3>3
    <3> QED BY <2>1, <3>1, <3>2, <3>3
  <2> QED BY <2>1, <2>4, <2>5, <2>6, <2>7 DEF AuthorityInv, Settled, CreatorStays
<1> QED BY <1>1, <1>2, OnlyOrderExtends

\* In every view but the first, the `_members/` and `_indexers/` keys are
\* Autobase's writers and indexers, and there is an indexer (apply.ts).
THEOREM AuthorityCorrect == Spec => []AuthorityAgrees
<1>1. Init => TypeOK /\ Loaded /\ AuthorityInv
  BY InitType, AuthorityInit
<1>2. TypeOK /\ Loaded /\ AuthorityInv /\ [Next]_vars => (TypeOK /\ Loaded /\ AuthorityInv)'
  BY NextType, AuthorityNext
<1>3. AuthorityInv => AuthorityAgrees
  BY DEF AuthorityInv, AuthorityAgrees, Settled
<1> QED BY <1>1, <1>2, <1>3, PTL DEF Spec

---------------------------------------------------------------------------
(* Single use of an invite.                                                *)

Redeems(node, n, k) == IsRedeemed(node, n) /\ node.key = k

\* Only redemptions, on the creator's daemon, append blocks with a nonce, and
\* the admission comes after the redemption it belongs to.
BlocksInv ==
    /\ \A d \in Daemons \ {Creator} : \A i \in 1..Len(core[d]) :
            core[d][i].nonce = None
    /\ \A i \in 1..Len(core[Creator]) :
            (core[Creator][i].kind = "add" /\ core[Creator][i].nonce # None) =>
                \E j \in 1..(i - 1) :
                    Redeems(core[Creator][j], core[Creator][i].nonce, core[Creator][i].key)

\* Unless the creator was removed and added again, no nonce is redeemed twice.
OnceInv ==
    ~Readmitted =>
        \A i, j \in 1..Len(core[Creator]) : \A n \in Nonces :
            IsRedeemed(core[Creator][i], n) /\ IsRedeemed(core[Creator][j], n) => i = j

\* What a view has spent is what its share of the creator's core redeems.
SpentInv ==
    \A x \in 1..Len(views) :
        /\ \A n \in Nonces : views[x].spent[n] # None =>
                \E j \in 1..views[x].seen[Creator] : IsRedeemed(core[Creator][j], n)
        /\ ~Readmitted =>
                \A j \in 1..views[x].seen[Creator] : \A n \in Nonces :
                    IsRedeemed(core[Creator][j], n) =>
                        views[x].spent[n] = core[Creator][j].key

\* What the holder of the invite lock knows: before its first append that the
\* nonce is unused, and after it that the nonce is redeemed for its joiner.
HolderInv ==
    /\ (lock.stage = "checked" /\ ~Readmitted) =>
            \A i \in 1..Len(core[Creator]) : ~IsRedeemed(core[Creator][i], lock.nonce)
    /\ lock.stage \in {"redeemed", "added"} =>
            \E i \in 1..Len(core[Creator]) : Redeems(core[Creator][i], lock.nonce, lock.key)

InviteInv == BlocksInv /\ OnceInv /\ SpentInv /\ HolderInv /\ SingleUse

\* At the start nothing is minted, spent or admitted.
LEMMA InviteInit == Init => InviteInv
<1> SUFFICES ASSUME Init PROVE InviteInv
  OBVIOUS
<1>1. /\ Len(views) = 1 /\ views[1] = Genesis /\ lock.stage = "free"
      /\ \A d \in Daemons : core[d] = <<>> /\ Len(core[d]) = 0
      /\ Creator \in Daemons
  BY MembershipAssumption DEF Init, Free
<1>2. /\ Genesis.admits = {} /\ Genesis.seen[Creator] = 0
      /\ \A n \in Nonces : Genesis.spent[n] = None
  BY <1>1 DEF Genesis
<1>3. BlocksInv /\ OnceInv /\ HolderInv
  BY <1>1 DEF BlocksInv, OnceInv, HolderInv
<1>4. SpentInv
  BY <1>1, <1>2 DEF SpentInv
<1>5. SingleUse
  BY <1>1, <1>2 DEF SingleUse
<1> QED BY <1>3, <1>4, <1>5 DEF InviteInv

\* A step that leaves the cores and the ledger alone.
LEMMA InviteQuiet ==
    ASSUME InviteInv, UNCHANGED <<core, views>>,
           lock' = lock \/ lock' = Free
    PROVE  InviteInv'
<1>1. BlocksInv' /\ OnceInv' /\ SpentInv' /\ SingleUse'
  BY DEF InviteInv, BlocksInv, OnceInv, SpentInv, SingleUse, Readmitted
<1>2. HolderInv'
  BY DEF InviteInv, HolderInv, Free, Readmitted
<1> QED BY <1>1, <1>2 DEF InviteInv

\* What stays true of the views when a core grows.
LEMMA SpentGrows ==
    ASSUME TypeOK, SpentInv, NEW d \in Daemons, NEW node \in NodeType,
           AppendTo(d, node), UNCHANGED views
    PROVE  SpentInv'
<1>1. /\ \A i \in 1..Len(core[Creator]) : core'[Creator][i] = core[Creator][i]
      /\ Len(core[Creator]) \in Nat
  BY AppendToFacts, MembershipAssumption DEF TypeOK
<1>2. \A x \in 1..Len(views) : \A j \in 1..views[x].seen[Creator] :
         j \in 1..Len(core[Creator])
  <2>0. \A x \in 1..Len(views) : views[x] \in View
    BY DEF TypeOK
  <2>1. \A x \in 1..Len(views) : views[x].seen \in [Daemons -> Nat]
    BY <2>0 DEF View
  <2>2. \A x \in 1..Len(views) : views[x].seen[Creator] <= Len(core[Creator])
    BY MembershipAssumption DEF TypeOK
  <2> QED BY <1>1, <2>1, <2>2, MembershipAssumption
<1>3. \A x \in 1..Len(views) : \A j \in 1..views[x].seen[Creator] :
         core'[Creator][j] = core[Creator][j]
  BY <1>1, <1>2
<1> QED BY <1>3 DEF SpentInv, Readmitted

\* An append that redeems nothing and admits nobody through an invite.
LEMMA InvitePlainAppend ==
    ASSUME TypeOK, InviteInv, NEW d \in Daemons, NEW node \in NodeType,
           AppendTo(d, node), node.nonce = None, UNCHANGED views,
           lock' = lock \/ lock' = Free
    PROVE  InviteInv'
<1>1. /\ Creator \in Daemons /\ None \notin Nonces
      /\ \A e \in Daemons : Len(core[e]) \in Nat
  BY MembershipAssumption DEF TypeOK
<1>2. \A e \in Daemons : \A i \in 1..Len(core'[e]) :
         \/ i \in 1..Len(core[e]) /\ core'[e][i] = core[e][i]
         \/ core'[e][i].nonce = None
  <2>1. ASSUME NEW e \in Daemons, NEW i \in 1..Len(core'[e])
        PROVE  \/ i \in 1..Len(core[e]) /\ core'[e][i] = core[e][i]
               \/ core'[e][i].nonce = None
    <3>1. CASE e = d
      BY <1>1, <3>1, AppendToFacts
    <3>2. CASE e # d
      BY <1>1, <3>2, AppendToFacts
    <3> QED BY <3>1, <3>2
  <2> QED BY <2>1
<1>3. /\ Len(core[Creator]) <= Len(core'[Creator]) /\ Len(core'[Creator]) \in Nat
      /\ \A i \in 1..Len(core[Creator]) : core'[Creator][i] = core[Creator][i]
  BY <1>1, AppendToFacts
<1>4. BlocksInv'
  <2>1. \A e \in Daemons \ {Creator} : \A i \in 1..Len(core'[e]) : core'[e][i].nonce = None
    BY <1>2 DEF InviteInv, BlocksInv
  <2>2. ASSUME NEW i \in 1..Len(core'[Creator]), core'[Creator][i].kind = "add",
               core'[Creator][i].nonce # None
        PROVE  \E j \in 1..(i - 1) :
                  Redeems(core'[Creator][j], core'[Creator][i].nonce, core'[Creator][i].key)
    <3>1. i \in 1..Len(core[Creator]) /\ core'[Creator][i] = core[Creator][i]
      BY <1>1, <1>2, <2>2
    <3>2. PICK j \in 1..(i - 1) :
             Redeems(core[Creator][j], core[Creator][i].nonce, core[Creator][i].key)
      BY <2>2, <3>1 DEF InviteInv, BlocksInv
    <3>3. core'[Creator][j] = core[Creator][j]
      BY <1>1, <1>3, <3>1
    <3> QED BY <3>1, <3>2, <3>3
  <2> QED BY <2>1, <2>2 DEF BlocksInv
<1>5. \A n \in Nonces, i \in 1..Len(core'[Creator]) : IsRedeemed(core'[Creator][i], n) =>
         i \in 1..Len(core[Creator]) /\ IsRedeemed(core[Creator][i], n)
  BY <1>1, <1>2 DEF IsRedeemed
<1>6. OnceInv'
  BY <1>5 DEF InviteInv, OnceInv, Readmitted
<1>7. SpentInv'
  BY SpentGrows DEF InviteInv
<1>8. HolderInv'
  <2>1. CASE lock' = Free
    BY <2>1 DEF HolderInv, Free
  <2>2. CASE lock' = lock /\ lock # Free
    <3>1. lock.nonce \in Nonces
      BY <2>2, LockFields
    <3>2. (lock.stage = "checked" /\ ~Readmitted) =>
             \A i \in 1..Len(core'[Creator]) : ~IsRedeemed(core'[Creator][i], lock.nonce)
      BY <1>5, <3>1 DEF InviteInv, HolderInv
    <3>3. lock.stage \in {"redeemed", "added"} =>
             \E i \in 1..Len(core'[Creator]) : Redeems(core'[Creator][i], lock.nonce, lock.key)
      BY <1>1, <1>3 DEF InviteInv, HolderInv
    <3> QED BY <2>2, <3>2, <3>3 DEF HolderInv, Readmitted
  <2> QED BY <2>1, <2>2
<1>9. SingleUse'
  BY DEF InviteInv, SingleUse, Readmitted
<1> QED BY <1>4, <1>6, <1>7, <1>8, <1>9 DEF InviteInv

\* The checks inside the lock: with the creator in power, a nonce that neither
\* its view nor its own unconfirmed blocks show as spent is in none of its blocks.
LEMMA InviteCheck ==
    ASSUME TypeOK, AuthorityInv, InviteInv,
           NEW n \in Nonces, NEW k \in Daemons, RedeemCheck(n, k)
    PROVE  InviteInv'
<1>1. UNCHANGED <<core, views>>
  BY DEF RedeemCheck
<1>2. CASE lock' = Free
  BY <1>1, <1>2, InviteQuiet
<1>3. CASE lock' = Redeeming("checked", n, k, file) /\ ~SpentInView(n)
  <2> DEFINE x == at[Creator]
  <2>1. /\ Creator \in Daemons /\ None \notin Daemons
        /\ x \in 1..Len(views) /\ Len(views) \in Nat \ {0}
        /\ views[x] \in View /\ Len(core[Creator]) \in Nat
    BY MembershipAssumption DEF TypeOK
  <2>2. /\ views[x].spent[n] = None
        /\ \A i \in views[x].seen[Creator] + 1..Len(core[Creator]) :
              ~IsRedeemed(core[Creator][i], n)
    BY <1>3 DEF SpentInView, Confirmed
  <2>3. views[x].seen[Creator] \in Nat
    BY <2>1 DEF View
  <2> HIDE DEF x
  <2>5. ASSUME ~Readmitted, NEW i \in 1..Len(core[Creator])
        PROVE  ~IsRedeemed(core[Creator][i], n)
    <3> SUFFICES ASSUME IsRedeemed(core[Creator][i], n) PROVE FALSE
      OBVIOUS
    <3>1. i \in 1..views[x].seen[Creator]
      BY <2>1, <2>2, <2>3
    <3>2. views[x].spent[n] = core[Creator][i].key
      BY <2>1, <2>5, <3>1 DEF InviteInv, SpentInv
    <3>3. core[Creator][i] \in NodeType
      BY <2>1 DEF TypeOK
    <3>4. core[Creator][i].key \in Daemons
      BY <3>3, NodeFacts DEF IsRedeemed
    <3> QED BY <2>1, <2>2, <3>2, <3>4
  <2>6. lock'.stage = "checked" /\ lock'.nonce = n
    BY <1>3 DEF Redeeming
  <2>7. HolderInv'
    BY <1>1, <2>5, <2>6 DEF HolderInv, Readmitted
  <2>8. BlocksInv' /\ OnceInv' /\ SpentInv' /\ SingleUse'
    BY <1>1 DEF InviteInv, BlocksInv, OnceInv, SpentInv, SingleUse, Readmitted
  <2> QED BY <2>7, <2>8 DEF InviteInv
<1> QED BY <1>2, <1>3 DEF RedeemCheck

\* The two appends of a redemption, in the creator's core C.
LEMMA CreatorAppend ==
    ASSUME TypeOK, NEW node \in NodeType, AppendTo(Creator, node)
    PROVE  LET L == Len(core[Creator])
           IN /\ L \in Nat /\ Len(core'[Creator]) = L + 1
              /\ core'[Creator][L + 1] = node
              /\ \A i \in 1..L : core'[Creator][i] = core[Creator][i]
              /\ \A d \in Daemons \ {Creator} : core'[d] = core[d]
BY AppendToFacts, MembershipAssumption DEF TypeOK

\* The first append of a redemption: the nonce is in one block of the core.
LEMMA InviteRedeem ==
    ASSUME TypeOK, InviteInv, RedeemAppend
    PROVE  InviteInv'
<1> DEFINE L == Len(core[Creator])
           node == Node("redeemed", lock.key, lock.nonce, FALSE)
<1>1. /\ lock.stage = "checked" /\ AppendTo(Creator, node) /\ UNCHANGED views
      /\ lock' = [lock EXCEPT !.stage = "redeemed"]
  BY DEF RedeemAppend
<1>2. lock # Free /\ lock.nonce \in Nonces /\ lock.key \in Daemons
  BY <1>1, Held, LockFields
<1>3. /\ node \in NodeType /\ node.kind = "redeemed"
      /\ node.nonce = lock.nonce /\ node.key = lock.key
  BY <1>2, NodesTyped DEF Node
<1>4. lock'.stage = "redeemed" /\ lock'.nonce = lock.nonce /\ lock'.key = lock.key
  BY <1>1, <1>2, LockFields
<1> HIDE DEF node
<1>5. /\ L \in Nat /\ Len(core'[Creator]) = L + 1 /\ core'[Creator][L + 1] = node
      /\ \A i \in 1..L : core'[Creator][i] = core[Creator][i]
      /\ \A d \in Daemons \ {Creator} : core'[d] = core[d]
  BY <1>1, <1>3, CreatorAppend
<1> HIDE DEF L
<1>6. BlocksInv'
  <2>1. \A d \in Daemons \ {Creator} : \A i \in 1..Len(core'[d]) : core'[d][i].nonce = None
    BY <1>5 DEF InviteInv, BlocksInv
  <2>2. ASSUME NEW i \in 1..Len(core'[Creator]), core'[Creator][i].kind = "add",
               core'[Creator][i].nonce # None
        PROVE  \E j \in 1..(i - 1) :
                  Redeems(core'[Creator][j], core'[Creator][i].nonce, core'[Creator][i].key)
    <3>1. i # L + 1
      BY <1>3, <1>5, <2>2
    <3>2. i \in 1..L /\ core'[Creator][i] = core[Creator][i]
      BY <1>5, <3>1
    <3>3. PICK j \in 1..(i - 1) :
             Redeems(core[Creator][j], core[Creator][i].nonce, core[Creator][i].key)
      BY <2>2, <3>2 DEF InviteInv, BlocksInv, L
    <3>4. core'[Creator][j] = core[Creator][j]
      BY <1>5, <3>2
    <3> QED BY <3>2, <3>3, <3>4
  <2> QED BY <2>1, <2>2 DEF BlocksInv
<1>7. OnceInv'
  <2> SUFFICES ASSUME ~Readmitted,
                      NEW i \in 1..(L + 1), NEW j \in 1..(L + 1), NEW n \in Nonces,
                      IsRedeemed(core'[Creator][i], n), IsRedeemed(core'[Creator][j], n)
               PROVE  i = j
    BY <1>1, <1>5 DEF OnceInv, Readmitted
  <2>1. \A m \in 1..L : ~IsRedeemed(core[Creator][m], lock.nonce)
    BY <1>1 DEF InviteInv, HolderInv, L
  <2>2. IsRedeemed(core'[Creator][L + 1], n) => n = lock.nonce
    BY <1>3, <1>5 DEF IsRedeemed
  <2>3. CASE i \in 1..L /\ j \in 1..L
    BY <1>5, <2>3 DEF InviteInv, OnceInv, L
  <2>4. CASE i = L + 1 /\ j \in 1..L
    BY <1>5, <2>1, <2>2, <2>4
  <2>5. CASE i \in 1..L /\ j = L + 1
    BY <1>5, <2>1, <2>2, <2>5
  <2> QED BY <1>5, <2>3, <2>4, <2>5
<1>8. SpentInv'
  BY <1>1, <1>3, SpentGrows, MembershipAssumption DEF InviteInv
<1>9. HolderInv'
  <2>1. Redeems(core'[Creator][L + 1], lock'.nonce, lock'.key)
    BY <1>3, <1>4, <1>5 DEF Redeems, IsRedeemed
  <2>2. L + 1 \in 1..Len(core'[Creator])
    BY <1>5
  <2> QED BY <1>4, <2>1, <2>2 DEF HolderInv
<1>10. SingleUse'
  BY <1>1 DEF InviteInv, SingleUse, Readmitted
<1> QED BY <1>6, <1>7, <1>8, <1>9, <1>10 DEF InviteInv

\* The second append: it admits the key the nonce was redeemed for.
LEMMA InviteAdmit ==
    ASSUME TypeOK, InviteInv, RedeemAdmit
    PROVE  InviteInv'
<1> DEFINE L == Len(core[Creator])
           node == Node("add", lock.key, lock.nonce, FALSE)
<1>1. /\ lock.stage = "redeemed" /\ AppendTo(Creator, node) /\ UNCHANGED views
      /\ lock' = [lock EXCEPT !.stage = "added"]
  BY DEF RedeemAdmit
<1>2. lock # Free /\ lock.nonce \in Nonces /\ lock.key \in Daemons
  BY <1>1, Held, LockFields
<1>3. /\ node \in NodeType /\ node.kind = "add"
      /\ node.nonce = lock.nonce /\ node.key = lock.key
  BY <1>2, NodesTyped DEF Node
<1>4. lock'.stage = "added" /\ lock'.nonce = lock.nonce /\ lock'.key = lock.key
  BY <1>1, <1>2, LockFields
<1> HIDE DEF node
<1>5. /\ L \in Nat /\ Len(core'[Creator]) = L + 1 /\ core'[Creator][L + 1] = node
      /\ \A i \in 1..L : core'[Creator][i] = core[Creator][i]
      /\ \A d \in Daemons \ {Creator} : core'[d] = core[d]
  BY <1>1, <1>3, CreatorAppend
<1>6. PICK r \in 1..L : Redeems(core[Creator][r], lock.nonce, lock.key)
  BY <1>1 DEF InviteInv, HolderInv
<1> HIDE DEF L
<1>7. BlocksInv'
  <2>1. \A d \in Daemons \ {Creator} : \A i \in 1..Len(core'[d]) : core'[d][i].nonce = None
    BY <1>5 DEF InviteInv, BlocksInv
  <2>2. ASSUME NEW i \in 1..Len(core'[Creator]), core'[Creator][i].kind = "add",
               core'[Creator][i].nonce # None
        PROVE  \E j \in 1..(i - 1) :
                  Redeems(core'[Creator][j], core'[Creator][i].nonce, core'[Creator][i].key)
    <3>1. CASE i = L + 1
      <4>1. r \in 1..(i - 1) /\ core'[Creator][r] = core[Creator][r]
        BY <1>5, <1>6, <3>1
      <4> QED BY <1>3, <1>5, <1>6, <3>1, <4>1
    <3>2. CASE i \in 1..L
      <4>1. core'[Creator][i] = core[Creator][i]
        BY <1>5, <3>2
      <4>2. PICK j \in 1..(i - 1) :
               Redeems(core[Creator][j], core[Creator][i].nonce, core[Creator][i].key)
        BY <2>2, <3>2, <4>1 DEF InviteInv, BlocksInv, L
      <4>3. core'[Creator][j] = core[Creator][j]
        BY <1>5, <3>2
      <4> QED BY <4>1, <4>2, <4>3
    <3> QED BY <1>5, <3>1, <3>2
  <2> QED BY <2>1, <2>2 DEF BlocksInv
<1>8. ASSUME NEW i \in 1..(L + 1), NEW n \in Nonces, IsRedeemed(core'[Creator][i], n)
      PROVE  i \in 1..L /\ IsRedeemed(core[Creator][i], n)
  BY <1>3, <1>5, <1>8 DEF IsRedeemed
<1>9. OnceInv'
  BY <1>1, <1>5, <1>8 DEF InviteInv, OnceInv, Readmitted, L
<1>10. SpentInv'
  BY <1>1, <1>3, SpentGrows, MembershipAssumption DEF InviteInv
<1>11. HolderInv'
  <2>1. r \in 1..Len(core'[Creator]) /\ Redeems(core'[Creator][r], lock'.nonce, lock'.key)
    BY <1>4, <1>5, <1>6
  <2> QED BY <1>4, <2>1 DEF HolderInv
<1>12. SingleUse'
  BY <1>1 DEF InviteInv, SingleUse, Readmitted
<1> QED BY <1>7, <1>9, <1>10, <1>11, <1>12 DEF InviteInv

\* One more block in the ledger.
LEMMA InviteOrder ==
    ASSUME TypeOK, AuthorityInv, InviteInv, NEW d \in Daemons, Order(d)
    PROVE  InviteInv'
<1> DEFINE L == Len(views)
           v == Latest
           m == v.seen[d] + 1
           node == core[d][m]
           u == ApplyNode(v, d, node)
           C == core[Creator]
<1>1. /\ L \in Nat \ {0} /\ Len(views') = L + 1 /\ views'[L + 1] = u
      /\ \A i \in 1..L : views'[i] = views[i]
      /\ m \in 1..Len(core[d]) /\ node \in NodeType
      /\ v \in View /\ u \in View /\ u.seen = [v.seen EXCEPT ![d] = @ + 1]
  BY OrderFacts
<1>2. UNCHANGED <<core, lock>> /\ Latest' = u /\ v = views[L]
  BY <1>1 DEF Order, Latest
<1>3. ReadyFor(v, d)
  BY OrderReady
<1>4. /\ ~Readmitted' => ~Readmitted
      /\ (d = Creator /\ ~Readmitted) => Creator \notin v.removed
  <2>1. Readmitted => Readmitted'
    BY <1>1 DEF Readmitted
  <2>2. d \in v.writers /\ L \in 1..L
    BY <1>1 DEF Order
  <2>3. Creator \in v.removed /\ Creator \in v.writers => Readmitted
    BY <1>2, <2>2 DEF Readmitted
  <2> QED BY <2>1, <2>2, <2>3
<1> HIDE DEF v, m, node
<1>5. /\ u.spent = v.spent
         \/ /\ node.kind = "redeemed" /\ v.spent[node.nonce] = None
            /\ u.spent = [v.spent EXCEPT ![node.nonce] = node.key]
      /\ u.admits = v.admits
         \/ /\ node.kind = "add" /\ node.nonce # None
            /\ u.admits = v.admits \cup {<<node.nonce, node.key>>}
      /\ (d = Creator /\ Creator \notin v.removed /\ node.kind = "redeemed"
            /\ v.spent[node.nonce] = None) =>
            u.spent = [v.spent EXCEPT ![node.nonce] = node.key]
  <2>1. node \in NodeType /\ ReadyFor(v, d)
    BY <1>1, <1>3
  <2> QED BY <2>1, ApplyNodeInvites
<1>6. /\ Creator \in Daemons /\ None \notin Nonces /\ None \notin Daemons
      /\ v.seen \in [Daemons -> Nat] /\ v.spent \in [Nonces -> Daemons \cup {None}]
      /\ v.admits \in SUBSET (Nonces \X Daemons)
  BY <1>1, MembershipAssumption DEF View
<1>7. node.nonce # None => d = Creator
  BY <1>1 DEF InviteInv, BlocksInv, node
<1>8. node.kind = "redeemed" => node.nonce \in Nonces /\ node.key \in Daemons /\ d = Creator
  BY <1>1, <1>6, <1>7, NodeFacts
<1>9. /\ v.seen[Creator] \in Nat
      /\ d = Creator => u.seen[Creator] = v.seen[Creator] + 1 /\ m = v.seen[Creator] + 1
      /\ d # Creator => u.seen[Creator] = v.seen[Creator]
  BY <1>1, <1>6 DEF m
<1> HIDE DEF u, L
<1>10. /\ \A n \in Nonces : v.spent[n] # None =>
             \E j \in 1..v.seen[Creator] : IsRedeemed(C[j], n)
       /\ ~Readmitted =>
             \A j \in 1..v.seen[Creator] : \A n \in Nonces :
                 IsRedeemed(C[j], n) => v.spent[n] = C[j].key
  BY <1>1, <1>2 DEF InviteInv, SpentInv, L
<1>11. \A n \in Nonces : v.spent[n] # None => u.spent[n] = v.spent[n]
  BY <1>5, <1>6, <1>8
<1>12. BlocksInv' /\ OnceInv' /\ HolderInv'
  BY <1>2, <1>4 DEF InviteInv, BlocksInv, OnceInv, HolderInv
<1>13. ASSUME NEW n \in Nonces, u.spent[n] # None
       PROVE  \E j \in 1..u.seen[Creator] : IsRedeemed(C[j], n)
  <2>1. CASE v.spent[n] # None
    BY <1>9, <1>10, <2>1
  <2>2. CASE v.spent[n] = None
    <3>1. /\ node.kind = "redeemed" /\ node.nonce = n
      BY <1>5, <1>6, <1>8, <1>13, <2>2
    <3>2. IsRedeemed(C[m], n) /\ m \in 1..u.seen[Creator]
      BY <1>8, <1>9, <3>1 DEF IsRedeemed, node
    <3> QED BY <3>2
  <2> QED BY <2>1, <2>2
<1>14. ASSUME ~Readmitted', NEW j \in 1..u.seen[Creator], NEW n \in Nonces,
              IsRedeemed(C[j], n)
       PROVE  u.spent[n] = C[j].key
  <2>1. ~Readmitted /\ (d = Creator => Creator \notin v.removed)
    BY <1>4, <1>14
  <2>2. \A x \in 1..Len(core[Creator]) : core[Creator][x] \in NodeType
    BY <1>6 DEF TypeOK
  <2>3. u.seen[Creator] <= Len(core[Creator])
    <3>0. L \in 1..Len(views)
      BY <1>1 DEF L
    <3>1. v.seen[Creator] <= Len(core[Creator])
      BY <1>2, <1>6, <3>0 DEF TypeOK
    <3>2. CASE d = Creator
      BY <1>1, <1>9, <3>2
    <3>3. CASE d # Creator
      BY <1>9, <3>1, <3>3
    <3> QED BY <3>2, <3>3
  <2>4. Len(core[Creator]) \in Nat /\ u.seen[Creator] \in Nat
    BY <1>6, <1>9 DEF TypeOK
  <2>5. j \in 1..Len(core[Creator])
    BY <2>3, <2>4
  <2>6. C[j].key \in Daemons
    BY <1>14, <2>2, <2>5, NodeFacts DEF IsRedeemed
  <2>7. CASE j \in 1..v.seen[Creator]
    BY <1>6, <1>10, <1>11, <1>14, <2>1, <2>6, <2>7
  <2>8. CASE j \notin 1..v.seen[Creator]
    <3>1. d = Creator /\ j = m /\ node = C[j]
      BY <1>9, <2>8 DEF node
    <3>2. node.kind = "redeemed" /\ node.nonce = n
      BY <1>14, <3>1 DEF IsRedeemed
    <3>3. v.spent[n] = None
      <4> SUFFICES ASSUME v.spent[n] # None PROVE FALSE
        OBVIOUS
      <4>1. PICK i \in 1..v.seen[Creator] : IsRedeemed(C[i], n)
        BY <1>10
      <4>2. i \in 1..Len(core[Creator])
        BY <1>9, <2>5, <2>8, <4>1
      <4>3. i = j
        BY <1>14, <2>1, <2>5, <4>1, <4>2 DEF InviteInv, OnceInv
      <4> QED BY <2>8, <4>1, <4>3
    <3> QED BY <1>5, <1>6, <2>1, <3>1, <3>2, <3>3
  <2> QED BY <2>7, <2>8
<1>15. SpentInv'
  <2> DEFINE SpentIn(w) ==
        /\ \A n \in Nonces : w.spent[n] # None =>
               \E j \in 1..w.seen[Creator] : IsRedeemed(C[j], n)
        /\ ~Readmitted' =>
               \A j \in 1..w.seen[Creator] : \A n \in Nonces :
                   IsRedeemed(C[j], n) => w.spent[n] = C[j].key
  <2>1. ASSUME NEW x \in 1..L PROVE SpentIn(views[x])
    BY <1>1, <1>4 DEF L, InviteInv, SpentInv
  <2>2. SpentIn(u)
    BY <1>13, <1>14
  <2>3. C' = C
    BY <1>2
  <2> HIDE DEF C, SpentIn
  <2>4. ASSUME NEW x \in 1..Len(views') PROVE SpentIn(views'[x])
    <3>1. CASE x \in 1..L
      BY <1>1, <2>1, <3>1
    <3>2. CASE x \notin 1..L
      <4>1. x = L + 1
        BY <1>1, <3>2
      <4> QED BY <1>1, <2>2, <4>1
    <3> QED BY <3>1, <3>2
  <2> QED BY <2>3, <2>4 DEF SpentIn, SpentInv, C
<1>16. ASSUME NEW n \in Nonces, NEW k \in Daemons, <<n, k>> \in u.admits
       PROVE  u.spent[n] = k \/ Readmitted'
  <2>1. CASE <<n, k>> \in v.admits
    <3>1. v.spent[n] = k \/ Readmitted
      BY <1>1, <1>2, <2>1 DEF InviteInv, SingleUse, L
    <3> QED BY <1>4, <1>6, <1>11, <3>1
  <2>2. CASE <<n, k>> \notin v.admits
    <3>1. node.kind = "add" /\ node.nonce = n /\ node.key = k /\ d = Creator
      BY <1>5, <1>6, <1>7, <1>16, <2>2
    <3>2. PICK r \in 1..(m - 1) : Redeems(C[r], n, k)
      BY <1>1, <1>6, <3>1 DEF InviteInv, BlocksInv, node
    <3>3. r \in 1..v.seen[Creator]
      BY <1>9, <3>1, <3>2
    <3>4. CASE Readmitted
      BY <1>4, <3>4
    <3>5. CASE ~Readmitted
      <4>1. v.spent[n] = k
        BY <1>10, <3>2, <3>3, <3>5 DEF Redeems
      <4> QED BY <1>6, <1>11, <4>1
    <3> QED BY <3>4, <3>5
  <2> QED BY <2>1, <2>2
<1>17. SingleUse'
  BY <1>1, <1>2, <1>4, <1>16 DEF InviteInv, SingleUse, L
<1> QED BY <1>12, <1>15, <1>17 DEF InviteInv

\* Every step keeps the invite invariant.
LEMMA InviteNext ==
    TypeOK /\ Loaded /\ AuthorityInv /\ InviteInv /\ [Next]_vars => InviteInv'
<1> SUFFICES ASSUME TypeOK, AuthorityInv, InviteInv, [Next]_vars PROVE InviteInv'
  OBVIOUS
<1>1. ASSUME NEW d \in Daemons, Post(d) PROVE InviteInv'
  <2>1. Entry \in NodeType /\ Entry.nonce = None
    BY NodesTyped DEF Entry, Node
  <2> QED BY <1>1, <2>1, InvitePlainAppend DEF Post
<1>2. ASSUME NEW d \in Daemons, NEW k \in Daemons, NEW indexer \in BOOLEAN,
             AdminAdd(d, k, indexer)
      PROVE  InviteInv'
  <2> DEFINE node == Node("add", k, None, indexer)
  <2>1. node \in NodeType /\ node.nonce = None
    BY NodesTyped DEF Node
  <2>2. AppendTo(d, node) /\ UNCHANGED <<views, lock>>
    BY <1>2 DEF AdminAdd
  <2> HIDE DEF node
  <2> QED BY <2>1, <2>2, InvitePlainAppend
<1>3. ASSUME NEW d \in Daemons, NEW k \in Daemons, AdminRemove(d, k) PROVE InviteInv'
  <2> DEFINE node == Node("remove", k, None, FALSE)
  <2>1. node \in NodeType /\ node.nonce = None
    BY NodesTyped DEF Node
  <2>2. AppendTo(d, node) /\ UNCHANGED <<views, lock>>
    BY <1>3 DEF AdminRemove
  <2> HIDE DEF node
  <2> QED BY <2>1, <2>2, InvitePlainAppend
<1>4. ASSUME NEW d \in Daemons, Leave(d) PROVE InviteInv'
  <2> DEFINE node == Node("leave", d, None, FALSE)
  <2>1. node \in NodeType /\ node.nonce = None
    BY NodesTyped DEF Node
  <2>2. /\ AppendTo(d, node) \/ UNCHANGED core
        /\ UNCHANGED views /\ (lock' = lock \/ lock' = Free)
    BY <1>4 DEF Leave
  <2> HIDE DEF node
  <2> QED BY <2>1, <2>2, InvitePlainAppend, InviteQuiet
<1>5. ASSUME NEW d \in Daemons, Order(d) PROVE InviteInv'
  BY <1>5, InviteOrder
<1>6. ASSUME NEW d \in Daemons, CatchUp(d) PROVE InviteInv'
  BY <1>6, InviteQuiet DEF CatchUp
<1>7. ASSUME NEW n \in Nonces, CreateInvite(n) \/ RevokeInvite(n) PROVE InviteInv'
  BY <1>7, InviteQuiet DEF CreateInvite, RevokeInvite
<1>8. ASSUME NEW n \in Nonces, NEW k \in Daemons, RedeemArrive(n, k) PROVE InviteInv'
  BY <1>8, InviteQuiet DEF RedeemArrive
<1>9. ASSUME NEW n \in Nonces, NEW k \in Daemons, RedeemCheck(n, k) PROVE InviteInv'
  BY <1>9, InviteCheck
<1>10. ASSUME RedeemAppend PROVE InviteInv'
  BY <1>10, InviteRedeem
<1>11. ASSUME RedeemAdmit PROVE InviteInv'
  BY <1>11, InviteAdmit
<1>12. ASSUME RedeemSave \/ RedeemFail \/ Crash \/ UNCHANGED vars PROVE InviteInv'
  BY <1>12, InviteQuiet DEF RedeemSave, RedeemFail, Crash, vars
<1> QED BY <1>1, <1>2, <1>3, <1>4, <1>5, <1>6, <1>7, <1>8, <1>9, <1>10, <1>11,
           <1>12 DEF Next

\* Whoever an invite admits is the writer its nonce is spent on, for any number
\* of daemons, invites and blocks, unless the creator was removed and added again
\* (pact.ts redeemInvite with the apply.ts guard).
THEOREM SingleUseCorrect == Spec => []SingleUse
<1>1. Init => TypeOK /\ Loaded /\ AuthorityInv /\ InviteInv
  BY InitType, AuthorityInit, InviteInit
<1>2. TypeOK /\ Loaded /\ AuthorityInv /\ InviteInv /\ [Next]_vars
         => (TypeOK /\ Loaded /\ AuthorityInv /\ InviteInv)'
  BY NextType, AuthorityNext, InviteNext
<1>3. InviteInv => SingleUse
  BY DEF InviteInv
<1> QED BY <1>1, <1>2, <1>3, PTL DEF Spec

---------------------------------------------------------------------------
(* The invites file.                                                       *)

\* Whoever holds the lock has loaded what is on disk.
FreshInv == lock # Free => lock.loaded = file

\* An append that does not redeem a nonce leaves its redemptions as they were.
LEMMA SameRedemptions ==
    ASSUME TypeOK, NEW d \in Daemons, NEW node \in NodeType, AppendTo(d, node),
           NEW n \in Nonces, ~IsRedeemed(node, n)
    PROVE  Redemptions(n)' = Redemptions(n)
<1>1. Creator \in Daemons /\ Len(core[Creator]) \in Nat
  BY MembershipAssumption DEF TypeOK
<1>2. CASE d # Creator
  <2>1. core'[Creator] = core[Creator]
    BY <1>1, <1>2, AppendToFacts
  <2> QED BY <2>1 DEF Redemptions
<1>3. CASE d = Creator
  <2>1. /\ Len(core'[Creator]) = Len(core[Creator]) + 1
        /\ core'[Creator][Len(core[Creator]) + 1] = node
        /\ \A i \in 1..Len(core[Creator]) : core'[Creator][i] = core[Creator][i]
    BY <1>1, <1>3, AppendToFacts
  <2>2. \A i \in 1..Len(core'[Creator]) : IsRedeemed(core'[Creator][i], n) =>
           i \in 1..Len(core[Creator]) /\ IsRedeemed(core[Creator][i], n)
    BY <1>1, <2>1
  <2>3. \A i \in 1..Len(core[Creator]) : IsRedeemed(core[Creator][i], n) =>
           i \in 1..Len(core'[Creator]) /\ IsRedeemed(core'[Creator][i], n)
    BY <1>1, <2>1
  <2> QED BY <2>2, <2>3 DEF Redemptions
<1> QED BY <1>2, <1>3

\* At the start the lock is free.
LEMMA FreshInit == Init => FreshInv
BY DEF Init, FreshInv

\* Under the lock nothing in the file is lost, step by step.
LEMMA KeepsNext ==
    TypeOK /\ Loaded /\ FreshInv /\ [Next]_vars => FreshInv' /\ [KeepsInvites]_vars
<1> SUFFICES ASSUME TypeOK, Loaded, FreshInv, [Next]_vars
             PROVE  FreshInv' /\ KeepsInvites
  OBVIOUS
<1>1. ASSUME NEW d \in Daemons, NEW node \in NodeType, AppendTo(d, node),
             node.kind # "redeemed", UNCHANGED file, lock' = lock \/ lock' = Free
      PROVE  FreshInv' /\ KeepsInvites
  <2>1. \A n \in Nonces : Redemptions(n)' = Redemptions(n)
    BY <1>1, SameRedemptions DEF IsRedeemed
  <2> QED BY <1>1, <2>1 DEF FreshInv, KeepsInvites
<1>2. ASSUME UNCHANGED core, \A n \in Nonces : file[n] \subseteq file'[n],
             lock' = Free \/ UNCHANGED <<lock, file>>
      PROVE  FreshInv' /\ KeepsInvites
  <2>1. \A n \in Nonces : Redemptions(n)' = Redemptions(n)
    BY <1>2 DEF Redemptions
  <2> QED BY <1>2, <2>1 DEF FreshInv, KeepsInvites
<1>3. ASSUME NEW d \in Daemons, Post(d) PROVE FreshInv' /\ KeepsInvites
  <2>1. Entry \in NodeType /\ Entry.kind # "redeemed"
    BY NodesTyped DEF Entry, Node
  <2> QED BY <1>1, <1>3, <2>1 DEF Post
<1>4. ASSUME NEW d \in Daemons, NEW k \in Daemons, NEW indexer \in BOOLEAN,
             AdminAdd(d, k, indexer)
      PROVE  FreshInv' /\ KeepsInvites
  <2> DEFINE node == Node("add", k, None, indexer)
  <2>1. node \in NodeType /\ node.kind # "redeemed"
    BY NodesTyped DEF Node
  <2>2. AppendTo(d, node) /\ UNCHANGED <<file, lock>>
    BY <1>4 DEF AdminAdd
  <2> HIDE DEF node
  <2> QED BY <1>1, <2>1, <2>2
<1>5. ASSUME NEW d \in Daemons, NEW k \in Daemons, AdminRemove(d, k)
      PROVE  FreshInv' /\ KeepsInvites
  <2> DEFINE node == Node("remove", k, None, FALSE)
  <2>1. node \in NodeType /\ node.kind # "redeemed"
    BY NodesTyped DEF Node
  <2>2. AppendTo(d, node) /\ UNCHANGED <<file, lock>>
    BY <1>5 DEF AdminRemove
  <2> HIDE DEF node
  <2> QED BY <1>1, <2>1, <2>2
<1>6. ASSUME NEW d \in Daemons, Leave(d) PROVE FreshInv' /\ KeepsInvites
  <2> DEFINE node == Node("leave", d, None, FALSE)
  <2>1. node \in NodeType /\ node.kind # "redeemed"
    BY NodesTyped DEF Node
  <2>2. /\ AppendTo(d, node) \/ UNCHANGED core
        /\ UNCHANGED file /\ (lock' = lock \/ lock' = Free)
    BY <1>6 DEF Leave
  <2> HIDE DEF node
  <2> QED BY <1>1, <1>2, <2>1, <2>2
<1>7. ASSUME NEW n \in Nonces, CreateInvite(n) PROVE FreshInv' /\ KeepsInvites
  BY <1>2, <1>7 DEF CreateInvite, TypeOK, InvitesFile
<1>8. ASSUME NEW n \in Nonces, RevokeInvite(n) PROVE FreshInv' /\ KeepsInvites
  BY <1>2, <1>8 DEF RevokeInvite, TypeOK, InvitesFile
<1>9. ASSUME NEW n \in Nonces, NEW k \in Daemons, RedeemCheck(n, k)
      PROVE  FreshInv' /\ KeepsInvites
  <2>1. UNCHANGED <<core, file>>
    BY <1>9 DEF RedeemCheck
  <2>2. CASE lock' = Free
    BY <1>2, <2>1, <2>2
  <2>3. CASE lock' = Redeeming("checked", n, k, file)
    <3>1. lock'.loaded = file'
      BY <2>1, <2>3 DEF Redeeming
    <3>2. \A o \in Nonces : Redemptions(o)' = Redemptions(o)
      BY <2>1 DEF Redemptions
    <3> QED BY <2>1, <3>1, <3>2 DEF FreshInv, KeepsInvites
  <2> QED BY <1>9, <2>2, <2>3 DEF RedeemCheck
<1>10. ASSUME RedeemAppend PROVE FreshInv' /\ KeepsInvites
  <2> DEFINE node == Node("redeemed", lock.key, lock.nonce, FALSE)
  <2>1. lock # Free
    BY <1>10, Held DEF RedeemAppend
  <2>2. /\ AppendTo(Creator, node) /\ Creator \in Daemons /\ node \in NodeType
        /\ node.nonce = lock.nonce
    BY <1>10, <2>1, LockFields, NodesTyped, MembershipAssumption DEF RedeemAppend, Node
  <2>3. UNCHANGED file /\ lock'.loaded = lock.loaded
    BY <1>10, <2>1, LockFields DEF RedeemAppend
  <2> HIDE DEF node
  <2>4. file[lock.nonce] = {"minted"}
    BY <2>1 DEF Loaded, FreshInv
  <2>5. \A n \in Nonces : "revoked" \in file[n] => ~IsRedeemed(node, n)
    BY <2>2, <2>4 DEF IsRedeemed
  <2>6. \A n \in Nonces : "revoked" \in file[n] => Redemptions(n)' = Redemptions(n)
    BY <2>2, <2>5, SameRedemptions
  <2> QED BY <2>1, <2>3, <2>6 DEF FreshInv, KeepsInvites
<1>11. ASSUME RedeemAdmit PROVE FreshInv' /\ KeepsInvites
  <2> DEFINE node == Node("add", lock.key, lock.nonce, FALSE)
  <2>1. lock # Free
    BY <1>11, Held DEF RedeemAdmit
  <2>2. /\ AppendTo(Creator, node) /\ Creator \in Daemons /\ node \in NodeType
        /\ node.kind # "redeemed"
    BY <1>11, <2>1, LockFields, NodesTyped, MembershipAssumption DEF RedeemAdmit, Node
  <2>3. UNCHANGED file /\ lock'.loaded = lock.loaded
    BY <1>11, <2>1, LockFields DEF RedeemAdmit
  <2> HIDE DEF node
  <2>4. \A n \in Nonces : Redemptions(n)' = Redemptions(n)
    BY <2>2, SameRedemptions DEF IsRedeemed
  <2> QED BY <2>1, <2>3, <2>4 DEF FreshInv, KeepsInvites
<1>12. ASSUME RedeemSave PROVE FreshInv' /\ KeepsInvites
  <2>1. lock # Free
    BY <1>12, Held DEF RedeemSave
  <2>2. /\ lock.loaded = file /\ lock.nonce \in Nonces /\ file \in InvitesFile
    BY <2>1, LockFields DEF FreshInv, TypeOK
  <2>3. \A n \in Nonces : file[n] \subseteq file'[n]
    BY <1>12, <2>2 DEF RedeemSave, InvitesFile
  <2> QED BY <1>2, <1>12, <2>3 DEF RedeemSave
<1>13. ASSUME RedeemFail \/ Crash PROVE FreshInv' /\ KeepsInvites
  BY <1>2, <1>13 DEF RedeemFail, Crash
<1>14. ASSUME NEW d \in Daemons, Order(d) \/ CatchUp(d) PROVE FreshInv' /\ KeepsInvites
  BY <1>2, <1>14 DEF Order, CatchUp
<1>15. ASSUME NEW n \in Nonces, NEW k \in Daemons, RedeemArrive(n, k)
       PROVE  FreshInv' /\ KeepsInvites
  BY <1>2, <1>15 DEF RedeemArrive
<1>16. ASSUME UNCHANGED vars PROVE FreshInv' /\ KeepsInvites
  BY <1>2, <1>16 DEF vars
<1> QED BY <1>3, <1>4, <1>5, <1>6, <1>7, <1>8, <1>9, <1>10, <1>11, <1>12, <1>13,
           <1>14, <1>15, <1>16 DEF Next

\* Nothing that was written to invites.json is lost to a concurrent operation,
\* and a revoked invite is redeemed no more (the invite lock of pact.ts).
THEOREM InvitesKept == Spec => InvitesAreKept
<1>1. Init => TypeOK /\ Loaded /\ FreshInv
  BY InitType, FreshInit
<1>2. TypeOK /\ Loaded /\ FreshInv /\ [Next]_vars => (TypeOK /\ Loaded /\ FreshInv)'
  BY NextType, KeepsNext
<1>3. TypeOK /\ Loaded /\ FreshInv /\ [Next]_vars => [KeepsInvites]_vars
  BY KeepsNext
<1> QED BY <1>1, <1>2, <1>3, PTL DEF Spec, InvitesAreKept
---------------------------------------------------------------------------
(* The promise of an invite.                                               *)

\* A core that redeems a nonce has a first block that does.
LEMMA FirstExists ==
    ASSUME NEW S \in SUBSET Nat, S # {}
    PROVE  \E f \in S : \A j \in S : f <= j
<1>1. PICK f \in S : \A j \in S : ~(<<j, f>> \in OpToRel(<, Nat))
  BY NatLessThanWellFounded, WFMin
<1>2. \A j \in S : ~(j < f)
  BY <1>1 DEF OpToRel
<1> QED BY <1>2

LEMMA FirstIs ==
    ASSUME NEW S \in SUBSET Nat, NEW f \in S, \A j \in S : f <= j
    PROVE  (CHOOSE i \in S : \A j \in S : i <= j) = f
<1>1. \A i \in S : (\A j \in S : i <= j) => i = f
  OBVIOUS
<1> QED BY <1>1

LEMMA RedemptionsAre ==
    ASSUME TypeOK, NEW n \in Nonces
    PROVE  /\ Redemptions(n) \in SUBSET Nat
           /\ \A i : i \in Redemptions(n) <=>
                    i \in 1..Len(core[Creator]) /\ IsRedeemed(core[Creator][i], n)
<1>1. Len(core[Creator]) \in Nat
  BY MembershipAssumption DEF TypeOK
<1> QED BY <1>1 DEF Redemptions

\* The first redemption stays the first.
LEMMA RedeemerStays ==
    ASSUME TypeOK, TypeOK', NEW n \in Nonces, Redemptions(n) # {},
           \A i \in Redemptions(n) : i \in Redemptions(n)' /\ core'[Creator][i] = core[Creator][i],
           \A i \in Redemptions(n)' : i \in Redemptions(n) \/ i > Len(core[Creator])
    PROVE  Redeemer(n)' = Redeemer(n)
<1>1. Redemptions(n) \in SUBSET Nat /\ Len(core[Creator]) \in Nat
  BY RedemptionsAre, MembershipAssumption DEF TypeOK
<1>2. PICK f \in Redemptions(n) : \A j \in Redemptions(n) : f <= j
  BY <1>1, FirstExists
<1>3. Redemptions(n)' \in SUBSET Nat
  <2>1. Len(core'[Creator]) \in Nat
    BY MembershipAssumption DEF TypeOK
  <2> QED BY <2>1 DEF Redemptions
<1>4. f \in Redemptions(n)' /\ \A j \in Redemptions(n)' : f <= j
  <2>1. f <= Len(core[Creator])
    BY <1>1, RedemptionsAre
  <2> QED BY <1>1, <1>2, <1>3, <2>1
<1>5. Redeemer(n) = core[Creator][f].key
  BY <1>1, <1>2, FirstIs DEF Redeemer
<1>6. Redeemer(n)' = core'[Creator][f].key
  BY <1>3, <1>4, FirstIs DEF Redeemer
<1> QED BY <1>5, <1>6

\* A step that redeems nothing more.
LEMMA NobodySpends ==
    ASSUME TypeOK, TypeOK', NEW n \in Nonces, Redemptions(n)' = Redemptions(n),
           \A i \in 1..Len(core[Creator]) : core'[Creator][i] = core[Creator][i]
    PROVE  Redeemer(n)' = Redeemer(n)
<1>1. CASE Redemptions(n) = {}
  BY <1>1 DEF Redeemer
<1>2. CASE Redemptions(n) # {}
  <2>1. \A i \in Redemptions(n) : core'[Creator][i] = core[Creator][i]
    BY RedemptionsAre
  <2> QED BY <1>2, <2>1, RedeemerStays
<1> QED BY <1>1, <1>2

\* The first append of a redemption spends the invite, if nothing has before.
LEMMA AppendSpends ==
    ASSUME TypeOK, TypeOK', RedeemAppend
    PROVE  [Promise!Next]_<<SpentBy, told>>
<1> DEFINE L == Len(core[Creator])
           node == Node("redeemed", lock.key, lock.nonce, FALSE)
<1>1. lock # Free /\ lock.nonce \in Nonces /\ lock.key \in Daemons
  BY Held, LockFields DEF RedeemAppend
<1>2. /\ AppendTo(Creator, node) /\ node \in NodeType /\ Creator \in Daemons
      /\ node.kind = "redeemed" /\ node.nonce = lock.nonce /\ node.key = lock.key
  BY <1>1, NodesTyped, MembershipAssumption DEF RedeemAppend, Node
<1> HIDE DEF node
<1>3. /\ L \in Nat /\ Len(core'[Creator]) = L + 1 /\ core'[Creator][L + 1] = node
      /\ \A i \in 1..L : core'[Creator][i] = core[Creator][i]
  BY <1>2, CreatorAppend
<1>4. ASSUME NEW n \in Nonces, n # lock.nonce \/ Redemptions(n) # {}
      PROVE  Redeemer(n)' = Redeemer(n)
  <2>1. CASE n # lock.nonce
    <3>1. Redemptions(n)' = Redemptions(n)
      BY <1>2, <2>1, SameRedemptions DEF IsRedeemed
    <3> QED BY <1>3, <3>1, NobodySpends
  <2>2. CASE Redemptions(n) # {}
    <3>1. \A i \in Redemptions(n) :
             i \in 1..(L + 1) /\ core'[Creator][i] = core[Creator][i] /\ IsRedeemed(core[Creator][i], n)
      BY <1>3, RedemptionsAre
    <3>2. \A i \in Redemptions(n) : i \in Redemptions(n)' /\ core'[Creator][i] = core[Creator][i]
      BY <1>3, <3>1 DEF Redemptions
    <3>3. \A i \in Redemptions(n)' : i \in 1..(L + 1) /\ IsRedeemed(core'[Creator][i], n)
      BY <1>3 DEF Redemptions
    <3>4. \A i \in 1..L : IsRedeemed(core'[Creator][i], n) => i \in Redemptions(n)
      BY <1>3, RedemptionsAre
    <3>5. \A i \in Redemptions(n)' : i \in Redemptions(n) \/ i > L
      BY <1>3, <3>3, <3>4
    <3> QED BY <2>2, <3>2, <3>5, RedeemerStays
  <2> QED BY <1>4, <2>1, <2>2
<1>5. UNCHANGED told
  BY DEF RedeemAppend
<1>6. PICK n \in Nonces, k \in Daemons : n = lock.nonce /\ k = lock.key
  BY <1>1
<1>7. CASE Redemptions(n) # {}
  <2>1. \A o \in Nonces : Redeemer(o)' = Redeemer(o)
    BY <1>4, <1>6, <1>7
  <2> QED BY <1>5, <2>1 DEF SpentBy
<1>8. CASE Redemptions(n) = {}
  <2>1. \A i \in 1..L : ~IsRedeemed(core'[Creator][i], n)
    BY <1>3, <1>8, RedemptionsAre
  <2>2. IsRedeemed(core'[Creator][L + 1], n) /\ core'[Creator][L + 1].key = k
    BY <1>2, <1>3, <1>6 DEF IsRedeemed
  <2>3. Redemptions(n)' = {L + 1}
    <3>1. {i \in 1..(L + 1) : IsRedeemed(core'[Creator][i], n)} = {L + 1}
      BY <1>3, <2>1, <2>2
    <3> QED BY <1>3, <3>1 DEF Redemptions
  <2>4. Redeemer(n) = None
    BY <1>8 DEF Redeemer
  <2>5. Redeemer(n)' = k
    <3> HIDE DEF L
    <3>1. (CHOOSE i \in {L + 1} : \A j \in {L + 1} : i <= j) = L + 1
      BY <1>3
    <3> QED BY <2>2, <2>3, <3>1 DEF Redeemer
  <2>6. \A o \in Nonces : o # n => Redeemer(o)' = Redeemer(o)
    BY <1>4, <1>6
  <2>7. SpentBy[n] = None /\ SpentBy' = [SpentBy EXCEPT ![n] = k]
    BY <2>4, <2>5, <2>6 DEF SpentBy
  <2> QED BY <1>5, <2>7 DEF Promise!Next, Promise!Spend
<1> QED BY <1>7, <1>8

\* An answer is told to the writer of the only redemption in the core.
LEMMA SaveTells ==
    ASSUME TypeOK, TypeOK', InviteInv, RedeemSave, ~Readmitted
    PROVE  [Promise!Next]_<<SpentBy, told>>
<1>1. lock # Free
  BY Held DEF RedeemSave
<1>2. PICK n \in Nonces, k \in Daemons : n = lock.nonce /\ k = lock.key
  BY <1>1, LockFields
<1>3. UNCHANGED core /\ told' = told \cup {<<n, k>>}
  BY <1>2 DEF RedeemSave
<1>4. PICK i \in 1..Len(core[Creator]) : Redeems(core[Creator][i], n, k)
  BY <1>2 DEF InviteInv, HolderInv, RedeemSave
<1>5. \A j \in Redemptions(n) : j = i
  BY <1>4, RedemptionsAre DEF InviteInv, OnceInv, Redeems
<1>6. Redemptions(n) = {i} /\ i \in Nat
  BY <1>4, <1>5, RedemptionsAre DEF Redeems
<1>7. Redeemer(n) = k
  <2>1. (CHOOSE f \in {i} : \A j \in {i} : f <= j) = i
    BY <1>6
  <2> QED BY <1>4, <1>6, <2>1 DEF Redeemer, Redeems
<1>8. \A o \in Nonces : Redeemer(o)' = Redeemer(o)
  BY <1>3 DEF Redeemer, Redemptions
<1>9. SpentBy[n] = k /\ SpentBy' = SpentBy
  BY <1>7, <1>8 DEF SpentBy
<1> QED BY <1>3, <1>9 DEF Promise!Next, Promise!Tell

\* Every step is one of the abstract service, or none of its business.
LEMMA StepPromised ==
    ASSUME TypeOK, TypeOK', InviteInv, [Next]_vars
    PROVE  [Promise!Next \/ Readmitted]_<<SpentBy, told>>
<1>1. ASSUME NEW d \in Daemons, NEW node \in NodeType, AppendTo(d, node),
             node.kind # "redeemed", UNCHANGED told
      PROVE  UNCHANGED <<SpentBy, told>>
  <2>1. \A n \in Nonces : Redemptions(n)' = Redemptions(n)
    BY <1>1, SameRedemptions DEF IsRedeemed
  <2>2. \A i \in 1..Len(core[Creator]) : core'[Creator][i] = core[Creator][i]
    BY <1>1, AppendToFacts, MembershipAssumption DEF TypeOK
  <2>3. \A n \in Nonces : Redeemer(n)' = Redeemer(n)
    BY <2>1, <2>2, NobodySpends
  <2> QED BY <1>1, <2>3 DEF SpentBy
<1>2. ASSUME UNCHANGED <<core, told>> PROVE UNCHANGED <<SpentBy, told>>
  BY <1>2 DEF SpentBy, Redeemer, Redemptions
<1>3. ASSUME NEW d \in Daemons, Post(d) PROVE UNCHANGED <<SpentBy, told>>
  <2>1. Entry \in NodeType /\ Entry.kind # "redeemed"
    BY NodesTyped DEF Entry, Node
  <2> QED BY <1>1, <1>3, <2>1 DEF Post
<1>4. ASSUME NEW d \in Daemons, NEW k \in Daemons, NEW indexer \in BOOLEAN,
             AdminAdd(d, k, indexer)
      PROVE  UNCHANGED <<SpentBy, told>>
  <2>1. /\ Node("add", k, None, indexer) \in NodeType
        /\ Node("add", k, None, indexer).kind # "redeemed"
    BY NodesTyped DEF Node
  <2> QED BY <1>1, <1>4, <2>1 DEF AdminAdd
<1>5. ASSUME NEW d \in Daemons, NEW k \in Daemons, AdminRemove(d, k)
      PROVE  UNCHANGED <<SpentBy, told>>
  <2>1. /\ Node("remove", k, None, FALSE) \in NodeType
        /\ Node("remove", k, None, FALSE).kind # "redeemed"
    BY NodesTyped DEF Node
  <2> QED BY <1>1, <1>5, <2>1 DEF AdminRemove
<1>6. ASSUME NEW d \in Daemons, Leave(d) PROVE UNCHANGED <<SpentBy, told>>
  <2>1. /\ Node("leave", d, None, FALSE) \in NodeType
        /\ Node("leave", d, None, FALSE).kind # "redeemed"
    BY NodesTyped DEF Node
  <2>2. /\ AppendTo(d, Node("leave", d, None, FALSE)) \/ UNCHANGED core
        /\ UNCHANGED told
    BY <1>6 DEF Leave
  <2> QED BY <1>1, <1>2, <2>1, <2>2
<1>7. ASSUME RedeemAdmit PROVE UNCHANGED <<SpentBy, told>>
  <2>1. lock # Free
    BY <1>7, Held DEF RedeemAdmit
  <2>2. /\ Node("add", lock.key, lock.nonce, FALSE) \in NodeType
        /\ Node("add", lock.key, lock.nonce, FALSE).kind # "redeemed"
    BY <2>1, LockFields, NodesTyped DEF Node
  <2>3. AppendTo(Creator, Node("add", lock.key, lock.nonce, FALSE)) /\ UNCHANGED told /\ Creator \in Daemons
    BY <1>7, MembershipAssumption DEF RedeemAdmit
  <2> QED BY <1>1, <2>2, <2>3
<1>8. ASSUME \/ \E d \in Daemons : Order(d) \/ CatchUp(d)
             \/ \E n \in Nonces : CreateInvite(n) \/ RevokeInvite(n)
             \/ \E n \in Nonces, k \in Daemons : RedeemArrive(n, k) \/ RedeemCheck(n, k)
             \/ RedeemFail \/ Crash \/ UNCHANGED vars
      PROVE  UNCHANGED <<SpentBy, told>>
  <2>1. UNCHANGED <<core, told>>
    BY <1>8 DEF Order, CatchUp, CreateInvite, RevokeInvite, RedeemArrive, RedeemCheck,
                RedeemFail, Crash, vars
  <2> QED BY <1>2, <2>1
<1>9. CASE RedeemAppend
  BY <1>9, AppendSpends
<1>10. CASE RedeemSave
  BY <1>10, SaveTells
<1> QED BY <1>3, <1>4, <1>5, <1>6, <1>7, <1>8, <1>9, <1>10 DEF Next

\* The lock, the file and the ledger implement the abstract service of invites,
\* through any interleaving of redemptions, failures, crashes and removals,
\* unless the creator was removed and added again (redeemInvite in pact.ts).
THEOREM PromiseKept == Spec => ImplementsInvites
<1>1. Init => TypeOK /\ Loaded /\ AuthorityInv /\ InviteInv
  BY InitType, AuthorityInit, InviteInit
<1>2. TypeOK /\ Loaded /\ AuthorityInv /\ InviteInv /\ [Next]_vars
         => (TypeOK /\ Loaded /\ AuthorityInv /\ InviteInv)'
  BY NextType, AuthorityNext, InviteNext
<1>3. Init => Promise!Init
  <2> SUFFICES ASSUME Init PROVE Promise!Init
    OBVIOUS
  <2>1. Len(core[Creator]) = 0 /\ told = {}
    BY MembershipAssumption DEF Init
  <2>2. \A n \in Nonces : Redeemer(n) = None
    BY <2>1 DEF Redeemer, Redemptions
  <2> QED BY <2>1, <2>2 DEF Promise!Init, SpentBy
<1>4. TypeOK /\ TypeOK' /\ InviteInv /\ [Next]_vars => [Promise!Next \/ Readmitted]_<<SpentBy, told>>
  BY StepPromised
<1> QED BY <1>1, <1>2, <1>3, <1>4, PTL DEF Spec, ImplementsInvites

=============================================================================
