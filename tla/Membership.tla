----------------------------- MODULE Membership -----------------------------
(***************************************************************************)
(* Who may write to a pact, and how an invite admits a writer: the admin   *)
(* and invite-redeemed branches of apply.ts, the admin and invite          *)
(* operations of pact.ts, and the routes that call them.                   *)
(*                                                                         *)
(* A daemon appends to its own core.  Autobase (external) orders the       *)
(* blocks of all cores into one ledger; apply() folds the ledger into the  *)
(* view, and each daemon has applied some prefix of it.  A daemon is named *)
(* by its writer key.  Only the creator mints invites, and a nonce is      *)
(* known only to the invites.json of the daemon that minted it, so there   *)
(* is one file and one invite lock.                                        *)
(***************************************************************************)
EXTENDS Integers, FiniteSets, Sequences

CONSTANTS
    Daemons,    \* the writer keys there are
    Creator,    \* the daemon that created the pact
    Nonces,     \* the nonces that can be minted
    None,       \* no nonce, no key
    MaxRedeem,  \* bound on the blocks redemptions append to a core
    MaxOther,   \* bound on the other blocks of a core
    MaxWaiting  \* bound on the redemptions that wait for the lock

ASSUME MembershipAssumption ==
    /\ Creator \in Daemons
    /\ None \notin Daemons \cup Nonces
    /\ MaxRedeem \in Nat /\ MaxOther \in Nat /\ MaxWaiting \in Nat

VARIABLES
    core,       \* core[d]: the blocks d has appended
    views,      \* views[i]: the view after i - 1 ordered blocks
    at,         \* at[d]: the view d has reached
    gone,       \* daemons that have removed the pact
    file,       \* file[n]: what invites.json says of nonce n
    waiting,    \* redemptions that wait for the invite lock
    lock,       \* the redemption that holds it
    told        \* redemptions answered with ok

vars == <<core, views, at, gone, file, waiting, lock, told>>

---------------------------------------------------------------------------
(* Blocks, and the view they are folded into.                              *)

Node(kind, key, nonce, indexer) ==
    [kind |-> kind, key |-> key, nonce |-> nonce, indexer |-> indexer]

\* An entry that is neither admin nor invite-redeemed.
Entry == Node("entry", None, None, FALSE)

\* members, indexers, spent: the `_members/`, `_indexers/` and `_invites/` keys.
\* writers, sysIndexers: Autobase's own copy of the first two.  seen: its clock.
\* halted: the reducer has thrown, and on what.  admits, removed: history.
Genesis ==
    [members |-> {}, indexers |-> {}, spent |-> [n \in Nonces |-> None],
     writers |-> {Creator}, sysIndexers |-> {Creator},
     seen |-> [d \in Daemons |-> 0],
     halted |-> "no", admits |-> {}, removed |-> {}]

\* The first writer implicitly becomes the first member and the first indexer.
Bootstrap(v, w) ==
    [v EXCEPT !.members = IF @ = {} THEN {w} ELSE @,
              !.indexers = IF @ = {} THEN {w} ELSE @]

HostAddWriter(v, node) ==
    [v EXCEPT !.writers = @ \cup {node.key},
              !.sysIndexers = IF node.indexer THEN @ \cup {node.key} ELSE @]

\* Autobase throws inside apply() rather than remove the last indexer.
HostRemoveWriter(v, node) ==
    IF v.sysIndexers = {node.key}
    THEN [v EXCEPT !.halted = node.kind]
    ELSE [v EXCEPT !.writers = @ \ {node.key},
                   !.sysIndexers = @ \ {node.key},
                   !.removed = @ \cup {node.key}]

AddWriter(v, node) ==
    [HostAddWriter(v, node) EXCEPT
        !.members = @ \cup {node.key},
        !.indexers = IF node.indexer THEN @ \cup {node.key} ELSE @,
        !.admits = IF node.nonce = None THEN @ ELSE @ \cup {<<node.nonce, node.key>>}]

RemoveWriterKeepIndexerKey(v, node) ==
    LET host == HostRemoveWriter(v, node)
    IN IF host.halted # "no" THEN host
       ELSE [host EXCEPT !.members = @ \ {node.key}]

RemoveWriter(v, node) ==
    LET host == HostRemoveWriter(v, node)
    IN IF host.halted # "no" THEN host
       ELSE [host EXCEPT !.members = @ \ {node.key}, !.indexers = @ \ {node.key}]

MarkSpent(v, node) ==
    IF v.spent[node.nonce] = None
    THEN [v EXCEPT !.spent[node.nonce] = node.key]
    ELSE v

\* An admin or invite-redeemed entry needs an indexer, but for the removal of
\* oneself.
Applied(v, w, node) ==
    CASE node.kind = "redeemed" /\ w \in v.indexers -> MarkSpent(v, node)
      [] node.kind = "add" /\ w \in v.indexers -> AddWriter(v, node)
      [] node.kind \in {"remove", "leave"} /\ (w \in v.indexers \/ node.key = w) ->
            RemoveWriter(v, node)
      [] OTHER -> v

ApplyNode(v, w, node) ==
    Applied([Bootstrap(v, w) EXCEPT !.seen[w] = @ + 1], w, node)

---------------------------------------------------------------------------
(* What a daemon reads.                                                    *)

Latest == views[Len(views)]

\* The confirmed part of d's view.
Confirmed(d) == views[at[d]]

\* d's own blocks that the confirmed part does not hold; Autobase applies them
\* on top of it, and does so again after a restart.
Unconfirmed(d) ==
    SubSeq(core[d], Confirmed(d).seen[d] + 1, Len(core[d]))

LocalView(d) ==
    LET own == Unconfirmed(d)
        after[i \in 0..Len(own)] ==
            IF i = 0 THEN Confirmed(d) ELSE ApplyNode(after[i - 1], d, own[i])
    IN after[Len(own)]

\* A daemon whose reducer has thrown has a dead Autobase.
Running(d) == d \notin gone /\ LocalView(d).halted = "no"

\* base.writable
Writable(d) == Running(d) /\ d \in LocalView(d).writers

\* _isSoleIndexer, once the farewell has been applied.
SoleIndexer(d) == Bootstrap(LocalView(d), d).indexers = {d}

IsRedeemed(node, n) == node.kind = "redeemed" /\ node.nonce = n

\* `_invites/<nonce>` in the creator's view.
SpentInView(n) ==
    \/ Confirmed(Creator).spent[n] # None
    \/ \E i \in Confirmed(Creator).seen[Creator] + 1..Len(core[Creator]) :
            IsRedeemed(core[Creator][i], n)

---------------------------------------------------------------------------
(* The invite lock, and the redemption inside it.                          *)

Free == [stage |-> "free"]

\* `loaded` is the invites.json read at the start: what is saved at the end.
Redeeming(stage, n, k, loaded) ==
    [stage |-> stage, nonce |-> n, key |-> k, loaded |-> loaded]

Init ==
    /\ core = [d \in Daemons |-> <<>>]
    /\ views = <<Genesis>>
    /\ at = [d \in Daemons |-> 1]
    /\ gone = {}
    /\ file = [n \in Nonces |-> {}]
    /\ waiting = {}
    /\ lock = Free
    /\ told = {}

\* How many more blocks d's core may get, of redemptions or of anything else.
Room(d, redeeming) ==
    LET Counts(node) == (node.nonce # None) = redeeming
    IN (IF redeeming THEN MaxRedeem ELSE MaxOther) - Len(SelectSeq(core[d], Counts))

AppendTo(d, node) ==
    /\ Room(d, node.nonce # None) > 0
    /\ Writable(d)
    /\ core' = [core EXCEPT ![d] = Append(@, node)]

---------------------------------------------------------------------------
(* Entries and admin operations, on any daemon.                            *)

\* Pact.append.
Post(d) ==
    /\ AppendTo(d, Entry)
    /\ UNCHANGED <<views, at, gone, file, waiting, lock, told>>

\* Pact.addWriter: the member route, and promote.  Any member may append it;
\* apply() decides whether it counts.
AdminAdd(d, k, indexer) ==
    /\ AppendTo(d, Node("add", k, None, indexer))
    /\ UNCHANGED <<views, at, gone, file, waiting, lock, told>>

\* Pact.removeWriter.
AdminRemove(d, k) ==
    /\ AppendTo(d, Node("remove", k, None, FALSE))
    /\ UNCHANGED <<views, at, gone, file, waiting, lock, told>>

\* Daemon.removePact: a member says farewell and, unless it is the only
\* indexer, revokes itself; the data directory goes in any case.  The farewell
\* is left out: what it does to membership, the block after it does too.
Leave(d) ==
    /\ d \notin gone
    /\ IF Writable(d) /\ ~SoleIndexer(d)
       THEN AppendTo(d, Node("leave", d, None, FALSE))
       ELSE UNCHANGED core
    /\ gone' = gone \cup {d}
    /\ waiting' = IF d = Creator THEN {} ELSE waiting
    /\ lock' = IF d = Creator THEN Free ELSE lock
    /\ UNCHANGED <<views, at, file, told>>

---------------------------------------------------------------------------
(* Invites, on the creator's daemon.                                       *)

CreateInvite(n) ==
    /\ Running(Creator)
    /\ lock = Free
    /\ file[n] = {}
    /\ file' = [file EXCEPT ![n] = {"minted"}]
    /\ UNCHANGED <<core, views, at, gone, waiting, lock, told>>

RevokeInviteUnlocked(n) ==
    /\ Running(Creator)
    /\ file[n] # {}
    /\ file' = [file EXCEPT ![n] = @ \cup {"revoked"}]
    /\ UNCHANGED <<core, views, at, gone, waiting, lock, told>>

RevokeInviteUnfound(n) ==
    /\ Running(Creator)
    /\ lock = Free
    /\ file' = [file EXCEPT ![n] = @ \cup {"revoked"}]
    /\ UNCHANGED <<core, views, at, gone, waiting, lock, told>>

RevokeInvite(n) ==
    /\ Running(Creator)
    /\ lock = Free
    /\ file[n] # {}
    /\ file' = [file EXCEPT ![n] = @ \cup {"revoked"}]
    /\ UNCHANGED <<core, views, at, gone, waiting, lock, told>>

\* redeemInvite up to the lock.  Being an indexer is not checked again.
RedeemArrive(n, k) ==
    /\ Running(Creator)
    /\ file[n] # {}
    /\ Cardinality(waiting) < MaxWaiting
    /\ Creator \in Confirmed(Creator).sysIndexers
    /\ waiting' = waiting \cup {<<n, k>>}
    /\ UNCHANGED <<core, views, at, gone, file, lock, told>>

RedeemUnlessSpentInFile(n, k) ==
    /\ Running(Creator)
    /\ <<n, k>> \in waiting
    /\ lock = Free
    /\ waiting' = waiting \ {<<n, k>>}
    /\ lock' = IF file[n] = {"minted"} THEN Redeeming("checked", n, k, file) ELSE Free
    /\ UNCHANGED <<core, views, at, gone, file, told>>

\* The checks inside the lock; a refusal (revoked, spent, expired) gives the
\* lock up at once.  Expiry is left out: it only refuses.
RedeemCheck(n, k) ==
    /\ Running(Creator)
    /\ <<n, k>> \in waiting
    /\ lock = Free
    /\ waiting' = waiting \ {<<n, k>>}
    /\ lock' = IF file[n] = {"minted"} /\ ~SpentInView(n)
               THEN Redeeming("checked", n, k, file)
               ELSE Free
    /\ UNCHANGED <<core, views, at, gone, file, told>>

RedeemAppend ==
    /\ lock.stage = "checked"
    /\ AppendTo(Creator, Node("redeemed", lock.key, lock.nonce, FALSE))
    /\ lock' = [lock EXCEPT !.stage = "redeemed"]
    /\ UNCHANGED <<views, at, gone, file, waiting, told>>

RedeemAdmit ==
    /\ lock.stage = "redeemed"
    /\ AppendTo(Creator, Node("add", lock.key, lock.nonce, FALSE))
    /\ lock' = [lock EXCEPT !.stage = "added"]
    /\ UNCHANGED <<views, at, gone, file, waiting, told>>

RedeemSaveBeforeAdmit ==
    /\ lock.stage = "redeemed"
    /\ file' = [lock.loaded EXCEPT ![lock.nonce] = @ \cup {"spent"}]
    /\ told' = told \cup {<<lock.nonce, lock.key>>}
    /\ lock' = Free
    /\ UNCHANGED <<core, views, at, gone, waiting>>

\* Saves the file that was loaded, with the nonce marked, and answers ok.
RedeemSave ==
    /\ lock.stage = "added"
    /\ file' = [lock.loaded EXCEPT ![lock.nonce] = @ \cup {"spent"}]
    /\ told' = told \cup {<<lock.nonce, lock.key>>}
    /\ lock' = Free
    /\ UNCHANGED <<core, views, at, gone, waiting>>

\* An append or the save fails: the lock is released, what was done stays.
RedeemFail ==
    /\ lock # Free
    /\ lock' = Free
    /\ UNCHANGED <<core, views, at, gone, file, waiting, told>>

\* The creator's daemon stops and starts again: requests and lock are gone.
Crash ==
    /\ Running(Creator)
    /\ lock' = Free
    /\ waiting' = {}
    /\ UNCHANGED <<core, views, at, gone, file, told>>

---------------------------------------------------------------------------
(* Autobase.                                                               *)

\* The next block of d's core gets its place in the ledger.
Order(d) ==
    LET n == Latest.seen[d] + 1
    IN /\ n <= Len(core[d])
       /\ d \in Latest.writers
       /\ Latest.halted = "no"
       /\ views' = Append(views, ApplyNode(Latest, d, core[d][n]))
       /\ UNCHANGED <<core, at, gone, file, waiting, lock, told>>

CatchUp(d) ==
    /\ d \notin gone
    /\ at[d] < Len(views)
    /\ at' = [at EXCEPT ![d] = @ + 1]
    /\ UNCHANGED <<core, views, gone, file, waiting, lock, told>>

Next ==
    \/ \E d \in Daemons :
        \/ Post(d)
        \/ \E k \in Daemons, indexer \in BOOLEAN : AdminAdd(d, k, indexer)
        \/ \E k \in Daemons : AdminRemove(d, k)
        \/ Leave(d)
        \/ Order(d)
        \/ CatchUp(d)
    \/ \E n \in Nonces : CreateInvite(n) \/ RevokeInvite(n)
    \/ \E n \in Nonces, k \in Daemons : RedeemArrive(n, k) \/ RedeemCheck(n, k)
    \/ RedeemAppend \/ RedeemAdmit \/ RedeemSave \/ RedeemFail
    \/ Crash

Spec == Init /\ [][Next]_vars

\* The creator's blocks keep reaching the others.
FairSpec == Spec /\ WF_vars(Order(Creator))

---------------------------------------------------------------------------
(* Properties.                                                             *)

NodeType ==
    {Entry}
    \cup [kind : {"add"}, key : Daemons, nonce : Nonces \cup {None}, indexer : BOOLEAN]
    \cup [kind : {"remove", "leave"}, key : Daemons, nonce : {None}, indexer : {FALSE}]
    \cup [kind : {"redeemed"}, key : Daemons, nonce : Nonces, indexer : {FALSE}]

View ==
    [members : SUBSET Daemons, indexers : SUBSET Daemons,
     spent : [Nonces -> Daemons \cup {None}],
     writers : SUBSET Daemons, sysIndexers : SUBSET Daemons,
     seen : [Daemons -> Nat], halted : {"no", "remove", "leave"},
     admits : SUBSET (Nonces \X Daemons), removed : SUBSET Daemons]

\* An invite that is in the file has been minted.
InviteState == {{}} \cup {{"minted"} \cup s : s \in SUBSET {"revoked", "spent"}}

InvitesFile == [Nonces -> InviteState]

Lock ==
    {Free} \cup [stage : {"checked", "redeemed", "added"}, nonce : Nonces,
                 key : Daemons, loaded : InvitesFile]

\* Types; no view is ahead of a core.
TypeOK ==
    /\ core \in [Daemons -> Seq(NodeType)]
    /\ views \in Seq(View) /\ views # <<>>
    /\ at \in [Daemons -> 1..Len(views)]
    /\ \A i \in 1..Len(views), d \in Daemons : views[i].seen[d] <= Len(core[d])
    /\ gone \subseteq Daemons
    /\ file \in InvitesFile
    /\ waiting \subseteq Nonces \X Daemons
    /\ lock \in Lock
    /\ told \subseteq Nonces \X Daemons

\* The creator has been removed and then added again.  Its redemptions of that
\* time are ordered after all, but the view ignores those of a plain member.
Readmitted ==
    \E i \in 1..Len(views) : Creator \in views[i].removed /\ Creator \in views[i].writers

\* invites.ts: "apply() guard (`_invites/<nonce>` view key) enforces single-use
\* across all peers".  In every view, whoever an invite admitted is the one
\* writer its nonce is spent on, through crashes, retries and concurrent
\* redemptions; it takes a creator that was removed and added again to break
\* the pair.
SingleUse ==
    \A i \in 1..Len(views) : \A n \in Nonces, k \in Daemons :
        <<n, k>> \in views[i].admits => views[i].spent[n] = k \/ Readmitted

\* The membership keys of the view and the writer set of Autobase, which
\* apply.ts maintains side by side, agree from the first block on, and
\* somebody is an indexer: were `_indexers/` empty, the next writer of
\* anything would become one.
AuthorityAgrees ==
    \A i \in 2..Len(views) :
        /\ views[i].members = views[i].writers
        /\ views[i].indexers = views[i].sysIndexers
        /\ views[i].indexers # {}

Redemptions(n) == {i \in 1..Len(core[Creator]) : IsRedeemed(core[Creator][i], n)}

KeepsInvites ==
    \A n \in Nonces :
        /\ file[n] \subseteq file'[n]
        /\ "revoked" \in file[n] => Redemptions(n)' = Redemptions(n)

\* The lock around invites.json: no operation loses what another one wrote
\* (an invite, its revocation, its being spent), and once a revocation is on
\* file nothing is redeemed with the nonce.
InvitesAreKept == [][KeepsInvites]_vars

\* A joiner answered ok is admitted, unless the creator leaves or is removed,
\* or the ledger has come to a halt.
ToldIsAdmitted ==
    \A n \in Nonces, k \in Daemons :
        <<n, k>> \in told ~>
            \/ <<n, k>> \in Latest.admits
            \/ Creator \in Latest.removed \cup gone
            \/ Latest.halted # "no"

\* The writer of the first redemption of n in the creator's core.
Redeemer(n) ==
    IF Redemptions(n) = {} THEN None
    ELSE LET first == CHOOSE i \in Redemptions(n) : \A j \in Redemptions(n) : i <= j
         IN core[Creator][first].key

SpentBy == [n \in Nonces |-> Redeemer(n)]

Promise == INSTANCE InviteService WITH Redeemers <- Daemons, spentBy <- SpentBy

\* The lock, the file and the ledger of the creator keep the promise of an
\* invite, through crashes between any two steps: whoever is answered ok is the
\* one writer whose redemption is first in the creator's core.  A creator that
\* was removed and added again does not see its own redemptions in the view and
\* may repeat them for somebody else.
ImplementsInvites ==
    /\ Promise!Init
    /\ [][Promise!Next \/ Readmitted]_<<SpentBy, told>>

\* pact.ts redeemInvite: "so the pair confirms together on the next frontier".
\* With nothing under way and all of the creator's blocks in the ledger, a
\* spent nonce has admitted the writer it was spent on.
PairConfirmsTogether ==
    \A n \in Nonces :
        (/\ lock = Free
         /\ Creator \notin Latest.removed \cup gone
         /\ Latest.seen[Creator] = Len(core[Creator])
         /\ Latest.spent[n] # None) =>
            <<n, Latest.spent[n]>> \in Latest.admits

\* pact.ts leaveAsWriter: "Short-circuits for the sole-indexer case: autobase
\* refuses to remove the last indexer".  Leaving never makes apply() throw.
LeaveShortCircuits == Latest.halted # "leave"

=============================================================================
