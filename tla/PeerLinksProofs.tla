-------------------------- MODULE PeerLinksProofs --------------------------
(***************************************************************************)
(* Proofs about PeerLinks, for any links, keys and bounds.                 *)
(*                                                                         *)
(* What a function read before it waited is used after it.  The invariant  *)
(* says what such a read may still be relied on for: its key is the key of *)
(* the agent at the other end, and a verdict that revokes was true at some *)
(* time since the revocation timer fired.                                  *)
(***************************************************************************)
EXTENDS PeerLinks, TLAPS

\* `clearAuthRetry` never cancels a timer that is not there.
ArmedIsTimed == \A l \in Links : slot[l] = "armed" => timers[l].own > 0

\* Whatever a link, a timer or a waiting function knows of a key, it is the key
\* of the agent at the other end.
KeysArePeers ==
    \A l \in Links :
        /\ InPeerLinks(l) => peer[l] \in Keys
        /\ claimed[l] \in {None, peer[l]}
        /\ revoke[l] \in {None, peer[l]}
        /\ \A r \in reads[l] : r.key = peer[l]

\* A function that is going to destroy the link for its key has seen it gone.
RevokeBacked ==
    \A l \in Links : \A r \in reads[l] : r.kind = "revoke" /\ ~r.active => absent[l]

\* Only a link that is held is pinged.
HeartIsHeld == \A l \in Links : heart[l].on => InPeerLinks(l)

IInv ==
    /\ TypeOK
    /\ HeartIsHeld
    /\ ArmedIsTimed
    /\ KeysArePeers
    /\ RevokeBacked
    /\ PresenceIsTrue

---------------------------------------------------------------------------
(* The retry slot and its timers.                                          *)

Timers == [own : Nat, lost : Nat]

SlotInv ==
    /\ slot \in [Links -> {"none", "idle", "armed"}]
    /\ timers \in [Links -> Timers]
    /\ ArmedIsTimed

\* Dropping the slot keeps count of the timers it leaves behind.
LEMMA DropSlotKeeps ==
    ASSUME SlotInv, NEW l \in Links, DropSlot(l) PROVE SlotInv'
  BY DEF SlotInv, Timers, ArmedIsTimed, DropSlot

\* Cancelling takes away one timer, if the slot is armed, which is there.
LEMMA ClearAuthRetryKeeps ==
    ASSUME SlotInv, NEW l \in Links, ClearAuthRetry(l) PROVE SlotInv'
<1>1. Uncancelled(l) \in Nat
  BY DEF SlotInv, Timers, ArmedIsTimed, Uncancelled
<1>2. [own |-> 0, lost |-> Uncancelled(l)] \in Timers
  BY <1>1 DEF Timers
<1>3. QED
  BY <1>2 DEF SlotInv, ArmedIsTimed, ClearAuthRetry

\* Setting a timer.
LEMMA SetTimerKeeps ==
    ASSUME SlotInv, NEW l \in Links, NEW whose \in {"own", "lost"},
           timers' = [timers EXCEPT ![l][whose] = @ + 1],
           slot' = slot \/ (whose = "own" /\ slot' = [slot EXCEPT ![l] = "armed"])
    PROVE  SlotInv'
<1> DEFINE t == [timers[l] EXCEPT ![whose] = @ + 1]
<1>1. t \in Timers /\ t.own >= timers[l].own /\ (whose = "own" => t.own > 0)
  <2>1. CASE whose = "own"
    BY <2>1 DEF SlotInv, Timers
  <2>2. CASE whose = "lost"
    BY <2>2 DEF SlotInv, Timers
  <2>3. QED
    BY <2>1, <2>2
<1>2. timers' = [timers EXCEPT ![l] = t]
  OBVIOUS
<1>3. QED
  BY <1>1, <1>2 DEF SlotInv, Timers, ArmedIsTimed

LEMMA ScheduleAuthKeeps ==
    ASSUME SlotInv, pending \in [Links -> {"none", "own", "lost"}],
           NEW l \in Links, ScheduleAuth(l)
    PROVE  SlotInv' /\ (pending \in [Links -> {"none", "own", "lost"}])'
<1>1. CASE ClearAuthRetry(l) /\ pending' = [pending EXCEPT ![l] = Orphaned(l)]
  BY <1>1, ClearAuthRetryKeeps DEF Orphaned
<1>2. CASE UNCHANGED auth
  BY <1>2 DEF auth, SlotInv, ArmedIsTimed
<1>3. CASE /\ slot' = [slot EXCEPT ![l] = "armed"]
           /\ timers' = [timers EXCEPT ![l].own = @ + 1]
           /\ UNCHANGED pending
  BY <1>3, SetTimerKeeps
<1>4. QED
  BY <1>1, <1>2, <1>3 DEF ScheduleAuth

\* A timer that fires is no longer pending, and its slot is not armed.
LEMMA FiredKeeps ==
    ASSUME SlotInv, NEW l \in Links, NEW whose \in {"own", "lost"},
           timers[l][whose] > 0,
           timers' = Fire(l, whose), slot' = Fired(l, whose)
    PROVE  SlotInv'
<1> DEFINE t == [timers[l] EXCEPT ![whose] = @ - 1]
<1>1. t \in Timers /\ (whose = "lost" => t.own = timers[l].own)
  <2>1. CASE whose = "own"
    BY <2>1 DEF SlotInv, Timers
  <2>2. CASE whose = "lost"
    BY <2>2 DEF SlotInv, Timers
  <2>3. QED
    BY <2>1, <2>2
<1>2. timers' = [timers EXCEPT ![l] = t]
  BY DEF Fire
<1>3. QED
  BY <1>1, <1>2 DEF SlotInv, Timers, ArmedIsTimed, Fired

LEMMA RunKeepsSlot ==
    ASSUME SlotInv, NEW l \in Links, NEW whose \in {"own", "lost"}, NEW sent \in BOOLEAN,
           Run(l, whose, sent)
    PROVE  SlotInv'
<1>1. timers[l][whose] > 0
  BY DEF Run
<1>2. CASE slot' = Fired(l, whose) /\ timers' = Fire(l, whose)
  BY <1>1, <1>2, FiredKeeps
<1>3. CASE /\ slot' = [slot EXCEPT ![l] = "none"]
           /\ LET left == Fire(l, whose)[l]
              IN  timers' = [timers EXCEPT ![l] = [own |-> 0, lost |-> left.own + left.lost]]
  <2>1. Fire(l, whose)[l].own + Fire(l, whose)[l].lost \in Nat
    <3>1. CASE whose = "own"
      BY <1>1, <3>1 DEF SlotInv, Timers, Fire
    <3>2. CASE whose = "lost"
      BY <1>1, <3>2 DEF SlotInv, Timers, Fire
    <3>3. QED
      BY <3>1, <3>2
  <2>2. QED
    BY <1>3, <2>1 DEF SlotInv, Timers, ArmedIsTimed
<1>4. CASE /\ slot' = IF whose = "own" THEN [slot EXCEPT ![l] = "armed"] ELSE slot
           /\ UNCHANGED <<timers, pending>>
  BY <1>1, <1>4 DEF SlotInv, ArmedIsTimed
<1>5. QED
  BY <1>2, <1>3, <1>4 DEF Run, RunEnds, RunSends

---------------------------------------------------------------------------
(* Waiting for the view.                                                   *)

\* A function that begins to wait for the view has read what the view says now.
LEMMA AwaitAdds ==
    ASSUME TypeOK, NEW l \in Links, NEW kind \in ReadKinds, NEW key \in Keys \cup {Self},
           Await(l, kind, key)
    PROVE  /\ reads' \in [Links -> SUBSET Reads]
           /\ \A m \in Links : \A r \in reads'[m] :
                 \/ r \in reads[m]
                 \/ m = l /\ r.kind = kind /\ r.key = key /\ r.active = (key \in active)
<1>1. Read(kind, key) \in Reads
  BY DEF Read, Reads
<1>2. /\ Read(kind, key).kind = kind /\ Read(kind, key).key = key
      /\ Read(kind, key).active = (key \in active)
  BY DEF Read
<1>3. reads' = [reads EXCEPT ![l] = @ \cup {Read(kind, key)}]
  BY DEF Await
<1>4. QED
  BY <1>1, <1>2, <1>3 DEF TypeOK

---------------------------------------------------------------------------
(* The invariant, action by action.                                        *)

Hearts == [on : BOOLEAN, missed : 0 .. MaxMisses, ponged : BOOLEAN, ping : BOOLEAN]

LEMMA SlotInvHolds == IInv => SlotInv
  BY DEF IInv, TypeOK, SlotInv, Timers

LEMMA OrphanedType ==
    ASSUME IInv, NEW l \in Links PROVE Orphaned(l) \in {"none", "own", "lost"}
  BY DEF IInv, TypeOK, Orphaned

LEMMA ConnectKeeps ==
    ASSUME IInv, NEW l \in Links, NEW k \in Keys, Connect(l, k)
    PROVE  IInv'
<1>1. FreshHeart \in Hearts
  BY PeerLinksAssumption DEF FreshHeart, Hearts
<1>2. (timers \in [Links -> [own : Nat, lost : Nat]])'
  BY DEF IInv, TypeOK, Connect, NoTimers
<1>3. TypeOK'
  BY <1>1, <1>2 DEF IInv, TypeOK, Connect, Hearts
<1>4. ArmedIsTimed'
  BY DEF IInv, TypeOK, ArmedIsTimed, Connect, NoTimers
<1>5. KeysArePeers'
  BY DEF IInv, TypeOK, KeysArePeers, InPeerLinks, Connect
<1>6. RevokeBacked'
  BY DEF IInv, TypeOK, RevokeBacked, Connect
<1>7. PresenceIsTrue'
  BY DEF IInv, TypeOK, PresenceIsTrue, InPeerLinks, Connect
<1>8. HeartIsHeld'
  BY DEF IInv, TypeOK, HeartIsHeld, InPeerLinks, Connect
<1>9. QED
  BY <1>3, <1>4, <1>5, <1>6, <1>7, <1>8 DEF IInv

LEMMA CloseKeeps ==
    ASSUME IInv, NEW l \in Links, Close(l)
    PROVE  IInv'
<1>1. SlotInv'
  BY ClearAuthRetryKeeps, SlotInvHolds DEF Close
<1>2. \A h \in Hearts : [h EXCEPT !.on = FALSE, !.ping = FALSE] \in Hearts
  BY DEF Hearts
<1>3. heart' \in [Links -> Hearts]
  <2>1. heart \in [Links -> Hearts]
    BY DEF IInv, TypeOK, Hearts
  <2>2. heart' = [heart EXCEPT ![l] = [heart[l] EXCEPT !.on = FALSE, !.ping = FALSE]]
    BY DEF Close
  <2>3. QED
    BY <1>2, <2>1, <2>2
<1>4. TypeOK'
  BY <1>1, <1>3 DEF IInv, TypeOK, SlotInv, Timers, Hearts, Close, OfflineEvents, environment
<1>5. KeysArePeers'
  BY DEF IInv, TypeOK, KeysArePeers, InPeerLinks, Close, environment
<1>6. RevokeBacked'
  BY DEF IInv, RevokeBacked, Close
<1>7. PresenceIsTrue'
  BY DEF IInv, TypeOK, PresenceIsTrue, InPeerLinks, Close, OfflineEvents, environment
<1>8. HeartIsHeld'
  <2>1. ~heart'[l].on /\ \A m \in Links : m # l => heart'[m] = heart[m] /\ up'[m] = up[m]
    BY DEF IInv, TypeOK, Close
  <2>2. QED
    BY <2>1 DEF IInv, HeartIsHeld, InPeerLinks
<1>9. QED
  BY <1>1, <1>4, <1>5, <1>6, <1>7, <1>8 DEF IInv, SlotInv

LEMMA RunKeeps ==
    ASSUME IInv, NEW l \in Links, NEW whose \in {"own", "lost"}, NEW sent \in BOOLEAN,
           Run(l, whose, sent)
    PROVE  IInv'
<1>1. SlotInv'
  BY RunKeepsSlot, SlotInvHolds
<1>2. (pending \in [Links -> {"none", "own", "lost"}])'
  BY OrphanedType DEF IInv, TypeOK, Run, RunEnds, RunSends
<1>3. TypeOK'
  BY <1>1, <1>2 DEF IInv, TypeOK, SlotInv, Timers, Run, environment
<1>4. KeysArePeers'
  BY DEF IInv, KeysArePeers, InPeerLinks, Run, environment
<1>5. RevokeBacked'
  BY DEF IInv, RevokeBacked, Run
<1>6. PresenceIsTrue'
  BY DEF IInv, PresenceIsTrue, InPeerLinks, Run, environment
<1>7. QED
  BY <1>1, <1>3, <1>4, <1>5, <1>6 DEF IInv, SlotInv, HeartIsHeld, InPeerLinks, Run

LEMMA ProofKeeps ==
    ASSUME IInv, NEW l \in Links, Proof(l)
    PROVE  IInv'
<1>1. "answer" \in ReadKinds /\ peer[l] \in Keys
  BY DEF ReadKinds, IInv, KeysArePeers, InPeerLinks, Proof
<1>2. TypeOK /\ Await(l, "answer", peer[l])
  BY DEF IInv, Proof
<1>3. TypeOK'
  BY <1>1, <1>2, AwaitAdds DEF TypeOK, Proof, environment
<1>4. ArmedIsTimed'
  BY DEF IInv, ArmedIsTimed, Proof
<1>5. KeysArePeers'
  BY <1>1, <1>2, AwaitAdds DEF IInv, TypeOK, KeysArePeers, InPeerLinks, Proof, environment
<1>6. RevokeBacked'
  BY <1>1, <1>2, AwaitAdds DEF IInv, RevokeBacked, Proof
<1>7. PresenceIsTrue'
  BY DEF IInv, PresenceIsTrue, InPeerLinks, Proof, environment
<1>8. QED
  BY <1>3, <1>4, <1>5, <1>6, <1>7 DEF IInv, HeartIsHeld, InPeerLinks, Proof

LEMMA NoProofKeeps ==
    ASSUME IInv, NEW l \in Links, NoProof(l)
    PROVE  IInv'
<1>1. pending[l] \in {"own", "lost"}
  BY DEF IInv, TypeOK, NoProof
<1>2. SlotInv'
  BY <1>1, SetTimerKeeps, SlotInvHolds DEF NoProof, Rearm
<1>3. TypeOK'
  BY <1>2 DEF IInv, TypeOK, SlotInv, Timers, NoProof, environment
<1>4. KeysArePeers'
  BY DEF IInv, KeysArePeers, InPeerLinks, NoProof, environment
<1>5. RevokeBacked'
  BY DEF IInv, RevokeBacked, NoProof
<1>6. PresenceIsTrue'
  BY DEF IInv, PresenceIsTrue, InPeerLinks, NoProof, environment
<1>7. QED
  BY <1>2, <1>3, <1>4, <1>5, <1>6 DEF IInv, SlotInv, HeartIsHeld, InPeerLinks, NoProof

\* A function that has been told that its peer is a member marks the link, also
\* when the link is gone by then.
LEMMA MarkAuthedKeeps ==
    ASSUME IInv, NEW l \in Links, NEW always \in BOOLEAN,
           MarkAuthed(l, peer[l], always), peer[l] \in Keys,
           UNCHANGED <<peer, up>>
    PROVE  /\ SlotInv'
           /\ (authed \in [Links -> Keys \cup {None, Self}])'
           /\ (announced \in [Links -> {"offline", "online", "ghost"}])'
           /\ (revoke \in [Links -> Keys \cup {None, Self}])'
           /\ \A m \in Links : revoke'[m] \in {None, peer[m]}
           /\ PresenceIsTrue'
<1>1. SlotInv'
  BY ClearAuthRetryKeeps, SlotInvHolds DEF MarkAuthed
<1>2. peer[l] # None
  BY PeerLinksAssumption
<1>3. PresenceIsTrue'
  BY <1>2 DEF IInv, TypeOK, PresenceIsTrue, InPeerLinks, MarkAuthed
<1>4. QED
  BY <1>1, <1>3 DEF IInv, TypeOK, KeysArePeers, MarkAuthed

LEMMA ResumeForgets ==
    ASSUME IInv, NEW l \in Links, NEW r \in reads[l], Resume(l, r)
    PROVE  /\ reads' \in [Links -> SUBSET Reads]
           /\ \A m \in Links : reads'[m] \subseteq reads[m]
           /\ r.key = peer[l] /\ peer[l] \in Keys
<1>1. r \in Reads /\ r.key = peer[l]
  BY DEF IInv, TypeOK, KeysArePeers
<1>2. peer[l] \in Keys
  BY <1>1, PeerLinksAssumption DEF IInv, TypeOK, Reads
<1>3. QED
  BY <1>1, <1>2 DEF IInv, TypeOK, Resume

\* What is left to show of a function that goes on: that what it changes of the
\* slot, the marks and the events is right.
LEMMA ResumeKeeps ==
    ASSUME IInv, NEW l \in Links, NEW r \in reads[l], Resume(l, r),
           SlotInv', (pending \in [Links -> {"none", "own", "lost"}])',
           (up \in [Links -> {"up", "dying", "down"}])',
           \A m \in Links : up'[m] # "down" <=> up[m] # "down",
           (authed \in [Links -> Keys \cup {None, Self}])',
           (announced \in [Links -> {"offline", "online", "ghost"}])',
           (revoke \in [Links -> Keys \cup {None, Self}])',
           \A m \in Links : revoke'[m] \in {None, peer[m]},
           PresenceIsTrue'
    PROVE  IInv'
<1>1. UNCHANGED <<member, active, admitted, peer, claimed, heart, absent>>
  BY DEF Resume, environment
<1>2. TypeOK'
  BY <1>1, ResumeForgets DEF IInv, TypeOK, SlotInv, Timers
<1>3. KeysArePeers'
  BY <1>1, ResumeForgets DEF IInv, KeysArePeers, InPeerLinks
<1>4. RevokeBacked'
  BY <1>1, ResumeForgets DEF IInv, RevokeBacked
<1>5. QED
  BY <1>1, <1>2, <1>3, <1>4 DEF IInv, SlotInv, HeartIsHeld, InPeerLinks

LEMMA AnswerReadKeeps ==
    ASSUME IInv, NEW l \in Links, NEW r \in reads[l], Resume(l, r), AnswerRead(l, r)
    PROVE  IInv'
<1>1. (pending \in [Links -> {"none", "own", "lost"}])'
  BY OrphanedType DEF IInv, TypeOK, AnswerRead
<1>2. UNCHANGED <<peer, up>>
  BY DEF AnswerRead, Resume, environment
<1>3. CASE r.active
  <2>1. MarkAuthed(l, peer[l], FALSE) /\ peer[l] \in Keys
    BY <1>3, ResumeForgets DEF AnswerRead
  <2>2. QED
    BY <1>1, <1>2, <2>1, MarkAuthedKeeps, ResumeKeeps DEF IInv, TypeOK
<1>4. CASE ~r.active
  <2>1. DropSlot(l) /\ UNCHANGED <<authed, announced, revoke>>
    BY <1>4 DEF AnswerRead
  <2>2. SlotInv'
    BY <2>1, DropSlotKeeps, SlotInvHolds
  <2>3. PresenceIsTrue'
    BY <1>2, <2>1 DEF IInv, PresenceIsTrue, InPeerLinks
  <2>4. QED
    BY <1>1, <1>2, <2>1, <2>2, <2>3, ResumeKeeps DEF IInv, TypeOK, KeysArePeers
<1>5. QED
  BY <1>3, <1>4

LEMMA ClaimReadKeeps ==
    ASSUME IInv, NEW l \in Links, NEW r \in reads[l], Resume(l, r), ClaimRead(l, r)
    PROVE  IInv'
<1>1. UNCHANGED <<peer, up>>
  BY DEF ClaimRead, Resume, environment
<1>2. CASE r.active
  <2>1. MarkAuthed(l, peer[l], TRUE) /\ peer[l] \in Keys
    BY <1>2, ResumeForgets DEF ClaimRead
  <2>2. (pending \in [Links -> {"none", "own", "lost"}])'
    BY <1>2, OrphanedType DEF IInv, TypeOK, ClaimRead
  <2>3. QED
    BY <1>1, <2>1, <2>2, MarkAuthedKeeps, ResumeKeeps DEF IInv, TypeOK
<1>3. CASE ~r.active
  <2>1. ScheduleAuth(l) /\ UNCHANGED <<authed, announced, revoke>>
    BY <1>3 DEF ClaimRead
  <2>2. SlotInv' /\ (pending \in [Links -> {"none", "own", "lost"}])'
    BY <2>1, ScheduleAuthKeeps, SlotInvHolds DEF IInv, TypeOK
  <2>3. PresenceIsTrue'
    BY <1>1, <2>1 DEF IInv, PresenceIsTrue, InPeerLinks
  <2>4. QED
    BY <1>1, <2>1, <2>2, <2>3, ResumeKeeps DEF IInv, TypeOK, KeysArePeers
<1>4. QED
  BY <1>2, <1>3

LEMMA AuthedReadKeeps ==
    ASSUME IInv, NEW l \in Links, NEW r \in reads[l], Resume(l, r), AuthedRead(l, r)
    PROVE  IInv'
<1>1. UNCHANGED <<up, auth, authed, announced, environment>>
  BY DEF AuthedRead, Resume
<1>2. SlotInv'
  BY <1>1, SlotInvHolds DEF auth, SlotInv, ArmedIsTimed
<1>3. /\ (revoke \in [Links -> Keys \cup {None, Self}])'
      /\ \A m \in Links : revoke'[m] \in {None, peer[m]}
  BY ResumeForgets DEF AuthedRead, IInv, TypeOK, KeysArePeers
<1>4. PresenceIsTrue'
  BY <1>1 DEF IInv, PresenceIsTrue, InPeerLinks, environment
<1>5. QED
  BY <1>1, <1>2, <1>3, <1>4, ResumeKeeps DEF IInv, TypeOK, auth

LEMMA RevokeReadKeeps ==
    ASSUME IInv, NEW l \in Links, NEW r \in reads[l], Resume(l, r), RevokeRead(l, r)
    PROVE  IInv'
<1>1. UNCHANGED <<auth, authed, announced, revoke, environment>>
  BY DEF RevokeRead, Resume
<1>2. SlotInv'
  BY <1>1, SlotInvHolds DEF auth, SlotInv, ArmedIsTimed
<1>3. /\ (up \in [Links -> {"up", "dying", "down"}])'
      /\ \A m \in Links : up'[m] # "down" <=> up[m] # "down"
  BY DEF RevokeRead, Destroy, IInv, TypeOK
<1>4. PresenceIsTrue'
  BY <1>1, <1>3 DEF IInv, PresenceIsTrue, InPeerLinks, environment
<1>5. QED
  BY <1>1, <1>2, <1>3, <1>4, ResumeKeeps DEF IInv, TypeOK, KeysArePeers, auth

LEMMA ReconcileKeeps ==
    ASSUME IInv, NEW l \in Links, Reconcile(l)
    PROVE  IInv'
<1>1. UNCHANGED <<environment, claimed, authed, revoke, heart, announced, absent>>
  BY DEF Reconcile
<1>2. SlotInv' /\ (pending \in [Links -> {"none", "own", "lost"}])'
  <2>1. UNCHANGED auth \/ ScheduleAuth(l)
    BY DEF Reconcile, ReconcileAuthed, ReconcileUnauthed
  <2>2. QED
    BY <2>1, ScheduleAuthKeeps, SlotInvHolds DEF IInv, TypeOK, auth, SlotInv, ArmedIsTimed
<1>3. /\ (up \in [Links -> {"up", "dying", "down"}])'
      /\ \A m \in Links : up'[m] # "down" <=> up[m] # "down"
  BY DEF Reconcile, ReconcileAuthed, ReconcileUnauthed, Destroy, InPeerLinks, IInv, TypeOK
<1>4. PresenceIsTrue'
  BY <1>1, <1>3 DEF IInv, PresenceIsTrue, InPeerLinks, environment
<1>5. /\ reads' \in [Links -> SUBSET Reads]
      /\ \A m \in Links : \A r \in reads'[m] :
            r \in reads[m] \/ (r.kind # "revoke" /\ r.key = peer[m])
  <2>1. CASE UNCHANGED reads
    BY <2>1 DEF IInv, TypeOK
  <2>2. CASE Await(l, "authed", authed[l]) /\ authed[l] # None
    <3>1. "authed" \in ReadKinds /\ authed[l] \in Keys \cup {Self} /\ authed[l] = peer[l]
      BY <2>2 DEF ReadKinds, IInv, TypeOK, PresenceIsTrue, Reconcile
    <3>2. QED
      BY <2>2, <3>1, AwaitAdds DEF IInv
  <2>3. CASE Await(l, "claim", claimed[l]) /\ claimed[l] # None
    <3>1. "claim" \in ReadKinds /\ claimed[l] \in Keys \cup {Self} /\ claimed[l] = peer[l]
      BY <2>3 DEF ReadKinds, IInv, TypeOK, KeysArePeers
    <3>2. QED
      BY <2>3, <3>1, AwaitAdds DEF IInv
  <2>4. QED
    BY <2>1, <2>2, <2>3 DEF Reconcile, ReconcileAuthed, ReconcileUnauthed
<1>6. TypeOK'
  BY <1>1, <1>2, <1>3, <1>5 DEF IInv, TypeOK, SlotInv, Timers, environment
<1>7. KeysArePeers'
  BY <1>1, <1>3, <1>5 DEF IInv, KeysArePeers, InPeerLinks, environment
<1>8. RevokeBacked'
  BY <1>1, <1>5 DEF IInv, RevokeBacked
<1>9. QED
  BY <1>1, <1>2, <1>3, <1>4, <1>6, <1>7, <1>8 DEF IInv, SlotInv, HeartIsHeld, InPeerLinks

\* The timer asks the view, and remembers what the view said.
LEMMA RevocationTimerKeeps ==
    ASSUME IInv, NEW l \in Links, RevocationTimer(l)
    PROVE  IInv'
<1>1. UNCHANGED <<environment, up, claimed, authed, auth, heart, announced>>
  BY DEF RevocationTimer
<1>2. /\ reads' \in [Links -> SUBSET Reads]
      /\ \A m \in Links : \A r \in reads'[m] :
            \/ r \in reads[m]
            \/ m = l /\ r.key = peer[l] /\ r.active = (peer[l] \in active)
  <2>1. CASE UNCHANGED reads
    BY <2>1 DEF IInv, TypeOK
  <2>2. CASE Await(l, "revoke", revoke[l])
    <3>1. "revoke" \in ReadKinds /\ revoke[l] \in Keys \cup {Self} /\ revoke[l] = peer[l]
      BY DEF ReadKinds, IInv, TypeOK, KeysArePeers, RevocationTimer
    <3>2. QED
      BY <2>2, <3>1, AwaitAdds DEF IInv
  <2>3. QED
    BY <2>1, <2>2 DEF RevocationTimer
<1>3. TypeOK'
  <2>1. /\ revoke' = [revoke EXCEPT ![l] = None]
        /\ \E b \in BOOLEAN : absent' = [absent EXCEPT ![l] = b]
    BY DEF RevocationTimer
  <2>2. QED
    BY <1>1, <1>2, <2>1 DEF IInv, TypeOK, environment, auth
<1>4. KeysArePeers'
  BY <1>1, <1>2 DEF IInv, TypeOK, KeysArePeers, InPeerLinks, RevocationTimer, environment
<1>5. RevokeBacked'
  <2> SUFFICES ASSUME NEW m \in Links, NEW r \in reads'[m], r.kind = "revoke", ~r.active
               PROVE  absent'[m]
    BY DEF RevokeBacked
  <2>1. CASE m # l
    BY <1>2, <2>1 DEF IInv, TypeOK, RevokeBacked, RevocationTimer
  <2>2. CASE m = l /\ r \in reads[l]
    BY <2>2 DEF IInv, TypeOK, RevokeBacked, RevocationTimer
  <2>3. CASE m = l /\ r.active = (peer[l] \in active)
    <3>1. revoke[l] = peer[l]
      BY DEF IInv, KeysArePeers, RevocationTimer
    <3>2. QED
      BY <2>3, <3>1 DEF IInv, TypeOK, RevocationTimer
  <2>4. QED
    BY <1>2, <2>1, <2>2, <2>3
<1>6. PresenceIsTrue'
  BY <1>1 DEF IInv, PresenceIsTrue, InPeerLinks, environment
<1>7. QED
  BY <1>1, <1>3, <1>4, <1>5, <1>6 DEF IInv, ArmedIsTimed, HeartIsHeld, InPeerLinks, auth

LEMMA AdmitKeeps ==
    ASSUME IInv, NEW l \in Links, NEW key \in {peer[l], Self}, Admit(l, key)
    PROVE  IInv'
<1>1. UNCHANGED <<member, active, peer, up, reads, heart, absent>> /\ peer[l] \in Keys
  BY DEF Admit, IInv, TypeOK
<1>2. (admitted \subseteq Keys)'
  BY <1>1 DEF Admit, IInv, TypeOK
<1>3. CASE key = Self
  <2>1. UNCHANGED <<claimed, authed, announced, revoke, auth>>
    BY <1>3 DEF Admit, Bootstrap
  <2>2. TypeOK'
    BY <1>1, <1>2, <2>1 DEF IInv, TypeOK, auth
  <2>3. QED
    BY <1>1, <2>1, <2>2
       DEF IInv, ArmedIsTimed, KeysArePeers, RevokeBacked, PresenceIsTrue, HeartIsHeld,
           InPeerLinks, auth
<1>4. CASE key # Self
  <2>1. /\ claimed' = [claimed EXCEPT ![l] = peer[l]] /\ MarkAuthed(l, peer[l], FALSE)
        /\ pending' = [pending EXCEPT ![l] = Orphaned(l)]
    BY <1>4 DEF Admit, Bootstrap
  <2>2. /\ SlotInv' /\ PresenceIsTrue'
        /\ (authed \in [Links -> Keys \cup {None, Self}])'
        /\ (announced \in [Links -> {"offline", "online", "ghost"}])'
        /\ (revoke \in [Links -> Keys \cup {None, Self}])'
        /\ \A m \in Links : revoke'[m] \in {None, peer[m]}
    BY <1>1, <2>1, MarkAuthedKeeps
  <2>3. (pending \in [Links -> {"none", "own", "lost"}])'
    BY <2>1, OrphanedType DEF IInv, TypeOK
  <2>4. TypeOK'
    BY <1>1, <1>2, <2>1, <2>2, <2>3 DEF IInv, TypeOK, SlotInv, Timers
  <2>5. KeysArePeers'
    BY <1>1, <2>1, <2>2 DEF IInv, TypeOK, KeysArePeers, InPeerLinks
  <2>6. RevokeBacked'
    BY <1>1 DEF IInv, RevokeBacked
  <2>7. QED
    BY <1>1, <2>2, <2>4, <2>5, <2>6 DEF IInv, SlotInv, HeartIsHeld, InPeerLinks
<1>5. QED
  BY <1>3, <1>4

LEMMA TickKeeps ==
    ASSUME IInv, NEW l \in Links, NEW sent \in BOOLEAN, Tick(l, sent)
    PROVE  IInv'
<1>1. UNCHANGED <<environment, claimed, authed, auth, reads, revoke, announced, absent>>
  BY DEF Tick
<1>2. InPeerLinks(l)
  BY DEF Tick, IInv, HeartIsHeld
<1>3. /\ up' \in [Links -> {"up", "dying", "down"}]
      /\ \A m \in Links : up'[m] # "down" <=> up[m] # "down"
  BY <1>2 DEF Tick, Destroy, InPeerLinks, IInv, TypeOK
<1>4. \E h \in Hearts : heart' = [heart EXCEPT ![l] = h]
  <2>1. heart[l] \in Hearts
    BY DEF IInv, TypeOK, Hearts
  <2>2. MissedAgain(heart[l]) \in 0 .. MaxMisses
    BY <2>1, PeerLinksAssumption DEF MissedAgain, Hearts
  <2>3. CASE GivenUp(heart[l])
    <3> DEFINE h == [heart[l] EXCEPT !.on = FALSE, !.ping = FALSE,
                                     !.missed = MissedAgain(heart[l])]
    <3>1. h \in Hearts
      BY <2>1, <2>2 DEF Hearts
    <3>2. heart' = [heart EXCEPT ![l] = h]
      BY <2>3 DEF Tick
    <3>3. QED
      BY <3>1, <3>2
  <2>4. CASE ~GivenUp(heart[l])
    <3> DEFINE missed == IF heart[l].ping THEN MissedAgain(heart[l]) ELSE heart[l].missed
               h == [heart[l] EXCEPT !.missed = missed, !.ping = sent]
    <3>1. missed \in 0 .. MaxMisses
      BY <2>1, <2>2 DEF Hearts
    <3>2. h \in Hearts
      BY <2>1, <3>1 DEF Hearts
    <3>3. heart' = [heart EXCEPT ![l] = h]
      BY <2>4 DEF Tick
    <3>4. QED
      BY <3>2, <3>3
  <2>5. QED
    BY <2>3, <2>4
<1>5. TypeOK'
  BY <1>1, <1>3, <1>4 DEF IInv, TypeOK, Hearts, environment, auth
<1>6. HeartIsHeld'
  BY <1>2, <1>3, <1>4 DEF IInv, TypeOK, HeartIsHeld, InPeerLinks
<1>7. PresenceIsTrue' /\ KeysArePeers'
  BY <1>1, <1>3 DEF IInv, PresenceIsTrue, KeysArePeers, InPeerLinks, environment
<1>8. QED
  BY <1>1, <1>5, <1>6, <1>7 DEF IInv, ArmedIsTimed, RevokeBacked, auth

LEMMA PongKeeps ==
    ASSUME IInv, NEW l \in Links, Pong(l)
    PROVE  IInv'
<1>1. UNCHANGED <<environment, up, claimed, authed, auth, reads, revoke, announced, absent>>
  BY DEF Pong
<1>2. \E h \in Hearts : heart' = [heart EXCEPT ![l] = h] /\ h.on = heart[l].on
  <2> DEFINE h == [heart[l] EXCEPT !.ping = FALSE, !.missed = 0, !.ponged = TRUE]
  <2>1. heart[l] \in Hearts
    BY DEF IInv, TypeOK, Hearts
  <2>2. h \in Hearts /\ h.on = heart[l].on
    <3>1. 0 \in 0 .. MaxMisses
      BY PeerLinksAssumption
    <3>2. QED
      BY <2>1, <3>1 DEF Hearts
  <2>3. heart' = [heart EXCEPT ![l] = h]
    BY DEF Pong
  <2>4. QED
    BY <2>2, <2>3
<1>3. TypeOK' /\ HeartIsHeld'
  BY <1>1, <1>2 DEF IInv, TypeOK, HeartIsHeld, InPeerLinks, Hearts, environment, auth
<1>4. QED
  BY <1>1, <1>3
     DEF IInv, ArmedIsTimed, KeysArePeers, RevokeBacked, PresenceIsTrue, InPeerLinks,
         environment, auth

LEMMA ViewKeeps ==
    ASSUME IInv, NEW k \in Keys, ViewAdds(k) \/ ViewRemoves(k)
    PROVE  IInv'
<1>1. UNCHANGED <<member, admitted, peer, up, claimed, authed, auth, reads, revoke, heart,
                  announced>>
  BY DEF ViewAdds, ViewRemoves, links
<1>2. /\ (active \subseteq Keys)' /\ (absent \in [Links -> BOOLEAN])'
      /\ \A l \in Links : absent[l] => absent'[l]
  <2>1. CASE ViewAdds(k)
    BY <2>1 DEF ViewAdds, links, IInv, TypeOK
  <2>2. CASE ViewRemoves(k)
    <3>1. absent' = [l \in Links |-> absent[l] \/ peer[l] = k]
      BY <2>2 DEF ViewRemoves
    <3>2. \A l \in Links : (absent[l] \/ peer[l] = k) \in BOOLEAN
      OBVIOUS
    <3>3. absent' \in [Links -> BOOLEAN]
      BY <3>1, <3>2, Zenon
    <3>4. \A l \in Links : absent[l] => absent'[l]
      BY <3>1, Zenon
    <3>5. (active \subseteq Keys)'
      BY <2>2 DEF ViewRemoves, IInv, TypeOK
    <3>6. QED
      BY <3>3, <3>4, <3>5
  <2>3. QED
    BY <2>1, <2>2
<1>3. TypeOK'
  BY <1>1, <1>2 DEF IInv, TypeOK, auth
<1>4. QED
  BY <1>1, <1>2, <1>3
     DEF IInv, ArmedIsTimed, KeysArePeers, RevokeBacked, PresenceIsTrue, HeartIsHeld,
         InPeerLinks, auth

LEMMA WritableKeeps ==
    ASSUME IInv, Writable
    PROVE  IInv'
<1>1. UNCHANGED <<active, admitted, peer, up, claimed, authed, reads, revoke, heart,
                  announced, absent>> /\ member' = TRUE
  BY DEF Writable
<1>2. \A l \in Links :
         /\ timers[l] \in Timers /\ timers[l].own \in Nat
         /\ [timers[l] EXCEPT !.own = @ + 1] \in Timers
         /\ [timers[l] EXCEPT !.own = @ + 1].own > 0
         /\ [own |-> 0, lost |-> Uncancelled(l)] \in Timers
  <2> TAKE l \in Links
  <2>1. timers[l] \in Timers
    BY DEF IInv, TypeOK, Timers
  <2>2. Uncancelled(l) \in Nat
    BY <2>1 DEF IInv, ArmedIsTimed, Timers, Uncancelled
  <2>3. QED
    BY <2>1, <2>2 DEF Timers
<1>3. SlotInv'
  BY <1>2 DEF Writable, IInv, TypeOK, SlotInv, ArmedIsTimed
<1>4. (pending \in [Links -> {"none", "own", "lost"}])'
  BY OrphanedType DEF Writable, IInv, TypeOK
<1>5. TypeOK'
  BY <1>1, <1>3, <1>4 DEF IInv, TypeOK, SlotInv, Timers
<1>6. QED
  BY <1>1, <1>3, <1>5
     DEF IInv, SlotInv, KeysArePeers, RevokeBacked, PresenceIsTrue, HeartIsHeld, InPeerLinks

LEMMA UnwritableKeeps ==
    ASSUME IInv, Unwritable
    PROVE  IInv'
<1>1. member' = FALSE /\ UNCHANGED <<active, admitted, peer, links>>
  BY DEF Unwritable
<1>2. TypeOK'
  BY <1>1 DEF IInv, TypeOK, links, auth
<1>3. QED
  BY <1>1, <1>2
     DEF IInv, ArmedIsTimed, KeysArePeers, RevokeBacked, PresenceIsTrue, HeartIsHeld,
         InPeerLinks, links, auth

---------------------------------------------------------------------------

LEMMA InitHolds == Init => IInv
<1> SUFFICES ASSUME Init PROVE IInv
  OBVIOUS
<1>1. [FreshHeart EXCEPT !.on = FALSE] \in Hearts /\ ~[FreshHeart EXCEPT !.on = FALSE].on
  <2>1. 0 \in 0 .. MaxMisses
    BY PeerLinksAssumption
  <2>2. QED
    BY <2>1 DEF FreshHeart, Hearts
<1>2. heart \in [Links -> Hearts] /\ HeartIsHeld
  BY <1>1 DEF Init, HeartIsHeld
<1>3. TypeOK
  BY <1>2 DEF Init, TypeOK, NoTimers, Hearts
<1>4. QED
  BY <1>2, <1>3
     DEF Init, IInv, ArmedIsTimed, KeysArePeers, RevokeBacked, PresenceIsTrue, InPeerLinks

LEMMA LinkStepKeeps ==
    ASSUME IInv, NEW l \in Links, LinkStep(l)
    PROVE  IInv'
<1>1. CASE \E k \in Keys : Connect(l, k)
  BY <1>1, ConnectKeeps
<1>2. CASE Close(l)
  BY <1>2, CloseKeeps
<1>3. CASE \E whose \in {"own", "lost"}, sent \in BOOLEAN : Run(l, whose, sent)
  BY <1>3, RunKeeps
<1>4. CASE Proof(l) \/ NoProof(l)
  BY <1>4, ProofKeeps, NoProofKeeps
<1>5. CASE \E r \in reads[l] : Resume(l, r)
  <2>1. PICK r \in reads[l] : Resume(l, r)
    BY <1>5
  <2>2. AnswerRead(l, r) \/ ClaimRead(l, r) \/ AuthedRead(l, r) \/ RevokeRead(l, r)
    BY <2>1 DEF Resume
  <2>3. QED
    BY <2>1, <2>2, AnswerReadKeeps, ClaimReadKeeps, AuthedReadKeeps, RevokeReadKeeps
<1>6. CASE Reconcile(l)
  BY <1>6, ReconcileKeeps
<1>7. CASE RevocationTimer(l)
  BY <1>7, RevocationTimerKeeps
<1>8. CASE \E key \in {peer[l], Self} : Admit(l, key)
  BY <1>8, AdmitKeeps
<1>9. CASE (\E sent \in BOOLEAN : Tick(l, sent)) \/ Pong(l)
  BY <1>9, TickKeeps, PongKeeps
<1>10. QED
  BY <1>1, <1>2, <1>3, <1>4, <1>5, <1>6, <1>7, <1>8, <1>9 DEF LinkStep

LEMMA StutterKeeps ==
    ASSUME IInv, UNCHANGED vars
    PROVE  IInv'
<1>1. TypeOK'
  BY DEF IInv, TypeOK, vars, links, environment, auth
<1>2. QED
  BY <1>1
     DEF IInv, ArmedIsTimed, KeysArePeers, RevokeBacked, PresenceIsTrue, HeartIsHeld,
         InPeerLinks, vars, links, environment, auth

\* The invariant holds of every reachable state.
LEMMA Invariance == Spec => []IInv
<1>1. IInv /\ [Next]_vars => IInv'
  BY LinkStepKeeps, ViewKeeps, WritableKeeps, UnwritableKeeps, StutterKeeps DEF Next
<1>2. QED
  BY InitHolds, <1>1, PTL DEF Spec

\* Every reachable state of the links is well typed, whatever crosses on them;
\* no run timer is counted twice or cancelled twice (clearAuthRetry, daemon.ts).
THEOREM TypeCorrect == Spec => []TypeOK
<1>1. IInv => TypeOK
  BY DEF IInv
<1>2. QED
  BY <1>1, Invariance, PTL

\* A link is authenticated only as the agent at its other end, and the last
\* presence event is true, for any number of links, keys, pending timers and
\* functions that wait for the view.
THEOREM PresenceCorrect == Spec => []PresenceIsTrue
<1>1. IInv => PresenceIsTrue
  BY DEF IInv
<1>2. QED
  BY <1>1, Invariance, PTL

\* A step that destroys a link as long as its heart beats is a revocation.
LEMMA OnlyRevokedIsDestroyed ==
    ASSUME IInv, [Next]_vars, NEW l \in Links,
           up[l] = "up", up'[l] = "dying", member, heart'[l].on
    PROVE  absent[l]
<1>1. PICK m \in Links : LinkStep(m)
  BY DEF Next, vars, links, ViewAdds, ViewRemoves, Writable, Unwritable
<1>2. CASE \E r \in reads[m] : Resume(m, r)
  <2>1. PICK r \in reads[m] : Resume(m, r)
    BY <1>2
  <2>2. RevokeRead(m, r) /\ ~r.active /\ m = l
    BY <2>1 DEF Resume, AnswerRead, ClaimRead, AuthedRead, RevokeRead, Destroy, IInv, TypeOK
  <2>3. QED
    BY <2>1, <2>2 DEF RevokeRead, IInv, RevokeBacked
<1>3. CASE \E sent \in BOOLEAN : Tick(m, sent)
  <2>1. GivenUp(heart[m]) /\ m = l
    BY <1>3 DEF Tick, Destroy, IInv, TypeOK
  <2>2. heart' = [heart EXCEPT ![m] = [heart[m] EXCEPT !.on = FALSE, !.ping = FALSE,
                                          !.missed = MissedAgain(heart[m])]]
    BY <1>3, <2>1 DEF Tick
  <2>3. ~heart'[m].on
    BY <2>2 DEF IInv, TypeOK
  <2>4. QED
    BY <2>1, <2>3
<1>4. CASE Reconcile(m)
  BY <1>4 DEF Reconcile, ReconcileAuthed, ReconcileUnauthed, Destroy, IInv, TypeOK
<1>5. CASE \/ \E k \in Keys : Connect(m, k)
           \/ Close(m)
           \/ \E whose \in {"own", "lost"}, sent \in BOOLEAN : Run(m, whose, sent)
           \/ Proof(m) \/ NoProof(m) \/ RevocationTimer(m) \/ Pong(m)
           \/ \E key \in {peer[m], Self} : Admit(m, key)
  BY <1>5 DEF Connect, Close, Run, Proof, NoProof, RevocationTimer, Pong, Admit, IInv, TypeOK
<1>6. QED
  BY <1>1, <1>2, <1>3, <1>4, <1>5 DEF LinkStep

\* The grace period: a writer that is removed and added again before the timer
\* fires keeps its link, however many timers and reads are under way.
THEOREM GracePeriodCorrect == Spec => ReadmittedIsKept
<1>1. IInv /\ [Next]_vars =>
        [\A l \in Links :
            up[l] = "up" /\ up'[l] = "dying" /\ member /\ heart'[l].on => absent[l]]_vars
  BY OnlyRevokedIsDestroyed
<1>2. QED
  BY <1>1, Invariance, PTL DEF Spec, ReadmittedIsKept

============================================================================
