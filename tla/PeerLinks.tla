----------------------------- MODULE PeerLinks -----------------------------
(***************************************************************************)
(* The links of a daemon and the membership proofs made over them: the     *)
(* retry loop, reconciliation, revocation and close of daemon.ts, the      *)
(* challenge and the heartbeat of member-auth-channel.ts, the timers of    *)
(* peer-link.ts.  One daemon, one pact; the agents at the other end, the   *)
(* sockets and the view are the environment.                               *)
(*                                                                         *)
(* A function that awaits pact.hasActiveMemberKey goes on later with what  *)
(* the view said when it asked: such a function is a member of `reads`.    *)
(***************************************************************************)
EXTENDS Integers, FiniteSets

CONSTANTS
    Links,      \* the PeerLink objects
    Keys,       \* the writer keys of other agents
    Self,       \* the writer key of this daemon
    None,       \* no key
    MaxMisses,  \* LIVENESS_MAX_MISSES
    MaxTimers,  \* bound: a link starts no new run timer beside more than these
    MaxReads    \* bound on the functions of a link that wait for the view

ASSUME PeerLinksAssumption ==
    /\ Self \notin Keys /\ None \notin Keys \cup {Self}
    /\ MaxMisses \in Nat \ {0} /\ MaxTimers \in Nat /\ MaxReads \in Nat

VARIABLES
    member,     \* pact.isMember
    active,     \* the keys the view holds as members
    admitted,   \* keys whose owner has redeemed an invite here
    up,         \* up[l]: "up", "dying" (destroyed, not yet closed), "down"
    peer,       \* peer[l]: the key of the agent at the other end
    claimed,    \* claimed[l]: link.claimedMembers
    authed,     \* authed[l]: link.authenticatedMembers
    slot,       \* slot[l]: link.authRetry: no slot, timer null, timer set
    timers,     \* timers[l]: run timers pending, of the slot and of lost ones
    pending,    \* pending[l]: link.pendingAuth: nothing, or whose run waits
    reads,      \* reads[l]: the functions that wait for the view
    revoke,     \* revoke[l]: the key a revocation timer is set for
    heart,      \* heart[l]: link.liveness
    announced,  \* announced[l]: the last presence event emitted about l
    absent      \* absent[l]: history: the key of the peer has been out of the
                \* view since the revocation timer last fired

environment == <<member, active, admitted, peer>>
auth == <<slot, timers, pending>>
links == <<up, claimed, authed, auth, reads, revoke, heart,
           announced, absent>>
vars == <<environment, links>>

---------------------------------------------------------------------------
(* The retry slot.  A run timer belongs to the slot of the map ("own") or  *)
(* to one that was dropped from it ("lost").                               *)

NoTimers == [own |-> 0, lost |-> 0]

\* `link.authRetry.delete`: the timers of the slot stay, and so does its run.
DropSlot(l) ==
    /\ slot' = [slot EXCEPT ![l] = "none"]
    /\ timers' = [timers EXCEPT ![l] = [own |-> 0, lost |-> @.lost + @.own]]

\* Mutant: a timer is cancelled also when the slot has none.
UncancelledAlways(l) == timers[l].lost + timers[l].own - 1

\* `clearAuthRetry`: the timer the slot knows of is cancelled.
Uncancelled(l) ==
    timers[l].lost + timers[l].own - (IF slot[l] = "armed" THEN 1 ELSE 0)

ClearAuthRetry(l) ==
    /\ slot' = [slot EXCEPT ![l] = "none"]
    /\ timers' = [timers EXCEPT ![l] = [own |-> 0, lost |-> Uncancelled(l)]]

\* A pending request whose run belongs to a slot that has left the map.
Orphaned(l) == IF pending[l] = "own" THEN "lost" ELSE pending[l]

\* The bound on timers; it only delays.
RoomForTimer(l) == timers[l].own + timers[l].lost <= MaxTimers

\* `_scheduleMemberAuthForPact`
ScheduleAuth(l) ==
    \/ /\ authed[l] # None
       /\ ClearAuthRetry(l)
       /\ pending' = [pending EXCEPT ![l] = Orphaned(l)]
    \/ /\ authed[l] = None /\ slot[l] = "armed"
       /\ UNCHANGED auth
    \/ /\ authed[l] = None /\ slot[l] # "armed" /\ RoomForTimer(l)
       /\ slot' = [slot EXCEPT ![l] = "armed"]
       /\ timers' = [timers EXCEPT ![l].own = @ + 1]
       /\ UNCHANGED pending

\* A run of the loop that ends in a delay: its slot gets a new timer.
Rearm(l, whose) ==
    /\ slot' = IF whose = "own" THEN [slot EXCEPT ![l] = "armed"] ELSE slot
    /\ timers' = [timers EXCEPT ![l][whose] = @ + 1]

---------------------------------------------------------------------------
(* Presence.  A link that is not in _peerLinks any more may still be       *)
(* reported online by a function that outlived it.                         *)

InPeerLinks(l) == up[l] # "down"

Destroy(l) == up' = [up EXCEPT ![l] = "dying"]

ReadKinds == {"answer", "claim", "authed", "revoke"}

Reads == [kind : ReadKinds, key : Keys \cup {Self}, active : BOOLEAN]

Read(kind, key) == [kind |-> kind, key |-> key, active |-> key \in active]

\* `pact.hasActiveMemberKey` is called, and the function waits.
Await(l, kind, key) ==
    /\ Cardinality(reads[l]) < MaxReads
    /\ reads' = [reads EXCEPT ![l] = @ \cup {Read(kind, key)}]

\* `authenticatedMembers.set`, with the event: `always` or only at a change.
MarkAuthed(l, key, always) ==
    /\ authed' = [authed EXCEPT ![l] = key]
    /\ announced' = IF ~always /\ authed[l] # None THEN announced
                    ELSE [announced EXCEPT ![l] =
                            IF InPeerLinks(l) THEN "online" ELSE "ghost"]
    /\ revoke' = [revoke EXCEPT ![l] = None]
    /\ ClearAuthRetry(l)

---------------------------------------------------------------------------
(* Connecting, and closing.                                                *)

FreshHeart == [on |-> TRUE, missed |-> 0, ponged |-> FALSE, ping |-> FALSE]

\* The object is a new one: nothing that knew the old one is left.
Connect(l, k) ==
    /\ up[l] = "down" /\ reads[l] = {} /\ timers[l] = NoTimers
    /\ revoke[l] = None
    /\ up' = [up EXCEPT ![l] = "up"]
    /\ peer' = [peer EXCEPT ![l] = k]
    /\ claimed' = [claimed EXCEPT ![l] = None]
    /\ authed' = [authed EXCEPT ![l] = None]
    /\ heart' = [heart EXCEPT ![l] = FreshHeart]
    /\ announced' = [announced EXCEPT ![l] = "offline"]
    /\ absent' = [absent EXCEPT ![l] = k \notin active]
    /\ slot' = [slot EXCEPT ![l] = "armed"]
    /\ timers' = [timers EXCEPT ![l].own = 1]
    /\ UNCHANGED <<member, active, admitted, pending, reads, revoke>>

\* Mutant: a link that was destroyed here is taken to have been reported.
OfflineEventsIfUp(l) ==
    IF authed[l] = None \/ up[l] # "up" THEN announced
    ELSE [announced EXCEPT ![l] = "offline"]

OfflineEvents(l) ==
    IF authed[l] = None THEN announced
    ELSE [announced EXCEPT ![l] = "offline"]

\* The socket closes, by itself or because it was destroyed.
Close(l) ==
    /\ InPeerLinks(l)
    /\ up' = [up EXCEPT ![l] = "down"]
    /\ heart' = [heart EXCEPT ![l].on = FALSE, ![l].ping = FALSE]
    /\ revoke' = [revoke EXCEPT ![l] = None]
    /\ ClearAuthRetry(l)
    /\ pending' = [pending EXCEPT ![l] = "none"]
    /\ announced' = OfflineEvents(l)
    /\ authed' = [authed EXCEPT ![l] = None]
    /\ UNCHANGED <<environment, claimed, reads, absent>>

---------------------------------------------------------------------------
(* One attempt: challenge, answer, verdict.                                *)

\* `slot.timer = null`
Fired(l, whose) ==
    IF whose = "own" THEN [slot EXCEPT ![l] = "idle"] ELSE slot

\* The timer of a run that starts is no longer pending.
Fire(l, whose) == [timers EXCEPT ![l][whose] = @ - 1]

\* A run that ends without sending anything.
RunEnds(l, whose) ==
    \/ /\ ~InPeerLinks(l) \/ ~member \/ authed[l] # None
       /\ slot' = [slot EXCEPT ![l] = "none"]
       /\ LET left == Fire(l, whose)[l]
          IN  timers' = [timers EXCEPT ![l] =
                            [own |-> 0, lost |-> left.own + left.lost]]
       /\ pending' = [pending EXCEPT ![l] = Orphaned(l)]
    \/ /\ InPeerLinks(l) /\ member /\ authed[l] = None /\ pending[l] # "none"
       /\ slot' = Fired(l, whose)
       /\ timers' = Fire(l, whose)
       /\ UNCHANGED pending

\* A run that sends the challenge, or is told by the channel that it cannot.
RunSends(l, whose, sent) ==
    /\ InPeerLinks(l) /\ member /\ authed[l] = None /\ pending[l] = "none"
    /\ \/ /\ sent /\ up[l] = "up"
          /\ pending' = [pending EXCEPT ![l] = whose]
          /\ slot' = Fired(l, whose)
          /\ timers' = Fire(l, whose)
       \/ /\ ~sent
          /\ slot' = IF whose = "own" THEN [slot EXCEPT ![l] = "armed"] ELSE slot
          /\ UNCHANGED <<timers, pending>>

Run(l, whose, sent) ==
    /\ timers[l][whose] > 0
    /\ RunEnds(l, whose) \/ RunSends(l, whose, sent)
    /\ UNCHANGED <<environment, up, claimed, authed, reads, revoke,
                   heart, announced, absent>>

\* An answer that verifies; the key is claimed before the view is asked.
Proof(l) ==
    /\ pending[l] # "none" /\ up[l] = "up"
    /\ pending' = [pending EXCEPT ![l] = "none"]
    /\ claimed' = [claimed EXCEPT ![l] = peer[l]]
    /\ Await(l, "answer", peer[l])
    /\ UNCHANGED <<environment, up, authed, slot, timers, revoke,
                   heart, announced, absent>>

\* A refusal, an answer that does not verify, or none in time.
NoProof(l) ==
    /\ pending[l] # "none"
    /\ pending' = [pending EXCEPT ![l] = "none"]
    /\ Rearm(l, pending[l])
    /\ UNCHANGED <<environment, up, claimed, authed, reads, revoke,
                   heart, announced, absent>>

---------------------------------------------------------------------------
(* What goes on after the view was asked.                                  *)

\* requestMemberAuth, and the end of the run that called it.
AnswerRead(l, r) ==
    /\ r.kind = "answer"
    /\ pending' = [pending EXCEPT ![l] = Orphaned(l)]
    /\ IF r.active THEN MarkAuthed(l, r.key, FALSE)
       ELSE DropSlot(l) /\ UNCHANGED <<authed, announced, revoke>>
    /\ UNCHANGED up

\* _reconcilePactLinks, a link that is not authenticated but has claimed a key.
ClaimRead(l, r) ==
    /\ r.kind = "claim"
    /\ IF r.active
       THEN /\ MarkAuthed(l, r.key, TRUE)
            /\ pending' = [pending EXCEPT ![l] = Orphaned(l)]
       ELSE ScheduleAuth(l) /\ UNCHANGED <<authed, announced, revoke>>
    /\ UNCHANGED up

\* _reconcilePactLinks, an authenticated link.
AuthedRead(l, r) ==
    /\ r.kind = "authed"
    /\ revoke' = [revoke EXCEPT ![l] = IF r.active THEN None
                                       ELSE IF @ = None THEN r.key ELSE @]
    /\ UNCHANGED <<up, auth, authed, announced>>

\* Mutant: the view is not asked again.
RevokeReadBlind(l, r) ==
    /\ r.kind = "revoke"
    /\ IF up[l] = "up" THEN Destroy(l) ELSE UNCHANGED up
    /\ UNCHANGED <<auth, authed, announced, revoke>>

\* scheduleRevocationDisconnect, after its 500 ms.
RevokeRead(l, r) ==
    /\ r.kind = "revoke"
    /\ IF ~r.active /\ up[l] = "up" THEN Destroy(l) ELSE UNCHANGED up
    /\ UNCHANGED <<auth, authed, announced, revoke>>

Resume(l, r) ==
    /\ r \in reads[l]
    /\ reads' = [reads EXCEPT ![l] = @ \ {r}]
    /\ AnswerRead(l, r) \/ ClaimRead(l, r) \/ AuthedRead(l, r) \/ RevokeRead(l, r)
    /\ UNCHANGED <<environment, claimed, heart, absent>>

---------------------------------------------------------------------------
(* Reconciliation, every 30 s and at every update of the pact.             *)

\* Mutant: only the view decides about an authenticated link.
ReconcileAuthedByView(l) ==
    /\ authed[l] # None
    /\ Await(l, "authed", authed[l])
    /\ UNCHANGED <<up, auth>>

ReconcileAuthed(l) ==
    /\ authed[l] # None
    /\ \/ ~member /\ Destroy(l) /\ UNCHANGED reads
       \/ member /\ Await(l, "authed", authed[l]) /\ UNCHANGED up
    /\ UNCHANGED auth

\* Mutant: a key that was claimed once is not looked up again.
ReconcileUnclaimed(l) ==
    /\ authed[l] = None /\ member /\ claimed[l] = None
    /\ ScheduleAuth(l)
    /\ UNCHANGED <<up, reads>>

ReconcileUnauthed(l) ==
    /\ authed[l] = None /\ member
    /\ \/ claimed[l] # None /\ Await(l, "claim", claimed[l]) /\ UNCHANGED auth
       \/ claimed[l] = None /\ ScheduleAuth(l) /\ UNCHANGED reads
    /\ UNCHANGED up

Reconcile(l) ==
    /\ InPeerLinks(l)
    /\ ReconcileAuthed(l) \/ ReconcileUnauthed(l)
    /\ UNCHANGED <<environment, claimed, authed, revoke, heart, announced, absent>>

RevocationTimer(l) ==
    /\ revoke[l] # None
    /\ revoke' = [revoke EXCEPT ![l] = None]
    /\ absent' = [absent EXCEPT ![l] = \/ revoke[l] \notin active
                                       \/ @ /\ \E r \in reads[l] : r.kind = "revoke"]
    /\ IF InPeerLinks(l) /\ authed[l] = revoke[l]
       THEN Await(l, "revoke", revoke[l])
       ELSE UNCHANGED reads
    /\ UNCHANGED <<environment, up, claimed, authed, auth, heart,
                   announced>>

---------------------------------------------------------------------------
(* _bootstrapReplicationForAdmission, for both ends of a redemption.       *)

\* Mutant: the daemon's own key is taken for the peer's.
BootstrapAnyKey(l, key) ==
    /\ claimed' = [claimed EXCEPT ![l] = key]
    /\ MarkAuthed(l, key, FALSE)
    /\ pending' = [pending EXCEPT ![l] = Orphaned(l)]

Bootstrap(l, key) ==
    IF key = Self
    THEN UNCHANGED <<claimed, authed, announced, revoke, auth>>
    ELSE /\ claimed' = [claimed EXCEPT ![l] = key]
         /\ MarkAuthed(l, key, FALSE)
         /\ pending' = [pending EXCEPT ![l] = Orphaned(l)]

\* The peer has redeemed an invite here, and may be gone when that is done; or
\* this daemon has redeemed one at the peer.  A peer has one invite to redeem.
Admit(l, key) ==
    /\ peer[l] # None /\ key \notin admitted
    /\ \/ key = peer[l] /\ member
       \/ key = Self /\ InPeerLinks(l)
    /\ admitted' = admitted \cup ({key} \ {Self})
    /\ Bootstrap(l, key)
    /\ UNCHANGED <<member, active, peer, up, reads, heart, absent>>

---------------------------------------------------------------------------
(* The heartbeat.                                                          *)

\* Mutant: a ping without an answer is only replaced.
MissedNever(h) == h.missed

MissedAgain(h) == IF h.missed < MaxMisses THEN h.missed + 1 ELSE h.missed

GivenUp(h) == h.ping /\ h.ponged /\ h.missed + 1 >= MaxMisses

Tick(l, sent) ==
    /\ heart[l].on
    /\ IF GivenUp(heart[l])
       THEN /\ heart' = [heart EXCEPT ![l].on = FALSE, ![l].ping = FALSE,
                                      ![l].missed = MissedAgain(heart[l])]
            /\ Destroy(l)
       ELSE /\ heart' = [heart EXCEPT
                            ![l].missed = IF heart[l].ping THEN MissedAgain(heart[l]) ELSE @,
                            ![l].ping = sent]
            /\ UNCHANGED up
    /\ UNCHANGED <<environment, claimed, authed, auth, reads, revoke,
                   announced, absent>>

Pong(l) ==
    /\ heart[l].on /\ heart[l].ping /\ up[l] = "up"
    /\ heart' = [heart EXCEPT ![l].ping = FALSE, ![l].missed = 0, ![l].ponged = TRUE]
    /\ UNCHANGED <<environment, up, claimed, authed, auth, reads,
                   revoke, announced, absent>>

---------------------------------------------------------------------------
(* The environment.                                                        *)

\* An entry that admits or removes a writer is applied.
ViewAdds(k) ==
    /\ k \notin active
    /\ active' = active \cup {k}
    /\ UNCHANGED <<member, admitted, peer, links>>

ViewRemoves(k) ==
    /\ k \in active
    /\ active' = active \ {k}
    /\ absent' = [l \in Links |-> absent[l] \/ peer[l] = k]
    /\ UNCHANGED <<member, admitted, peer, up, claimed, authed,
                   auth, reads, revoke, heart, announced>>

\* Autobase lets the daemon write; every link gets an attempt.
Writable ==
    /\ ~member
    /\ member' = TRUE
    /\ LET restarted == {l \in Links : InPeerLinks(l) /\ authed[l] = None
                                       /\ slot[l] # "armed"}
           cleared == {l \in Links : InPeerLinks(l) /\ authed[l] # None}
       IN  /\ \A l \in restarted : RoomForTimer(l)
           /\ slot' = [l \in Links |-> IF l \in restarted THEN "armed"
                                       ELSE IF l \in cleared THEN "none" ELSE slot[l]]
           /\ timers' = [l \in Links |->
                            IF l \in restarted THEN [timers[l] EXCEPT !.own = @ + 1]
                            ELSE IF l \in cleared THEN [own |-> 0, lost |-> Uncancelled(l)]
                            ELSE timers[l]]
           /\ pending' = [l \in Links |-> IF l \in cleared THEN Orphaned(l) ELSE pending[l]]
    /\ UNCHANGED <<active, admitted, peer, up, claimed, authed,
                   reads, revoke, heart, announced, absent>>

Unwritable ==
    /\ member
    /\ member' = FALSE
    /\ UNCHANGED <<active, admitted, peer, links>>

---------------------------------------------------------------------------

Init ==
    /\ member \in BOOLEAN
    /\ active = {} /\ admitted = {}
    /\ up = [l \in Links |-> "down"]
    /\ peer = [l \in Links |-> None]
    /\ claimed = [l \in Links |-> None]
    /\ authed = [l \in Links |-> None]
    /\ slot = [l \in Links |-> "none"]
    /\ timers = [l \in Links |-> NoTimers]
    /\ pending = [l \in Links |-> "none"]
    /\ reads = [l \in Links |-> {}]
    /\ revoke = [l \in Links |-> None]
    /\ heart = [l \in Links |-> [FreshHeart EXCEPT !.on = FALSE]]
    /\ announced = [l \in Links |-> "offline"]
    /\ absent = [l \in Links |-> FALSE]

LinkStep(l) ==
    \/ \E k \in Keys : Connect(l, k)
    \/ Close(l)
    \/ \E whose \in {"own", "lost"}, sent \in BOOLEAN : Run(l, whose, sent)
    \/ Proof(l)
    \/ NoProof(l)
    \/ \E r \in reads[l] : Resume(l, r)
    \/ Reconcile(l)
    \/ RevocationTimer(l)
    \/ \E key \in {peer[l], Self} : Admit(l, key)
    \/ \E sent \in BOOLEAN : Tick(l, sent)
    \/ Pong(l)

Next ==
    \/ \E l \in Links : LinkStep(l)
    \/ \E k \in Keys : ViewAdds(k) \/ ViewRemoves(k)
    \/ Writable
    \/ Unwritable

Spec == Init /\ [][Next]_vars

---------------------------------------------------------------------------
(* Fairness: timers fire, promises settle, a socket that was destroyed     *)
(* closes, and the channel takes a message if it is tried again and again. *)
(* Nothing else of the environment is fair.                                *)

CloseDestroyed(l) == up[l] = "dying" /\ Close(l)

Fairness ==
    \A l \in Links :
        /\ \A r \in Reads : WF_vars(Resume(l, r))
        /\ WF_vars(RevocationTimer(l))
        /\ WF_vars(Reconcile(l))
        /\ WF_vars(CloseDestroyed(l))
        /\ WF_vars(NoProof(l))
        /\ \A whose \in {"own", "lost"} : SF_vars(Run(l, whose, TRUE))
        /\ SF_vars(Tick(l, TRUE))

FairSpec == Spec /\ Fairness

---------------------------------------------------------------------------
(* Properties.                                                             *)

TypeOK ==
    /\ member \in BOOLEAN /\ active \subseteq Keys
    /\ admitted \subseteq Keys
    /\ up \in [Links -> {"up", "dying", "down"}]
    /\ peer \in [Links -> Keys \cup {None}]
    /\ claimed \in [Links -> Keys \cup {None, Self}]
    /\ authed \in [Links -> Keys \cup {None, Self}]
    /\ slot \in [Links -> {"none", "idle", "armed"}]
    /\ timers \in [Links -> [own : Nat, lost : Nat]]
    /\ pending \in [Links -> {"none", "own", "lost"}]
    /\ reads \in [Links -> SUBSET Reads]
    /\ revoke \in [Links -> Keys \cup {None, Self}]
    /\ heart \in [Links -> [on : BOOLEAN, missed : 0 .. MaxMisses,
                            ponged : BOOLEAN, ping : BOOLEAN]]
    /\ announced \in [Links -> {"offline", "online", "ghost"}]
    /\ absent \in [Links -> BOOLEAN]

\* What a link says of its peer is true.  It is only ever authenticated as the
\* agent at its other end, whatever answers, reconciliations and redemptions
\* cross on it: marked with the daemon's own key, as the comment at daemon.ts:601
\* recounts, that agent would show as offline for ever.  And the events tell the
\* dashboard what /agents would: the last one says online exactly when a member
\* is authenticated on a link that is held.  Only a function that outlives its
\* link may report a member online ("ghost") that nothing reports offline again.
PresenceIsTrue ==
    \A l \in Links :
        IF InPeerLinks(l)
        THEN authed[l] \in {None, peer[l]} /\ (announced[l] = "online" <=> authed[l] # None)
        ELSE announced[l] # "online"

\* The revocation timer is a grace period: while the daemon is a member and the
\* heartbeat does not give up, a link is destroyed only if the key of its peer
\* was out of the view at some time since the timer fired.  A writer removed
\* and added again before that keeps its link.
ReadmittedIsKept ==
    [][\A l \in Links :
          up[l] = "up" /\ up'[l] = "dying" /\ member /\ heart'[l].on
            => absent[l]]_vars

\* A member at the other end of a link that stays up and answers ends up
\* authenticated, however many requests, answers and timers were lost, doubled
\* or late, and whatever the first verdict about it was.
MemberIsAuthed ==
    \A l \in Links, k \in Keys :
        /\ SF_vars(Proof(l))
        /\ <>[](member /\ up[l] = "up" /\ peer[l] = k /\ k \in active)
        => <>[](authed[l] = k)

\* No link stays authenticated for a key that is out of the view for good, nor
\* for anyone once this daemon is no member for good.
FormerMemberIsCut ==
    \A l \in Links :
        /\ \A k \in Keys :
            <>[](k \notin active) => <>[](InPeerLinks(l) => authed[l] # k)
        /\ <>[]~member => <>[](InPeerLinks(l) => authed[l] = None)

\* A peer that has answered a ping and then answers no more loses its link,
\* although the socket stays open.
DeadPeerIsCut ==
    \A l \in Links :
        <>[][~Pong(l)]_vars => []<>~(up[l] = "up" /\ heart[l].ponged)
=============================================================================
