--------------------------- MODULE RemoteRedeem ---------------------------
(***************************************************************************)
(* Redeeming one invite token over the swarm: the retry loop of the join   *)
(* command (join.ts), the broadcast of redeemThroughPeers and the answers  *)
(* of _handleRedeemRequest (daemon.ts), and the correlated messages of     *)
(* invite-channel.ts.  A joiner is the command and the daemon of one host. *)
(*                                                                         *)
(* Inside the creator a redemption is one step here; Membership has its    *)
(* steps.  A request or an answer is lost when its link closes.  That an   *)
(* invite expires is left out: it is refused as a revoked one is.          *)
(***************************************************************************)
CONSTANTS
    Joiners,   \* the hosts that hold the token
    Creator,   \* the agent that minted it
    Others,    \* further agents a joiner may be linked to
    Rounds,    \* names of broadcasts (`corr`), used again when forgotten
    Rival,     \* another host that was given the token
    None

ASSUME RemoteRedeemAssumption ==
    /\ Creator \notin Others
    /\ None \notin Joiners \cup Rounds \cup {Rival} /\ Rival \notin Joiners

Agents == Others \cup {Creator}

VARIABLES
    kind,      \* kind[p]: what agent p is to the pact, an indexer or not
    revoked,   \* the creator has revoked the invite
    spentBy,   \* the key the invite was spent for
    admitted,  \* the creator has appended the admission
    links,     \* the pairs <<joiner, agent>> with an open invite channel
    requests,  \* redeem-requests on the wire or being handled
    answers,   \* redeem-responses on the wire
    round,     \* round[j]: the broadcast the HTTP request of j waits for
    refusals,  \* refusals[j]: `responses`: the first that is a verdict, the last
    open,      \* open[j]: the agents it waits for; they are `outstanding`
    cli,       \* cli[j]: where the join command is
    code,      \* code[j]: the answer that ended the command
    cut        \* history: joiners whose last broadcast timed out

invite == <<revoked, spentBy, admitted>>
wire == <<links, requests, answers>>
command == <<round, refusals, open, cli, code, cut>>
vars == <<kind, invite, wire, command>>

---------------------------------------------------------------------------
(* The verdict on a broadcast.                                             *)

\* What the command tries again after.
Transient == {"NO_AGENTS", "NO_INDEXER_REACHABLE", "AGENT_DISCONNECTED"}

\* What an agent says that is not the one to ask.
NotMine == {"INVITE_NOT_INDEXER", "UNKNOWN_PACT"}

NoRefusal == [verdict |-> "none", last |-> "none"]

\* One more response.
Refused(rs, c) ==
    [verdict |-> IF rs.verdict = "none" /\ c \notin NotMine THEN c ELSE rs.verdict,
     last |-> c]

\* Mutant: the last refusal is passed on as it is.
LastRefusal(rs) == rs.last

\* Every agent has refused: the first refusal that is a verdict, if there is one.
AllRefused(rs) ==
    IF rs.verdict = "none" THEN "NO_INDEXER_REACHABLE" ELSE rs.verdict

\* The time is up: the last refusal, if there is one.
TimedOut(rs) ==
    IF rs.last = "none" THEN "NO_INDEXER_REACHABLE" ELSE rs.last

---------------------------------------------------------------------------
(* The command, told of a verdict.                                         *)

Told(j, verdict) ==
    /\ code' = IF verdict \in Transient THEN code ELSE [code EXCEPT ![j] = verdict]
    /\ cli' = [cli EXCEPT ![j] = CASE verdict = "ok" -> "redeemed"
                                   [] verdict \in Transient -> "pausing"
                                   [] OTHER -> "refused"]
    /\ round' = [round EXCEPT ![j] = None]
    /\ refusals' = [refusals EXCEPT ![j] = NoRefusal]
    /\ open' = [open EXCEPT ![j] = {}]

\* Mutant: the first answer settles the broadcast.
HearFirst(j, p, c) == Told(j, c)

\* An answer to the open broadcast: one success is enough, or all must refuse.
Hear(j, p, c) ==
    IF c = "ok" \/ open[j] = {p}
    THEN Told(j, IF c = "ok" THEN c ELSE AllRefused(Refused(refusals[j], c)))
    ELSE /\ refusals' = [refusals EXCEPT ![j] = Refused(@, c)]
         /\ open' = [open EXCEPT ![j] = @ \ {p}]
         /\ UNCHANGED <<round, cli, code>>

\* The retry loop, at the top: not too late yet.
Broadcast(j, accepting) ==
    /\ cli[j] = "trying" /\ round[j] = None
    /\ LET linked == {p \in Agents : <<j, p>> \in links}
       IN  /\ accepting \subseteq linked
           /\ \/ /\ accepting = {}
                 /\ Told(j, IF linked = {} THEN "NO_AGENTS" ELSE "NO_INDEXER_REACHABLE")
                 /\ UNCHANGED requests
              \/ /\ accepting # {}
                 /\ \E n \in Rounds :
                      /\ \A m \in requests \cup answers : ~(m.from = j /\ m.round = n)
                      /\ round' = [round EXCEPT ![j] = n]
                      /\ requests' = requests \cup
                            {[from |-> j, to |-> p, round |-> n] : p \in accepting}
                 /\ open' = [open EXCEPT ![j] = accepting]
                 /\ UNCHANGED <<refusals, cli, code>>
    /\ cut' = cut \ {j}
    /\ UNCHANGED <<kind, invite, links, answers>>

\* Half a second later.
TryAgain(j) ==
    /\ cli[j] = "pausing"
    /\ cli' = [cli EXCEPT ![j] = "trying"]
    /\ UNCHANGED <<kind, invite, wire, round, refusals, open, code, cut>>

Deadline(j) ==
    /\ cli[j] = "pausing"
    /\ cli' = [cli EXCEPT ![j] = "expired"]
    /\ UNCHANGED <<kind, invite, wire, round, refusals, open, code, cut>>

\* The timer of redeemThroughPeers.  What it has left in link.pending decides
\* nothing any more, and is left out.
Timeout(j) ==
    /\ round[j] # None
    /\ Told(j, TimedOut(refusals[j]))
    /\ cut' = cut \cup {j}
    /\ UNCHANGED <<kind, invite, wire>>

---------------------------------------------------------------------------
(* The agents.                                                             *)

Answer(req, c) ==
    [from |-> req.from, to |-> req.to, round |-> req.round, code |-> c]

\* The answer is sent if the link is still there.
Reply(req, c) ==
    /\ requests' = requests \ {req}
    /\ answers' = IF <<req.from, req.to>> \in links
                  THEN answers \cup {Answer(req, c)} ELSE answers
    /\ UNCHANGED <<kind, links, command>>

\* What is not the creator refuses: only the creator's file has the nonce.  An
\* agent without the pact (UNKNOWN_PACT) is treated as a member is.
Refuse(req) ==
    /\ req \in requests /\ req.to # Creator
    /\ Reply(req, IF kind[req.to] = "indexer" THEN "UNKNOWN_INVITE"
                  ELSE "INVITE_NOT_INDEXER")
    /\ UNCHANGED invite

\* Mutant: the invite is good until it is revoked.
RedeemAgain(req) ==
    /\ req \in requests /\ req.to = Creator
    /\ IF revoked THEN Reply(req, "INVITE_REVOKED") /\ UNCHANGED invite
       ELSE /\ spentBy' = req.from
            /\ admitted' = TRUE
            /\ Reply(req, "ok")
            /\ UNCHANGED revoked

\* Mutant: whoever asks about a spent invite is taken to repeat a request.
RedeemRepeated(req) ==
    /\ req \in requests /\ req.to = Creator
    /\ IF revoked THEN Reply(req, "INVITE_REVOKED") /\ UNCHANGED invite
       ELSE /\ spentBy' = IF spentBy = None THEN req.from ELSE spentBy
            /\ admitted' = TRUE
            /\ Reply(req, "ok")
            /\ UNCHANGED revoked

\* Pact.redeemInvite on the creator.
Redeem(req) ==
    /\ req \in requests /\ req.to = Creator
    /\ IF revoked THEN Reply(req, "INVITE_REVOKED") /\ UNCHANGED invite
       ELSE IF spentBy # None THEN Reply(req, "INVITE_SPENT") /\ UNCHANGED invite
       ELSE /\ spentBy' = req.from
            /\ admitted' = TRUE
            /\ Reply(req, "ok")
            /\ UNCHANGED revoked

\* One of the appends or the save throws: the invite may be spent already, and
\* the joiner admitted.
RedeemFails(req) ==
    /\ req \in requests /\ req.to = Creator /\ ~revoked /\ spentBy = None
    /\ \/ UNCHANGED <<spentBy, admitted>>
       \/ spentBy' = req.from /\ admitted' \in BOOLEAN
    /\ Reply(req, "INTERNAL")
    /\ UNCHANGED revoked

\* The other host gets its request through first.
RivalRedeems ==
    /\ ~revoked /\ spentBy = None
    /\ spentBy' = Rival
    /\ admitted' = TRUE
    /\ UNCHANGED <<kind, revoked, wire, command>>

Revoke ==
    /\ ~revoked
    /\ revoked' = TRUE
    /\ UNCHANGED <<kind, spentBy, admitted, wire, command>>

---------------------------------------------------------------------------
(* The links.                                                              *)

\* An answer is matched by its round; a late one finds its broadcast settled.
Receive(a) ==
    /\ a \in answers
    /\ answers' = answers \ {a}
    /\ IF a.round = round[a.from] THEN Hear(a.from, a.to, a.code)
       ELSE UNCHANGED <<round, refusals, open, cli, code>>
    /\ UNCHANGED <<kind, invite, links, requests, cut>>

Connect(j, p) ==
    /\ <<j, p>> \notin links
    /\ links' = links \cup {<<j, p>>}
    /\ UNCHANGED <<kind, invite, requests, answers, command>>

Between(j, p, messages) == {m \in messages : m.from = j /\ m.to = p}

\* Mutant: a broadcast does not hear of a link that closes.
DisconnectUnheard(j, p, arrived) ==
    /\ <<j, p>> \in links
    /\ links' = links \ {<<j, p>>}
    /\ arrived \subseteq IF p = Creator THEN Between(j, p, requests) ELSE {}
    /\ requests' = (requests \ Between(j, p, requests)) \cup arrived
    /\ answers' = answers \ Between(j, p, answers)
    /\ UNCHANGED <<kind, invite, command>>

\* onclose: every resolver of the link hears AGENT_DISCONNECTED.  The creator
\* handles a request that has arrived all the same.
Disconnect(j, p, arrived) ==
    /\ <<j, p>> \in links
    /\ links' = links \ {<<j, p>>}
    /\ arrived \subseteq IF p = Creator THEN Between(j, p, requests) ELSE {}
    /\ requests' = (requests \ Between(j, p, requests)) \cup arrived
    /\ answers' = answers \ Between(j, p, answers)
    /\ IF p \in open[j] THEN Hear(j, p, "AGENT_DISCONNECTED")
       ELSE UNCHANGED <<round, refusals, open, cli, code>>
    /\ UNCHANGED <<kind, invite, cut>>

---------------------------------------------------------------------------

Init ==
    /\ kind \in [Others -> {"indexer", "member"}]
    /\ revoked = FALSE
    /\ spentBy = None
    /\ admitted = FALSE
    /\ links = {} /\ requests = {} /\ answers = {}
    /\ round = [j \in Joiners |-> None]
    /\ refusals = [j \in Joiners |-> NoRefusal]
    /\ open = [j \in Joiners |-> {}]
    /\ cli = [j \in Joiners |-> "trying"]
    /\ code = [j \in Joiners |-> "none"]
    /\ cut = {}

JoinerStep(j) ==
    \/ \E accepting \in SUBSET Agents : Broadcast(j, accepting)
    \/ TryAgain(j)
    \/ Deadline(j)
    \/ Timeout(j)
    \/ \E p \in Agents : Connect(j, p)
    \/ \E p \in Agents, arrived \in SUBSET requests : Disconnect(j, p, arrived)

Next ==
    \/ \E j \in Joiners : JoinerStep(j)
    \/ \E req \in requests : Refuse(req) \/ Redeem(req) \/ RedeemFails(req)
    \/ \E a \in answers : Receive(a)
    \/ RivalRedeems
    \/ Revoke

Spec == Init /\ [][Next]_vars

---------------------------------------------------------------------------
(* Fairness: timers fire, and what is on the wire of a link that stays up  *)
(* arrives.  An agent need not answer.                                     *)

Arrives(j, p, n) ==
    \E a \in answers : a.from = j /\ a.to = p /\ a.round = n /\ Receive(a)

Fairness ==
    \A j \in Joiners :
        /\ WF_vars(\E accepting \in SUBSET Agents : Broadcast(j, accepting))
        /\ WF_vars(TryAgain(j))
        /\ WF_vars(Timeout(j))
        /\ \A p \in Agents, n \in Rounds : WF_vars(Arrives(j, p, n))

FairSpec == Spec /\ Fairness

\* The creator redeems if asked again and again, and so does its channel take
\* requests.
CreatorAnswers(j) ==
    /\ \A n \in Rounds : SF_vars(Redeem([from |-> j, to |-> Creator, round |-> n]))
    /\ SF_vars(\E accepting \in SUBSET Agents :
                    Creator \in accepting /\ Broadcast(j, accepting))

---------------------------------------------------------------------------
(* Properties.                                                             *)

Codes == Transient \cup {"ok", "INVITE_NOT_INDEXER", "UNKNOWN_INVITE",
                         "INVITE_SPENT", "INVITE_REVOKED", "INTERNAL"}

TypeOK ==
    /\ kind \in [Others -> {"indexer", "member"}]
    /\ revoked \in BOOLEAN /\ admitted \in BOOLEAN
    /\ spentBy \in Joiners \cup {Rival, None}
    /\ links \subseteq Joiners \X Agents
    /\ requests \subseteq [from : Joiners, to : Agents, round : Rounds]
    /\ answers \subseteq [from : Joiners, to : Agents, round : Rounds, code : Codes]
    /\ round \in [Joiners -> Rounds \cup {None}]
    /\ refusals \in [Joiners -> [verdict : Codes \cup {"none"}, last : Codes \cup {"none"}]]
    /\ open \in [Joiners -> SUBSET Agents]
    /\ cli \in [Joiners -> {"trying", "pausing", "redeemed", "refused", "expired"}]
    /\ code \in [Joiners -> Codes \cup {"none"}]
    /\ cut \subseteq Joiners
    /\ \A j \in Joiners :
        /\ round[j] = None <=> open[j] = {}
        /\ \A p \in open[j] : <<j, p>> \in links

\* A join command that reports success was admitted by the creator, for its own
\* key, whoever else tried and however many of its requests were repeated.
SuccessIsAdmission ==
    \A j \in Joiners : cli[j] = "redeemed" => spentBy = j /\ admitted

\* A join command gives up before its deadline only for a true verdict: the
\* invite is spent or revoked, the creator failed over it, or an indexer that
\* did not mint it says so.  That an agent is no indexer ends it only if the
\* creator kept the broadcast waiting until its timeout.
GivenUpForAReason ==
    \A j \in Joiners : cli[j] = "refused" =>
        \/ code[j] = "INVITE_SPENT" /\ spentBy # None
        \/ code[j] = "INVITE_REVOKED" /\ revoked
        \/ code[j] = "INTERNAL"
        \/ code[j] = "UNKNOWN_INVITE" /\ \E p \in Others : kind[p] = "indexer"
        \/ code[j] = "INVITE_NOT_INDEXER" /\ j \in cut

Promise == INSTANCE InviteService WITH
    Nonces <- {"token"},
    Redeemers <- Joiners \cup {Rival},
    spentBy <- [n \in {"token"} |-> spentBy],
    told <- {<<"token", j>> : j \in {i \in Joiners : cli[i] = "redeemed"}}

\* The join commands and the agents together keep the promise of an invite.
ImplementsInvites == Promise!Spec

SuccessOnItsWay(j) ==
    \E a \in answers : a.from = j /\ a.round = round[j] /\ a.code = "ok"

\* A join gets in if it can: the creator ends up linked for good and answers, no
\* broadcast times out, the success is neither lost nor late, nobody else spends
\* or revokes the invite, and the command has time.  What other members answer,
\* and how often links drop before, does not matter.
JoinSucceeds ==
    \A j \in Joiners :
        /\ CreatorAnswers(j)
        /\ <>[](<<j, Creator>> \in links)
        /\ [](spentBy = j => cli[j] = "redeemed" \/ SuccessOnItsWay(j))
        /\ [](j \notin cut /\ spentBy # Rival /\ ~revoked)
        /\ [](cli[j] # "expired" /\ code[j] # "INTERNAL")
        /\ \A p \in Others : kind[p] = "member"
        => <>(cli[j] = "redeemed")
=============================================================================
