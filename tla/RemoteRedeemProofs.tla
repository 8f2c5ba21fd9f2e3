------------------------- MODULE RemoteRedeemProofs -------------------------
(***************************************************************************)
(* Proofs about RemoteRedeem, for any joiners, agents and rounds.          *)
(*                                                                         *)
(* A success, and a refusal, is a statement about the creator's state that *)
(* was true when it was sent and stays true.  The inductive invariant      *)
(* carries it from the creator over the wire and the refusals collected so *)
(* far to the command.                                                     *)
(***************************************************************************)
EXTENDS RemoteRedeem, TLAPS

\* What a refusal says of the invite and of the agents.
Backed(c) ==
    /\ c = "INVITE_SPENT" => spentBy # None
    /\ c = "INVITE_REVOKED" => revoked
    /\ c = "UNKNOWN_INVITE" => \E p \in Others : kind[p] = "indexer"

AnswersBacked ==
    \A a \in answers :
        /\ Backed(a.code)
        /\ a.code = "ok" => spentBy = a.from /\ admitted

RefusalsBacked(j) ==
    /\ Backed(refusals[j].verdict) /\ Backed(refusals[j].last)
    /\ refusals[j].verdict \notin NotMine \cup {"ok"}
    /\ refusals[j].last # "ok"

\* A broadcast is open only while the command waits for it; a command that has
\* succeeded was admitted; one that was refused was refused for a reason.
CommandBacked(j) ==
    /\ RefusalsBacked(j)
    /\ round[j] # None => cli[j] = "trying"
    /\ cli[j] = "redeemed" => spentBy = j /\ admitted
    /\ cli[j] = "refused" =>
            /\ code[j] \in Codes \ (Transient \cup {"ok"})
            /\ Backed(code[j])
            /\ code[j] = "INVITE_NOT_INDEXER" => j \in cut

IInv ==
    /\ TypeOK
    /\ AnswersBacked
    /\ \A j \in Joiners : CommandBacked(j)

\* The creator only moves forward.
Forward ==
    /\ kind' = kind
    /\ revoked => revoked'
    /\ spentBy # None => spentBy' = spentBy /\ (admitted => admitted')

---------------------------------------------------------------------------
(* The creator.                                                            *)

\* No step takes back what the creator has done, nor changes who an indexer is.
LEMMA StepsForward == [Next]_vars => Forward
<1> SUFFICES ASSUME [Next]_vars PROVE Forward
  OBVIOUS
<1>1. ASSUME NEW j \in Joiners, NEW accepting \in SUBSET Agents, Broadcast(j, accepting)
      PROVE  Forward
  BY <1>1 DEF Broadcast, Forward, invite
<1>2. ASSUME NEW j \in Joiners, TryAgain(j) \/ Deadline(j)
      PROVE  Forward
  <2>1. UNCHANGED <<kind, revoked, spentBy, admitted>>
    BY <1>2 DEF TryAgain, Deadline, invite
  <2> QED BY <2>1 DEF Forward
<1>9. ASSUME NEW j \in Joiners, Timeout(j)
      PROVE  Forward
  BY <1>9 DEF Timeout, Forward, invite
<1>10. ASSUME NEW j \in Joiners, NEW p \in Agents, Connect(j, p)
       PROVE  Forward
  BY <1>10 DEF Connect, Forward, invite
<1>3. ASSUME NEW j \in Joiners, NEW p \in Agents, NEW arrived \in SUBSET requests,
             Disconnect(j, p, arrived)
      PROVE  Forward
  BY <1>3 DEF Disconnect, Forward, invite
<1>4. ASSUME NEW req \in requests, Refuse(req) \/ Redeem(req) \/ RedeemFails(req)
      PROVE  Forward
  <2>1. CASE Refuse(req)
    BY <2>1 DEF Refuse, Reply, Forward, invite
  <2>2. CASE Redeem(req)
    BY <2>2 DEF Redeem, Reply, Forward, invite
  <2>3. CASE RedeemFails(req)
    BY <2>3 DEF RedeemFails, Reply, Forward
  <2> QED BY <1>4, <2>1, <2>2, <2>3
<1>5. ASSUME NEW a \in answers, Receive(a)
      PROVE  Forward
  BY <1>5 DEF Receive, Forward, invite
<1>6. CASE RivalRedeems
  BY <1>6 DEF RivalRedeems, Forward
<1>7. CASE Revoke
  BY <1>7 DEF Revoke, Forward
<1>8. CASE UNCHANGED vars
  BY <1>8 DEF Forward, vars, invite
<1> QED
  BY <1>1, <1>2, <1>3, <1>4, <1>5, <1>6, <1>7, <1>8, <1>9, <1>10 DEF Next, JoinerStep

\* What a refusal says stays true.
LEMMA BackedStable ==
  ASSUME NEW c, Forward, Backed(c)
  PROVE  Backed(c)'
BY DEF Forward, Backed

---------------------------------------------------------------------------
(* The command.                                                            *)

CommandTyped ==
    /\ round \in [Joiners -> Rounds \cup {None}]
    /\ refusals \in [Joiners -> [verdict : Codes \cup {"none"}, last : Codes \cup {"none"}]]
    /\ open \in [Joiners -> SUBSET Agents]
    /\ cli \in [Joiners -> {"trying", "pausing", "redeemed", "refused", "expired"}]
    /\ code \in [Joiners -> Codes \cup {"none"}]

OpenIsRound == \A j \in Joiners : round[j] = None <=> open[j] = {}

\* A verdict settles the broadcast of its joiner and leaves the others alone.
LEMMA ToldSettles ==
  ASSUME NEW j \in Joiners, NEW v \in Codes, TypeOK, Told(j, v)
  PROVE  /\ CommandTyped' /\ OpenIsRound'
         /\ round'[j] = None /\ refusals'[j] = NoRefusal /\ open'[j] = {}
         /\ cli'[j] = IF v = "ok" THEN "redeemed"
                      ELSE IF v \in Transient THEN "pausing" ELSE "refused"
         /\ v \notin Transient => code'[j] = v
         /\ \A i \in Joiners \ {j} :
                /\ round'[i] = round[i] /\ refusals'[i] = refusals[i]
                /\ open'[i] = open[i] /\ cli'[i] = cli[i] /\ code'[i] = code[i]
BY DEF Told, TypeOK, CommandTyped, OpenIsRound, NoRefusal, Codes, Transient

\* One more refusal is a pair of codes again, and the verdict on them is a code.
LEMMA RefusedTyped ==
  ASSUME NEW rs \in [verdict : Codes \cup {"none"}, last : Codes \cup {"none"}],
         NEW c \in Codes
  PROVE  /\ Refused(rs, c) \in [verdict : Codes \cup {"none"}, last : Codes \cup {"none"}]
         /\ AllRefused(rs) \in Codes /\ TimedOut(rs) \in Codes
BY DEF Refused, AllRefused, TimedOut, Codes, Transient

\* An answer settles the broadcast, or is one more refusal.
LEMMA HearSettles ==
  ASSUME NEW j \in Joiners, NEW p \in Agents, NEW c \in Codes, TypeOK,
         round[j] # None, Hear(j, p, c)
  PROVE  /\ CommandTyped' /\ OpenIsRound'
         /\ open'[j] \subseteq open[j] \ {p}
         /\ \A i \in Joiners \ {j} :
                /\ round'[i] = round[i] /\ refusals'[i] = refusals[i]
                /\ open'[i] = open[i] /\ cli'[i] = cli[i] /\ code'[i] = code[i]
<1> DEFINE rs == Refused(refusals[j], c)
<1> DEFINE v == IF c = "ok" THEN c ELSE AllRefused(rs)
<1>1. /\ refusals[j] \in [verdict : Codes \cup {"none"}, last : Codes \cup {"none"}]
      /\ rs \in [verdict : Codes \cup {"none"}, last : Codes \cup {"none"}]
  BY RefusedTyped DEF TypeOK
<1>2. v \in Codes
  BY <1>1, RefusedTyped
<1>3. CASE c = "ok" \/ open[j] = {p}
  <2>1. Told(j, v)
    BY <1>3 DEF Hear
  <2> QED BY <2>1, <1>2, ToldSettles
<1>4. CASE ~(c = "ok" \/ open[j] = {p})
  <2>1. /\ refusals' = [refusals EXCEPT ![j] = rs]
        /\ open' = [open EXCEPT ![j] = @ \ {p}]
        /\ UNCHANGED <<round, cli, code>>
    BY <1>4 DEF Hear
  <2>2. open[j] # {} /\ open[j] \ {p} # {}
    BY <1>4 DEF TypeOK
  <2> HIDE DEF rs
  <2> QED BY <2>1, <2>2, <1>1 DEF TypeOK, CommandTyped, OpenIsRound
<1> QED BY <1>3, <1>4

---------------------------------------------------------------------------
(* Types.                                                                  *)

LEMMA CommandKept ==
  ASSUME TypeOK, UNCHANGED <<round, refusals, open, cli, code>>
  PROVE  CommandTyped' /\ OpenIsRound'
BY DEF TypeOK, CommandTyped, OpenIsRound

\* The parts of TypeOK again.
LEMMA TypeParts ==
  TypeOK' <=>
    /\ (/\ kind \in [Others -> {"indexer", "member"}]
        /\ revoked \in BOOLEAN /\ admitted \in BOOLEAN
        /\ spentBy \in Joiners \cup {Rival, None})'
    /\ (/\ links \subseteq Joiners \X Agents
        /\ requests \subseteq [from : Joiners, to : Agents, round : Rounds]
        /\ answers \subseteq [from : Joiners, to : Agents, round : Rounds, code : Codes])'
    /\ CommandTyped' /\ (cut \subseteq Joiners)'
    /\ OpenIsRound'
    /\ \A j \in Joiners : \A p \in open'[j] : <<j, p>> \in links'
BY DEF TypeOK, CommandTyped, OpenIsRound

InviteTyped ==
    /\ kind \in [Others -> {"indexer", "member"}]
    /\ revoked \in BOOLEAN /\ admitted \in BOOLEAN
    /\ spentBy \in Joiners \cup {Rival, None}

WireTyped ==
    /\ links \subseteq Joiners \X Agents
    /\ requests \subseteq [from : Joiners, to : Agents, round : Rounds]
    /\ answers \subseteq [from : Joiners, to : Agents, round : Rounds, code : Codes]

OpenIsLinked == \A j \in Joiners : \A p \in open[j] : <<j, p>> \in links

\* Every step keeps the types, and the links a broadcast waits for.
LEMMA TypeStep ==
  ASSUME TypeOK, [Next]_vars
  PROVE  TypeOK'
<1> USE RemoteRedeemAssumption
<1>1. ASSUME NEW j \in Joiners, NEW accepting \in SUBSET Agents, Broadcast(j, accepting)
      PROVE  TypeOK'
  <2> DEFINE linked == {p \in Agents : <<j, p>> \in links}
  <2>1. InviteTyped' /\ (cut \subseteq Joiners)'
    BY <1>1 DEF Broadcast, InviteTyped, TypeOK, invite
  <2>2. CASE accepting = {}
    <3> DEFINE v == IF linked = {} THEN "NO_AGENTS" ELSE "NO_INDEXER_REACHABLE"
    <3>1. Told(j, v) /\ UNCHANGED <<links, requests, answers>>
      BY <1>1, <2>2 DEF Broadcast
    <3>2. v \in Codes
      BY DEF Codes, Transient
    <3>3. CommandTyped' /\ OpenIsRound' /\ OpenIsLinked'
      BY <3>1, <3>2, ToldSettles DEF TypeOK, OpenIsLinked
    <3>4. WireTyped'
      BY <3>1 DEF WireTyped, TypeOK
    <3> QED
      BY <2>1, <3>3, <3>4, TypeParts DEF InviteTyped, WireTyped, OpenIsLinked
  <2>3. CASE accepting # {}
    <3>1. PICK n \in Rounds :
             /\ round' = [round EXCEPT ![j] = n]
             /\ requests' = requests \cup
                    {[from |-> j, to |-> p, round |-> n] : p \in accepting}
      BY <1>1, <2>3 DEF Broadcast
    <3>2. /\ open' = [open EXCEPT ![j] = accepting]
          /\ accepting \subseteq linked
          /\ UNCHANGED <<refusals, cli, code, links, answers>>
      BY <1>1, <2>3 DEF Broadcast
    <3>3. CommandTyped' /\ OpenIsRound'
      BY <3>1, <3>2, <2>3 DEF TypeOK, CommandTyped, OpenIsRound
    <3>4. WireTyped' /\ OpenIsLinked'
      BY <3>1, <3>2 DEF TypeOK, WireTyped, OpenIsLinked
    <3> QED
      BY <2>1, <3>3, <3>4, TypeParts DEF InviteTyped, WireTyped, OpenIsLinked
  <2> QED BY <2>2, <2>3
<1>2. ASSUME NEW j \in Joiners, TryAgain(j) \/ Deadline(j)
      PROVE  TypeOK'
  <2>1. UNCHANGED <<kind, revoked, spentBy, admitted, links, requests, answers, cut,
                    round, refusals, open, code>>
    BY <1>2 DEF TryAgain, Deadline, invite, wire
  <2>2. cli' \in [Joiners -> {"trying", "pausing", "redeemed", "refused", "expired"}]
    BY <1>2 DEF TryAgain, Deadline, TypeOK
  <2> QED BY <2>1, <2>2 DEF TypeOK
<1>3. ASSUME NEW j \in Joiners, Timeout(j)
      PROVE  TypeOK'
  <2>1. /\ Told(j, TimedOut(refusals[j])) /\ cut' = cut \cup {j}
        /\ UNCHANGED <<kind, revoked, spentBy, admitted, links, requests, answers>>
    BY <1>3 DEF Timeout, invite, wire
  <2>2. TimedOut(refusals[j]) \in Codes
    BY RefusedTyped DEF TypeOK, Codes, Transient
  <2>3. CommandTyped' /\ OpenIsRound' /\ OpenIsLinked'
    BY <2>1, <2>2, ToldSettles DEF TypeOK, OpenIsLinked
  <2>4. InviteTyped' /\ WireTyped' /\ (cut \subseteq Joiners)'
    BY <2>1 DEF TypeOK, InviteTyped, WireTyped
  <2> QED BY <2>3, <2>4, TypeParts DEF InviteTyped, WireTyped, OpenIsLinked
<1>4. ASSUME NEW j \in Joiners, NEW p \in Agents, Connect(j, p)
      PROVE  TypeOK'
  BY <1>4 DEF Connect, TypeOK, invite, command
<1>5. ASSUME NEW j \in Joiners, NEW p \in Agents, NEW arrived \in SUBSET requests,
             Disconnect(j, p, arrived)
      PROVE  TypeOK'
  <2>1. InviteTyped' /\ (cut \subseteq Joiners)'
    BY <1>5 DEF Disconnect, InviteTyped, TypeOK, invite
  <2>2. WireTyped'
    BY <1>5 DEF Disconnect, WireTyped, Between, TypeOK
  <2>3. links' = links \ {<<j, p>>}
    BY <1>5 DEF Disconnect
  <2>4. CASE p \in open[j]
    <3>1. Hear(j, p, "AGENT_DISCONNECTED") /\ round[j] # None
      BY <1>5, <2>4 DEF Disconnect, TypeOK
    <3>2. "AGENT_DISCONNECTED" \in Codes
      BY DEF Codes, Transient
    <3>3. CommandTyped' /\ OpenIsRound' /\ OpenIsLinked'
      BY <3>1, <3>2, <2>3, HearSettles DEF TypeOK, OpenIsLinked
    <3> QED BY <2>1, <2>2, <3>3, TypeParts DEF InviteTyped, WireTyped, OpenIsLinked
  <2>5. CASE p \notin open[j]
    <3>1. UNCHANGED <<round, refusals, open, cli, code>>
      BY <1>5, <2>5 DEF Disconnect
    <3>2. CommandTyped' /\ OpenIsRound' /\ OpenIsLinked'
      BY <3>1, <2>3, <2>5, CommandKept DEF TypeOK, OpenIsLinked
    <3> QED BY <2>1, <2>2, <3>2, TypeParts DEF InviteTyped, WireTyped, OpenIsLinked
  <2> QED BY <2>4, <2>5
<1>6. ASSUME NEW req \in requests, Refuse(req) \/ Redeem(req) \/ RedeemFails(req)
      PROVE  TypeOK'
  <2> DEFINE replied == {"INVITE_NOT_INDEXER", "UNKNOWN_INVITE", "INVITE_SPENT",
                         "INVITE_REVOKED", "INTERNAL", "ok"}
  <2>1. PICK c \in replied : Reply(req, c)
    BY <1>6 DEF Refuse, Redeem, RedeemFails
  <2>2. InviteTyped'
    <3>1. kind' = kind
      BY <2>1 DEF Reply
    <3>2. CASE Refuse(req)
      BY <3>1, <3>2 DEF Refuse, InviteTyped, TypeOK, invite
    <3>3. CASE Redeem(req)
      BY <3>1, <3>3 DEF Redeem, InviteTyped, TypeOK, invite
    <3>4. CASE RedeemFails(req)
      BY <3>1, <3>4 DEF RedeemFails, InviteTyped, TypeOK
    <3> QED BY <1>6, <3>2, <3>3, <3>4
  <2>3. WireTyped'
    BY <2>1 DEF Reply, Answer, WireTyped, TypeOK, Codes, Transient
  <2>4. UNCHANGED <<links, round, refusals, open, cli, code, cut>>
    BY <2>1 DEF Reply, command
  <2>5. CommandTyped' /\ OpenIsRound' /\ OpenIsLinked' /\ (cut \subseteq Joiners)'
    BY <2>4, CommandKept DEF TypeOK, OpenIsLinked
  <2> QED BY <2>2, <2>3, <2>5, TypeParts DEF InviteTyped, WireTyped, OpenIsLinked
<1>7. ASSUME NEW a \in answers, Receive(a)
      PROVE  TypeOK'
  <2>1. InviteTyped' /\ WireTyped' /\ (cut \subseteq Joiners)' /\ links' = links
    BY <1>7 DEF Receive, InviteTyped, WireTyped, TypeOK, invite
  <2>2. a.from \in Joiners /\ a.to \in Agents /\ a.round \in Rounds /\ a.code \in Codes
    BY DEF TypeOK
  <2>3. CASE a.round = round[a.from]
    <3>1. PICK j \in Joiners, p \in Agents, c \in Codes :
             Hear(j, p, c) /\ round[j] # None
      BY <1>7, <2>2, <2>3 DEF Receive
    <3>2. CommandTyped' /\ OpenIsRound' /\ OpenIsLinked'
      BY <3>1, <2>1, HearSettles DEF TypeOK, OpenIsLinked
    <3> QED BY <2>1, <3>2, TypeParts DEF InviteTyped, WireTyped, OpenIsLinked
  <2>4. CASE a.round # round[a.from]
    <3>1. UNCHANGED <<round, refusals, open, cli, code>>
      BY <1>7, <2>4 DEF Receive
    <3>2. CommandTyped' /\ OpenIsRound' /\ OpenIsLinked'
      BY <3>1, <2>1, CommandKept DEF TypeOK, OpenIsLinked
    <3> QED BY <2>1, <3>2, TypeParts DEF InviteTyped, WireTyped, OpenIsLinked
  <2> QED BY <2>3, <2>4
<1>8. CASE RivalRedeems
  BY <1>8 DEF RivalRedeems, TypeOK, wire, command
<1>9. CASE Revoke
  BY <1>9 DEF Revoke, TypeOK, wire, command
<1>10. CASE UNCHANGED vars
  BY <1>10 DEF TypeOK, vars, invite, wire, command
<1> QED
  BY <1>1, <1>2, <1>3, <1>4, <1>5, <1>6, <1>7, <1>8, <1>9, <1>10 DEF Next, JoinerStep

---------------------------------------------------------------------------
(* What a command was told is true.                                        *)

\* A command that nothing happens to stays backed.
LEMMA UntouchedStaysBacked ==
  ASSUME TypeOK, Forward, NEW j \in Joiners, CommandBacked(j),
         round'[j] = round[j], refusals'[j] = refusals[j],
         cli'[j] = cli[j] \/ (round[j] = None /\ cli'[j] \in {"trying", "expired"}),
         code'[j] = code[j], cli[j] = "refused" /\ j \in cut => j \in cut'
  PROVE  CommandBacked(j)'
<1> USE RemoteRedeemAssumption
<1>1. RefusalsBacked(j)'
  BY BackedStable DEF CommandBacked, RefusalsBacked
<1>2. Backed(code[j]) => Backed(code[j])'
  BY BackedStable
<1>3. spentBy = j /\ admitted => spentBy' = j /\ admitted'
  BY DEF Forward
<1> QED BY <1>1, <1>2, <1>3 DEF CommandBacked

\* A verdict that is true leaves the command backed.
LEMMA ToldIsBacked ==
  ASSUME TypeOK, NEW j \in Joiners, NEW v \in Codes, Told(j, v), Backed(v)',
         v = "ok" => spentBy' = j /\ admitted',
         v = "INVITE_NOT_INDEXER" => j \in cut'
  PROVE  CommandBacked(j)'
<1>1. /\ round'[j] = None /\ refusals'[j] = NoRefusal
      /\ cli'[j] = IF v = "ok" THEN "redeemed"
                   ELSE IF v \in Transient THEN "pausing" ELSE "refused"
      /\ v \notin Transient => code'[j] = v
  BY ToldSettles
<1>2. RefusalsBacked(j)'
  BY <1>1 DEF RefusalsBacked, NoRefusal, Backed, NotMine
<1> QED BY <1>1, <1>2 DEF CommandBacked

\* The verdict on refusals that are true is true, and not a success.
LEMMA VerdictIsBacked ==
  ASSUME NEW j \in Joiners, NEW c \in Codes, TypeOK, RefusalsBacked(j), Backed(c),
         c # "ok"
  PROVE  LET rs == Refused(refusals[j], c)
         IN  /\ Backed(rs.verdict) /\ Backed(rs.last)
             /\ rs.verdict \notin NotMine \cup {"ok"} /\ rs.last # "ok"
             /\ Backed(AllRefused(rs)) /\ AllRefused(rs) \notin NotMine \cup {"ok"}
             /\ Backed(TimedOut(refusals[j])) /\ TimedOut(refusals[j]) # "ok"
<1>1. Backed("NO_INDEXER_REACHABLE")
  BY DEF Backed
<1> QED BY <1>1 DEF Refused, AllRefused, TimedOut, RefusalsBacked, NotMine

\* An answer that is true leaves the command backed.
LEMMA HearIsBacked ==
  ASSUME TypeOK, Forward, NEW j \in Joiners, NEW p \in Agents, NEW c \in Codes,
         CommandBacked(j), Backed(c), round[j] # None, Hear(j, p, c),
         c = "ok" => spentBy = j /\ admitted
  PROVE  CommandBacked(j)'
<1> USE RemoteRedeemAssumption
<1> DEFINE rs == Refused(refusals[j], c)
<1>1. CASE c = "ok"
  <2>1. Told(j, c)
    BY <1>1 DEF Hear
  <2>2. Backed(c)'
    BY BackedStable
  <2>3. spentBy' = j /\ admitted'
    BY <1>1 DEF Forward
  <2> QED BY <1>1, <2>1, <2>2, <2>3, ToldIsBacked
<1>2. CASE c # "ok"
  <2>1. PICK r \in [verdict : Codes \cup {"none"}, last : Codes \cup {"none"}],
             v \in Codes : r = rs /\ v = AllRefused(rs)
    BY RefusedTyped DEF TypeOK
  <2>2. /\ Backed(r.verdict) /\ Backed(r.last)
        /\ r.verdict \notin NotMine \cup {"ok"} /\ r.last # "ok"
        /\ Backed(v) /\ v \notin NotMine \cup {"ok"}
    BY <1>2, <2>1, VerdictIsBacked DEF CommandBacked
  <2>3. CASE open[j] = {p}
    <3>1. Told(j, v)
      BY <1>2, <2>1, <2>3 DEF Hear
    <3>2. Backed(v)'
      BY <2>2, BackedStable
    <3> QED BY <2>2, <3>1, <3>2, ToldIsBacked DEF NotMine
  <2>4. CASE open[j] # {p}
    <3>1. refusals' = [refusals EXCEPT ![j] = r] /\ UNCHANGED <<round, cli, code>>
      BY <1>2, <2>1, <2>4 DEF Hear
    <3>2. refusals'[j] = r
      BY <3>1 DEF TypeOK
    <3>3. Backed(r.verdict)' /\ Backed(r.last)'
      BY <2>2, BackedStable
    <3>4. cli[j] = "trying"
      BY DEF CommandBacked
    <3>5. RefusalsBacked(j)'
      BY <2>2, <3>2, <3>3 DEF RefusalsBacked
    <3> QED BY <3>1, <3>4, <3>5 DEF CommandBacked
  <2> QED BY <2>3, <2>4
<1> QED BY <1>1, <1>2

---------------------------------------------------------------------------
(* The wire.                                                               *)

\* What the creator, or a member, sends is true when it is sent.
LEMMA RepliesAreTrue ==
  ASSUME TypeOK, AnswersBacked, [Next]_vars
  PROVE  AnswersBacked'
<1> USE RemoteRedeemAssumption
<1>1. Forward
  BY StepsForward
<1>2. ASSUME NEW a \in answers
      PROVE  Backed(a.code)' /\ (a.code = "ok" => spentBy' = a.from /\ admitted')
  <2>1. a.from # None
    BY DEF TypeOK
  <2> QED BY <1>1, <2>1, BackedStable DEF AnswersBacked, Forward
<1>3. ASSUME answers' \subseteq answers
      PROVE  AnswersBacked'
  BY <1>2, <1>3 DEF AnswersBacked
<1>4. ASSUME NEW req \in requests, NEW c, Reply(req, c), Backed(c)',
             c = "ok" => spentBy' = req.from /\ admitted'
      PROVE  AnswersBacked'
  <2>1. \A a \in answers' : a \in answers \/ a = Answer(req, c)
    BY <1>4 DEF Reply
  <2>2. Answer(req, c).code = c /\ Answer(req, c).from = req.from
    BY DEF Answer
  <2> QED BY <1>2, <1>4, <2>1, <2>2 DEF AnswersBacked
<1>5. ASSUME NEW req \in requests, Refuse(req)
      PROVE  AnswersBacked'
  <2>1. req.to \in Others
    BY <1>5 DEF Refuse, TypeOK, Agents
  <2>2. CASE kind[req.to] = "indexer"
    <3>1. Reply(req, "UNKNOWN_INVITE") /\ Backed("UNKNOWN_INVITE")'
      BY <1>1, <1>5, <2>1, <2>2 DEF Refuse, Backed, Forward
    <3> QED BY <1>4, <3>1
  <2>3. CASE kind[req.to] # "indexer"
    <3>1. Reply(req, "INVITE_NOT_INDEXER") /\ Backed("INVITE_NOT_INDEXER")'
      BY <1>5, <2>3 DEF Refuse, Backed
    <3> QED BY <1>4, <3>1
  <2> QED BY <2>2, <2>3
<1>6. ASSUME NEW req \in requests, Redeem(req)
      PROVE  AnswersBacked'
  <2>1. CASE revoked
    <3>1. Reply(req, "INVITE_REVOKED") /\ Backed("INVITE_REVOKED")'
      BY <1>1, <1>6, <2>1 DEF Redeem, Backed, Forward
    <3> QED BY <1>4, <3>1
  <2>2. CASE ~revoked /\ spentBy # None
    <3>1. Reply(req, "INVITE_SPENT") /\ Backed("INVITE_SPENT")'
      BY <1>1, <1>6, <2>2 DEF Redeem, Backed, Forward
    <3> QED BY <1>4, <3>1
  <2>3. CASE ~revoked /\ spentBy = None
    <3>1. Reply(req, "ok") /\ Backed("ok")' /\ spentBy' = req.from /\ admitted'
      BY <1>6, <2>3 DEF Redeem, Backed
    <3> QED BY <1>4, <3>1
  <2> QED BY <2>1, <2>2, <2>3
<1>7. ASSUME NEW req \in requests, RedeemFails(req)
      PROVE  AnswersBacked'
  <2>1. Reply(req, "INTERNAL") /\ Backed("INTERNAL")'
    BY <1>7 DEF RedeemFails, Backed
  <2> QED BY <1>4, <2>1
<1>8. ASSUME NEW j \in Joiners, JoinerStep(j)
      PROVE  AnswersBacked'
  <2>1. answers' \subseteq answers
    BY <1>8 DEF JoinerStep, Broadcast, TryAgain, Deadline, Timeout, Connect, Disconnect,
                wire
  <2> QED BY <1>3, <2>1
<1>9. ASSUME NEW a \in answers, Receive(a)
      PROVE  AnswersBacked'
  BY <1>3, <1>9 DEF Receive
<1>10. CASE RivalRedeems \/ Revoke \/ UNCHANGED vars
  BY <1>3, <1>10 DEF RivalRedeems, Revoke, wire, vars
<1> QED BY <1>5, <1>6, <1>7, <1>8, <1>9, <1>10 DEF Next

---------------------------------------------------------------------------
(* The inductive invariant.                                                *)

LEMMA Initially == Init => IInv
<1> SUFFICES ASSUME Init PROVE IInv
  OBVIOUS
<1>1. TypeOK
  BY DEF Init, TypeOK, NoRefusal
<1>2. AnswersBacked
  BY DEF Init, AnswersBacked
<1>3. \A j \in Joiners : CommandBacked(j)
  BY DEF Init, CommandBacked, RefusalsBacked, NoRefusal, Backed, NotMine
<1> QED BY <1>1, <1>2, <1>3 DEF IInv

\* Whatever one joiner does, the others stay backed, and so does the joiner.
LEMMA InvariantStep ==
  ASSUME IInv, [Next]_vars
  PROVE  IInv'
<1> USE RemoteRedeemAssumption
<1>1. TypeOK /\ TypeOK' /\ AnswersBacked /\ AnswersBacked' /\ Forward
  BY TypeStep, RepliesAreTrue, StepsForward DEF IInv
<1>2. \A i \in Joiners : CommandBacked(i)
  BY DEF IInv
<1>3. ASSUME NEW i \in Joiners,
             round'[i] = round[i], refusals'[i] = refusals[i], cli'[i] = cli[i],
             code'[i] = code[i], cli[i] = "refused" /\ i \in cut => i \in cut'
      PROVE  CommandBacked(i)'
  BY <1>1, <1>2, <1>3, UntouchedStaysBacked
<1>4. ASSUME NEW j \in Joiners, NEW v \in Codes, Told(j, v), Backed(v)', v # "ok",
             v = "INVITE_NOT_INDEXER" => j \in cut',
             \A i \in Joiners \ {j} : i \in cut => i \in cut'
      PROVE  \A i \in Joiners : CommandBacked(i)'
  <2>1. CommandBacked(j)'
    BY <1>1, <1>4, ToldIsBacked
  <2>2. ASSUME NEW i \in Joiners \ {j}
        PROVE  CommandBacked(i)'
    BY <1>1, <1>3, <1>4, ToldSettles
  <2> QED BY <2>1, <2>2
<1>5. ASSUME NEW j \in Joiners, NEW p \in Agents, NEW c \in Codes, Hear(j, p, c),
             Backed(c), round[j] # None, c = "ok" => spentBy = j /\ admitted, cut' = cut
      PROVE  \A i \in Joiners : CommandBacked(i)'
  <2>1. CommandBacked(j)'
    BY <1>1, <1>2, <1>5, HearIsBacked
  <2>2. ASSUME NEW i \in Joiners \ {j}
        PROVE  CommandBacked(i)'
    BY <1>1, <1>3, <1>5, HearSettles
  <2> QED BY <2>1, <2>2
<1>6. ASSUME UNCHANGED <<round, refusals, cli, code, cut>>
      PROVE  \A i \in Joiners : CommandBacked(i)'
  BY <1>3, <1>6
<1>7. ASSUME NEW j \in Joiners, NEW accepting \in SUBSET Agents, Broadcast(j, accepting)
      PROVE  \A i \in Joiners : CommandBacked(i)'
  <2>1. cut' = cut \ {j} /\ cli[j] = "trying" /\ round[j] = None
    BY <1>7 DEF Broadcast
  <2>2. CASE accepting = {}
    <3>1. PICK v \in {"NO_AGENTS", "NO_INDEXER_REACHABLE"} : Told(j, v)
      BY <1>7, <2>2 DEF Broadcast
    <3>2. v \in Codes /\ Backed(v)' /\ v # "ok" /\ v # "INVITE_NOT_INDEXER"
      BY DEF Codes, Transient, Backed
    <3> QED BY <1>4, <2>1, <3>1, <3>2
  <2>3. CASE accepting # {}
    <3>1. PICK n \in Rounds : round' = [round EXCEPT ![j] = n]
      BY <1>7, <2>3 DEF Broadcast
    <3>2. UNCHANGED <<refusals, cli, code>>
      BY <1>7, <2>3 DEF Broadcast
    <3>3. ASSUME NEW i \in Joiners \ {j}
          PROVE  CommandBacked(i)'
      BY <1>1, <1>3, <2>1, <3>1, <3>2 DEF TypeOK
    <3>4. RefusalsBacked(j)'
      <4>1. /\ Backed(refusals[j].verdict)' /\ Backed(refusals[j].last)'
        BY <1>1, <1>2, <3>2, BackedStable DEF CommandBacked, RefusalsBacked
      <4> QED BY <1>2, <3>2, <4>1 DEF CommandBacked, RefusalsBacked
    <3>5. CommandBacked(j)'
      BY <2>1, <3>2, <3>4 DEF CommandBacked
    <3> QED BY <3>3, <3>5
  <2> QED BY <2>2, <2>3
<1>8. ASSUME NEW j \in Joiners, TryAgain(j) \/ Deadline(j)
      PROVE  \A i \in Joiners : CommandBacked(i)'
  <2>1. UNCHANGED <<round, refusals, code, cut>> /\ cli[j] = "pausing"
    BY <1>8 DEF TryAgain, Deadline
  <2>2. PICK s \in {"trying", "expired"} : cli' = [cli EXCEPT ![j] = s]
    BY <1>8 DEF TryAgain, Deadline
  <2>3. ASSUME NEW i \in Joiners \ {j}
        PROVE  CommandBacked(i)'
    BY <1>1, <1>3, <2>1, <2>2 DEF TypeOK
  <2>4. round[j] = None
    BY <1>2, <2>1 DEF CommandBacked
  <2>5. CommandBacked(j)'
    BY <1>1, <1>2, <2>1, <2>2, <2>4, UntouchedStaysBacked DEF TypeOK
  <2> QED BY <2>3, <2>5
<1>9. ASSUME NEW j \in Joiners, Timeout(j)
      PROVE  \A i \in Joiners : CommandBacked(i)'
  <2>1. PICK v \in Codes : v = TimedOut(refusals[j])
    BY <1>1, RefusedTyped DEF TypeOK, Codes, Transient
  <2>2. Backed(v) /\ v # "ok"
    BY <1>2, <2>1 DEF CommandBacked, RefusalsBacked, TimedOut, Backed
  <2>3. Told(j, v) /\ cut' = cut \cup {j}
    BY <1>9, <2>1 DEF Timeout
  <2>4. Backed(v)'
    BY <1>1, <2>2, BackedStable
  <2> QED BY <1>4, <2>2, <2>3, <2>4
<1>10. ASSUME NEW j \in Joiners, NEW p \in Agents, Connect(j, p)
       PROVE  \A i \in Joiners : CommandBacked(i)'
  BY <1>6, <1>10 DEF Connect, command
<1>11. ASSUME NEW j \in Joiners, NEW p \in Agents, NEW arrived \in SUBSET requests,
              Disconnect(j, p, arrived)
       PROVE  \A i \in Joiners : CommandBacked(i)'
  <2>1. cut' = cut
    BY <1>11 DEF Disconnect
  <2>2. CASE p \in open[j]
    <3>1. Hear(j, p, "AGENT_DISCONNECTED") /\ round[j] # None
      BY <1>1, <1>11, <2>2 DEF Disconnect, TypeOK
    <3>2. "AGENT_DISCONNECTED" \in Codes /\ Backed("AGENT_DISCONNECTED")
      BY DEF Codes, Transient, Backed
    <3> QED BY <1>5, <2>1, <3>1, <3>2
  <2>3. CASE p \notin open[j]
    BY <1>6, <1>11, <2>1, <2>3 DEF Disconnect
  <2> QED BY <2>2, <2>3
<1>12. ASSUME NEW req \in requests, Refuse(req) \/ Redeem(req) \/ RedeemFails(req)
       PROVE  \A i \in Joiners : CommandBacked(i)'
  <2>1. \E c \in {"INVITE_NOT_INDEXER", "UNKNOWN_INVITE", "INVITE_SPENT",
                   "INVITE_REVOKED", "INTERNAL", "ok"} : Reply(req, c)
    BY <1>12 DEF Refuse, Redeem, RedeemFails
  <2> QED BY <1>6, <2>1 DEF Reply, command
<1>13. ASSUME NEW a \in answers, Receive(a)
       PROVE  \A i \in Joiners : CommandBacked(i)'
  <2>1. a.from \in Joiners /\ a.to \in Agents /\ a.round \in Rounds /\ a.code \in Codes
    BY <1>1 DEF TypeOK
  <2>2. Backed(a.code) /\ (a.code = "ok" => spentBy = a.from /\ admitted)
    BY <1>1 DEF AnswersBacked
  <2>3. cut' = cut
    BY <1>13 DEF Receive
  <2>4. CASE a.round = round[a.from]
    <3>1. PICK j \in Joiners, p \in Agents, c \in Codes :
             j = a.from /\ p = a.to /\ c = a.code
      BY <2>1
    <3>2. Hear(j, p, c) /\ round[j] # None
      BY <1>13, <2>1, <2>4, <3>1 DEF Receive
    <3> QED BY <1>5, <2>2, <2>3, <3>1, <3>2
  <2>5. CASE a.round # round[a.from]
    BY <1>6, <1>13, <2>3, <2>5 DEF Receive
  <2> QED BY <2>4, <2>5
<1>14. ASSUME RivalRedeems \/ Revoke \/ UNCHANGED vars
       PROVE  \A i \in Joiners : CommandBacked(i)'
  <2>1. UNCHANGED command
    BY <1>14 DEF RivalRedeems, Revoke, vars
  <2> QED BY <1>6, <2>1 DEF command
<1>15. ASSUME NEW j \in Joiners, JoinerStep(j)
       PROVE  \A i \in Joiners : CommandBacked(i)'
  <2>1. CASE \E accepting \in SUBSET Agents : Broadcast(j, accepting)
    BY <1>7, <2>1
  <2>2. CASE \E p \in Agents : Connect(j, p)
    BY <1>10, <2>2
  <2>3. CASE \E p \in Agents, arrived \in SUBSET requests : Disconnect(j, p, arrived)
    BY <1>11, <2>3
  <2> QED BY <1>8, <1>9, <1>15, <2>1, <2>2, <2>3 DEF JoinerStep
<1>16. \A i \in Joiners : CommandBacked(i)'
  BY <1>12, <1>13, <1>14, <1>15 DEF Next
<1> QED BY <1>1, <1>16 DEF IInv

---------------------------------------------------------------------------
(* What holds of every behaviour.                                          *)

LEMMA AlwaysBacked == Spec => []IInv
<1>1. IInv /\ [Next]_vars => IInv'
  BY InvariantStep
<1> QED BY Initially, <1>1, PTL DEF Spec

\* The variables of the joiners and of the creator have their types, and a
\* joiner waits only for agents it is linked to.
THEOREM TypeCorrect == Spec => []TypeOK
<1>1. IInv => TypeOK
  BY DEF IInv
<1> QED BY AlwaysBacked, <1>1, PTL

\* However many joiners and rivals hold the token, and whatever is lost or late,
\* a join command reports success only when the creator has spent the invite for
\* its key and has admitted it.
THEOREM SuccessCorrect == Spec => []SuccessIsAdmission
<1>1. IInv => SuccessIsAdmission
  BY DEF IInv, CommandBacked, SuccessIsAdmission
<1> QED BY AlwaysBacked, <1>1, PTL

\* A join command gives up before its deadline only for a refusal that is true.
THEOREM GivenUpCorrect == Spec => []GivenUpForAReason
<1>1. IInv => GivenUpForAReason
  <2> SUFFICES ASSUME IInv, NEW j \in Joiners, cli[j] = "refused"
               PROVE  \/ code[j] = "INVITE_SPENT" /\ spentBy # None
                      \/ code[j] = "INVITE_REVOKED" /\ revoked
                      \/ code[j] = "INTERNAL"
                      \/ code[j] = "UNKNOWN_INVITE" /\ \E p \in Others : kind[p] = "indexer"
                      \/ code[j] = "INVITE_NOT_INDEXER" /\ j \in cut
    BY DEF GivenUpForAReason
  <2>1. /\ code[j] \in Codes \ (Transient \cup {"ok"})
        /\ Backed(code[j])
        /\ code[j] = "INVITE_NOT_INDEXER" => j \in cut
    BY DEF IInv, CommandBacked
  <2> QED BY <2>1 DEF Codes, Backed
<1> QED BY AlwaysBacked, <1>1, PTL

---------------------------------------------------------------------------
(* The promise of an invite.                                               *)

\* An invite is spent once, and never in a step that a command takes part in.
LEMMA SpentOnce ==
  ASSUME IInv, [Next]_vars
  PROVE  \/ UNCHANGED spentBy
         \/ /\ spentBy = None /\ spentBy' \in Joiners \cup {Rival}
            /\ UNCHANGED cli
<1>1. ASSUME NEW j \in Joiners, JoinerStep(j)
      PROVE  UNCHANGED spentBy
  BY <1>1 DEF JoinerStep, Broadcast, TryAgain, Deadline, Timeout, Connect, Disconnect,
              invite
<1>2. ASSUME NEW a \in answers, Receive(a)
      PROVE  UNCHANGED spentBy
  BY <1>2 DEF Receive, invite
<1>3. ASSUME NEW req \in requests, Refuse(req) \/ Redeem(req) \/ RedeemFails(req)
      PROVE  \/ UNCHANGED spentBy
             \/ /\ spentBy = None /\ spentBy' \in Joiners \cup {Rival}
                /\ UNCHANGED cli
  <2>1. req.from \in Joiners
    BY DEF IInv, TypeOK
  <2>2. CASE Refuse(req)
    BY <2>2 DEF Refuse, invite
  <2>3. CASE Redeem(req)
    BY <2>1, <2>3 DEF Redeem, Reply, command, invite
  <2>4. CASE RedeemFails(req)
    BY <2>1, <2>4 DEF RedeemFails, Reply, command
  <2> QED BY <1>3, <2>2, <2>3, <2>4
<1>4. CASE RivalRedeems
  BY <1>4 DEF RivalRedeems, command
<1>5. CASE Revoke \/ UNCHANGED vars
  BY <1>5 DEF Revoke, vars, invite
<1> QED BY <1>1, <1>2, <1>3, <1>4, <1>5 DEF Next

\* A step changes one command at most, and none that has ended.
LEMMA OneCommand ==
  ASSUME IInv, [Next]_vars
  PROVE  \/ UNCHANGED cli
         \/ \E j \in Joiners :
                /\ cli[j] # "redeemed"
                /\ \A i \in Joiners \ {j} : cli'[i] = cli[i]
<1> USE RemoteRedeemAssumption
<1>0. TypeOK /\ \A i \in Joiners : round[i] # None => cli[i] = "trying"
  BY DEF IInv, CommandBacked
<1>1. ASSUME NEW j \in Joiners, NEW v, Told(j, v)
      PROVE  \A i \in Joiners \ {j} : cli'[i] = cli[i]
  BY <1>0, <1>1 DEF Told, TypeOK
<1>2. ASSUME NEW j \in Joiners, NEW p, NEW c, Hear(j, p, c)
      PROVE  \A i \in Joiners \ {j} : cli'[i] = cli[i]
  BY <1>1, <1>2 DEF Hear
<1>3. ASSUME NEW j \in Joiners, NEW accepting \in SUBSET Agents, Broadcast(j, accepting)
      PROVE  cli[j] # "redeemed" /\ \A i \in Joiners \ {j} : cli'[i] = cli[i]
  BY <1>1, <1>3 DEF Broadcast
<1>4. ASSUME NEW j \in Joiners, TryAgain(j) \/ Deadline(j)
      PROVE  cli[j] # "redeemed" /\ \A i \in Joiners \ {j} : cli'[i] = cli[i]
  BY <1>0, <1>4 DEF TryAgain, Deadline, TypeOK
<1>5. ASSUME NEW j \in Joiners, Timeout(j)
      PROVE  cli[j] # "redeemed" /\ \A i \in Joiners \ {j} : cli'[i] = cli[i]
  BY <1>0, <1>1, <1>5 DEF Timeout
<1>6. ASSUME NEW j \in Joiners, NEW p \in Agents, Connect(j, p)
      PROVE  UNCHANGED cli
  BY <1>6 DEF Connect, command
<1>7. ASSUME NEW j \in Joiners, NEW p \in Agents, NEW arrived \in SUBSET requests,
             Disconnect(j, p, arrived)
      PROVE  \/ UNCHANGED cli
             \/ cli[j] # "redeemed" /\ \A i \in Joiners \ {j} : cli'[i] = cli[i]
  <2>1. CASE p \in open[j]
    <3>1. round[j] # None
      BY <1>0, <2>1 DEF TypeOK
    <3>2. Hear(j, p, "AGENT_DISCONNECTED")
      BY <1>7, <2>1 DEF Disconnect
    <3> QED BY <1>0, <1>2, <3>1, <3>2
  <2>2. CASE p \notin open[j]
    BY <1>7, <2>2 DEF Disconnect
  <2> QED BY <2>1, <2>2
<1>8. ASSUME NEW req \in requests, Refuse(req) \/ Redeem(req) \/ RedeemFails(req)
      PROVE  UNCHANGED cli
  BY <1>8 DEF Refuse, Redeem, RedeemFails, Reply, command
<1>9. ASSUME NEW a \in answers, Receive(a)
      PROVE  \/ UNCHANGED cli
             \/ \E j \in Joiners :
                    cli[j] # "redeemed" /\ \A i \in Joiners \ {j} : cli'[i] = cli[i]
  <2>1. a.from \in Joiners /\ a.round \in Rounds
    BY <1>0 DEF TypeOK
  <2>2. CASE a.round = round[a.from]
    <3>1. Hear(a.from, a.to, a.code) /\ cli[a.from] = "trying"
      BY <1>0, <1>9, <2>1, <2>2 DEF Receive
    <3> QED BY <1>2, <2>1, <3>1
  <2>3. CASE a.round # round[a.from]
    BY <1>9, <2>3 DEF Receive
  <2> QED BY <2>2, <2>3
<1>10. CASE RivalRedeems \/ Revoke \/ UNCHANGED vars
  BY <1>10 DEF RivalRedeems, Revoke, command, vars
<1>11. ASSUME NEW j \in Joiners, JoinerStep(j)
       PROVE  \/ UNCHANGED cli
              \/ cli[j] # "redeemed" /\ \A i \in Joiners \ {j} : cli'[i] = cli[i]
  BY <1>3, <1>4, <1>5, <1>6, <1>7, <1>11 DEF JoinerStep
<1> QED BY <1>8, <1>9, <1>10, <1>11 DEF Next

Admits == [n \in {"token"} |-> spentBy]

Successes == {<<"token", j>> : j \in {i \in Joiners : cli[i] = "redeemed"}}

\* A step of the agents, the links or the commands is a step of the promise: it
\* spends the invite, or tells one joiner of it, or does neither.
LEMMA StepPromised ==
  ASSUME IInv, IInv', [Next]_vars
  PROVE  [Promise!Next]_<<Admits, Successes>>
<1>1. CASE UNCHANGED cli
  <2>1. Successes' = Successes
    BY <1>1 DEF Successes
  <2>2. CASE UNCHANGED spentBy
    BY <2>1, <2>2 DEF Admits
  <2>3. CASE spentBy = None /\ spentBy' \in Joiners \cup {Rival}
    <3>1. Promise!Spend("token", spentBy')
      BY <2>1, <2>3 DEF Promise!Spend, Admits, Successes
    <3> QED BY <2>3, <3>1 DEF Promise!Next
  <2> QED BY <2>2, <2>3, SpentOnce
<1>2. ASSUME NEW j \in Joiners, cli[j] # "redeemed",
             \A i \in Joiners \ {j} : cli'[i] = cli[i], cli' # cli
      PROVE  [Promise!Next]_<<Admits, Successes>>
  <2>1. Admits' = Admits /\ UNCHANGED spentBy
    BY <1>2, SpentOnce DEF Admits
  <2>2. CASE cli'[j] = "redeemed"
    <3>1. spentBy = j
      BY <2>1, <2>2 DEF IInv, CommandBacked
    <3>2. Successes' = Successes \cup {<<"token", j>>}
      BY <1>2, <2>2 DEF Successes
    <3>3. Promise!Tell("token", j)
      BY <2>1, <3>1, <3>2 DEF Promise!Tell, Admits, Successes
    <3> QED BY <3>3 DEF Promise!Next
  <2>3. CASE cli'[j] # "redeemed"
    <3>1. Successes' = Successes
      BY <1>2, <2>3 DEF Successes
    <3> QED BY <2>1, <3>1
  <2> QED BY <2>2, <2>3
<1> QED BY <1>1, <1>2, OneCommand

\* For any number of joiners and agents, the retrying commands, the lossy links
\* and the creator together keep the promise of an invite: spent for one key, and
\* a success told to its owner only.
THEOREM PromiseKept == Spec => ImplementsInvites
<1>1. Init => Promise!Init
  BY DEF Init, Promise!Init
<1>2. IInv /\ IInv' /\ [Next]_vars => [Promise!Next]_<<Admits, Successes>>
  BY StepPromised
<1> QED BY <1>1, <1>2, AlwaysBacked, PTL
        DEF Spec, ImplementsInvites, Promise!Spec, Admits, Successes
=============================================================================
