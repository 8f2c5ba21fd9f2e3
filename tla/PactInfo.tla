------------------------------ MODULE PactInfo ------------------------------
(***************************************************************************)
(* The name of a pact and the display name of an agent, as one daemon      *)
(* holds them (pact.ts): in memory, in config.json, and in its view, which *)
(* apply.ts folds from the ledger.  Purposes are handled as pact names are *)
(* and left out.                                                           *)
(*                                                                         *)
(* Pact names are set by the creator alone, display names by their owner,  *)
(* so each row of the view depends on one core only, and keeps the entry   *)
(* with the newest timestamp.  An entry is `fresh` when it is newer than   *)
(* every earlier one of its row.                                           *)
(***************************************************************************)
EXTENDS Naturals, Sequences

CONSTANTS
    PactNames,   \* the names a pact may have, null among them
    AgentNames,
    Clients,     \* HTTP requests that may be under way at once
    Slots,       \* bound: the saves of config.json under way at once, 1..n
    None,        \* no display name, no row, no file
    FirstPactName, FirstName,  \* the names given when the pact was opened first
    MaxChanges,  \* bound on the names set, of the pact and of the agent
    MaxPosted,   \* bound on own entries that are not in the view yet
    MaxMishaps   \* bound on crashes, and on setting the clock back

ASSUME PactInfoAssumption ==
    /\ None \notin PactNames \cup AgentNames
    /\ FirstPactName \in PactNames /\ FirstName \in AgentNames
    /\ {MaxChanges, MaxPosted, MaxMishaps} \subseteq Nat /\ Slots \subseteq Nat

VARIABLES
    creator,     \* this daemon created the pact
    writable,    \* _base.writable
    infos,       \* the setInfo entries of the creator's core: name, fresh
    viewed,      \* how many of them are in the view
    reach,       \* how many have been
    posted,      \* own entries with a display name, not in the view yet
    row,         \* the name at _agents/<self> in the view
    pactName, displayName,
    announcing,  \* announceDisplayNameIfStale: not running, or where it is
    request,     \* request[c]: where request c is
    saves,       \* saves[s]: a _persistConfig under way
    file, tmp,   \* config.json and its .tmp
    late,        \* the clock is past the newest own entry with a display name
    up, renames, mishaps,
    raced        \* history: two saves overlapped, and the last to end was one

ledger == <<creator, infos, posted, late>>
view == <<viewed, reach, row>>
memory == <<pactName, displayName>>
disk == <<file, tmp>>
work == <<announcing, request, saves>>
counters == <<renames, mishaps>>
vars == <<ledger, writable, view, memory, disk, work, up, counters, raced>>

---------------------------------------------------------------------------
(* The rows of the view.                                                   *)

Fresh(n) == {i \in 1..n : infos[i].fresh}

\* Whether the first n setInfo entries leave a row at _pact/name, and its value.
HasName(n) == Fresh(n) # {}

NameAt(n) == infos[CHOOSE i \in Fresh(n) : \A j \in Fresh(n) : j <= i].name

\* `upsertAgentName`
UpsertAgentName(e) == row' = IF e.fresh THEN e.name ELSE row

\* `append` of an entry that carries display name n; without one, no row.
Post(n) ==
    /\ Len(posted) < MaxPosted
    /\ IF n = None THEN UNCHANGED <<posted, late>>
       ELSE /\ posted' = Append(posted, [name |-> n, fresh |-> late])
            /\ late' = FALSE

---------------------------------------------------------------------------
(* _persistConfig: read, take the fields from memory, write, rename.       *)

Free == [pc |-> "free"]

Contents == [pact : PactNames, own : AgentNames \cup {None}]

ASSUME ContentsAssumption == None \notin Contents /\ "hook" \notin Clients

Owners == Clients \cup {"hook"}

Active == {s \in Slots : saves[s] # Free}

HasSlot == Active # Slots

FreeSlot == CHOOSE s \in Slots \ Active : \A t \in Slots \ Active : s <= t

\* The configuration is read; `alone`: no other save has overlapped this one.
Persist(by) ==
    /\ HasSlot
    /\ saves' = [saves EXCEPT ![FreeSlot] =
                    [pc |-> "load", by |-> by, alone |-> TRUE, cfg |-> None]]

Captured == {s \in Active : saves[s].pc # "load"}

Memory == [pact |-> pactName, own |-> displayName]

\* Mutant: the display name is the one that was read.
FillIn(s) ==
    /\ saves[s].pc = "load"
    /\ saves' = [t \in Slots |->
            IF t = s THEN [saves[s] EXCEPT !.pc = "write", !.alone = Captured = {},
                            !.cfg = [file EXCEPT !.pact = pactName]]
            ELSE IF t \in Captured THEN [saves[t] EXCEPT !.alone = FALSE] ELSE saves[t]]
    /\ UNCHANGED <<ledger, writable, view, memory, disk, announcing, request, up, counters, raced>>

\* What was read is replaced by what the memory holds now.
Capture(s) ==
    /\ saves[s].pc = "load"
    /\ saves' = [t \in Slots |->
            IF t = s THEN [saves[s] EXCEPT !.pc = "write", !.alone = Captured = {},
                                           !.cfg = Memory]
            ELSE IF t \in Captured THEN [saves[t] EXCEPT !.alone = FALSE] ELSE saves[t]]
    /\ UNCHANGED <<ledger, writable, view, memory, disk, announcing, request, up, counters, raced>>

Write(s) ==
    /\ saves[s].pc = "write"
    /\ tmp' = saves[s].cfg
    /\ saves' = [saves EXCEPT ![s].pc = "rename", ![s].cfg = None]
    /\ UNCHANGED <<ledger, writable, view, memory, file, announcing, request, up, counters, raced>>

Idle == [at |-> "idle"]

\* Mutant: the request is not told that its save has failed.
SettledIfOk(by, ok) ==
    IF by \in Clients /\ ok THEN [request EXCEPT ![by].at = "saved"] ELSE request

\* The request that waits for the save goes on, or is answered with a 500.
Settled(by, ok) ==
    IF by \notin Clients THEN request
    ELSE IF ok THEN [request EXCEPT ![by].at = "saved"]
    ELSE [request EXCEPT ![by] = Idle]

\* Without a .tmp the rename throws: another save has taken it.
Commit(s) ==
    /\ saves[s].pc = "rename"
    /\ IF tmp = None THEN UNCHANGED disk ELSE file' = tmp /\ tmp' = None
    /\ request' = Settled(saves[s].by, tmp # None)
    /\ saves' = [saves EXCEPT ![s] = Free]
    /\ raced' = ~saves[s].alone
    /\ UNCHANGED <<ledger, writable, view, memory, announcing, up, counters>>

---------------------------------------------------------------------------
(* The view grows.                                                         *)

\* putPactMetaIfNewer, and `_onAppliedInternal`: memory follows every entry.
ApplyInfo ==
    /\ up /\ viewed < Len(infos)
    /\ viewed' = viewed + 1
    /\ reach' = IF viewed < reach THEN reach ELSE viewed + 1
    /\ pactName' = infos[viewed + 1].name
    /\ IF pactName' = pactName THEN UNCHANGED saves ELSE Persist("hook")
    /\ UNCHANGED <<ledger, writable, row, displayName, disk, announcing, request,
                   up, counters, raced>>

\* Autobase has got blocks that sort before some it has applied: it undoes
\* these, and applies them again.
Rewind ==
    /\ up /\ viewed > 0 /\ viewed = reach
    /\ viewed' \in 0..(viewed - 1)
    /\ UNCHANGED <<ledger, writable, reach, row, memory, disk, work, up, counters, raced>>

ApplyPosted ==
    /\ up /\ posted # <<>>
    /\ UpsertAgentName(Head(posted))
    /\ posted' = Tail(posted)
    /\ UNCHANGED <<creator, infos, late, writable, viewed, reach, memory, disk, work,
                   up, counters, raced>>

MayChange == Len(infos) + renames < MaxChanges

\* The creator of another daemon's pact renames it.
OtherSetsInfo(n, fresh) ==
    /\ ~creator /\ MayChange
    /\ infos = <<>> => fresh
    /\ infos' = Append(infos, [name |-> n, fresh |-> fresh])
    /\ UNCHANGED <<creator, posted, late, writable, view, memory, disk, work, up,
                   counters, raced>>

Admit ==
    /\ up /\ ~writable
    /\ writable' = TRUE
    /\ UNCHANGED <<ledger, view, memory, disk, work, up, counters, raced>>

---------------------------------------------------------------------------
(* Requests.                                                               *)

\* setPactInfo of the creator: the entry, then a message about it.  A name that
\* memory holds already changes nothing.
SetPactInfo(c, n, fresh) ==
    /\ up /\ creator /\ request[c] = Idle /\ MayChange
    /\ n # pactName
    /\ infos = <<>> => fresh
    /\ infos' = Append(infos, [name |-> n, fresh |-> fresh])
    /\ Len(posted) < MaxPosted
    /\ posted' = IF displayName = None THEN posted
                 ELSE Append(posted, [name |-> displayName, fresh |-> late])
    /\ late' = (late /\ displayName = None)
    /\ request' = [request EXCEPT ![c] = [at |-> "informed"]]
    /\ UNCHANGED <<creator, writable, view, memory, disk, announcing, saves, up,
                   counters, raced>>

AnnouncePactInfoChange(c) ==
    /\ request[c].at = "informed"
    /\ Post(displayName)
    /\ request' = [request EXCEPT ![c] = Idle]
    /\ UNCHANGED <<creator, infos, writable, view, memory, disk, announcing, saves, up,
                   counters, raced>>

SetDisplayName(c, n) ==
    /\ up /\ request[c] = Idle /\ MayChange
    /\ displayName' = n
    /\ Persist(c)
    /\ request' = [request EXCEPT ![c] = [at |-> "saving", name |-> n]]
    /\ renames' = renames + 1
    /\ UNCHANGED <<ledger, writable, view, pactName, disk, announcing, up, mishaps, raced>>

\* The rename is announced under the name that was asked for.
AnnounceDisplayName(c) ==
    /\ request[c].at = "saved"
    /\ IF request[c].name # None /\ writable THEN Post(request[c].name)
       ELSE UNCHANGED <<posted, late>>
    /\ request' = [request EXCEPT ![c] = Idle]
    /\ UNCHANGED <<creator, infos, writable, view, memory, disk, announcing, saves, up,
                   counters, raced>>

\* Any other entry of this daemon carries its display name too.
AppendOther ==
    /\ up /\ writable /\ displayName # None
    /\ Post(displayName)
    /\ UNCHANGED <<creator, infos, writable, view, memory, disk, work, up, counters, raced>>

---------------------------------------------------------------------------
(* announceDisplayNameIfStale, at every update of the view.                *)

StaleStart ==
    /\ up /\ writable /\ announcing = Idle /\ displayName # None
    /\ announcing' = [at |-> "reading", name |-> displayName]
    /\ UNCHANGED <<ledger, writable, view, memory, disk, request, saves, up, counters, raced>>

\* Mutant: the guard is left up when there is nothing to announce.
StaleReadHeld ==
    /\ announcing.at = "reading" /\ row # announcing.name
    /\ Post(announcing.name)
    /\ announcing' = [at |-> "appending"]
    /\ UNCHANGED <<creator, infos, writable, view, memory, disk, request, saves, up,
                   counters, raced>>

StaleRead ==
    /\ announcing.at = "reading"
    /\ IF row = announcing.name
       THEN announcing' = Idle /\ UNCHANGED <<posted, late>>
       ELSE Post(announcing.name) /\ announcing' = [at |-> "appending"]
    /\ UNCHANGED <<creator, infos, writable, view, memory, disk, request, saves, up,
                   counters, raced>>

StaleDone ==
    /\ announcing.at = "appending"
    /\ announcing' = Idle
    /\ UNCHANGED <<ledger, writable, view, memory, disk, request, saves, up, counters, raced>>

---------------------------------------------------------------------------
(* Time, and the process.                                                  *)

Tick ==
    /\ ~late
    /\ late' = TRUE
    /\ UNCHANGED <<creator, infos, posted, writable, view, memory, disk, work, up,
                   counters, raced>>

\* Until it has caught up, nothing that is written is newer.
SetClockBack ==
    /\ mishaps < MaxMishaps
    /\ mishaps' = mishaps + 1
    /\ late' = (row = None /\ posted = <<>>)
    /\ UNCHANGED <<creator, infos, posted, writable, view, memory, disk, work, up,
                   renames, raced>>

\* What has been appended is in the core; what is being saved is lost.
Crash ==
    /\ up /\ mishaps < MaxMishaps
    /\ up' = FALSE
    /\ mishaps' = mishaps + 1
    /\ announcing' = Idle
    /\ request' = [c \in Clients |-> Idle]
    /\ saves' = [s \in Slots |-> Free]
    /\ UNCHANGED <<ledger, writable, view, memory, disk, renames, raced>>

\* Mutant: the name of the configuration is kept.
LoadUnseeded ==
    /\ ~up
    /\ up' = TRUE
    /\ displayName' = file.own
    /\ pactName' = file.pact
    /\ raced' = FALSE
    /\ UNCHANGED <<ledger, writable, view, disk, work, counters>>

\* Pact.load: the configuration, and the row of the view over it; what differs
\* is saved before the pact opens.
Load ==
    /\ ~up
    /\ up' = TRUE
    /\ displayName' = file.own
    /\ pactName' = IF HasName(viewed) THEN NameAt(viewed) ELSE file.pact
    /\ IF pactName' = file.pact THEN UNCHANGED disk
       ELSE file' = [file EXCEPT !.pact = pactName'] /\ tmp' = None
    /\ raced' = FALSE
    /\ UNCHANGED <<ledger, writable, view, work, counters>>

---------------------------------------------------------------------------

\* After Pact.create or Pact.join, with the names that were given.
Init ==
    /\ creator \in BOOLEAN /\ writable = creator
    /\ infos = <<>> /\ viewed = 0 /\ reach = 0
    /\ posted = <<>> /\ row = None
    /\ pactName = FirstPactName /\ displayName = FirstName
    /\ announcing = Idle
    /\ request = [c \in Clients |-> Idle]
    /\ saves = [s \in Slots |-> Free]
    /\ file = Memory /\ tmp = None
    /\ late = TRUE
    /\ up = TRUE /\ renames = 0 /\ mishaps = 0
    /\ raced = FALSE

Next ==
    \/ \E s \in Slots : Capture(s) \/ Write(s) \/ Commit(s)
    \/ ApplyInfo
    \/ ApplyPosted
    \/ Rewind
    \/ Admit
    \/ \E n \in PactNames, fresh \in BOOLEAN :
        \/ OtherSetsInfo(n, fresh)
        \/ \E c \in Clients : SetPactInfo(c, n, fresh)
    \/ \E c \in Clients :
        \/ \E n \in AgentNames \cup {None} : SetDisplayName(c, n)
        \/ AnnouncePactInfoChange(c)
        \/ AnnounceDisplayName(c)
    \/ AppendOther
    \/ StaleStart \/ StaleRead \/ StaleDone
    \/ Tick
    \/ SetClockBack
    \/ Crash
    \/ Load

Spec == Init /\ [][Next]_vars

\* What is under way goes on, the view takes what is appended, other members
\* keep the pact updated, a clock that was set back catches up, and a daemon
\* that stopped is started.
Fairness ==
    /\ \A s \in Slots : WF_vars(Capture(s)) /\ WF_vars(Write(s)) /\ WF_vars(Commit(s))
    /\ \A c \in Clients : WF_vars(AnnounceDisplayName(c)) /\ WF_vars(AnnouncePactInfoChange(c))
    /\ WF_vars(ApplyPosted) /\ WF_vars(ApplyInfo)
    /\ WF_vars(StaleStart) /\ WF_vars(StaleRead) /\ WF_vars(StaleDone)
    /\ WF_vars(Tick) /\ WF_vars(Load)

FairSpec == Spec /\ Fairness

---------------------------------------------------------------------------
(* Properties.                                                             *)

Entries(names) == [name : names, fresh : BOOLEAN]

TypeOK ==
    /\ {creator, writable, up, late, raced} \subseteq BOOLEAN
    /\ creator => writable
    /\ infos \in Seq(Entries(PactNames))
    /\ posted \in Seq(Entries(AgentNames))
    /\ row \in AgentNames \cup {None}
    /\ viewed <= reach /\ reach <= Len(infos)
    /\ pactName \in PactNames /\ displayName \in AgentNames \cup {None}
    /\ file \in Contents /\ tmp \in Contents \cup {None}
    /\ announcing.at \in {"idle", "reading", "appending"}
    /\ \A s \in Active : /\ saves[s].pc \in {"load", "write", "rename"}
                         /\ saves[s].by \in Owners /\ saves[s].cfg \in Contents \cup {None}
    /\ \A c \in Clients :
        /\ request[c].at \in {"idle", "saving", "saved", "informed"}
        /\ request[c].at = "saving" <=> \E s \in Active : saves[s].by = c

\* The pact name a daemon shows is the one its view has settled on, through
\* restarts, entries that arrive in bulk and entries that are applied again.  The
\* exception is a newest entry written with a timestamp that is not newer.
NameIsSynced ==
    up /\ viewed = reach /\ reach > 0 /\ infos[reach].fresh => pactName = NameAt(reach)

\* With no save under way, config.json has the names in memory, so that a restart
\* shows the same; unless the last save to end had overlapped with another one.
ConfigIsKept == up /\ Active = {} /\ ~raced => file = Memory

\* The display name of a member ends up in the view, whatever announcement of an
\* older name overtakes it, is ignored because the clock was set back, or is lost
\* with a stop.
DisplayNameSettles ==
    <>[](writable /\ displayName # None) => <>[](row = displayName)
=============================================================================
