# OpenPact: a TLA+ verification project

OpenPact lets agents on several machines share a *pact*: a ledger that every
member appends to and every member reads. A daemon on each machine holds the
pacts, replicates them over Hyperswarm, and serves an HTTP API to local agents,
a command line, an SDK and a dashboard. This project models the parts where
several actors meet, checks them with TLC on small instances, and proves with
TLAPS, for every size of instance, that each of them is safe.

Paths below are relative to `src/packages/daemon/src/` unless they start with
`src/` or name a file of the repository's root.

## The system

| Component | State | Operations | Talks to |
| --- | --- | --- | --- |
| Entry log and view (`pact.ts`, `apply.ts`) | one Hypercore per writer; a Hyperbee view folded from the ordered blocks by `apply()` | `append`; `apply()` for each block | Autobase orders and replays blocks |
| Membership (`apply.ts`, `pact.ts`, `api/routes/admin.ts`) | `_members/`, `_indexers/` keys of the view; Autobase's writer set | add, promote, remove a writer; leave | every daemon applies the same ledger |
| Invites (`invites.ts`, `pact.ts`, `api/routes/invites.ts`) | `invites.json` of the creator; `_invites/<nonce>` keys of the view; a lock in memory | mint, revoke, redeem | HTTP, and the invite channel of a link |
| Redemption over the swarm (`daemon.ts`, `invite-channel.ts`, `src/packages/cli/src/commands/join.ts`) | pending correlations | broadcast, first success, timeout, retry | links, `redeemInvite` of the creator |
| Tasks (`api/routes/tasks.ts`, `api/tasks-state.ts`) | the task entries of the view, reduced on every read | create, claim, complete, release | two daemons race through the ledger |
| Pact metadata, display names (`pact.ts`, `apply.ts`) | view keys, names in memory, `config.json` | setInfo, setDisplayName, self-heal on update | apply callbacks, Autobase events |
| Peer links (`daemon.ts`, `peer-link.ts`, `member-auth-channel.ts`) | per link: claimed and authenticated members, retry slots, revocation timers, heartbeat | connect, challenge, answer, time out, reconcile, close | Hyperswarm sockets, the view |
| Registry (`daemon.ts`, `config.ts`, `api/routes/pacts.ts`) | `daemon.json`, the directories, the map of open pacts | create, join, open, switch, rename, remove | file system |
| Lists and change feed (`api/views.ts`, `api/routes/changes.ts`, SDK) | a cursor in the client | page, long poll, head cursor, stream | the view, `update` events |
| Event stream and dashboard (`api/routes/events.ts`, `src/packages/dashboard/`) | frames in a socket; a query cache in the browser | emit, reconnect, refetch, mount | daemon events, lists |
| Skills (`api/routes/skills.ts`) | `skills/`, `installed-skills.json` | post, install | the view, file system |
| Daemon process and command line (`src/packages/cli/`) | PID file, port, API token in `daemon.json`, cursor of the prompt hook | start, stop, init, the hook | processes, file system, the HTTP API |
| Other routes, schemas, formatting, MCP tools, site | none | requests, rendering | the HTTP API |

What makes it hard:

* every check of a route is made on a view that may be behind the ledger, and
  across an `await`;
* two daemons append concurrently, and tasks are folded in the order of entry
  ids, which is neither the order of time nor of causality;
* a request, or an answer over a link, can be lost after it has taken effect;
* redemption is two appends and a file write, any of which may be the last one
  before a crash; registry operations mix a directory, a file and a map;
* local files are read, changed and written back across awaits and processes;
* a link is authenticated by timers, answers, view reads and reconciliation
  that cross each other;
* entries arrive anywhere in the order of time, also behind a cursor.

What makes each component correct: a task has one holder at a time, and what a
client was told stays true until somebody undoes it; an invite admits one writer
and what the view says of members is what Autobase enforces; names settle; a
member on a live link is authenticated in the end and a former one cut off; the
registry names directories that load; a feed delivers every entry once; the PID
file and the token lead to the daemon that runs.

## The modules

| Module | Models | Interacts with |
| --- | --- | --- |
| `TaskReducer` | entry ids and their order, `reduceTaskHistory`, `applyTaskUpdate`: pure | |
| `Tasks` | the task routes of several daemons over replicated cores | extends `TaskReducer` |
| `TaskBoard` | abstract: one shared board with one task | `Tasks` implements it while nothing is appended blindly |
| `InviteService` | abstract: an invite is spent for one, and only that one is told | `Membership` and `RemoteRedeem` implement it |
| `Membership` | `apply()` on membership, the invite lock, redemption, leaving, restart | implements `InviteService` |
| `RemoteRedeem` | the join command, the broadcast, the answers of several agents | implements `InviteService` |
| `PeerLinks` | member authentication, revocation, heartbeat, reconciliation | |
| `PactInfo` | pact and display names in view, memory and `config.json` | |
| `Registry` | `daemon.json`, directories and open pacts under overlapping requests and a crash | |
| `Processes` | daemon processes, PID file, port, token, start, stop, init | |
| `PactView` | the view as its readers meet it: applied, committed, announced | extended by the five below |
| `ChangeFeed`, `ListPages`, `Dashboard`, `PromptHook`, `InstalledSkills` | the five kinds of readers | composed in `Readers` |
| `Readers` | the view with one kind of reader | |
| `TasksProofs`, `MembershipProofs`, `RemoteRedeemProofs`, `PeerLinksProofs`, `PactInfoProofs`, `RegistryProofs`, `ProcessesProofs`, `ReadersProofs` | the theorems | each extends its module |
| `MC...` | constants of the instances | |

### Tasks

| Variable | In the code |
| --- | --- |
| `clock` | `clockMs` and the entry timestamps, in ticks; daemons share it |
| `log[p]` | the entries about the task in p's own core |
| `view[p][w]` | how many of w's entries p's view holds |
| `request[c]` | an HTTP request that has appended and waits in `waitForView` |
| `answers` | history: the 200 answers, and the refusals that came after an append |

A handler reads the view with `getTaskState`, an `await`; then it checks,
stamps the entry and appends without giving up the thread. `AppendEntry`
is the second half; what the first half read is any of `EarlierViews`, so that a
request overtaken by deliveries and by other requests of the same daemon is
covered. `Answer` is the last poll of `waitForView`, `ViewTimeout` the 504.
Creation is the initial state: one task, whose entry is the first block about it,
reserved for nobody or for one daemon. Writers are natural numbers standing for
the rank of their key prefix; block numbers keep their value, because their
*numerals* are compared (`NumeralBefore`). `BaseSeq` says how many blocks a core
had before. In `SyncedNext` a request starts only when every view holds every block.

`Pact.append` computes the id it returns from the length of the core after an
`await`; if two appends of one daemon overlap, a request may wait for its
successor's entry. The model waits for the right one: the difference only delays
an answer.

### Membership

| Variable | In the code |
| --- | --- |
| `core[d]` | the blocks d has appended |
| `views` | the view after each ordered block; the last is where Autobase has got to |
| `at[d]` | the prefix d has applied |
| `gone` | daemons that have removed the pact |
| `file` | `invites.json` of the creator: minted, revoked, spent |
| `waiting`, `lock` | redemptions queued in `_withInviteLock`, and the one inside |
| `told` | history: redemptions answered ok |

`ApplyNode` is the loop body of `apply()`: the implicit first member and first
indexer, the admin branch with its self-removal, the invite-redeemed branch.
`HostAddWriter` and `HostRemoveWriter` are Autobase's own bookkeeping; Autobase
refuses to remove the last indexer by throwing inside `apply()`, after which a
daemon that applies the block has a dead Autobase (`halted`, `Running`).
`LocalView` is what a daemon reads: the prefix it has, with its own unordered
blocks applied on top, as Autobase does, also after a restart.

`redeemInvite` is cut at its awaits: `RedeemArrive` (up to the lock), `RedeemCheck`
(the file and the view, inside it), `RedeemAppend`, `RedeemAdmit`, `RedeemSave`;
`RedeemFail` is an exception at any of them and `Crash` a restart of the
creator. `AdminAdd`, `AdminRemove` and `Leave` may be issued by any member:
`apply()` is what decides. `Leave` reads the local view, appends and tears
down; the farewell message before it changes no membership that the block after
it does not.

Only the creator mints invites and only its file knows a nonce (`invites.ts:23`),
so there is one file and one lock. Expiry is left out: it only refuses. Blocks of
a writer that has been removed are never ordered. Adding a writer that is already
an indexer as a plain member is taken to leave Autobase's indexers alone.

### RemoteRedeem

| Variable | In the code |
| --- | --- |
| `cli[j]`, `code[j]` | the retry loop of `joinCmd`: trying, in the pause, or ended, and by what |
| `round[j]`, `open[j]`, `refusals[j]` | `redeemThroughPeers`: the correlation, `outstanding`, what `responses` has |
| `links`, `requests`, `answers` | open invite channels, and messages on them |
| `spentBy`, `admitted`, `revoked` | the invite at its creator |
| `kind[p]` | what another agent is to the pact: an indexer answers for tokens it did not mint |
| `cut` | history: the last broadcast ended by its timer |

A joiner is the command and its daemon. `Broadcast` sends to every link and waits;
`Hear` takes an answer, `Timeout` is the timer, `Disconnect` and `Connect`
change the links and lose what is on them, `TryAgain` and `Deadline` are the loop.
At the creator a redemption is one step, whose own steps are in `Membership`; both
modules are shown to implement `InviteService`, which is what connects them.

### PeerLinks

| Variable | In the code |
| --- | --- |
| `claimed`, `authed` | `link.claimedMembers`, `link.authenticatedMembers` |
| `slot`, `timers` | `link.authRetry`: no slot, its timer null, its timer set; run timers pending, also of slots that have left the map |
| `pending` | `link.pendingAuth` and whose run waits for it |
| `reads` | functions that await `hasActiveMemberKey` and go on with what it said then |
| `revoke`, `heart` | `link.revocationTimers`, `link.liveness` |
| `announced`, `absent` | history: the last presence event; whether the peer's key has been out of the view |
| `member`, `active`, `admitted`, `peer` | the environment: `pact.isMember`, members of the view, redemptions here, the other end |

One daemon, one pact, one link in the instance: links share nothing but the view. A
close keeps the run timers that the code forgets to clear; a function that outlives
its link may emit a last `member-online` ("ghost"). `MaxTimers` keeps new run timers from
being started beside that many older ones, `MaxReads` bounds functions in flight.

### PactInfo

| Variable | In the code |
| --- | --- |
| `infos`, `viewed`, `reach` | the creator's setInfo entries, how many the view has, and has had |
| `posted`, `row` | own display-name entries not in the view; `_agents/<self>` |
| `pactName`, `displayName` | `_pactName`, `_displayName` |
| `file`, `tmp`, `saves` | `config.json`, its `.tmp`, the `_persistConfig` calls under way |
| `request`, `announcing` | HTTP requests; `announceDisplayNameIfStale` and where it is |
| `late` | whether the clock is past the newest own entry |
| `raced` | history: saves overlapped, and the last to end was one of them |

A row of the view keeps the entry with the newest timestamp, so an entry says whether it is
`fresh`. `_persistConfig` is read, change, write `.tmp`, rename, in any overlap; a second rename finds no `.tmp`
and fails. One `writeFile` is one step: two that write one `.tmp` at the same time may mix in reality.

### Registry

| Variable | In the code |
| --- | --- |
| `file`, `tmp` | `daemon.json` and `daemon.json.tmp` |
| `dirs[a]` | the directory of alias a: which pact its `config.json` names |
| `open[a]` | `_pacts` |
| `job[w]` | a request: its operation, where it is, its copy of the registry |
| `suspect` | history: aliases met by a hazard named below |

Every request works on a copy read at its start. Three hazards are real and put an
alias into `suspect`: two requests on one alias at once; a save from a copy older than
the file, which undoes what another request saved; a save through a `.tmp` that another
save has replaced. What is wrong with one name of a rename is passed on to the other. What the
properties say is that nothing *else* goes wrong.

### Processes

| Variable | In the code |
| --- | --- |
| `pidFile` | `<dataDir>/pid` |
| `registry` | `daemon.json`: token and set of pacts |
| `proc[p]` | how far a process is in `startForegroundCmd` or `shutdown` |
| `copy`, `key`, `held` | its copy of `daemon.json` in `ensureApiToken`; the token its API asks for; the pacts whose storage it has open |
| `cmd[c]` | where a `start`, `stop` or `init` is |
| `stranger` | a daemon of another data directory has the port |
| `raced` | history: a command was given while a command, or a process that starts or leaves, was under way |

`start` is cut at its awaits: spawn, `Note` (the guessed PID), wait, verify, bail, unlink.
A process dies of SIGTERM until its handlers are installed, then shuts down in three
steps. `stop` sends SIGKILL after its timeout. PIDs are not used again by other programs.

### Readers

`PactView` has three steps for an entry: put by `apply()`, committed, announced by
`update`. An entry is its place in the order of `(timestamp, id)`, and any entry may
come late. `ChangeFeed` scans the types one after another, waits, scans again, with
the SDK's cursor; `ListPages` is `listByType` walked by `paginate`; `Dashboard` is the
event socket with its limit, the browser's `EventSource` and the shared query cache;
`PromptHook` the hook and its cursor file; `InstalledSkills` the install route with two
files, two `.tmp` and requests that overlap. A behaviour has one kind of reader, because
readers of different kinds share only what they read.

## What is checked

| Run | Instance | Shows |
| --- | --- | --- |
| `tasks` | 2 daemons, 3 updates besides the creation, reserved or free, a tick longer than the TTL | `TypeOK` (causal views), `OpenIsClaimable`, `AnswerStands`, `ImplementsBoard`, `NoClaimDeadlock` |
| `tasks_lost_claim` | as `tasks` with a TTL of one tick | fails: see 1 below |
| `tasks_tenth_entry` | every request starts from a view that holds every block; 8 blocks in each core beforehand | fails: see 2 below |
| `membership` | creator and one daemon, 1 nonce, 3 redemption blocks, 1 other block per core | `TypeOK`, `SingleUse`, `AuthorityAgrees`, `InvitesAreKept`, `ToldIsAdmitted`, `ImplementsInvites` |
| `membership_pair` | the same with 2 redemption blocks | fails: see 3 below |
| `membership_leave` | the same with 2 other blocks per core | fails: see 4 below |
| `remote_redeem` | 1 joiner, the creator, another agent of either kind, a rival, 2 correlations | `TypeOK`, `SuccessIsAdmission`, `GivenUpForAReason`, `ImplementsInvites`, `JoinSucceeds` |
| `peer_links` | 1 link, 1 remote key, 2 missed pings, 2 functions in flight | `TypeOK`, `PresenceIsTrue`, `ReadmittedIsKept`, `MemberIsAuthed`, `FormerMemberIsCut`, `DeadPeerIsCut` |
| `pact_info` | 2 names of each kind, 2 saves at once, 2 renames, 1 crash or clock set back | `TypeOK`, `NameIsSynced`, `ConfigIsKept`, `DisplayNameSettles` |
| `registry` | 2 aliases, 2 pacts, 2 requests at once, 1 crash | `TypeOK`, `RegisteredLoads`, `OpenIsRegistered`, `NothingVanishes` |
| `processes` | 4 processes, 5 commands, 2 at once, 2 kills, 1 pact | `TypeOK`, `DaemonIsReachable`, `CommandsTellTheTruth` |
| `readers` | 4 entries of 2 types, pages of one; 2 installers, 4 installs, 1 kill | `TypeOK`, `FeedIsExact`, `FeedDelivers`, `ListsAll`, `PageIsFresh`, `PromptTells`, `InstalledIsTrue` |

The properties say in their comments what they mean. In short:

* `OpenIsClaimable`: the route's check and the reducer agree, wherever the new id
  sorts. `AnswerStands`: what a 200 said is true in every view that holds its entry, unless
  the daemon moved on, the TTL passed, or the view has an entry concurrent with it.
  `ImplementsBoard`: as long as every handler has read every entry appended before its own (`NoneUnseen`), the reduced ledger moves as the state
  diagram of the README does. `NoClaimDeadlock`: no view shows the task claimed for good.
* `SingleUse`, `AuthorityAgrees`, `InvitesAreKept`, `ToldIsAdmitted`: one writer per nonce, view and
  Autobase agree, no operation loses an invite or a revocation, a success is an admission.
  `ImplementsInvites`: whoever is answered ok is the one the nonce was first redeemed for.
* `SuccessIsAdmission`, `GivenUpForAReason`, `JoinSucceeds`: the join command tells the truth when it
  succeeds and when it gives up, and gets in if the creator stays linked and answers.
* `PresenceIsTrue`, `ReadmittedIsKept`, `MemberIsAuthed`, `FormerMemberIsCut`, `DeadPeerIsCut`:
  a link is authenticated only as its peer and presence events say so; a writer added again
  within the grace period keeps its link; members end up authenticated, former ones and dead ones cut off.
* `NameIsSynced`, `ConfigIsKept`, `DisplayNameSettles`: memory follows the view, the file follows memory,
  and a display name reaches the ledger in the end.
* `RegisteredLoads`, `OpenIsRegistered`, `NothingVanishes`: a start never stumbles over
  the registry, nothing is open that is not registered, and a pact leaves only when asked.
* `DaemonIsReachable`, `CommandsTellTheTruth`: the PID file and the token lead to the daemon that
  serves; `start` reports its own child, `stop` leaves no daemon; in both cases whatever was killed before.
* `FeedIsExact`, `FeedDelivers`, `ListsAll`, `PageIsFresh`, `PromptTells`: in order, once, all, in the end, up to
  the named exceptions. `InstalledIsTrue`: the manifest records only what is on disk and keeps what was confirmed.

Four statements of the repository do not hold of the code, and a run shows each:

1. *A refused claim is rejected* (README.md:268). The entry of a refused claim stays
   in the ledger. If the winner's release sorts before it, the fold applies it after
   all: the daemon that was answered 409 holds the task.
2. *The claimer can release* (`api/tasks-state.ts:96`). Block numbers in ids are not
   padded, and ids are compared as strings: block 10 sorts before block 9, so a release can
   be folded before the claim it releases and does nothing.
3. *The pair confirms together* (`pact.ts:628`). A failure or a restart between the two
   appends of a redemption spends the invite without admitting anybody; later tries are refused as spent.
4. *Leaving short-circuits for the sole indexer* (`pact.ts:752`). The check reads the
   local view. When two indexers go at about the same time, the later block removes the
   last indexer and `apply()` throws on every daemon.

Other behaviour that a reader should know of is an exception inside a property, not
a run of its own:

* `Membership`. `redeemInvite` checks that it runs on an indexer before it waits for the lock, and not again
  inside it (`pact.ts:660`). A creator that was removed, and then added again as a plain member, appends a
  redemption that the view ignores; it can repeat it for another joiner and answer ok to that one too (`Readmitted`).
  It takes two redemptions waiting from before the removal, the first of which fails after its append: more
  blocks than the instance has. The proof attempt showed it, and a directed instance confirmed it.
* `RemoteRedeem`. The retry loop ends on `INVITE_SPENT` even when its own earlier attempt spent
  the invite and the answer was lost. A broadcast that times out returns the last refusal it heard,
  so `INVITE_NOT_INDEXER` of a bystander can end the join. A promoted indexer answers `UNKNOWN_INVITE` for
  a token it did not mint, where docs/OPENPACT_BUILD_PLAN.md:1405 has any indexer admit. `INTERNAL` of the creator is
  masked when a later agent disconnects.
* `Registry`. The three hazards in `suspect`. A rename is where they spread: one of three aliases, damaged by
  a lost save, can be moved over another that no hazard had met.
* `PactInfo`. Memory shows a pact name whose timestamp the view refused, until the next start. Overlapping
  saves of `config.json` lose a name, or fail. `setPactInfo` with the name that is in memory does nothing. An
  own block with both names is applied as two steps here.
* `Processes`. Two commands at once break more than the port can prevent: the loser of two `start`s removes the winner's PID file
  when it bails out (`start.ts:118`), a daemon that is still leaving removes its successor's (`start-foreground.ts:149`), and
  `init` beside a first start drops the new token, or the token the new pact. With no pact registered, `start`
  takes a stranger's answer on the port for its child's (`start.ts:132`).
* Readers. The feed passes over what arrives behind its scan or with an older timestamp. A hook moves its cursor to the time it
  ends, past what came while it read. The dashboard does not fetch again after a
  reconnect, and an event during the first fetch of a page joins that fetch. The status filter of the task list is applied after the page is cut, so a page may be short.
  Skills of one name and version overwrite each other's file, and installs that update the manifest at the same time may lose one.

### Bounds

Three task updates are enough for claim, release and a racing claim, or claim, expiry
and reclaim. Two daemons suffice for every race of a
pair, and the fold does not distinguish more. Three blocks of redemptions allow a
failed one, a complete retry and a second redemption of the same nonce; one other block per core
lets the creator promote and the other daemon remove or leave. In `RemoteRedeem` the other agent may be of each kind and the
rival stands for every further joiner; two correlations let an answer of an old round meet a new one. One link is enough because links share only
the view; its peer may be replaced by reconnecting. Two requests and a crash give every overlap of a pair in
`Registry`; two saves at once in `PactInfo`. In `Processes` a behaviour ends its
commands at the first overlap, since nothing is claimed afterwards; five commands allow start, kill, start, stop and start with an init between. In `readers` pages of
one put every boundary of a page between two entries, and four installs allow a lost update followed by two more.

`MaxClock`, `LastCall`, `MaxEntries`, `MaxRedeem`, `MaxOther`, `MaxWaiting`, `MaxTimers`, `MaxReads`, `MaxChanges`, `MaxPosted`,
`MaxMishaps`, `Slots`, `MaxCrashes`, `MaxCommands`, `MaxDrops`, `MaxInstalls` and `MaxKills` are bounds of the models; everything else is the code's. The
bounded runs stop, so deadlock is not checked.

### Fairness

Nothing is assumed of users, clients or daemons that may stop. `tasks`: every block is delivered and the clock ticks.
`membership`: Autobase orders the creator's blocks as long as it may. `remote_redeem`: timers fire, the command
broadcasts and tries again, and what is on the wire of a link that stays up arrives; that the creator answers is a hypothesis of `JoinSucceeds`. `peer_links`: timers fire, promises settle, destroyed sockets close,
and a message that is tried again and again is sent. `pact_info`: saves, appends and the view go on, the clock catches up, a stopped
daemon is started; other members keep updating the pact. `readers`: `update` is emitted, scans and the wait end, the client polls. These
hold in the code because timers are always set before a wait, replication is continuous
and the clients are loops. Strong fairness is assumed where a step needs a channel that comes and goes.

Each property has a mutant in `PROJECT.json`: a plausible mistake in one mapped definition
(a check dropped, the lock not taken, a reply before the second append, a comparison
turned round) that makes TLC find it violated.

## What is proved

The theorems hold for every value of the constants that meets the named assumptions; these say no more than
that names are distinct from the `None`s, that bounds are natural numbers, and where it
is needed that they are not zero, that daemons and entries are finitely many, and which constants belong together. Every proof has the same shape: an
inductive invariant, kept by the initial state and by each action (one lemma per action), from which the
properties follow. The invariants were checked by TLC before they were proved.

`TasksProofs`:

* `Invariant`, `TypeCorrect`. What TLC checks of causality. `Cores` says of every entry what it was appended after, what its handler had
  read, that this was a `Closed` set of entries, and that the check of the route passed on it; `Views` that what daemons have is closed as well.
  Proved of `Spec` and of `SyncedSpec`.
* `OpenTasksAreClaimable`, `AnswersStand`. Their content is in the fold. `reduceTaskHistory` is brought into the shape of a recursion on
  finite sets (`FoldsAgree`, `RawIs`). `SuffixStays`: once the fold is in a set of states that every
  later entry keeps, it ends there, whatever it has read before. `ClaimHolds`, `CompleteHolds` and `ReleaseHolds` use it: an entry that is new in its
  core, put anywhere in the order of the ids, has the effect that its route announced, because what sorts
  after it comes from other daemons, whose entries since cannot take the task away. The fold is any length;
  inductions are by least counterexample.
* `BoardImplemented`: every step is a step of `TaskBoard` or a stutter, as long as nothing is appended blindly; views may lag. What the board shows now is not
  inductive, because a release takes effect at its place among the ids: the fold starts again there, with the entries that sort after it
  (`SuffixFollows`). These are the entries of the daemons that rank above the one that releases, whenever they were appended. `OnBoard`
  says of every rank what the entries above it make of the task alone: below the holder's rank, the claim of the
  holder, of one time; from it on, an open task; once the task is complete, nothing more is needed. Claim, release, completion and the clock keep it (`ClaimOnBoard`, `ReleaseOnBoard`, `CompleteOnBoard`, `TimeOnBoard`),
  and a handler whose entry leaves nothing unseen has read the whole ledger (`ReadAll`).
* These theorems have the hypothesis `SameWidth`: the blocks of a core about the task have numbers with equally many digits.
  Without it they are false, which is 2 above; `BaseSeq` and `MaxEntries` meet it in the run `tasks`, and not in `tasks_tenth_entry`.

`MembershipProofs`:

* `TypeCorrect`. `TypeOK` is inductive with `Loaded`: whoever holds the lock has loaded a file in
  which its nonce is minted and nothing else.
* `AuthorityCorrect`. `AuthorityInv` says that every view but the first is `Settled` (keys equal
  Autobase's sets, some indexer, indexers are members), that the creator stays an indexer until it is
  removed, and that removals are never forgotten. The first block is the creator's, because nobody else
  is a writer of the empty ledger; each branch of `apply()` then keeps the sets in step, and the branch that
  would empty them is where Autobase throws.
* `SingleUseCorrect`. `SingleUse` alone is not inductive: it speaks of views, and what keeps it true is the order in
  which the lock lets blocks into one core. `InviteInv` adds that only the creator's core has
  redemptions and every admitting block follows one for the same key (`BlocksInv`), that a nonce is in at most one of them (`OnceInv`), that the
  view's spent keys are those of the redemptions seen (`SpentInv`), and what the holder of the lock has
  appended (`HolderInv`). These also survive the removal of the creator, whose later redemptions are not ordered at all; they end with `Readmitted`.
* `InvitesKept`. With `FreshInv` (what the holder of the lock loaded is what the file still says), no step
  loses an invite, a revocation or a spent mark, and nothing is redeemed after its revocation.
* `PromiseKept`. Every step is a step of `InviteService` or a stutter, unless the creator was readmitted: an append spends
  a nonce once, and the reply comes from the holder of the lock, whose redemption is the first one in the core.

`RemoteRedeemProofs`:

* `TypeCorrect`, `SuccessCorrect`, `GivenUpCorrect`. The inductive invariant `IInv` adds to `TypeOK` that every answer on the wire is
  backed by the state that it reports (`AnswersBacked`: a success only for the key the invite is spent for, a verdict only of an agent that may give it), and that what a
  command remembers is backed likewise (`CommandBacked`). It is needed because the command ends long
  after the creator acted, on an answer that may be of an earlier attempt; the facts backed never become false again.
* `PromiseKept`. Every step of `RemoteRedeem` is a step of `InviteService` or a stutter: `ImplementsInvites` for every instance.

`PeerLinksProofs`: `TypeCorrect`, `PresenceCorrect`, `GracePeriodCorrect`. Presence is true because a function that marks a link authenticated
holds a proof for the peer of that link (`KeysArePeers`) and finds the link still there. The grace period rests on `RevokeBacked`: a
revocation timer runs only for a key that has been out of the view. The rest of `IInv` ties a retry slot to its timer and a heartbeat to its link.

`RegistryProofs`: `TypeCorrect`, `RegistryLoads`, `OpenPactsAreRegistered`, `RegistryKeepsItsPacts`. `IInv` has `Apart`: two requests touch a
common alias only if it is suspect. For every busy request it has what file, directory and
map look like at that point of it, and for every clear alias that no request touches, that the three agree (`AliasOK`). A step of one request leaves the others alone
by `Apart` (`Frame`), which is why overlap is harmless where no hazard was met.

`ProcessesProofs`: `TypeCorrect`, `ReachableDaemon`, `TruthfulCommands`. As long as no two commands overlapped, one process is alive at most and one command busy
(`Quiet`); `StageOK` says, for each stage of a command, how far its process may be and what PID file and `daemon.json` hold. Kills are part of it: they
may come at any step.

`PactInfoProofs`: `TypeCorrect`, `PactNameSynced`, `NamesAreKept`. `ConfigIsKept` speaks of the moment when no save is under way; `Alone` and `Waiting` carry it through
the saves: as long as saves did not overlap, the newest one has captured, or will capture, what memory holds, and a request waits for its own. `Followed` does the same for the
name and the entry that was applied last.

`ReadersProofs`: `TypeCorrect`, `FeedExact`, `WalksListAll`, `FreshPages`, `HookTells`, `InstalledTrue`, each from the invariant of its reader and one of the view. The feed's says, in the
middle of a scan, which types were read when; the walk's, what lies behind its last key; the dashboard's, that a page which shows an old version has a frame, a fetch or a token
under way, or has missed one; the hook's, what the time it will write stands for; that of the installs, which file and which `.tmp` belong to which request.

Model-checked only:

* Liveness: `NoClaimDeadlock`, `ToldIsAdmitted`, `JoinSucceeds`, `MemberIsAuthed`, `FormerMemberIsCut`, `DeadPeerIsCut`, `DisplayNameSettles`, `FeedDelivers`. The prover has no
  rules for fairness and `ENABLED`.
* That the reducer computes what the code does: it is a translation, checked by review and by the runs.

## Plan

Every safety property of a passing run is a theorem. What theorems could still say more of: the board between two concurrent entries,
where `AnswerStands` speaks of the views only; ids of unequal width, where the order that follows the core is lost
and `AnswerStands` would need another escape; and several TTLs, one for each daemon.

## Not modelled

* Other HTTP routes (status, health, agents, knowledge, messages), entry schemas, error mapping, formatting, MCP tools, the site, and the
  pages of the dashboard beyond their query and event stream: they read, validate or render and keep no state
  that several actors change. They are most of the repository's lines, which is why the share of lines mapped here is small.
* Reading a task by id uses the default TTL instead of the configured one (`api/routes/tasks.ts:130`); it changes
  nothing. The TTL is the same on every daemon of the model.
* `openpact remove` without a daemon, service unit files, and the version check. PID reuse by other programs.
* Signatures, encryption, sockets, Autobase and Hypercore are external: modelled from how the code uses them.
