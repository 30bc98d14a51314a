# A TLA+ model of sherwood-hermes-plugin

The plugin lets one or more AI agents (Hermes processes) run an on-chain fund
together with the people of a Telegram group.  This directory holds TLA+ modules
translated from its source, TLC configurations that check them on small instances,
and TLAPS proofs of the properties that matter most for instances of any size.
`PROJECT.json` maps every definition to the lines it models.

## The system

| Component | State it keeps | Operations | What makes it correct |
|---|---|---|---|
| Fund coordination (`fund/service.py`, `rules.py`, `models.py`) | claims, proposals, receipts, agents, cooldown, in one JSON file | claim, release, draft, ship, set status, settle, request/approve/remove agent | slots and claims are exclusive, one proposal per agent, one receipt per settle, nothing starts in the cooldown |
| Chain sync (`service.apply_chain_card`, `telegram.ChainSync`) | nothing between reads | fetch a card, replace fund fields, move each proposal | what is not linked to the chain is left alone |
| Fund store (`fund/store.py`) | the file, its lock file | load, create, update | atomic, no lost update, every call ends |
| Agent roster | list of agent records | request, approve, register, remove | one role per name |
| Members and votes | member records, votes, backers | join, approve, link, vote, back | numbers in order, links that name a member, one voice each |
| Pitch flow (`telegram/flow.py`) | open pitches, index of messages, fires | message, reaction, "ship it" | one draft request per pitch; only standing fires count |
| Telegram cards (`fund/telegram.py`, `telegram/cards_live.py`, `handler.py`) | message ids, fingerprints, refresh job | post, edit, back button | one card, kept current, a job that ends |
| Tool gate (`fund/authz.py`, `guard.py`, `tools.py`, `hooks.py`, `risk.py`) | the host's id; Hermes' allowlist | guard, prompt, gate, locked check; risk check | nothing with the host's authority unasked or by another; what was judged alone is bounded |
| Stream supervisor (`supervisor.py`) | one task and child per fund, a status file | start, stop, respawn, teardown, boot | one stream, no orphan (but for the late children of Python 3.11), truthful file, recovery |
| Event pipeline (`router.py`, `handlers.py`, `event_buffer.py`, `hooks.py`) | LRU of message ids, ring of blocks | route, push, drain | a message once, the newest blocks, each to one turn |
| XMTP sidecar (`sidecar.py`, `__init__.py`, `bgloop.py`, `xmtp_sidecar/`) | pending calls, buffered answers, child process | start, call, post, stream, shutdown, teardown | answers reach their own callers, posts end, no process is left |
| Cron jobs (`cron_tick.py`, `cli_watchdog.py`, `cli.py`) | cursor file, last AUM, Hermes' jobs | tick, AUM watchdog, install-cron | no event skipped, alarms that are new, one job each |
| CLI, config, preflight, tx-builder, memory | files, HTTP | | formatting and I/O |

How they interact.  Agents never see each other's Telegram messages: the fund's
JSON file is their whole protocol, and each operation is one `backend.update()`
under an exclusive `flock`.  The Telegram bridge runs in the same process on other
threads: a pitch that earned its draft calls `request_draft`, every write to the
fund makes an observer post or refresh a card, a card that is read may start a
chain sync.  The agent's tool calls pass the hooks and Hermes' prompt before they
reach the service.  The supervisor's child and the sidecar stream events into the
router, whose blocks reach the agent's next turn; a chain event's summary goes out
through the sidecar.  Cron processes read the supervisor's status file and keep a
cursor of their own.

What is hard: several processes and threads on one file; a clock that is read
before the lock is waited for; checks made before an update and not again in it;
awaits inside handlers (host lookup, draft callback, prompt, `vault info`,
`wait_for`, an edit on its way); a request pipe shared under a lock; a cursor file
written by two processes; crashes, failed writes, `kill -9`, hangs and reboot; TTLs
and caps.  `PROJECT.json` lists these under "hazards", each at its line.

## Modules

| Module | Models | Actions correspond to |
|---|---|---|
| `FundLifecycle` | statuses, `TRANSITIONS`, `CHAIN_STATES` | pure definitions |
| `AgentRoles` | abstract: one role per agent name | request, approve, register, remove |
| `FundCoordination` | the fund's shared state and every operation on it, the governor (external), and the syncers | one action per service method; a sync is `SyncFetch`, `SyncFund`, `SyncLoad`, then `SyncCheck` and `SyncWrite` per row, `SyncAbort` |
| `FundRoster` | the list of agent records with its first-match lookups | request, approve (with or without a hash), remove |
| `AtomicFund` | abstract: what `FundStateBackend` promises | create, update, load in one step |
| `FundStore` | `LocalJsonBackend` with lock, temporary file and rename | one action per system call that others can see, plus `Crash` |
| `FundMembers` | member records, approvals with their links, votes and reviews on one proposal | one action per locked update and per read outside it (`Join`/`JoinWrite`, `ApproveBegin`/`Lookup`/`LinkWrite`/`Approve`/`HostLink`, `BackTap`/`BackWrite`) |
| `PitchFlow` | the pitch flow in one chat | one action per kind of message and reaction, split at awaits |
| `ProposalCards` | one proposal's card: observer, refresh job, back button, Telegram | one action per stretch between two awaits; an edit is asked for, carried out and answered in three |
| `ToolGate` | a tool call from the hook to its effect, rebinds, propose commands | `Turn`, `Guard`, `Prompt`, `Run`, a write action per kind of tool; `Command`, `Fetch`/`FetchFails`, `Create` |
| `StreamSupervisor` | one fund's supervise task, stop calls, status file, Hermes' life | one action per stretch between two awaits |
| `EventPipeline` | router with its dedupe, handlers, ring, turns | one action per record routed, push, drain and return |
| `SidecarRpc` | JSON-RPC client, node process, the coroutines that use it, start-up and teardown | `Write`, `Drain`, `Answered`, `Timeout`, `ReadResponse`, `ReadEvent`; `Spawn`, `Post`, `Shutdown`, `Reap`; `Submit`, `TeardownClose`, ...; `Handle`, `Crash`, `Hang`, `Recover` |
| `CronJobs` | cron ticks on the cursor file and the lock around it, the AUM watchdog, install-cron | one action per await, lock acquisition or file access; a process may be killed anywhere |
| `...Proofs` | theorems about the module of that name; `StreamProofs` about `EventPipeline` and `StreamSupervisor`, `TelegramProofs` about `ProposalCards` and `PitchFlow`, `FundStoreProofs` also about `FundRoster` | |
| `MC...` | constants and symmetry for TLC; `MCFiles` and `MCChat` put components that share no state in one run | |

`FundCoordination` extends `AgentRoles` and `FundLifecycle`.  It takes one
`backend.update()` as one step; `FundStore` implements `AtomicFund` (property
`Atomic`), which is why that is sound there and in `FundMembers`, `ToolGate` and
`ProposalCards`.  `FundRoster` implements `AgentRoles` (property `RolesKept`), which
is why `FundCoordination` may keep a role per name instead of a list of records.
`EventPipeline` takes a post as one wait; `SidecarRpc` shows that it ends.
`StatusFileTruth` includes what the stream watchdog of `cli_watchdog.py` concludes
from the supervisor's file.

Abstractions worth knowing:

- An operation that writes now may carry a stamp up to `LockWait` older
  (`Stamps`): `now = self.clock()` comes before the lock.
- Topics and names are already normalised.  Legs, envelope, bond, payloads and
  tallies are left out of `FundCoordination`.
- History variables are marked "history" where they are declared; no guard reads
  them.  `acked` in `FundStore`, `lost` in several modules, `asked` and `held` in
  `ToolGate`'s calls and the serial numbers of `SidecarRpc`'s calls are of this kind.
- `yields` in `StreamSupervisor` is what `asyncio.wait_for` does with a coroutine that
  would not suspend: Python 3.11 suspends, 3.12 and later do not.  It is either, fixed
  when the behaviour starts, as `pyproject.toml` allows both.  `late` (history) holds
  the children whose spawn returned for an object that a stop had already marked.
- `alive` in `StreamSupervisor` holds the children of the current Hermes process.
- In `PitchFlow` a message the flow is never shown (the agent's riff, a bot's or a
  stranger's) is of kind "riff"; a card is visible before the flow knows its id.
- `ToolGate` lets tools with the same checks be one, and separates behaviours about
  propose commands (`risk`) from the others, with which they share no state.  The
  vault's value is constant.  `CronJobs` likewise is about one of three jobs.
- `rest` in `ToolGate`'s actions stands for the arguments that are neither in
  `APPROVAL_KEYS` nor in the prompt.  A propose command has a true size and a `form`,
  what `_parse_propose_command` makes of it: the size, 0, a negative one, NaN, or no
  propose command at all.  `deployed` counts by how a proposal passed (`Passes`).
- `lock` in `CronJobs` is `_CURSOR_LOCK` as worker threads with a loop each use it: a
  free one is taken, the first contended call binds the lock to its loop and waits, a
  contended call of another loop raises, and a waiter goes on only if its loop
  happens to look.  The digest has a process, and so a lock, to itself.  `gone`
  (history) are the events that left a runner, delivered or lost with it.
- `ignored` in `PitchFlow` (history) are counted fires whose take-back was not acted on
  because their author was not authorized at that moment; `credited` adds them to
  those that stand.
- In `SidecarRpc` requests in a row that fail alike are one, and `drain` waits only
  while more than `PipeMax` requests are unread.  `stream_start` looks the group up a
  second time; the model takes both lookups to give the same group.
- The pitches of a chat are kept in the order of their message ids, which only grow, so
  `PitchFlow` keeps the set of the open ones.
- Nobody reads the order of a proposal's backers, objectors and reviews, but a list may
  hold an entry twice: `FundMembers` counts the entries.
- In `ProposalCards` a text is the version and status it was rendered from and the
  minutes left of the vote.

## Runs

Nine runs pass.  Two of them hold several components: these share no variable, and a
behaviour is about one of them and leaves the others at their start (`part`), so the
run is the sum of its parts and not their product.

| Run | What it shows |
|---|---|
| `FundLocal` | three agents, two slots, no chain reads: `SlotsBound`, `OnePerAgent`, `ReceiptPerSettle`, `CooldownRespected` |
| `FundSync` | two agents and a syncer: `ClaimsExclusive`, `RemovedHoldsNothing`, `UnlinkedStaysClosed` |
| `Files` | `FundStore`, two threads, crashes and failures: `AckedIsStored`, `Atomic` (refinement), `EveryCallEnds`; `FundRoster`: `RolesKept` (refinement); `StreamSupervisor`, on either Python: `OneStream`, `NoOrphan`, `StatusFileTruth`, `StreamRecovers`, `StopReturnsAlways` |
| `Chat` | `PitchFlow`: `IndexMatchesOpen`, `OncePerPitch`, `CountedFiresStand`; `EventPipeline`, two readers, two sessions: `DedupeHolds`, `RingKeepsNewest` |
| `FundMembers` | two approvals at once, app links, rebinds, taps and votes: `NumbersInOrder`, `LinkNamesMember`, `OneVoice` |
| `ProposalCards` | two observers, the job, a tap, a fault and a restart: `OneCard`, `FingerprintNotAhead`, `CardIsCurrent`, `JobStops` |
| `ToolGate` | two calls in flight, two people, the operator, another platform, a rebind: `AskedForThis`, `HostHeld`, `HostKept`, `WithinLimit` |
| `SidecarRpc` | a node process that answers late, hangs, recovers or dies: `OwnAnswer`, `NoEventDropped`, `PostsEnd`, `NodeGone` |
| `CronJobs` | a digest process and two tool calls on two funds' cursors, the AUM watchdog, two install-cron: `NothingSkipped`, `RepeatsNeedOverlap`, `AlarmIsNew`, `OneJobEach` |

Three runs end in a violation: each states what the repository says of itself and the
code does not do, next to the weaker property that holds.

| Run | What the repository says | What happens | What holds |
|---|---|---|---|
| `StreamPython311` | `OneSubprocess`: one subprocess per fund (`supervisor.py:1`), for Python 3.11 and later (`pyproject.toml:10`) | a stop suspends for a child that has exited, the task spawns the next one, the stop cancels the task without it, and a later start runs another beside it | `OneStream`, `NoOrphan` |
| `ToolGateAlways` | `AskedExactly`: an "Always" covers only that exact action (`src/README.md:337-339`) | a call goes through that differs in an argument the allowlist key leaves out | `AskedForThis` |
| `ToolGateLimit` | `JudgedWithinLimit`: the plugin blocks what exceeds half of the vault (`src/README.md:360-363`) | two commands judged beside each other pass together | `WithinLimit` |

`SlotsBound`, `OnePerAgent` and `ReceiptPerSettle` are checked without chain reads
because a sync does not keep them: see "Known divergences".  Every module has a
`TypeOK` (`FlowTypeOK`, `SupervisorTypeOK` and `RosterTypeOK` in the three that share a
module of proofs with another component); it belongs to the inductive invariants of
the proofs (or, where these define types of their own, documents the variables) and
is no property of a run.

### Bounds

- `FundLocal`: three agents for two slots, so that a slot is contended; two
  proposals, the number that may be open; a clock of three values with
  `ClaimTTL = 1`, `CooldownPeriod = 2` and `LockWait = 1`, so that claims expire,
  a cooldown begins and ends, and stamps are late.
- `FundSync`: one proposal and one syncer reach every interleaving of a sync with
  the operations on the row it moves; two agents and two topics keep claims
  contended.
- `Files`: two threads and three updates after the create give every overlap
  of two critical sections, with a third party's update in between.
  Three names and three wallets let a removed record stand in front of a live one
  with the same wallet; for more the theorem `RosterImplementsRoles` stands.  Three
  starts, three children, two stop calls and two boots: the third child is the one
  that runs beside a late one.  `ChildExits` leaves the last child alone unless it
  was stopped: the bound on children would otherwise end the stream and not the code.
- `FundMembers`: one person, two wallets, two approving threads, two hosts and one
  rebind: the person may be approved by id and by either wallet at once, with a link
  in between; two votes are enough for a vote to replace another.
- `Chat`: three messages, a threshold of two, two people besides the host, two kept
  pitches, a TTL that ends between two ticks, one take-back that is ignored.  Three
  ids with a capacity of two, so that one is forgotten and comes back; four blocks
  for a ring of two.
- `ProposalCards`: three writes to the record, so that one falls before, into and
  after an edit; two observers, one fault (a failed call, a deletion or a restart), a
  vote that ends after one minute.
- `ToolGate`: two calls in flight for two turns, one rebind; three proposals of up
  to half of the vault, each in every form.
- `SidecarRpc`: one poster besides Wire and Stop, a pipe that is full with one
  unread request: any two calls meet at the lock, at the pipe and at the reader.
- `CronJobs`: two funds in one file, three runners in two processes, two blocks; two
  jobs and two installers.

Symmetry is used only where no liveness property is checked: guests and topics in
`FundLocal`, topics in `FundSync`, people other than the host in `Chat`,
wallets, hosts and threads in `FundMembers`, calls in `ToolGate`, tool calls and
funds in `CronJobs`.

### Fairness

- `FundStore`: weak fairness of each thread's steps inside a call.  The lock is
  polled every 20 ms with a deadline, and the file operations end.  Which of
  acquiring and timing out happens is left open.
- `StreamSupervisor`: weak fairness of each task and each stop call, as the event
  loop runs what is ready and its timers fire, and strong fairness of `SpawnOk`: a
  spawn that is tried again and again succeeds at last.  Nothing is assumed of the
  child (it may ignore SIGTERM) or of those who call start and stop.
- `ProposalCards`: weak fairness of every coroutine that can go on and of the job
  queue.  Telegram answers an edit in the end, by success or failure (the client
  has a timeout).  Nobody has to write, tap, fail or restart.
- `SidecarRpc`: weak fairness of the plugin's loop (`Loop`: ready coroutines and
  timers), of the threads that start and tear it down (`Lifecycle`), and of the exit
  of a process that was told to and runs (`Exit`).  The process need not answer,
  recover or crash.
- The other specifications assume none; they are checked for safety only.

Deadlock is checked in `FundLocal` and `FundSync`.  The others end when their bounds
are used up or Hermes has ended.

## Proofs

All theorems hold for every value of the constants that the named assumptions
allow: bounds are naturals, the host is an agent, `MAX_OPEN_PER_AGENT` is 1
(`OneSlotAssumption`), the kinds of ids are disjoint.

`FundCoordinationProofs`

- `TypeCorrect`, `ClaimsAreExclusive`, `RemovedIsEmptyHanded` and
  `ClosedWithoutIdStaysClosed` are about `Spec`, syncs included.
  `ClaimsExclusive` is inductive with the types.  `RemovedHoldsNothing` also needs
  `SyncReady`: a syncer that is about to write has a target, and no target is
  "draft".  `UnlinkedStaysClosed` needs that every row a syncer holds was linked
  when it loaded, that links are never taken back (`SyncLinked`), and that ids not
  handed out yet are unused (`FreshIds`); together these are `ChainInv`.
- `OneReceiptPerSettle` allows for every status `set_proposal_status` takes, "settled"
  included: there is no receipt or one, and with one the proposal is settled.
- `SlotsNeverOversubscribed`, `OneOpenPerAgent`, `OneReceiptPerSettle` and
  `CooldownHolds` are about `LocalSpec`.  The slot bound is proved with the library's
  cardinality theorems from `FiniteClaims`: a claim takes a slot, a draft turns a
  claim into an open proposal, a transition never opens what was closed.
  `CooldownHolds` rests on `CooldownCovers`: the stored cooldown reaches at least to
  `quiet_until`, as a stamp is at most `LockWait` old.

`FundStoreProofs`

- `NoLostUpdate`, `ReadsAreMonotone` and `StoreIsAtomic` (the refinement of
  `AtomicFund`).  The inductive invariant `StoreInv` says that an exclusive holder is
  alone (`LockInv`), that a writer's copy is the file as it stands, or one mutation
  ahead of it (`MemInv`), and that what was acknowledged or seen is in the file
  (`OkInv`, `AckInv`, `SeenInv`).
- `RosterImplementsRoles`: `FundRoster` refines `AgentRoles`.  `RosterInv` says that
  the names in the list are distinct, and that the record with the host's name, and no
  other, has the host's role and stays registered.  Every call replaces one record in
  place, appends one or moves one to the end (`Replaced`), which changes one role; that
  lookups by wallet may find another agent's record is part of it.

`StreamProofs`

- `NewestAreKept`.  `RingInv` adds that every block outside the ring is at most
  `mark` and in one place, and that the ring starts after `mark`.
- `DuplicatesAreDropped` from `DedupeInv`: the LRU holds no id twice; an id that arrived
  is in it, or `DedupeCapacity` others arrived since; and what stands behind an id in it
  arrived after it, so that the one evicted is the one with most others since.
- `NothingIsOrphaned` and `AtMostOneStream`, on every Python.  The invariant
  `StreamInv` adds to the types and `NoOrphan` that every object but the newest is
  done (`NewestOnly`), that a stop in its grace period holds the child of its object,
  unless that object has spawned a late one since (`GraceInv`), and that an object a
  stop has marked spawns nothing where `wait_for` does not suspend (`MarkedInv`).  The
  last fact is what Python 3.11 breaks: `NoOrphan` says that there are no late
  children elsewhere.
- `StatusFileIsTrue`, on every Python as well.  `TruthInv` says what the row
  is at each point of the newest object's task, and that it is gone when a stop has
  returned (`FileInv`), and that a stop call names an object that exists (`CallInv`).

`TelegramProofs`

- `NeverTwoCards`, `SkippedEditsNotNeeded` and `QuietCardIsCurrent` from `CardInv`: it
  follows the version a coroutine carries from its read to its edit (`Carries`), lets
  only the observer in the lock post (`LockInv`), accounts for every message by the
  stored id, one in hand or a lost one (`CountInv`), and says that a card behind its
  record has an event or a coroutine on its way that brings the newer one (`CoverInv`).
- `IndexIsOpen`, `DraftedOnce` and `OnlyStandingFiresCount` from `FlowInv`: the index
  and the open pitches match (`Indexed`), counted reactions stand, on messages
  indexed under their pitch, or were taken back by somebody not authorized
  (`Standing`), a pitch whose callback was started is drafted
  (`Started`), and a callback that has not ended has recorded nothing (`Recorded`).

`FundMembersProofs`

- `OneVoiceEach` from `VoiceInv` and the invariant on the records: a vote first takes
  back whatever its voice said, and a record that has voted keeps its voice.
- `NumbersAreInOrder` and `LinksNameMembers`.  Every write only adds records or
  fills in a wallet (`Grows`), so the first record of a person stays the first.
  `Informed` says of a thread that is about to make the button's link that it has
  seen that record approved; without it the second read could find anybody.

`ToolGateProofs`

- `NothingUnasked`, `OnlyTheHost`, `HostIsKept` and `ExposureStaysWithin` follow from
  `GateInvariant`.  `GateInv` says what a call has behind it at each point of its way
  (`Cleared`) and that at most one proposal that was judged alone is under way, and
  fits beside those deployed (`OneAtATime`), whatever passes unread, misread or beside
  it; the properties speak only of what was written or deployed.

`SidecarRpcProofs`

- `AnswersAreOwn` and `EveryEventHasAPlace`.  `RpcInv` says that everywhere a request
  or an answer may be, its id is the number of its call (`Ids`), that a coroutine's
  own id is, too (`Tasks`), and that from the request for the stream on, callback and
  map are in place (`Wired`).

`CronJobsProofs`

- `NoEventSkipped` from `CursorInv`: the copies of cursors and of the whole file that
  ticks carry are as safe as the file.  `NoJobTwice` from `InstallInv`: what an
  installer knows of the jobs is what is there, as long as it is alone.
  `AlarmsAreNew`, an action property, from `AumInv`; `NoTickUnseen` says that every
  AUM tick is a step of `alarm`, so that it speaks of a repeated alert, too.
- `NoRepeatWithoutOverlap` from `OnceInv`: while nothing overlapped, what a tick carries
  is the file as it stands, no two ticks share a fund, one runner at most saves, and
  every event that was found lies behind the cursor (`Exclusive`).  Nothing in it rests
  on the lock, which does not exclude what runs on other loops.

A module of proofs about two components extends both, which is why `PitchFlow`,
`StreamSupervisor` and `FundRoster` name their specifications `FlowSpec`,
`SupervisorSpec` and `RosterSpec`; so do `MCFiles` and `MCChat`.  The components share
no variable.

Only model-checked: the liveness properties (`EveryCallEnds`, `StreamRecovers`,
`StopReturnsAlways`, `JobStops`, `PostsEnd`, `NodeGone`), since fairness and ENABLED
are beyond the prover.  Every safety property of the
passing runs is a theorem.

## Known divergences

What the models show about the code that a reader of its docs may not expect.  Three
of these have a run of their own; the others show in the wording of the properties.

- A sync checks a transition against the snapshot it loaded and writes it in a later
  update (`service.py:740`): a card fetched before a veto reopens the proposal, and
  its cooldown replaces the one the veto started (`service.py:706`).
- `set_proposal_status` takes any status the transitions allow, "settled" included: the
  tool's handler passes on what it is given (`tools.py:426-438`, `service.py:616`).  A
  proposal settled so has no receipt and starts no cooldown, although the field is
  "set when a proposal is vetoed or settled" (`models.py:111`) and "Settles stay with
  `record_settle`" (`service.py:686`), which then refuses the proposal.
- A removed agent's record stays in the list and may hide a live one with the same
  wallet (`service.py:243`).
- A fire taken back by somebody who is not authorized at that moment goes on counting
  (`flow.py:340`).
- When the store is busy the chat is told to react again, but the pitch stays drafted
  (`flow.py:381`, `fund/telegram.py:876`); a reaction to an indexed message revives
  an expired pitch until something prunes it (`flow.py:244`).
- On Python 3.11 `wait_for` suspends for a process that has exited, and a stop may
  leave the next child running beside another's (`supervisor.py:119`, run
  `StreamPython311`).
- `clear_stale_status` leaves the file as it is when it cannot read it or the writer's
  pid is in use again (`supervisor.py:172-188`): the watchdog then believes it.
- `start()` during a stop's grace period finds the old task alive and starts nothing
  (`supervisor.py:92`).  With Hermes up the stream watchdog reports a stream dead only
  while an exit is being noticed, during the first spawn or while a stop is under way.
- Two cards exist when the id of the first was lost before it reached the store; the
  edit of a tap or of the job may land after a later one and stays until the next
  event; a deleted card is never posted again.
- Two members may share a wallet, one known by id, the other by the wallet alone.
- `sidecar.call` drains under its lock without a timeout; a future is left in
  `_pending` when the write fails, an answer that comes late stays in the buffer.
  Neither meets another call.  A sidecar that teardown had no time for is left to the
  operating system, which a process that hangs outlives.
- A message comes twice when 128 others came in between; messages without an id are
  taken for one.
- `_CURSOR_LOCK` is an `asyncio.Lock`, and every tool call has a loop of its own
  (`bgloop.py:3-8`, `tools.py:83`): contended, it raises `RuntimeError`, or waits for a
  wake-up that another thread does not send, after which every contended call raises.
  The digest's process has a lock of its own, so the comment at `cron_tick.py:19-23`
  holds within one loop only.
- The AUM alarm rings at exactly the threshold (`>=`, `cli_watchdog.py:224`), where the
  docs say "more than" (`src/README.md:407`) and "exceeds" (`cli_watchdog.py:12`).
- Two overlapping ticks, or two processes, may report an event twice; the cursor is
  saved before delivery, so that what a killed process held is lost.  Two
  install-cron at once may register a job twice.
- The key of an "Always" leaves out `host_address`, `metadata_uri`, `card_message_id`
  and `note` (`authz.py:69-83`): another call may differ in them (run `ToolGateAlways`).
- The risk check counts what is deployed, not what is proposed: two commands under
  way may pass together (run `ToolGateLimit`).  It lets a command through when the
  vault cannot be read, and when it cannot read the command: a size that is missing,
  no number or written with "=" is 0, a negative or NaN one passes, and what `shlex`
  refuses is not judged at all (`hooks.py:160-190`).
- `record_settle` and `set_proposal_status` check the caller before the update only;
  a rebind in between is not seen.  Approvals and removals check again inside.

## Not modelled

- Rendering of cards and messages, argument parsing, schemas, configuration,
  preflight, key derivation, signing, memory notes: formatting and I/O.
- `fund/txbuilder.py`: an HTTP client; what it reports is an input of
  `FundCoordination`.
- The HTTP backend (a stub whose methods raise) and the marker-file lock for Windows.
- Tallies, veto shares and the chain's order of members: they are replaced as a
  whole by what a card says.
- The context queue of the agent's turn (`fund/telegram.py:914`): a list that two
  threads append to and clear; under the interpreter's lock each step is atomic, and
  what could be lost is a line of context.
- A write of the status file that fails (`supervisor.py:219` swallows it).
- Two Hermes processes on one status file (`supervisor.py:212`), and children of a
  killed one: nothing in the code tracks them.
- The wallet that `registerAgent` really registered: the host signs in the app, and
  the repository does not see it.
