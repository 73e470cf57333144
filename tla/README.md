# Live-kit voice agent: TLA+ verification project

The repository is a multi-tenant voice-agent platform. Calls arrive over SIP through
LiveKit; an **AI agent worker** (`services/ai-agent-worker/worker`, asyncio) talks to the
caller, runs tools and can hand the call to a human; a **configuration API**
(`services/configuration-api/app`, FastAPI and PostgreSQL) keeps tenants, agents, trunks
and users; **shared** holds the enums and helpers; the **frontend** is its web client.

This directory holds TLA+ models of the parts with the hardest control flow, the TLC
configurations that check them, and TLAPS proofs of the results that matter most.
`PROJECT.json` lists components, runs, mutants, the source lines behind every
definition, the hazards and the theorems.

## 1. Inventory

| Component | State | Operations | Hard because | Module |
|---|---|---|---|---|
| Warm-transfer engine (`transfer/`) | `_status`, `_task`, `_abandoned`, `_human_left`, `_bridged`, tracks; `calls.transfer_status` | `request`, `_run`, `_on_answered`, `_bridge`, `_fail`, `abandon`, `aclose` | every database write is an await; up to three coroutines write one column | `WarmTransfer`, `TransferPromise` |
| Call-state tracker (`call_state.py`) | `_state`; `calls.state` | `transition` | check, await, set | `WarmTransfer`, `CallLifecycle` |
| Transfer audio tracks (`transfer/audio.py`) | `_generation`, `_source`, `_playing` | `play`, `loop`, `stop`, `aclose` | a task cancelled from inside itself; frames in flight | `IsolatedTrack` |
| Call lifecycle, admission (`entrypoint.py`, `config_loader.py`) | the job, handlers, watchdog, recording, `calls`, `usage` | await the caller, limits, insert, set up, wait, complete, close, bill | hang-up at any await; limits read before the insert; cancellation and kills | `CallLifecycle` |
| Conversation (`ConfigurableAgent`, `memory.py`, `filler_track.py`, `tools/`) | recent turns, summary, filler task, per-call counters, tickets | turn, roll, arm, stop, invoke, `create_ticket` | tool calls in parallel, numbers by MAX+1 and COUNT+1, late clips | `Conversation` |
| Call routing (`worker/routing.py`) and its console (`api/v1/routing.py`) | rules, schedules, pinned numbers | `resolve_route`; CRUD of rules and schedules | four reads against concurrent edits; long decision chain | `RoutingDecision`, `Routing` |
| Circuit breaker (`resilience/__init__.py`) | `_state`, counts, `_opened_at` | `is_open`, `record_success`, `record_failure` | requests in flight across state changes | `CircuitBreaker` |
| Call observer (`pipeline/observer.py`) | `_queue`, `_sequence`, `_dropped`, `_flusher` | record, flush, drain, close | bounded queue, failed batches, cancellation inside a write | `CallObserver` |
| SIP trunk sync and drift (`livekit/`, `sip_trunks.py`, `dispatch_rules.py`, `phone_numbers.py`) | rows with `sync_status`, LiveKit resources, in-memory tasks | create, edit, assign, delete, sync, repair, list, compare, apply | background jobs, answers that get lost, restarts, stale snapshots | `TrunkSync` |
| Agents and versions (`api/v1/agents.py`) | version states and contents, published id | save, publish, roll back, delete, load | READ COMMITTED requests that overlap | `AgentVersions` |
| Accounts (`auth_service.py`, `dependencies.py`, `security.py`, `admin.py`, `platform.py`) | users, roles, `tokens_valid_from`, tokens | sign in, refresh, create, change role, disable, reset, delete, suspend | tokens of one-second resolution; guards evaluated on stale rows | `Accounts` |
| Catalogue and keys (`catalog.py`, `platform.py`) | provider, models, default, keys with their tick | store, verify, create, update, delete | probes and defaults against other requests | `Catalogue` |
| Knowledge (`tools.py`, `knowledge_ingest.py`, `object_store.py`) | bases, documents, chunks, files | upload, ingest, reindex, remove | the file is outside the transaction | `Knowledge` |
| Tools, import/export, seed, CLI (`tools.py`, `tenant_impex.py`, `seed.py`, `cli.py`) | tools, grants, bundle | export, import, seed, set-agent-provider, set-credential | references by name across deletions | `TenantBundle` |
| Provider adapters, health, settings, fleet, previews, CRUD of PBXs and destinations, models, migrations, frontend | | | little control flow of their own | none, see 7 |

### How a call runs

The job of a call waits for the caller, checks the tenant's limits, reads the route, the
agent's version, its tools and keys, inserts the call row, opens the session, registers its
handlers and waits until the caller leaves, the watchdog ends the call or the room closes.
During the call the language model may call tools, among them `transfer_call`: the engine
then announces, starts the hold track, dials, whispers and bridges, or fails and says so.
At the end `_run_call` abandons a transfer that is not bridged, completes the row, stops the
recording, closes the observer and the engine, and does its bookkeeping. Within a call
everything is a coroutine of one event loop, so a step runs to its next await; different
calls and the configuration API meet in PostgreSQL only, under READ COMMITTED.

## 2. Modules

| Module | Models | Extends / composes |
|---|---|---|
| `CallEnums` | the two transition tables of `shared/models/enums.py` | |
| `WarmTransfer` | engine, tracker and end of the call, composed over the variables they share | `CallEnums`; implements `TransferPromise` |
| `TransferPromise` | the abstract specification: what the caller is promised | |
| `IsolatedTrack` | one hold or whisper track | |
| `CallLifecycle` | the calls of one tenant, each a process of its own | `CallEnums` |
| `Conversation` | one conversation with memory, filler, tools and the tickets of the tenant | |
| `RoutingDecision` | `resolve_route` as operators on the rows it read | |
| `Routing` | the console's edits and the calls that read while they commit | `RoutingDecision` |
| `CircuitBreaker`, `CallObserver` | the breaker with its transport, the recorder | |
| `TrunkSync` | a trunk, its numbers and its rule, LiveKit, jobs, drift checks | |
| `AgentVersions` | one agent, its versions, its number, a call that loads it | |
| `Accounts` | staff, members, tokens, requests | |
| `Catalogue` → `Knowledge` → `TenantBundle` | a tenant's configuration; each extends the one before and adds its requests, so that all of them overlap | |
| `WarmTransferProofs`, `CallLifecycleProofs`, `RoutingProofs`, `TrunkSyncProofs`, `AccountsProofs`, `AgentVersionsProofs`, `TenantBundleProofs` | theorems | their module and `TLAPS` |
| `WorkerPartsProofs` | theorems about the parts of the worker without proofs of their own: `CircuitBreaker`, `IsolatedTrack`, `CallObserver`, `Conversation` | those modules and `TLAPS` |
| `MC...` | model values for TLC | |

An operator whose comment begins with "Mutant:" is a changed form of the definition after
it, kept for section 5; nothing else uses it.

### Conventions

* **Worker code.** An action is what a coroutine does between two awaits; `pc` names the
  await where it stands.
* **API code.** A request is a transaction at READ COMMITTED: one action reads and checks
  (`Begin...`, `Opens`, `Check...`), another commits what changed, and other requests
  commit in between. A write changes only the columns the ORM found dirty. Unique and
  foreign-key constraints are tested when the write happens.
* **History variables** (`calm`, `troubled`, `clean`, `torn`, `slipped`, `late`, `lost`,
  `stranded`, `beaten`) record that something overlapped or failed. Where a property speaks only of executions without
  such a thing, the code really does break it otherwise; section 6 says how.
* **Bounds** are the CONSTANTS named `Max...`, `Parallel`, `Moments` and the sets.

### WarmTransfer

* A process `p \in Reqs` is one execution of `transfer_call` and the `_run` it creates;
  `Main` is `_run_call` from the moment the conversation is in progress.
* A status write is three steps: the action checks legality in memory and sends the
  write (`write[p]`), `Commit` changes the row, `Settle` changes the in-memory copy.
  `patch` writes the status it read and settles nothing. `WriteFails` loses a write
  before it commits; the exception goes where the code's handlers send it.
* `PlanFallback` is `plan_fallback` with the retry it returns (or none, which is a
  hang-up).
* `hold`, `muted`, `ai`, `heard`, `room`, `caller`, `human` are the world the engine
  acts on. `muted` is the subscription permission that names the hold track: the caller
  no longer hears the AI session.
* The bridge is one action per await: `StopHold`, `Unmute` (the caller may hear every track
  again, the AI's too), `JoinLegs`, `LeaveAi`, `BridgeFlag`, `BridgeState`. `_announce` with
  `_start_hold` is one step although it contains awaits: no other coroutine reads what it
  changes half way, except a failure, which is `PublishFails`.
* `ai` is `open`, `closed`, or `failed` when `session.aclose()` raised, which `_leave_ai`
  swallows (`LeaveAiFails`): the run goes on to the bridge with a session that may be open.
  `stranded` remembers a `room.disconnect()` that raised, which `_hangup` swallows
  (`HangupFails`). `PublishFails` covers the tracks and permissions of the announcement, the
  apology, the whisper and the bridge.
* `aclose` is two steps: `MainClose` cancels a task that runs and waits (`reaping`), `Unwind`
  is the CancelledError that reaches the task's await, and `MainReap` goes on when the task is
  gone. The write the task was in may have landed or not.
* What people and phones do is chosen by `Disturbances`, so that a run can say which it
  admits. `MaxFaults` bounds all the failures together.

`TransferPromise` has the phase of the caller, `ai`, `connecting`, `handover`, `human`, `over`,
and `broken`. A caller on hold reaches the agent through a hand-over, in which every track can
be heard and the AI has not left yet, or the call ends; the caller is never left with the AI
alone again, and stays on hold for ever only when the engine broke off. The refinement mapping
computes the phase (`CallerPhase`) from `ended`, `bridged`, `muted` and where the bridge stands,
and puts `Stuck` for `broken`: the task died in its own exception handler, the room could not
be left, or `plan_fallback` named a destination when nothing dials any more. `KeepsPromise` is
the refinement with its liveness.

### CallLifecycle

`pc[c]` is the await of `entrypoint` or `_run_call` at which a call stands: awaiting the
caller, the two limit queries, the route, loading, opening, starting, recording, talking,
then completing or failing, closing and accounting. The caller may leave in all of them,
but is only `noticed` once the handlers are registered. `Kill` ends a process, `Cancel` a
job, and a step may fail (`MaxFaults`); `troubled` holds the calls that lost a step no
handler makes up for. `Stored` and `Active` are the rows the limit queries count; the minutes
of the month are not counted in the model, so `CheckDaily` may refuse any call on their account.

### Conversation, Routing, AgentVersions, Accounts

* `Conversation`: `phase` is where the session is in a turn; turns, their numbers and the
  set the summary was made from replace texts. A tool call is `none`, `filing`, `asking`,
  `ok` or `failed`; `Rival` and `Desk` file tickets of the same tenant from another call and from
  the console.
* `Routing`: a call reads number, rules, schedules and agent in four steps
  (`Arrive`, `ReadRules`, `ReadHours`, `Resolve`). A deletion is two steps, the look for users
  and the delete (`CheckRule`/`DropRule`, `CheckHours`/`DropHours`, `CheckAgent`/`DropAgent`);
  `slipped` and `late` hold what was attached between them. The calendar is a week of days with
  `DaySlots` slots; a timezone is an offset in slots.
* `AgentVersions`: a version's content is one column that must not be empty and the tool
  grants, so that validation and the two-step load of a call have something to see.
* `Accounts`: the clock counts half seconds, so that a token (whole seconds) and a revocation
  (exact) can differ. A request that revokes takes its instant (`Instant`) when it begins, as
  the handlers do, and writes it at its commit; `overtaken` marks a revocation that another one
  of the same account passed on the way. A realm is the platform's staff or the tenant's members.

### TrunkSync

Two rows (trunk, dispatch rule), the numbers assigned to the trunk, and `live`, what LiveKit
holds. A handler marks a row PENDING and starts a job, which loads the row, calls LiveKit
and commits; a call may fail before or after LiveKit has acted (`Fault`). A row whose update
is flushed and not committed is locked. The drift check is list, compare, apply. `Crash`
loses the jobs and the check, not the rows; `Dies` is a job that an exception other than a
`LiveKitError` ends, which `_guarded` only logs. `lost` holds the rows whose job went either way.

### Catalogue, Knowledge, TenantBundle

`req[r]` is one request: where it stands, what it asks for, what it read, and whether
anybody committed since (`clean`). `work` is a bound: the kinds of requests one behaviour
mixes, so that four requests overlap without every product being explored. Ids are the
request that made the row, which is enough to tell a row from its successor. The row sets
(`EntryRow`, `KeyRow`, `BaseRow`, ...) are the columns a property tells apart, and the
assumptions say that `None` is none of them, that a tenant saves well-formed contents and that
a database before the run holds well-formed rows.

## 3. Runs

| Run | Question | Bounds and why they suffice |
|---|---|---|
| `transfer_core` | the promise, the preparation of the bridge, the status row, the end of the call | one tool call, two destinations, a fallback that ends in a hang-up, one fault of any kind, caller/agent/watchdog at any await. The race partners are `_run` and `Main`; one fault reaches each handler |
| `transfer_retry` | the retry of a queue: does it end, does the row run ahead | two destinations so that a retry exists; nobody ends the call; two faults so that the handler's own write can fail too |
| `breaker_core` | counters, recovery, cut-off | three requests in flight, thresholds 3 and 2: a late failure, a late success and a probe fit together |
| `observer_core` | order, account, liveness | six utterances, queue of three, batch of two, two faults: overflow, several batches and a close inside a write |
| `hold_core` | generations | two speakers, two loops, two stops |
| `calls` | limits, what a call leaves behind, its end | three calls against limits of one and two, two of them between check and insert; one watched, one recorded, one with a transfer; one fault |
| `conversation` | memory, filler, limits, tickets | three turns with a roll every two, two ticket calls and one API call, a rival and the desk, one deletion: a roll that fails and one that works, a race of numbers, a gap in them |
| `routing` | the decision against the rows | two rules, two schedules, two agents, two instants, two edits that overlap with one call |
| `trunk_sync` | mirror, honesty, orphans | one number, two concurrent jobs, two operations or failures; each pair of an operation with another, a failure, an exception or a restart |
| `agent_versions` | versions under races | two requests that overlap, up to three versions, one call |
| `accounts` | revocation, roles, lock-out | two staff, three members of which two share an address, three requests, one second in half seconds |
| `provisioning` | keys, catalogue, knowledge, bundle | four interchangeable requests, two entries, keys, labels and embedding models, one document, four versions |

`CHECK_DEADLOCK FALSE` is set where the modelled thing ends or its bounded operations are
used up. The breaker never stops, so its run checks deadlock.

`SYMMETRY` is used over requests that start alike, in runs without liveness properties.

### What the properties say

* `transfer_core`: `PreparedBridge` (TR-4, TR-5), `KeepsPromise`, `NothingAfterClose`,
  `ConnectedNotHungUp` (TR-8), `RowStatusLegal` (the row moves along its table until the end
  of the call abandons the transfer), `EndedCallCloses`.
* `transfer_retry`: `RowNeverAheadOfBridge`, `NotLeftInSilence` (TR-2, TR-10: with the
  exceptions `Stuck` names, section 6).
* `breaker_core`: `CountersBelowThreshold`, `RecoveredProviderIsUsed`, `DeadProviderIsCutOff` (as
  long as failures go on being recorded).
* `observer_core`: `TranscriptSound` (types, order, account, the batch of the close) and
  `QueueKeepsMoving`.
* `hold_core`: `TrackSound` (types, who was silenced writes nothing) and `OneVoice`.
* `calls`: `OvershootBounded` (limits may be overshot, by how much at most), `ClosedClean`
  (row, recording, counters and bill of a finished call), `CallsEnd` (the watchdog).
* `conversation`: `RecordsSound` (nothing said is forgotten, memory is bounded, a ticket the
  caller was told of exists), `FillerYields`, `LimitHolds`, `RefusedForACause`.
* `routing`: `NeverOutOfHours` (by the schedule's own timezone), `BestRule` (no rule is shadowed), `DetachedOnlyInRace`,
  `RowsSound` (a week is one save).
* `trunk_sync`: `RowsSound` (a PENDING row has a job, unless one was lost), `EventuallyHonest` (spec 46),
  `OrphansReported`, `ChangeReachesLiveKit`.
* `agent_versions`: `VersionsSound` (one draft, and it is the newest; what is live is
  published), `CallIsOneVersion`, `PublishedImmutable`, `NothingInvalidGoesLive` (spec 63).
* `accounts`: `RevokedStaysOut` (a revoked session is not admitted again, but for a refresh or an
  overtaken revocation), `AccountsSound` (a role for each account, an account for each
  address), `LockoutNeedsStaleAuthor`.
* `provisioning`: `RowsSound` (a tick is earned, what is named exists, a visible document has
  its file), `ImportRestores`, `KeepsToItsOwn` (defaults, embedding spaces, seeds, deletions).

### Fairness

* `WarmTransfer`: weak fairness of every run step, of `Main` and of each coroutine's
  write: the event loop runs what is ready, and a write, a dial (`ring_timeout_seconds`)
  and a whisper (`max_seconds`) end. Nobody is obliged to call a tool, press a key or
  hang up, and no fault is obliged to happen.
* `CircuitBreaker`: weak fairness of requests and of time; strong fairness of the answers of a
  provider that is up, since a request may be cancelled, but not every one always is. None of
  the failures of one that is down: `ATTEMPT_TIMEOUT` (10 or 12 s, `resilience/__init__.py:96-100`)
  cancels a silent request before its read timeout (30 to 120 s, `:86-90`), and a cancelled
  request records nothing. `DeadProviderIsCutOff` therefore assumes that failures go on being
  recorded.
* `CallObserver`: weak fairness of the flusher and its writes, none of `Close`.
* `IsolatedTrack`: weak fairness of what the event loop runs and of synthesis.
* `CallLifecycle`: weak fairness of each call's own steps and of its watchdog's timer; none
  of a hang-up, which is why a call without a watchdog whose caller left unnoticed may last.
* `TrunkSync`: weak fairness of each job (LiveKit answers or times out), of a started
  deletion and of the drift loop's three steps; none of an administrator, a failure or a
  restart.
* The other modules state safety only.

## 4. Proofs

`WarmTransferProofs` proves for every set of tool calls, destinations, fallback, set of
disturbances and number of faults, from `TransferAssumption` alone:

* `TypeCorrect`: `Spec => []TypeOK`. One lemma per helper that actions share (`Goto`,
  `Send`, `Fail`, `Raise`, `AdvanceOrRaise`, `TransitionOrSkip`, `Abandon`), one step
  per action.
* `RowFollowsBridge`: `Spec => []RowNeverAheadOfBridge`. The property is not inductive:
  BRIDGED reaches the row through a write in flight, which may have been sent by
  `_advance` or by a `patch` that read the in-memory status. `BridgeInv` says that
  every carrier of BRIDGED (the row, the in-memory status and any status write on its
  way) implies `bridged` and a session whose `aclose` was called (`ai # "open"`: it may have
  failed), and that a coroutine at `flagging` has called it. `bridged` is never reset and the session never reopened, so each conjunct
  is preserved by every step; the lemmas split the steps into those that touch none of
  these (quiet steps), those that send a write, and the bridge itself.
* `PromiseKept`: `Spec => Promise!Init /\ [][Promise!Next]_CallerPhase`, the refinement
  without its liveness. Every step is first put into one of five classes with a contract
  of what it may change (`RunContract`, `MainContract`, `BrokenContract`, `StepCases`);
  `After(l)` is the graph of the awaits. `HoldInv` is the strengthening: whoever is between
  the announcement and the hand-over has the caller on hold, unless the call ended, is bridged
  or another transfer got as far as the hand-over; and nobody awaits a write on the last steps
  to the bridge, so that a hand-over that began cannot be given up.

The other four say what one transfer on the call does (`ASSUME NEW r, Reqs = {r}`). They are
false of two: two requests that both read NOT_REQUESTED start two tasks, of which `aclose`
knows one, and each overwrites what the other wrote (section 6).

* `ClosedMeansStopped`: `Spec => NothingAfterClose`. `TaskInv`: the task that `aclose` cancels
  is the one that runs, or that ended with a write in flight whose failure would revive it.
  `PlacesInv`: a task is on its way out only while `aclose` waits for it.
* `RowMovesLegally`: `Spec => RowStatusLegal`. `RowInv`: until the end of the call the row is
  what the engine remembers, or what the write between its commit and its return carries;
  a write not committed yet is legal from the status remembered.
* `BridgedStaysConnected`: `Spec => ConnectedNotHungUp`. `HangUpInv`: the bridge is reached with
  WHISPERING_SUMMARY remembered or on its way, so BRIDGED is legal and the engine fails a
  bridged call only after the end of the call began, which takes a leg that left.
* `BridgeIsPrepared`: `Spec => []PreparedBridge`, where the caller presses no digit and no
  synthesis breaks off, the two things `PreparedBridge` does not survive (section 6). `LoopInv`
  and `BriefInv` follow the preparation from the whisper to the flag.

`CallLifecycleProofs` proves for every finite set of calls, all limits, every choice of
watched, recorded and handed calls and any number of faults, from `CallsAssumption` alone:

* `CallTypes`: `Spec => []TypeOK`, among it that a process counts 0 or 1 calls and that the
  usage row never leaves the naturals.
* `LimitsOvershootBounded`: `Spec => []OvershootBounded`. `IInv` adds to the types:
  `RowsFit` (a call has a row exactly from its insert on, a terminal one exactly when its
  process no longer moves it), `CountsFit`, and `Bounds`: the calls that hold a row together
  with those that have passed the check. A call passes a check only if the rows plus those
  that may still insert stay below limit plus `Parallel`; an insert moves a call from one
  set to the other, so the sum does not grow; everything else only shrinks it. The
  cardinality steps cite the library's facts on finite sets.

* `CallsLeaveClean`: `Spec => []ClosedClean`. `Books` adds what each place owes a finished
  call (`Neat`: a terminal row from `closing` on, a recording that runs only until
  `accounting`, a `call_recordings` row exactly when the call is done and was recorded) and
  `Billed`: the usage row counts the calls that ended, by outcome. Only `Account` adds a
  call to those that are billed, and it adds one; any other way to the end has no row or
  loses a step.

`WorkerPartsProofs` proves about three parts of the worker. For every set of requests and any
thresholds of the breaker, from `BreakerAssumption` alone:

* `BreakerTypeCorrect`: `BreakerSpec => []BreakerTypeOK`; the floor in `record_success` is what
  keeps the failure count a natural number.
* `CountersCorrect`: `BreakerSpec => []CountersBelowThreshold`. Inductive with the types: every
  way into closed or half-open resets the count that state watches, and every step that
  raises it leaves the state at the threshold.
* `OpenCountCorrect`: `BreakerSpec => OpenCountBounded`. The breaker opens on the answer of a
  request with a zero count, and while it is open the gate adds nothing to the requests
  in flight, so each failure counted is one request fewer (`AnswerLeaves`). The count is thus
  bounded by the requests past the gate when it opened, not by the connections of a pool: the
  gate comes first (`resilience/__init__.py:241`), and clients of one endpoint share a breaker.

For every queue limit, batch size and number of utterances and of failed writes of the
observer, from `ObserverAssumption` alone:

* `TranscriptHolds`: `ObserverSpec => []TranscriptSound`. Order is kept as `Parted`, said of table,
  batch and queue one by one, so that a failed write may drop the batch; `PartsInOrder`
  puts them together again. For the batch of the close, `Owed` says that what `aclose` found
  stands at the front of the queue and then fills the batch.

For every set of speakers and loops and any number of stops of a track, from `TrackAssumption`
alone:

* `SilenceHolds`: `TrackSpec => []TrackSound`. `Overtaken`: both numbers that a voice which was
  cut off may compare with the generation are older than it.
* `VoicesDoNotMix`: `TrackSpec => OneVoice`. `OwnGeneration`: no two voices have one generation;
  `HeardIsBorn`: the last frame is of its voice's generation or an earlier one.

`TrunkSyncProofs` proves for any set of numbers, tasks at once, operations, failures and
restarts, from `SyncAssumption` alone:

* `PendingIsSettled`: `Spec => []RowsSound`. A row is marked in the step that starts its task;
  a task keeps its kind, leaves its row alone until it commits, and what it commits is never
  PENDING (`Carried`). `lost` takes the rows of a task that died or was lost to a restart. The drift check and a delete never mark a row.

`AccountsProofs` proves for any accounts, addresses and clock, from `AccountsAssumption` alone:

* `AccountsCorrect`, `RevocationLasts` and `LockoutIsStale`: `AccountsSound`, `RevokedStaysOut`
  and `LockoutNeedsStaleAuthor`. `InstantsOrdered`: a revocation under way that nobody overtook
  carries an instant no older than that of the account, so that its commit moves it forward. `AuthorsBound` remembers what the beginning of a request
  checked and nobody can undo: the author's realm, and that nobody disables or deletes itself.

`AgentVersionsProofs` proves for any number of overlapping requests and any finite number of
versions, from `VersionsAssumption` alone:

* `VersionsCorrect`: `Spec => []VersionsSound`. `AllFit` says of what a request has read only
  what no other request can make untrue; `InsertsOnce` is the unique version number, which
  lets one of two new drafts in.
* `CallsAreConsistent`, `PublishedIsImmutable` and `LiveIsValid`: while requests do not
  overlap, what a request read is still so (`CalmReads`), and so is what a call loaded
  (`CallReads`).

`WorkerPartsProofs` proves of `Conversation`, for any turns, tools, limits, retries, filers and deletions, from
`ConversationAssumption` alone:

* `RecordsKept`: `Spec => []RecordsSound`. `MemoryInv`: a roll that brings nothing costs one turn,
  so while one is under way the `misses` are fewer than the turns, and between turns none is due
  (`turns - rolled < Trigger + misses`), which is what bounds the memory. `TicketInv`: a call
  keeps the number it read until it inserts (`Filing`), without deletions the numbers have no gap
  (`Gapless`), and a number is free for whoever read it unless another filer came first
  (`FreeUnlessBeaten`).
* `FillerStops`: `Spec => []FillerYields`. `FillerInv`: a filler that waits or plays over an answer
  was armed during that answer.
* `LimitsHold`: `Spec => []LimitHolds`. `ToolInv`: the counter of a tool is the cardinality of its
  calls, and the API has performed at most `Retries + 1` operations for each call that ended.
* `RefusalsHaveACause`: `Spec => RefusedForACause`, from `FreeUnlessBeaten`.

`RoutingProofs` proves for any finite set of rules, any schedules, agents, instants, calls and
overlapping requests, from `EditsAssumption` alone: what the edits carry and the tenants a run
starts from are what the columns, their checks and the foreign keys let in.

* `RowsKept`: `Spec => []RowsSound`. `RowsInv` keeps every reference of a rule and of the number on
  a row that exists (an agent that was deleted is none); `HoursInv`: until a second save of the same schedule begins, a save under
  way sees the whole week it replaces.
* `HoursRespected`: `Spec => []NeverOutOfHours`, and `BestRuleDecides`: `Spec => []BestRule`.
  `CallsInv` ties the decision of a call to the rows it read. `FirstComesFirst`: among finitely
  many rules that match one comes first, so that the choice in `Decision` is well defined;
  `PassedOver` and `DecisionIsFirst`: a rule that comes before the decision did not match.
* `DetachedInRaceOnly`: `Spec => DetachedOnlyInRace`. `DeletionsInv`: whatever uses what is being
  deleted came after the deletion had looked; for an agent that is the number, since
  `delete_agent` does not look for rules.

`TenantBundleProofs` proves for any catalogue, keys, documents, contents, versions and overlapping
requests, any of them killed at any point, from `CatalogueAssumption`, `KnowledgeAssumption` and
`BundleAssumption`:

* `RowsStaySoundForever`: `Spec => []RowsSound`. The file of every visible document is in the
  store (not the converse: a deleted base and a failed upload leave files), and a tick is earned
  by keys that came in through the API undisturbed. The invariant `IInv` has three parts.
  `TablesInv`: the tables by themselves, and that the file of an export hangs together
  (`BundleSound`), without which an import could not be sound. `KeysInv`: who made a key has
  finished (`Settled`), so that no later request makes a row that passes for it. `RequestsInv`,
  for each request: what it carries to its commit (`Carries`), what a probe knows of the key it
  may tick (`ProbeKnows`), what holds of a document while somebody indexes or removes it
  (`IndexKnows`), and that what it read is still so while nobody overtook it (`StillReads`).
  A step of one request keeps these of another because of two facts every action is shown to
  have: it changes a table only when it overtakes whoever is running (`Fair`), and it leaves what
  others know of keys and files alone (`Apart`).
* `KeptToItsOwn`: `Spec => KeepsToItsOwn`, and `ImportsRestore`: `Spec => ImportRestores`. A step
  in which a request comes to be done is the commit of that request alone (`WhoEnds`), and from
  there each property follows from that one commit and `StillReads`. All of it but the seeds
  (`SeedOnlyAdds`) is about requests nobody overtook.

The types of `CircuitBreaker`, `CallLifecycle` and `WarmTransfer` and the bound
`OpenCountBounded` are theorems no run lists: the proofs cover every instance.

Out of the prover's reach, and model-checked only: the liveness properties, `KeepsPromise` as far
as it is one (nobody stays on hold for ever), and `OrphansReported` and `ChangeReachesLiveKit`
with their fairness. Every safety invariant and every action property the runs check is proved.

## 5. Mutants

Every property has at least one mutant in `PROJECT.json`: an operator in the module that
changes one mapped definition the way a slip in the code would (a missing reset, an
unchecked write, an off-by-one, a task that is not cancelled, a swapped order), under which
the property fails in the same run. A property that conjoins several has one for its main
parts.

## 6. What the code does that a reader may not expect

While the properties were written, these behaviours of the code stood against a stronger
statement. A property that carries a condition carries it because of one of them; each is a
fact about the source as it stands, with the line where it can be read.

**Transfer.**
An agent who leaves during the whisper, when the fallback has already tried its retry, is
not dialled again and nothing is said: the caller stays on hold until the call ends
(`engine.py:327`, `fallback.py:13`; `Stuck`).
`_leave_ai` swallows a failing `session.aclose()` (`engine.py:460-465`) and the run goes on to
record BRIDGED with an AI session that may still be open; `RowNeverAheadOfBridge` says that the
call was made, not that it worked. `_hangup` swallows a failing `room.disconnect()`
(`engine.py:480-485`): COMPLETED is recorded and the caller stays in the room, in silence
(`Stuck`). Between `allow_all_local_tracks` (`:338`) and `_leave_ai` (`:344`) the caller can
hear the AI again (the phase `handover`). An exception inside the exception handler of `_run`
ends the task (`Stuck`). A `request()` whose write after REQUESTED fails leaves the request
recorded for ever.
`calls.state` may leave a terminal value: a transition to TRANSFERRING or HUMAN_AGENT that was
checked before lands after it (`EndedCallCloses` says it is reached, not kept); and a call may
end with `calls.transfer_status` still open, since a cancelled write records nothing.
Two tool calls of one turn both pass the check of `_task` and start two transfers
(`engine.py:131` against `:58`).
The row may leave a terminal state when the end of the call abandons the transfer
(`call_state.py:120` against `enums.py:43`; hence `RowStatusLegal` stops there).
An agent who leaves just before `_bridged` is set is bridged to nobody (`engine.py:345`).
A tool call that is still writing when `aclose` runs goes on writing afterwards
(`NothingAfterClose` excludes it). The digit that skips the briefing may come from anyone in
the room (`engine.py:583`), and a synthesis failure of the briefing is swallowed
(`audio.py:77`). If the write of BRIDGED fails, the handler hangs up on two people who already talk
(`engine.py:346`; `ConnectedNotHungUp` holds only where nothing failed).

**Audio, observer, breaker.** A loop that is played from inside the current one cancels
itself before its first frame (`audio.py:90` against `:82`). `CallObserver.aclose` drains
one batch and not the queue (`observer.py:253` against `:236`); a batch whose write fails is
logged and not counted as dropped. The breaker lets every request through while half-open and
counts a late success of before; the pipeline the worker ships does not use it, it is
library code. A cancelled request and one that fails with an error the transport does not catch
(`RemoteProtocolError`, `resilience/__init__.py:252`) are not recorded, so that a provider that
hangs need never open the breaker. A `play()` that awaits the publication of its track when
`stop()` comes speaks after it.

**CallLifecycle.** A caller who leaves before the handlers are registered is not noticed
(`entrypoint.py:915`). A failure while tools or knowledge are loaded leaves the row ANSWERED.
If the watchdog's `delete_room` fails, MAX_DURATION is recorded with the room open; if the
disconnect event comes before its reply, CALLER_HANGUP is. The room is not deleted after a
bridged human leaves. A caller who arrives after the fifteen seconds stays in a room without
an agent. Jobs run in subprocesses, so the parent's drain sees `active_calls` at zero
(`main.py:55`). The silence timeout only sets the session's state.

**Conversation.** The API numbers tickets COUNT+1 (`tickets.py:52-62`), the worker MAX+1:
after a deletion the staff's creation is refused until the counts catch up, and the highest
number, deleted, is used again. `record_agent_turn` is never called. The filler is armed
whatever the agent is doing, and stopping it does not clear the source's queue. The HTTP tool
repeats a POST after a timeout or a 5xx. A failed tool call uses up its limit.

**Routing.** `resolve_route` documents that a schedule without timezone falls back to the
tenant's (`routing.py:304-306`; `db/models/routing.py:49` says so too); the worker evaluates it
in UTC, so that by the tenant's clock the daytime agent may be reached outside the hours
(`NeverOutOfHours` is about schedules with a timezone of their own). `delete_agent` counts the
numbers of the agent and not its rules (`agents.py:319-333`): the rules go by cascade, and a
number pinned to one is unpinned without a refusal or a race (the exception in
`DetachedOnlyInRace`). Two overlapping replacements of a
week leave the union. A schedule that is detached and deleted while a call reads counts as
open, and a rule attached to a deleted schedule is always open. `campaign` raises a rule's
specificity and is never compared. `update_rule` skips the validator of the creation.
Intervals cannot cross midnight. The inbound path ignores the agent's status, and
`RoutingHangupError` is never raised.

**TrunkSync.** A comparison that was read before a failed repair cleared the row's id can
write SYNCED or DRIFTED onto it (`drift.py:251-252`), and can mask a FAILED. A disabled number
makes its trunk DRIFTED for ever, or SYNCED while it is not. Overlapping jobs can create two
trunks. Deleting a trunk leaves the rule's resource; a trunk missing in LiveKit cannot be
deleted before a repair. A restart leaves PENDING for ever: nothing looks for it. So does a password that cannot be
decrypted: `cipher.decrypt` (`jobs.py:126`) raises `CredentialEncryptionError` or
`KeyVersionUnknownError`, which the `except LiveKitError` at `:151` does not catch; the job dies
in `_guarded` (`:57-61`).

**AgentVersions.** Racing publications and roll-backs can leave two PUBLISHED versions, or the
pointer at an ARCHIVED one; a save that races a publication edits a published version. After
a roll-back new drafts start from the newest version, not the live one (`agents.py:587-589`),
and a draft can be rolled back to. `delete_agent` does not count routes made by rules. The
validation accepts any active credential where the loader wants the label `primary`.

**Accounts.** `refresh` (`auth_service.py:147-177`) does not look at `tokens_valid_from`: after a
password change, or once a disabled account is enabled again, the refresh token of a revoked
session still gives an access token that is admitted, where `auth.py:140-142`, `auth_service.py:195-225` and
`db/models/auth.py:74-76` say that existing sessions end. The instant is taken before the
commit (`admin.py:303`, `:355`, `platform.py:456`, `:2025`, `auth_service.py:215`), so that a
token issued between the two is admitted, and overlapping revocations may move it back.
A sign-in in the second of a password change gets a token that is refused.
Administrators that race, or one with a stale token, can leave none; a tenant's administrator
may demote itself. Racing role changes leave both roles. Two creations of one address, one per
realm, make signing in fail for both. Signing in ignores the tenant's status.

**Catalogue.** Racing changes of the default, and a reseed, leave two defaults, which
`create_model` says a provider cannot hold. `set-credential` keeps the tick of the key before
it. A probe that answers after a rotation ticks a key nobody tried. `delete_model` counts only
primary uses. Two labels of one provider stop the ingestion (`MultipleResultsFound`).

**Knowledge.** Reindexing house rules marks the base FAILED while they are still retrieved; a
failed re-index keeps the old chunks. The first vectors overwrite a model chosen meanwhile,
and changing or importing a base's model mixes spaces. Deleting a base leaves its objects.
PROCESSING is never visible, and the skip by `content_sha256` is not implemented. An SQL error of the
vector search aborts the transaction, so that the keyword search behind it fails too.

**TenantBundle.** Deleting a tool or a base against a save drops the grant silently. An import
appends every version as a draft, so that importing twice doubles them; a priority of 0
becomes 100; rules arrive active; what a live agent already uses changes at once. An export
over several reads can lose a reference. A reseed and `set-agent-provider` edit published
versions. The seed looks phone numbers up across tenants.

## 7. Not modelled

* **Provider adapters, prompts, wording, metrics, logging, latency sums**: functions of their
  input, or I/O whose outcome the models choose freely.
* **Health, drain, settings, fleet, voice preview, connection test**: reads, or one call to a
  vendor that stores nothing the other parts read (the tick of a key is in `Catalogue`).
* **CRUD of PBXs and transfer destinations, views of calls**: one statement each. The
  destinations appear as the constants of `WarmTransfer`.
* **`sync-livekit` of the command line** runs the jobs of `TrunkSync` one after the other and
  prints.
* **Database models, schemas, migrations**: declarations. The constraints that decide an
  outcome (unique addresses, ticket numbers, one row per trunk, foreign keys) are in the
  modules that write them.
* **Frontend**: it holds no state the API relies on.

Data left out of the modelled parts: texts, audio samples, addresses and prices; the
connection pool; isolation levels other than READ COMMITTED, which the code never sets.

Not proved: liveness under fairness, with it the liveness of the refinement, which the prover
does not reach, and what needs induction over data. Of the refinement the safety half is proved
(`PromiseKept`).
