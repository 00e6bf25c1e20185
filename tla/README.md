# A TLA+ model of Kvorum's indexing core

Kvorum indexes DAO governance: it reads EVM logs (Compound, Aave, Lido, on-chain
Snapshot registries) and off-chain items (Snapshot proposals and votes, Discourse
threads), archives them in ClickHouse with a PostgreSQL row per item, derives
proposals, votes and delegations from the archive, has an AI worker summarize them,
and serves all of it to an API and a dashboard. The modules here model the part
whose correctness is hardest to test: how data gets from a source into the archive,
and from the archive into proposals, votes, payloads and summaries, while processes
crash, calls fail, chains reorganise, items are edited, rows arrive late, and a
reconciler writes the same tables.

## 1. Inventory

| Component | State it keeps | Operations | Talks to |
|---|---|---|---|
| Confirmed head (`libs/chain/src/confirmed-head.ts`) | none; reads the tip | `readConfirmedHead` = max(0, tip - headLag) | every EVM reader |
| Live poller (`libs/chain/src/poller`) | `lastPolled` in memory, mirror of `dao_source.poll_cursor_block` | tick, range, fetch, dispatch, advance | RPC client, cursor row, archive producer |
| Archive producer (`libs/sources/core/src/producer`) | `seen_log`, jobs of `archive_ch` | one transaction per log | pg-boss |
| seen_log prune (`apps/indexer/src/queue`) | deletes `seen_log` rows | prune below a horizon | confirmed head |
| Backfill (`libs/sources/core/src/backfill`, `libs/chain/src/backfill`, admin-cli) | `backfill_started_at_block`, `backfill_head_block`; the shared cursor | fresh, resume, catch-up; fetch, archive, checkpoint, complete | archive writer, dead letters |
| Orchestrator (`apps/indexer/src/orchestrator`) | which pollers run, first-head callback | start pollers, boot catch-up, stop | the two above |
| Archive-log queue (`apps/indexer/src/queue`) | `archive_ch` jobs, `archive_event`, ClickHouse, `ingestion_dlq`; the resolver's map of addresses | resolve, archive, retry, bridge dead letters | pg-boss |
| Off-chain poll and archive | `off_chain_cursor`, `off_chain_archive` jobs, `archive_event`, ClickHouse | poll, commit tick, consume, re-archive, bridge | pg-boss, both databases |
| Actor sweep | `actor_resolved_at`, attempts, dead letters | resolve a batch, count failures | actors, archive rows |
| Derivation worker (`apps/indexer/src/derivation`) | `derived_at`, attempts, holds, quarantine | read a batch, split into runs, dispatch to appliers | archive rows, ClickHouse |
| Proposal appliers (`libs/sources/*/domain`) | proposal and its metadata, actions, Dual Governance ledger, Aave payloads and bindings | one handler per event; hold, defer, drain | derivation worker |
| Votes | `vote_events_projection`: current and superseded rows | insert and supersede, tally | derivation worker |
| Reconciliation (`libs/sources/core/src/reconcile`) | proposal states against the chain, the block of the last check | a tick over stale proposals, enrichment | RPC client, proposals |
| RPC client | circuit breakers, health, priority | send with failover, health check, stop | providers |
| Dead-letter handling (`dlq-repository`, admin-cli `dlq`) | `ingestion_dlq`, `ingestion_dlq_resolved` | list, accept, retry, derive replay | appliers, archive writers |
| Timestamp filler, calldata decoder, forum linker, ENS resolver | a column or table each | idempotent scans | archive, RPC |
| Actor identity | `actor`, redirects | merge, route | API, sweep |
| AI worker (`apps/ai-worker`, `libs/ai`) | open batches, outputs, cost log, letters, backfill cursor, the budget's `disabled` | poll, drain, submit a page, urgent job, cap | LLM provider, pg-boss |
| API | Redis windows, sessions, API keys, caches | read queries, rate limit, sign in | all projections |
| Dashboard, shared libraries, migrations, infra | none of its own | rendering, wiring | API |

What is hard in it:

* **Several writers of one row.** The live poller and boot catch-up both move
  `poll_cursor_block`; applier and reconciler both write `proposal.state`, the second
  from what it read before an await; the queue consumer and a backfill archive one
  coordinate; two AI drivers drain one batch.
* **Several stores, no common transaction.** A ClickHouse insert and a PostgreSQL
  row; a vote, its proposal's binding and the `derived_at` mark; a commit and the
  title fetched after it.
* **At-least-once everywhere.** Ticks re-read ranges, jobs are retried, expired and
  dead-lettered, rows replayed; only `seen_log`, versions, `ON CONFLICT`, guarded
  updates and supersession make that harmless.
* **Order.** Rows that failed are applied after later ones; sources of one proposal
  are archived at their own pace, and on Aave on three chains; some of what a
  contract does emits no event at all.
* **Things that must happen eventually.** The poller catches up, the history is
  finished over restarts, every archived row is derived or dead-lettered, held rows
  are released, silent ends are shown, a provider is retried, a proposal summarized.

`PROJECT.json` lists the hazards at their lines, each with the properties that
would catch it going wrong, or why none does.

## 2. Modules

| Module | Models | Composes |
|---|---|---|
| `Chain` | tip, reorganisations of unconfirmed blocks, `eth_getLogs`, the confirmed head | |
| `LogFeed` | what an ingester of one source promises: an abstract specification | extends `Chain` |
| `DaoSource` | `poll_cursor_block`, the column poller and backfill both write | extends `Chain` |
| `EventPoller` | the live poller, its producer, `seen_log`, prune | extends `DaoSource`; implements `LogFeed` |
| `BackfillDriver` | operator and catch-up runs over one source | extends `DaoSource` |
| `LogIngestion` | the orchestrator: poller and catch-up of one source in one process | extends `EventPoller`, `BackfillDriver` |
| `ArchiveQueue` | consumer, resolver, dead-letter bridge, a backfill's writer and the operator over the archive of on-chain logs | |
| `OffchainArchive` | off-chain poll, queue, worker, dead-letter bridge | |
| `OffchainDerivation` | actor sweep and deriver beside the archive worker | extends `OffchainArchive` |
| `RpcFailover` | failover client, circuit breakers, health checker | |
| `DerivationQueue` | which archived rows are derivable, batches, runs, failures, holds, quarantine | |
| `ProposalTable` | the ways `proposal.state` is written | |
| `VoteTable` | votes and their supersession | |
| `CompoundGovernance` | a governor, its applier and its reconciler | extends `DerivationQueue`, `ProposalTable` |
| `AragonVoting` | Aragon votes: proposal and vote appliers, retry, replay, reconciler | the two, and `VoteTable` by `INSTANCE` |
| `LidoGovernance` | Aragon votes and Dual Governance, correlated | extends `DerivationQueue`, `ProposalTable` by `INSTANCE` |
| `AaveStitching` | a proposal over Governance, VotingMachine and PayloadsController | extends `DerivationQueue`, `ProposalTable` |
| `AiBatches` | summaries made in batches by two drivers and by urgent jobs, under a budget | |
| `IngestionProofs` | theorems about `EventPoller`, `BackfillDriver`, `LogIngestion` | extends `LogIngestion` |
| `ServiceProofs` | theorems about `ArchiveQueue`, `AiBatches`, `RpcFailover` | extends the three |
| `OffchainProofs`, `DerivationQueueProofs`, `CompoundProofs`, `AragonProofs`, `AaveProofs`, `LidoProofs` | theorems | extends the module each is named after (`OffchainDerivation`, `CompoundGovernance`, ...) |
| `MC...` | the small instances TLC checks | one per checked module |

Components that are composed or proved about in one module carry their name in the
names they would share: `PollerInit`, `DriverNext`, `FailoverSpec`, `AiTypeOK`. The
plain `Init`, `Next` and `Spec` belong to the composition, or to the one module that
stands by itself.

Definitions introduced by a comment that begins `Mutant:` are not
part of any specification. Each is the mapped definition next to it with one
plausible mistake, and shows that the property it is listed with notices.

The modules meet where the code's components do, at a table. A log in the jobs of
`EventPoller` is one `ArchiveQueue`'s `Produce` takes; a row `ArchiveQueue` has
archived is one the sources of `DerivationQueue` may receive; `RpcFailover` stands
behind every call that may fail. They are not one state space: the tables between
them only grow, and each module lets its input come at any time.

### Chain and EventPoller

`tip` and `canon` are the chain: `Reorg` replaces the blocks from some
unconfirmed block to the tip, at most once each. A reorganisation of a confirmed
block does not happen: `headLag` is chosen for that (ADR-0058), and everything
below depends on it.

`pc` is where the poller's one tick at a time (`abstract-poller.ts`) stands.
`BeginTick` reads the confirmed head; `FetchRange`, `NothingToPoll` and
`FetchFails` are `resolveRange`, `cursor.read` and `eth_getLogs`; `ProduceLog` and
`ProduceFails` are the producer's transaction for one log (`recordIfNew` and the
send together); `AdvanceCursor` and `AdvanceCursorFails` are `advanceCursor` with
the first-head callback and the choice of going on with another chunk. A write that is
reported as failed may have reached the row all the same (`Persist` in
`AdvanceCursorFails`): the row is then ahead of the memory. `mem` is
`lastPolled`, with `Unloaded` for `undefined` and `NoBlock` for `null`. `Stop` is a
crash, or a shutdown that abandons the tick. `origin` is a history variable: the
block from which the cursor's coverage is claimed, which is the start of the range a new
source accepts with its first write, and of the next one as long as the poller was told
that the first had failed.

`LogFeed` says what all this is for, without a tick, a call or a failure in it: a log that
is handed on is final (`Deliver`), and the mark moves over a block only when its logs
were handed on (`Advance`). `IsLogFeed` maps `delivered` to the logs with a job, `mark`
to the durable cursor, `start` to `origin` and `begun` to a poller that knows its cursor
was written (only until then may coverage start anew); `seen_log`, the place in the tick
and every fault are hidden.

The tick's wall-clock deadline is the nondeterministic end in `RangeAccepted`. Not
modelled: the shape of logs and topics, metrics, several sources in one process
(they share nothing but the RPC client).

### BackfillDriver

`run` is where the driver stands (`scan`, `land`, `checkpoint`), with its locals
`at`, `upto`, `chunkEnd`, `batch`. `FetchChunk` ends a chunk anywhere up to
`ChunkSize`: the range fetcher halves the chunk when a provider answers "too many
results" and widens it again, so any smaller size can be current. `ArchiveLog`,
`DeadLetter` and `DropLog` are the three outcomes of `BaseArchiveWriter.write`.
`Checkpoint` then `AdvancePollCursor` are the two writes of `onChunkComplete`, in that
order, with a crash (`Abandon`) possible between. `Complete` clears the floor for
an operator's run and leaves it for catch-up. `BeginFresh` and `BeginResume` are the
operator's commands with their gate, `BeginCatchUp` is `runBootCatchUp`. Two history
variables keep the properties honest: `lost` (logs whose write and dead letter both
failed, which the code logs and forgets) and `unsettled` (blocks last scanned
above the confirmed head).

One run at a time: the runbook forbids overlapping runs and nothing in the code
prevents them. `active_from_block` is given. `--confirm-replay` is left out: after
a checkpoint it fails with `BackfillAlreadyStartedError`, whatever it is given.

### LogIngestion

Poller and driver over the same `cursor`. `BootCatchUp` runs once per process when the
poller has its first head, up to that head; `StopProcess` takes both down. When a
*new* source fails its first cursor write the next window may start later (see
section 4). Two history variables say so: `holed`, that this process lost its place that
way, and `anew`, where live coverage starts anew after a process that did; the catch-up
of a later process closes what lies between, and `CoveredBelowCursor` says from when on.

### ArchiveQueue

A log is `sent` by the poller's producer or `scanned` by a backfill. `jobs` and `dead` are
the pg-boss queues, external and modelled from the options in `job-queue.service.ts`:
`RetryLimit` tries, expiry of a job whose process died, a dead-letter queue that
retries its bridge for ever or gives up and loses the letter (`BridgeGivesUp`). The
consumer is one `worker`: `Take`, `Resolve` with the copied `map` of `dao_source`,
`Rebuild` of the map on a miss, `RejectUnmapped`, `RejectUndecodable`,
`WriteClickHouse`, `WriteRow`, `Ack`; `AddSource` is an operator adding the source
the log belongs to. `writer` is `BaseArchiveWriter.write` called by a backfill
(`Scan`) or by `dlq retry` (`RunListener`): look, insert, row, or `RouteToDlq`.
The operator's `BeginRetry`, `ReEnqueue`, `RunListener`, `MarkRetrySucceeded` and
`Accept` follow the admin CLI statement by statement, `RetryDies` between any two.
`lost`, `accepted` and `absorbed` (letters deleted by the retry they were rewritten in)
name every way out other than the archive.

### OffchainArchive and OffchainDerivation

An item is a name and a revision: `published[i]` is what the source shows, a
content hash is the revision. `FetchTick` reads a page (items past the cursor) and
some items again: the inclusive boundary of the created window and the ones
reconcile asks for. `CommitTick` is the transaction of jobs and cursor;
`CommitFails` includes the commit that is reported as failed. The queue is pg-boss as
above: jobs in order, tries with a backoff during which later jobs overtake. The worker
takes one job at a time: `Take` (with `findByExternalId`), `WriteArchive` (ClickHouse),
`WriteRow` (PostgreSQL), `Ack`, each of which may fail (`HandlerFails`) or be the
last thing a process does (`Restart`). `QueueDrains` follows each revision of each item
by itself: from the tick that read its item it stays owed, as a job or in the
dead-letter queue, until the row shows that revision, a letter names it, or the bridge has
given it up (`gone`); and it is not owed for ever.

`OffchainDerivation` adds the sweep (`SweepTick`, `SweepRow`, its failures and the
threshold) and the deriver (`DeriveTick` reads the payloads of the newest versions,
`DeriveRow` is the transaction of projection and mark), and extends `Restart` to
them. The handling of a failed batch is one step.

### RpcFailover

`at[s]` is the provider a send awaits, `todo[s]` the candidates it has left,
`elapsed[s]` how long it has run. Between two awaits the code runs synchronously,
so `Route` walks the breakers to the next one that grants. A breaker keeps its
state, how long it has been open, the ages of the failures in its window and
whether its probe slot is taken. Time is a `Tick`; ages beyond what a comparison
can tell apart are not counted further. Which providers lag is a free choice of
`HealthCheck`.

### DerivationQueue, ProposalTable, VoteTable

`DerivationQueue` is the part every source shares. `log` is what the contracts have
emitted, in the order they did; a row is its position there. `received` says when a
row was archived, on a coarse clock: each source is archived in order and at its own
pace. `BeginTick` reads the first `Batch` derivable rows in the order of `Precedes`
(chain, block, log index); `Run` is one of the
maximal stretches of one source that `splitIntoDispatchRuns` cuts a batch into;
`SkipRun` is an applier that threw; `CountFailure` is `archive-failure-router.ts`
with the letter at `DlqThreshold`. `held` are rows with a `derive_hold_until`.

`ProposalTable` holds `advanceState` with `AllowedFrom` (`allowedFromByTarget`),
`reconcileState` with its expected states, `setStateFromDerivation`, which has no
guard, and `insertProposal`. `VoteTable` is `findCurrentVote` and `buildVoteRows`:
what a new vote supersedes, or that it is itself already superseded.

### CompoundGovernance and AragonVoting

In `CompoundGovernance`, `Transact` are the governor's functions, with their logs;
`TimePasses` are the changes of `state()` that emit nothing. `ApplyRow` is one
transaction per row: insert or advance and mark. The reconciler takes its view
(`BeginReconcile`: the stale proposals and the head), asks the contract for each
(`CheckState`, which also records the check) and writes (`WriteState`) later:
`tick.view` and `tick.state` are what it read, anything can be applied between.
`GapPasses` lets a checked proposal be stale again.

`AragonVoting` adds votes that replace each other. `WriteVote` (ClickHouse) and
`MarkVote` (PostgreSQL) are two steps; `RowFails` may come between. `DlqRetry` and
`Replay` are the operator's commands, which clear `derived_at` or the quarantine. The
reconciler `CheckVote` reads `getVote`, writes how a vote closed, and enriches a row
that lacks its percentages, actions first (`Enrich`, `EnrichRow`), also when it is
not active any more.

### LidoGovernance

Two sources on one chain, archived independently. `Enact` puts `ProposalSubmitted`
and `ExecuteVote` in one transaction, in that order; `SubmitDirectly` is a submission
with no vote. `RageQuit` and `Timelock` are what Dual Governance does next. The applier
waits (`DeferRow`) until the Aragon archive covers the block of the submission and the
vote's metadata is there, up to `MetaMissingSkip` attempts; then `InsertDirect` or
the vote's key, `WriteLedger`, `ApplyState` (unguarded) and `FinishHandler` are the
statements of its handlers, with `todo` the submissions whose state is still to be
written. `Covers` compares a submission or cancellation in archive time with a rage
quit in chain time, as the code does.

### AaveStitching

Three contracts of one proposal, each emitting to its own source; `ChainOf` puts the
voting chain on another chain. `EmitOrMiss` lets an event be from before indexing. The
appliers are `ApplyCreated` and `ApplyTransition` on the proposal, `WriteVote`,
`Bind`, `MarkVote` for a vote and `StitchPayload` for a payload; a vote without its
proposal and a payload without its declaration are held (`HoldVote`,
`HoldPayload`) and come back (`HoldElapses`). `HandleIpfsEnrichment` runs after
the commit of the creation: the letter, the fetch and the letter's removal.

What is left open past its time expires (`Expiry`) and no event says so. The two
reconcilers read that from the contracts (`ReadProposal`, `ReadPayload`) and write it later
(`ExpireProposal`, `ExpirePayload`), each over the states its statement admits; between
the two, which `expiring` keeps apart, the appliers go on, a call may fail
(`ReconcileFails`) or the process die. Of anything else they read they only log a missed
event. The recheck gap is left out (a tick may look at a row again at once), and so is the
eligible voting power the first one fills in on its way. All votes are on one voting
chain, as Aave's are: the refusal of a second one (`single_voting_chain_violation`,
`vote-projection-applier.ts:259`) does not arise.

### AiBatches

`batch[h]` is what the provider knows of a batch, `open` the rows of
`ai_batch` in the order of their submission, `hand[d]` the batch a driver has fetched or submitted
and not yet settled. `Fetch`, `Drain`, `NothingOpen`, `Collect`, `NothingToSubmit`, `Submit`,
`Record` are the awaits of `durable-batch.ts` and the two services above it, for the live driver and the
backfill, which share everything and no lock. `ProviderEnds` returns any part of what was asked, some of it
invalid; `ProviderGarbles` is a batch `fetchBatch` throws on. `Trigger`, `TakeUrgent`,
`Summarized`, `DeadLetter`, `JobFails` are the urgent path. `BudgetTick` compares the
month's spending with `Cap` and sets `disabled`; `NewMonth` forgets it, in any number of
months. The budget is read when a tick finds nothing open, the proposals and outputs after
that, so both may have changed in between; the lookups of one scan, one await per
candidate, are taken as one read.

## 3. Runs

Bounds are small on purpose and chosen so that each interesting case happens: at
least one reorganisation under a read, two chunks in a tick and two ticks in a
catch-up, a prune that bites, a retry that is overtaken, a batch interrupted at
each of its steps, a reconcile tick overtaken by the applier, a row that fails and is
applied after the next one. All faults of a behaviour are drawn from one small budget,
so every placement of them is explored.

| Run | Instance | Question | States |
|---|---|---|---|
| `event_poller` | new and old source, 6 logs (two in one block, one on each fork, one malformed), headLag 1, tip 2..5, 2 faults | Is a log ever missing below the cursor? does the poller implement `LogFeed`, so that nothing unconfirmed is sent? when is a log sent twice? does it catch up? | 110,852 |
| `backfill` | source active from block 1, an undecodable and an out-of-scope log, operator with and without an end, one failure | Is the floor contiguous? does completion mean scanned? is what catch-up archives final? does the history complete? | 440,128 |
| `log_ingestion` | a new source, logs in the first live window, in the one a failed write may skip and past the first head; headLag 0, tip 1..4, two poller faults, one run failure; pruning never bites (margin 4) | Is the shared cursor covered? is everything ingested by a process that lives? | 195,114 |
| `archive_queue` | a log nothing decodes and one whose source is added later, one retry, one command of the operator, 2 faults | Does a log vanish? is a row without content? do the queues drain? | 1,554,590 |
| `offchain_derivation` | an item edited once and one without a writer, one retry, one resend, threshold 2, 2 faults | Do row and ClickHouse agree? do edits stay in order while calm? does every queued revision come to the row, a letter or a named loss? do derived rows show archived content, and is every row derived or given up? | 367,766 |
| `rpc_failover` | two providers, two sends, deadline 1 < cooldown 2, threshold 2, one caller-scoped error | One request to a half-open provider? is a provider tried again? | 70,836 |
| `compound` | one proposal, 4 logs, batch 3, threshold 2, 3 faults | Was what is shown true? is a transition lost, but to a stale `active`? are ends final, and shown? | 14,132 |
| `aragon` | one vote with replaced ballots, 4 logs, batch 3, 2 faults, one command of the operator | One current ballot, the newest? is a derived ballot written? is the tally at any time right? does a closed vote show? | 651,252 |
| `aragon_execution` | the same with 3 logs, no fault | Does an execution show? (no: section 4) | |
| `lido_governance` | one vote, one submission, 5 logs, one fault | Does the proposal follow the ledger? is a submission called direct wrongly, or vetoed by an earlier rage quit? is every submission settled? | 472,310 |
| `aave` | one proposal over three contracts, 7 logs, batch 2, the voting chain sorted last, one fault that dead-letters, both reconcilers | Are state and payload the furthest derived, or expired if the contract's are? is a voted proposal bound and titled? does every hold end? | 639,861 |
| `ai_batches` | two proposals, one live, pages of one, three batches at once, cap of 2 calls, one fault, months without end | Is what the backfill walked past settled? does each proposal settle, this month or a later one? | 506,589 |

`CHECK_DEADLOCK FALSE` is said where the model stops because its bounds are
exhausted: the contracts have emitted their last log or the last item is published,
every queue is empty, every row is derived, and no fault is left.

### Why the bounds are enough

The models are symmetric in the block height, the revision number and the sends:
a property fails on a relation between two or three of them (a log below, in and
above a range; an edit and the one it overtakes; a probe and a second send; a row, the
row it overtakes and a stale read). Two forks of one block are enough for a
reorganisation, because confirmed blocks never change and each unconfirmed one is read
under one of the two.

In the derivation runs one proposal is enough where the appliers read only rows of
its own key; what proposals share, the batch and its runs, is exercised by the
rows of one proposal in two sources and by batches shorter than the log. The log bound is
what one life takes: all a proposal of Compound can emit;
start, two votes of one voter and the execution for Aragon; a vote's start, its
enactment with the submission, the schedule and a rage quit or a cancellation for
Lido; all three contracts of Aave to their ends but one. Three faults in `compound` fail a row to its
dead letter and kill a reconcile tick. In `lido_governance` votes start before
anything else happens: a start that comes later only delays what waits for it.
In `ai_batches` a budget of two calls is used up by one batch and a job, so that the
cap bites in every order, and a new month may come at any time, so that no behaviour ends
at the cap; three handles are what two drivers and one open batch can
hold.

Larger instances were tried where they are in reach and found nothing more: `compound` is
exhausted by four logs (a fifth changes no state), and with two proposals, which share
batches and reconcile ticks, and one fault it holds over 1,786,176 states;
`log_ingestion` holds, as safety and as the inductive invariant of section 5, with
headLag 1 and tip 2..6 over 9,130,126 states. What no bound can show for the safety
properties, the proofs of section 5 do.

### Fairness

* `event_poller`: `WF(Start)` because the container restarts, `WF(Tick)` because the
  poller's timer fires and every await of a tick settles (calls have timeouts). The
  chain, faults and pruning are under no obligation.
* `backfill`: `WF(Work)`, and `WF(BeginCatchUp)` because each boot tries. Nothing
  obliges an operator. `HistoryCompletes` therefore assumes the operator keeps away
  from some point on: one who starts runs for ever keeps catch-up out.
* `log_ingestion`: the poller's steps, the boot's call and the run's steps, which one
  event loop serves. The process may still stop, and the property says so.
* `archive_queue`: the consumer polls its queue, pg-boss expires the jobs of dead
  processes, the bridge polls the dead-letter queue. Backfills and operators owe nothing.
* `offchain_derivation`: the timers of poller and worker, pg-boss' own maintenance,
  sweep and deriver. All are periodic in the code.
* `rpc_failover`: callers keep calling (the pollers do), sends end by their deadline,
  time passes.
* `compound`, `aragon`: weak fairness of archiving, worker, reconciler and the passing of
  the recheck gap: four timers. `lido_governance`: archiving and worker. The contracts
  need not move.
* `aave`: weak fairness of the worker, strong of `ArchiveRow` and of the lapse of holds. Both
  are independent of the worker in the code (a poller of another process, the clock); the model
  lets them happen only between ticks, which would let a busy worker keep them out
  under weak fairness. Weak of `Reconcile`: the driver of each reconciler is called with
  every confirmed head.
* `ai_batches`: weak fairness of the two drivers' ticks, the job worker, the budget tick, the
  turn of the month, and of a provider that ends each batch it took. Triggers owe nothing.
  `BackfillHasItsTurn` is one assumption more: if again and again nothing is open and the
  budget is not used up, some ticks of the backfill find it so. Weak fairness of its tick
  alone does not give that, because nothing keeps the live driver from opening a batch
  before each of them; but the timers of the two drivers and of the budget have one
  interval (five minutes by default), and the live driver ends its tick when it has
  drained a batch and submits the next one at its next tick, so the backfill ticks in
  between. What the assumption excludes is two timers in step so exactly that the
  backfill always comes second; without it that is a behaviour in which the history waits
  for ever while live batches go round (live proposals whose results never come valid).

## 4. What the runs found

**An execution may never show** (`aragon_execution`). `allowedFromByTarget`
(`proposal-repository.ts:143`) lets `executed` follow `pending`, `queued` and `active`. The
Aragon reconciler writes `succeeded` when a vote closes, and ADR-0049 (line 134) says that
execution then "arrives via the event path": `advanceState` updates no row, the
row is marked derived, and the proposal stays `succeeded`. The run is kept as
evidence and turns into a passing one once the guard has `succeeded`.

Where code and documents part, seen while modelling. Properties except these by
name, so that anything else that goes wrong would show:

*Ingestion*

* A log may be enqueued twice: the prune horizon follows the confirmed head, not the
  cursor, so a poller restarted far behind re-reads logs whose `seen_log` rows are gone
  (ADR-0063:51). `ResentOnlyBelowHorizon` shows, and its theorem proves, that it is the only way.
* A source without a cursor polls the window at the head; if its first write of the cursor fails
  (`event-poller.ts:246` against the comment at 264), the next window starts later. If the
  failed write reached the row all the same, the row is a cursor with a hole below it once
  the next one is written. `CursorCovered` speaks from `origin` on; catch-up covers those
  blocks on a later boot.
* A backfill without `--to-block` archives unconfirmed blocks (ADR-0058:23), and
  `--to-block` is not compared with the tip.
* A chunk is checkpointed although the write and the dead letter of one of its logs
  both failed (`base-archive-writer.ts:150`; `DropLog`, `lost`).
* Catch-up records its first block as `backfill_started_at_block`, where the
  repository says the head; a later resume takes it for the end of its range.
* A first run may start above `active_from_block` (the runbook allows it); interrupted,
  its floor is not contiguous, which is how ADR-0051 and catch-up read it.
* ADR-0051 and `gap-fill.md` have catch-up end at the confirmed head less 2 headLag;
  the code ends at the confirmed head itself, which the seam needs less of.
* A dead-letter queue has no dead letters: a bridge that keeps failing loses the job
  (`gone` off chain, `lost` on chain; `QueueDrains` and `NothingVanishes` except it).
* `dlq retry` deletes the letter by its id after the listener has rewritten it because the
  archive failed again (ADR-0032:46; `absorbed`).
* An older off-chain revision can overwrite a newer one (`apply-mutable-latest.ts:60` against
  `archive-event-repository.ts:64`): the version is taken when a job runs.
  `CalmOlderEditIsNoOp` shows it takes a failed call. A ClickHouse write whose row was
  not written is followed by a newer edit that computes the same version: two contents
  share one `ReplacingMergeTree` version.
* An edit can be marked derived without being projected
  (`archive-derivation-repository.ts:110` against `archive-event-repository.ts:62`). No fault is
  needed: the deriver reads, the worker re-archives, the sweep resolves, the deriver marks.
* A caller-scoped error during a half-open probe keeps the provider out for good
  (`failover-rpc-client.ts:175` against `SPEC.md:647`). `RetriedUntilRethrow` shows it is the
  only leak. `OneProbe` takes a deadline shorter than the cooldown; the defaults (12 s and
  30 s) have it, the configuration does not check it.

*Derivation*

* A row that failed is applied after later rows of its proposal, whose transitions find
  no row or the wrong state and are marked derived all the same. The comment at
  `derivation-worker.service.ts:224-228` rules this out. `early` names those rows.
* A reconciler's stale `active` may overwrite a `queued` written since it read
  (`compound-state-reconciler.ts:103`, against ADR-0049:57); later events and ticks repair
  it. It is the one transition lost although its rows were applied in order:
  `InOrderIsKept` names it (`reverted`).
* A vote that is derived late, retried or replayed leaves a time at which the tally of
  ADR-0021 counts a voter twice or not at all; the current tally stays right
  (`CurrentIsNewest`). Votes whose proposal's creation failed for good are
  quarantined with it and stay so.
* Lido: `ExecuteVote` is logged after the `ProposalSubmitted` of its transaction; derived
  second, it takes the proposal from the ledger's `queued` to `executed` before the
  timelock has run, until the next Dual Governance row (ADR-0074:77; `overtaken`).
  `cancelThrough` commits before the states it returns are written; a retry gets none back.
* Aave: a vote handler interrupted between the vote table and the binding leaves
  the proposal unbound (ADR-0065:92; `torn`).

*AI worker*

* A batch that `fetchBatch` throws on (`openai-provider.ts:205`) is polled for ever and is
  the oldest of its feature, so nothing of the feature is drained any more; `durable-batch.ts:79`
  says that a terminal batch is never polled again. `Wedged` names it.
* Two drivers that have fetched one batch both book its cost; `persist-batch-item.ts` says it
  never double-books. The slower one may put the cursor back, which only costs a second scan.
* A batch submitted and not recorded is paid for and lost; the runbook
  (`m5-ai-backfill.md:8-12`) says no paid batch is orphaned.
* "At most one in flight" (`ai-batch-repository.ts:52`) is one per driver. Once the cap is reached
  an open batch drains only if the backfill is enabled. Results that violate the schema
  are asked for again each idle tick until the cap. A letter and its cost are two
  statements. Every feature is enabled until a budget tick has read the costs.

## 5. Proofs

Each theorem below is proved for every value of the constants, under the named assumptions
of its module only. The shape is the same throughout: a conjunction of named parts is
shown to hold initially and to be kept by every action, one step per action, with lemmas
for what several steps need; the theorem follows by temporal logic. TLC checked each
inductive invariant on the instances of section 3 before it was proved, and a part that
was not inductive showed there first.

| Module | Theorem | Statement |
|---|---|---|
| `IngestionProofs`, poller | `PollerTypeCorrect` | `PollerSpec => []PollerTypeOK` |
| | `NoSilentHole` | `PollerSpec => []CursorCovered` |
| | `OnlyFinalLogsAreSent` | `PollerSpec => []SentIsFinal` |
| | `CursorNeverLost` | `PollerSpec => CursorIsDurable` |
| | `NoResendAboveHorizon` | `PollerSpec => ResentOnlyBelowHorizon` |
| | `PollerIsLogFeed` | `PollerSpec => IsLogFeed`, the refinement of `LogFeed` |
| `IngestionProofs`, backfill | `BackfillTypeCorrect`, `FloorIsContiguous`, `CompletionMeansScanned`, `CatchUpIsFinal` | `DriverTypeOK`, `FloorContiguous`, `CompletedMeansScanned`, `CatchUpArchivesFinal` |
| `IngestionProofs`, both | `TypeCorrect`, `CursorCoversBoth` | `TypeOK`, `CoveredBelowCursor` |
| `OffchainProofs` | `TypeCorrect`, `RowsAreArchived`, `DerivedIsArchived`, `CalmArchive` | `DerivationTypeOK`, `RowIsArchived`, `DerivedShowsArchive`, `CalmOlderEditIsNoOp` |
| `ServiceProofs`, archive queue | `QueueTypeCorrect`, `ContentBeforeRow`, `ResolverIsRight`, `NoLogVanishes` | `TypeOK`, `RowHasContent`, `UnmappedWasUnknown`, `NothingVanishes` |
| `ServiceProofs`, AI worker | `TypeCorrect`, `WalkedIsKept` | `AiTypeOK`, `WalkedIsSettled` |
| `ServiceProofs`, RPC | `OneProbeAtATime` | `OneProbe`, if `Deadline < Cooldown` |
| `CompoundProofs` | `TypeCorrect`, `NothingIsMadeUp`, `TransitionsAreKept`, `EndsStay` | `TypeOK`, `ShownWasTrue`, `InOrderIsKept`, `EndsAreFinal` |
| `AragonProofs` | `TypeCorrect`, `NewestVoteCounts`, `NoVoteIsLost`, `TallyCounts`, `PctComesLast`, `ExecutionStays` | `TypeOK`, `CurrentIsNewest`, `DerivedVoteIsWritten`, `TallyAtAnyTime`, `PctMeansActions`, `ExecutedIsFinal` |
| `AaveProofs` | `TypeCorrect`, `FurthestIsShown`, `PayloadIsStitched`, `VotesBind`, `TitleIsNotForgotten`, `HoldingIsFree` | `TypeOK`, `StateIsFurthest`, `PayloadIsFurthest`, `VotedIsBound`, `TitleOrLetter`, `HoldsAreNotFailures` |
| `LidoProofs` | `TypeCorrect`, `StateFollowsLedger`, `DirectHasNoVote`, `VetoIsLater`, `ExecutionIsLedgered` | `LidoTypeOK`, `UnifiedStateFollowsLedger`, `DirectMeansNoVote`, `VetoFollowsSubmission`, `ExecutionReachesLedger` |

`DerivationQueueProofs` holds what the four derivation modules share: that a nonempty set of
positions has a first row in the order of `Precedes`, hence that `First` is a row of the
batch, and that the queue's own steps keep its shape.

The arguments, and why the properties need strengthening:

* **EventPoller.** `CursorCovered` is not inductive: that advancing the cursor is safe
  depends on what the tick has already done. `PollerInv` adds what a tick knows: `MirrorInv`
  (the mirror is never ahead of the row, which may be ahead of it after a write that was
  reported as failed), `TickInv` (the tick's head is at most the confirmed head *now*; the
  range starts just past the mirror and ends at that head at most; each log of the range is
  pending or sent), `CursorInv` (the cursor is confirmed and not more than one below `origin`), and that every
  `seen_log` row was sent. A reorganisation touches only blocks above the confirmed head:
  the lemma the two safety properties rest on, and where the assumption on `headLag` is
  used. `ResentOnlyBelowHorizon` needs `ForgottenInv`: a log that was sent and is not in
  `seen_log` is behind the prune horizon, which never recedes.
* **EventPoller implements LogFeed.** Step by step under `PollerInv`: a send is `Deliver`
  of a log that `TickInv` makes final, or a stutter when the log was sent before; the
  write of the cursor, reported or not, is `Advance`, whose guard (every log up to the new
  mark was handed on) is `CursorCovered` in the next state; a poller that reads a row it did
  not know it had written is `Begin`; a chain step is a chain step; every other action,
  failures and crashes among them, changes nothing the feed shows.
* **Backfill.** What makes advancing the floor safe is behind the run, not in the state of
  the row: `Behind` says that everything up to the floor, or the block before the chunk, is
  safe, and that the logs of a chunk are in hand or handled; `FinalBatch` that a
  catch-up's batch is final. It takes the assumption that no first run starts above
  `active_from_block` (`FromTheStart`), without which the property is false (section 4).
* **LogIngestion.** With two writers of the cursor the poller's invariant is no longer true:
  its mirror may be behind the row. `Polling` ties the range to the mirror instead,
  `Catching` the run to the floor, and `Shared` says where the two meet: until a process has its
  first head only the poller has moved the cursor; after it the run in flight ends at that
  head, and what lies above it is the poller's. `LiveCovered` is the part of the
  property the poller alone answers for. An earlier form of the property, which let the
  coverage of a source never start anew, was false: a process that fails the first
  cursor write, moves on and stops before its catch-up completes leaves a hole that the next one
  closes only when it has caught up. Nor does anyone owe blocks below `active_from_block`.
  The invariant showed both, and `anew` and the guard of the property came of it.
* **Off chain.** `Holding` says what the worker has in hand between its three statements: the
  version it looked up is still the row's, since only one worker moves it, and before it writes
  the row ClickHouse has the content. `Vouched` adds to the property that no version in
  ClickHouse is more than one ahead of its row. For the deriver,
  whatever was read was archived and nothing leaves ClickHouse (`ShownIsArchived`).
  `CalmOlderEditIsNoOp` needs the order of the whole queue (`Calm`): with no failure, jobs of one
  item are in the order of their revisions, none is older than the row,
  and what a tick has read is not older than any of them.
* **ArchiveQueue.** `ContentKept` says a worker past its insert has content to point to;
  `Resolution` that the map is never ahead of the table; `Retries` and `Kept` follow one
  log from job to dead-letter queue to letter to retry, for each place it can be.
* **AiBatches.** A cursor travels: from the page that is submitted to the batch, from the batch
  to the table, by whichever driver drains it. `Walked` is the property at each of these
  places: what lies up to a batch's cursor is settled or in that batch. `Hands` says
  that a driver with a handle to record is alone with it, `Jobs` that the urgent job is one that is queued.
* **RpcFailover.** `Probing` and `Fits`: sends in flight at an open breaker are at least
  as old as its opening, so by the time it may be half-open they have met their deadline.
  This is where `Deadline < Cooldown` is used.
* **Compound.** `Honest` relates three clocks: what the contract has logged, what a
  reconcile tick has read of contract and row, and what the table shows. A stale view was
  true once, and a state that was true stays among the allowed ones. `InOrderIsKept` needs
  the order rows were applied in, which no variable keeps: `Orders` says which logs a log
  presupposes (`RowsOK`), that what is not `early` had every earlier row of its
  proposal before it, and by which applied row each state of the table came (`Sourced`),
  so that the guard of `advanceState` never meets a state it refuses but after a
  reconciler's stale `active`, which `reverted` records.
* **Aragon.** The vote table needs `Casts` (only cast votes have rows), `Ready` (a vote
  between its two writes is written and its proposal exists) and that a marked vote is written; supersession
  is a lemma of its own over any set of rivals. `ActionsFirst` orders the enrichment. For
  the tally, as long as rows were derived in order and no operator intervened, what is written is a prefix
  (`PrefixOK`), so a replaced vote ends where the next written one begins (`Chained`).
* **Aave.** `Moved` ties logs to the contracts' states (an end is logged once, and nothing after it),
  which is what makes "furthest" independent of the order of application, and that what a
  reconciler has read as expired, or written, is expired on chain for good; `InHand` says
  what the handler in progress has done; `VotesBound` and `Counted` carry the last two
  theorems.
* **Lido.** `ChainOK` is what the log itself guarantees: positions, transactions and blocks grow
  together, one submission and one enactment per transaction, cancellations after what they
  cancel. `Sourced` gives each ledger entry the applied rows it stems from, `Dated` relates the archive's clock to
  the chain's, `Handling` says what a handler between its writes still owes, and `Follows`
  is the property while rows wait: a proposal shows its ledger entry, or is still to be
  written, or a row that waits will rewrite it. `Executions` is the same for an execution,
  and `Vetoed` names the rage quit behind each veto.

The assumptions: item sets are finite (off chain, AI); `Order` lists providers without
repetition; a batch holds at least one row, a retry threshold is at least one; the sources
a module derives are among those the queue knows. `IngestionAssumption` (poller and backfill read
the logs of one new source) is used only by the two theorems about `LogIngestion`.

Model-checked only: the liveness properties (`CatchesUp`, `HistoryCompletes`,
`HistoryAndLiveIngested`, `QueuesDrain`, `QueueDrains`, `RowsAreDerived`, `RetriedUntilRethrow`,
`EndsAreShown`, `Settles`, `SubmissionsSettle`, `Stitched`, `EachSettles`), which are out
of this prover's reach. Every invariant and every action property a passing run checks is a
theorem.

## 6. Not modelled, and why

* **The other appliers.** Aave v2 repeats the Compound applier; Easy Track, the
  delegations of COMP, AAVE and Snapshot append a row each and share nothing between rows
  but `derived_at`. The Compound and Snapshot vote appliers write through the two
  functions `VoteTable` models. The Dual Governance reconciler reports drift only: it writes
  no state, so nothing it does repairs what section 4 says of `cancelThrough`.
* **Snapshot and forum cursors.** The two-part created/skip cursor and its cap:
  `OffchainArchive` pages items by position. A window whose rows share one second is the
  one hazard listed without a property there.
* **Two runs over one source.** The runbook forbids them; a model needs a second set of
  `BackfillDriver`'s run variables and says little until the code has a lock.
* **A sweep's failed batch of several rows**; the code falls back to one row at a time, which
  is what is modelled. **Sources without `active_from_block`**, which no catch-up touches.
* **Actor merge and routing**: one transaction of the admin CLI.
* **Timestamp filler, calldata decoder, forum linker, ENS, proxy resolver**: idempotent
  scans that fill one column each. **Head tracker**: metrics.
* **AI**: forum skips, forced regeneration, edits of a proposal while its summary is
  made, the synchronous features (mismatch, embedding), more than a hundred
  candidates (`MAX_CANDIDATES`), composite batches of the client. Prompts, schemas and pricing are pure
  functions.
* **API and dashboard**: read queries, sessions and rendering; the rate limiter is one
  atomic Redis script. **Admin CLI wrappers, shared libraries, dependency injection,
  migrations**: no state of their own.
