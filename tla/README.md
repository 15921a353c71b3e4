# chronos-code in TLA+

chronos-code is a coding agent: a terminal program and an HTTP server that run
model conversations with tools over a repository. Most of it is sequential text
processing. What is hard is what must survive interruption: work that was admitted
once must be carried on after a crash by somebody, without a second worker working
beside the first, without repeating an effect on the outside world, and without paying
twice for the same model reply. These modules model that part first, then the code index
that every search tool reads while files change under it and the pool of external tool
servers that all agents share, and keep a plan for the rest.

| module | models | checked by | proved in |
| --- | --- | --- | --- |
| `DeliveryStates` | the table of legal delivery states and its closure | (used below) | |
| `FencedLease` | abstract: what a lease promises | as `ImplementsLease` | |
| `DeliveryQueue` | the durable queue of deliveries, its leases and attempts | `MCDeliveryQueue` | `DeliveryQueueProofs` |
| `DeliveryWorker` | the workers over that queue, with time and crashes | `MCDeliveryWorker`, `MCPoisonedLease` | `DeliveryWorkerProofs` |
| `DeliveryEffects` | effect journal, conversation checkpoints, billed calls, executor | `MCDeliveryEffects` | `DeliveryEffectsProofs` |
| `DurableTeam` | sequential and parallel teams across interrupted attempts | `MCDurableTeam` | `DurableTeamProofs` |
| `ToolSupervisor` | background tools with durable receipts | `MCToolSupervisor`, `MCStaleCancel` | `ToolSupervisorProofs` |
| `EvidenceLedger` | a task's evidence, its file, and the calls that produce it | `MCEvidenceLedger`, `MCRacedEvidence` | `EvidenceLedgerProofs` |
| `PublishedIndex` | abstract: what a workspace index promises its readers | as `PublishesIndex` | |
| `IndexedFiles` | the paths and versions that the next two speak of | (used below) | |
| `IndexStore` | segments, manifest, snapshots, overlays, compaction, import | `MCIndexStore` | `IndexProofs` |
| `IndexInvariants` | what is always true of `IndexStore` | | `IndexProofs` |
| `IndexEngine` | reconcile, update and watcher beside a git checkout | `MCIndexEngine` | `IndexProofs` |
| `McpPool` | transports to external tool servers, shared by leases | `MCMcpPool` | `McpPoolProofs` |

`PROJECT.json` maps every definition to the lines it translates, lists the hazards of
the code with the properties aimed at them, and holds a mutated definition for every
property, which the property must refute.

To run: `tlc -config MCDeliveryQueue.cfg MCDeliveryQueue` and so on (the
configurations `MCPoisonedLease`, `MCStaleCancel` and `MCRacedEvidence` belong to the
modules `MCDeliveryWorker`, `MCToolSupervisor` and `MCEvidenceLedger` and end in a
counterexample); `tlapm DeliveryQueueProofs.tla` and so on for the modules of the last
column.

## 1. The system and its components

### The durable delivery (internal/execution, internal/orchestrator/delivery_*)

A *delivery* is a goal admitted over HTTP or by the host. It lives in SQLite and
outlasts every process.

- **Delivery queue** (`delivery_queue.go`, `delivery_store.go`, `delivery_domain.go`).
  State: the projection of each delivery (its state, goal revision, requirements), a
  queue row (status, available_at, owner, epoch, lease expiry, signal) and its
  attempts (owner, epoch, outcome, checkpoint, result). Operations: `Admit`,
  `AdmitRunnable`, `QueueAdmitted`, `Claim`, `Heartbeat`, `Checkpoint`, `PublishResult`,
  `TransitionLease`, `Release`, `Finalize`, `SignalWaiting`, `Cancel`, `Transition`. All
  are transactions; the projection, the row and the attempt are written by different
  statements of one transaction. Hard: owners that come back after their lease was
  given to somebody else, the clock reading taken before the transaction got the
  database, instants compared as text, cancellation at any moment. Right when a stale
  owner can write nothing, when row, attempt and state tell the same story, and
  when cancelled means cancelled.
- **Delivery worker** (`worker.go`). State: one goroutine per worker with its executor
  context and a heartbeat goroutine. It calls the queue and an executor. Hard: it may
  stop at any point between claim and finalize, be paused past its lease, or lose the
  database. Right when interrupted work is taken up again, put-off work is not put off
  for ever, and a run that lost its lease is stopped.
- **Delivery mutations and events** (`delivery_store.go`, `delivery_domain.go`). Goal
  revisions, requirements, decisions, and an event stream with idempotent retries under
  an expected revision. Hard: repeated and reordered requests. Right when a repeated
  request has one effect and when replaying the events gives the projection.
- **Effect journal and recovery** (`delivery_operations.go`, `delivery_tool_rounds.go`,
  `delivery_agent_replies.go`, `delivery_executor.go`, `delivery_operation_tools.go`,
  `delivery_usage_hook.go`). State: an operation per effectful call (prepared, running,
  observed, reconciled), a checkpoint per completed tool round and per terminal reply,
  a record per provider call. An effect cannot be part of a transaction; after a crash
  the next attempt knows only what was recorded around it. Right when no effect
  happens twice, no reply is paid for twice, no receipt is untrue, and nothing in doubt
  is hidden behind a published result.
- **Delivery usage** (`delivery_usage.go`). Reservations against a cap shared by all
  attempts, calls whose cost is unknown, overflow. Right when the cap is never exceeded
  by what was admitted and an unknown call blocks further ones.
- **Durable teams** (`delivery_team.go`). Several agents work on one delivery, in turn
  or at once, each with a receipt in the attempt's checkpoint. Right when an
  interruption costs only the members that had not finished, and those nothing they
  had already paid for.
- **Delivery backup** (`delivery_backup.go`). An online copy and a restore by renames.

### The interactive session (internal/orchestrator)

- **Tool supervisor** (`tool_supervisor.go`). Tools that go on while the model does
  something else. State: runs by id and by fingerprint (tool and arguments), a
  capacity gate, receipts in two files per run. Operations: start, `await_tool`,
  `cancel_tool`, `message_tool`, `Close`. Hard: duplicates of a call in flight,
  cancellation against completion, a receipt of which one file is written, a crash
  between intent and receipt. Right when identical calls invoke once, results are not
  lost, capacity is neither exceeded nor leaked, and an interrupted effect is not
  repeated.
- **Turn pipeline** (completion gate, repair loop, context guard, deferred tools, plan
  approval, questions). Hooks around one turn; sequential decisions over text.
- **Subagents and teams runtime** (`subagents.go`, `orchestrator.go`). Child runs with
  one gate per agent, a budget of model calls per turn, cycle detection along the path
  of ancestors. Hard: a parent that holds a slot its child waits for. Right when
  nested calls cannot wait on each other for ever and the turn's limit holds.
- **Steering, interactive journal, edit checkpoints** (`steering.go`,
  `interactive_journal.go`, `edit_checkpoints.go`). An inbox whose every message is
  delivered or returned, never both; a journal of calls before their handler runs; undo
  copies of files with recovery after a crash.
- **Verification and checks** (`verification_runtime.go`, `internal/verification`,
  `internal/checks`). Decide which evidence, of which revision, makes a change
  verified. Right when evidence of an older revision never counts.
- **Evidence ledger** (`ledger.go`, `ledger_store.go`). An append-only history per task,
  in memory and in a file with torn-tail recovery. Right when what was recorded can be
  replayed, in the order it was recorded.
- **Task and session budgets** (`task_budget.go`, `internal/budget`). Consumption
  against limits; reservations before a call and their reconciliation. Right when
  concurrent calls cannot together exceed the cap.

### Shared services

- **Background processes** (`security/background.go`): a table of shells with a bounded
  output buffer, awaited, killed or reaped.
- **Sandbox and command policy, authorization, guardrails**: pure decisions over text.
- **MCP discovery and pool** (`mcpdiscover`). External tool servers are processes of their
  own. The *pool* (`pool.go`) lends one transport per configuration to every agent that
  asks: `NewClient` gives a lease, `Connect`, `ListTools` and `CallTool` use the transport
  under a gate, `Close` gives the lease back and the last one ends the server. Hard: a
  server that hangs, a lease released while its own or another agent's call is at work, a
  lease taken while the server of the last one is still ending. Right when there are never
  two servers, nobody loses the transport in the middle of a call, and every `Close`
  returns. The *runtimes* (`runtime.go`) that own the leases swap tool sets when a file
  changes.
- **LSP client** (`lsp`): pending requests against one reader, server exit, document
  versions.
- **Indexer engine, store and watcher** (`indexer`, `indexer/store`). The *store* keeps
  immutable segments, a manifest that names the published ones, and snapshots that share
  mapped segments by reference counts; one writer stacks overlays, builds, compacts and
  imports. The *engine* decides what to index: everything (a listing), what git reports
  and the metadata's `Touched` adds, or what the *watcher* saw. Hard: a failing or
  interrupted publication, readers that outlive what they read, records that older
  segments still hold, metadata that lets the next process leave files alone, events lost
  or in excess. Right when a reader has one consistent index, the next process finds the
  old or the new one, nothing leaks, and a file whose index is out of date is looked at
  again. **Extraction and queries** are pure functions of segments. **Code graph**
  (`internal/graph`) starts engines on demand, runs their first reconcile and their
  watcher.
- **HTTP server** (`internal/server`): admission of requests, per-key locks for idempotent
  ones, rate limits, shutdown; **sessions and retention**; **learning telemetry** with a
  bounded queue; **agent memory**; **skill activation** with a prefetching buffer; **prompt
  context**, **claims**, **configuration and model tables**, **CLI and terminal UI**,
  **evaluation**: wiring or pure text, with few states of their own.

### How they interact

The server and the CLI call the delivery store's public operations; workers call its
leased ones and run the executor; the executor reads journal, usage and checkpoints,
then lets the SDK drive the model with hooks that reserve, account and checkpoint. Every
leased write passes `verifyLease`, which compares row, owner, epoch and expiry inside
the transaction. What is *not* fenced is the outside world (an effect already begun)
and the accounting of a call already made; that is where the properties of
`DeliveryEffects` and `DurableTeam` are aimed. The interactive side shares no state with
deliveries: its supervisor keeps receipts in a storage file system, its own tables in
memory.

## 2. The modules and the code

One action is one transaction, one provider request, one effect or one file write: what
the code does between two of them touches only local variables. An operation that
returns an error rolls its transaction back and is no step, unless the error itself
changes something (the fault actions).

### DeliveryQueue, DeliveryStates, FencedLease

`row`, `attempts` and `state` are the tables `delivery_queue`,
`delivery_worker_attempts` and `delivery_deliveries`; `moved` is the set of idempotency
keys `TransitionLease` left in one epoch. Actions carry the names of the store's
operations; `AdmitRunnableAgain` is the repeated admission of an existing delivery,
`UpdateAttempt` is the common body of `Checkpoint` and `PublishResult`. All operations are
there that write the state, the row or an attempt, those too that no code of the repository
calls outside tests (`QueueAdmitted`, `Transition`, `Release`, and `TransitionLease` through
`Execution.Transition`).

Two details of the code that a simpler model would hide are kept. An operation reads
the clock before it obtains the database, so it works with any reading at most `MaxLag`
old (`Readings`); this is why a lease may be extended with an earlier expiry than it
had. Instants are stored as RFC 3339 text without trailing zeros and compared as text
(`NotAfter`): within one second the whole second comes last, so with instants in half
seconds the order of neighbours is sometimes wrong. Neither breaks the fence, which is
what the run and the proofs show: the fence is the epoch.

A `Lease` is the attempt it was handed out with. The actions of a holder (`HolderCall`)
are offered for every attempt that ever existed, so a worker paused for any time can
come back with its old lease.

`FencedLease` is the abstract promise: per resource a history of grants, at most one
current, only that one written, a closed record never written again. `ImplementsLease`
maps attempts to grants and a leased row to its last attempt.

### DeliveryWorker

The rows of `DeliveryQueue` reduced to what liveness needs: deadlines are countdowns
(`left`, `delay`), so time never ends, and the epoch is reduced to the worker run that
holds it (`holder`), which `EpochsFenceAttempts` justifies. `pc` follows `RunOnce`:
idle, claimed (usage is read), executing with the heartbeat goroutine, returned. `line`
is the `ORDER BY` of `Claim`; a repeated runnable admission enters it as of the first one,
anywhere among the rows that are available. `ExecutorTransition` is in `MovingNext` only. A worker may crash, be stopped and started, lose the
database, or be paused, `MaxFaults` times altogether; `Tick` waits for what a healthy
process does at once (`Urgent`), `Pause` does not.

### DeliveryEffects

One delivery to a single agent at one goal revision. `ops`, `usage`, `rounds` and
`replies` are the four tables; `asked`, `done` and `file` are the outside world, which
nothing rolls back. `proc[n]` is where the executor of attempt *n* stands: `CheckEffects`
(unfinished operations are reconciled by a probe of the host or park the delivery),
`CheckUsage` and `CheckCount` (an unaccounted or lost reply parks it), `Resume` (from the
last round of the latest earlier attempt that has one), then the SDK's loop: `Reserve`,
`Send`, `Account`, and per call `Prepare`, `Begin`, `Perform`, `Observe`, until
`CheckpointToolRound`, or `CheckpointAgentReply` and `Publish`. `Abort` is any error of any
step; a process that died is one that takes no further step; `Expire` lets the next
attempt be claimed while the old one is still running, `Revive` is the heartbeat that
arrives in time after all, `Wake` the signal to a parked delivery. `OutsideEdit`
is anybody else writing to a file.

The SDK (github.com/spawn08/chronos) is external: the loop over replies and calls is
modelled from the hooks the code gives it. The executor of today grants reads only; the
journal does not depend on that and is modelled for any grant. The probe of a write
compares the file's content (`Confirmed`); an operation of class `unknown` proves
nothing and parks.

### DurableTeam

`receipts[n]` is the team checkpoint in attempt *n*'s row, `known[n]` the executor's copy of it,
`member[n][m]` the run of one member, whose conversation is the one of `DeliveryEffects`
without effects. `CheckReceipts` compares the receipts with the calls that were billed
and checkpointed: `PrefixAccounts` for a sequential team (one total),
`MembersAccount` for a parallel one (a count each). `CheckpointMember` writes all known
receipts in one statement; it may be committed and reported as an error, in which case
the member is forgotten in memory and the next write erases it.

### ToolSupervisor

`stage[r]` follows a run from `start` through its goroutine to its removal; `mu` is
`s.mu` as `start` holds it across the journaling of the intent; `writer[r]` is
`receiptMu` of one run with the receipt composed under it. Each `PutFile` is a step that
may fail, with or without having written (`Put`). `runFile` and `activeFile` are
`harness/runs/<id>` and `harness/active/<fingerprint>`. `Close` and `Restart` end one host
and start the next, which knows only the files; a crash is a `Restart` without `Close`.

### EvidenceLedger

`ledger` is a task's `Ledger` together with its file: events in memory, lines, and
whether the last line is torn. `Recorded` is `Record` with `appendLocked`, for some drafts
one after the other, as a scan records them: identities and revisions are given
(`Assigned`, in closed form for the k-th draft), each line is appended and then the memory.
`Rejected` is that with an append that reports an error, with no byte, some bytes or the
whole line written. `Current` is what
`Reduce` says of verifications. Around it are the calls of the task: `WriteFile` and
`RecordWrite` are a `file_write`; a check goes from `Begin` (source scan, revision) to
`Exits`, and its evidence from `ExitScan`, or from `Collect` when it went to the
background (`Detach`) and `await_shell` or an assessment finds it exited, through `Judge`
and `RecordCheck`, two steps because the code takes the ledger's lock twice. `Edit` and
`Delete` are anybody else. `Crash` may tear the append that is under way; `Open` is
`openTaskRuntime`: `Load`, replay and `reconcileExternalChanges`. `saw[c]` remembers the
contents a check read and is not part of the code.

### IndexStore, PublishedIndex

`files`, `manifest` are the directory; `cur`, `snaps`, `segs` the published generation, the
snapshots in use and the mapped segments of one open store, `held` what each reader has
acquired. A path is a number, so that a shard's lower bound can be compared; a file's
facts are a version, a tombstone is `Deleted`. `Apply` is how an overlay shadows what is
older, `Lookup` and `LiveRefs` the two ways of reading. A *job* is what the holder of
`writeMu` does: `Overlay`, `Base`, `Compact` and `Import` plan it from the current
snapshot, then each segment file (`WriteSegment`), the manifest, the swap and the release
of the previous snapshot are steps of their own, between which readers come and go.
`Fails`, `WriteFails` and `ManifestFails` are what may go wrong; a manifest may have been
renamed into place although its directory was not synced, and then names segments that
`publishManifest` removes: such an index is not `whole`, the next `Open` discards it, or
finds names that a retry has written again, and nothing is promised of it (`Lost`). `Close`
keeps the files of its segments, `Crash` forgets memory, `OpenStore` loads or discards and
removes what no manifest names. `SaveMeta` is `SetMeta`, which the engine has as a step of
its own; `StoreInit`, `StoreNext` and `StoreSpec` are named so that one module can prove
theorems of both.

`PublishedIndex` is the promise without segments: one writer replaces the index, a reader
keeps the one it opened, the next process continues from the published index or from the
one that was being published. `PublishesIndex` reads the current index (`CurrentIndex`), the
next process's (`Durable`) and each reader's (`OpenIndexes`) through `Lookup`.

TLC evaluates definitions and arguments wherever they are used; `Let(x, f)` is `f(x)` with `x`
evaluated once and has no counterpart in the code. `Only` and `Over` are `:>` and `@@` of the `TLC`
module, written so that the prover can expand them.

### IndexEngine

`tree` and `head` are the working tree and its commit, `index` what each path is indexed
with; the store is reduced to what `IndexStore` shows of it (a publication replaces
`index` and saves the metadata in memory, `meta`, as `saved`; `SetMeta` saves it alone).
`pass` is the pass that holds `Engine.mu`: a reconcile goes through `ReadHead`,
`ListDirty`, `ReadFiles`, `Publish` and `SetMeta`, an update through `ReadFiles` and `Publish`;
between any two of them the user may edit, check out or commit, a step may fail, the
process may stop. `Staged` is the cap of `Update`, `Kept` the one of a reconcile
(`indexable`), `PublishWorkingSet` the head start of a large first build (of the modified
files; recent commits and the focus directory change only which files those are). `Watch`
follows the first reconcile; `queue` is what fsnotify and the channel of batches hold,
`dirty` and `overflow` are the variables of `Watcher.loop`, `Flush` one of its passes.

One history variable, `missed`, holds the paths whose last change nothing in this process
will report any more: it came before the watcher ran; its pass failed, since `flush` clears
the batch first (`PassFails`); or a commit between the two looks at git hid it from an
overflow's reconcile (`Unseen`). Nothing is recorded about the metadata: `Untrue` is read
off the state, the paths that the metadata on disk or in memory vouches for although they
are indexed otherwise.

### McpPool

One configuration; entries of others share only the factory's mutex, which is held for
single steps. A generation is one `sharedClientEntry`, numbered: `entry` is
`p.entries[key]`, `prior[g]` the predecessor whose `done` it waits for, `busy` the
generations whose `gate` is taken. `conn[g]` follows the transport from the factory's call
to the return of its `Close`, so it is still `closing` after `e.client` was set to nil.
`caller[c]` is a goroutine in `Connect`, `ListTools` or `CallTool`: `lock` (its two channels
are `MayEnter`), then the connection, the listing or the call, each an input or output
that may end in any way or never (`Fail`, `Called`). `lease[l]` follows `Close`: `Release`
cancels the lease and drops the reference, two steps of the code that commute with
everything others do, since what the cancellation ends needs the gate; whoever drops the
last one goes on through `Shut` (prior, then gate), `Finish` (the client's `Close`,
`close(done)` and the gate, the last two in one step as nobody can do anything between
them that the order would change) and `Forget`. An operation on a lease that was already
released fails before it touches anything, so `Begin` is offered for open ones. A lock that
gets the gate of a cancelled lease gives it back at once and is a `GoesAway`.

## 3. What the runs check

| run | question | states |
| --- | --- | --- |
| `delivery_queue` | can a stale owner write, two attempts be open, a cancelled delivery revive, state and row part? | 399,153 |
| `delivery_worker` | is interrupted and put-off work claimed, a stale run stopped? | 68,292 |
| `poisoned_lease` | is a stopped run reclaimed when the executor had moved its delivery? (no) | |
| `delivery_effects` | is an effect repeated, a reply bought twice, a receipt untrue? | 1,588,703 |
| `durable_team` | does an interrupted team pay again, or forget or confuse its members? | 698,827 |
| `tool_supervisor` | do duplicates invoke twice, slots leak, results get lost? | 1,063,368 |
| `stale_cancel` | is an interrupted effect launched again after a late cancellation? (yes) | |
| `evidence_ledger` | does current evidence hold of the files, is history readable whatever fails? | 641,374 |
| `raced_evidence` | is evidence of old content current after a concurrent write? (yes) | |
| `index_store` | do readers, the next process and the files agree with the published index? | 154,464 |
| `index_engine` | when does the metadata vouch for stale files; does the watcher leave any? | 351,458 |
| `mcp_pool` | do servers overlap, calls lose their transport, releases hang? | 183,581 |

**delivery_queue.** `LeaseNamesOpenAttempt`: only the last attempt can be unfinished,
and a leased row names it. `EpochsFenceAttempts`: no two attempts share an epoch, and
the row's is never behind. `CancelIsFinal`: nothing revives a cancelled row or
changes its attempts. `RowMatchesState`: `Transition` and `TransitionLease` move the state
and not the row, so that no invariant relates the two; what is checked is that nothing else
parts them. Each operation that changes the row's status or epoch (`Claim`, `Release`,
`Finalize`, `SignalWaiting`, `Cancel`, admission) leaves row and state in agreement, also
when they were not before, and a finished delivery's row is never parted from it. One
exception is named: a repeated runnable admission gives a ready row to a delivery that
`Transition` moved on before it had one. `ImplementsLease`: the refinement.
Bounds: one delivery (rows are independent but for the order of `Claim`, which
`DeliveryWorker` has with two), two owners, interchangeable; clock 0..2 in half seconds,
enough for one whole second whose text order is wrong, a lease of one half second and a
reading one half second old; three epochs, so that two old leases coexist with a
current one; leased moves to `checkpointing` and `queued`, unleased ones to
`paused`, `cancel_requested` and `reconciling`, one of each kind the table tells apart.

**delivery_worker.** Under fairness, `InterruptedWorkIsReclaimed`,
`RetryIsClaimed`, `StaleRunIsStopped`. Bounds: two deliveries, so that one can overtake
the other in the line; two workers; lease two ticks, heartbeat and retry one; one fault
anywhere. One fault is what these properties need: every fault ends in a state the
fault-free system must leave, and the run starts over from there.

**delivery_effects.** `EffectsNotRepeated` ("replay does not duplicate completed
effects"), `RepliesNotRebought`, `ReceiptsAreTrue`, `ResultHidesNothing`,
`ConversationIsComplete`, `EffectsDoNotOverlap`. Bounds: three attempts, because
"the latest of several earlier attempts" and an attempt that checkpointed nothing
in between need three; two rounds, so that a later round meets an earlier one's
records; two calls, one whose effect proves nothing and one file write, so that a round
can be left half observed.

**durable_team.** `CallsNotRebought`, `ReceiptsAccountForCalls`, `MembersSeeTheAnswer`,
`ReceiptsAreInherited`. Bounds: a team of two, members that may make one tool round each
before they answer; three attempts of a sequential and two of a parallel team. Three
attempts of a parallel team in which one member uses tools were checked as well
(5,980,000 states); the run leaves them out for its length.

**tool_supervisor.** `DuplicatesInvokeOnce`, `SlotsMatchRuns`, `ResultsCanBeCollected`,
`TerminalReceiptStands`, `InterruptedNotRepeated`. Bounds: three calls, two with the same
fingerprint; two concurrent `await_tool`/`cancel_tool` calls; capacity two, two runs, two
hosts; two failing writes, so that the repair of a receipt can fail as well. Cancellation
is offered for the call with the other fingerprint only: on the repeated one
`InterruptedNotRepeated` fails, which is what `stale_cancel` shows.

**evidence_ledger.** `EvidenceIsFresh`, `DurableHistory`, `ReopenedEvidenceIsFresh`. An
append may fail with nothing, some bytes or the whole line in the file, twice, so that a
failing append meets the remains of another. `DurableHistory` says what survives that: a
file that can be read is memory, or memory and one event that was rejected; only a failing
append leaves anything else behind, no crash and no opening does; and only an append behind
such a leftover makes the history unreadable. Bounds:
one agent (`Lanes = 1`) whose check may still run in the background; two files that the
check covers, two calls that write the first, two changes by others, two failing appends,
one crash: a check that is disturbed twice, or evidence that is outdated before and after a
restart, needs no more. Two checks with overlapping cover beside one writing call and one
failing append were checked as well (7,575,848 states); the run leaves them out for their
length. The run is limited where the code fails: with two calls in flight
`raced_evidence` refutes `EvidenceIsFresh`.
`ReopenedEvidenceIsFresh` speaks of files the task has written, as the code does: a file
that was checked and never written is not compared when the task is opened again, and
what changes between the opening and the first shell call becomes the scan's baseline.

**index_store.** `SegmentsOutliveReaders` and `NothingLeaks`: segments are mapped, and their
files kept, exactly as long as a snapshot or the manifest uses them. `OneLiveRecord`: for
every snapshot, `Lookup` and the records `Refs` lists agree, and `nLive` counts them.
`PublishesIndex`: the refinement. Bounds: three paths and shards of one file, so that a
compaction keeps one shard, rebuilds another and may lose the first; batches that
rewrite, delete and add; an import with a shard over two paths and an overlay; three
generations, so that an overlay lies on an overlay and a compaction follows both; one
reader at a time (with the published one two generations share segments); one failing
write and one stop or crash anywhere. `SegmentsOutliveReaders` and `NothingLeaks` are also
proved without bounds.

**index_engine.** `TouchedCoversIndex`: "Touched lists paths that may differ from Commit's
content in the index" (`store.go:52`) is not true at any time, so the property says at which
steps it ceases to be, and of which paths: between a reconcile's publication and its
`SetMeta`, of what the reconcile wrote; with that `SetMeta`, of the modified files it leaves out
(`LeftOut`: beyond the cap, not listed by git, changed under the looks at it). No update,
other failure, stop or start does it, and a reconcile whose metadata is saved repairs
whatever else it looked at. `ChangesAreIndexed`, under fairness: while the watcher runs, a path
whose index is out of date is indexed again, but for four cases: the path is `missed` for one
of its three reasons, or the metadata that the overflow's reconcile trusts is `Untrue` of it.
Each of the four is needed: without any one of them TLC finds a change that stays unindexed.
Bounds: two
paths, two commits that differ in one of them, caps of one so that both are exceeded,
three steps of the user, one failing step, one stop. With two failing steps both hold as
well (957,378 states). `TouchedCoversIndex` is also proved without bounds.

**mcp_pool.** `TransportsDoNotOverlap` and, under fairness, `ReleasesEnd`. Bounds: three
leases, so that a generation has a lease that is released while others stay, and that a
third may be taken while the second generation still waits for the first; as many
generations as leases, which is no bound; two callers, one at the gate while the other is
behind it. `TransportsDoNotOverlap` is proved for any number of each, and so is what the
gate protects (`CallsKeepTheirTransport`).

No run checks for deadlock: every model is bounded in attempts, rounds or time and may
stop when the bound is reached, and a queue without work rightly waits.

### Fairness

`DeliveryWorker`, `IndexEngine` and `McpPool` have liveness properties. In `DeliveryWorker`, weak fairness of `Claim` is the polling loop;
of `Start`, `Finalize` and `Abandon`, that a goroutine which can go on does; of
`Heartbeat`, the ticker; of `Restart`, that a stopped worker is started again. `Return`
is weakly fair only once the execution is cancelled, the one case in which
`Execution`'s contract asks an executor to return; that it returns by itself is the
premise `ExecutorsReturn` of the properties that need it. `Tick` is strongly fair: time
diverges. Faults are never fair and end after `MaxFaults`. In `IndexEngine`, a pass that
runs goes on (`PassStep`), the loop receives what is sent (`Receive`, `ReceiveLoss`: the
backend blocks until it does) and its timers fire (`Flush`, every two seconds at the
latest); that a first reconcile is retried or a watcher started is not assumed. In
`McpPool` the steps of a `Close` go on when their channel stays ready, a client's `Close`
returns, and an operation whose lease is released ends, since its context is cancelled
and `NewSharedClientFactory` requires clients that honour it; of an operation whose lease
is not released nothing is assumed, so that a hanging server keeps the gate for ever.

### Findings

1. **An executor that is interrupted in `checkpointing` stops the queue**
   (`poisoned_lease`). The comment on `Worker.Start` (`worker.go:86-88`) says that
   interrupted leases are left to expire and can be reclaimed. `Claim` selects an expired
   row, and then refuses it when its state is not `queued`, `running` or `waiting_retry`
   (`delivery_queue.go:157`); since the row remains the first one due, every later claim
   fails the same way. An executor gets into such a state through
   `Execution.Transition` (`checkpointing`, `reconciling`, `replanning`).
2. **A late cancellation overwrites the next run's intent** (`stale_cancel`).
   `cancel_tool` looks its run up under `s.mu` and writes its receipt later under that
   run's `receiptMu`. In between the run may complete and the same tool be started with
   the same arguments; the late write then replaces the new run's intent in
   `harness/active/<fingerprint>` by a completed receipt. If the host dies, the next one
   launches the effect again, although interrupted effects "must be reconciled, never
   blindly repeated" (`tool_supervisor.go:387`).

3. **A concurrent write escapes a check's verdict** (`raced_evidence`).
   `recordCommandEvidenceAt` compares the revisions of one `State()` with the revision at
   which the check started, and `Record` then gives the evidence the revision of a later
   moment. A write that another call of the task records in between (parallel team
   members share the runtime) is neither seen nor newer: evidence of the old content
   stays current, also after later scans, which took the change for seen.

### Gaps that the models record

They contradict the comments quoted here. The runs contain them: each property above says what
holds in spite of them and names them as its exceptions. `Lost` marks the last one.

- A failed append can make a task's ledger unreadable. When `file.Write` fails after some
  bytes, the fragment stays in the file; the next append succeeds, is committed in memory
  and continues the fragment's line. `Load` finds a malformed line before the tail:
  `ErrCorruptLedger` at every later opening. A failing `Sync` or `Close` leaves the rejected
  event in the file, and the next one repeats its identity. The comments promise that
  "persisted history is never behind the in-memory view" (`ledger_store.go:20-22`) and that
  evidence survives restarts (`:40-42`). An invariant that says so of every file is violated in
  `evidence_ledger`'s instance; `DurableHistory` says that this is the only way to it.
- More than 4096 dirty files at a reconcile: `indexable` keeps the first 4096
  (`engine.go:887`) without setting `TouchedOverflow`, against the comments at
  `store.go:52-57` (`LeftOut`). When those changes are undone while nobody watches, or in a burst
  that overflows the watcher, the next git reconcile looks at none of the others.
- A stop, or a failing `SetMeta`, between the publication of a reconcile and its metadata:
  files indexed with their changes, which are then undone, stay stale: the first exception
  of `TouchedCoversIndex`, against the same comment. The same holds of
  a listing whose `gitDirty` failed: the error is ignored (`engine.go:390`) and the commit
  recorded.
- HEAD that moves between `gitHead` and `gitDirty` of a reconcile: what the commit hides is in
  neither answer. After an overflow of a running watcher such a change was reported and
  stays unindexed all the same, although no pass failed (`Unseen`).
- Files that change while the
  first reconcile reads or before the watcher runs: nobody reports them. The
  "adaptive idle reconciliation" of `docs/chronos-indexer.md:209` is not in the code.
- A watcher pass that fails drops its batch (`watch.go:208`).
- A manifest renamed into place whose directory sync fails: `publishManifest` reports the
  failure and removes the segments that the manifest on disk names; the next process
  discards the whole index.

## 4. What is proved

For every value of the constants, from their named assumptions only (what types they
have, that `NoOwner` is no owner and `None` no commit, reader's generation or index, that the
index to import was built by this code, with its tombstones in overlays and its paths in their
shards, that an index has finitely many paths and readers, a pool finitely many leases and a task finitely many files and calls; no
assumption limits the number of deliveries, owners, attempts, rounds, calls, paths, readers,
files, commits, runs, hosts, leases or generations). Three theorems have a hypothesis in front, where
without it the code does something else: `CancelledAlone` in one and `OneLane` in two,
each explained with the theorem.

**The queue** (`DeliveryQueueProofs`).

- `TypeCorrectness`, `LeaseCorrectness`, `EpochCorrectness`: `Spec => []TypeOK`,
  `[]LeaseNamesOpenAttempt`, `[]EpochsFenceAttempts`.
- `CancellationIsFinal`: `Spec => CancelIsFinal`.
- `RowCorrectness`: `Spec => RowMatchesState`.
- `LeaseRefinement`: `Spec => ImplementsLease`.

The inductive invariant is `TypeOK /\ RowsAgree /\ AbsentIsUnqueued`. `RowsAgree` says of
each delivery what its row and its attempts agree on; the two stated invariants are part of
it, and two facts are added that they need: a row that does not exist has no attempts
(or the first claim could meet an old epoch), and the attempts of a cancelled row are all
closed (or `CancelIsFinal` could not say that nobody writes them). `AbsentIsUnqueued` is
what makes admission create a row and not overwrite one. The lemmas state, per way of
writing a row (`EnsureRow`, `LeasedRow`, `Unleased`, `FencedRow`) and per way of writing
the attempts (`CloseOpen`, an append, a rewrite of the last one), that they agree
afterwards; the step lemma has one case per action. The clock does not occur in the
argument, which is the point: expiry only decides who may claim, epochs decide who may
write.

`RowMatchesState` is about steps, and each operation is looked at once: what it writes
agrees, whatever row and state it found (`OutcomesConsistent` for the outcomes of `Finalize`).
Only that a finished row is not parted from its delivery needs an invariant: the two agree
(`DoneConsistent`), and the terminal states have no successors.

**The journal** (`DeliveryEffectsProofs`).

- `TypeCorrectness`: `Spec => []TypeOK`.
- `ReceiptCorrectness`: `Spec => []ReceiptsAreTrue`.
- `OverlapCorrectness`: `Spec => []EffectsDoNotOverlap`.
- `EffectCorrectness`: `Spec => []EffectsNotRepeated`, however many attempts there are.

`EffectsNotRepeated` is far from inductive: operation ids contain the attempt, so nothing
in the tables prevents a repetition. The argument, and with it the invariant, is this.
Only the latest attempt can hold the lease (`LatestHolds`), so no earlier one adds an
operation or a round once a later one is claimed. An attempt passes `CheckEffects` only
if every operation of an earlier attempt is *kept*, that is, has a receipt in a round its
attempt checkpointed; this stays true (`CheckedOnce`, `OpsAreKept`). It resumes after the
last such round (`TalkIsAhead`), so the rounds of later attempts are later rounds
(`RoundsAdvance`), and its operations lie ahead of every round of an earlier attempt
(`OpsAreAhead`). Two effects of the same round by two attempts contradict the last two.
An attempt that reconciled another one's operation does not go on to act
(`ForeignReceipts`). The whole conjunction was first checked by TLC as an invariant of
the run's instance.

Three more theorems say the same of what is paid for, said and published:

- `ReplyCorrectness`: `Spec => []RepliesNotRebought`.
- `ConversationCorrectness`: `Spec => []ConversationIsComplete`.
- `ResultCorrectness`: `Spec => []ResultHidesNothing`.

*Bills* (`BillInv`). An attempt gets to a first request only when no bill of an earlier one
is open (`UsageSettled`) and each is in a checkpoint (`AllAccounted`). The second is what
`CheckCount` is for, and the code compares two numbers there, not two sets: since every
checkpoint has a bill, the checkpointed bills are a subset of the reconciled ones, and a
subset as large as the set is the set. From then on bills of a later attempt lie ahead of
the rounds of an earlier one (`BillsAreAhead`), and no terminal reply of an earlier one
exists, so that two requests for one reply contradict each other. *Conversation*
(`TalkInv`): a checkpointed round has all earlier rounds before it, in that attempt or an
earlier one, and the attempt in the conversation has all of them. *Result* (`ResultInv`):
an attempt that publishes has left no operation of its own without a receipt; those of
earlier attempts are kept, their bills settled; and once there is a terminal reply no
attempt gets into the conversation again, so what is true at the publication stays true.

**The worker** (`DeliveryWorkerProofs`).

- `TypeCorrectness`: `Spec => []TypeOK`.

A run that finalizes has an outcome and a delivery it works on (`RunsHaveWork`). That the line
of `Claim` names a delivery once is what makes it an order: the lemmas on `Unlisted` and
`InsertAt` say so for every length and every place (`Inserting`, `Places`).

**The teams** (`DurableTeamProofs`).

- `TypeCorrectness`: `Spec => []TypeOK`.
- `CallCorrectness`: `Spec => []CallsNotRebought`.
- `ReceiptCorrectness`: `Spec => []ReceiptsAccountForCalls`.
- `AnswerCorrectness`: `Spec => []MembersSeeTheAnswer`.
- `InheritanceCorrectness`: `Spec => []ReceiptsAreInherited`.

The invariant has three layers. `BaseInv`: the call a
member is at has the bill its stage says, and an attempt past `CheckUsage` sees no open
bill of an earlier one, for good (`Settled`). `ReceiptInv`: a team that runs knows every
receipt of every earlier attempt (`Inheritance`) although it copies them only from the
checkpoints it finds; for this, a checkpoint with any receipt must contain those of all
earlier ones (`ReceiptsGrow`). It is not true that an attempt's own checkpoint only grows:
when the write of a parallel team's receipt is committed and reported as an error, the
team forgets that member and the next write erases its receipt. What holds, and suffices,
is that such a member is over in this attempt (`WrittenOnce`), and that what the team knows
is in some checkpoint (`KnownIsRecorded`). `TalkInv`: the calls paid for by earlier attempts
for a member without a receipt are all checkpointed (`Accounted`). That is where
`CheckReceipts` compares counts again; a sequential team has one total for a prefix of
members, and the lemmas derive the sets from it through `TotalsCount` and `ReplyEnds`: a
reply ends the conversation of its member, so nothing beyond it was paid for.

**The index store** (`IndexProofs`).

- `ReaderCorrectness`: `StoreSpec => []SegmentsOutliveReaders`.
- `LeakCorrectness`: `StoreSpec => []NothingLeaks`.
- `RecordCorrectness`: `StoreSpec => []OneLiveRecord`.
- `IndexRefinement`: `StoreSpec => PublishesIndex`.

All hold for any paths, batches, imports and shard sizes, any number of readers, failures
and crashes. There are two inductive invariants, in `IndexInvariants`: `StoreInv`, of names,
counts and files, and on top of it `ContentInv`, of what they hold. The first keeps two ledgers and ties them together. By generation:
the snapshots in memory are those somebody has a reference to, and count them
(`Tallied`): the readers, the store, a compaction, and a publication that has yet to release
what it replaced (`References`). By segment: the open ones are those some snapshot lists, each
counts the snapshots that do (`Counted`), and it is retired exactly when the published one
does not list it (`SegmentInv`). That needs the job: what a planned publication keeps and
retires is together what is published (`PlanFits`), and its new names are of the next
generation, so that they are nobody's. The files of an open store are the open segments',
those the job has written and the strays (`FileInv`). A stray may have the name the next
attempt writes; it is no stray any more once it is written.

What a snapshot *contains* never matters to that: of it, only the names and counts are used
(`IsSnapshot`), and `ReaderCorrectness` and `LeakCorrectness` need no more. One list is needed in earnest, the shards after a compaction (`CompactionDraft`): each kept shard
is in it once, no matter how the touched ones were cut between them. The concatenation of
`FlattenSeq` has no theorem in the library, so the existence and shape of its recursive
function are proved by a least counterexample (`LeastNumber`, `ConcatenationExists`,
`Flattened`), an induction that needs no operator parameter. `ReleaseTallied` is the step
that `Done`, `ReleasePrevious`, `Fails` and `Close` share: one reference less, the last one
drops the snapshot, and the last snapshot drops the retired segment with its file unless
`Close` keeps it (`ReleasedFiles`).

`ContentInv` is about a stack of segments: shards, each with paths of its own range and no
tombstone, and overlays on top of them (`Stacked`). What a stack shows of a path is what its
newest segment with that path holds (`Visible`), a definition without routes, tombstone sets or
counts. A snapshot is `Sound` when its routes lead there: `over` to the newest overlay of a
path, `dead` to every record that is a tombstone or hidden by a newer one, and `nLive` counts
the rest (`Routes`). The lemmas that carry the weight are three. One application of `Apply`
keeps `Routes`, with the shadowed records counted once each (`ApplyRoutes`), so the routes of
all overlays in turn are right (`RoutedRoutes`; that its recursive function exists is
`RoutesExist`, by a least counterexample again). `Lookup` and the live records of a sound snapshot agree
with `Visible` (`SoundReads`, `ViewVisible`). And what a compaction writes shows what was
shown: the live records gathered for a shard are cut into new shards that keep its range
(`Split`, `Cut`), and putting them where the touched ones were, with the first starting the path
space, leaves a stack of shards (`CompactBegins`).

The rest of `ContentInv` says where contents are: a job's plan shows what it wants
(`PlanShows`), files hold what is mapped and what was written (`FilesShow`, `JobShows`), and a
manifest whose publication succeeded names a stack (`ManifestShows`) that no release removes
(`ManifestKept`): while the store is open it names published segments, or those a swap is about
to publish; afterwards, segments whose files `Close` keeps for as long as readers have them open.
Without that last part the durable index could change under a closed store, when its last reader
is done.

`IndexRefinement` needs one step lemma per action. A job begins as `Begin`, `PublishManifest` is
`Persist`, `Swap` is `Adopt` (its manifest is in place: `JobShows`), a failure is `Abandon`,
which may leave `Lost` behind when the manifest of a failed publication is in place; writing a
segment and releasing the previous snapshot change nothing that shows (`ShownStays`,
`DurableStays`). `OpenStore` shows what was durable (`ContentOpens`) or discards what is `Lost`
(`ContentDiscards`). The parts of both invariants were first checked by TLC on the
instance of `MCIndexStore`.

**The index engine** (`IndexProofs`).

- `TypeCorrectness`: `Spec => []TypeOK`, with the two caps.
- `CoverageCorrectness`: `Spec => []TouchedCoversIndex`.

`TouchedCoversIndex` is about steps: at which the metadata becomes untrue of a path. The
invariant (`PassInv`) says of the pass at each of its stages what makes its last step
right. An update that will change a path has staged it before (`UpdateIsStaged`): its
publication saves metadata that names the path, or has overflowed. A git reconcile
trusts the metadata (`GitTrusts`): what it does not look at is not touched and the same in
both commits, so it is no more untrue afterwards than before. What git did not show and
nobody changed since has the content of the commit (`UnshownIsCommitted`,
`ReadIsCommitted`), and is indexed so once published (`PassIsIndexed`), so the new metadata
may leave it out. The steps that write neither the index nor new metadata keep what is true
(`StaysTrue`); `PublishTruth` and `MetaTruth` are the two that do. The metadata need not have
reached the disk: a failing `SetMeta` has both of its outcomes there.

**The supervisor** (`ToolSupervisorProofs`).

- `TypeCorrectness`: `Spec => []TypeOK`, with the capacity.
- `DuplicatesCorrectness`: `Spec => []DuplicatesInvokeOnce`.
- `SlotCorrectness`: `Spec => []SlotsMatchRuns`.
- `ResultCorrectness`: `Spec => []ResultsCanBeCollected`.
- `ReceiptCorrectness`: `Spec => TerminalReceiptStands`.
- `RepeatCorrectness`: `CancelledAlone => (Spec => []InterruptedNotRepeated)`.

Two facts carry the invariant. A run in `s.runs` is the one its fingerprint's entry of
`s.active` names (`ActiveNamesRun`), so that whoever removes a run clears its own entry and no
other's. And whoever holds a run's `receiptMu` knows where the run stands (`WritersKnow`):
`start` only while the intent is journaled, the goroutine only after the handler returned,
a repair only while the result is kept and its error taken. Hence no receipt that is being
written is older than what it overwrites (`ReceiptsOpen`: an open status is only under
way while the file has no terminal one), and a run is removed only after its receipt was
written (`ReceiptsStay`). Slots are counted: each of the three places that give one back
moves one run out of the set (`GivesBack`).

`InterruptedNotRepeated` holds across hosts, so its invariant (`LInv`) is about the file of
a fingerprint, which alone survives. Unconditionally it is false, which is finding 2; the
theorem's hypothesis names what the finding needs: `CancelledAlone` says that no call
somebody cancels has the tool and arguments of another call. The run `tool_supervisor`
satisfies it, the run `stale_cancel` does not. The argument: a run is launched only while
`s.mu` is held for it, as the last one admitted, with its intent in the file
(`IntentsHoldMu`, `IntentIsWritten`). While it has not returned, the file names it with an
open status, which `start` refuses (`PendingIsLast`). Only a run of this host, or one that
is being cancelled, has a writer: the former is the run itself, since two of a fingerprint
are never in `s.runs` and a new host has none of the old ones (`LostLeaveTheMap`); the
latter would be an earlier run of another call, as the file refuses the same call for good
(`CancelledIsLast`).

**The evidence ledger** (`EvidenceLedgerProofs`).

- `Invariance`: `Spec => []BaseInv`.
- `DurabilityCorrectness`: `Spec => DurableHistory`.
- `EvidenceCorrectness`: `OneLane => (Spec => []EvidenceIsFresh)`.
- `ReopenedCorrectness`: `OneLane => (Spec => ReopenedEvidenceIsFresh)`.

`BaseInv` holds for any number of calls and any failing append: the events in memory are
in order of sequence and revision, those of a file that can be read as well, and such a file
is memory, or memory and one line that was rejected and left behind. That one line repeats
or skips a sequence number, so whatever is appended behind it makes the file unreadable
(`Linked`, `LinkedAppend`): a readable file is always a history that memory had, or was
about to have. The lemmas on `Grown` say what recording some drafts does to a history, in
any number and wherever it stops.

`DurableHistory` needs no assumption about failures: what `BaseInv` says of a readable file
is its first half, and for its second, an append to a file that ends as memory does, and a
crash or an opening, end with a readable file and, unless the append failed, without a
leftover. What no theorem can say is that the history stays readable, the gap recorded in
section 3.

Freshness is proved for every failing append, torn or whole, but for one call in flight
(`OneLane`), because finding 3 refutes it for two. `FreshInv` rests on contents that
never come back: what a history, a scan or a check knows of a file is what the file holds,
or is past for good (`Was`, `Past`). A history is *sound* when each passed check in it saw
what was last recorded of the files it covers, or that is past (`Sound`); this is kept by
what is recorded, and by crashes and reopening, since a readable file is a history. For a
check in flight, `Following`: each change since it ran will be found by the next scan or
was recorded behind `startedRevision`, and what was recorded before the start it has seen.
`Undisturbed` turns that into `Covered` for its evidence, where a later write stands in for
the revision; between the two lie two steps, and that no other call records there is what
one lane gives (`OneInFlight`). When a task is opened again, a file that was written and did
not diverge has the content last recorded, which is not past, so a sound history's check
saw it. `BaseInv` and `FreshInv` were first checked by TLC as invariants, with the failing
appends of all three kinds.

**The pool** (`McpPoolProofs`).

- `TypeCorrectness`, `TransportCorrectness`, `CallCorrectness`: `Spec => []TypeOK`,
  `[]TransportsDoNotOverlap`, `[]CallsKeepTheirTransport`.

The invariant ties the counters to the leases: `refs[g]` is the number of open leases of *g*
(`References`), so that one lease at most shuts a generation down (`OneShutsDown`) and none
is open when it does; the current entry is the last generation and each waits for the one
before it, unless that was forgotten, and then it was done (`Succession`); the gate has one
holder, an operation or a `Close` (`Exclusion`). Whoever touches a transport holds the gate
and waited for the predecessor, which waited for its own; an operation also found its
lease open, hence the generation not shut down.

## 5. What is only model-checked, and what is not modelled

Only model-checked: all liveness (fairness and ENABLED are beyond the proof system);
and that `EvidenceIsFresh` fails for two lanes and `InterruptedNotRepeated` for cancelled
calls, which TLC shows by a counterexample each.

Left out of modules that exist, and why:

- *DeliveryQueue*: goal revisions, requirements and events, which do not touch the queue
  (planned, `DeliveryMutations`). Reading operations.
- *DeliveryWorker*: the operations that move the state apart from the row or give a lease back
  by another rule: the public `Transition` and `Release`, which only tests call, and, outside
  `MovingSpec`, `Execution.Transition` with `TransitionLease`, which no executor of the repository
  calls and with which the liveness properties are false (finding 1). All of them are in
  `DeliveryQueue`, where safety is checked and proved with them.
- *DeliveryEffects*: goal revisions between attempts (they park the delivery); the same
  call id twice within one attempt; `WithLeaseEffect`, which no executor calls.
  A delivery whose operation the host reconciled, or that wrote one file in two rounds,
  parks for ever; the model shows it, and no property calls it wrong: the code chooses to
  ask a person.
- *DurableTeam*: goal revisions and a changed team (both park), the size limit of a
  receipt. The SDK's `RunSequentialWithCheckpoints` and `RunParallelWithCheckpoints` are
  external: the checkpoint callback is taken to be called by one member at a time, as the
  code's unlocked receipts require. The usage check, which the executor and the team both
  make, is one step.
- *ToolSupervisor*: one session, one owner, hosts one after another; `message_tool`, which
  only forwards to an inbox; calls without an id. `await_tool`'s look at the run and the
  setting of `cancelAsked` are merged: what lies between them reads nothing shared.
- *EvidenceLedger*: requirements, assumptions, calls and claims, which no verification
  depends on; scopes beyond the set of files a check covers; what a shell command is
  taken for (`planShellEvidence`), so a mutating command is an `Edit` between two scans;
  commands that fail; a file deleted and made again, or changed and changed back between
  two scans, which hashes cannot tell; two processes with one task's ledger open. A scan
  reads the tree and records its writes in one step, under `sourceMu` as in the code.

- *IndexStore*: damaged or foreign files, which `Open` discards as it does an index of
  another extractor; the read-only opening; the copying of an import's files, whose
  source nobody changes; sizes in bytes, of which `ShardFiles` keeps the cut.
- *IndexEngine*: module files, ignore files and directories, which turn an update into a
  reconcile; `git` answering with too many changes (it lists instead); files whose content
  changes under the same size and modification time, which are skipped; the polling and
  watchman backends; compaction, which changes no content (`PublishesIndex`); the caller of
  `Close`, taken to come when no compaction starts; several roots and their eviction.
- *McpPool*: discovery, policy and the runtimes that own the leases (`runtime.go`), which
  register an agent's tools and replace them when a configuration changes; what a server
  answers; deep copies of tool lists.

Not modelled at all: pure functions over text (policy, guardrails, extraction and
queries, prompt assembly, claims, configuration, rendering) and backup, whose hard part
is the file system's and SQLite's.

## 6. The plan

In this order. Items 1 to 11 exist.

1. `DeliveryStates`, `FencedLease`, `DeliveryQueue` and `DeliveryQueueProofs`: the fence
   everything else stands on.
2. `DeliveryWorker`, `DeliveryWorkerProofs`: composes the queue's abstraction with workers
   and time.
3. `DeliveryEffects`: composes lease, journal and executor. 4. `DeliveryEffectsProofs`.
5. `DurableTeam`, `DurableTeamProofs`: composes the conversation of 3 per member with the
   team's receipts.
6. `ToolSupervisor`, `ToolSupervisorProofs`, the interactive side's counterpart of 3.
7. Their runs and mutants.
8. `EvidenceLedger`, `EvidenceLedgerProofs`: memory and file with a failing write or sync
   and torn tails, and the calls whose checks become evidence.
9. `PublishedIndex`, `IndexStore`, `IndexInvariants`: segments, manifest, snapshots.
10. `IndexEngine`: what is indexed and what the next process may skip. `IndexProofs`, of both.
11. `McpPool`, `McpPoolProofs`: generations of a shared transport.
12. `DeliveryUsage`: admission under a cap shared by attempts, unknown calls, overflow
    with a width of four bits. Invariant worth proving: what was admitted never
    exceeds the cap.
13. `LspClient`: every request gets its own answer or an error. `DeliveryMutations`,
    `SessionBudget`, `BackgroundProcesses`, subagent gates, the steering inbox, telemetry's
    queue.

Every safety property of the runs that pass is a theorem. Next: the cap of `DeliveryUsage`.
