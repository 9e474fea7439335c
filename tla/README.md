# AgentsKit OS in TLA+

TLA+ modules, TLC configurations and machine-checked proofs about the core
protocols of this repository.  Paths below are relative to the repository root;
`os-x` is `packages/os-x`.

## 1. Inventory

AgentsKit OS is a TypeScript monorepo (`packages/`) with a desktop shell
(`apps/desktop`, Tauri and a Node sidecar).  Almost all of it runs in one
JavaScript thread: concurrency is the interleaving of asynchronous functions at
their `await`s, plus timers, plus the death of the process.

| Component | State | Operations | Interacts with | Hard behaviour | Correct when |
|---|---|---|---|---|---|
| Audit emitter, `os-audit/src/emitter.ts` | a buffer of event hashes and a timer per workspace, `closed` | `ingest`, `flush`, `flushAll`, `close` | signer and batch store (awaited) | flushes of one workspace overlap (size, timer, close); signer or store rejects | no event lost or logged twice; the chain verifies |
| Batch stores, `os-audit/src/*batch-store.ts` | a list of batches per workspace (memory, JSONL file, SQLite) | `append`, `latestDigest`, `load` | emitter, `verifyChain` of os-core | check and write are separated by awaits; torn lines | `prevBatchHash` of each batch names its predecessor |
| Graph analyses, `os-flow/src/topo.ts`, `edge-matches.ts` | none | `topoSort`, `auditGraph`, `reachableFrom`, `edgeMatches` | every runner | missing nodes, loops, duplicates | audit accepts exactly the runnable graphs; the order is unique |
| Flow runner, `os-flow/src/runner.ts` | outcomes map, executed order, enabled set | `runFlow` | node handlers, debugger, checkpoint callback, abort signal, policy, snapshot sink | abort or rejection while awaiting; seeds; one pass over a fixed order | every enabled node is decided once, status tells the outcomes |
| Snapshots and branches, `os-flow/src/snapshot.ts`, `branch.ts` | captured copies of a run | `captureSnapshot`, `branchFromSnapshot` | runner (`seedOutcomes`) | capture aliases live state; branches of branches | a snapshot is a past state, a branch keeps its past |
| Durable runs, `os-flow/src/durable.ts` with `os-storage/src/file-checkpoint-store.ts` | one JSONL file per run | `resumeFlow`, `append`, `load`, `clear` | handlers, file system | death between effect and record, torn line, pause and retry | completed nodes do not run again |
| Multi-agent handlers, `os-flow/src/multi-agent-handlers.ts` | answers and bids; scratchpad, rounds, totals | compare, vote, auction; debate, blackboard | agents (awaited together or in turn), judges, timers | bids that time out and answer later; ties; a value that agents overwrite in turn | the elected value and the best timely bid win; rounds end when the node says |
| Debugger, `os-flow/src/debugger.ts` | mode, breakpoints, mocks | `pause`, `step`, `resume`, `beforeNode`, `afterNode` | runner | one debugger shared by runs, controls used while nodes run | pause stops every run, a step begins at most one node of a run |
| HITL inbox, `os-core/src/hitl`; human nodes, `os-flow/src/human-handler.ts` | tasks with their status | `enqueue`, `decide`, snapshot, restore | operators, persistence | two operators, reload of an old snapshot | a decision stands and everybody is told it |
| Circuit breaker, `os-flow/src/circuit-breaker.ts` | state, counters, `openedAt` | `tryAcquire`, `recordSuccess`, `recordFailure` | concurrent callers, clock | results of calls admitted in an earlier state | nobody is admitted before the cooldown is over |
| Event bus, `os-core/src/events/bus.ts`, and bridge, `os-flow/src/bus-bridge.ts` | subscriptions, `closed` | `publish`, `subscribe`, `close` | runner, observers | one handler under two patterns; unsubscribe and close between events | an observer sees the events of a node in their order |
| Cost guard, throttle, tracker | spending | check, record | adapters | check before, record after | caps are kept |
| Agent lifecycle and registry | lifecycle state, JSONL entries | transition, register, list | CLI | last line wins | only legal transitions |
| Triggers, `os-headless/src/trigger-scheduler.ts`, `file-watcher.ts`, `webhook-server.ts` | slots with `nextFireAt`, pending timer | `tick`, `start`, `stop`, requests | headless runner | throwing dispatch, restarts, retries | each firing dispatched once |
| OAuth callback, `os-headless/src/oauth-callback-server.ts` | pending connections, server | `handle`, `start`, `stop` | token endpoint, hub | stale pending state after an await | a connected connection stays connected |
| Traces, `os-observability/src/trace-collector.ts`; export, `os-observability-otel/src/span-exporter.ts` | open spans; buffered spans | start, end; `export`, `flush` | event bus, telemetry target | missing ends, reopened spans, overlapping flushes, lost chunks | no execution is told twice or with another outcome |
| Plugins, `os-plugins/src/loader.ts` | extension registry | `loadPlugin` | catalog | conflict half way | all or nothing |
| Worktrees and coding jobs, `os-dev-orchestrator/src/git-worktree-manager.ts`, `coding-delegation.ts`, `coding-benchmark.ts` | tasks, branch names, worktrees; shards of a job | `createForTask`, `finalize`; delegate, benchmark | git, coding agents, artifacts, HITL inbox | git that fails or is killed, rejecting shards next to running ones, aborts | writers are isolated, worktrees are accounted for, the report is whole |
| Sidecar bridge, `apps/desktop/src-tauri/src/sidecar.rs` | child, pending requests | `ensure_started`, `request`, reader thread | Node sidecar, UI | death, timeout, replies of an old process | a caller receives its own reply |
| Sidecar, `apps/desktop/sidecar/sidecar.mjs` | runner, trace rows, spans, controllers | run, cancel, dispose | headless runner, bridge | overlapping runs, cancellation between nodes | a trace tells its run |
| Search overlay and command palette, `os-desktop/src/search`, `command-palette` | query, category, selected index | type, arrows, point, Enter, click | commands, workspaces, traces that load | an index into a list that is recomputed and regrouped | Enter runs the best match or the entry that was chosen, the selection stays inside |
| Trace panel, `os-desktop/src/screens/traces`, `lib/sidecar.ts` | spans, live cost, subscription | select, reply, event, cancel | sidecar | replies and `listen` that come after the next selection | the panel shows the selected trace |
| Notification center, `os-desktop/src/notifications`; event feed, `screens/dashboard/use-event-feed.ts` | list, localStorage, preferences; events, buffer, paused | push, markRead, clear, reload; pause, resume, toggle, clear | sidecar events, React | updaters that run at the next render, closures over old state | nothing lost, stored is listed |
| Everything else: schemas, security evaluators, CLI, importers, marketplace, templates, other views, web site | none, or files written whole | pure functions, I/O | | | unit tests suffice |

`PROJECT.json` lists these components with their files, and the hazards of the
code at the lines where they bite.

## 2. Modules

| Module | Models | Lines of it |
|---|---|---|
| `AuditChain` | abstract: an append-only log of disjoint, non-empty batches per workspace | what `BatchStore` and the emitter promise together |
| `AuditEmitter` | `AuditEmitter` of os-audit over one of its three stores | `emitter.ts`, `batch-store.ts`, `file-batch-store.ts`, `sqlite-batch-store.ts` |
| `FlowGraph` | which edges an outcome opens; audit, reachability and topological order, and what these stand for in terms of paths and orders | `edge-matches.ts`, `topo.ts` |
| `FlowProgress` | abstract: what executing a flow means, whoever executes it | what `runFlow` and `resumeFlow` have in common |
| `FlowRunner` | `runFlow` with debugger, policy, mode stubs, checkpoint callback, snapshots and abort | `runner.ts`, `handlers.ts`, `snapshot.ts`, part of `mode-policy.ts` |
| `FlowBranch` | extends `FlowRunner`: branch a finished run, again and again | `branch.ts` |
| `DurableFlow` | `resumeFlow` over `FileCheckpointStore`, with crashes | `durable.ts`, `file-checkpoint-store.ts` |
| `WorktreeManager` | the worktree manager over git | `git-worktree-manager.ts` |
| `CodingRuns` | extends `WorktreeManager`: one delegation or one benchmark | `coding-delegation.ts`, `coding-benchmark.ts` |
| `AgentPanel` | compare, vote and auction | `multi-agent-handlers.ts` |
| `AgentRounds` | debate and blackboard | `multi-agent-handlers.ts` |
| `SidecarBridge` | `SidecarManager`, its reader threads and the sidecar's answers | `sidecar.rs`, `dispatch` and `main` of `sidecar.mjs` |
| `SidecarRuns` | overlapping runs in the sidecar process | `sidecar.mjs` |
| `SpanDelivery` | abstract: what a telemetry system may be told | what bus, collector and exporter promise together |
| `Tracing` | event bridge, bus, trace collector and exporter, composed | `bus-bridge.ts`, `bus.ts`, `trace-collector.ts`, `span-exporter.ts` |
| `FlowDebug` | one debugger, several runs, a person at its controls | `debugger.ts` |
| `CircuitBreaker` | the breaker, concurrent callers and a clock | `circuit-breaker.ts` |
| `HitlInbox` | the inbox, its snapshots and reloads | `inbox.ts`, `persistence.ts` |
| `ListPicker` | search overlay and command palette | `search-overlay.tsx`, `fuzzy-match.ts`, `command-palette/*` |
| `TraceDetail` | the detail panel of the Traces screen | `use-traces.ts`, `use-trace-live.ts`, `lib/sidecar.ts` |
| `Notifications` | routing, list and storage of notifications | `notifications-provider.tsx`, `use-notifications-store.ts`, `preferences-engine.ts` |
| `EventFeed` | the feed of the dashboard | `use-event-feed.ts` |
| `OAuthCallback` | callbacks of browsers, the hub's transitions | `oauth-callback-server.ts`, `oauth-hub.ts` |
| `Triggers` | cron scheduler and file watcher | `trigger-scheduler.ts`, `file-watcher.ts` |
| `*Proofs` | theorems and their proofs, section 4 | |
| `MC*` | instances for TLC | |

`AuditEmitter` implements `AuditChain`; `FlowRunner` and `DurableFlow` both
implement `FlowProgress`; `Tracing` implements `SpanDelivery`; `FlowRunner` and
`DurableFlow` use `FlowGraph`.  `MCServices` checks the modules from `WorktreeManager`
to `Triggers` in one run: it extends them all, and a behaviour is one of `service`, chosen at
the start, while the variables of the others keep a fixed initial value.  They share no
state in the code either (a delegation's task for the inbox is the variable `review`).

### AuditEmitter

An action is the code between two awaits.  A call of `ingest` is `Ingest` (up to
`hashEvent`) and `Buffered` (after it, with the size flush).  A call of `flush`
is `StartFlush`, embedded in whichever caller reached it (`Buffered`, `Flush`
for the timer and direct calls, `DrainStart` and `DrainNext` for `flushAll`),
then `ReadLatest`, `Sign`, `CheckChain` and `WriteBatch`.  `StartFlush` copies and
drops the buffer and starts `latestDigest`.  The stores differ only in where they
await, which is the constant `Store`:

* memory: `latestDigest` and `append` run to their end when called;
* sqlite: `latestDigest` reads when called, `append` awaits it before the insert;
* file: both await the file system between their steps.

`batch[b]` is the record of one flush from start to end; its id stands for its
digest, since the digest covers the batch id.  `chain[w]` is what `load(w)`
returns.  `drain` holds two callers of `flushAll`: `dispose()` and `close()`, which
may be called again after a rejection.  `Faults` lets the signer and the write
reject.  A rejected file write leaves the file unchanged in this model; torn batch
lines are not modelled.

### FlowGraph, FlowRunner

Node ids are naturals, because `topoSort` sorts names.  An outcome is its `kind`,
with `ok` split by whether its value is `true`, `false` or anything else, which is
all `edgeMatches` looks at.  `pc` is the await the run is at: `beforeNode` (the
debugger), `handler`, `checkpoint`; `visit` is the top of the loop.  `Start` are the
early returns (abort, audit, workspace policy, determinism check) and `Begin` the
seeding; `Visit` skips to the next enabled node and checks the abort signal;
`Checkpointed` is everything from the resolved checkpoint to the next loop
iteration.  Policy verdicts, the determinism check, debugger decisions and handler
results are choices; `call` fixes which of them a run can meet (`gated`,
`debugged`, `hosted` kinds and the run mode).  The payloads of outcomes, events to
observers and error texts are left out.  A debugger that throws is left out.

### FlowBranch

`Branch` takes the last snapshot of a returned run, any node of its executed
order, the seeds of `branchFromSnapshot`, and starts `runFlow` with them.

### DurableFlow

`file` holds the lines of a run's checkpoint file.  `Interrupt` is the death of the
process, or a rejected append with `resumeFlow` rejecting in turn, at any await; the
line being written is then absent, whole, cut off somewhere, or whole but for its newline.
The last two are `rest`, what is behind the last newline: `load` takes it for a line like
others (`Lines`), replays it if it is a whole record, and the next line is glued to it, after
which both are unreadable (`WriteLine`).
`Replayed` is the replay loop with its `break` at the first record that is not ok or
skipped.  `started`, `repeats` and `acked` are history variables: which handlers
were ever called, how often one was called again, and which ok checkpoints were
acknowledged.  A `completed` status stands for `skipped` as well.

### WorktreeManager, CodingRuns

`createForTask` is `Reserve` (the name) and then `Added` or `NotAdded`; `finalize(.., 'delete')`
is `Removed` or `NotRemoved`.  `defaultGitRunner` kills a git that runs into its timeout
and reports a failure, so `NotAdded` and `NotRemoved` may have taken effect: `misfired`
remembers them.  Git keeps every branch; the manager forgets a released name.
`stage[s]` is the await a shard is at.  A delegation prepares every shard (`Prepare`,
`WorktreeAdded`, `WorktreeRefused`, `SetupRecorded`), then runs them in turn or together
(`Launch`, `RunTask`, `TaskSettled`, `Recorded`, `NotRecorded`, `Finalized`) and reports
(`Report`).  When a parallel shard rejects, `Promise.all` rejects and the other shards go
on, which is why `jobPc` may be `rejected` while shards are active.  A benchmark goes
through the same stages one provider at a time, with its `finally`.  The result of a task
keeps what the report looks at: its status, whether it edited a common file, whether
something is missing.  Conflicts are between providers (`ProviderOf`), of which one may have
several shards.

### AgentPanel, AgentRounds

`AgentPanel`: agents answer in any order (`AnswerArrives`), bids time out (`BidTimesOut`,
the loser of `Promise.race` staying in `late`), and when none is pending the handler's
one step decides: `Compare`, `Vote` or `Auction`, or goes on to ask a judge, an evaluator
or a fallback.  An output is a value; `NoFigure` is `undefined`, as output, cost or
latency.  `Elects` states for each ballot what winning means without mentioning scores,
ties or iteration order, and `BestBidWins` the same for auctions.
`AgentRounds`: an action is one reply, with everything up to the next agent: the
scratchpad, the totals, `applyTerminationStep` and, after the last agent of a round,
`shouldStopAfterRound`.  `EndsInTime` recomputes from the log of all replies when the
node's termination allowed or demanded an end.

### SidecarBridge, SidecarRuns

`request` runs on the main thread: `Request` (with `ensure_started`), `Insert`, `Write`,
then `Receives` or `GivesUp`; `lifecycle.dispose` is a request followed by `Kill` and
`Clear`.  One reader per process delivers from that process's output (`ReaderDelivers`)
and, when it ends, empties the map that all processes share (`ReaderEnds`).  The number
`n` of a request is history: ids could repeat, numbers do not.
`SidecarRuns` has a step for each time the run's observer is called: `NodeEnd` is
`recordNodeEnd` and what follows it without an await (the next `recordNodeStart`, or the
end of the run with `finalizeTrace`).  A run whose nodes were all skipped, as agents and
tools are in a dry run, comes to the result "skipped" (`Completion`).  `acknowledged` is
history.

### Tracing, SpanDelivery

An event is one step: `publish` calls every matching handler synchronously, the
collector runs to the exporter's `export` in that call, and `flush` empties the buffer
before its first await.  `subs` counts the subscriptions of the collector that match.
The handed-over chunks are a set, because the target may call back in any order.
`outcomesOf` is history: how every execution of every node ended.  Under the mapping
`executions <- outcomesOf`, `reported <- delivered` every step is one of `SpanDelivery`.

### FlowDebug, CircuitBreaker, HitlInbox

`FlowDebug` keeps of a run only whether it is between nodes, in one, or returned.
`CircuitBreaker` has callers with a call under way, and a clock that ticks; `openings`
is history.  `HitlInbox` has operators who call `decide` at any time; `told` remembers
what they were told, and what a reload may forget.

### ListPicker, TraceDetail

In `ListPicker` a key, a click or a change of the data is one step together with the
effects of its render, since React runs those before the next key.  Texts are a table of
scores; the order of entries is fixed.  `chosenEntry` is history: the entry that was marked when
arrows or mouse last moved the selection, if the list is still the same.
In `TraceDetail` a selection is numbered: `listeners[n]` is its subscription, whose `listen` is
asked for, then hears events, then hands over the function to stop it; `Unsubscribed` is
the cleanup, which before that can only leave it.  `requests` are answered in any order.

### Notifications, EventFeed

React runs an updater at the call only if it knows of no pending update, and may not know
although there is none: `RunOrQueue` and `RunOrQueuePaused` choose, and `ItemsRender` and
`FeedRender` run the rest in order.  Renders of different priority, which skip updates and
run them again, are left out, as is the doubling of updaters in development builds.
A side effect inside an updater (saving, filling or taking the buffer) happens when the
updater runs, one beside it at the call.  `clearOvertook` and `overtook` remember that a
`clear` or `resume` was called while updaters with side effects were queued.

### OAuthCallback, Triggers

`Callback` is a request up to its lookup, then one step each for the awaited exchange
with `onConnected`, for `onError`, and for the answer.  The connections are the embedder's;
it may also revoke and authorize again.  `overlapped` is history.
`Triggers` has two parts that share nothing.  The scheduler reads two clocks: registration
takes `minute`, which is `Date.now()`, and `TickSlots(now, i)` is a whole tick for any time
`now` its caller may give, in which the dispatch of slot `i` throws (or none).  `lastTick` and
`since` are history.  The file watcher keeps the set of timers that run, which
`pendingTimer` should be all of.

## 3. Runs

| Run | Question | Result |
|---|---|---|
| `AuditMemory` | overlapping flushes, in-memory store, faults: is the chain intact, does every flush lose only to a winner, are accepted events settled, do `close` and `dispose` end? | holds (111,111 states) |
| `AuditFile` | the file store, faults: is every event in exactly one place, is the store an append-only log? | holds (260,955 states) |
| `AuditFileFork` | the file store, no faults: does the chain verify? | violated, finding 1 |
| `AuditDrop` | the in-memory store, no faults: is every accepted event stored? | violated, finding 2 |
| `FlowRunner` | every flow of three nodes, every graph over three names, all kinds of calls, aborts anywhere | holds (353,254 states) |
| `FlowFailure` | are failure edges followed? | violated, finding 5 |
| `FlowBranch` | branches of first runs | holds (226,894 states) |
| `FlowBranchTwice` | branches of branches | violated, finding 3 |
| `DurableFlow` | crashes, lines cut off or without newline, failures, pauses, repeated calls | holds (191,862 states) |
| `DurablePaused` | pauses, no crash: is acknowledged progress kept? | violated, finding 4 |
| `Services` | the modules below `DurableFlow` in section 2, each with its properties | holds (471,911 states) |
| `Consensus` | does a blackboard's consensus mean that no two agents disagreed? | violated, finding 6 |

The properties are stated, each with the behaviour it is about, at the end of the
modules.  The ones that carry most:

* `ChainVerifies`, `LostToAWinner`: of flushes competing for one digest, one wins
  and the chain is never forked (in-memory store).
* `EachEventHasOneHome`: events move between buffer and batch without being lost
  or doubled, whatever overlaps.
* `ImplementsFlowProgress`: at every moment, what a run (or the intact part of a
  checkpoint file) says was decided is what one sequential execution of the flow
  could have decided, in the one order of the sort.
* `NothingLeftBehind`: a single pass over the order suffices.
* `SnapshotOfThePast`, `BranchGoesOn`: captured state is past state, a branch keeps it and
  goes on where it ends.
* `StopsWhereItGoesOn`: a run that is aborted or paused between two nodes names the node at
  which a run seeded with its outcomes begins.
* `RepeatsAreBounded`: a crash repeats at most the node it interrupted, and what was
  acknowledged is not run again.
* `ReplayOnlyGrows`: whatever happens to the file, a later call replays all that an earlier
  one could have replayed, but for one record that lacked its newline.

* `WorktreesAreSound`, `ReportIsWhole`, `CallsSettle`: of a coding job, that two writers never share a directory, that worktrees stay only where git failed or a
  delegation rejected, that the report covers every shard, and that the job ends.
* `DecidesByItsRule`, `EndsInTime`, `CallsSettle`: of the multi-agent nodes, against definitions of winning and ending that do not follow the code.
* `RepliesReachTheirCaller`, `TracesTellRuns`: of the desktop, that late replies, dead
  processes and overlapping runs are never mixed up.
* `ImplementsSpanDelivery`: whatever is doubled, dropped or resumed on the way, a telemetry
  system is told of an execution at most once, and its own outcome.
* `ControlsAreObeyed`, `CoolsDown`, `DecisionStands`: pause and step, the cooldown and a
  decision hold against everything that was under way before.

* `EnterRunsTheChosen`, `PanelShowsSelected`, `StoredUnlessOvertaken`, `FeedIsWhole`: of the
  views, that late replies, early events, waiting updates and lists that change under the
  selection leave what is shown and stored in step.
* `MovesAreLegal`, `DispatchesKeepTime`, `BurstsAreQuiet`: of the hosts, that callbacks which are
  repeated or fail half way, ticks of any time and dispatches that throw, and timers and watchers that are stopped
  and started do no more than they should.

Some of these exclude a case, by a history variable that says it came about: replies in
another order and a listener left before `listen` resolved (`PanelShowsSelected`), `clear`
or `resume` called over queued updates (`StoredUnlessOvertaken`, half of `FeedIsWhole`),
overlapping callbacks (`MovesAreLegal`), a daemon started twice (half of `BurstsAreQuiet`),
results that do not rank by group or were replaced by as many others (a third of
`EnterRunsTheChosen`), a record without newline (`ReplayOnlyGrows`).
In that case the code does go wrong, as section 5 notes; the property says that there is no
other.

A property that is a conjunction names its parts: `FlushesSettle` is `EventsSettle` and
`DrainsEnd`, `RunsAsItTells` is `RunsOnce` and `StatusTellsOutcomes`, `AnalysesAreExact` is
`AuditPassesExactly` and `SortReturnsTheLeast` of the flow at hand, `RepeatsAreBounded` is `CompletedNodesSkipped` and
`OneRepeatPerInterrupt`, `BranchGoesOn` is `PastIsKept` and `NothingLeftBehind`, `WorktreesAreSound` is `WritersIsolated` and
`WorktreesAccountedFor`, `DecidesByItsRule` is `ElectedIsReturned` and `BestBidWins`.

### Bounds

* Audit: two workspaces, three events, batches of two, three batch ids.  Two events
  of one workspace are the least with which flushes of a workspace overlap; the
  other workspace makes `flushAll` iterate.  Three ids allow each event a batch of
  its own, so no flush is ever blocked for want of an id.
* Flows: three nodes give every chain, fork and join (no diamond, which takes four), and a
  target that is reached by two edges of different labels; the entry has the middle
  name so that the name order and the edge order disagree.  `MCGraphs` are all 512
  edge sets over three names and one flow for each way of being malformed.
  `EveryN = 2` makes a snapshot lag the run.
* `MaxGeneration`: one branch for the passing run, two where the hazard is.
* `MaxInterrupts = 2`, `MaxCalls = 3`: a crash, a resumption that crashes, and a
  resumption that ends; a line without newline and another glued to it need two.

* Coding jobs: three shards, two with the same name and of the same provider, so that a name is reused and git's
  branches and the manager's names disagree; every combination of isolation, parallelism
  and artifacts, with no, one or all shards dry runs where the check at the top looks at
  them.
* Panels: four agents, since half of three is no number of votes; three possible answers,
  one of them nothing at all.  Rounds: three agents, two rounds (the code's limit of 1000
  becomes `MaxRounds = 2`), enough for an agreement, a disagreement and a second round.
* Bridge: two processes and three requests: one that times out, one after it, and one to a
  second process.  Sidecar: two runs of up to three nodes.
* Tracing: two runs of one node, two executions of each, buffers of two: a span reopened,
  a flush by size and one by call, two chunks under way.  Debugger: two runs, two nodes.
  Breaker: three callers, thresholds of two, a clock up to 6: open, half-open, open again,
  closed.  Inbox: two tasks.

* Desktop: three entries of two groups with lists of two, so that rank and group disagree
  and the list is cut; two traces and three selections, to and fro; three notifications,
  a list of two of which one is stored, a reload; four events, a feed of two, three
  pending updates.  OAuth: two callbacks of one connection.  Triggers: two slots of
  different intervals, four minutes (a tick that comes late and one behind it), three
  watchers.

### Fairness

`AuditEmitter`: weak fairness of each step after an await and of each buffer's
timer: promises settle and timers fire while the process lives.  No fairness of
`Ingest` and `DrainStart`: nobody must call.  `EventsSettle` needs the timers,
`DrainsEnd` needs the awaited flushes.  `FlowRunner`: weak fairness of the runner's
step: handlers, debugger and checkpoint answer.  `Abort` is not fair.  `DurableFlow`
states no liveness, as processes may die.
`MCServices`: weak fairness of the job's or the handler's step for `CallsSettle`: git has a timeout
(`git-worktree-manager.ts:27`), coding agents have one (`os-coding-agents/src/subprocess.ts:31-67`),
and the file system answers; `AbortJob` is not fair.  The handler's step includes the
bidders' timers; agents need never answer.

`CHECK_DEADLOCK FALSE` in every configuration: runs return, drains end and events
run out, so each of these systems really stops.

## 4. Proofs

TLC checks the runs' instances; the theorems below hold for every value of the
constants: any set of flows, any number of nodes, workspaces, callers, shards, requests
or events, and any bound, since the bounds of the runs are constants too.  Each rests on
an inductive invariant (`...Inv`), which TLC was made to check before it was proved.

| Module | Theorems (`property of a run`) | From |
|---|---|---|
| `AuditEmitterProofs` | `TypeCorrect` (`TypeOK`), `OneHome` (`EachEventHasOneHome`), `MemoryChain` (`ChainVerifies`), `LosersHaveWinners` (`LostToAWinner`), `Refinement` (`ImplementsAuditChain`); of every store, while flushes take turns: `TurnsKeepTheChain`, `TurnsDropNoEvent` | `ConstantsAssumption` |
| `FlowGraphProofs` | `SortIsPartial`, `AuditedFlowsAreSorted`, `CycleVerdictIsExact`, `SortIsLeast`, `ReachIsExact`, `AuditIsExact`, `NoCycleNoRemainder`, `AuditIsExactOnPaths`, `SortIsExact` | nothing: any finite flow |
| `FlowRunnerProofs` | of runs: `RunTypesHold` (`TypeOK`), `OnePassSuffices` (`NothingLeftBehind`), `RunsTellTruly` (`RunsAsItTells`), `SnapshotsAreOfThePast` (`SnapshotOfThePast`), `AnalysesStayExact` (`AnalysesAreExact`), `StoppedRunsGoOnThere` (`StopsWhereItGoesOn`), `RunsMakeProgress` (`ImplementsFlowProgress`); of branches: `BranchesGoOn` (`BranchGoesOn`), `FirstBranchesReexecute` (`BranchPointReexecuted`, for one generation) | `RunnerAssumption`, `FlowsAssumption` |
| `DurableFlowProofs` | `StoreTypesHold` (`TypeOK`), `RepeatsStayBounded` (`RepeatsAreBounded`), `ResumedPassSuffices` (`NothingLeftBehind`), `ResumedRunsMakeProgress` (`ImplementsFlowProgress`), `ReplaysOnlyGrow` (`ReplayOnlyGrows`) | `DurableAssumption` |
| `ServiceProofs` | `DecisionsStand` (`DecisionStands`), `ControlsAreObeyedAlways` (`ControlsAreObeyed`), `BreakerCoolsDown` (`CoolsDown`), `ConnectionsMoveLegally` (`MovesAreLegal`), `TriggersKeepTime` (`DispatchesKeepTime`), `BurstsStayQuiet` (`BurstsAreQuiet`), `JobsAreSound`, `WorktreesStaySound` (`WorktreesAreSound`), `ReportsAreWhole` (`ReportIsWhole`), `NameIsFresh`, `SpansAreSound`, `PipelineKeepsItsPromise` (`ImplementsSpanDelivery`); the types of each: `InboxTypesHold`, `DebugTypesHold`, `BreakerTypesHold`, `OAuthTypesHold`, `TriggersTypesHold`, `CodingTypesHold`, `TracingTypes` | `BreakerAssumption`, `TriggersAssumption`, `ShardsAssumption`, `JobsAssumption`, `TracingAssumption` |
| `DesktopProofs` | `RepliesAreTheCallers` (`RepliesReachTheirCaller`), `TracesTell` (`TracesTellRuns`), `PanelComesToShowSelected` (`PanelShowsSelected`), `ListIsStored` (`StoredUnlessOvertaken`), `FeedStaysWhole` (`FeedIsWhole`), `EnterObeys` (`EnterRunsTheChosen`); the types of each: `BridgeTypesHold`, `SidecarTypesHold`, `DetailTypesHold`, `NotifyTypesHold`, `FeedTypesHold`, `PickerTypesHold` | `BridgeAssumption`, `SidecarRunsAssumption`, `DetailAssumption`, `NotificationsAssumption`, `FeedAssumption`, `PickerAssumption` |
| `AgentProofs` | `PanelsDecideByTheirRule` (`DecidesByItsRule`), `RunsEndInTime` (`EndsInTime`), `PanelTypesHold`, `RoundsTypesHold` | `PanelAssumption`, `RoundsAssumption` |
| `MCServicesProofs` | `ServicesStayTyped` (`TypeOK`), `ServicesStaySound` (every other property of the run `Services` but `CallsSettle`) | those of the three modules above |

### What the assumptions say

They are types and little else.  Ids of nodes are naturals (names are sorted) and
`undefined` is neither an id nor an outcome; limits, batch sizes and intervals are
positive; shards are numbered `1 .. n`, as the array of tasks is; what tasks and handlers
may come to is among the outcomes the modules know.  `MaxPersist <= MaxMemory` is the
relation of the two constants of `use-notifications-store.ts`.  Agents of a panel are
numbered `1 .. n`, as the array of `node.agents` is, and their outputs are compared as
integers; a node of a panel or of rounds is one of those the modules know (`IsPanelNode`,
`IsRoundNode`).  Every entry of a list is in one of its groups, and no group is listed twice.
TLC evaluates each of them on the instances.

### Why the invariants are what they are

* **Audit.**  `TypeOK` is not inductive: a batch in flight must belong to a workspace for
  the chain to stay typed (`BatchesOfWorkspace`), and a buffer must hold events of its
  workspace only.  `EachEventHasOneHome` follows from `HomesDisjoint`, which says the same
  of pairs of homes.  `ChainOfStored`: a batch in the chain is never appended again.
  `ChainVerifies` is inductive only together with the fact that every digest a flush of the
  in-memory store holds was the latest once and is in the chain still (`MemoryInv`); that is
  where the proof fails for the other stores, and rightly so, as `AuditFileFork` shows.
  For them `TurnsKeepTheChain` and `TurnsDropNoEvent` assume `FlushesTakeTurns`, that no two
  flushes of a workspace are on their way at once; then the digest a flush has read stays
  the latest one (`TurnInv`), whatever signer and store reject.  So the overlap of findings
  1 and 2 is their only cause.
* **Graphs.**  `topoOrder` and `reachableFrom` are built in rounds by `Iterate`.  That a
  fact of all rounds follows from the first and each next one is proved in the module from
  the well-foundedness of the naturals (a least round at which it fails), not from the
  library's induction theorem, whose parameter is an operator.  `AuditIsExactOnPaths` and
  `SortIsExact` are, for every finite flow, the two halves of `AnalysesAreExact`, so its
  invariance only needs that a run's flow is one of `Flows`.
  A node that the order lacks has a predecessor that it lacks (`SortIsPartial`); so no edge
  can lead to a higher rank for all of them, and the order is complete exactly for acyclic
  graphs.  Going back from predecessor to predecessor, among finitely many nodes, comes to a
  node a second time: that is the path of `NoCycleNoRemainder`.
* **Runner.**  `RunInv` says where in the order the loop is, and what follows: `NoneBehind`,
  that no node before the place of the loop is enabled and undecided, is what makes one pass
  suffice.  It holds because an edge leads from an earlier to a later place, which
  is where the theorem about audited flows comes in.  For `ImplementsFlowProgress` the node
  the loop is at is the first of the order that is enabled and undecided.
* **Branches.**  Beyond `RunInv`, a branch keeps the outcomes it was seeded with
  (`FromParent`), and the seeds open its branch point (`SeedsOpenPoint`) if the run branched
  from had no seeds of its own.  The second branch loses that, which is finding 3; so
  `FirstBranchesReexecute` assumes `MaxGeneration = 1`, and the run `FlowBranchTwice` shows
  that it must.
* **Durable runs.**  `FileTells` relates the lines of the file to what handlers really did:
  its intact part replays to the outcomes of the call under way.  `RepeatsPaid` is the
  bookkeeping of `OneRepeatPerInterrupt`: repetitions and started nodes without a record
  never exceed the interruptions.  Replay stops at the first record of another kind, so what
  it gives is a matter of the lines before that; appending adds to them, glues or is behind
  them (`WriteGrows`).  The refinement further needs `FirstOpen`: the node under
  way is the first that the replayed part enables.
* **Coding jobs.**  `ShardsAtWork` tells from the stage of a shard which directory it works
  in: two shards are at work together only in a parallel delegation, which the check at the
  top refuses without isolation unless all are dry runs (`Permitted`).  `WorktreesTraced`
  accounts for every worktree by a shard at work, by `misfired` or by a rejected job.
* **Pipeline.**  A span that is open, buffered or in a chunk tells an execution that ended
  so (`SpansTruthful`), and no two tell the same (`SpansDistinct`), which needs that an open
  span is the latest of its node (`OpenIsLatest`).
* **Bridge, sidecar, panel.**  The number of a request is in one place at most, pipe,
  worker, channel or map, and the newest request's is in none until it is written; that ids
  outlive processes keeps an old reply from reaching a new caller.  The rows of traces stay in
  the order of the traces, so the row that is looked for is the run's own.  All listeners
  but the last were told to stop (`LastIsSelected`), and as long as no reply is overtaken
  those that are missing are the latest (`RepliesInOrder`).
* **Notifications, feed.**  Waiting updates run in one render, as a recursive function of the
  queue; lemmas say that the function exists (`RunsThrough`) and that what each update
  preserves is preserved to its end (`UpTo`).  `EndsStored` looks at the last update that
  waits: it saves, or what it makes of the list is stored already.  `FeedIsSorted` says that
  waiting events are later than those in the feed, and that an update that ends a pause
  finds nothing held back.
* **Panels and rounds.**  A tally is a sum over the agents; the sum is that of the voters
  whatever order they are added in (`TotalAdds`, `TallyIs`), so a ballot has one leader
  exactly if it elects a value (`BallotElects`).  Whom a panel asks after its agents it asks
  only when they left no decision (`PanelInv`).  Of rounds, `BoardTells` and `RoundTells`
  relate scratchpad, agreement and costs to the log of replies, and `EndsWhenItMust` says
  that no reply so far was the one to end them, which is what makes `EndsInTime` inductive.
* **Lists.**  The ranking is the arrangement of the matches by score and number, and the
  results its beginning (`ResultsRanked`), so nothing matches better than the first.  The
  selection stays at an entry, if there is one, however the list shrinks or is reset, at the
  first unless one was chosen, and the chosen one is marked (`PickerInv`).  A set can be
  arranged in one way only (`ArrangedOnce`), so results that rank by group are shown in
  their own order, and the marked entry is the one Enter runs.
* **Types.**  Most are part of the invariants.  Those of coding jobs are not: that
  `uniqueBranch` finds a name among finitely many (`NameIsFresh`) needs that no more names are in use
  than shards were taken up (`NamesInUse`), and then the pigeonhole principle.
* **Services.**  A step of `MCServices` is a step of one component and leaves the variables of
  the others alone (`OneMoves`), so a behaviour of it is one of each component's own
  specification (`EachIsItsOwn`), and what was proved of those holds of it.
* **Smaller ones.**  `InboxInv` says of the last snapshot what it says of the inbox.
  `DebugInv`: after `step`, a run that took its step is in that node as long as the step is
  not used up.  `BreakerInv`: out of `open`, the cooldown is over.  `OAuthInv`: a request
  found its connection in the state it is in still.  `DueInTime`: a slot is due one interval
  after its dispatch or registration, by the clock that was read then.  `OneDelivers`: the only watcher that
  delivers is the one `stop` would end.

### Only model-checked

* Liveness: `FlushesSettle`, `Returns`, `CallsSettle` need fairness, which the provers do not
  treat.
* The violations of section 5, by their nature.

## 5. Findings

1. `FileBatchStore.append` compares `prevBatchHash` and writes the line in separate
   steps.  Two flushes of a workspace fork the chain (`file-batch-store.ts:37`, and
   `sqlite-batch-store.ts:85` in the same way).
2. Two overlapping flushes read one digest; the later append is refused, and its
   events, already taken from the buffer, are dropped (`emitter.ts:96`); the timer
   ignores the rejection (`emitter.ts:81`).
3. A branch of a branched run forgets the seeds of the first branch
   (`branch.ts:84`) and may complete without running its branch point.
4. After a paused or failed record, later checkpoints are never replayed
   (`durable.ts:104`): nodes that completed run again.
5. `runFlow` never follows a failure edge (`runner.ts:296`), although a starter flow
   is built on one (`flow-template-seeds.ts:49`).

6. The consensus of a blackboard forgets a disagreement (`multi-agent-handlers.ts:687`):
   after two different values in a round, the next one counts as agreed by all.

Seen while reading or modelling, without a run:

* Flow runner: the signal is looked at between nodes only.  An abort that is raised while
  `beforeNode` is awaited (`runner.ts:208`) does not keep the node's handler from being
  called (`runner.ts:264`), and one raised during the last node leaves the run completed.
* Durable runs: a record whose newline alone is lost (`file-checkpoint-store.ts:34`) is
  replayed, and the next append glues to it: then its node and the next one, acknowledged
  though it was, are both forgotten and run again.
* Coding jobs: conflicts are counted by provider (`coding-delegation.ts:111`), so two shards
  of one provider that edited the same file give a "clean merge signal" and ask for no human;
  nor does a shard that timed out or is partial (`coding-delegation.ts:451`).
* Audit and flows: `close()` returns while a timer's flush is in flight;
  `defaultStubHandlers` has no stub for `llm-branch`, so such a node fails in `dry_run`
  (`handlers.ts:40`, against `mode-policy.ts:4`).
* Circuit breaker: half-open lets every caller through (`circuit-breaker.ts:71`, against
  line 41, "allows a single probe"), and the late success of a call admitted before the
  circuit opened counts as a probe's.
* Vote: agents that reject are not counted, neither in a majority nor in a quorum; a
  winner that is `undefined` makes `JSON.parse` throw (`multi-agent-handlers.ts:281`).
* Debugger: after a breakpoint, `resume()` stops at the same breakpoint again, only
  `step()` passes it; a mock is applied while paused.
* Inbox: `enqueue` with an id in use replaces the task, a decided one included; `decide`
  looks at neither `approvers` nor `quorum`.
* Worktrees: a released branch name is handed out again while git still has the branch,
  so the second `git worktree add -b` is refused; a rejecting delegation leaves worktrees.
* Telemetry: a chunk refused with a code but no error is dropped in silence
  (`span-exporter.ts:142`); `shutdown` does not flush; a rejecting checkpoint leaves a
  span open; a resumed node's span says ok also when its outcome was skipped.
* Sidecar: a child that died still counts as started until `lifecycle.dispose`; the reader
  of an old process empties the map of the new one's requests; rows of rejected runs
  stay ok; rows and spans are never dropped.
* OAuth callback: a callback that is repeated while the embedder still knows its state turns
  a connected connection into an errored one (`oauth-callback-server.ts:155`); one that
  overlaps another may set an errored one to connected, which the hub does not allow.
* Search overlay and command palette: with results of two groups, the entry that is marked
  is the one at the selection's place among those shown (`search-overlay.tsx:229`), and Enter
  runs the one at that place of the ranking (`search-overlay.tsx:301`, `palette-list.tsx:59`),
  against `search-overlay.tsx:10`, "Enter — run selected result".  The test of Enter
  has one command that matches.  And the selection is reset when the number of results changes, not when
  the results do (`search-overlay.tsx:298`): an entry that takes the place of the chosen one
  is what Enter runs then.
* Traces: a late reply shows the spans of a trace under another (`use-traces.ts:150`); a
  listener left before `listen` resolved is never stopped (`lib/sidecar.ts:66`) and shows its
  run as active under another trace, where the cancel button is the other's.
* Notifications: events are routed by the preferences of the page's load
  (`notifications-provider.tsx:64`, against line 115); a push whose updater waits for the
  render is overtaken by `clear` and is back after a reload (`use-notifications-store.ts:103`).
* Event feed: an event whose updater waits for the render when `resume` is called is held
  back by it while the feed goes on (`use-event-feed.ts:49-58`).
* Triggers: `registerCron` takes `Date.now()` (`trigger-scheduler.ts:50`) where `tick` takes
  the caller's clock, against line 2, "caller supplies clock": a slot may be due at once, or
  far ahead, by the clock it is ticked with; a slot
  whose dispatch always throws keeps those behind it from firing; a file watcher that is
  started twice goes on after `stop`.

## 6. Plan

Done: sections 2 to 4.  The audit log and the execution of flows came first because
everything else either feeds them or is fed by them, then the components with most
state and most actors around them.  `MCServices` keeps those in one run, as they have no
state in common.  Every invariant and every action property that a passing run checks is a
theorem; what is left is to model more of what section 7 lists, beginning with torn lines of
the batch file, after which `latestDigest` moves back (`file-batch-store.ts:46`).

## 7. Not modelled

Schemas and configuration, the pure policy evaluators, importers, the marketplace,
templates, the command line and most views of the user interfaces keep no state that changes
concurrently; they are translations and I/O.  Merkle roots, signatures and hashing
are replaced by identities.  `PROJECT.json` gives the reason component by component.

Of components that are modelled, these parts are left out: torn lines of the batch file;
`finalize` with `preserve` and `archive`, which nothing calls; `issue-pr-pipeline`, one
benchmark, one diff and one report in sequence; the flow registry and agent calls of the
sidecar; patterns of the event bus, and handlers that settle after `publish`.

The webhook server keeps nothing between requests, so a retried webhook starts a second
run.  The human handler, the cost
guards, the plugin loader and the agent lifecycle run to their end in one synchronous
pass, or ask a gate once.
