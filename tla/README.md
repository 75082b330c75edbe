# TLA+ verification of Brain Factory

Brain Factory is two programs in one repository. One is the start of a kernel
that keeps its memory as an event log with a graph folded from it: the Ledger
(FMWK-001) and the Write Path (FMWK-002), under `src/staging/`. The other is
the factory that has agents build such frameworks: Sawmill, an orchestrator
that runs language model agents through five turns under an event log of its
own (`src/sawmill/`), with a queue of work items and a dispatcher beside it
(`src/workspace.py`, `src/workspace_dispatcher.py`) and a live web shell
(`src/shell/`). This directory models the parts whose correctness depends on
interleavings, failures and order, checks the models with TLC and proves their
main invariants with TLAPS.

The state of the work: Ledger, Write Path, Turn B/C of the orchestrator with the event log
and its projection, the work queue with its dispatchers, the whole run of the orchestrator (what a pass means
and what the status page says), an agent's runner, the watching and launching of runs, the
connections of the shell, the sessions of interactive agents, agents over HTTP and the brain are modelled
and checked. Every safety property that a passing run checks, and every refinement, is also a theorem; liveness is
model-checked.

## 1. The system

| Component | State | Operations | Talks to |
|---|---|---|---|
| Ledger, `staging/FMWK-001-ledger/ledger/` | keys in immudb; one lock per process | `append`, `read`, `read_since`, `read_range`, `get_tip`, `verify_chain` | immudb, one call at a time, each of which may raise |
| Write Path, `staging/FMWK-002-write-path/write_path/` | the Graph in memory, `durable_boundary_sequence`, snapshot artifacts | `submit_mutation`, `create_snapshot`, `recover`, `refold_from_genesis` | the Ledger (port), the Graph (port), snapshot storage |
| Run state, `sawmill/run_state/` | `events.jsonl`, `status.json`, `run.json`, heartbeats, the offset of `emit-liveness` | `append_event`, `project_status`, `write_status`, `emit-liveness`, `update-status` | files; called by the orchestrator, by `invoke_full` and by the shell |
| Orchestrator, `sawmill/orchestrate.py` | attempt, ids of the last exit, failure, verdict; `event_lock`; the artifacts of the framework | preflight, invalidation, turns A, B/C, D, E with retries, audits, convergence; `emit`, `record_run_failed`, `scan_interrupted_runs` | run state, agent runner, evidence, audit, registry |
| Agent runner, `sawmill/agent/_core.py` | the agent's process, liveness file, result file | `run_once`, `main_runner` (retries), `invoke_full` (start, poll, emit, judge) | agent processes, run state |
| Evidence, audit, registry, `sawmill/evidence/`, `audit/`, `registry/` | none (read files) | verify evidence and outputs, audit stages and convergence | files; called by the orchestrator |
| Workspace, `workspace.py` | items, claims, leases, retries; tokens and agents; thoughts, all in SQLite | create, claim, renew, release, record, expire, route; onboard, heartbeat; capture, delete | dispatchers, portals, the shell and people, one transaction each |
| Dispatcher, `workspace_dispatcher.py` | the item it works on | `run_once`, `handle_item`, `deliver_result`, lease watchdog | workspace, worker process |
| Shell, `shell/` | connections, subscriptions, last seen times | connect, subscribe, message, poll loop, broadcast; capture, search, delete; launch of runs | workspace, back ends, run state, browsers |
| MCP portal and back ends, `mcp_portal.py`, `backends.py` | the histories of sessions | tools and HTTP endpoints; `create_session`, `send_to_session` | workspace, language models |
| Other portals (`portal.py`, `chat.py`, `chainlit_ws.py`) | none of their own | translate HTTP and chat calls | workspace, back ends |

What is hard, and what makes each part correct:

- **Ledger.** Appends of several threads, each of several store accesses with a
  retry in the middle; answers that get lost after the value was stored;
  lock-free readers; a kill between two accesses. Correct when there is one
  gapless, verifying hash chain, when nothing acknowledged ever disappears, when
  a read returns everything acknowledged before it began, and when the lock
  is always given back.
- **Write Path.** Two stores, one durable and one not, changed one after the
  other, with failures and crashes between; folds that depend on order and
  that can break off halfway; snapshots taken while the graph lags. Correct when a
  service that accepts mutations always holds the graph that a replay of its
  whole ledger would give.
- **Run state and Turn B/C.** Two threads and the main thread write one event
  log, one projection and three shared fields, some under a lock and some not;
  an event is durable before it is validated. Correct when `status.json` shows
  a legal state of the run, when the run ends as its log says, and when
  a failed agent cannot pass.
- **Queue and dispatcher.** Leases that expire under a running worker, a
  delivery of four transactions, listings older than the claim, people who change
  an item meanwhile. Correct when an item is worked on once as long as nothing
  fails, when no item is left read without an answer, when workers cannot hand an item to each
  other by name for ever, and when every item is settled in the end. The code has one way round the last two: an answer
  that a worker routes to "any" keeps its execution depth (`workspace_dispatcher.py:209`, `:230`, `workspace.py:563`) and any worker may
  claim it, so that exchange has no end.
- **The whole run.** A retry loop whose counter is touched in four places; artifacts,
  evidence and verdicts left by agents that fail halfway, by earlier attempts and by earlier runs; a page
  and a projection written at some steps only; a kill between any two of them. Correct when a run passes
  only on an attempt that its judges approved and whose artifacts are its own, and when it ends.
- **Agent runner.** Three processes and a file between them: a timeout beside the end of the agent, retries,
  an emitter that may fail between appending and saving how far it came. Correct when the outcome
  is that of the last execution and every sign of life becomes one event.
- **Watching runs.** Whether a run is alive is told from files it touches from time to time. Correct
  when at most one orchestrator works at a framework and none that lives is called dead.
- **Shell.** asyncio handlers that interleave at every await of a broadcast, over dictionaries that all
  of them change. Correct when every message is answered, by the agent once and with nothing but an
  error behind its answer, when every client that stays sees its threads as they are, and nobody who has gone is kept.
- **Sessions.** One history for all callers, appended to before each request. Correct when no
  failure leaves it unusable.
- **Agents over HTTP.** A protocol that the program of an agent follows by instructions, with crashes, tokens that
  are revoked and names that change. Correct when no message waits for ever.
- **Brain.** A capture of two transactions with a call between them, in several processes. Correct
  when vectors and thoughts belong to each other.

`PROJECT.json` lists every hazard at its line, with the properties that cover it.

## 2. Modules

| Module | What it is |
|---|---|
| `LedgerLog` | abstract: what `append()` promises, a log and the state of each call |
| `Ledger` | `LedgerClient` over `ImmudbStore`; implements `LedgerLog` |
| `NodeFolds` | `folds.py`: how one event changes the Graph |
| `WritePath` | `service.py` and `recovery.py`; extends `NodeFolds` |
| `ConsistentStore` | abstract: what callers of the Write Path see; `WritePath` implements it |
| `RunState` | the rules of the event log: `PARENT_RULES`, `validate_parent`, terminal states |
| `TurnBC` | `run_turn_bc()` with its two threads, `invoke_full()` and `emit()`; extends `RunState` |
| `WorkQueue` | `workspace.py`: a row of the queue and what each operation makes of it |
| `Dispatch` | dispatcher processes, their watchdogs, people and time over that queue; extends `WorkQueue` |
| `BuildLoop` | abstract: what a run promises its operator about tries, judges and outcome |
| `Pipeline` | `orchestrate.py`: whole runs, one after another, over the files of a framework; extends `RunState`; implements `BuildLoop` |
| `Runner` | `run_once()`, `main_runner()`, `invoke_full()` and `emit-liveness`: one invocation of an agent |
| `Watch` | heartbeats, the interrupted state, and the launch guard: the runs of a framework as others see them |
| `Shell` | `ConnectionManager` and `websocket_endpoint()` |
| `Sessions` | the history of an interactive session in `backends.py` |
| `Agents` | tokens, registrations and the heartbeat protocol of agents over HTTP |
| `Brain` | thoughts and their vectors |
| `MCLedger`, `MCWritePath`, `MCTurnBC`, `MCDispatch`, `MCPipeline`, `MCServices` | instances for TLC; one `.cfg` per run |
| `SeqFacts` | lemmas about sequences, and induction, for the proofs |
| `LedgerProofs`, `NodeFoldsProofs`, `WritePathProofs`, `TurnBCProofs`, `DispatchProofs`, `PipelineProofs`, `ServicesProofs` | the theorems |

`MCServices` holds six of these modules side by side (`Shell`, `Sessions`, `Agents`, `Brain`, `Runner`,
`Watch`). They share no variable; in each behaviour one of them runs, so that the run explores
the sum of their states and not the product.

Definitions whose names end in `Mutant` are plausible bugs: each stands before
the definition it would replace, and some property fails with it.

### Ledger

`store` is what immudb holds: key n is `store[n + 1]`, since `append()` never
sets a key above the number of keys. `lock` is `ImmudbStore._lock`; `call[c]` is
where `append()` stands for thread c; `reading[r]` is where a lock-free read
stands. `issued` hands out event ids, and `acked` is a history of the events whose
number was returned. The actions follow `append()` access by access:
`AppendInvalid` and `AppendContended` (validation and the non-blocking
lock), `AppendLock`, `AppendReadTip` or `AppendReadTipFails`, `AppendSet`,
`AppendSetRaises` (the value may have arrived all the same) and
`AppendRetryFails`. `read_since()` and `verify_chain()` are `ReadBegin`,
`ReadTip`, `ReadRange` (which reads the tip again), `ReadScan`, `ReadFails` and
`ReadEnd`. `Restart` kills the process; a set on its way may still arrive.

Abstractions: the hash of an event is the record of the fields it covers
(SHA-256 collision free); payloads are left out; a scan starts at its seek key
inclusively, as `store.py` relies on (immudb is external). A set that arrives
after both attempts failed and the lock was given up is not modelled.
`read(n)` is a tip check and one get and has no action of its own. `store.set()`
keeps the lock through sleep, reconnect and retry, although its docstring speaks
of a release; a mutant that releases it loses an acknowledged event.

### Write Path

`ledger`, `storage` (durable), `graph` and `boundary` (lost with the process),
and `pc`, `request`, `payload`, `cursor` for the call in progress. `replayed` is
a history: `replayed[s + 1]` is the fold of the first s events, which makes
"the replay of the ledger" a value a proof can talk about.
`submit_mutation` is `Submit` or `SubmitBlocked`, `LedgerAppends` or
`LedgerAppendRaises`, `GraphFolds` or `GraphFoldRaises`. `create_snapshot` is
`SnapshotExport`, `SnapshotUpload` or `SnapshotRaises`, and then the same append and
fold for `snapshot_created`. `recover` is `RecoverFromSnapshot` or
`RecoverWithoutSnapshot`, `Refold` is `refold_from_genesis`; both continue with
`ReplayRead`, `ReplayFold`, `ReplayRaises` and `ReplayDone`. `Crash` may come anywhere.

Assumptions and abstractions: one thread calls the service (D2 DEF-001). No module of the
repository starts the service, so the runtime is external: it recovers at
startup, and after a recovery that raised it submits nothing until
one succeeds (D4 ERR-002, ERR-004). `LedgerClient.append` takes a dict and
returns an int where the service passes an event and expects one back; an
adapter that is not in the repository is assumed. Decimals are integers in
units of 1/`One`. A node keeps the fields that a later fold reads or
overwrites. A malformed `base_weight` is not told apart from other malformed
values. Storage returns what was stored. `LostAppends` says whether
`ledger.append()` may raise although the event is durable; section 6 says why
it is a parameter.

### Run state and Turn B/C

`log` is `events.jsonl`; an event is its type, role, whether it counts as a
failure, its parent (the place of the parent in the file; ids are uuid4) and
its timestamp. `Projectable(log)` says that `project_status()` returns and does
not raise: the order by timestamp, the parent rules and the terminal states. `status` is
`status.json`, as the number of events it is the projection of.

An emission of process p is three steps, `AppendEvent`, `Project` (or
`ProjectRaises`) and `WriteStatus`. `emit()` holds `event_lock` around them
(`Locked`); the events of `invoke_full()` and of the `emit-liveness` subprocess go
without. `NextRecord` is `emit-liveness` appending all its records before it projects.
`pc[p]` is where a process goes on after its emission. A thread is
`background_prompt()`: `RenderPrompt`/`RefusePrompt`/`FailRefused`,
`InvokeAgent`, `PollLiveness`, `AgentSucceeds`/`AgentFails`/`AgentTimesOut`,
`ReportExit` and `ReportFailure` (the two assignments to the shared fields),
`CheckInvocation`, `FailInvocation`, `OutputsVerified`/`OutputsRefused`,
`FailUnverified`, `RecordVerified`. The main thread is `StartTurn` or `InputsMissing`,
`SubmitTurn`, `Join`, `Unwind` (an exception leaves the `with` block after
the pool has waited), `AuditPasses`/`AuditFails`.

Abstractions: a run from Turn A reaches this code like a run from Turn B whose
inputs exist. The runner process is what it leaves behind; without
`result.json` the agent counts as failed; transport retries are inside it. Verdicts
(rendering, verification, audit) are choices. `main()` catches only
`PipelineAbort`, so a `ValueError` is the outcome `crashed`. One write of
`status.json` is one step. The clock does not go back. `run_failed`'s role
and turn fields (`current_event_*`, shared too) only reach the display and are not kept.

### Queue and dispatcher

`items` is the table: an item's type, sender, recipients, status, holder of the claim, lease,
retry count, execution depth, and the item it replies to. A lease is the time it
has left; `Tick` is one interval of the watchdog (60 seconds), after which each
watchdog is `due`. `pc[d]` is where process d stands, `todo[d]` its listing, with the retry
counts as they were. Every SQL statement with its commit is a step, so `expire_stale_claims()`
is `StartPass` and `ExpireClaims` (its UPDATE goes by id alone), `record_run_result()`
is `RecordSelect` and `RecordUpdate` (sqlite3 opens no transaction for a SELECT), and
`mark_needs_human()` is `MarkNeedsHuman`, those two, and `ReleaseAny`.
`handle_item()` is `MarkNeedsHuman`, `Claim` or `ClaimRefused`, and `RunSucceeds` or `RunFails`;
`deliver_result()` is `CreateResult`, `MarkRead`, the record and `ReleaseDelivered`; a
failure is the record, `ReleaseFailed` and `Comment`. `DeliveryRaises` is a call of
`deliver_result()` that raises into the except block; a call that raises elsewhere
ends the process, which is `Crash`. `SetStatus` and `RouteItem` are people and agents. `deployment`
(constant in a behaviour) says which process serves which workers, which leases a watchdog
renews (only those of codex workers), where workers route results, what others do, and how many faults there are.

Abstractions: prompts, profiles, tokens and the audit log are left out; every worker accepts
every item type; `max_depth` is the same for all items, as replies inherit it;
`max_retries` in the row is only displayed. A listing is worked through in any order. Watchdogs are in time, and
the database calls between the end of a run and its release take no time; both could
fail only by delays of the length of a lease. A watchdog whose renewal raises ends
silently; its worker is then one that is not watched. A timeout raises in the
dispatcher but does not kill the codex process (`workspace_dispatcher.py:181`); what such an
orphan does to the working tree is outside the queue.

### Pipeline

One behaviour is up to two runs of the orchestrator, each a process, over the same `files`. A *group* of
artifacts is what an agent leaves together; it is missing, partial, or complete and then carries the run that wrote
it last. `evidence` holds the run and attempt that a judge's or the builder's evidence is about,
`verdicts` the last lines of the two reports, `page` the status page, `past` what earlier runs have left in
their directories. `log` and `status` are those of the current run, and `Emit` is `emit()`: the event is
in the log before the projection looks at it, and one that it refuses ends the process.

`Launch` is `main()` up to the first event, with `scan_interrupted_runs()` and the lineage of a resumed
run; `Prepare` is the invalidation and the first page. `invoke_prompt()` is `RenderPrompt`/`RefusePrompt`, `InvokeAgent`,
`AgentSucceeds`/`AgentFails` (the environment leaves any outputs, evidence and verdict), `VersionMatches`/`VersionDiffers`/`VersionUnreadable`,
`EvidenceHolds`/`EvidenceFails`, `OutputsVerified`/`OutputsRefused`. Turn A is `StartA`, `AuditA`; Turn B/C is `StartBC`,
`TurnBCPasses`, or `TurnBCFails`, `TurnBCLingers` and `TurnBCEnds`, then `AuditBC`/`PlanMissing`; Turn D `StartD`, `BeginAttempt`, the four outcomes of the review, `Escalate`, `RetryReview`,
`CompleteD`/`AuditDFails`; Turn E `StartE`, `HashInputs`, `EvaluationPasses`/`EvaluationFails`, `CompleteE`/`AuditE`, `RetryEvaluation`, and convergence
`CompleteRun`/`NotConverged`. `HumanContinues` is the human at a checkpoint, `Kill` a kill between any two steps.

In Turn B/C two threads emit at once, which `TurnBC` has step by step. Here it is one step when both pass. A failure takes the process to `unwindBC`, where
it lives on although `run_failed` may be in the log: the other thread may still write an older projection over the one that says
failed, since `invoke_full()` writes without `event_lock`, and its next event makes the log illegal (`TurnBCLingers`). The turn then ends
as `PipelineAbort` or as the `ValueError` of the projection (`TurnBCEnds`), in the first case perhaps with "running" in `status.json`.

Abstractions: an emission is one step; the events of two threads that both pass stand for one order of them; all events carry one
timestamp; what is wrong with evidence (field, hash, attempt) is one sort of wrong; runs of a framework do not overlap (`Watch`
says when they do not). `BuildLoop` sees a run as tries, judges' approvals and an outcome.

### Runner

`invoker` is `invoke_full()` with the `emit-liveness` process it waits for; `runner` is the runner process in `run_once()` and
`main_runner()`; `agent`, `pipe`, `touched`, `late` are the agent's process, what there is to read, its heartbeat file
and whether its time is over; `leftover` is a process the agent leaves behind with the pipe open. A turn of the loop of
`run_once()` is split at what it looks at: `TimeOut`, `SeeAlive`, `SeeHeartbeat`, `SeeOutput`, `SeeExit`, `Drain`;
`Retry`, `Report` and `Closed` are the rest. The emitter is `ReadLines`, `EmitLine`, `SaveOffset` or `EmitterFails`, and `Judge` is the end of `invoke_full()`.
An output is empty, plain, or holds a marker of a failed transport. `timeout_seconds` is positive (0 switches the timeout off).

### Watch

For each run: where its orchestrator is (`process`, `cursor`), what its directory says (`logged`, the state the events
give; `written`, that in `status.json`; the ages of the two heartbeats). `Shown` is `effective_run_status()`, `ListedAs`
`list_pipeline_runs()`, `HasActivity` the guard of `api_run_launch()`. `ScanNext` and `MarkInterrupted` are `scan_interrupted_runs()`, which looks and
then writes. A unit of time is one in which an orchestrator that waits for an agent gives a heartbeat; `FallSilent` is work
that gives none (a checkpoint, a command). `excused` remembers that somebody launched by hand beside a living run, or the shell
before the last run's first heartbeat, or that a silent run went past the limit: what the limits are not made for.

### Shell

One asyncio process: a step goes from one await to the next. `handler[c]` is where `websocket_endpoint()` of connection c
is, `cast[p]` the broadcast that a coroutine (a handler or the poll loop) is in, with those it has sent to and the size of the
dictionary it began with: `SendNext` is one await, `BreakCast`/`BreakPoll` the `RuntimeError` when the size has changed. `fresh`, `todo`,
`moved` are the poll loop's comparison of `_last_seen` with the workspace, in seconds. `Reply` is the answer and the `except` behind it:
`create_item()` commits (`workspace.py:659`) and then calls `_audit()`, a second transaction and a file, so it can raise when the answer is stored, and the
handler then stores an error beside it (`Replies`). The handler itself ends where nothing catches: `LoseRequest` and `LoseReply` (storing the message or the error
raises, before or after its commit, or a read of the thread does), `LoseList` (`list_threads()`), `LosePoll` (the poll loop). `Post` stands for every other process
that stores a message.

### Sessions, Agents, Brain

`Sessions`: the list `messages` that all calls of an agent and framework share, as what each entry holds (a message, an empty one, a use of
tools, their results). `Accepts` is what the service takes; it is external and taken from how the code builds its requests.

`Agents`: `tokens`, `rows` (the table of agents), `mail` (the items), and for each token where the `program` of the agent is in the instructions
`onboard_agent()` gives it: `Onboard`, `Register`/`Rename`, then `Heartbeat`/`HeartbeatAnswers`, and for each item `MarkRead` and `PostReply`. People create,
update, revoke and delete agents (`DeleteAgent` and `EndDeletion` are its two transactions) and route and complete items.
Times have a precision of one second, on which `NeedsResponse` depends.

`Brain`: `thoughts` and `vectors` are the rows with their rowids; SQLite's choice of a rowid is modelled (`Capture`, `AddOrphan`), since the two tables
are joined by it. A capture is `Capture`, the call to the embedding service, then `AddVector` or `CaptureFails` with `Undo`; `Die` kills a process between. `met`
remembers that a deletion met the capture of its thought.

## 3. Runs

| Run | States | Bounds | What it shows |
|---|---|---|---|
| `ledger` | 241,904 | 2 appending threads, 1 reader, 3 events, scan limit 3 | chain, acknowledged events, reads, lock, and that `Ledger` implements `LedgerLog` |
| `ledger_scan_limit` | violation | 1 thread, 4 events, scan limit 2 | beyond the scan limit an acknowledged event is overwritten |
| `write_path` | 453,121 | 3 events, 2 faults, one node, `One` = 4 | the serving graph is the replay, snapshots, boundary, healing, `ConsistentStore` |
| `write_path_lost_append` | violation | the same, `LostAppends` | a recovery from a snapshot that lacks a durable event |
| `turn_bc` | 495,255 | both threads; and Turn C alone with 2 liveness events and 2 seconds | status, outcome, what a pass means, end of the run |
| `turn_bc_masked_failure` | violation | both threads | a failed agent passes |
| `turn_bc_illegal_parent` | violation | Turn C alone | `run_failed` with a parent the projection rejects |
| `dispatch` | 201,461 | 2 processes, 2 workers, 1 item and its replies, depth 2, lease 2, 2 retries, 1 fault; 5 deployments | one worker at a time, no silent reads, bounded relays, every item settled |
| `dispatch_reopened` | violation | 2 processes, 1 worker, people who complete items | a delivery takes a completed item back to read |
| `pipeline` | 386,292 | a run from A, from C, one from B followed by one from E, and one from D followed by one from E; 3 attempts; with and without checkpoints | outcome, what a pass means, the page, the end of a run, and that `Pipeline` implements `BuildLoop` |
| `services` | 1,224,471 | see below | the shell, sessions, agents, brain, runner and watch modules |
| `brain_orphan` | violation | the same | a deleted thought leaves its vector |

Why the bounds are enough:

- *Ledger*: two appends already meet in every way, because a third thread is
  refused at the lock as the second is. Three events give a chain with an inside.
  One reader has no effect on another. The theorems lift the bounds on callers,
  readers and appends up to the scan limit.
- *Write Path*: three events hold a mutation, a snapshot and a mutation behind it, so a
  recovery starts in the middle. Two faults are a failure and a failure, or crash, of its
  repair. Deltas of three quarters meet both ends of the clamp, so that order matters; one node
  is enough as folds of different nodes do not touch each other. Every kind
  of node event occurs, and both sorts of partial fold.
- *Turn B/C*: with two threads every order of their emissions and of their accesses to the shared fields
  is explored. The combination of two threads with a clock and liveness events is too
  large for TLC; time only matters to the order of a thread's own events, so
  the second instance has one thread, and the theorems hold for both together.
- *Queue and dispatcher*: two processes meet at one item in every way (both list, one
  claims; a lease of two intervals runs out under an unwatched worker; the expiry meets a fresh claim).
  Items do not touch each other except through replies, which the instance has. One fault covers each
  single crash and each single failing call of a delivery. The deployments are: both watched, without and
  with a fault; nobody watched; two workers that relay to each other; and two processes for
  one worker with people who complete and take items.

- *Pipeline*: each turn as the first one; the retry loop needs three attempts for a review that is retried and an evaluation that is retried, in either
  order, with one left. A second run meets files, evidence, page and an interrupted run of a first one that ended in any way, or was
  killed anywhere.
- *Services*: `Shell` has two connections, one of which asks and may go, and two threads, one of which
  changes through other processes alone, so that a broadcast meets connects, subscriptions, disconnects and another broadcast. `Sessions` has two callers, so that calls overlap. `Agents` has one token
  and two names, so that an agent is renamed, deleted and created again, and crashes once. `Brain` has two servers and the shell over three
  thoughts: an orphan, the thought that is given its rowid, and one more. `Runner` has two executions, so one retry, with two
  signs of life in each; `Watch` two runs, and limits in the proportion the code has (five and ten minutes).

`CHECK_DEADLOCK FALSE` appears for `TurnBC` and `Pipeline`, where the runs end, and for the services, which may rest. Failures and crashes of the
Write Path are counted (`MaxFaults`), so that `Heals` means: once the failures stop.

## 4. Properties

*Ledger*: `ChainIntact` (no gap, no fork, no event twice, the chain verifies,
at every moment), `AckedEventsStay`, `ReadersSeeAcked` (a read during appends
verifies and misses nothing acknowledged before it), `LockReleased`, `KeepsPromise`.

*Write Path*: `ServingGraphIsReplay`, `NoReceiptPastBoundary`, `SnapshotsReplayable`
(each recorded snapshot is the replay up to its label, also when others were stored under the
label before), `Heals` (a blocked service comes back unless the ledger holds an event no
fold accepts), `KeepsPromise`.

*Turn B/C*: `StatusProjectable`, `OutcomeExplained` (returns only with a legal log
without failure, aborts only with `run_failed` logged, crashes only on an
illegal log), `PassEarned` (no pass after a timeout, none without an agent that succeeded), `StatusCurrent` (at the end
`status.json` is the projection of the whole log), `Finishes`.

*Queue and dispatcher*: `NoSilentRead` (an item is left read only behind its answer),
`WorkedOnOnce` (with every lease watched and nothing failing, one dispatcher at a time
holds an item and it is answered once; items that were handed to a person are left out, since
`mark_needs_human()` takes the claim from whoever has it), `RelaysBounded` (what agents hand to each other by name gets deeper, up to
the limit; it says nothing of answers routed to "any"), `Settles` (in the end no item is
left to a dispatcher: dead claims come back, failures use up the retries, and relays by name end. It holds because the routes of the
five deployments leave "any" out; with a worker that routes its answers to "any" it would not).
Without watchdogs, or after a crash, an item may well be worked on and answered twice: that is
what leases give, and no document of the repository promises more.

*Pipeline*: `RunOutcome` (the files of a living process say that it runs, and those of an ended one how it ended; the exceptions are the time
between a failure in Turn B/C and the end of the other thread, and an abort from Turn B/C whose log became illegal, which may leave "running" in `status.json` for good;
an escalation for want of attempts has used the budget up), `CompletionEarned` (a run that passed was approved on its last attempt, by both judges if it was built in this run; nothing of the
stages it was to make is older than it; all evidence is about this run and attempt), `PageTruthful` (what the page says of the run it
names), `RunEnds`, `KeepsLoop`.

*Runner*: `OutcomeHonest`, `InvocationEnds`. The latter has one exception that is the code's own: a process that the agent left behind and that
holds the pipe blocks `run_once()` in its last read (`_core.py:233`) beyond any timeout (`HeldUp`).

*Watch*: `RunsTold`, without an excuse.

*Shell*: `OneAnswer` (two answers to a message are one by the agent and an error behind it, and a handler that listens again has left one), `Answered`, `NoGhosts`, and `CatchesUp`, whose exception `spoiled` are the changes that the code is known to lose: one in the second that
the poll loop has already seen, and one whose broadcast broke off after `_last_seen` was set.

*Sessions*: `SessionUsable`. *Agents*: `ThreadAnswered`. *Brain*: `BrainConsistent`.

Fairness, and why the code gives it. *Ledger*: weak fairness of each append and read in
progress; every step is one immudb call that answers or raises and nothing
waits for the lock. *Write Path*: weak fairness of the call in progress, and strong
fairness of `RecoverWithoutSnapshot`, since snapshots may be taken of a blocked
service before the runtime recovers it, which D4 makes the caller's next action. *Turn B/C*: weak fairness
of each thread's steps, each emission and the main thread; an agent ends because the runner
kills it at its timeout (a timeout of 0 disables that and is excluded). *Queue and dispatcher*: weak fairness
of each process, which includes that a run ends (its timeout raises) and that a dead
dispatcher is started again; of the watchdogs; and of time. People owe nothing. *Pipeline*: weak fairness of the process, whose agents end by their timeout, and of the human it asks for at a
terminal. *Runner*: weak fairness of invoker and runner, of time, and of nothing the agent does. *Shell*: weak fairness of every coroutine
that can go on, and a call of a back end ends: each of its requests has a timeout (`backends.py:430`), but nothing bounds the number of rounds in which
a model asks for tools, so that it asks only finitely often is assumed. *Agents*: weak fairness of a program that was started, which includes that it is started
again after a crash. *Sessions*, *Brain*, *Watch*: none, they have safety properties only.

## 5. What is proved

All theorems hold for every value of the constants that satisfies the named assumptions.

- `LedgerProofs`, for any threads and readers, under `MaxAppends <= ScanLimit`:
  `TypeCorrect`, `ChainCorrect`, `AckedCorrect`, `ReadersCorrect`, and `PromiseKept`, the refinement
  of `LedgerLog`. The assumption is the point of the first finding: without it the
  theorems are false. `ChainIntact` is not inductive, since nothing in it says what a
  thread holds between reading the tip and setting the key. `IInv` adds that
  exactly the thread inside `append()` holds the lock, and that its event is either *fresh*
  (fits behind the store, newest id) or has *landed* (is the store's last
  event, its answer lost), which is what makes the retry harmless. For
  the readers `RInv` says how far the tip a reader holds lies behind the store.
- `NodeFoldsProofs`: `FoldPreservesGraphOK`, every fold, also one broken off, keeps
  methylation from 0.0 to 1.0 and the fields of a node.
- `WritePathProofs`, for any requests, failures, crashes and length of the ledger.
  - Whatever an append that raises leaves behind: `TypeCorrect` and `BoundaryCorrect`. The invariant `Base` adds to the two
    `HistoryOK` (the history is the fold, prefix by prefix), `Labelled` (the label of each recorded snapshot from its
    place) and `Submitted` (what is known of the event a call submits).
  - Under `~LostAppends`: `ServingGraphCorrect`, `SnapshotsCorrect`. The invariant `IInv` adds `SnapshotsOK` (each
    recorded snapshot is the replay up to its label) and `CallInv` (how the graph stands to the replay at each point of a call). The last
    conjunct of `CallInv` covers a blocked service: when the event that failed to fold is not a node event,
    the graph has missed nothing, which is why storing an artifact under the same label is safe. The second finding is
    the reason for the hypothesis: without it both theorems are false.
  - `PromiseCorrect`, also under `~LostAppends`: the refinement of `ConsistentStore`. Its replay is a fold over a sequence
    (`FoldLeft`), and `ReplayIs` says that this is the last entry of the history. The induction that takes is
    `NatSetInduction` of `SeqFacts`, a principle stated for sets and not for an operator, which follows from the
    well-foundedness of `<`; so the provers can use it. The steps are then short: an event is accepted when it is folded, when
    its fold fails, or when the process dies before; the graph comes into view with a recovery that succeeds, and then is the
    replay by `IInv`.
- `TurnBCProofs`, for any bound on the clock and on liveness events, in both threads:
  `TypeCorrect`, `StatusCorrect`, `OutcomeCorrect`, `PassCorrect`, `CurrentCorrect`. The
  invariant has ten parts. `Trail` says which events of a thread are in the log from
  where it stands, so that the parents it names exist. `Legality`
  says that an illegal log is known to a process that crashed or will be to one about to
  project it, so that nobody passes on one. `Projections` covers
  what unlocked writers hold on the way to `status.json`. `Failures` ties `run_failed` to the
  processes that give up, `Joined` says that past the join nobody writes, and `Judged` that an
  empty failure field means that some agent succeeded. For `CurrentCorrect` two more parts follow who writes
  `status.json` last: only a thread whose agent runs or has just ended emits without `event_lock`, and it still has an emission under the
  lock ahead of it; so as long as `status.json` lags behind a legal log somebody is on the way to write it.
- `DispatchProofs`, for any workers, processes, deployments and bounds: `TypeCorrect`, `ReadCorrect`,
  `RelayCorrect`, `WorkCorrect`. Two lemmas do the work: `ProcessSteps` (only a claim binds a process to an item, only a posted answer brings it
  to mark the item read) and `RowSteps` (the ways in which a step may change status and recipients
  of an item, or post a new one). `AnsweredFirst` adds to `NoSilentRead` that a process about to mark
  an item read has answered it, and `DepthsOK` adds to `RelaysBounded` that a process is bound only to items below the limit.
  `WorkCorrect` is `WorkedOnOnce`. Its invariant, `Undivided`, holds as long as the deployment is undisturbed, and only of items not handed to a
  person. `Leased`: who holds an item has its claim, with a lease that outlasts the next interval or is about to be
  renewed; no claim is left behind; and no expiry has picked a claim in use. `Settled`: an answered
  item is no longer offered, or is about to be marked read, and nobody is about to answer it again. The theorem
  assumes `MaxLease > 1`, a lease longer than one interval of the watchdog; with a lease of one interval TLC finds two
  workers at one item. The code has 60 seconds for the interval and 120 for the shortest of the built-in profiles
  (`workspace_dispatcher.py:61`, `:175`).

- `PipelineProofs`, for any launches, modes and number of attempts: `TypeCorrect`, `CompletionCorrect`, `PageCorrect`,
  `OutcomeCorrect`, and `LoopCorrect`, the refinement of `BuildLoop`.
  Nothing in `CompletionEarned` says how a run came to where it passes, so the invariant follows it. The regions
  `Specified`, `Planned`, `Gated`, `Reviewed`, `Approved`, `Built`, `InTurnE` and `Scored` say where a run is, and by them
  `Made` says that what it has passed is its own (and that what is left over is gone from the start), `Attested` that
  evidence it has verified is about the current attempt while that of earlier stages is about an earlier run,
  `Endorsed` that the verdict events it went on with are in the log for that attempt, `Renewed` that fresh outputs are the run's,
  `Where` that a run from Turn E never leaves it, `Passing` that PASS stands in the report only between
  the evaluator and the decision, and `Paged` that the page is either of an earlier run, or calls nothing done that is still being made.
  Most of the sixty actions follow from two lemmas: `OnwardKeeps` (a step from one region to the next, nothing written)
  and `QuitKeeps` (a step after which the run only fails).
  `OutcomeCorrect` and `LoopCorrect` have one invariant on top of that, `OutRun`: `Sound` (the log of a live process is legal and
  open, outside `unwindBC`), `Rooted` (the ids it keeps name events that may be the parents of what it emits next), and by the `Phase` of the retry loop
  `Counted` (what the attempt counter says there), `Ruled` (what the judges have said of the current attempt) and
  `Spent` (the attempts reviewed so far are those from the first to the current one). A step then either stays in its phase,
  leaves the loop (`Leaves`), or is one of the few that count, judge or end.

- `ServicesProofs`, for the six smaller modules and for all of them side by side, for any bounds; `ServicesTypeCorrect` and
  `ServicesCorrect` are about the specification that the run checks.
  - `BrainTypeCorrect`, `BrainCorrect`. The invariant has two parts. `BrainRows`: rows have an id and a rowid of their
    own, and each capture still knows the row that it stored. `BrainPairs`, which holds as long as no deletion has met a capture:
    a vector belongs to the thought of its rowid, and only a capture under way has a thought without one.
  - `SessionCorrect`: `OneCall` and `Resulted`. As long as calls do not overlap there is at most one, and every use of
    tools in the history is followed by its results, or is being run by that call.
  - `RunnerCorrect`: `Reported` says what the runner has found out about the execution it is in, so that a result
    cannot come from an earlier one; `Emitted` how far the emitter has come against the events in the log.
  - `WatchCorrect`: `RunPaths` (where an orchestrator stands and what its files then say), `OneAlive`, and `RunNotes`:
    a scan is only about to mark a run that neither lives nor has ended.
  - `ShellTypeCorrect`, `ShellCorrect` (`OneAnswer`), `NobodyLeft` (`NoGhosts`). `ShellCasts` says which coroutines are in a broadcast;
    `ShellAnswers` that answers are of messages, that of two to one message the first is the agent's and the second an error (which leaves no
    room for a third), and that an interactive message without one has a handler that is on the way to it or has ended. `NoGhosts` is inductive with them: every way in which a handler ends disconnects it.
  - `AgentsTypeCorrect`: with `AgentNames`, that a program that was given a name has one, the types of the protocol. `ThreadAnswered`, the
    one property of `Agents`, is liveness.

Only model-checked: the nine liveness properties `LockReleased`, `Heals`, `Finishes`, `Settles`, `RunEnds`, `Answered`, `CatchesUp`,
`ThreadAnswered` and `InvocationEnds`, since TLAPS proves neither `ENABLED` nor what follows from fairness; and the counterexamples of section 6, which
need none.

## 6. Findings

Each is a run in which TLC finds a counterexample to a sentence of the
repository's own documents.

1. `ledger_scan_limit`: the tip is taken from a count cut off at 1000 keys
   (`store.py:216`), so from event 1001 on appends overwrite an acknowledged
   event, against D4's "No fork".
2. `write_path_lost_append`: `submit_mutation()` takes every exception of `append()` for "nothing
   happened" (`service.py:24`), but the Ledger raises after a retry whose
   answer was lost. The graph then lacks a durable event and a later snapshot seals
   the gap. This is why `LostAppends` is a parameter: FALSE is what the Write Path's
   documents assume of the Ledger, and the theorems about the graph hold under it; TRUE is
   what the Ledger does, and types and boundary hold under both.
3. `turn_bc_masked_failure`: `last_failure_event_id` is shared by both threads, so one
   thread's success erases the other's failure (`orchestrate.py:929`) and the turn passes.
   What remains true is `PassEarned`.
4. `turn_bc_illegal_parent`: after a failed audit or a missing input `run_failed` gets a
   parent that is no failure (`orchestrate.py:1192`); the log can never be projected again
   and the process dies of a `ValueError`.
5. `dispatch_reopened`: `deliver_result()` sets the status to read whatever it is by then
   (`workspace_dispatcher.py:232`); an item that a person completed meanwhile falls back to read.
6. `brain_orphan`: `delete_thought()` deletes from both tables (`brain.py:83`), but a capture that is waiting for the
   embedding of that thought stores the vector afterwards. The vector stays, and a later thought that SQLite gives the same rowid cannot store its own.

Seen on the way, and part of the models (a property is stated so that it allows for them, or a
remembered exception names them), but without a run of their own:

- A run that starts at Turn A gives the builder attempts 2 and 3 of 3 only: entering Turn B/C after the first
  pass counts one up (`architecture/SAWMILL_RUNTIME_SPEC_v0.1.md:452` gives Turn D and E three).
- A run resumed with `--from-turn E` does not converge over the evidence of the run before: the audit wants the reviewer's and the
  builder's evidence to name the run itself, not one of its lineage (`sawmill/audit/_core.py` 213-235), although the
  recovery plan has Turn E run this way (`SYSTEM_EXECUTION_PLAN.md:187-200`).
- A run killed before its first heartbeat stays "running" in every list and is never marked interrupted, and a completed run that is audited
  minutes later fails `rebuild_status`.
- After a failure in Turn B/C `status.json` may say "running" for good: an unlocked write of an older projection replaces the one that says failed, and
  the next event, which would write a newer one, makes the log illegal and raises before it writes (`sawmill/orchestrate.py:439-442`).
- A worker that routes its answers to "any" starts an exchange without an end: their depth stays, and any worker, also the same one, claims them.
- A message to an interactive agent may get two answers, the agent's and an error "after" it: `create_item()` can raise in `_audit()` when the answer
  is committed (`workspace.py:659-660`), and `websocket.py:219` takes that for a failed call.
- An agent's execution that timed out is retried when its output holds a marker of a failed transport, so
  three times the timeout can pass.
- In `Shell`, a change in a second that the poll loop has seen is never pushed; in `Agents`, a read item without a reply
  is hidden by any later message of the agent (`workspace.py:1378`), an agent's "read" takes back a person's
  "complete", and a name that was deleted and created again has no active token.
- In `Sessions`, calls that overlap, or an empty message, leave a history that the service refuses from then on, and
  nothing calls `clear_session()`.
- `chat`/`portals`: the works page shows a run between two attempts as "passed, awaiting promotion" (`works.py` 268-283), and the brain's import
  skips a thought that a crash left without its vector (`brain_import.py` 58-66).

## 7. Not modelled

- *Evidence, audit, registry*: what each check compares, field by field, and the registry of roles, prompts and artifacts.
  `Pipeline` has their outcome as a function of what the files hold (missing, partial, stale, right). Sequential code without state.
  `validate_final_evidence_suite()` has no caller.
- *Portals, chat, most of the back ends*: translation and I/O around the queue and the sessions.
- *Workspace*: the audit log and the import of legacy files, single statements without a protocol.
- *Agent runner*: `main_timeout_runner()` and `_run_timeout_once()`, a second way to limit a command that the orchestrator does not use for agents.
- *Run state*: a reader that meets `status.json` while it is being written (`RunState` writes it in one step but leaves any order of
  writers), and the command that rebuilds it.
- *Canary worker, static pages, Templates, Archive*: fixtures, assets and documents.

## 8. Plan

1. `Leases`: an abstract specification of the queue (an item is offered, worked on under a lease, and
   settled), with `Dispatch` as its refinement. `Undivided` is the invariant it needs; what is new is the mapping of an
   item that a person takes out of the hands of a dispatcher.
2. `RunState`: `write_status()` truncates `status.json` before it writes it, the one hazard without a property. It takes a
   projection file with a state of its own (whole, or in the making) and readers of it.
3. Write Path with `LostAppends`: what remains true of the graph, beside its types and the boundary, should be that it is the replay without the events whose
   append raised, until the next recovery from genesis. A history of those events would say so.
