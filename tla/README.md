# A verification project for the orchestrator

The repository turns a client's briefing into software through workers that run
in containers. A single service, the **control-api**, owns everything that must
be right: the runs and their append-only event log, the task queue, the
scheduler, the tokens, the callbacks of the workers, the artifacts and the
access to models. The workers and the browser reach it by HTTP only. This
directory holds TLA+ models of that service, the TLC configurations that check
them on small instances, and proofs that TLAPS checks for every instance.

Paths below are relative to `src/`; `app/` is `services/control-api/app/`.

## 1. The system

| Part | State it keeps | Operations | Meets |
|---|---|---|---|
| Run state machine (`packages/contracts/state-machine/v1.json`, `app/persistence/state_machine.py`) | none, a table | `accepts`, `next_state` | everything that moves a run |
| Event store and runs (`app/persistence/event_store.py`, `runs.py`, `app/api/runs/`) | `runs`, `events` | create a run, append under the run lock, list | scheduler, callbacks, event stream |
| Scheduler (`app/orchestration/`) | `agent_tasks`, `agent_executions`; the local variables of `dispatch_next` | claim, create, record start, start, wait, record exit, compensate | runtime, event store |
| Container runtime (`app/runtime/`) | the daemon's containers | create, start, wait, kill, remove | scheduler |
| Task callbacks (`app/api/internal/`) | `token_hash`, `locked_at`, task state, backlog, stories | context, heartbeat, outputs, po-output, dev-delivery, qa-output, failure, artifacts, model-invocations | workers, event store, idempotency |
| Idempotency keys (`app/persistence/idempotency.py`) | `idempotency_keys` | claim, record the response | callbacks, creation of runs |
| Workers (`services/*-worker/`) | a process each | read the context, ask the model, submit, exit | callbacks |
| Model gateway (`app/model_gateway/`) | `model_invocations` | route, invoke, audit | PO, Dev and QA workers |
| Artifact store (`app/artifacts/`) | files, records, index files; a lock per root | write, register, get | Dev and QA workers |
| Workspace manager (`app/workspace/`) | directories of snapshots and of workspaces | create snapshot, load, create workspace | none yet |
| Tool executor (`app/runtime/tools/`) | a process group, two readers, a budget | execute | local execution of the Dev's library |
| Contracts (`packages/contracts/`) and the validators (`po_worker.py`, `po_outputs.py`, `qa_worker.py`, `dev-worker/contracts.py`) | none | judge a backlog, a delivery, a plan | workers, callbacks |
| Event stream (`app/api/events/`) | one cursor per connection | replay, poll, keep alive | panel |
| Control panel (`apps/control-panel/`) | events shown, last sequence, run shown | submit, follow, refresh | event stream, runs |

Interaction in one paragraph: a client creates a run, which queues its first
task. A scheduler loop claims the oldest task, issues a token, creates a
container (or a local process for a dev task), commits `AGENT_STARTED`, and only
then starts it and waits. The worker reads its context and calls back with its
result; the callback is authenticated by the token and the lease of the task,
deduplicated by its key, and commits the task's verdict and the events under
the run's row lock. A PO's result freezes stories and queues a dev task for
each. When the container ends, the scheduler records the exit and, if it was
not clean, fails the task it still believes RUNNING and the run if the table
accepts `AGENT_FAILED`.

What is hard in it:

* the scheduler and a callback end the same task at the same time, each reading
  the task before it holds the run lock;
* a crash of the control-api loses the scheduler's local variables and the
  requests in flight, while tasks, containers and workers stay;
* a lease (from the claim, renewed by heartbeats), the timeout of the wait and
  a late answer race;
* repeated callbacks;
* failures of the runtime or of a transaction in the middle of a dispatch;
* several loops sharing the queue (the code claims with SKIP LOCKED for that);
* a stream that may end between any two frames, or meet an event it cannot encode,
  and a panel with two cursors, a timeline and several requests in flight that must
  stay consistent;
* an artifact is three files: the disk may refuse, or the process die, between
  any two, and a retry meets what is left;
* a source tree changes while it is hashed and copied, and creators race for the
  same directory by rename, without a lock;
* a command's descendants leave its group, outlive it and hold its pipes, while
  two readers share one budget;
* a worker pays for each answer of the model, any of its calls may fail or take
  effect unheard, and what it accepted is judged again by copies of its checks.

What makes each part correct is listed with its properties in section 4; the
complete list of hazards, each at its line, is `hazards` in `PROJECT.json`.

## 2. Modules

| Module | Models | State |
|---|---|---|
| `RunMachine` | the table of the contract, `accepts`, `next_state`; what an auditor computes from a log (`Audited`) | none |
| `RunLedger` | abstract: what a reader of the timeline is promised about a run that one worker does | state and history of each run |
| `ControlPlane` | creation of runs, scheduler loops, runtime, workers, callbacks, idempotency, crashes | see below |
| `MCControlPlane` | instances for TLC | |
| `EventFeed` | abstract: what the timeline of a run promises to whoever looks at the panel | length of the log, events displayed |
| `EventStream` | the server's stream of one run, the connection, the client's loop, the panel's timeline and summary; carries its own constants, no MC module | see below |
| `OncePerKey` | abstract: what an idempotency key promises to clients | command, effect and answer of each request |
| `IdempotencyKeys` | claim, transaction, recorded answer, pool of connections; carries its own constants | see below |
| `WriteOnce` | abstract: what the artifact store promises: a path is bound once | what each path stands for, what was handed out |
| `ArtifactStore` | write and register, the lock, failures of the disk, crashes | see below |
| `Workspaces` | snapshots of a changing source, workspaces, races of renames | see below |
| `ToolExecutor` | one execution: checks, processes, readers, budget, timeout | see below |
| `MCToolExecutor` | its requests for TLC | |
| `Handoffs` | the documents and every copy of their validation, as operators | none |
| `WorkerSession` | a PO, Dev or QA worker from its context to its exit, and what its calls leave behind; extends `Handoffs` | see below |
| `MCWorkerSession` | what the model may answer, for TLC | |
| `ControlPlaneProofs` | theorems: types; workers are waited for; one worker per loop; one start per task; effects have causes; starts are accepted | |
| `LogProofs` | theorems about the log of a run: closed stays closed; no success after failure; the ledger is implemented; logs are auditable; stories are queued once; outcomes are recorded once; dev tasks start as frozen | |
| `EventStreamProofs` | theorems: types; the timeline is the log | |
| `IdempotencyProofs` | theorems: types; one effect per key; a reservation is never seen without its answer | |
| `ArtifactProofs` | theorems: types; readable for good; nothing is left; retries are answered; write once | |
| `WorkspaceProofs` | theorems: types; snapshots are exact; workspaces are their snapshot; work is kept | |
| `ToolProofs` | theorems: types; evidence is a prefix; a timeout is final | |
| `WorkerSessionProofs` | theorems: the search for cycles is right; the copies of the checks agree; types; submissions are taken; usage is complete; what was made is stored | |

The modules meet as follows. `WorkerSession` is one worker seen closely; what
`ControlPlane` says of it (it calls back any number of times, or never, and exits
0 only after an accepted answer) is what `WorkerEnds` checks, and `Settle` and
`Expire` of `WorkerSession` are all that a worker notices of `ControlPlane`.
`WorkerSession`'s `Store` is one atomic step because `ArtifactStore` implements
`WriteOnce`, and `ControlPlane`'s callback one because `IdempotencyKeys`
implements `OncePerKey`.

### How ControlPlane corresponds to the code

| Variable | Code |
|---|---|
| `runState`, `log` | `runs.state`, the rows of `events` by `sequence`; an event is its type and its `task_id` (for `STORY_FROZEN` the `dev_task_id` of its payload) |
| `taskState`, `token` | `agent_tasks.state`, `token_hash IS NOT NULL` |
| `lease` | `locked_at + timeout_seconds` against the clock: `fresh` since the claim, `renewed` by a heartbeat, `expired` |
| `queue` | tasks in order of `available_at` |
| `execution`, `container` | `agent_executions.state` and `container_id IS NOT NULL` of attempt 1 (nothing increments `attempt`) |
| `pc`, `job`, `exit`, `seen` | where a loop is in `dispatch_next`, its `_ClaimedTask`, the result of the wait, the task state it read in its last transaction |
| `worker`, `acked`, `sent` | the container or process of a task, whether it got a 2xx, how many callbacks it made |
| `calls` | callbacks authenticated and not yet committed, each with the task state it read |
| `answered` | `idempotency_keys` of the callback's scope |
| `crashes` | bound only |

A transaction that holds the run's row lock is one action from the lock to the
commit, because every other transaction that changes the same run waits for the
lock. What such a transaction reads *before* the lock is a step of its own:

* `Arrive` is `_authenticate`, a plain `SELECT`; the state it read is `seen` of
  the call, and `WriteTask` uses it as the ORM does, which writes the column
  only if it differs from the value read;
* `ReadFinished` and `ReadFailing` are the reads of the task before the lock in
  `_record_finished` and `_record_runtime_failure`. In the second the task is
  assigned before the lock, but the session is created with `autoflush=False`
  (`app/db.py:37`), so it is written after it; the order of locks is the same
  everywhere and no deadlock arises.

`RecordStarted`, `StartWorker`, `WaitExit`, `WaitTimeout` are the calls of
`_run_container` and `_run_local_dev` in their order; `CreateFails`,
`StartFails`, `WaitFails` are an exception of each, `TransactionFails` one of
the database, inside or outside the `try` as in each of the two methods.
`Crash` is the end of the process and, equally, the cancellation of the loop by
`scheduler_task`: neither runs a compensation, since `CancelledError` is not an
`Exception`. After `Crash` the requests in flight are rolled back.

Abstractions, and why they are sound for the properties stated:

* `runs.current_task_id` is written and shown, never used in a decision: left out.
* Keys are per task. In the code they are per scope, and every worker derives
  its key from its task id, so two tasks never share one.
* A failing check of a callback (wrong role, run id, briefing hash, evidence)
  rolls back and changes nothing: `Refuse` stands for all of them, as it does
  for the unique constraint on `backlogs.run_id` that refuses a second backlog.
* The `ADR_RECORDED` and `TOOL_EXECUTED` events of a delivery are in no table
  and no property: left out of the log.
* Time is a choice: a lease may expire at any moment. The wait's timeout needs
  a lease that is no longer fresh, because it starts after the claim and lasts
  as long.
* No code creates a task of role `qa`, so there is none.

### How EventStream corresponds to the code

| Variable | Code |
|---|---|
| `committed` | `runs.last_sequence`; the events are `1 .. committed`, as the run lock numbers them |
| `alien` | the events whose `actor` is not in `EventActor`: with the role `llm` those of its callbacks, with `fake` a reported failure |
| `served`, `page` | `cursor` of `iter_run_events` and the events of `events` it has not yielded |
| `wire` | frames yielded and not yet read, in the order of the response |
| `conn` | whether `followRunEvents` is in `waitForRetry` (`waiting`) or in `consumeEventStream`, whose generator runs (`open`) or has raised (`failed`) |
| `held`, `cursor` | the variable `cursor` of `followRunEvents` and that of `consumeEventStream` |
| `last`, `shown` | `lastSequence.current` and the sequences of `events` in `App` |
| `refreshes`, `view` | how many calls of `getRun` are in flight, by the answer they have, and `run` in `App` |
| `breaks` | bound only |

* An answer about the run is the number of events committed when it was read:
  `append` moves `updated_at` and the state together with the log.
* One frame per `Receive` covers every way the network may cut the response into
  chunks, since a chunk changes nothing but what its complete frames change. A
  frame cut in two by the end of the response is dropped with the buffer.
* `Break` is everything that makes `consumeEventStream` throw: a refused
  connection, a status that is not 200, a read that fails, a frame out of
  contract. Status 404 ends the loop in the code; a run that was created is never
  deleted, so it does not happen to a panel that shows it.
* `EncodingFails` is the exception of `encode_event`, called before the `yield`: the
  cursor has moved, the rest of the page is lost with the generator. What was yielded
  before has been sent, and is received unless a `Break` comes between; then the
  response is cut off (`CutOff`), which makes the client's read throw without a new
  cursor, so the next attempt asks for the same event. Which events are `alien` is
  chosen when they are committed; those of a creation have the actor `system`.
* `ReconnectNow` is the cleanup of the effect and its next run in one step: React
  runs them together, and an abort rejects the pending reads before another
  frame is looked at.
* A keep-alive and an empty page change nothing anyone sees.
* The panel shows one run: the form is gone once a run is shown.

### How IdempotencyKeys corresponds to the code

| Variable | Code |
|---|---|
| `command` | the key and `hash_request` of each request |
| `pc` | where its handler is: waiting for a connection, in the insert of `claim`, in its second `SELECT`, after the claim, after the command, after `record_response` |
| `holder` | the transaction whose insert of a key is not committed |
| `rows` | `idempotency_keys`, committed; the answer is named after the request executed, because it holds the ids made for it |
| `effects` | what the commands committed |
| `reply` | what the client was told, `Failed` for every status from which it cannot tell |

* PostgreSQL makes an insert wait for an uncommitted row with the same key, and
  then insert nothing if that transaction commits, or insert if it rolls back:
  `Reserve` and `FindTaken` are disabled while another request holds the key.
* `Rollback` is every way a transaction ends without a commit: a refusal by the
  handler, an exception, the pool's timeout, a lost connection, the end of the
  process. A refusal is not recorded: a repetition is judged again.
* A client that repeats a request is another request with the same key.
* `Execute` is the body of the handler after the claim. What it writes is visible
  at the commit only, so its inside is `ControlPlane`'s business.

This is what justifies that `ControlPlane` claims a key and commits the callback
in one step: `OncePerKey` is that step.

### How ArtifactStore corresponds to the code

| Variable | Code |
|---|---|
| `files` | the bytes under `files_root` by path |
| `records`, `index` | `records/<id>.json` and `path-index/<hash>.ref`; the index names an id |
| `lock` | the lock `_ROOT_LOCKS.setdefault` gives, shared by every store over one root |
| `op`, `pc` | the local variables of `write` or `register`, and the next write of `_persist_record` |
| `answer`, `handedOut` | how the call ended, and every reference returned |

* The id of an artifact is a hash of path, content and metadata, so a reference is
  these three; distinct hashes for distinct triples is the assumption.
* `_atomic_write` makes the destination appear at once, complete or not at all:
  one step. It says nothing of what `fsync` did; a crash is the end of the process.
* A refusal comes from any write. An `unlink` of the compensation does not fail.
* `register` reads the file, so a producer that writes over a registered file
  would break its reference; it is assumed to write before there is a file, which
  is how the store gives out its paths.

### How Workspaces corresponds to the code

| Variable | Code |
|---|---|
| `source` | the tree given to `create_snapshot` |
| `snapshots`, `workspaces` | the directories under `snapshots_root` and `runs_root`; `sealed` is their permission, `base` the marker `workspace.json` |
| `pc`, `scan`, `want`, `key` | where each creator is, the files it has hashed or copied, the snapshot it makes or starts from, the workspace |
| `given` | the workspaces returned, each with the snapshot asked for |

* A tree is the versions of its files in the order they are read; a tree is its hash.
  That takes `_hash_tree` for injective. It writes the length of each name and not of
  each content (`manager.py:173-183`), so contents made for it could give two trees
  one hash; the module does not look at that.
* `SnapshotIsExact` compares a snapshot with its hash, not with the source: a tree that
  hash and copy mixed alike while the source changed passes the code's comparison too.
* A copy of a snapshot is one step, as a snapshot does not change (`SnapshotIsExact`).
* `Die` is an exception or the end of the process. The temporary directory is
  removed or stays; nobody looks at it either way.
* The order of `fsync`s, symbolic links and permissions of the workspace are left out.

### How ToolExecutor corresponds to the code

`live`, `group` and `holding` are the operating system's: the processes of the
command, those in its group, those with the pipes open. `Fork`, `LeaveGroup`,
`ClosePipes`, `WriteByte` and `End` are anything a command may do. `taken`,
`kept` and `eof` are the two `_read_bounded` tasks, `remaining` and `truncated`
the `_OutputBudget`, `phase` and `timedOut` the body of `execute`. A chunk holds
any number of bytes up to `READ_CHUNK_BYTES`; `take` is one step because it holds
the lock of the budget. A leader that is gone is waited for at once: `killpg` and
`process.kill` then differ in nothing.

### How Handoffs and WorkerSession correspond to the code

| Variable | Code |
|---|---|
| `role`, `pc`, `attempt`, `doc`, `todo`, `exit` | which worker, where it is in `execute`, the counter of repairs, the model's answer, what is left to upload, the exit code |
| `local`, `report` | the files it wrote, the verdict of `execute_cases` |
| `task`, `token` | `agent_tasks.state`; token and lease still good |
| `call`, `paid`, `recorded` | the gateway inside `provider.invoke`; answers the provider gave; committed rows of `model_invocations` |
| `reported`, `stored` | the usage in the event of the outcome; the artifacts of the task |

* A document is what its validators look at: of a backlog the ids, dependencies,
  criteria (id, order, text, padding), readiness and coverage, and whether schema
  and identity are right; a description is a text with or without blanks around it,
  because the worker strips it and the server does not. `size` is the length of an
  id, `nul` whether a NUL is in a text. Of the Dev's answer it is the files, with the
  criteria they name, and the `length` of each text with a limit, of the paths the
  longest. `schema` is the verdict of `jsonschema` in the worker and of pydantic in the
  endpoint on one schema; the two are assumed to agree (an id that ends in a line
  break is one the first accepts and the second does not). The Dev worker has no such
  check, so `KeepsSchema` is no part of `DevWorkerAccepts`.
* `AskedLimits` are those of `MODEL_SCHEMA`, which only the prompt mentions,
  `DeliveryLimits` those of the delivery. `PoStorable` and `DevStorable` are what the
  database holds of an outcome that passed the checks: keys, columns, no NUL.
* `Visit` is the recursive function of `po_worker.py`, `po_outputs.py` and
  `worker_contracts.py`, with `visiting` and `visited` as they are in the code;
  `VisitNode` is its body, `VisitAll` its `any(...)` over a list of nodes. It is
  compared with `DependsOnItself`: some stories each depend on one of them, which
  in a finite backlog is to say that one of them depends on itself.
* `Answer` is a call that took effect: its answer arrives or gets lost. `NoAnswer`
  is one without an effect, except that a model call goes on (`InvokeUnread`).
* `WriteTest` and `Upload` alternate in the QA worker and follow each other in the
  Dev worker, as in the two scripts.
* The failure report of a worker (`worker_failures.py`) is `ControlPlane`'s
  `ReportFailure`. Cost and token counts are the number of calls.

## 3. Runs

The first five are instances of `MCControlPlane`. `MCToolExecutor`,
`WorkerSession` and `QaEvidence` have MC modules of their own; the rest check
their module itself, whose constants are numbers and model values.
`CHECK_DEADLOCK FALSE` where the system may stop: every run is settled, every
event shown, every request answered, the command or the worker ended. The store
and the workspaces may be called for ever, and are checked for deadlock.

| Run | Instance | What it asks |
|---|---|---|
| `MCFakeRun` | fake role, 1 run, 2 loops, 2 keys, 2 callbacks, 1 crash, runtime failures, swallowed kills | Types; the start is never refused by the table; the log explains the state; a failed run shows no success; terminal is final; the control-api implements `RunLedger`. |
| `MCPoFlow` | PO role, backlogs of none, one or two stories, local dev tasks, 1 loop, runtime failures | Causes precede effects in the log; one worker at a time; a frozen story is one dev task queued once; dev tasks start in the frozen order. |
| `MCCrash` | PO role, one story, container dev task, 2 callbacks, 1 crash, failing transactions | A task is started at most once; a repeated callback is recorded once. |
| `MCLiveness` | fake role, 2 runs, 1 loop, runtime failures, no crash, fairness | Every task and every run settles. |
| `MCVerdict` | fake role, smallest instance | A violation: see section 5. |
| `EventStream` | 3 events, one of them committed with the run, any of the others of an unknown actor, pages of 2, 3 breaks, failing refreshes, one in flight per answer, fairness | The timeline grows by the next event of the log, and shows in the end every event before which all can be encoded, and itself. |
| `IdempotencyKeys` | 3 requests, 2 keys, 2 payloads, 2 connections, failures and lost acknowledgements, fairness | One effect per key, one answer for its repetitions; a reservation is never seen without its answer; every request is answered. |
| `ArtifactStore` | 2 callers, 2 paths, 2 contents, 1 crash, 1 refused write, 1 streamed path | What was handed out is readable; a refused call leaves nothing; a repetition gets the reference; the store implements `WriteOnce`. |
| `Workspaces` | 2 creators, 1 key, trees of 2 files in 2 versions, 2 edits, both errors of rename | Snapshots are exact; a workspace is the one asked for; nobody replaces one in use. |
| `MCToolExecutor` | 2 descendants, limit 3, chunks of 2, 3 bytes per stream, a request of every kind, fairness | Evidence is a prefix; a timeout kills the group; the call returns. |
| `WorkerSession` | 3 roles, about 850 backlogs, every small plan and delivery, texts at and beyond each limit, 2 repairs, faults, fairness | The validators agree; what is submitted is taken; usage and artifacts are complete; the worker ends. |
| `QaEvidence` | the same without faults | A violation: see section 5. |

Bounds. Runs interact only through the queue and the loops, so one run is
enough for the properties of a run and two for the liveness of the queue. Two
loops are the least that can race for a task; two callbacks the least that can
repeat; two keys the least that tell a repetition from a new submission; two
stories the least that have an order. One crash is enough to reach every state a
crash can leave behind, because a second would find the same.
For the stream, three events in pages of two give a full page, a partial one and
a second page, and three breaks let a repetition of events repeat itself and then
be resumed by hand; the theorem of section 7 covers every size. `MaxRefreshes` keeps
the requests for the run at one per answer. A frame waits while one is not yet read,
which is always read or fails; what it leaves out is an answer that arrives twice,
and no answer has a part in what the timeline shows.
For a key, three requests are a first one, one that waits for it and one that
comes later or takes over from a rollback; two connections are fewer than the
requests that want one; two keys and two payloads tell a repetition from the rest.
For the store, two callers are the least that race, two paths the least at which
one call can disturb another, and one crash and one refusal can each come between
any two writes, the refusal also after the crash. For workspaces, two files are
the least that can be copied in two states of the source, two edits the least that
can change a tree and change it back, and one key is what creators race for. For
the executor, 6 bytes in two streams against a limit of 3 exhaust the budget from
either reader and in the middle of a chunk, and a grandchild is what a child that
dies leaves behind. For the backlogs, every graph of three stories (8 lists of
dependencies each) has every cycle of length one to three, diamonds, and repeated
dependencies; pairs of stories have every other thing a validator looks at.
`MCPoFlow` and `MCCrash` split what would be too large in one instance:
failures of the runtime without a crash, and crashes and failing transactions.

Fairness (`FairSpec`). `run_forever` polls for ever and swallows exceptions, and
each of its transactions and runtime calls has a timeout or ends: weak fairness
of each loop's step. The clock advances: weak fairness of each lease's expiry.
Nothing is assumed of clients, workers or requests: a worker may be silent for
ever, and it is the timeout that ends it.

In `EventStream`, the server's loop polls for ever, the client's loop connects
again for ever with a bounded delay, and a frame under way arrives unless the
attempt breaks: weak fairness of `Poll`, `Yield`, `EncodingFails`, `Connect`,
`Receive` and `CutOff`. uvicorn sends what a generator yielded before it raised and
then closes the connection; a browser may drop what it has not read by then, which is
a `Break`, and is assumed not to happen in every attempt. A request for the run is read and answered unless it fails. In `IdempotencyKeys`
every statement of a handler ends, the insert when the key is free: weak fairness
of each request's step, and none of `Rollback`. In `ToolExecutor` the readers,
the observation of the exit, the timeout and the return: the event loop runs what
is ready, and the clock runs; nothing is assumed of the command, hence the second
disjunct of `ExecuteReturns`. In `WorkerSession` weak fairness of `Work`: the
script goes on and every HTTP call of the workers has a timeout, so a call is
answered or given up; nothing is assumed of the provider. Nothing is assumed of
ends and failures, whose number is bounded: a network that fails for ever shows
nothing to anyone.

## 4. Properties

| Property | Hazard it is aimed at |
|---|---|
| `StartIsAccepted` | the container exists before the transition it needs is validated |
| `LogIsAuditable` | state and log move apart: an event recorded and not driven, or driven and not recorded |
| `FailedRunHasNoSuccess` | callback and compensation both end the task |
| `TerminalIsFinal` | a second ending, a late event |
| `RefinesLedger` | all of the above at once, as an abstract specification |
| `OutcomeHasCause` | a worker that answers before its start is recorded |
| `OneWorkerAtATime` | a timeout that leaves the worker running while the loop goes on |
| `FrozenStoriesAreQueued` | the queue and the log disagree about the backlog |
| `DevsStartInOrder` | stories started out of order after failures |
| `OneStart` | two loops, or a restart, start the same task again |
| `OneOutcome` | a repeated callback recorded twice |
| `EveryTaskSettles`, `EveryRunSettles` | an exception, a silent worker or a lost answer leaves a task RUNNING |
| `RefinesFeed` | a page, an end, a failure or a reconnection that skips, repeats or reorders events |
| `RefinesOnce` | a repetition during, after or instead of the first execution takes effect again or is told something else |
| `InFlightIsNeverSeen` | a reservation that becomes visible, or stays behind, without an answer |
| `EveryRequestIsAnswered` | repetitions that wait for a key use up the pool |
| `EveryEncodableEventIsShown` | an attempt after which nobody asks for the rest; an event that takes those before it along |
| `HandedOutIsReadable` | a racing call, a compensation or a crash that takes away what somebody relies on |
| `FailureLeavesNothing` | a refused write whose compensation stops halfway |
| `RetryGetsTheReference` | a repetition refused because its record is made anew |
| `ImplementsWriteOnce` | all of the above at once, as an abstract specification |
| `SnapshotIsExact` | a source that changes between the hash and the copy |
| `WorkspaceIsItsSnapshot` | the loser of a race that takes the winner's workspace for its own |
| `WorkIsNeverLost` | a late rename over a directory somebody works in |
| `OutputIsAPrefix` | two readers on one budget leave a gap in the evidence |
| `TimeoutKillsTheGroup` | descendants that go on after the answer |
| `ExecuteReturns` | a command, or what it leaves behind, that holds the call for ever |
| `ValidatorsAgree` | copies of one check that drift apart |
| `SubmissionIsTaken` | a document refused after everything for it was paid |
| `UsageIsComplete` | a paid call whose row is lost with its transaction |
| `StoredIsWhatWasMade` | a repeated path, a lost upload or another content under the same name |
| `WorkerEnds` | a lost answer or an endless repair; a success nobody accepted |

`ValidatorsAgree` and `SubmissionIsTaken` name the differences they allow, so they
are exact: section 6 lists what each difference means. `StoredIsWhatWasMade` says
that the manifest has every file of the archive, not that it has no other.

`OneWorkerAtATime` and `DevsStartInOrder` are checked with one loop, the
deployment of the code, and without swallowed kills; the first fails as soon as
the daemon cannot kill a container. `LogIsAuditable` and `RefinesLedger` are
checked where one worker does the whole run. Every property has a mutation of
the model, a plausible bug of the code, that breaks it (`mutants` in
`PROJECT.json`; the mutated operators stand beside the originals).

## 5. What the violations show

* `MCVerdict`: the scheduler reads a task as RUNNING, the callback commits
  SUCCEEDED and COMPLETED, the scheduler then writes FAILED or TIMED_OUT over
  the task. The README of the control-api says the verdict is the callback's.
  Reading the task after the lock (`scheduler.py:357` below 364) removes it.
* `QaEvidence`: the QA worker submits its plan, which ends its task, then runs the
  cases, and then uploads their report, which is refused because the task is no
  longer RUNNING. Its README promises persisted evidence. Nothing has to fail for
  it: no session of the QA can end with code 0 or 2. Uploading before the
  submission, or submitting the report as a part of the outcome, removes it.

## 6. Known deviations, without a run of their own

Met while modelling, and shown by the modules with the change named.

* A task left RUNNING by a crash, or by a failure to record its exit, is never
  claimed, retried or failed: `EveryTaskSettles` fails in `MCLiveness` with
  `MaxCrashes = 1`. `docs/ORQUESTRADOR.md:335` describes a reconciler, of which
  the code has none.
* The log of a PO's run does not replay: `AGENT_STARTED` and `AGENT_FAILED` of dev
  tasks are recorded without driving the run, and a PO's output is taken from a
  FAILED run. `LogIsAuditable` fails in `MCPoFlow`; compare `event_store.py:53-55`.
* A read of the stream that fails loses the cursor of the attempt, so frames are
  asked for again, although `control-panel/README.md:45-46` has the greatest
  sequence accepted as the next cursor. `ResumesFromLast` fails in `EventStream`;
  `RefinesFeed` shows that the timeline does not notice.
* Answers about the run are taken as they arrive, and an older one that arrives
  last stays. `SummarySettles` fails in `EventStream`, also without breaks and failing
  requests (`MaxBreaks = 0`, `RefreshMayFail = FALSE`); comparing `updated_at` in
  `App.tsx:72` would remove it.
* An event whose actor the contract does not know is committed and never shown, and
  nor is any event after it. `tasks.py:255` and `worker_failures.py:67` record the role
  of the task as the actor, and `EventActor` (`common_schema.py:57-63`) has neither
  `llm`, which `config.py:180-183` accepts as `INITIAL_TASK_ROLE`, nor `fake`.
  `encode_event` then raises (`stream.py:87`), the client reconnects with the same
  cursor and meets the event again, for ever; the run shown is not refreshed either,
  because only events cause that. `control-api/README.md:65-67` says the stream avoids
  loss, `docs/ORQUESTRADOR.md:361` and `:419` that a reconnection loses no event.
  `EveryEventIsShown` of `EventStream` is that claim; TLC finds it violated when it is
  put in the place of `EveryEncodableEventIsShown`, which says what remains true.
* A second delivery of a dev task under another key is accepted, whatever the state
  of the task; the conflict of a reused key is a 500 there (`dev_outputs.py:50`).
* A crash between the file and the index makes every retry of that write a conflict
  (`store.py:212-215`), for ever.
* `rename` onto a directory that is not empty fails with ENOTEMPTY on Linux, which
  is no `FileExistsError`: the loser of a race gets an OSError (`manager.py:275`,
  `344`), the answer `oserror` of `Workspaces`. Nothing is lost.
* A creator that dies after the rename leaves a snapshot that is not read-only
  (`manager.py:278`), and one that is killed a temporary directory.
* A command that times out leaves alive what has left its group; a descendant that
  keeps a pipe open makes `execute` wait without limit (`executor.py:288`), the
  second disjunct of `ExecuteReturns`.
* Between the validators: ids of criteria are not compared before the unique key
  refuses them, ids of stories and criteria have no greatest length before
  `String(32)` does (`models.py:270`, `284-285`), and a NUL passes every check and no
  column (500 after a paid call each); `worker_contracts.py` wants them unique in
  the backlog, while the prompt of the PO numbers them from AC-001 per story
  (`po_worker.py:107`); it also refuses every delivery the endpoint takes, whose
  evidence is NOT_RUN. `packages/contracts/README.md:59` says the server checks
  these invariants; the endpoints do not call them.
* The Dev's decision may have a title and consequences of 2000 characters each in the
  schema given to the model (`dev_worker.py:40-41`); the delivery takes 200 and 1000
  (`dev_delivery_schema.py:87`, `78-79`), and answers 422 after the model call, the
  commit and the uploads. Nor does the Dev worker validate the answer against that
  schema at all, as the other two do, and a NUL in the decision is refused by the
  event table with 500.
* Two generated files of one path leave one file in the archive and two entries in
  the manifest (`dev_worker.py:139-140`).
* The QA worker checks its allowlist when it runs a case, after the plan was
  accepted (`qa_worker.py:168`).
* A model call whose transaction is lost after the provider answered has no row,
  and is in no sum; the worker then gives up, which is why `UsageIsComplete` holds
  of accepted outcomes.

## 7. Proofs

The theorems about `ControlPlane` are about its `Spec` and hold for every number of runs, stories, loops,
keys, callbacks and crashes, every role and mode and every set of faults that
satisfy the named assumptions of `ControlPlane`.

`ControlPlaneProofs` proves six theorems.

* `TypeCorrect`. `TypeOK` is inductive: it includes that a loop that is not idle has
  a task, without which the type of `log` would not be preserved by the scheduler's
  steps. There is one lemma per action or group of actions that change the same
  variables, and `StepType` combines them.
* `WorkersAreWaitedFor`, for any number of loops: some loop waits for every worker
  that runs (`Waited`). A worker is started by the step that makes its loop wait, and
  a loop leaves its wait only with the exit of its worker or by stopping it. The
  hypotheses are those the claim needs: after a crash, or a stop that failed and was
  swallowed, a worker runs on that nobody waits for. `OneLoopOneWorker` is the case of
  one loop, as `MCPoFlow` checks it; two loops do run two workers.
* `StartedOnce`. A state with one start per task could still have a loop about to
  record a second, so `StartInv` says where a start comes from. The *claimed* tasks,
  RUNNING or terminal, only grow. A token, a call, a busy loop and a recorded start all
  belong to a claimed task; no two loops have the same one; the task of a loop that
  has yet to record its start has none in any log. A claim needs a task that is still
  queued, so it meets none of these. The step that could break this is the PO's
  output, which sets story tasks to WAITING: it is harmless because such tasks exist
  only once their run has a backlog (`QueuedForAReason`), and a run has one backlog.
  `Frame` says which changes keep `StartInv`; the lemma of each action shows that it
  makes no others, except for the claim and the recorded start, which have their own
  proofs. The theorem does not need the guard on `container_id`: the claim of the row
  is enough.
* `EffectsHaveCauses`. `CauseInv` follows a recorded start to the loop that may start
  the worker, to the worker that may call back, and to the call that may be committed
  after its worker or the process that started it is gone; each of them belongs to a
  task whose start is in the log. The log only grows (`GrownLog`), and an outcome that
  is appended names the task of its call.
* `StartsAreAccepted`. `AcceptInv` adds `Unmoved`: until its first task is claimed,
  and while the loop that claimed it has yet to record the start, a run is in the
  state its creation left it in, because no callback comes before a start and nothing
  else moves the run.

`LogProofs` proves seven theorems about what a reader of the log can rely on.
Four of them are about runs that one worker does. Their hypothesis,
`InitialRole # "po"`, is the configuration the claims are about: with a PO the log
grows after `RUN_FAILED`, since dev tasks go on, and their starts and failures are
recorded without driving the run, so the table does not replay them.

* `LoneInv` carries them: every callback was submitted by a worker of its task's role
  (`Submitted`), there is no backlog, and a first task that succeeded has completed its
  run (`SuccessCompletes`). From it `ClosedRunsStayClosed`, an action property: in a
  terminal run the task is terminal or its outcome is refused by the table.
  `FailureIsNoSuccess` is `SuccessCompletes` read backwards.
* `LedgerImplemented` maps every step to one entry of `RunLedger`, to a creation, or to
  a stutter: `Entered` says that what a transaction appends is one of four `Entries`,
  driven by its first event, and the history of the ledger is the types of the log.
* `LogsAreAuditable` is about `Audited`, a function defined by recursion on the length
  of the log. That such a function exists is itself proved (`AuditsExist`): the least
  length without one would have one. The audit of a log goes on where that of its
  prefix ended (`AuditedStep`), and every entry the ledger accepts moves it to the
  state of the run.
* `StoriesAreQueuedOnce` holds in every configuration. `FrozenOnce` says that a story
  task exists exactly if one event freezes it and one place of the queue holds it,
  `QueuedInOrder` that the two orders agree. `Placed` says what the PO's output does to
  both, and uses `Submitted`: a backlog names each story once.
* `OutcomesAreRecordedOnce`: an outcome in the log has its answer under some key of its
  task (`Answered`), so a repetition under the same key is answered and not recorded.
  Its hypothesis is that a task has one key, as in `MCCrash` and in the code, where the
  key is derived from the task (`agent-worker/worker.py:180`) and what is submitted
  (`po_worker.py:87`, `dev_worker.py:86`). For a first task the state of the run is a
  second guard; for a delivery of a Dev there is none, and two keys would record two.
* `DevsStartAsFrozen`, with one loop, which may crash: the order of the freeze events
  goes through the queue (`QueuedInOrder`) to the claims and from there to the recorded
  starts, because the loop records a start before it claims the next (`Ordered`). With
  two loops a later task may overtake between claim and record.

`EventStreamProofs` proves `TimelineIsTheLog == Spec => RefinesFeed` for every
page size, length of the log and number of breaks, whichever events cannot be
encoded. That the timeline is a prefix
is not inductive: a frame could leave a gap. `StreamInv` says that the wire starts
right after the client's cursor and ends at the server's, or before it once the
generator has raised, that the page starts
right after the server's, and that neither cursor of the client is ahead of the
last event shown. A frame is then either shown already or the next, and
`AddToPrefix` says what `addEvent` does in both cases.

`IdempotencyProofs` proves `OnceImplemented == Spec => RefinesOnce` and
`NeverInFlight == Spec => []InFlightIsNeverSeen` for any number of requests, keys,
payloads and connections. `KeyInv` says that a request between its claim and its
commit holds its key and that the key has no row yet, and that a row is there
exactly when one effect is, with its payload and its answer. The commit is the
step that takes effect; the reading of a row is the repetition; every other step
of a handler changes nothing of the abstract state. It follows that the branch of
`claim` for a request "em voo" (`idempotency.py:87`) is never taken: a repetition
waits in the insert instead.

Its `TypeCorrect` needs `PoolInv`: that the transactions open are at most the
connections is preserved by every step that opens one because `Checkout` counts
them, and by the others because a finite set only shrinks. In `EventStreamProofs`,
`PanelInv` adds the panel's own variables and the length of the page to what
`StreamInv` says of the cursors.

`ArtifactProofs` proves five theorems for any callers, paths, contents, metadata,
crashes and failures. The inductive invariant has six parts. `Locked`: a call past
its entry holds the lock, which makes it the only one. `Working`: at each of its stages
the path of the call has no index yet, and the file and record it has written, so
that a compensation never removes what somebody was given. `Indexed`: the index
never leads to nothing. `HandedOutIsIndexed` binds what was returned to
the index, which is never changed once set; `HandedOutIsReadable` follows.
`NoStrayRecord` and `NoStrayFile` say whose the records and files out of the index
are while no crash has come. `ImplementsWriteOnce` maps the write of the index to
`Bind`, `Return` and a repetition to `HandOut`, and every other step to a stutter.

`WorkspaceProofs` proves four. `CallTypes` and `DiskTypes` are the types, `Short`
that a scan never runs past the files, `Named` what a creator in each stage wants:
one that renames a snapshot has scanned what it wants, one that renames a workspace
has the files of the snapshot of that name. With these `SnapshotIsExact` and
`WorkspaceIsItsSnapshot` are inductive; `WorkIsNeverLost` follows from the guard of
the rename and the second of them, since what is given exists.

`ToolProofs` proves three. `Budget` is the heart: while some budget remains nothing
was cut, so each stream has kept all it has taken; when nothing remains, no chunk
adds a byte. `Ends` says that a stream at its end has no writer left, so that what
it took is what was written. `TimeoutKillsTheGroup` is inductive as it stands,
because only a living member of the group adds one.

`WorkerSessionProofs` proves that the search for cycles is right, and every safety
property of `WorkerSession`.

* `SearchIsRight`: for every list of stories, with ids that repeat and dependencies
  that do not exist, `HasCycle` holds exactly if `DependsOnItself` does. The prover
  knows of a recursive function only that CHOOSE picked it, so the proof begins with
  termination: a call enters a node that is neither on the path nor done, so fewer are
  `Left` for the calls it makes, and every search that comes back is `Beyond` the one
  that was given. Hence a function that visits as the code does exists level by level
  (`VisitsExist`), and the one of the model is one of them (`VisitUnfolds`). Then
  correctness, along the same levels: `Sound` says that what is visited is off the path,
  leads only to what is visited and holds no circle, `PathTo` that every node of the
  path leads to another or to the node to visit. A node that is met on the path makes
  the path a circle; a node that is left after all it leads to closes none
  (`AddVisited`); and when no cycle is reported everything is visited. The inductions
  are least counterexamples in Nat, since the theorems of the library that take an
  operator cannot be used.
* `CopiesOfChecksAgree`, from `SearchIsRight` for the backlog (the contract's check
  that no story names itself is implied by the search) and directly for plan and
  delivery.
* `SessionTypeCorrect` and `UsageComplete` from `SpendInv`: a session that has not ended
  has a row for every call paid for, waits for at most one, and pays before the next
  repair. A row that is lost ends the worker before it submits.
* `SubmissionTaken` from `Judged`: what is uploaded and submitted is an answer of the
  model that passed the checks of the worker; criteria that differ when they are
  stripped differ as they are. For the Dev the limits are compared: what keeps the
  schema asked for is within every limit of the delivery but two (`DeliveryIsTaken`).
* `MadeStored` from `StoreInv`, one part per role. Of the QA's files all are stored but
  the one under way (`Pending`); a path that is written twice with two contents is
  refused by the store, and the worker gives up. The Dev uploads archive and manifest,
  in this order, of files that are all `Written` with a content the manifest lists.

They rest on named assumptions about the constants: the roles are the three modelled, no
number or verdict is called `None`, and a backlog and the files of a Dev are lists, as
JSON has them.

Left to TLC are the liveness properties (`EveryTaskSettles`, `EveryRunSettles`,
`EveryEncodableEventIsShown`, `EveryRequestIsAnswered`, `ExecuteReturns`, `WorkerEnds`), since
TLAPS does not do fairness. Every invariant, action property and refinement a passing
run checks is the conclusion of a theorem; the three hypotheses named above (one worker
does the run, one key per task, one loop without crashes or failing kills) are those of
the runs that check them or weaker.

## 8. Plan

Done: every component of section 1 that is modelled, checked; every safety property,
action property and refinement of the runs, proved.

Next, in this order:

1. What holds of the log of a run with a PO: which of its events the table does not
   replay, and that those are the only ones (an audit that passes over the starts and
   failures of dev tasks).
2. `WorkersAreWaitedFor` with crashes: the workers nobody waits for are those of
   attempts that a crash cut off.

Not modelled, and why: the model providers (I/O and formatting of external
services); routing and credentials of the gateway (configuration); prompts, git and
the packing of archives in the workers (I/O); `derive_runner_verdict`,
`freeze_po_handoffs`, `validate_plan` and `workspace.py` of the Dev's library
(nothing in the repository calls them outside tests); the dispatch of a QA task
(nothing creates one); the components of the panel that only render; generated
schemas, migrations and deployment.
