----------------------------- MODULE ControlPlane -----------------------------
(***************************************************************************)
(* The control-api as a concurrent system: runs and their event logs, the  *)
(* task queue, the scheduler loops that start one worker per task, the     *)
(* workers, and the callbacks the workers make.                            *)
(*                                                                         *)
(* Every transaction that changes a run takes the run's row lock, so what  *)
(* it does from the lock to its commit is one action here.  What it READS  *)
(* BEFORE the lock is a step of its own: callbacks authenticate against an *)
(* unlocked task row, and the scheduler reads the task before it locks the *)
(* run.  Those snapshots are kept in "seen" and used later, as in the code.*)
(***************************************************************************)
EXTENDS RunMachine, FiniteSets

CONSTANTS
  Runs,          \* runs clients may create
  Stories,       \* stories a backlog may freeze
  First,         \* stands for "no story": names the first task of a run
  NoTask,        \* the absent task id
  InitialRole,   \* settings.initial_task_role
  DevMode,       \* settings.dev_worker_mode
  Schedulers,    \* scheduler loops sharing the database
  Backlogs,      \* the sequences of ready stories a PO may deliver
  Keys,          \* idempotency keys a worker may use for its task
  MaxCalls,      \* bound: callbacks per worker
  MaxCrashes,    \* bound: crashes of the control-api process
  Faults         \* which failures the environment may cause

ASSUME RolesAssumption == InitialRole \in {"fake", "llm", "po"}
ASSUME DevModeAssumption == DevMode \in {"local", "container"}
ASSUME FirstAssumption == First \notin Stories
ASSUME NoTaskAssumption == NoTask \notin Runs \X (Stories \union {First})
ASSUME BacklogsAssumption ==
  /\ Backlogs \subseteq Seq(Stories)
  /\ \A b \in Backlogs : \A i, j \in DOMAIN b : b[i] = b[j] => i = j
ASSUME BoundsAssumption == MaxCalls \in Nat /\ MaxCrashes \in Nat
ASSUME FaultsAssumption == Faults \subseteq {"runtime", "kill", "db"}

Tasks == Runs \X (Stories \union {First})

RunOf(t) == t[1]
FirstTask(r) == <<r, First>>
RoleOf(t) == IF t[2] = First THEN InitialRole ELSE "dev"

\* The dev worker is a child process of the control-api instead of a container.
RunsLocally(t) == RoleOf(t) = "dev" /\ DevMode = "local"

TerminalTask == {"SUCCEEDED", "FAILED", "TIMED_OUT"}
TaskStates == {"ABSENT", "PENDING", "WAITING", "RUNNING"} \union TerminalTask

ExecutionStates == {"NONE", "STARTING", "RUNNING", "EXITED", "TIMED_OUT", "FAILED"}

EventTypes == {"RUN_CREATED", "BRIEFING_RECEIVED", "TASK_QUEUED", "AGENT_STARTED",
               "FAKE_WORKER_COMPLETED", "RUN_COMPLETED", "AGENT_FAILED", "RUN_FAILED",
               "STORY_FROZEN", "PO_COMPLETED", "DEV_TASK_PLAN_CREATED", "CODE_DELIVERED"}

\* An event of a log.  STORY_FROZEN carries the dev task of its payload.
Event(type, t) == [type |-> type, task |-> t]
Events == [type : EventTypes, task : Tasks \union {NoTask}]

VARIABLES
  runState,    \* runs.state, "ABSENT" before the row exists
  log,         \* the rows of events, by sequence
  taskState,   \* agent_tasks.state, "ABSENT" before the row exists
  token,       \* agent_tasks.token_hash is set
  lease,       \* locked_at + timeout_seconds against the clock
  queue,       \* the tasks in order of available_at
  execution,   \* state of the row of agent_executions for (task, attempt 1)
  container,   \* its container_id is set
  pc, job,     \* each scheduler loop: where it is, the task it claimed,
  exit, seen,  \* how the worker ended, the task state it read
  worker,      \* the container or process of each task
  acked,       \* the worker received a 2xx answer to a callback
  sent,        \* callbacks the worker has made
  calls,       \* callbacks the control-api authenticated and not yet settled
  answered,    \* idempotency_keys: the payload recorded under each key
  crashes      \* crashes so far

vars == <<runState, log, taskState, token, lease, queue, execution, container,
          pc, job, exit, seen, worker, acked, sent, calls, answered, crashes>>

runVars == <<runState, log>>
taskVars == <<taskState, token, lease, queue>>
executionVars == <<execution, container>>
loopVars == <<pc, job, exit, seen>>
workVars == <<worker, acked, sent>>
httpVars == <<calls, answered>>

Pcs == {"idle", "claimed", "created", "recorded", "waiting",
        "finishing", "finish_read", "failing", "fail_read"}

Exits == {"none", "exit0", "exit1", "timeout"}

(***************************************************************************)
(* What a worker of each role submits, and the route it submits it to.     *)
(* "stories" are the ready stories of a PO output, empty for other roles.  *)
(***************************************************************************)
Route(t) == CASE RoleOf(t) \in {"fake", "llm"} -> "outputs"
              [] RoleOf(t) = "po" -> "po-output"
              [] OTHER -> "dev-delivery"

Payload(status, stories) == [status |-> status, stories |-> stories]

Payloads == [status : {"SUCCEEDED", "FAILED", "READY_FOR_QA"}, stories : Seq(Stories)]

Submissions(t) ==
  CASE Route(t) = "outputs" -> {Payload("SUCCEEDED", <<>>), Payload("FAILED", <<>>)}
    [] Route(t) = "po-output" -> {Payload("SUCCEEDED", b) : b \in Backlogs}
    [] OTHER -> {Payload("READY_FOR_QA", <<>>), Payload("FAILED", <<>>)}

NoPayload == Payload("none", <<>>)

Routes == {"outputs", "po-output", "dev-delivery", "failure"}

Calls == [task : Tasks, n : 1 .. MaxCalls, route : Routes, key : Keys,
          payload : Payloads, seen : TaskStates]
-----------------------------------------------------------------------------
Init ==
  /\ runState = [r \in Runs |-> "ABSENT"]
  /\ log = [r \in Runs |-> <<>>]
  /\ taskState = [t \in Tasks |-> "ABSENT"]
  /\ token = [t \in Tasks |-> FALSE]
  /\ lease = [t \in Tasks |-> "none"]
  /\ queue = <<>>
  /\ execution = [t \in Tasks |-> "NONE"]
  /\ container = [t \in Tasks |-> FALSE]
  /\ pc = [s \in Schedulers |-> "idle"]
  /\ job = [s \in Schedulers |-> NoTask]
  /\ exit = [s \in Schedulers |-> "none"]
  /\ seen = [s \in Schedulers |-> "ABSENT"]
  /\ worker = [t \in Tasks |-> "none"]
  /\ acked = [t \in Tasks |-> FALSE]
  /\ sent = [t \in Tasks |-> 0]
  /\ calls = {}
  /\ answered = [t \in Tasks |-> [k \in Keys |-> NoPayload]]
  /\ crashes = 0
-----------------------------------------------------------------------------
(***************************************************************************)
(* The event store, under the run lock: events are appended, and at most   *)
(* one of them drives the run through the table.                           *)
(***************************************************************************)
AppendEvents(r, events) ==
  /\ log' = [log EXCEPT ![r] = @ \o events]
  /\ UNCHANGED runState

\* Mutation: the event that should drive the run is only recorded.
AppendWithoutDriving(r, events, event) ==
  /\ log' = [log EXCEPT ![r] = @ \o events]
  /\ UNCHANGED runState

AppendDriving(r, events, event) ==
  /\ log' = [log EXCEPT ![r] = @ \o events]
  /\ runState' = [runState EXCEPT ![r] = NextState(runState[r], event)]

\* POST /runs: the run, its first task and the first three events, at once.
CreateRun(r) ==
  /\ runState[r] = "ABSENT"
  /\ runState' = [runState EXCEPT ![r] = NextState(InitialState, "TASK_QUEUED")]
  /\ log' = [log EXCEPT ![r] = @ \o << Event("RUN_CREATED", NoTask),
                                       Event("BRIEFING_RECEIVED", NoTask),
                                       Event("TASK_QUEUED", FirstTask(r)) >>]
  /\ taskState' = [taskState EXCEPT ![FirstTask(r)] = "PENDING"]
  /\ queue' = Append(queue, FirstTask(r))
  /\ UNCHANGED <<token, lease, executionVars, loopVars, workVars, httpVars, crashes>>
-----------------------------------------------------------------------------
(***************************************************************************)
(* The scheduler: dispatch_next, one transaction or runtime call at a time *)
(***************************************************************************)
Go(s, to) == pc' = [pc EXCEPT ![s] = to] /\ UNCHANGED <<job, exit, seen>>

Rest(s) ==
  /\ pc' = [pc EXCEPT ![s] = "idle"]
  /\ job' = [job EXCEPT ![s] = NoTask]
  /\ exit' = [exit EXCEPT ![s] = "none"]
  /\ seen' = [seen EXCEPT ![s] = "ABSENT"]

\* Mutation: the newest task of the state is taken.
Newest(t, state) ==
  \E i \in DOMAIN queue :
    /\ queue[i] = t /\ taskState[t] = state
    /\ \A j \in DOMAIN queue : taskState[queue[j]] = state => i >= j

\* t is the first task of the queue in this state.
Oldest(t, state) ==
  \E i \in DOMAIN queue :
    /\ queue[i] = t /\ taskState[t] = state
    /\ \A j \in DOMAIN queue : taskState[queue[j]] = state => i <= j

\* Mutation: a task that another loop is running may be claimed too.
ClaimableTwice(t) == Oldest(t, "PENDING") \/ Oldest(t, "RUNNING")

\* PENDING tasks first; a WAITING dev task only when there is none.  The state
\* of the task's run is not looked at.
Claimable(t) ==
  \/ Oldest(t, "PENDING")
  \/ /\ RoleOf(t) = "dev" /\ Oldest(t, "WAITING")
     /\ \A u \in Tasks : taskState[u] # "PENDING"

\* Mutation: a RUNNING task is recovered without looking at its execution.
ClaimWithoutExecution(s, t) ==
  /\ pc[s] = "idle" /\ (Claimable(t) \/ taskState[t] = "RUNNING")
  /\ taskState' = [taskState EXCEPT ![t] = "RUNNING"]
  /\ lease' = [lease EXCEPT ![t] = "fresh"]
  /\ token' = [token EXCEPT ![t] = TRUE]
  /\ execution' = [execution EXCEPT ![t] = "STARTING"]
  /\ pc' = [pc EXCEPT ![s] = "claimed"]
  /\ job' = [job EXCEPT ![s] = t]
  /\ UNCHANGED <<runVars, queue, container, exit, seen, workVars, httpVars, crashes>>

\* A task whose execution already has a container gets no second one: the loop
\* returns to idle and the task stays RUNNING.
Claim(s, t) ==
  /\ pc[s] = "idle" /\ Claimable(t)
  /\ taskState' = [taskState EXCEPT ![t] = "RUNNING"]
  /\ lease' = [lease EXCEPT ![t] = "fresh"]
  /\ IF container[t]
     THEN UNCHANGED <<token, execution, pc, job>>
     ELSE /\ token' = [token EXCEPT ![t] = TRUE]
          /\ execution' = [execution EXCEPT ![t] = IF @ = "NONE" THEN "STARTING" ELSE @]
          /\ pc' = [pc EXCEPT ![s] = "claimed"]
          /\ job' = [job EXCEPT ![s] = t]
  /\ UNCHANGED <<runVars, queue, container, exit, seen, workVars, httpVars, crashes>>

\* Mutation: the wait gives up on the worker and leaves it running.
AbandonWorker(t) == UNCHANGED worker

\* Killing or removing a container; a failure to do so is swallowed.
StopWorker(t) ==
  \/ worker' = [worker EXCEPT ![t] = "killed"]
  \/ "kill" \in Faults /\ UNCHANGED worker

CreateContainer(s) ==
  LET t == job[s] IN
  /\ pc[s] = "claimed" /\ ~RunsLocally(t)
  /\ worker' = [worker EXCEPT ![t] = "created"]
  /\ Go(s, "created")
  /\ UNCHANGED <<runVars, taskVars, executionVars, acked, sent, httpVars, crashes>>

CreateFails(s) ==
  /\ "runtime" \in Faults
  /\ pc[s] = "claimed" /\ ~RunsLocally(job[s])
  /\ Go(s, "failing")
  /\ UNCHANGED <<runVars, taskVars, executionVars, workVars, httpVars, crashes>>

ReadyToRecord(s) ==
  \/ pc[s] = "claimed" /\ RunsLocally(job[s])
  \/ pc[s] = "created"

\* Mutation: the role of the first worker is looked up in a list without "fake".
DrivesIfReal(t) == RoleOf(t) \in {"po", "llm"}

\* Only the first worker of a run moves the run.
Drives(t) == RoleOf(t) \in {"fake", "po", "llm"}

\* The transaction of AGENT_STARTED, committed before the worker runs.
RecordStarted(s) ==
  LET t == job[s]
      started == <<Event("AGENT_STARTED", t)>>
  IN
  /\ ReadyToRecord(s)
  /\ execution' = [execution EXCEPT ![t] = "RUNNING"]
  /\ container' = [container EXCEPT ![t] = TRUE]
  /\ IF Drives(t)
     THEN /\ Accepts(runState[RunOf(t)], "AGENT_STARTED")
          /\ AppendDriving(RunOf(t), started, "AGENT_STARTED")
     ELSE AppendEvents(RunOf(t), started)
  /\ Go(s, "recorded")
  /\ UNCHANGED <<taskVars, workVars, httpVars, crashes>>

\* Mutation: the worker runs as soon as its container exists.
StartBeforeRecord(s) ==
  LET t == job[s] IN
  /\ pc[s] = "recorded" \/ ReadyToRecord(s)
  /\ worker' = [worker EXCEPT ![t] = "running"]
  /\ Go(s, "waiting")
  /\ UNCHANGED <<runVars, taskVars, executionVars, acked, sent, httpVars, crashes>>

StartWorker(s) ==
  LET t == job[s] IN
  /\ pc[s] = "recorded"
  /\ worker' = [worker EXCEPT ![t] = "running"]
  /\ Go(s, "waiting")
  /\ UNCHANGED <<runVars, taskVars, executionVars, acked, sent, httpVars, crashes>>

StartFails(s) ==
  /\ "runtime" \in Faults
  /\ pc[s] = "recorded"
  /\ IF RunsLocally(job[s]) THEN UNCHANGED worker ELSE StopWorker(job[s])
  /\ Go(s, "failing")
  /\ UNCHANGED <<runVars, taskVars, executionVars, acked, sent, httpVars, crashes>>

WaitExit(s) ==
  LET t == job[s] IN
  /\ pc[s] = "waiting" /\ worker[t] \in {"exit0", "exit1"}
  /\ pc' = [pc EXCEPT ![s] = "finishing"]
  /\ exit' = [exit EXCEPT ![s] = worker[t]]
  /\ UNCHANGED <<runVars, taskVars, executionVars, job, seen, workVars, httpVars, crashes>>

\* The wait starts after the claim and lasts as long as a lease, so a lease that
\* no heartbeat renewed has expired by the time the wait ends.
WaitTimeout(s) ==
  LET t == job[s] IN
  /\ pc[s] = "waiting" /\ worker[t] = "running"
  /\ lease[t] # "fresh"
  /\ StopWorker(t)
  /\ pc' = [pc EXCEPT ![s] = "finishing"]
  /\ exit' = [exit EXCEPT ![s] = "timeout"]
  /\ UNCHANGED <<runVars, taskVars, executionVars, job, seen, acked, sent, httpVars, crashes>>

WaitFails(s) ==
  LET t == job[s] IN
  /\ "runtime" \in Faults
  /\ pc[s] = "waiting" /\ ~RunsLocally(t)
  /\ StopWorker(t)
  /\ Go(s, "failing")
  /\ UNCHANGED <<runVars, taskVars, executionVars, acked, sent, httpVars, crashes>>

\* The task row is read before the run lock is requested.
ReadTask(s, from, to) ==
  /\ pc[s] = from
  /\ pc' = [pc EXCEPT ![s] = to]
  /\ seen' = [seen EXCEPT ![s] = taskState[job[s]]]
  /\ UNCHANGED <<runVars, taskVars, executionVars, job, exit, workVars, httpVars, crashes>>

\* Mutation: the compensation forgets the task.
CompensateRunOnly(s, outcome) ==
  LET t == job[s]
      r == RunOf(t)
  IN
  /\ UNCHANGED <<taskState, token>>
  /\ IF Accepts(runState[r], "AGENT_FAILED")
     THEN AppendDriving(r, <<Event("AGENT_FAILED", t)>>, "AGENT_FAILED")
     ELSE UNCHANGED runVars

\* Mutation: the compensation forgets the run.
CompensateTaskOnly(s, outcome) ==
  /\ taskState' = IF seen[s] = "RUNNING" THEN [taskState EXCEPT ![job[s]] = outcome]
                                         ELSE taskState
  /\ token' = [token EXCEPT ![job[s]] = @ /\ seen[s] # "RUNNING"]
  /\ UNCHANGED runVars

\* What both compensations do under the run lock, with the task as read before.
Compensate(s, outcome) ==
  LET t == job[s]
      r == RunOf(t)
  IN
  /\ IF seen[s] = "RUNNING"
     THEN /\ taskState' = [taskState EXCEPT ![t] = outcome]
          /\ token' = [token EXCEPT ![t] = FALSE]
     ELSE UNCHANGED <<taskState, token>>
  /\ IF Accepts(runState[r], "AGENT_FAILED")
     THEN AppendDriving(r, <<Event("AGENT_FAILED", t)>>, "AGENT_FAILED")
     ELSE UNCHANGED runVars

ReadFinished(s) == ReadTask(s, "finishing", "finish_read")

\* Mutation: the ending itself is written as the outcome.
RawOutcome(ending) == ending

Outcome(ending) == IF ending = "timeout" THEN "TIMED_OUT" ELSE "FAILED"

RecordFinished(s) ==
  /\ pc[s] = "finish_read"
  /\ execution' = [execution EXCEPT ![job[s]] =
                     IF exit[s] = "exit0" THEN "EXITED" ELSE Outcome(exit[s])]
  /\ IF exit[s] = "exit0" THEN UNCHANGED <<runVars, taskState, token>>
                          ELSE Compensate(s, Outcome(exit[s]))
  /\ Rest(s)
  /\ UNCHANGED <<lease, queue, container, workVars, httpVars, crashes>>

ReadFailing(s) == ReadTask(s, "failing", "fail_read")

RecordRuntimeFailure(s) ==
  LET t == job[s] IN
  /\ pc[s] = "fail_read"
  /\ execution' = [execution EXCEPT ![t] = "FAILED"]
  /\ container' = [container EXCEPT ![t] = @ \/ worker[t] # "none"]
  /\ Compensate(s, "FAILED")
  /\ Rest(s)
  /\ UNCHANGED <<lease, queue, workVars, httpVars, crashes>>

\* A transaction of the scheduler fails.  In container mode AGENT_STARTED is
\* written inside the try block and the exit outside it; in local mode it is the
\* other way round.  Outside, the loop swallows the exception and goes on.
TransactionFails(s) ==
  LET t == job[s] IN
  /\ "db" \in Faults
  /\ \/ ReadyToRecord(s)
     \/ pc[s] \in {"finish_read", "fail_read"}
  /\ IF \/ pc[s] = "created"
        \/ pc[s] = "finish_read" /\ RunsLocally(t)
     THEN Go(s, "failing")
     ELSE Rest(s)
  /\ IF pc[s] = "created" THEN StopWorker(t) ELSE UNCHANGED worker
  /\ UNCHANGED <<runVars, taskVars, executionVars, acked, sent, httpVars, crashes>>

SchedulerStep(s) ==
  \/ \E t \in Tasks : Claim(s, t)
  \/ CreateContainer(s) \/ CreateFails(s)
  \/ RecordStarted(s)
  \/ StartWorker(s) \/ StartFails(s)
  \/ WaitExit(s) \/ WaitTimeout(s) \/ WaitFails(s)
  \/ ReadFinished(s) \/ RecordFinished(s)
  \/ ReadFailing(s) \/ RecordRuntimeFailure(s)
  \/ TransactionFails(s)
-----------------------------------------------------------------------------
(***************************************************************************)
(* Leases and the workers, which reach the control-api only by HTTP.       *)
(***************************************************************************)
LeaseExpires(t) ==
  /\ lease[t] \in {"fresh", "renewed"}
  /\ lease' = [lease EXCEPT ![t] = "expired"]
  /\ UNCHANGED <<runVars, taskState, token, queue, executionVars, loopVars, workVars,
                 httpVars, crashes>>

\* _authenticate: a callback of an output may come from a terminal task, so that
\* a repetition can be answered.
Authenticated(t, terminalReplay) ==
  /\ token[t]
  /\ lease[t] \in {"fresh", "renewed"}
  /\ terminalReplay \/ taskState[t] = "RUNNING"

\* Of the workers, only the PO's renews its lease, before each model call.
Heartbeat(t) ==
  /\ RoleOf(t) = "po"
  /\ worker[t] = "running" /\ Authenticated(t, FALSE)
  /\ lease' = [lease EXCEPT ![t] = "renewed"]
  /\ UNCHANGED <<runVars, taskState, token, queue, executionVars, loopVars, workVars,
                 httpVars, crashes>>

\* A callback arrives and is authenticated; the task row is not locked.
Arrive(t, route, key, payload) ==
  /\ worker[t] = "running" /\ sent[t] < MaxCalls
  /\ Authenticated(t, route # "failure")
  /\ sent' = [sent EXCEPT ![t] = @ + 1]
  /\ calls' = calls \union
       {[task |-> t, n |-> sent[t] + 1, route |-> route, key |-> key,
         payload |-> payload, seen |-> taskState[t]]}
  /\ UNCHANGED <<runVars, taskVars, executionVars, loopVars, worker, acked, answered, crashes>>

Submit(t) == \E key \in Keys, payload \in Submissions(t) :
               Arrive(t, Route(t), key, payload)

ReportFailure(t) == \E key \in Keys : Arrive(t, "failure", key, Payload("FAILED", <<>>))

\* Every worker exits 0 only after a 2xx answer, and 1 on any error.
WorkerExits(t) ==
  /\ worker[t] = "running"
  /\ \E code \in {"exit0", "exit1"} :
       /\ code = "exit0" => acked[t]
       /\ worker' = [worker EXCEPT ![t] = code]
  /\ UNCHANGED <<runVars, taskVars, executionVars, loopVars, acked, sent, httpVars, crashes>>
-----------------------------------------------------------------------------
(***************************************************************************)
(* The callbacks, from the idempotency claim to the commit.                *)
(***************************************************************************)
\* Mutation: the key of a callback is never looked up.
Unknown(c) == FALSE

Known(c) == c.route # "failure" /\ answered[c.task][c.key] # NoPayload

\* backlogs has one row per run.
HasBacklog(r) == \E i \in DOMAIN log[r] : log[r][i].type = "PO_COMPLETED"

\* Mutation: the status is compared with another contract's literal.
OutputEventOfDelivery(payload) ==
  IF payload.status = "READY_FOR_QA" THEN "FAKE_WORKER_COMPLETED" ELSE "AGENT_FAILED"

OutputEvent(payload) ==
  IF payload.status = "SUCCEEDED" THEN "FAKE_WORKER_COMPLETED" ELSE "AGENT_FAILED"

\* What each handler checks once it holds the run lock.
Acceptable(c) ==
  LET r == RunOf(c.task) IN
  CASE c.route = "outputs" -> Accepts(runState[r], OutputEvent(c.payload))
    [] c.route = "po-output" -> ~HasBacklog(r)
    [] c.route = "dev-delivery" -> TRUE
    [] c.route = "failure" -> Accepts(runState[r], "AGENT_FAILED")

Settle(c) == calls' = calls \ {c}

Acknowledge(c) == acked' = [acked EXCEPT ![c.task] = TRUE]

\* The same key with the same payload: the recorded answer.
Replay(c) ==
  /\ Known(c) /\ answered[c.task][c.key] = c.payload
  /\ Settle(c) /\ Acknowledge(c)
  /\ UNCHANGED <<runVars, taskVars, executionVars, loopVars, worker, sent, answered, crashes>>

\* The same key with another payload, or a check that fails: rolled back.
Refuse(c) ==
  /\ IF Known(c) THEN answered[c.task][c.key] # c.payload ELSE ~Acceptable(c)
  /\ Settle(c)
  /\ UNCHANGED <<runVars, taskVars, executionVars, loopVars, workVars, answered, crashes>>

Granted(c) == ~Known(c) /\ Acceptable(c)

Answer(c) ==
  /\ Settle(c) /\ Acknowledge(c)
  /\ answered' = [answered EXCEPT ![c.task][c.key] = c.payload]

\* The ORM writes the column only if it differs from what was read.
WriteTask(c, state) ==
  IF c.seen = state THEN taskState ELSE [taskState EXCEPT ![c.task] = state]

SubmitTaskOutput(c) ==
  LET event == OutputEvent(c.payload)
      ok == c.payload.status = "SUCCEEDED"
  IN
  /\ c.route = "outputs" /\ Granted(c) /\ Answer(c)
  /\ AppendDriving(RunOf(c.task),
       << Event(event, c.task),
          Event(IF ok THEN "RUN_COMPLETED" ELSE "RUN_FAILED", NoTask) >>, event)
  /\ taskState' = WriteTask(c, IF ok THEN "SUCCEEDED" ELSE "FAILED")
  /\ UNCHANGED <<token, lease, queue, executionVars, loopVars, worker, sent, crashes>>

\* Mutation: the last ready story is frozen without an event.
FrozenButLast(c, devs) ==
  [i \in 1 .. Len(devs) - 1 |-> Event("STORY_FROZEN", devs[i])]
    \o <<Event("PO_COMPLETED", c.task)>>

\* One STORY_FROZEN per ready story, then the end of the PO's work.
FrozenEvents(c, devs) ==
  [i \in DOMAIN devs |-> Event("STORY_FROZEN", devs[i])]
    \o <<Event("PO_COMPLETED", c.task)>>

\* Neither the run's state nor the task's is looked at.
SubmitPoOutput(c) ==
  LET r == RunOf(c.task)
      devs == [i \in DOMAIN c.payload.stories |-> <<r, c.payload.stories[i]>>]
      written == WriteTask(c, "SUCCEEDED")
  IN
  /\ c.route = "po-output" /\ Granted(c) /\ Answer(c)
  /\ AppendEvents(r, FrozenEvents(c, devs))
  /\ taskState' = [t \in Tasks |->
       IF \E i \in DOMAIN devs : devs[i] = t THEN "WAITING" ELSE written[t]]
  /\ queue' = queue \o devs
  /\ UNCHANGED <<token, lease, executionVars, loopVars, worker, sent, crashes>>

\* The AGENT_FAILED of a delivery is recorded without driving the run.
SubmitDevDelivery(c) ==
  LET ready == c.payload.status = "READY_FOR_QA" IN
  /\ c.route = "dev-delivery" /\ Granted(c) /\ Answer(c)
  /\ AppendEvents(RunOf(c.task),
       << Event("DEV_TASK_PLAN_CREATED", c.task),
          Event(IF ready THEN "CODE_DELIVERED" ELSE "AGENT_FAILED", c.task) >>)
  /\ taskState' = WriteTask(c, IF ready THEN "SUCCEEDED" ELSE "FAILED")
  /\ UNCHANGED <<token, lease, queue, executionVars, loopVars, worker, sent, crashes>>

ReportWorkerFailure(c) ==
  /\ c.route = "failure" /\ Granted(c) /\ Settle(c) /\ Acknowledge(c)
  /\ AppendDriving(RunOf(c.task), <<Event("AGENT_FAILED", c.task)>>, "AGENT_FAILED")
  /\ taskState' = WriteTask(c, "FAILED")
  /\ token' = [token EXCEPT ![c.task] = FALSE]
  /\ UNCHANGED <<lease, queue, executionVars, loopVars, worker, sent, answered, crashes>>

CallStep(c) ==
  \/ Replay(c) \/ Refuse(c)
  \/ SubmitTaskOutput(c) \/ SubmitPoOutput(c) \/ SubmitDevDelivery(c)
  \/ ReportWorkerFailure(c)
-----------------------------------------------------------------------------
\* The control-api process dies and comes back: the scheduler's local state and
\* the requests in flight are gone, the database and the containers stay.
Crash ==
  /\ crashes < MaxCrashes
  /\ crashes' = crashes + 1
  /\ pc' = [s \in Schedulers |-> "idle"]
  /\ job' = [s \in Schedulers |-> NoTask]
  /\ exit' = [s \in Schedulers |-> "none"]
  /\ seen' = [s \in Schedulers |-> "ABSENT"]
  /\ calls' = {}
  /\ UNCHANGED <<runVars, taskVars, executionVars, workVars, answered>>

WorkerStep(t) == Heartbeat(t) \/ Submit(t) \/ ReportFailure(t) \/ WorkerExits(t)

Next ==
  \/ \E r \in Runs : CreateRun(r)
  \/ \E s \in Schedulers : SchedulerStep(s)
  \/ \E t \in Tasks : LeaseExpires(t) \/ WorkerStep(t)
  \/ \E c \in calls : CallStep(c)
  \/ Crash

Spec == Init /\ [][Next]_vars

\* The loop polls for ever and each of its transactions and runtime calls ends;
\* the clock goes on.  Nothing is asked of clients, workers or requests.
Fairness ==
  /\ \A s \in Schedulers : WF_vars(SchedulerStep(s))
  /\ \A t \in Tasks : WF_vars(LeaseExpires(t))

FairSpec == Spec /\ Fairness
-----------------------------------------------------------------------------
(***************************************************************************)
(* Properties                                                              *)
(***************************************************************************)

\* Every variable holds a value of its type.
TypeOK ==
  /\ runState \in [Runs -> RunStates \union {"ABSENT"}]
  /\ log \in [Runs -> Seq(Events)]
  /\ taskState \in [Tasks -> TaskStates]
  /\ token \in [Tasks -> BOOLEAN]
  /\ lease \in [Tasks -> {"none", "fresh", "renewed", "expired"}]
  /\ queue \in Seq(Tasks)
  /\ execution \in [Tasks -> ExecutionStates]
  /\ container \in [Tasks -> BOOLEAN]
  /\ pc \in [Schedulers -> Pcs]
  /\ job \in [Schedulers -> Tasks \union {NoTask}]
  /\ \A s \in Schedulers : pc[s] # "idle" => job[s] \in Tasks
  /\ exit \in [Schedulers -> Exits]
  /\ seen \in [Schedulers -> TaskStates]
  /\ worker \in [Tasks -> {"none", "created", "running", "exit0", "exit1", "killed"}]
  /\ acked \in [Tasks -> BOOLEAN]
  /\ sent \in [Tasks -> 0 .. MaxCalls]
  /\ calls \subseteq Calls
  /\ answered \in [Tasks -> [Keys -> Payloads \union {NoPayload}]]
  /\ crashes \in 0 .. MaxCrashes

\* However many loops share the queue and however often the process dies, a
\* task's worker is started at most once (scheduler.py, get-or-create by attempt).
OneStart ==
  \A r \in Runs : \A i, j \in DOMAIN log[r] :
    /\ log[r][i].type = "AGENT_STARTED" /\ log[r][j].type = "AGENT_STARTED"
    /\ log[r][i].task = log[r][j].task
    => i = j

OutcomeEvents == {"FAKE_WORKER_COMPLETED", "PO_COMPLETED",
                  "DEV_TASK_PLAN_CREATED", "CODE_DELIVERED"}

\* No effect without a cause: what a callback put in the log comes after the
\* AGENT_STARTED of the same task (why create and start are separate).
OutcomeHasCause ==
  \A r \in Runs : \A i \in DOMAIN log[r] :
    log[r][i].type \in OutcomeEvents =>
      \E j \in 1 .. i - 1 : log[r][j] = Event("AGENT_STARTED", log[r][i].task)

\* The worker's start is never refused by the table: record_started, which has
\* already created the container, cannot raise InvalidTransition.
StartIsAccepted ==
  \A s \in Schedulers :
    pc[s] \in {"claimed", "created"} /\ Drives(job[s]) =>
      Accepts(runState[RunOf(job[s])], "AGENT_STARTED")

Types(r) == [i \in DOMAIN log[r] |-> log[r][i].type]

\* The log explains the state: an auditor who feeds it to the table reaches
\* runs.state and meets no impossible transition.
LogIsAuditable ==
  \A r \in Runs : runState[r] # "ABSENT" => Audited(Types(r)) = runState[r]

\* A run that reached a terminal state keeps it, and its log is closed.
TerminalIsFinal ==
  [][\A r \in Runs : runState[r] \in TerminalStates =>
       runState'[r] = runState[r] /\ log'[r] = log[r]]_vars

\* A failed run never shows a succeeded task, whichever of the worker's answer
\* and the scheduler's compensation came first.
FailedRunHasNoSuccess ==
  \A r \in Runs : runState[r] = "FAILED" => taskState[FirstTask(r)] # "SUCCEEDED"

\* The verdict of a task is its callback's, not its container's: in a completed
\* run the task that completed it is SUCCEEDED.
VerdictIsTheCallbacks ==
  \A r \in Runs : runState[r] = "COMPLETED" => taskState[FirstTask(r)] = "SUCCEEDED"

\* With one scheduler loop, no two workers run at the same time.
OneWorkerAtATime ==
  \A t, u \in Tasks : worker[t] = "running" /\ worker[u] = "running" => t = u

Frozen(t) == {i \in DOMAIN log[RunOf(t)] : log[RunOf(t)][i] = Event("STORY_FROZEN", t)}

Started(t) == {i \in DOMAIN log[RunOf(t)] : log[RunOf(t)][i] = Event("AGENT_STARTED", t)}

\* Dev tasks and frozen stories are the same thing seen twice: a dev task exists
\* exactly when one event of the log froze its story, and is queued once.
FrozenStoriesAreQueued ==
  \A r \in Runs : \A story \in Stories :
    LET t == <<r, story>>
        queued == {i \in DOMAIN queue : queue[i] = t}
        n == IF taskState[t] = "ABSENT" THEN 0 ELSE 1
    IN  Cardinality(Frozen(t)) = n /\ Cardinality(queued) = n

\* With one loop the dev tasks of a run start in the order the PO froze them.
DevsStartInOrder ==
  \A r \in Runs : \A a, b \in Stories :
    \A i \in Frozen(<<r, a>>), j \in Frozen(<<r, b>>), k \in Started(<<r, b>>) :
      i < j => /\ taskState[<<r, a>>] # "WAITING"
               /\ \A m \in Started(<<r, a>>) : m < k

\* A repeated callback does not duplicate what it recorded.
OneOutcome ==
  \A r \in Runs : \A i, j \in DOMAIN log[r] :
    /\ log[r][i].type \in OutcomeEvents /\ log[r][j] = log[r][i]
    => i = j

\* A task that is queued or claimed is eventually settled.
EveryTaskSettles ==
  \A t \in Tasks :
    taskState[t] \in {"PENDING", "WAITING", "RUNNING"} ~> taskState[t] \in TerminalTask

\* A run that was created eventually reaches a terminal state.
EveryRunSettles ==
  \A r \in Runs : runState[r] # "ABSENT" ~> runState[r] \in TerminalStates

\* The ledger, seen through the types of the log, and what it promises.
Ledger == INSTANCE RunLedger
            WITH state <- runState, history <- [r \in Runs |-> Types(r)]

RefinesLedger == Ledger!LedgerSpec
=============================================================================
