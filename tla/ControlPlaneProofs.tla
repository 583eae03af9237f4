------------------------- MODULE ControlPlaneProofs -------------------------
(***************************************************************************)
(* Theorems about ControlPlane, for every value of its constants: its      *)
(* types, the workers that run at a time, the single start of each task,   *)
(* the causes of its outcomes, and the starts that the table accepts.      *)
(* LogProofs goes on from here with what the logs say.                     *)
(***************************************************************************)
EXTENDS ControlPlane, SequenceTheorems, TLAPS

(***************************************************************************)
(* Types.                                                                  *)
(***************************************************************************)
\* The table's target is a state of the machine wherever the table accepts.
LEMMA NextStateType ==
  ASSUME NEW state, NEW event, Accepts(state, event)
  PROVE  /\ NextState(state, event) \in RunStates
         /\ <<state, event, NextState(state, event)>> \in Transitions
  BY DEF Accepts, NextState

LEMMA QueuedIsAccepted == Accepts(InitialState, "TASK_QUEUED")
  BY DEF Accepts, InitialState, Transitions, RunStates

LEMMA TaskTypes ==
  /\ \A r \in Runs : FirstTask(r) \in Tasks
  /\ \A r \in Runs, s \in Stories : <<r, s>> \in Tasks
  /\ \A t \in Tasks : RunOf(t) \in Runs
  BY DEF Tasks, FirstTask, RunOf

LEMMA InitType == Init => TypeOK
  <1>. SUFFICES ASSUME Init PROVE TypeOK
    OBVIOUS
  <1>1. sent \in [Tasks -> 0 .. MaxCalls] /\ crashes \in 0 .. MaxCrashes
    BY BoundsAssumption DEF Init
  <1>2. answered \in [Tasks -> [Keys -> Payloads \union {NoPayload}]]
    BY DEF Init
  <1>. QED
    BY <1>1, <1>2 DEF Init, TypeOK, TaskStates, ExecutionStates, Pcs, Exits

LEMMA CreateRunType ==
  ASSUME TypeOK, NEW r \in Runs, CreateRun(r)
  PROVE  TypeOK'
  <1>1. FirstTask(r) \in Tasks
    BY TaskTypes
  <1>2. NextState(InitialState, "TASK_QUEUED") \in RunStates
    BY NextStateType, QueuedIsAccepted
  <1>3. << Event("RUN_CREATED", NoTask), Event("BRIEFING_RECEIVED", NoTask),
           Event("TASK_QUEUED", FirstTask(r)) >> \in Seq(Events)
    BY <1>1 DEF Event, Events, EventTypes
  <1>. QED
    BY <1>1, <1>2, <1>3
    DEF CreateRun, TypeOK, TaskStates, executionVars, loopVars, workVars, httpVars

\* Appending well-typed events keeps the type of the runs and of their logs.
LEMMA AppendEventsType ==
  ASSUME TypeOK, NEW r \in Runs, NEW events \in Seq(Events), AppendEvents(r, events)
  PROVE  /\ runState' \in [Runs -> RunStates \union {"ABSENT"}]
         /\ log' \in [Runs -> Seq(Events)]
  BY DEF AppendEvents, TypeOK

LEMMA AppendDrivingType ==
  ASSUME TypeOK, NEW r \in Runs, NEW events \in Seq(Events), NEW event,
         Accepts(runState[r], event), AppendDriving(r, events, event)
  PROVE  /\ runState' \in [Runs -> RunStates \union {"ABSENT"}]
         /\ log' \in [Runs -> Seq(Events)]
  <1>1. NextState(runState[r], event) \in RunStates
    BY NextStateType
  <1>. QED
    BY <1>1 DEF AppendDriving, TypeOK

LEMMA EventType ==
  ASSUME NEW type \in EventTypes, NEW t \in Tasks
  PROVE  <<Event(type, t)>> \in Seq(Events)
  BY DEF Event, Events

LEMMA ClaimType ==
  ASSUME TypeOK, NEW s \in Schedulers, NEW t \in Tasks, Claim(s, t)
  PROVE  TypeOK'
  <1>1. /\ taskState' \in [Tasks -> TaskStates]
        /\ lease' \in [Tasks -> {"none", "fresh", "renewed", "expired"}]
        /\ token' \in [Tasks -> BOOLEAN]
        /\ execution' \in [Tasks -> ExecutionStates]
    <2>1. /\ taskState' = [taskState EXCEPT ![t] = "RUNNING"]
          /\ lease' = [lease EXCEPT ![t] = "fresh"]
          /\ token' = token \/ token' = [token EXCEPT ![t] = TRUE]
          /\ \/ execution' = execution
             \/ execution' = [execution EXCEPT ![t] = IF @ = "NONE" THEN "STARTING" ELSE @]
      BY DEF Claim
    <2>2. taskState' \in [Tasks -> TaskStates]
      BY <2>1 DEF TypeOK, TaskStates
    <2>3. execution' \in [Tasks -> ExecutionStates]
      <3>1. execution \in [Tasks -> ExecutionStates] /\ "STARTING" \in ExecutionStates
        BY DEF TypeOK, ExecutionStates
      <3>. QED
        BY <2>1, <3>1
    <2>. QED
      BY <2>1, <2>2, <2>3 DEF TypeOK
  <1>2. /\ pc' \in [Schedulers -> Pcs]
        /\ job' \in [Schedulers -> Tasks \union {NoTask}]
        /\ \A u \in Schedulers : pc'[u] # "idle" => job'[u] \in Tasks
    BY DEF Claim, TypeOK, Pcs
  <1>3. UNCHANGED <<runVars, queue, container, exit, seen, workVars, httpVars, crashes>>
    BY DEF Claim
  <1>. QED
    BY <1>1, <1>2, <1>3 DEF TypeOK, runVars, workVars, httpVars

LEMMA StopWorkerType ==
  ASSUME TypeOK, NEW t \in Tasks, StopWorker(t)
  PROVE  worker' \in [Tasks -> {"none", "created", "running", "exit0", "exit1", "killed"}]
  BY DEF StopWorker, TypeOK

\* The steps of dispatch_next that call the runtime and touch no row.
LEMMA RuntimeStepType ==
  ASSUME TypeOK, NEW s \in Schedulers,
         \/ CreateContainer(s) \/ CreateFails(s) \/ StartWorker(s) \/ StartFails(s)
         \/ WaitExit(s) \/ WaitTimeout(s) \/ WaitFails(s)
  PROVE  TypeOK'
  <1>1. pc[s] # "idle" /\ job[s] \in Tasks
    BY DEF CreateContainer, CreateFails, StartWorker, StartFails, WaitExit, WaitTimeout,
           WaitFails, TypeOK
  <1>2. worker' \in [Tasks -> {"none", "created", "running", "exit0", "exit1", "killed"}]
    BY <1>1, StopWorkerType DEF CreateContainer, CreateFails, StartWorker, StartFails,
           WaitExit, WaitTimeout, WaitFails, TypeOK, workVars
  <1>3. /\ pc' \in [Schedulers -> Pcs]
        /\ exit' \in [Schedulers -> Exits]
        /\ \A u \in Schedulers : pc'[u] # "idle" => pc[u] # "idle"
    <2>1. CASE WaitExit(s) \/ WaitTimeout(s)
      <3>1. /\ pc' = [pc EXCEPT ![s] = "finishing"]
            /\ \E e \in Exits : exit' = [exit EXCEPT ![s] = e]
        BY <2>1 DEF WaitExit, WaitTimeout, Exits
      <3>. QED
        BY <3>1, <1>1 DEF TypeOK, Pcs
    <2>2. CASE ~(WaitExit(s) \/ WaitTimeout(s))
      BY <2>2, <1>1 DEF CreateContainer, CreateFails, StartWorker, StartFails, WaitFails,
                        TypeOK, Go, Pcs
    <2>. QED
      BY <2>1, <2>2
  <1>4. UNCHANGED <<runVars, taskVars, executionVars, job, seen, acked, sent, httpVars, crashes>>
    BY DEF CreateContainer, CreateFails, StartWorker, StartFails, WaitExit, WaitTimeout,
           WaitFails, workVars, Go
  <1>. QED
    BY <1>2, <1>3, <1>4 DEF TypeOK, runVars, taskVars, executionVars, httpVars

LEMMA ReadTaskType ==
  ASSUME TypeOK, NEW s \in Schedulers, ReadFinished(s) \/ ReadFailing(s)
  PROVE  TypeOK'
  <1>1. /\ pc[s] # "idle" /\ job[s] \in Tasks
        /\ \E to \in Pcs : pc' = [pc EXCEPT ![s] = to]
        /\ seen' = [seen EXCEPT ![s] = taskState[job[s]]]
        /\ UNCHANGED <<runVars, taskVars, executionVars, job, exit, workVars, httpVars, crashes>>
    BY DEF ReadFinished, ReadFailing, ReadTask, TypeOK, Pcs
  <1>2. taskState[job[s]] \in TaskStates
    BY <1>1 DEF TypeOK
  <1>. QED
    BY <1>1, <1>2 DEF TypeOK, runVars, taskVars, executionVars, workVars, httpVars

LEMMA RecordStartedType ==
  ASSUME TypeOK, NEW s \in Schedulers, RecordStarted(s)
  PROVE  TypeOK'
  <1>1. pc[s] # "idle" /\ job[s] \in Tasks /\ RunOf(job[s]) \in Runs
    BY TaskTypes DEF RecordStarted, ReadyToRecord, TypeOK
  <1>2. <<Event("AGENT_STARTED", job[s])>> \in Seq(Events)
    BY <1>1, EventType DEF EventTypes
  <1>3. /\ runState' \in [Runs -> RunStates \union {"ABSENT"}]
        /\ log' \in [Runs -> Seq(Events)]
    BY <1>1, <1>2, AppendEventsType, AppendDrivingType DEF RecordStarted
  <1>. QED
    BY <1>1, <1>3 DEF RecordStarted, TypeOK, Go, Pcs, ExecutionStates, taskVars, workVars,
                      httpVars

LEMMA CompensateType ==
  ASSUME TypeOK, NEW s \in Schedulers, job[s] \in Tasks, NEW outcome \in TaskStates,
         Compensate(s, outcome)
  PROVE  /\ runState' \in [Runs -> RunStates \union {"ABSENT"}]
         /\ log' \in [Runs -> Seq(Events)]
         /\ taskState' \in [Tasks -> TaskStates]
         /\ token' \in [Tasks -> BOOLEAN]
  <1>1. RunOf(job[s]) \in Runs /\ <<Event("AGENT_FAILED", job[s])>> \in Seq(Events)
    BY TaskTypes, EventType DEF EventTypes
  <1>2. /\ runState' \in [Runs -> RunStates \union {"ABSENT"}]
        /\ log' \in [Runs -> Seq(Events)]
    <2>1. CASE Accepts(runState[RunOf(job[s])], "AGENT_FAILED")
      BY <2>1, <1>1, AppendDrivingType DEF Compensate
    <2>2. CASE ~Accepts(runState[RunOf(job[s])], "AGENT_FAILED")
      BY <2>2 DEF Compensate, TypeOK, runVars
    <2>. QED
      BY <2>1, <2>2
  <1>. QED
    BY <1>2 DEF Compensate, TypeOK

LEMMA RestType ==
  ASSUME TypeOK, NEW s \in Schedulers, Rest(s)
  PROVE  /\ pc' \in [Schedulers -> Pcs]
         /\ job' \in [Schedulers -> Tasks \union {NoTask}]
         /\ \A u \in Schedulers : pc'[u] # "idle" => job'[u] \in Tasks
         /\ exit' \in [Schedulers -> Exits]
         /\ seen' \in [Schedulers -> TaskStates]
  BY DEF Rest, TypeOK, Pcs, Exits, TaskStates

LEMMA RecordEndType ==
  ASSUME TypeOK, NEW s \in Schedulers, RecordFinished(s) \/ RecordRuntimeFailure(s)
  PROVE  TypeOK'
  <1>1. job[s] \in Tasks /\ exit[s] \in Exits
    BY DEF RecordFinished, RecordRuntimeFailure, TypeOK
  <1>2. /\ Outcome(exit[s]) \in TaskStates
        /\ "FAILED" \in TaskStates
        /\ Outcome(exit[s]) \in ExecutionStates
        /\ {"EXITED", "FAILED"} \subseteq ExecutionStates
    BY DEF Outcome, TaskStates, TerminalTask, ExecutionStates
  <1>3. /\ runState' \in [Runs -> RunStates \union {"ABSENT"}]
        /\ log' \in [Runs -> Seq(Events)]
        /\ taskState' \in [Tasks -> TaskStates]
        /\ token' \in [Tasks -> BOOLEAN]
    <2>1. CASE RecordFinished(s) /\ exit[s] = "exit0"
      BY <2>1 DEF RecordFinished, TypeOK, runVars
    <2>2. CASE RecordFinished(s) /\ exit[s] # "exit0"
      BY <2>2, <1>1, <1>2, CompensateType DEF RecordFinished
    <2>3. CASE RecordRuntimeFailure(s)
      BY <2>3, <1>1, <1>2, CompensateType DEF RecordRuntimeFailure
    <2>. QED
      BY <2>1, <2>2, <2>3
  <1>4. execution' \in [Tasks -> ExecutionStates] /\ container' \in [Tasks -> BOOLEAN]
    <2>1. CASE RecordFinished(s)
      BY <2>1, <1>1, <1>2 DEF RecordFinished, TypeOK
    <2>2. CASE RecordRuntimeFailure(s)
      BY <2>2, <1>1, <1>2 DEF RecordRuntimeFailure, TypeOK
    <2>. QED
      BY <2>1, <2>2
  <1>5. Rest(s) /\ UNCHANGED <<lease, queue, workVars, httpVars, crashes>>
    BY DEF RecordFinished, RecordRuntimeFailure
  <1>6. /\ pc' \in [Schedulers -> Pcs]
        /\ job' \in [Schedulers -> Tasks \union {NoTask}]
        /\ \A u \in Schedulers : pc'[u] # "idle" => job'[u] \in Tasks
        /\ exit' \in [Schedulers -> Exits]
        /\ seen' \in [Schedulers -> TaskStates]
    BY <1>5, RestType
  <1>. QED
    BY <1>3, <1>4, <1>5, <1>6 DEF TypeOK, workVars, httpVars

LEMMA TransactionFailsType ==
  ASSUME TypeOK, NEW s \in Schedulers, TransactionFails(s)
  PROVE  TypeOK'
  <1>1. pc[s] # "idle" /\ job[s] \in Tasks
    BY DEF TransactionFails, ReadyToRecord, TypeOK
  <1>2. worker' \in [Tasks -> {"none", "created", "running", "exit0", "exit1", "killed"}]
    BY <1>1, StopWorkerType DEF TransactionFails, TypeOK
  <1>3. /\ pc' \in [Schedulers -> Pcs]
        /\ job' \in [Schedulers -> Tasks \union {NoTask}]
        /\ \A u \in Schedulers : pc'[u] # "idle" => job'[u] \in Tasks
        /\ exit' \in [Schedulers -> Exits]
        /\ seen' \in [Schedulers -> TaskStates]
    <2>1. CASE Rest(s)
      BY <2>1, RestType
    <2>2. CASE Go(s, "failing")
      BY <2>2, <1>1 DEF Go, TypeOK, Pcs
    <2>. QED
      BY <2>1, <2>2 DEF TransactionFails
  <1>. QED
    BY <1>2, <1>3 DEF TransactionFails, TypeOK, runVars, taskVars, executionVars, httpVars

-----------------------------------------------------------------------------
\* Leases, workers and the crash.

LEMMA SubmissionTypes ==
  ASSUME NEW t \in Tasks
  PROVE  Submissions(t) \subseteq Payloads /\ Route(t) \in Routes
  <1>1. Route(t) \in {"outputs", "po-output", "dev-delivery"}
    BY DEF Route
  <1>2. CASE Route(t) = "po-output"
    BY <1>1, <1>2, BacklogsAssumption DEF Submissions, Payload, Payloads, Routes
  <1>3. CASE Route(t) # "po-output"
    <2>1. Submissions(t) \subseteq {Payload(x, <<>>) : x \in {"SUCCEEDED", "FAILED", "READY_FOR_QA"}}
      BY <1>3 DEF Submissions
    <2>2. \A x \in {"SUCCEEDED", "FAILED", "READY_FOR_QA"} : Payload(x, <<>>) \in Payloads
      BY DEF Payload, Payloads
    <2>3. Submissions(t) \subseteq Payloads
      BY <2>1, <2>2
    <2>. QED
      BY <1>1, <2>3 DEF Routes
  <1>. QED
    BY <1>2, <1>3

LEMMA ArriveType ==
  ASSUME TypeOK, NEW t \in Tasks, NEW route \in Routes, NEW key \in Keys,
         NEW payload \in Payloads, Arrive(t, route, key, payload)
  PROVE  TypeOK'
  <1>1. sent[t] \in 0 .. MaxCalls /\ sent[t] < MaxCalls /\ MaxCalls \in Nat
    BY BoundsAssumption DEF Arrive, TypeOK
  <1>2. sent' \in [Tasks -> 0 .. MaxCalls]
    BY <1>1 DEF Arrive, TypeOK
  <1>3. [task |-> t, n |-> sent[t] + 1, route |-> route, key |-> key,
         payload |-> payload, seen |-> taskState[t]] \in Calls
    BY <1>1 DEF Calls, TypeOK
  <1>4. calls' \subseteq Calls
    BY <1>3 DEF Arrive, TypeOK
  <1>. QED
    BY <1>2, <1>4 DEF Arrive, TypeOK, runVars, taskVars, executionVars, loopVars

LEMMA EnvironmentType ==
  ASSUME TypeOK, NEW t \in Tasks,
         \/ LeaseExpires(t) \/ Heartbeat(t) \/ WorkerExits(t)
  PROVE  TypeOK'
  <1>1. CASE LeaseExpires(t)
    BY <1>1 DEF LeaseExpires, TypeOK, runVars, executionVars, loopVars, workVars, httpVars
  <1>2. CASE Heartbeat(t)
    BY <1>2 DEF Heartbeat, TypeOK, runVars, executionVars, loopVars, workVars, httpVars
  <1>3. CASE WorkerExits(t)
    BY <1>3 DEF WorkerExits, TypeOK, runVars, executionVars, loopVars, taskVars, httpVars
  <1>. QED
    BY <1>1, <1>2, <1>3

LEMMA CrashType ==
  ASSUME TypeOK, Crash
  PROVE  TypeOK'
  <1>1. crashes' \in 0 .. MaxCrashes
    BY BoundsAssumption DEF Crash, TypeOK
  <1>. QED
    BY <1>1 DEF Crash, TypeOK, Pcs, Exits, TaskStates, TerminalTask, runVars, taskVars, executionVars, workVars
-----------------------------------------------------------------------------
\* The callbacks.

LEMMA CallTypes ==
  ASSUME TypeOK, NEW c \in calls
  PROVE  /\ c.task \in Tasks /\ RunOf(c.task) \in Runs
         /\ c.key \in Keys /\ c.payload \in Payloads
         /\ c.payload.stories \in Seq(Stories)
         /\ calls \ {c} \subseteq Calls
  <1>1. c \in Calls
    BY DEF TypeOK
  <1>2. c.task \in Tasks /\ c.key \in Keys /\ c.payload \in Payloads
    BY <1>1 DEF Calls
  <1>. QED
    BY <1>2, TaskTypes DEF TypeOK, Payloads

LEMMA AnswerType ==
  ASSUME TypeOK, NEW c \in calls
  PROVE  /\ Settle(c) => calls' \subseteq Calls
         /\ Acknowledge(c) => acked' \in [Tasks -> BOOLEAN]
         /\ Answer(c) => answered' \in [Tasks -> [Keys -> Payloads \union {NoPayload}]]
  <1>1. Settle(c) => calls' \subseteq Calls
    BY CallTypes DEF Settle
  <1>2. Acknowledge(c) => acked' \in [Tasks -> BOOLEAN]
    BY CallTypes DEF Acknowledge, TypeOK
  <1>3. Answer(c) => answered' \in [Tasks -> [Keys -> Payloads \union {NoPayload}]]
    BY CallTypes DEF Answer, TypeOK
  <1>. QED
    BY <1>1, <1>2, <1>3

LEMMA WriteTaskType ==
  ASSUME TypeOK, NEW c \in calls, NEW state \in TaskStates
  PROVE  WriteTask(c, state) \in [Tasks -> TaskStates]
  BY CallTypes DEF WriteTask, TypeOK

LEMMA SettledType ==
  ASSUME TypeOK, NEW c \in calls, Replay(c) \/ Refuse(c)
  PROVE  TypeOK'
  BY AnswerType DEF Replay, Refuse, TypeOK, runVars, taskVars, executionVars, loopVars, workVars

LEMMA OutputType ==
  ASSUME TypeOK, NEW c \in calls, SubmitTaskOutput(c)
  PROVE  TypeOK'
  <1>. DEFINE event == OutputEvent(c.payload)
              note == IF c.payload.status = "SUCCEEDED" THEN "RUN_COMPLETED" ELSE "RUN_FAILED"
  <1>1. /\ RunOf(c.task) \in Runs
        /\ <<Event(event, c.task), Event(note, NoTask)>> \in Seq(Events)
    BY CallTypes DEF Event, Events, EventTypes, OutputEvent
  <1>2. Accepts(runState[RunOf(c.task)], event)
    BY DEF SubmitTaskOutput, Granted, Acceptable
  <1>3. AppendDriving(RunOf(c.task), <<Event(event, c.task), Event(note, NoTask)>>, event)
    BY DEF SubmitTaskOutput
  <1>4. /\ runState' \in [Runs -> RunStates \union {"ABSENT"}]
        /\ log' \in [Runs -> Seq(Events)]
    BY <1>1, <1>2, <1>3, AppendDrivingType
  <1>5. taskState' \in [Tasks -> TaskStates]
    BY WriteTaskType DEF SubmitTaskOutput, TaskStates, TerminalTask
  <1>6. Answer(c) /\ Settle(c) /\ Acknowledge(c)
    BY DEF SubmitTaskOutput, Answer
  <1>. QED
    BY <1>4, <1>5, <1>6, AnswerType DEF SubmitTaskOutput, TypeOK, executionVars, loopVars

LEMMA FunctionIsSeq ==
  ASSUME NEW S, NEW n \in Nat, NEW f \in [1 .. n -> S]
  PROVE  f \in Seq(S)
  BY SeqDef

\* What a PO output queues: the tasks of the delivered stories.
LEMMA DevsType ==
  ASSUME TypeOK, NEW c \in calls,
         NEW devs, devs = [i \in DOMAIN c.payload.stories |-> <<RunOf(c.task), c.payload.stories[i]>>]
  PROVE  /\ devs \in Seq(Tasks)
         /\ [i \in DOMAIN devs |-> Event("STORY_FROZEN", devs[i])] \in Seq(Events)
  <1>1. /\ RunOf(c.task) \in Runs
        /\ c.payload.stories \in Seq(Stories)
    BY CallTypes
  <1>2. \A i \in DOMAIN devs : devs[i] \in Tasks
    BY <1>1, TaskTypes
  <1>3. \A i \in DOMAIN devs : Event("STORY_FROZEN", devs[i]) \in Events
    BY <1>2 DEF Event, Events, EventTypes
  <1>4. DOMAIN devs = 1 .. Len(c.payload.stories) /\ Len(c.payload.stories) \in Nat
    BY <1>1
  <1>5. devs \in [1 .. Len(c.payload.stories) -> Tasks]
    BY <1>2, <1>4
  <1>6. devs \in Seq(Tasks)
    BY <1>4, <1>5, FunctionIsSeq
  <1>7. [i \in DOMAIN devs |-> Event("STORY_FROZEN", devs[i])]
          \in [1 .. Len(c.payload.stories) -> Events]
    BY <1>3, <1>4
  <1>8. [i \in DOMAIN devs |-> Event("STORY_FROZEN", devs[i])] \in Seq(Events)
    BY <1>4, <1>7, FunctionIsSeq
  <1>. QED
    BY <1>6, <1>8

LEMMA PoOutputType ==
  ASSUME TypeOK, NEW c \in calls, SubmitPoOutput(c)
  PROVE  TypeOK'
  <1>. DEFINE r == RunOf(c.task)
              devs == [i \in DOMAIN c.payload.stories |-> <<r, c.payload.stories[i]>>]
              frozen == [i \in DOMAIN devs |-> Event("STORY_FROZEN", devs[i])]
              written == WriteTask(c, "SUCCEEDED")
  <1>1. devs \in Seq(Tasks) /\ frozen \in Seq(Events)
    BY DevsType
  <1>2. r \in Runs /\ <<Event("PO_COMPLETED", c.task)>> \in Seq(Events)
    BY CallTypes, EventType DEF EventTypes
  <1>3. frozen \o <<Event("PO_COMPLETED", c.task)>> \in Seq(Events)
    BY <1>1, <1>2
  <1>4. /\ runState' \in [Runs -> RunStates \union {"ABSENT"}]
        /\ log' \in [Runs -> Seq(Events)]
    BY <1>2, <1>3, AppendEventsType DEF SubmitPoOutput, FrozenEvents
  <1>5. written \in [Tasks -> TaskStates] /\ "WAITING" \in TaskStates
    BY WriteTaskType DEF TaskStates, TerminalTask
  <1>6. taskState' = [t \in Tasks |->
          IF \E i \in DOMAIN devs : devs[i] = t THEN "WAITING" ELSE written[t]]
    BY DEF SubmitPoOutput
  <1>7. taskState' \in [Tasks -> TaskStates]
    BY <1>5, <1>6
  <1>8. queue' \in Seq(Tasks)
    BY <1>1 DEF SubmitPoOutput, TypeOK
  <1>9. Answer(c) /\ Settle(c) /\ Acknowledge(c)
    BY DEF SubmitPoOutput, Answer
  <1>. QED
    BY <1>4, <1>7, <1>8, <1>9, AnswerType DEF SubmitPoOutput, TypeOK, executionVars, loopVars

LEMMA DeliveryType ==
  ASSUME TypeOK, NEW c \in calls, SubmitDevDelivery(c)
  PROVE  TypeOK'
  <1>. DEFINE type == IF c.payload.status = "READY_FOR_QA" THEN "CODE_DELIVERED" ELSE "AGENT_FAILED"
              events == <<Event("DEV_TASK_PLAN_CREATED", c.task), Event(type, c.task)>>
  <1>1. RunOf(c.task) \in Runs /\ events \in Seq(Events)
    BY CallTypes DEF Event, Events, EventTypes
  <1>2. AppendEvents(RunOf(c.task), events)
    BY DEF SubmitDevDelivery
  <1>3. /\ runState' \in [Runs -> RunStates \union {"ABSENT"}]
        /\ log' \in [Runs -> Seq(Events)]
    BY <1>1, <1>2, AppendEventsType
  <1>4. taskState' \in [Tasks -> TaskStates]
    BY WriteTaskType DEF SubmitDevDelivery, TaskStates, TerminalTask
  <1>5. Answer(c) /\ Settle(c) /\ Acknowledge(c)
    BY DEF SubmitDevDelivery, Answer
  <1>. QED
    BY <1>3, <1>4, <1>5, AnswerType DEF SubmitDevDelivery, TypeOK, executionVars, loopVars

LEMMA FailureType ==
  ASSUME TypeOK, NEW c \in calls, ReportWorkerFailure(c)
  PROVE  TypeOK'
  <1>1. RunOf(c.task) \in Runs /\ <<Event("AGENT_FAILED", c.task)>> \in Seq(Events)
    BY CallTypes, EventType DEF EventTypes
  <1>2. Accepts(runState[RunOf(c.task)], "AGENT_FAILED")
    BY DEF ReportWorkerFailure, Granted, Acceptable
  <1>3. /\ runState' \in [Runs -> RunStates \union {"ABSENT"}]
        /\ log' \in [Runs -> Seq(Events)]
    BY <1>1, <1>2, AppendDrivingType DEF ReportWorkerFailure
  <1>4. taskState' \in [Tasks -> TaskStates]
    BY WriteTaskType DEF ReportWorkerFailure, TaskStates, TerminalTask
  <1>5. token' \in [Tasks -> BOOLEAN]
    BY CallTypes DEF ReportWorkerFailure, TypeOK
  <1>. QED
    BY <1>3, <1>4, <1>5, AnswerType DEF ReportWorkerFailure, TypeOK, executionVars, loopVars
-----------------------------------------------------------------------------
LEMMA StepType == TypeOK /\ [Next]_vars => TypeOK'
  <1>. SUFFICES ASSUME TypeOK, [Next]_vars PROVE TypeOK'
    OBVIOUS
  <1>1. CASE \E r \in Runs : CreateRun(r)
    BY <1>1, CreateRunType
  <1>2. ASSUME NEW s \in Schedulers, SchedulerStep(s) PROVE TypeOK'
    BY <1>2, ClaimType, RuntimeStepType, RecordStartedType, ReadTaskType, RecordEndType,
       TransactionFailsType DEF SchedulerStep
  <1>3. ASSUME NEW t \in Tasks, LeaseExpires(t) \/ WorkerStep(t) PROVE TypeOK'
    <2>1. CASE LeaseExpires(t) \/ Heartbeat(t) \/ WorkerExits(t)
      BY <2>1, EnvironmentType
    <2>2. CASE Submit(t)
      BY <2>2, SubmissionTypes, ArriveType DEF Submit
    <2>3. CASE ReportFailure(t)
      <3>1. "failure" \in Routes /\ Payload("FAILED", <<>>) \in Payloads
        BY DEF Routes, Payload, Payloads
      <3>. QED
        BY <2>3, <3>1, ArriveType DEF ReportFailure
    <2>. QED
      BY <1>3, <2>1, <2>2, <2>3 DEF WorkerStep
  <1>4. ASSUME NEW c \in calls, CallStep(c) PROVE TypeOK'
    BY <1>4, SettledType, OutputType, PoOutputType, DeliveryType, FailureType DEF CallStep
  <1>5. CASE Crash
    BY <1>5, CrashType
  <1>6. CASE UNCHANGED vars
    BY <1>6 DEF vars, TypeOK
  <1>. QED
    BY <1>1, <1>2, <1>3, <1>4, <1>5, <1>6 DEF Next

\* Every state the control-api reaches is well typed: rows hold declared states,
\* the table is never asked for a transition it lacks, logs hold declared events.
THEOREM TypeCorrect == Spec => []TypeOK
  <1>1. Init => TypeOK
    BY InitType
  <1>2. TypeOK /\ [Next]_vars => TypeOK'
    BY StepType
  <1>. QED
    BY <1>1, <1>2, PTL DEF Spec
-----------------------------------------------------------------------------
(***************************************************************************)
(* Workers and the loops that wait for them. Waited is OneWorkerAtATime for*)
(* any number of loops: each of them waits for at most one worker. It needs*)
(* a process that does not die, since a crash forgets whom the loops wait  *)
(* for, and a runtime that obeys a stop, since a failed stop is swallowed. *)
(***************************************************************************)
\* Some loop waits for every worker that runs.
Waited ==
  \A t \in Tasks : worker[t] = "running" =>
    \E s \in Schedulers : pc[s] = "waiting" /\ job[s] = t

\* A loop moves alone, leaves no running worker behind, and starts only the one
\* it then waits for.
MovesAlone(s) ==
  /\ \A u \in Schedulers : u # s => pc'[u] = pc[u] /\ job'[u] = job[u]
  /\ pc[s] = "waiting" => worker'[job[s]] # "running"
  /\ \A t \in Tasks : worker'[t] = "running" =>
       worker[t] = "running" \/ (pc'[s] = "waiting" /\ job'[s] = t)

LEMMA MovingWaits ==
  ASSUME Waited, NEW s \in Schedulers, MovesAlone(s)
  PROVE  Waited'
  BY DEF Waited, MovesAlone

LEMMA StoppedIsKilled ==
  ASSUME TypeOK, "kill" \notin Faults, NEW t \in Tasks, StopWorker(t)
  PROVE  /\ worker'[t] # "running"
         /\ \A u \in Tasks : worker'[u] = "running" => worker[u] = "running"
  BY DEF StopWorker, TypeOK

LEMMA SchedulerWaits ==
  ASSUME TypeOK, "kill" \notin Faults, NEW s \in Schedulers, SchedulerStep(s)
  PROVE  MovesAlone(s)
  <1>1. ASSUME NEW t \in Tasks, Claim(s, t) PROVE MovesAlone(s)
    BY <1>1 DEF Claim, MovesAlone, TypeOK, workVars
  <1>2. CASE CreateContainer(s) \/ CreateFails(s)
    BY <1>2 DEF CreateContainer, CreateFails, Go, MovesAlone, TypeOK, workVars
  <1>3. CASE RecordStarted(s)
    BY <1>3 DEF RecordStarted, ReadyToRecord, Go, MovesAlone, TypeOK, workVars
  <1>4. CASE StartWorker(s)
    BY <1>4 DEF StartWorker, Go, MovesAlone, TypeOK
  <1>5. CASE StartFails(s)
    <2>1. \A t \in Tasks : worker'[t] = "running" => worker[t] = "running"
      BY <1>5, StoppedIsKilled DEF StartFails, TypeOK
    <2>. QED
      BY <1>5, <2>1 DEF StartFails, Go, MovesAlone, TypeOK
  <1>6. CASE WaitExit(s)
    BY <1>6 DEF WaitExit, MovesAlone, TypeOK, workVars
  <1>7. CASE WaitTimeout(s) \/ WaitFails(s)
    <2>1. /\ worker'[job[s]] # "running"
          /\ \A t \in Tasks : worker'[t] = "running" => worker[t] = "running"
      BY <1>7, StoppedIsKilled DEF WaitTimeout, WaitFails, TypeOK
    <2>. QED
      BY <1>7, <2>1 DEF WaitTimeout, WaitFails, Go, MovesAlone, TypeOK
  <1>8. CASE ReadFinished(s) \/ ReadFailing(s)
    BY <1>8 DEF ReadFinished, ReadFailing, ReadTask, MovesAlone, TypeOK, workVars
  <1>9. CASE RecordFinished(s) \/ RecordRuntimeFailure(s)
    BY <1>9 DEF RecordFinished, RecordRuntimeFailure, Rest, MovesAlone, TypeOK, workVars
  <1>10. CASE TransactionFails(s)
    <2>1. pc[s] \notin {"idle", "waiting"} /\ job[s] \in Tasks
      BY <1>10 DEF TransactionFails, ReadyToRecord, TypeOK
    <2>2. \A t \in Tasks : worker'[t] = "running" => worker[t] = "running"
      BY <1>10, <2>1, StoppedIsKilled DEF TransactionFails
    <2>3. Go(s, "failing") \/ Rest(s)
      BY <1>10 DEF TransactionFails
    <2>. QED
      BY <2>1, <2>2, <2>3 DEF Go, Rest, MovesAlone, TypeOK
  <1>. QED
    BY <1>1, <1>2, <1>3, <1>4, <1>5, <1>6, <1>7, <1>8, <1>9, <1>10 DEF SchedulerStep

LEMMA StepWaits ==
  ASSUME "kill" \notin Faults, MaxCrashes = 0, TypeOK, Waited, [Next]_vars
  PROVE  Waited'
  <1>1. CASE \E s \in Schedulers : SchedulerStep(s)
    BY <1>1, SchedulerWaits, MovingWaits
  <1>2. CASE \E r \in Runs : CreateRun(r)
    BY <1>2 DEF CreateRun, Waited, loopVars, workVars
  <1>3. ASSUME NEW t \in Tasks, LeaseExpires(t) \/ WorkerStep(t) PROVE Waited'
    <2>1. \A u \in Tasks : worker'[u] = "running" => worker[u] = "running"
      BY <1>3 DEF LeaseExpires, WorkerStep, Heartbeat, Submit, ReportFailure, Arrive, WorkerExits,
                  TypeOK, workVars
    <2>2. UNCHANGED <<pc, job>>
      BY <1>3 DEF LeaseExpires, WorkerStep, Heartbeat, Submit, ReportFailure, Arrive, WorkerExits,
                  loopVars
    <2>. QED
      BY <2>1, <2>2 DEF Waited
  <1>4. CASE \E c \in calls : CallStep(c)
    <2>1. UNCHANGED <<pc, job, worker>>
      BY <1>4 DEF CallStep, Replay, Refuse, SubmitTaskOutput, SubmitPoOutput, SubmitDevDelivery,
                  ReportWorkerFailure, loopVars, workVars
    <2>. QED
      BY <2>1 DEF Waited
  <1>5. CASE Crash
    BY <1>5 DEF Crash, TypeOK
  <1>6. CASE UNCHANGED vars
    BY <1>6 DEF vars, Waited
  <1>. QED
    BY <1>1, <1>2, <1>3, <1>4, <1>5, <1>6 DEF Next

\* As long as the process does not die and a stop is obeyed, no worker runs that
\* no loop waits for, however many loops there are.
THEOREM WorkersAreWaitedFor ==
  ASSUME "kill" \notin Faults, MaxCrashes = 0
  PROVE  Spec => []Waited
  <1>1. Init => Waited
    BY DEF Init, Waited
  <1>2. TypeOK /\ Waited /\ [Next]_vars => Waited'
    BY StepWaits
  <1>. QED
    BY <1>1, <1>2, TypeCorrect, PTL DEF Spec

\* So one loop has one worker at a time, although the wait for a worker may time
\* out or break off and the next task is claimed at once.
THEOREM OneLoopOneWorker ==
  ASSUME \A a, b \in Schedulers : a = b, "kill" \notin Faults, MaxCrashes = 0
  PROVE  Spec => []OneWorkerAtATime
  <1>1. Waited => OneWorkerAtATime
    BY DEF Waited, OneWorkerAtATime
  <1>. QED
    BY <1>1, WorkersAreWaitedFor, PTL
-----------------------------------------------------------------------------
(***************************************************************************)
(* A task's worker is started at most once, for every number of loops,     *)
(* crashes and failures.                                                   *)
(*                                                                         *)
(* OneStart alone is not inductive: nothing in it says that a loop about   *)
(* to record a start holds a task no one has started.  StartInv ties a     *)
(* task's claim, which happens once and for ever, to everything a claim    *)
(* gives rise to: its token, its calls, its loop, its entry in the log.    *)
(***************************************************************************)
\* The tasks that have left the queue; no step brings one back.
Claimed == {t \in Tasks : taskState[t] \in {"RUNNING"} \union TerminalTask}

\* Entry i of r's log is the start of a worker.
StartAt(r, i) == log[r][i].type = "AGENT_STARTED"

ClaimedFirst ==
  /\ \A t \in Tasks : token[t] => t \in Claimed
  /\ \A c \in calls : c.task \in Claimed
  /\ \A s \in Schedulers : pc[s] # "idle" => job[s] \in Claimed
  /\ \A r \in Runs : \A i \in DOMAIN log[r] : StartAt(r, i) => log[r][i].task \in Claimed

OneLoopPerTask ==
  \A s, u \in Schedulers :
    pc[s] # "idle" /\ pc[u] # "idle" /\ job[s] = job[u] => s = u

AboutToStart(s) == pc[s] \in {"claimed", "created"}

NotYetStarted ==
  \A s \in Schedulers : AboutToStart(s) =>
    \A r \in Runs : \A i \in DOMAIN log[r] : StartAt(r, i) => log[r][i].task # job[s]

\* Only what a client created, or a backlog froze, is queued.
QueuedForAReason ==
  /\ \A r \in Runs : taskState[FirstTask(r)] # "ABSENT" => runState[r] # "ABSENT"
  /\ \A r \in Runs, story \in Stories : taskState[<<r, story>>] # "ABSENT" => HasBacklog(r)

StartInv ==
  /\ TypeOK
  /\ ClaimedFirst
  /\ OneLoopPerTask
  /\ NotYetStarted
  /\ QueuedForAReason
  /\ OneStart
-----------------------------------------------------------------------------
(***************************************************************************)
(* What every step does that neither claims a task nor records a start.    *)
(***************************************************************************)
NeverUnclaimed == Claimed \subseteq Claimed'

LogKept == \A r \in Runs : \A i \in DOMAIN log[r] :
             i \in DOMAIN log'[r] /\ log'[r][i] = log[r][i]

NoStart == \A r \in Runs : \A i \in DOMAIN log'[r] :
             log'[r][i].type = "AGENT_STARTED" =>
               i \in DOMAIN log[r] /\ log'[r][i] = log[r][i]

TokensKept == \A t \in Tasks : token'[t] => token[t] \/ t \in Claimed'

CallsKept == \A c \in calls' : c \in calls \/ c.task \in Claimed'

LoopsKept ==
  \A s \in Schedulers : pc'[s] # "idle" =>
    /\ pc[s] # "idle" /\ job'[s] = job[s]
    /\ pc'[s] \in {"claimed", "created"} => AboutToStart(s)

QueueKept ==
  /\ \A r \in Runs : taskState'[FirstTask(r)] # "ABSENT" => runState'[r] # "ABSENT"
  /\ \A r \in Runs, story \in Stories :
       taskState'[<<r, story>>] # "ABSENT" =>
         taskState[<<r, story>>] # "ABSENT" \/ HasBacklog(r)'

LEMMA Frame ==
  ASSUME StartInv, TypeOK', NeverUnclaimed, LogKept, NoStart, TokensKept, CallsKept,
         LoopsKept, QueueKept
  PROVE  StartInv'
  <1>1. ClaimedFirst'
    <2>1. \A t \in Tasks : token'[t] => t \in Claimed'
      BY DEF StartInv, ClaimedFirst, TokensKept, NeverUnclaimed
    <2>2. \A c \in calls' : c.task \in Claimed'
      BY DEF StartInv, ClaimedFirst, CallsKept, NeverUnclaimed
    <2>3. \A s \in Schedulers : pc'[s] # "idle" => job'[s] \in Claimed'
      BY DEF StartInv, ClaimedFirst, LoopsKept, NeverUnclaimed
    <2>4. \A r \in Runs : \A i \in DOMAIN log'[r] :
            StartAt(r, i)' => log'[r][i].task \in Claimed'
      BY DEF StartInv, ClaimedFirst, NoStart, NeverUnclaimed, StartAt
    <2>. QED
      BY <2>1, <2>2, <2>3, <2>4 DEF ClaimedFirst
  <1>2. OneLoopPerTask'
    BY DEF StartInv, OneLoopPerTask, LoopsKept
  <1>3. NotYetStarted'
    BY DEF StartInv, NotYetStarted, LoopsKept, NoStart, StartAt, AboutToStart
  <1>4. QueuedForAReason'
    <2>1. \A r \in Runs : HasBacklog(r) => HasBacklog(r)'
      BY DEF HasBacklog, LogKept
    <2>. QED
      BY <2>1 DEF StartInv, QueuedForAReason, QueueKept
  <1>5. OneStart'
    BY DEF StartInv, OneStart, NoStart
  <1>. QED
    BY <1>1, <1>2, <1>3, <1>4, <1>5 DEF StartInv
-----------------------------------------------------------------------------
(***************************************************************************)
(* What the pieces of a step keep.                                         *)
(***************************************************************************)
LEMMA AbsentIsNoState == "ABSENT" \notin RunStates
  BY DEF RunStates

LEMMA RowsUnchanged ==
  ASSUME StartInv, UNCHANGED <<runState, log, taskState, token>>
  PROVE  NeverUnclaimed /\ LogKept /\ NoStart /\ TokensKept /\ QueueKept
  BY DEF StartInv, QueuedForAReason, NeverUnclaimed, LogKept, NoStart, TokensKept, QueueKept,
         Claimed

\* Appending events that are no starts keeps the starts of every log.
LEMMA AppendKeeps ==
  ASSUME TypeOK, NEW r \in Runs, NEW events \in Seq(Events),
         log' = [log EXCEPT ![r] = @ \o events],
         \A i \in DOMAIN events : events[i].type # "AGENT_STARTED"
  PROVE  LogKept /\ NoStart
  <1>1. /\ \A q \in Runs : log[q] \in Seq(Events)
        /\ \A q \in Runs : log'[q] = IF q = r THEN log[r] \o events ELSE log[q]
    BY DEF TypeOK
  <1>2. LogKept
    BY <1>1 DEF LogKept
  <1>3. NoStart
    <2>. SUFFICES ASSUME NEW i \in DOMAIN (log[r] \o events),
                         (log[r] \o events)[i].type = "AGENT_STARTED"
                  PROVE  i \in DOMAIN log[r] /\ (log[r] \o events)[i] = log[r][i]
      BY <1>1 DEF NoStart
    <2>1. CASE i \in 1 .. Len(log[r])
      BY <1>1, <2>1
    <2>2. CASE i \notin 1 .. Len(log[r])
      <3>1. /\ i - Len(log[r]) \in DOMAIN events
            /\ (log[r] \o events)[i] = events[i - Len(log[r])]
        BY <1>1, <2>2
      <3>. QED
        BY <3>1
    <2>. QED
      BY <2>1, <2>2
  <1>. QED
    BY <1>2, <1>3

\* Ending a claimed task, or leaving it, loses no claim and queues nothing.
LEMMA EndKeeps ==
  ASSUME StartInv, NEW t \in Claimed, NEW state \in {"RUNNING"} \union TerminalTask,
         taskState' = taskState \/ taskState' = [taskState EXCEPT ![t] = state],
         \A r \in Runs : runState[r] # "ABSENT" => runState'[r] # "ABSENT"
  PROVE  NeverUnclaimed /\ QueueKept
  <1>1. taskState \in [Tasks -> TaskStates] /\ t \in Tasks /\ taskState[t] # "ABSENT"
    BY DEF StartInv, TypeOK, Claimed, TerminalTask
  <1>2. NeverUnclaimed
    BY <1>1 DEF NeverUnclaimed, Claimed
  <1>3. \A u \in Tasks : taskState'[u] # "ABSENT" => taskState[u] # "ABSENT"
    BY <1>1
  <1>. QED
    BY <1>2, <1>3, TaskTypes DEF StartInv, QueuedForAReason, QueueKept

LEMMA DrivingKeepsRuns ==
  ASSUME TypeOK, NEW r \in Runs, NEW events, NEW event,
         Accepts(runState[r], event), AppendDriving(r, events, event)
  PROVE  \A q \in Runs : runState[q] # "ABSENT" => runState'[q] # "ABSENT"
  <1>1. NextState(runState[r], event) \in RunStates
    BY NextStateType
  <1>. QED
    BY <1>1, AbsentIsNoState DEF AppendDriving, TypeOK
-----------------------------------------------------------------------------
(***************************************************************************)
(* One lemma per action, or per group of actions that change the same rows.*)
(***************************************************************************)
LEMMA InitStarts == Init => StartInv
  <1>. SUFFICES ASSUME Init PROVE StartInv
    OBVIOUS
  <1>1. TypeOK
    BY InitType
  <1>2. \A r \in Runs : DOMAIN log[r] = {}
    BY DEF Init
  <1>3. ClaimedFirst /\ OneLoopPerTask /\ NotYetStarted /\ OneStart
    BY <1>2 DEF Init, ClaimedFirst, OneLoopPerTask, NotYetStarted, AboutToStart, OneStart
  <1>4. QueuedForAReason
    BY TaskTypes DEF Init, QueuedForAReason
  <1>. QED
    BY <1>1, <1>3, <1>4 DEF StartInv

LEMMA CreateRunStarts ==
  ASSUME StartInv, NEW r \in Runs, CreateRun(r)
  PROVE  StartInv'
  <1>. DEFINE events == << Event("RUN_CREATED", NoTask), Event("BRIEFING_RECEIVED", NoTask),
                           Event("TASK_QUEUED", FirstTask(r)) >>
  <1>0. TypeOK /\ TypeOK' /\ FirstTask(r) \in Tasks
    BY CreateRunType, TaskTypes DEF StartInv
  <1>1. events \in Seq(Events) /\ \A i \in DOMAIN events : events[i].type # "AGENT_STARTED"
    BY <1>0 DEF Event, Events, EventTypes
  <1>2. LogKept /\ NoStart
    BY <1>0, <1>1, AppendKeeps DEF CreateRun
  <1>3. taskState[FirstTask(r)] = "ABSENT"
    BY DEF CreateRun, StartInv, QueuedForAReason
  <1>4. NeverUnclaimed
    BY <1>0, <1>3 DEF CreateRun, NeverUnclaimed, Claimed, TypeOK, TerminalTask
  <1>5. QueueKept
    <2>1. NextState(InitialState, "TASK_QUEUED") # "ABSENT"
      BY NextStateType, QueuedIsAccepted, AbsentIsNoState
    <2>2. \A q \in Runs, story \in Stories : <<q, story>> # FirstTask(r)
      BY FirstAssumption DEF FirstTask
    <2>3. \A q \in Runs : q # r => FirstTask(q) # FirstTask(r)
      BY DEF FirstTask
    <2>4. /\ \A t \in Tasks : t # FirstTask(r) => taskState'[t] = taskState[t]
          /\ runState'[r] # "ABSENT" /\ \A q \in Runs : q # r => runState'[q] = runState[q]
      BY <1>0, <2>1 DEF CreateRun, TypeOK
    <2>. QED
      BY <2>2, <2>3, <2>4, TaskTypes DEF StartInv, QueuedForAReason, QueueKept
  <1>6. TokensKept /\ CallsKept /\ LoopsKept
    BY DEF CreateRun, TokensKept, CallsKept, LoopsKept, loopVars, httpVars, AboutToStart
  <1>. QED
    BY <1>0, <1>2, <1>4, <1>5, <1>6, Frame

LEMMA RuntimeStepStarts ==
  ASSUME StartInv, NEW s \in Schedulers,
         \/ CreateContainer(s) \/ CreateFails(s) \/ StartWorker(s) \/ StartFails(s)
         \/ WaitExit(s) \/ WaitTimeout(s) \/ WaitFails(s)
         \/ ReadFinished(s) \/ ReadFailing(s)
  PROVE  StartInv'
  <1>1. TypeOK'
    BY RuntimeStepType, ReadTaskType DEF StartInv
  <1>2. UNCHANGED <<runVars, taskVars, job, calls>>
    BY DEF CreateContainer, CreateFails, StartWorker, StartFails, WaitExit, WaitTimeout,
           WaitFails, ReadFinished, ReadFailing, ReadTask, Go, httpVars
  <1>3. /\ pc[s] # "idle"
        /\ \E to \in Pcs : /\ pc' = [pc EXCEPT ![s] = to]
                           /\ to \in {"claimed", "created"} => AboutToStart(s)
    BY DEF CreateContainer, CreateFails, StartWorker, StartFails, WaitExit, WaitTimeout,
           WaitFails, ReadFinished, ReadFailing, ReadTask, Go, Pcs, AboutToStart
  <1>4. LoopsKept
    BY <1>2, <1>3 DEF LoopsKept, AboutToStart, StartInv, TypeOK
  <1>5. CallsKept
    BY <1>2 DEF CallsKept
  <1>. QED
    BY <1>1, <1>2, <1>4, <1>5, RowsUnchanged, Frame DEF runVars, taskVars

LEMMA TransactionFailsStarts ==
  ASSUME StartInv, NEW s \in Schedulers, TransactionFails(s)
  PROVE  StartInv'
  <1>1. TypeOK'
    BY TransactionFailsType DEF StartInv
  <1>2. LoopsKept
    <2>1. pc[s] # "idle" /\ pc \in [Schedulers -> Pcs]
      BY DEF TransactionFails, ReadyToRecord, StartInv, TypeOK
    <2>2. CASE Go(s, "failing")
      BY <2>1, <2>2 DEF Go, LoopsKept, AboutToStart
    <2>3. CASE Rest(s)
      BY <2>1, <2>3 DEF Rest, LoopsKept, AboutToStart, StartInv, TypeOK
    <2>. QED
      BY <2>2, <2>3 DEF TransactionFails
  <1>3. CallsKept
    BY DEF CallsKept, TransactionFails, httpVars
  <1>. QED
    BY <1>1, <1>2, <1>3, RowsUnchanged, Frame DEF TransactionFails, runVars, taskVars

LEMMA CompensateKeeps ==
  ASSUME StartInv, NEW s \in Schedulers, job[s] \in Claimed,
         NEW outcome \in TerminalTask, Compensate(s, outcome)
  PROVE  NeverUnclaimed /\ LogKept /\ NoStart /\ TokensKept /\ QueueKept
  <1>. DEFINE t == job[s]
              failed == <<Event("AGENT_FAILED", t)>>
  <1>1. /\ TypeOK /\ t \in Tasks /\ RunOf(t) \in Runs /\ failed \in Seq(Events)
        /\ \A i \in DOMAIN failed : failed[i].type # "AGENT_STARTED"
    BY TaskTypes, EventType DEF StartInv, Claimed, EventTypes, Event
  <1>2. LogKept /\ NoStart /\ \A q \in Runs : runState[q] # "ABSENT" => runState'[q] # "ABSENT"
    <2>1. CASE Accepts(runState[RunOf(t)], "AGENT_FAILED")
      <3>1. AppendDriving(RunOf(t), failed, "AGENT_FAILED")
        BY <2>1 DEF Compensate
      <3>2. LogKept /\ NoStart
        BY <1>1, <3>1, AppendKeeps DEF AppendDriving
      <3>. QED
        BY <1>1, <2>1, <3>1, <3>2, DrivingKeepsRuns
    <2>2. CASE ~Accepts(runState[RunOf(t)], "AGENT_FAILED")
      BY <2>2 DEF Compensate, runVars, LogKept, NoStart
    <2>. QED
      BY <2>1, <2>2
  <1>3. taskState' = taskState \/ taskState' = [taskState EXCEPT ![t] = outcome]
    BY DEF Compensate
  <1>4. NeverUnclaimed /\ QueueKept
    BY <1>2, <1>3, EndKeeps
  <1>5. TokensKept
    BY <1>1 DEF Compensate, TokensKept, TypeOK
  <1>. QED
    BY <1>2, <1>4, <1>5

LEMMA RecordEndStarts ==
  ASSUME StartInv, NEW s \in Schedulers, RecordFinished(s) \/ RecordRuntimeFailure(s)
  PROVE  StartInv'
  <1>1. TypeOK' /\ job[s] \in Claimed
    BY RecordEndType DEF StartInv, ClaimedFirst, RecordFinished, RecordRuntimeFailure
  <1>2. Outcome(exit[s]) \in TerminalTask /\ "FAILED" \in TerminalTask
    BY DEF Outcome, TerminalTask
  <1>3. NeverUnclaimed /\ LogKept /\ NoStart /\ TokensKept /\ QueueKept
    <2>1. CASE RecordFinished(s) /\ exit[s] = "exit0"
      BY <2>1, RowsUnchanged DEF RecordFinished, runVars
    <2>2. CASE RecordFinished(s) /\ exit[s] # "exit0"
      BY <1>1, <1>2, <2>2, CompensateKeeps DEF RecordFinished
    <2>3. CASE RecordRuntimeFailure(s)
      BY <1>1, <1>2, <2>3, CompensateKeeps DEF RecordRuntimeFailure
    <2>. QED
      BY <2>1, <2>2, <2>3
  <1>4. Rest(s) /\ UNCHANGED calls
    BY DEF RecordFinished, RecordRuntimeFailure, httpVars
  <1>5. LoopsKept /\ CallsKept
    BY <1>4 DEF Rest, LoopsKept, CallsKept, AboutToStart, StartInv, TypeOK
  <1>. QED
    BY <1>1, <1>3, <1>5, Frame

LEMMA EnvironmentStarts ==
  ASSUME StartInv, NEW t \in Tasks, LeaseExpires(t) \/ Heartbeat(t) \/ WorkerExits(t)
  PROVE  StartInv'
  <1>1. TypeOK'
    BY EnvironmentType DEF StartInv
  <1>2. UNCHANGED <<runVars, taskState, token, loopVars, httpVars>>
    BY DEF LeaseExpires, Heartbeat, WorkerExits, taskVars
  <1>3. LoopsKept /\ CallsKept
    BY <1>2 DEF LoopsKept, CallsKept, loopVars, httpVars, AboutToStart
  <1>. QED
    BY <1>1, <1>2, <1>3, RowsUnchanged, Frame DEF runVars

LEMMA ArriveStarts ==
  ASSUME StartInv, NEW t \in Tasks, NEW route \in Routes, NEW key \in Keys,
         NEW payload \in Payloads, Arrive(t, route, key, payload)
  PROVE  StartInv'
  <1>1. TypeOK'
    BY ArriveType DEF StartInv
  <1>2. UNCHANGED <<runVars, taskVars, loopVars>> /\ t \in Claimed
    BY DEF Arrive, Authenticated, StartInv, ClaimedFirst
  <1>3. NeverUnclaimed /\ LogKept /\ NoStart /\ TokensKept /\ QueueKept
    BY <1>2, RowsUnchanged DEF runVars, taskVars
  <1>4. LoopsKept /\ CallsKept
    BY <1>2, <1>3 DEF LoopsKept, CallsKept, loopVars, AboutToStart, Arrive, NeverUnclaimed
  <1>. QED
    BY <1>1, <1>3, <1>4, Frame

LEMMA CrashStarts ==
  ASSUME StartInv, Crash
  PROVE  StartInv'
  <1>1. TypeOK'
    BY CrashType DEF StartInv
  <1>2. LoopsKept /\ CallsKept
    BY DEF Crash, LoopsKept, CallsKept
  <1>. QED
    BY <1>1, <1>2, RowsUnchanged, Frame DEF Crash, runVars, taskVars

\* What every callback has in common: its task is claimed, no loop moves.
LEMMA CallKeeps ==
  ASSUME StartInv, NEW c \in calls, CallStep(c)
  PROVE  TypeOK' /\ c.task \in Claimed /\ LoopsKept /\ CallsKept /\ TokensKept
  <1>1. TypeOK' /\ c.task \in Claimed
    BY SettledType, OutputType, PoOutputType, DeliveryType, FailureType
    DEF StartInv, ClaimedFirst, CallStep
  <1>2. UNCHANGED loopVars /\ Settle(c)
    BY DEF CallStep, Replay, Refuse, SubmitTaskOutput, SubmitPoOutput, SubmitDevDelivery,
           ReportWorkerFailure, Answer
  <1>3. LoopsKept /\ CallsKept
    BY <1>2 DEF LoopsKept, CallsKept, loopVars, AboutToStart, Settle
  <1>4. token' = token \/ token' = [token EXCEPT ![c.task] = FALSE]
    BY DEF CallStep, Replay, Refuse, SubmitTaskOutput, SubmitPoOutput, SubmitDevDelivery,
           ReportWorkerFailure, taskVars
  <1>5. TokensKept
    BY <1>1, <1>4 DEF TokensKept, StartInv, TypeOK, Claimed
  <1>. QED
    BY <1>1, <1>3, <1>5

LEMMA SettledStarts ==
  ASSUME StartInv, NEW c \in calls, Replay(c) \/ Refuse(c)
  PROVE  StartInv'
  <1>1. UNCHANGED <<runVars, taskVars>> /\ CallStep(c)
    BY DEF Replay, Refuse, CallStep
  <1>. QED
    BY <1>1, CallKeeps, RowsUnchanged, Frame DEF runVars, taskVars

LEMMA WriteTaskKeeps ==
  ASSUME StartInv, NEW c \in calls, NEW state \in TerminalTask,
         taskState' = WriteTask(c, state),
         \A r \in Runs : runState[r] # "ABSENT" => runState'[r] # "ABSENT"
  PROVE  NeverUnclaimed /\ QueueKept
  <1>1. c.task \in Claimed
    BY DEF StartInv, ClaimedFirst
  <1>2. taskState' = taskState \/ taskState' = [taskState EXCEPT ![c.task] = state]
    BY DEF WriteTask
  <1>. QED
    BY <1>1, <1>2, EndKeeps

LEMMA OutputStarts ==
  ASSUME StartInv, NEW c \in calls, SubmitTaskOutput(c)
  PROVE  StartInv'
  <1>. DEFINE event == OutputEvent(c.payload)
              note == IF c.payload.status = "SUCCEEDED" THEN "RUN_COMPLETED" ELSE "RUN_FAILED"
              events == <<Event(event, c.task), Event(note, NoTask)>>
              state == IF c.payload.status = "SUCCEEDED" THEN "SUCCEEDED" ELSE "FAILED"
  <1>1. /\ TypeOK /\ RunOf(c.task) \in Runs /\ events \in Seq(Events)
        /\ \A i \in DOMAIN events : events[i].type # "AGENT_STARTED"
    BY CallTypes DEF StartInv, Event, Events, EventTypes, OutputEvent
  <1>2. /\ AppendDriving(RunOf(c.task), events, event)
        /\ Accepts(runState[RunOf(c.task)], event)
        /\ taskState' = WriteTask(c, state) /\ state \in TerminalTask
        /\ CallStep(c)
    BY DEF SubmitTaskOutput, Granted, Acceptable, CallStep, TerminalTask
  <1>3. LogKept /\ NoStart
    BY <1>1, <1>2, AppendKeeps DEF AppendDriving
  <1>4. \A r \in Runs : runState[r] # "ABSENT" => runState'[r] # "ABSENT"
    BY <1>1, <1>2, DrivingKeepsRuns
  <1>5. NeverUnclaimed /\ QueueKept
    BY <1>2, <1>4, WriteTaskKeeps
  <1>. QED
    BY <1>2, <1>3, <1>5, CallKeeps, Frame

LEMMA DeliveryStarts ==
  ASSUME StartInv, NEW c \in calls, SubmitDevDelivery(c)
  PROVE  StartInv'
  <1>. DEFINE ready == c.payload.status = "READY_FOR_QA"
              type == IF ready THEN "CODE_DELIVERED" ELSE "AGENT_FAILED"
              events == <<Event("DEV_TASK_PLAN_CREATED", c.task), Event(type, c.task)>>
              state == IF ready THEN "SUCCEEDED" ELSE "FAILED"
  <1>1. /\ TypeOK /\ RunOf(c.task) \in Runs /\ events \in Seq(Events)
        /\ \A i \in DOMAIN events : events[i].type # "AGENT_STARTED"
    BY CallTypes DEF StartInv, Event, Events, EventTypes
  <1>2. /\ AppendEvents(RunOf(c.task), events)
        /\ taskState' = WriteTask(c, state) /\ state \in TerminalTask
        /\ CallStep(c)
    BY DEF SubmitDevDelivery, CallStep, TerminalTask
  <1>3. LogKept /\ NoStart /\ runState' = runState
    BY <1>1, <1>2, AppendKeeps DEF AppendEvents
  <1>4. NeverUnclaimed /\ QueueKept
    BY <1>2, <1>3, WriteTaskKeeps
  <1>. QED
    BY <1>2, <1>3, <1>4, CallKeeps, Frame

LEMMA FailureStarts ==
  ASSUME StartInv, NEW c \in calls, ReportWorkerFailure(c)
  PROVE  StartInv'
  <1>. DEFINE events == <<Event("AGENT_FAILED", c.task)>>
  <1>1. /\ TypeOK /\ RunOf(c.task) \in Runs /\ events \in Seq(Events)
        /\ \A i \in DOMAIN events : events[i].type # "AGENT_STARTED"
    BY CallTypes, EventType DEF StartInv, Event, EventTypes
  <1>2. /\ AppendDriving(RunOf(c.task), events, "AGENT_FAILED")
        /\ Accepts(runState[RunOf(c.task)], "AGENT_FAILED")
        /\ taskState' = WriteTask(c, "FAILED") /\ "FAILED" \in TerminalTask
        /\ CallStep(c)
    BY DEF ReportWorkerFailure, Granted, Acceptable, CallStep, TerminalTask
  <1>3. LogKept /\ NoStart
    BY <1>1, <1>2, AppendKeeps DEF AppendDriving
  <1>4. \A r \in Runs : runState[r] # "ABSENT" => runState'[r] # "ABSENT"
    BY <1>1, <1>2, DrivingKeepsRuns
  <1>5. NeverUnclaimed /\ QueueKept
    BY <1>2, <1>4, WriteTaskKeeps
  <1>. QED
    BY <1>2, <1>3, <1>5, CallKeeps, Frame

\* One more event after a sequence of others.
LEMMA AppendedLast ==
  ASSUME NEW events \in Seq(Events), NEW event \in Events
  PROVE  /\ events \o <<event>> \in Seq(Events)
         /\ Len(events \o <<event>>) \in DOMAIN (events \o <<event>>)
         /\ (events \o <<event>>)[Len(events \o <<event>>)] = event
         /\ \A i \in DOMAIN (events \o <<event>>) :
              \/ i \in DOMAIN events /\ (events \o <<event>>)[i] = events[i]
              \/ i = Len(events) + 1 /\ (events \o <<event>>)[i] = event
  <1>1. <<event>> \in Seq(Events) /\ Len(<<event>>) = 1 /\ <<event>>[1] = event
    OBVIOUS
  <1>2. /\ events \o <<event>> \in Seq(Events)
        /\ Len(events \o <<event>>) = Len(events) + 1
        /\ DOMAIN (events \o <<event>>) = 1 .. Len(events) + 1
        /\ DOMAIN events = 1 .. Len(events) /\ Len(events) \in Nat
    BY <1>1
  <1>3. /\ (events \o <<event>>)[Len(events) + 1] = event
        /\ \A i \in 1 .. Len(events) : (events \o <<event>>)[i] = events[i]
    BY <1>1, <1>2
  <1>. QED
    BY <1>2, <1>3

\* A PO output queues the stories of a run that has no backlog: tasks nobody
\* claimed, because only a backlog queues them.
LEMMA PoOutputStarts ==
  ASSUME StartInv, NEW c \in calls, SubmitPoOutput(c)
  PROVE  StartInv'
  <1>. DEFINE r == RunOf(c.task)
              devs == [i \in DOMAIN c.payload.stories |-> <<r, c.payload.stories[i]>>]
              frozen == [i \in DOMAIN devs |-> Event("STORY_FROZEN", devs[i])]
              last == <<Event("PO_COMPLETED", c.task)>>
              events == frozen \o last
              written == WriteTask(c, "SUCCEEDED")
  <1>1. /\ TypeOK /\ r \in Runs /\ c.task \in Claimed /\ c.task \in Tasks
        /\ c.payload.stories \in Seq(Stories)
    BY CallTypes DEF StartInv, ClaimedFirst
  <1>2. frozen \in Seq(Events) /\ last \in Seq(Events)
    BY <1>1, DevsType, EventType DEF EventTypes
  <1>3. /\ events \in Seq(Events)
        /\ \A i \in DOMAIN events : events[i].type # "AGENT_STARTED"
        /\ Len(events) \in DOMAIN events /\ events[Len(events)].type = "PO_COMPLETED"
    <2>1. \A i \in DOMAIN frozen : frozen[i].type = "STORY_FROZEN"
      BY DEF Event
    <2>2. Event("PO_COMPLETED", c.task).type = "PO_COMPLETED"
      BY DEF Event
    <2>. HIDE DEF frozen
    <2>. QED
      BY <1>1, <1>2, <2>1, <2>2, AppendedLast DEF Events, Event, EventTypes
  <1>4. /\ log' = [log EXCEPT ![r] = @ \o events] /\ runState' = runState
        /\ taskState' = [t \in Tasks |->
             IF \E i \in DOMAIN devs : devs[i] = t THEN "WAITING" ELSE written[t]]
        /\ ~HasBacklog(r) /\ CallStep(c)
    BY DEF SubmitPoOutput, AppendEvents, FrozenEvents, Granted, Acceptable, CallStep
  <1>5. LogKept /\ NoStart
    <2>. HIDE DEF events
    <2>. QED
      BY <1>1, <1>3, <1>4, AppendKeeps
  <1>6. HasBacklog(r)'
    <2>. HIDE DEF events
    <2>1. log[r] \in Seq(Events) /\ log'[r] = log[r] \o events
      BY <1>1, <1>4 DEF TypeOK
    <2>2. /\ Len(log[r]) + Len(events) \in DOMAIN log'[r]
          /\ log'[r][Len(log[r]) + Len(events)] = events[Len(events)]
      BY <1>3, <2>1
    <2>. QED
      BY <1>3, <2>2 DEF HasBacklog
  <1>7. \A i \in DOMAIN devs : \E story \in Stories : devs[i] = <<r, story>>
    BY <1>1
  <1>8. \A t \in Claimed, i \in DOMAIN devs : devs[i] # t
    BY <1>1, <1>4, <1>7 DEF StartInv, QueuedForAReason, Claimed, TerminalTask
  <1>9. written = taskState \/ written = [taskState EXCEPT ![c.task] = "SUCCEEDED"]
    BY DEF WriteTask
  <1>. HIDE DEF devs, written
  <1>10. NeverUnclaimed
    BY <1>1, <1>4, <1>8, <1>9 DEF NeverUnclaimed, Claimed, TypeOK, TerminalTask
  <1>11. QueueKept
    <2>1. \A t \in Tasks : written[t] # "ABSENT" => taskState[t] # "ABSENT"
      BY <1>1, <1>9 DEF TypeOK, Claimed, TerminalTask
    <2>2. \A q \in Runs, i \in DOMAIN devs : devs[i] # FirstTask(q)
      BY <1>7, FirstAssumption DEF FirstTask
    <2>3. \A q \in Runs : taskState'[FirstTask(q)] # "ABSENT" => runState'[q] # "ABSENT"
      BY <1>4, <2>1, <2>2, TaskTypes DEF StartInv, QueuedForAReason
    <2>4. \A q \in Runs, story \in Stories, i \in DOMAIN devs :
            devs[i] = <<q, story>> => q = r
      BY <1>7
    <2>5. \A q \in Runs, story \in Stories :
            taskState'[<<q, story>>] # "ABSENT" =>
              taskState[<<q, story>>] # "ABSENT" \/ HasBacklog(q)'
      BY <1>4, <1>6, <2>1, <2>4, TaskTypes
    <2>. QED
      BY <2>3, <2>5 DEF QueueKept
  <1>. QED
    BY <1>4, <1>5, <1>10, <1>11, CallKeeps, Frame
-----------------------------------------------------------------------------
(***************************************************************************)
(* The two steps Frame is not about.                                       *)
(***************************************************************************)
\* A claimed task was in the queue: no loop has it and no log its start.
LEMMA ClaimStarts ==
  ASSUME StartInv, NEW s \in Schedulers, NEW t \in Tasks, Claim(s, t)
  PROVE  StartInv'
  <1>1. TypeOK' /\ TypeOK
    BY ClaimType DEF StartInv
  <1>2. t \notin Claimed /\ taskState[t] # "ABSENT"
    BY DEF Claim, Claimable, Oldest, Claimed, TerminalTask
  <1>3. /\ taskState' = [taskState EXCEPT ![t] = "RUNNING"]
        /\ UNCHANGED <<runState, log, calls>>
    BY DEF Claim, runVars, httpVars
  <1>4. NeverUnclaimed /\ t \in Claimed'
    BY <1>1, <1>3 DEF NeverUnclaimed, Claimed, TypeOK
  <1>5. LogKept /\ NoStart /\ CallsKept
    BY <1>3 DEF LogKept, NoStart, CallsKept
  <1>6. QueueKept
    BY <1>1, <1>2, <1>3, TaskTypes DEF StartInv, QueuedForAReason, QueueKept, TypeOK
  <1>7. TokensKept
    BY <1>1, <1>4 DEF Claim, TokensKept, TypeOK
  <1>8. CASE container[t]
    <2>1. LoopsKept
      BY <1>8 DEF Claim, LoopsKept, AboutToStart
    <2>. QED
      BY <1>1, <1>4, <1>5, <1>6, <1>7, <2>1, Frame
  <1>9. CASE ~container[t]
    <2>1. pc' = [pc EXCEPT ![s] = "claimed"] /\ job' = [job EXCEPT ![s] = t]
      BY <1>9 DEF Claim
    <2>2. /\ pc'[s] = "claimed" /\ job'[s] = t
          /\ \A u \in Schedulers : u # s => pc'[u] = pc[u] /\ job'[u] = job[u]
      BY <1>1, <2>1 DEF TypeOK
    <2>3. ClaimedFirst'
      <3>1. \A u \in Tasks : token'[u] => u \in Claimed'
        BY <1>4, <1>7 DEF StartInv, ClaimedFirst, TokensKept, NeverUnclaimed
      <3>2. \A c \in calls' : c.task \in Claimed'
        BY <1>3, <1>4 DEF StartInv, ClaimedFirst, NeverUnclaimed
      <3>3. \A u \in Schedulers : pc'[u] # "idle" => job'[u] \in Claimed'
        BY <1>4, <2>2 DEF StartInv, ClaimedFirst, NeverUnclaimed
      <3>4. \A r \in Runs : \A i \in DOMAIN log'[r] :
              StartAt(r, i)' => log'[r][i].task \in Claimed'
        BY <1>3, <1>4 DEF StartInv, ClaimedFirst, NeverUnclaimed, StartAt
      <3>. QED
        BY <3>1, <3>2, <3>3, <3>4 DEF ClaimedFirst
    <2>4. OneLoopPerTask'
      BY <1>2, <2>2 DEF StartInv, ClaimedFirst, OneLoopPerTask
    <2>5. NotYetStarted'
      BY <1>2, <1>3, <2>2 DEF StartInv, ClaimedFirst, NotYetStarted, AboutToStart, StartAt
    <2>6. QueuedForAReason'
      BY <1>3, <1>6 DEF StartInv, QueuedForAReason, QueueKept, HasBacklog
    <2>7. OneStart'
      BY <1>3 DEF StartInv, OneStart
    <2>. QED
      BY <1>1, <2>3, <2>4, <2>5, <2>6, <2>7 DEF StartInv
  <1>. QED
    BY <1>8, <1>9

\* The start that is recorded is the first of its task, and the loop that
\* recorded it is past it.
LEMMA RecordStartedStarts ==
  ASSUME StartInv, NEW s \in Schedulers, RecordStarted(s)
  PROVE  StartInv'
  <1>. DEFINE t == job[s]
              r == RunOf(t)
              n == Len(log[r]) + 1
              started == Event("AGENT_STARTED", t)
  <1>1. TypeOK /\ TypeOK'
    BY RecordStartedType DEF StartInv
  <1>2. pc[s] # "idle" /\ AboutToStart(s) /\ t \in Claimed /\ t \in Tasks /\ r \in Runs
    BY <1>1, TaskTypes
    DEF RecordStarted, ReadyToRecord, AboutToStart, StartInv, ClaimedFirst, TypeOK
  <1>3. /\ log' = [log EXCEPT ![r] = @ \o <<started>>]
        /\ \A q \in Runs : runState[q] # "ABSENT" => runState'[q] # "ABSENT"
    <2>1. CASE Drives(t)
      <3>1. /\ Accepts(runState[r], "AGENT_STARTED")
            /\ AppendDriving(r, <<started>>, "AGENT_STARTED")
        BY <2>1 DEF RecordStarted
      <3>. QED
        BY <1>1, <1>2, <3>1, DrivingKeepsRuns DEF AppendDriving
    <2>2. CASE ~Drives(t)
      BY <2>2 DEF RecordStarted, AppendEvents
    <2>. QED
      BY <2>1, <2>2
  <1>4. /\ log[r] \in Seq(Events) /\ started \in Events
        /\ log'[r] = log[r] \o <<started>>
        /\ \A q \in Runs : q # r => log'[q] = log[q]
    BY <1>1, <1>2, <1>3 DEF TypeOK, Events, Event, EventTypes
  <1>5. \A q \in Runs : \A i \in DOMAIN log'[q] :
          \/ q = r /\ i = n /\ log'[q][i] = started
          \/ i \in DOMAIN log[q] /\ log'[q][i] = log[q][i]
    <2>. HIDE DEF started
    <2>. QED
      BY <1>2, <1>4, AppendedLast
  <1>6. LogKept
    <2>. HIDE DEF started
    <2>1. /\ DOMAIN log[r] \subseteq DOMAIN log'[r]
          /\ \A i \in DOMAIN log[r] : log'[r][i] = log[r][i]
      BY <1>4
    <2>. QED
      BY <1>4, <2>1 DEF LogKept
  <1>7. started.type = "AGENT_STARTED" /\ started.task = t
    BY DEF Event
  <1>8. /\ UNCHANGED <<taskState, token, job, calls>>
        /\ pc' = [pc EXCEPT ![s] = "recorded"]
    BY DEF RecordStarted, Go, taskVars, httpVars
  <1>9. Claimed' = Claimed
    BY <1>8 DEF Claimed
  <1>10. /\ pc'[s] = "recorded"
         /\ \A u \in Schedulers : u # s => pc'[u] = pc[u]
    BY <1>1, <1>8 DEF TypeOK
  <1>. HIDE DEF started, n
  <1>11. ClaimedFirst'
    <2>1. \A q \in Runs : \A i \in DOMAIN log'[q] :
            StartAt(q, i)' => log'[q][i].task \in Claimed
      BY <1>2, <1>5, <1>7 DEF StartInv, ClaimedFirst, StartAt
    <2>2. \A u \in Schedulers : pc'[u] # "idle" => job'[u] \in Claimed
      BY <1>2, <1>8, <1>10 DEF StartInv, ClaimedFirst
    <2>. QED
      BY <1>8, <1>9, <2>1, <2>2 DEF StartInv, ClaimedFirst
  <1>12. OneLoopPerTask'
    BY <1>2, <1>8, <1>10 DEF StartInv, OneLoopPerTask
  <1>13. NotYetStarted'
    <2>. SUFFICES ASSUME NEW u \in Schedulers, AboutToStart(u)',
                         NEW q \in Runs, NEW i \in DOMAIN log'[q], StartAt(q, i)'
                  PROVE  log'[q][i].task # job'[u]
      BY DEF NotYetStarted
    <2>1. u # s /\ AboutToStart(u) /\ pc[u] # "idle" /\ job'[u] = job[u]
      BY <1>8, <1>10 DEF AboutToStart
    <2>2. job[u] # t
      BY <1>2, <2>1 DEF StartInv, OneLoopPerTask
    <2>. QED
      BY <1>5, <1>7, <2>1, <2>2 DEF StartInv, NotYetStarted, StartAt
  <1>14. QueuedForAReason'
    <2>1. \A q \in Runs : HasBacklog(q) => HasBacklog(q)'
      BY <1>6 DEF HasBacklog, LogKept
    <2>. QED
      BY <1>3, <1>8, <2>1 DEF StartInv, QueuedForAReason
  <1>15. OneStart'
    <2>1. \A q \in Runs : \A i \in DOMAIN log[q] :
            log[q][i].type = "AGENT_STARTED" => log[q][i].task # t
      BY <1>2 DEF StartInv, NotYetStarted, StartAt
    <2>. SUFFICES ASSUME NEW q \in Runs, NEW i \in DOMAIN log'[q], NEW j \in DOMAIN log'[q],
                         log'[q][i].type = "AGENT_STARTED", log'[q][j].type = "AGENT_STARTED",
                         log'[q][i].task = log'[q][j].task
                  PROVE  i = j
      BY DEF OneStart
    <2>2. CASE i = n /\ log'[q][i] = started /\ q = r
      BY <1>5, <1>7, <2>1, <2>2
    <2>3. CASE i \in DOMAIN log[q] /\ log'[q][i] = log[q][i]
      BY <1>5, <1>7, <2>1, <2>3 DEF StartInv, OneStart
    <2>. QED
      BY <1>5, <2>2, <2>3
  <1>. QED
    BY <1>1, <1>11, <1>12, <1>13, <1>14, <1>15 DEF StartInv
-----------------------------------------------------------------------------
LEMMA StepStarts == StartInv /\ [Next]_vars => StartInv'
  <1>. SUFFICES ASSUME StartInv, [Next]_vars PROVE StartInv'
    OBVIOUS
  <1>1. CASE \E r \in Runs : CreateRun(r)
    BY <1>1, CreateRunStarts
  <1>2. ASSUME NEW s \in Schedulers, SchedulerStep(s) PROVE StartInv'
    BY <1>2, ClaimStarts, RuntimeStepStarts, RecordStartedStarts, RecordEndStarts,
       TransactionFailsStarts DEF SchedulerStep
  <1>3. ASSUME NEW t \in Tasks, LeaseExpires(t) \/ WorkerStep(t) PROVE StartInv'
    <2>1. CASE LeaseExpires(t) \/ Heartbeat(t) \/ WorkerExits(t)
      BY <2>1, EnvironmentStarts
    <2>2. CASE Submit(t)
      BY <2>2, SubmissionTypes, ArriveStarts DEF Submit
    <2>3. CASE ReportFailure(t)
      <3>1. "failure" \in Routes /\ Payload("FAILED", <<>>) \in Payloads
        BY DEF Routes, Payload, Payloads
      <3>. QED
        BY <2>3, <3>1, ArriveStarts DEF ReportFailure
    <2>. QED
      BY <1>3, <2>1, <2>2, <2>3 DEF WorkerStep
  <1>4. ASSUME NEW c \in calls, CallStep(c) PROVE StartInv'
    BY <1>4, SettledStarts, OutputStarts, PoOutputStarts, DeliveryStarts, FailureStarts
    DEF CallStep
  <1>5. CASE Crash
    BY <1>5, CrashStarts
  <1>6. CASE UNCHANGED vars
    <2>1. TypeOK'
      BY <1>6, StepType DEF StartInv
    <2>2. LoopsKept /\ CallsKept
      BY <1>6 DEF vars, LoopsKept, CallsKept, AboutToStart
    <2>. QED
      BY <1>6, <2>1, <2>2, RowsUnchanged, Frame DEF vars
  <1>. QED
    BY <1>1, <1>2, <1>3, <1>4, <1>5, <1>6 DEF Next

\* However many loops share the queue, however often the process dies and
\* whatever fails, the log of a run never holds two starts of one task: the
\* get-or-create of the execution and the claim of the row are enough.
THEOREM StartedOnce == Spec => []OneStart
  <1>1. Init => StartInv
    BY InitStarts
  <1>2. StartInv /\ [Next]_vars => StartInv'
    BY StepStarts
  <1>3. StartInv => OneStart
    BY DEF StartInv
  <1>. QED
    BY <1>1, <1>2, <1>3, PTL DEF Spec
-----------------------------------------------------------------------------
(***************************************************************************)
(* No effect without a cause: what a worker's callback recorded comes      *)
(* after the recorded start of that worker.                                *)
(*                                                                         *)
(* The log alone does not say so.  CauseInv follows a start from the log   *)
(* to the loop that may run the worker, to the worker that may call, and   *)
(* to the call that may still be recorded after its worker is gone.        *)
(***************************************************************************)
\* The tasks whose start is in the log of their run.
StartedTasks ==
  {t \in Tasks : \E i \in DOMAIN log[RunOf(t)] : log[RunOf(t)][i] = Event("AGENT_STARTED", t)}

CauseInv ==
  /\ TypeOK
  /\ \A s \in Schedulers : pc[s] = "recorded" => job[s] \in StartedTasks
  /\ \A t \in Tasks : worker[t] = "running" => t \in StartedTasks
  /\ \A c \in calls : c.task \in StartedTasks
  /\ OutcomeHasCause

\* The log of a run grows by outcomes of started tasks only.
GrowsBy(r, events) ==
  /\ events \in Seq(Events)
  /\ log' = [log EXCEPT ![r] = @ \o events]
  /\ \A i \in DOMAIN events : events[i].type \in OutcomeEvents =>
       events[i].task \in StartedTasks /\ RunOf(events[i].task) = r

LogGrows == log' = log \/ \E r \in Runs : \E events \in Seq(Events) : GrowsBy(r, events)

\* Where the events of a concatenation are.
LEMMA Concatenated ==
  ASSUME NEW old \in Seq(Events), NEW new \in Seq(Events)
  PROVE  /\ DOMAIN old = 1 .. Len(old) /\ Len(old) \in Nat
         /\ DOMAIN (old \o new) = 1 .. Len(old) + Len(new) /\ Len(new) \in Nat
         /\ \A i \in DOMAIN old : (old \o new)[i] = old[i]
         /\ \A i \in DOMAIN (old \o new) : i \notin DOMAIN old =>
              i - Len(old) \in DOMAIN new /\ (old \o new)[i] = new[i - Len(old)]
  OBVIOUS

LEMMA GrownLog ==
  ASSUME CauseInv, LogGrows
  PROVE  StartedTasks \subseteq StartedTasks' /\ OutcomeHasCause'
  <1>1. CASE log' = log
    BY <1>1 DEF CauseInv, OutcomeHasCause, StartedTasks
  <1>2. ASSUME NEW r \in Runs, NEW events \in Seq(Events), GrowsBy(r, events)
        PROVE  StartedTasks \subseteq StartedTasks' /\ OutcomeHasCause'
    <2>1. /\ log[r] \in Seq(Events) /\ log'[r] = log[r] \o events
          /\ \A q \in Runs : q # r => log'[q] = log[q]
      BY <1>2 DEF GrowsBy, CauseInv, TypeOK
    <2>2. /\ DOMAIN log[r] = 1 .. Len(log[r]) /\ Len(log[r]) \in Nat
          /\ DOMAIN log'[r] = 1 .. Len(log[r]) + Len(events) /\ Len(events) \in Nat
          /\ \A i \in DOMAIN log[r] : log'[r][i] = log[r][i]
          /\ \A i \in DOMAIN log'[r] : i \notin DOMAIN log[r] =>
               i - Len(log[r]) \in DOMAIN events /\ log'[r][i] = events[i - Len(log[r])]
      BY <2>1, Concatenated
    <2>3. \A q \in Runs : \A i \in DOMAIN log[q] : i \in DOMAIN log'[q] /\ log'[q][i] = log[q][i]
      <3>1. \A i \in DOMAIN log[r] : i \in DOMAIN log'[r] /\ log'[r][i] = log[r][i]
        BY <2>2
      <3>. QED
        BY <2>1, <3>1
    <2>4. StartedTasks \subseteq StartedTasks'
      BY <2>3, TaskTypes DEF StartedTasks
    <2>5. ASSUME NEW q \in Runs, NEW i \in DOMAIN log'[q], log'[q][i].type \in OutcomeEvents
          PROVE  \E j \in 1 .. i - 1 : log'[q][j] = Event("AGENT_STARTED", log'[q][i].task)
      <3>1. log[q] \in Seq(Events) /\ DOMAIN log[q] = 1 .. Len(log[q]) /\ Len(log[q]) \in Nat
        BY DEF CauseInv, TypeOK
      <3>2. CASE i \in DOMAIN log[q]
        <4>1. PICK j \in 1 .. i - 1 : log[q][j] = Event("AGENT_STARTED", log[q][i].task)
          BY <2>3, <2>5, <3>2 DEF CauseInv, OutcomeHasCause
        <4>2. j \in DOMAIN log[q]
          BY <3>1, <3>2, <4>1
        <4>. QED
          BY <2>3, <3>2, <4>1, <4>2
      <3>3. CASE i \notin DOMAIN log[q]
        <4>1. q = r
          BY <2>1, <3>3
        <4>2. i \in Nat /\ i > Len(log[q])
          BY <2>2, <3>3, <4>1
        <4>3. log'[q][i].task \in StartedTasks /\ RunOf(log'[q][i].task) = q
          BY <1>2, <2>2, <2>5, <3>3, <4>1 DEF GrowsBy
        <4>4. PICK j \in DOMAIN log[q] : log[q][j] = Event("AGENT_STARTED", log'[q][i].task)
          BY <4>3 DEF StartedTasks
        <4>5. j \in 1 .. i - 1 /\ log'[q][j] = log[q][j]
          BY <2>3, <3>1, <4>2, <4>4
        <4>. QED
          BY <4>4, <4>5
      <3>. QED
        BY <3>2, <3>3
    <2>6. OutcomeHasCause'
      BY <2>5 DEF OutcomeHasCause
    <2>. QED
      BY <2>4, <2>6
  <1>. QED
    BY <1>1, <1>2 DEF LogGrows
-----------------------------------------------------------------------------
(***************************************************************************)
(* What a step may do to the loops, the workers and the calls.             *)
(***************************************************************************)
NoneRecorded == \A s \in Schedulers : pc'[s] = "recorded" => pc[s] = "recorded" /\ job'[s] = job[s]

WorkersFollow == \A t \in Tasks : worker'[t] = "running" => worker[t] = "running" \/ t \in StartedTasks

CallsFollow == \A c \in calls' : c \in calls \/ c.task \in StartedTasks

LEMMA CauseFrame ==
  ASSUME CauseInv, TypeOK', LogGrows, NoneRecorded, WorkersFollow, CallsFollow
  PROVE  CauseInv'
  <1>1. StartedTasks \subseteq StartedTasks' /\ OutcomeHasCause'
    BY GrownLog
  <1>2. \A s \in Schedulers : pc'[s] = "recorded" => job'[s] \in StartedTasks'
    BY <1>1 DEF CauseInv, NoneRecorded
  <1>3. \A t \in Tasks : worker'[t] = "running" => t \in StartedTasks'
    BY <1>1 DEF CauseInv, WorkersFollow
  <1>4. \A c \in calls' : c.task \in StartedTasks'
    BY <1>1 DEF CauseInv, CallsFollow
  <1>. QED
    BY <1>1, <1>2, <1>3, <1>4 DEF CauseInv

\* Stopping a worker starts none.
LEMMA StoppedWorkers ==
  ASSUME TypeOK, NEW t \in Tasks, StopWorker(t) \/ UNCHANGED worker
  PROVE  WorkersFollow
  BY DEF StopWorker, WorkersFollow, TypeOK

LEMMA RestRecordsNothing ==
  ASSUME TypeOK, NEW s \in Schedulers, Rest(s)
  PROVE  NoneRecorded
  BY DEF Rest, NoneRecorded, TypeOK
-----------------------------------------------------------------------------
LEMMA InitCause == Init => CauseInv
  <1>. SUFFICES ASSUME Init PROVE CauseInv
    OBVIOUS
  <1>1. TypeOK
    BY InitType
  <1>2. \A r \in Runs : DOMAIN log[r] = {}
    BY DEF Init
  <1>. QED
    BY <1>1, <1>2 DEF Init, CauseInv, OutcomeHasCause

LEMMA CreateRunCause ==
  ASSUME CauseInv, NEW r \in Runs, CreateRun(r)
  PROVE  CauseInv'
  <1>. DEFINE events == << Event("RUN_CREATED", NoTask), Event("BRIEFING_RECEIVED", NoTask),
                           Event("TASK_QUEUED", FirstTask(r)) >>
  <1>1. TypeOK'
    BY CreateRunType DEF CauseInv
  <1>2. events \in Seq(Events) /\ \A i \in DOMAIN events : events[i].type \notin OutcomeEvents
    BY TaskTypes DEF Event, Events, EventTypes, OutcomeEvents
  <1>3. LogGrows
    BY <1>2 DEF CreateRun, LogGrows, GrowsBy
  <1>. QED
    BY <1>1, <1>3, CauseFrame
    DEF CreateRun, NoneRecorded, WorkersFollow, CallsFollow, loopVars, workVars, httpVars

LEMMA ClaimCause ==
  ASSUME CauseInv, NEW s \in Schedulers, NEW t \in Tasks, Claim(s, t)
  PROVE  CauseInv'
  <1>1. TypeOK' /\ LogGrows
    BY ClaimType DEF CauseInv, Claim, LogGrows, runVars
  <1>2. NoneRecorded
    BY DEF Claim, NoneRecorded, CauseInv, TypeOK
  <1>3. WorkersFollow /\ CallsFollow
    BY DEF Claim, WorkersFollow, CallsFollow, workVars, httpVars
  <1>. QED
    BY <1>1, <1>2, <1>3, CauseFrame

LEMMA RuntimeStepCause ==
  ASSUME CauseInv, NEW s \in Schedulers,
         \/ CreateContainer(s) \/ CreateFails(s) \/ StartWorker(s) \/ StartFails(s)
         \/ WaitExit(s) \/ WaitTimeout(s) \/ WaitFails(s)
         \/ ReadFinished(s) \/ ReadFailing(s)
  PROVE  CauseInv'
  <1>1. TypeOK' /\ TypeOK
    BY RuntimeStepType, ReadTaskType DEF CauseInv
  <1>2. UNCHANGED <<runVars, job, calls>>
    BY DEF CreateContainer, CreateFails, StartWorker, StartFails, WaitExit, WaitTimeout,
           WaitFails, ReadFinished, ReadFailing, ReadTask, Go, httpVars
  <1>3. \E to \in Pcs \ {"recorded"} : pc' = [pc EXCEPT ![s] = to]
    BY DEF CreateContainer, CreateFails, StartWorker, StartFails, WaitExit, WaitTimeout,
           WaitFails, ReadFinished, ReadFailing, ReadTask, Go, Pcs
  <1>4. NoneRecorded
    BY <1>1, <1>2, <1>3 DEF NoneRecorded, TypeOK
  <1>5. pc[s] # "idle" /\ job[s] \in Tasks
    BY <1>1 DEF CreateContainer, CreateFails, StartWorker, StartFails, WaitExit, WaitTimeout,
           WaitFails, ReadFinished, ReadFailing, ReadTask, TypeOK
  <1>6. WorkersFollow
    <2>1. CASE CreateContainer(s)
      BY <1>1, <2>1 DEF CreateContainer, WorkersFollow, TypeOK
    <2>2. CASE StartWorker(s)
      BY <1>1, <2>2 DEF StartWorker, WorkersFollow, TypeOK, CauseInv
    <2>3. CASE ~CreateContainer(s) /\ ~StartWorker(s)
      <3>1. StopWorker(job[s]) \/ UNCHANGED worker
        BY <2>3 DEF CreateFails, StartFails, WaitExit, WaitTimeout, WaitFails,
                    ReadFinished, ReadFailing, ReadTask, workVars
      <3>. QED
        BY <1>1, <1>5, <3>1, StoppedWorkers
    <2>. QED
      BY <2>1, <2>2, <2>3
  <1>. QED
    BY <1>1, <1>2, <1>4, <1>6, CauseFrame DEF LogGrows, CallsFollow, runVars

\* The step that makes "recorded" true puts the start in the log.
LEMMA RecordStartedCause ==
  ASSUME CauseInv, NEW s \in Schedulers, RecordStarted(s)
  PROVE  CauseInv'
  <1>. DEFINE t == job[s]
              r == RunOf(t)
              started == Event("AGENT_STARTED", t)
  <1>1. TypeOK /\ TypeOK' /\ t \in Tasks /\ r \in Runs
    BY RecordStartedType, TaskTypes DEF RecordStarted, ReadyToRecord, CauseInv, TypeOK
  <1>2. started \in Events /\ started.type \notin OutcomeEvents
    BY <1>1 DEF Event, Events, EventTypes, OutcomeEvents
  <1>3. log' = [log EXCEPT ![r] = @ \o <<started>>]
    BY DEF RecordStarted, AppendDriving, AppendEvents
  <1>4. UNCHANGED <<job, worker, calls>> /\ pc' = [pc EXCEPT ![s] = "recorded"]
    BY DEF RecordStarted, Go, workVars, httpVars
  <1>. HIDE DEF started
  <1>5. LogGrows
    <2>1. <<started>> \in Seq(Events) /\ \A i \in DOMAIN <<started>> : <<started>>[i] = started
      BY <1>2
    <2>. QED
      BY <1>1, <1>2, <1>3, <2>1 DEF LogGrows, GrowsBy
  <1>6. StartedTasks \subseteq StartedTasks' /\ OutcomeHasCause'
    BY <1>5, GrownLog
  <1>7. t \in StartedTasks'
    <2>1. log[r] \in Seq(Events) /\ log'[r] = log[r] \o <<started>>
      BY <1>1, <1>3 DEF TypeOK
    <2>2. /\ Len(log[r]) + 1 \in DOMAIN log'[r]
          /\ log'[r][Len(log[r]) + 1] = started
      BY <1>2, <2>1
    <2>. QED
      BY <1>1, <2>2 DEF StartedTasks, started
  <1>8. \A u \in Schedulers : pc'[u] = "recorded" => job'[u] \in StartedTasks'
    BY <1>1, <1>4, <1>6, <1>7 DEF CauseInv, TypeOK
  <1>9. /\ \A u \in Tasks : worker'[u] = "running" => u \in StartedTasks'
        /\ \A c \in calls' : c.task \in StartedTasks'
    BY <1>4, <1>6 DEF CauseInv
  <1>. QED
    BY <1>1, <1>6, <1>8, <1>9 DEF CauseInv

LEMMA CompensateCause ==
  ASSUME CauseInv, NEW s \in Schedulers, job[s] \in Tasks, NEW outcome,
         Compensate(s, outcome)
  PROVE  LogGrows
  <1>. DEFINE failed == <<Event("AGENT_FAILED", job[s])>>
  <1>1. /\ RunOf(job[s]) \in Runs /\ failed \in Seq(Events)
        /\ \A i \in DOMAIN failed : failed[i].type \notin OutcomeEvents
    BY TaskTypes, EventType DEF EventTypes, Event, OutcomeEvents
  <1>2. log' = log \/ log' = [log EXCEPT ![RunOf(job[s])] = @ \o failed]
    BY DEF Compensate, AppendDriving, runVars
  <1>. QED
    BY <1>1, <1>2 DEF LogGrows, GrowsBy

LEMMA RecordEndCause ==
  ASSUME CauseInv, NEW s \in Schedulers,
         RecordFinished(s) \/ RecordRuntimeFailure(s) \/ TransactionFails(s)
  PROVE  CauseInv'
  <1>1. TypeOK /\ TypeOK' /\ job[s] \in Tasks
    BY RecordEndType, TransactionFailsType
    DEF CauseInv, RecordFinished, RecordRuntimeFailure, TransactionFails, ReadyToRecord, TypeOK
  <1>2. LogGrows
    BY <1>1, CompensateCause
    DEF RecordFinished, RecordRuntimeFailure, TransactionFails, LogGrows, runVars
  <1>3. NoneRecorded
    <2>1. CASE Rest(s)
      BY <1>1, <2>1, RestRecordsNothing
    <2>2. CASE Go(s, "failing")
      BY <1>1, <2>2 DEF Go, NoneRecorded, TypeOK
    <2>. QED
      BY <2>1, <2>2 DEF RecordFinished, RecordRuntimeFailure, TransactionFails
  <1>4. WorkersFollow
    <2>1. StopWorker(job[s]) \/ UNCHANGED worker
      BY DEF RecordFinished, RecordRuntimeFailure, TransactionFails, workVars
    <2>. QED
      BY <1>1, <2>1, StoppedWorkers
  <1>5. CallsFollow
    BY DEF RecordFinished, RecordRuntimeFailure, TransactionFails, CallsFollow, httpVars
  <1>. QED
    BY <1>1, <1>2, <1>3, <1>4, <1>5, CauseFrame

LEMMA EnvironmentCause ==
  ASSUME CauseInv, NEW t \in Tasks, LeaseExpires(t) \/ Heartbeat(t) \/ WorkerExits(t)
  PROVE  CauseInv'
  <1>1. TypeOK' /\ UNCHANGED <<log, pc, job, calls>>
    BY EnvironmentType
    DEF CauseInv, LeaseExpires, Heartbeat, WorkerExits, runVars, loopVars, httpVars
  <1>2. WorkersFollow
    BY DEF LeaseExpires, Heartbeat, WorkerExits, WorkersFollow, workVars, CauseInv, TypeOK
  <1>. QED
    BY <1>1, <1>2, CauseFrame DEF LogGrows, NoneRecorded, CallsFollow

LEMMA ArriveCause ==
  ASSUME CauseInv, NEW t \in Tasks, NEW route \in Routes, NEW key \in Keys,
         NEW payload \in Payloads, Arrive(t, route, key, payload)
  PROVE  CauseInv'
  <1>1. TypeOK' /\ UNCHANGED <<log, pc, job, worker>>
    BY ArriveType DEF CauseInv, Arrive, runVars, loopVars
  <1>2. CallsFollow
    BY DEF Arrive, CallsFollow, CauseInv
  <1>. QED
    BY <1>1, <1>2, CauseFrame DEF LogGrows, NoneRecorded, WorkersFollow

LEMMA CrashCause ==
  ASSUME CauseInv, Crash
  PROVE  CauseInv'
  <1>1. TypeOK' /\ LogGrows
    BY CrashType DEF CauseInv, Crash, LogGrows, runVars
  <1>. QED
    BY <1>1, CauseFrame DEF Crash, NoneRecorded, WorkersFollow, CallsFollow, workVars

\* The events a callback records name its own task.
LEMMA CallCause ==
  ASSUME CauseInv, NEW c \in calls, CallStep(c)
  PROVE  CauseInv'
  <1>. DEFINE r == RunOf(c.task)
  <1>1. /\ TypeOK /\ TypeOK' /\ c.task \in StartedTasks /\ c.task \in Tasks /\ r \in Runs
    BY SettledType, OutputType, PoOutputType, DeliveryType, FailureType, CallTypes
    DEF CauseInv, CallStep
  <1>2. LogGrows
    <2>1. CASE Replay(c) \/ Refuse(c)
      BY <2>1 DEF Replay, Refuse, LogGrows, runVars
    <2>2. CASE SubmitTaskOutput(c)
      <3>. DEFINE note == IF c.payload.status = "SUCCEEDED" THEN "RUN_COMPLETED" ELSE "RUN_FAILED"
                  events == <<Event(OutputEvent(c.payload), c.task), Event(note, NoTask)>>
      <3>1. /\ events \in Seq(Events)
            /\ \A i \in DOMAIN events : events[i].type \in OutcomeEvents => events[i].task = c.task
        BY <1>1 DEF Event, Events, EventTypes, OutputEvent, OutcomeEvents
      <3>2. log' = [log EXCEPT ![r] = @ \o events]
        BY <2>2 DEF SubmitTaskOutput, AppendDriving
      <3>. QED
        BY <1>1, <3>1, <3>2 DEF LogGrows, GrowsBy
    <2>3. CASE SubmitPoOutput(c)
      <3>. DEFINE devs == [i \in DOMAIN c.payload.stories |-> <<r, c.payload.stories[i]>>]
                  frozen == [i \in DOMAIN devs |-> Event("STORY_FROZEN", devs[i])]
                  last == Event("PO_COMPLETED", c.task)
      <3>1. frozen \in Seq(Events) /\ last \in Events
        BY <1>1, DevsType DEF Event, Events, EventTypes
      <3>2. \A i \in DOMAIN frozen : frozen[i].type \notin OutcomeEvents
        BY DEF Event, OutcomeEvents
      <3>3. last.task = c.task
        BY DEF Event
      <3>4. log' = [log EXCEPT ![r] = @ \o (frozen \o <<last>>)]
        BY <2>3 DEF SubmitPoOutput, AppendEvents, FrozenEvents
      <3>. HIDE DEF frozen, last
      <3>5. /\ frozen \o <<last>> \in Seq(Events)
            /\ \A i \in DOMAIN (frozen \o <<last>>) :
                 \/ i \in DOMAIN frozen /\ (frozen \o <<last>>)[i] = frozen[i]
                 \/ (frozen \o <<last>>)[i] = last
        BY <3>1
      <3>. QED
        BY <1>1, <3>2, <3>3, <3>4, <3>5 DEF LogGrows, GrowsBy
    <2>4. CASE SubmitDevDelivery(c)
      <3>. DEFINE type == IF c.payload.status = "READY_FOR_QA" THEN "CODE_DELIVERED" ELSE "AGENT_FAILED"
                  events == <<Event("DEV_TASK_PLAN_CREATED", c.task), Event(type, c.task)>>
      <3>1. /\ events \in Seq(Events)
            /\ \A i \in DOMAIN events : events[i].task = c.task
        BY <1>1 DEF Event, Events, EventTypes
      <3>2. log' = [log EXCEPT ![r] = @ \o events]
        BY <2>4 DEF SubmitDevDelivery, AppendEvents
      <3>. QED
        BY <1>1, <3>1, <3>2 DEF LogGrows, GrowsBy
    <2>5. CASE ReportWorkerFailure(c)
      <3>. DEFINE events == <<Event("AGENT_FAILED", c.task)>>
      <3>1. /\ events \in Seq(Events)
            /\ \A i \in DOMAIN events : events[i].task = c.task
        BY <1>1, EventType DEF Event, EventTypes
      <3>2. log' = [log EXCEPT ![r] = @ \o events]
        BY <2>5 DEF ReportWorkerFailure, AppendDriving
      <3>. QED
        BY <1>1, <3>1, <3>2 DEF LogGrows, GrowsBy
    <2>. QED
      BY <2>1, <2>2, <2>3, <2>4, <2>5 DEF CallStep
  <1>3. UNCHANGED <<loopVars, worker>> /\ Settle(c)
    BY DEF CallStep, Replay, Refuse, SubmitTaskOutput, SubmitPoOutput, SubmitDevDelivery,
           ReportWorkerFailure, Answer, workVars
  <1>. QED
    BY <1>1, <1>2, <1>3, CauseFrame DEF NoneRecorded, WorkersFollow, CallsFollow, loopVars, Settle
-----------------------------------------------------------------------------
LEMMA StepCause == CauseInv /\ [Next]_vars => CauseInv'
  <1>. SUFFICES ASSUME CauseInv, [Next]_vars PROVE CauseInv'
    OBVIOUS
  <1>1. CASE \E r \in Runs : CreateRun(r)
    BY <1>1, CreateRunCause
  <1>2. ASSUME NEW s \in Schedulers, SchedulerStep(s) PROVE CauseInv'
    BY <1>2, ClaimCause, RuntimeStepCause, RecordStartedCause, RecordEndCause DEF SchedulerStep
  <1>3. ASSUME NEW t \in Tasks, LeaseExpires(t) \/ WorkerStep(t) PROVE CauseInv'
    <2>1. CASE LeaseExpires(t) \/ Heartbeat(t) \/ WorkerExits(t)
      BY <2>1, EnvironmentCause
    <2>2. CASE Submit(t)
      BY <2>2, SubmissionTypes, ArriveCause DEF Submit
    <2>3. CASE ReportFailure(t)
      <3>1. "failure" \in Routes /\ Payload("FAILED", <<>>) \in Payloads
        BY DEF Routes, Payload, Payloads
      <3>. QED
        BY <2>3, <3>1, ArriveCause DEF ReportFailure
    <2>. QED
      BY <1>3, <2>1, <2>2, <2>3 DEF WorkerStep
  <1>4. CASE \E c \in calls : CallStep(c)
    BY <1>4, CallCause
  <1>5. CASE Crash
    BY <1>5, CrashCause
  <1>6. CASE UNCHANGED vars
    <2>1. TypeOK'
      BY <1>6, StepType DEF CauseInv
    <2>. QED
      BY <1>6, <2>1, CauseFrame DEF vars, LogGrows, NoneRecorded, WorkersFollow, CallsFollow
  <1>. QED
    BY <1>1, <1>2, <1>3, <1>4, <1>5, <1>6 DEF Next

\* Whatever a callback recorded, the start of its worker was recorded before:
\* committing AGENT_STARTED between create and start is what ensures it.
THEOREM EffectsHaveCauses == Spec => []OutcomeHasCause
  <1>1. Init => CauseInv
    BY InitCause
  <1>2. CauseInv /\ [Next]_vars => CauseInv'
    BY StepCause
  <1>3. CauseInv => OutcomeHasCause
    BY DEF CauseInv
  <1>. QED
    BY <1>1, <1>2, <1>3, PTL DEF Spec
-----------------------------------------------------------------------------
(***************************************************************************)
(* The steps that leave runs, logs, tasks and the queue as they are, and   *)
(* the seven kinds that do not.                                            *)
(***************************************************************************)
QuietStep ==
  \/ \E s \in Schedulers :
       \/ CreateContainer(s) \/ CreateFails(s) \/ StartWorker(s) \/ StartFails(s)
       \/ WaitExit(s) \/ WaitTimeout(s) \/ WaitFails(s)
       \/ ReadFinished(s) \/ ReadFailing(s) \/ TransactionFails(s)
  \/ \E t \in Tasks : LeaseExpires(t) \/ WorkerStep(t)
  \/ \E c \in calls : Replay(c) \/ Refuse(c)
  \/ Crash
  \/ UNCHANGED vars

RowStep ==
  \/ \E r \in Runs : CreateRun(r)
  \/ \E s \in Schedulers, t \in Tasks : Claim(s, t)
  \/ \E s \in Schedulers : RecordStarted(s) \/ RecordFinished(s) \/ RecordRuntimeFailure(s)
  \/ \E c \in calls : \/ SubmitTaskOutput(c) \/ SubmitPoOutput(c) \/ SubmitDevDelivery(c)
                      \/ ReportWorkerFailure(c)

LEMMA StepKinds == [Next]_vars => QuietStep \/ RowStep
  BY DEF Next, SchedulerStep, CallStep, QuietStep, RowStep

LEMMA RestKeepsLoops ==
  ASSUME TypeOK, NEW s \in Schedulers, Rest(s)
  PROVE  LoopsKept
  BY DEF Rest, LoopsKept, AboutToStart, TypeOK

LEMMA QuietKeeps ==
  ASSUME TypeOK, QuietStep
  PROVE  UNCHANGED <<runState, log, taskState, queue, answered>> /\ LoopsKept
  <1>1. ASSUME NEW s \in Schedulers,
               \/ CreateContainer(s) \/ CreateFails(s) \/ StartWorker(s) \/ StartFails(s)
               \/ WaitExit(s) \/ WaitTimeout(s) \/ WaitFails(s)
               \/ ReadFinished(s) \/ ReadFailing(s)
        PROVE  UNCHANGED <<runState, log, taskState, queue, answered>> /\ LoopsKept
    <2>1. UNCHANGED <<runVars, taskVars, job, answered>>
      BY <1>1 DEF CreateContainer, CreateFails, StartWorker, StartFails, WaitExit, WaitTimeout,
             WaitFails, ReadFinished, ReadFailing, ReadTask, Go, httpVars
    <2>2. /\ pc[s] # "idle"
          /\ \E to \in Pcs : /\ pc' = [pc EXCEPT ![s] = to]
                             /\ to \in {"claimed", "created"} => AboutToStart(s)
      BY <1>1 DEF CreateContainer, CreateFails, StartWorker, StartFails, WaitExit, WaitTimeout,
             WaitFails, ReadFinished, ReadFailing, ReadTask, Go, Pcs, AboutToStart
    <2>. QED
      BY <2>1, <2>2 DEF LoopsKept, AboutToStart, TypeOK, runVars, taskVars
  <1>2. ASSUME NEW s \in Schedulers, TransactionFails(s)
        PROVE  UNCHANGED <<runState, log, taskState, queue, answered>> /\ LoopsKept
    <2>1. pc[s] # "idle"
      BY <1>2 DEF TransactionFails, ReadyToRecord
    <2>2. CASE Go(s, "failing")
      BY <1>2, <2>1, <2>2 DEF Go, LoopsKept, AboutToStart, TransactionFails, TypeOK, runVars, taskVars,
           httpVars
    <2>3. CASE Rest(s)
      BY <1>2, <2>3, RestKeepsLoops DEF TransactionFails, runVars, taskVars, httpVars
    <2>. QED
      BY <1>2, <2>2, <2>3 DEF TransactionFails
  <1>3. ASSUME NEW t \in Tasks, LeaseExpires(t) \/ WorkerStep(t)
        PROVE  UNCHANGED <<runState, log, taskState, queue, answered>> /\ LoopsKept
    <2>1. UNCHANGED <<runVars, taskState, queue, answered, loopVars>>
      BY <1>3 DEF LeaseExpires, WorkerStep, Heartbeat, Submit, ReportFailure, Arrive, WorkerExits,
                  taskVars, httpVars
    <2>. QED
      BY <2>1 DEF runVars, loopVars, LoopsKept, AboutToStart
  <1>4. ASSUME NEW c \in calls, Replay(c) \/ Refuse(c)
        PROVE  UNCHANGED <<runState, log, taskState, queue, answered>> /\ LoopsKept
    BY <1>4 DEF Replay, Refuse, runVars, taskVars, loopVars, LoopsKept, AboutToStart
  <1>5. CASE Crash
    BY <1>5 DEF Crash, runVars, taskVars, LoopsKept
  <1>6. CASE UNCHANGED vars
    BY <1>6 DEF vars, LoopsKept, AboutToStart
  <1>. QED
    BY <1>1, <1>2, <1>3, <1>4, <1>5, <1>6 DEF QuietStep
-----------------------------------------------------------------------------
(***************************************************************************)
(* The start of the first worker meets a run that nothing has moved.       *)
(***************************************************************************)
\* Until its first worker has started or failed, a run is where its creation
\* left it; without a row it has no log.
Unmoved ==
  /\ \A r \in Runs : HasBacklog(r) => FirstTask(r) \in StartedTasks
  /\ \A r \in Runs : taskState[FirstTask(r)] = "PENDING" => runState[r] = "WORKER_QUEUED"
  /\ \A s \in Schedulers, r \in Runs :
       AboutToStart(s) /\ job[s] = FirstTask(r) => runState[r] = "WORKER_QUEUED"
  /\ \A r \in Runs : runState[r] = "ABSENT" => log[r] = <<>>

AcceptInv == StartInv /\ CauseInv /\ Unmoved

\* A first task whose start is in the log is in the hands of no loop that has
\* still to record it, and out of the queue.
LEMMA StartedIsPast ==
  ASSUME StartInv, NEW t \in StartedTasks
  PROVE  t \in Claimed /\ \A s \in Schedulers : AboutToStart(s) => job[s] # t
  <1>1. PICK i \in DOMAIN log[RunOf(t)] : log[RunOf(t)][i] = Event("AGENT_STARTED", t)
    BY DEF StartedTasks
  <1>2. RunOf(t) \in Runs /\ StartAt(RunOf(t), i) /\ log[RunOf(t)][i].task = t
    BY <1>1, TaskTypes DEF StartedTasks, StartAt, Event
  <1>. QED
    BY <1>2 DEF StartInv, ClaimedFirst, NotYetStarted

\* A task is its run's first, or a story's that a backlog froze.
LEMMA TaskKinds ==
  \A t \in Tasks : \/ t = FirstTask(RunOf(t))
                   \/ \E story \in Stories : t = <<RunOf(t), story>>
  BY DEF Tasks, FirstTask, RunOf

LEMMA ClaimedTaskIsExplained ==
  ASSUME StartInv, NEW t \in Claimed
  PROVE  /\ t \in Tasks /\ RunOf(t) \in Runs
         /\ runState[RunOf(t)] # "ABSENT" \/ HasBacklog(RunOf(t))
         /\ t = FirstTask(RunOf(t)) \/ HasBacklog(RunOf(t))
  <1>1. t \in Tasks /\ taskState[t] # "ABSENT" /\ RunOf(t) \in Runs
    BY TaskTypes DEF Claimed, TerminalTask
  <1>. QED
    BY <1>1, TaskKinds DEF StartInv, QueuedForAReason

\* A run gets its backlog only from its first worker.
BacklogsKept ==
  \A r \in Runs : HasBacklog(r)' => HasBacklog(r) \/ FirstTask(r) \in StartedTasks

LEMMA UnmovedFrame ==
  ASSUME AcceptInv, StartInv', CauseInv', NEW t \in Claimed,
         t \in StartedTasks \/ \A s \in Schedulers : pc'[s] \in {"claimed", "created"} => job'[s] # t,
         LoopsKept, StartedTasks \subseteq StartedTasks',
         \A r \in Runs : taskState'[FirstTask(r)] = "PENDING" => taskState[FirstTask(r)] = "PENDING",
         \A r \in Runs : r # RunOf(t) => runState'[r] = runState[r] /\ log'[r] = log[r],
         BacklogsKept,
         runState[RunOf(t)] # "ABSENT" => runState'[RunOf(t)] # "ABSENT"
  PROVE  Unmoved'
  <1>. DEFINE r == RunOf(t)
  <1>1. /\ t \in Tasks /\ r \in Runs
        /\ t = FirstTask(r) \/ HasBacklog(r)
    BY ClaimedTaskIsExplained DEF AcceptInv
  <1>2. ASSUME NEW q \in Runs, HasBacklog(q)' PROVE FirstTask(q) \in StartedTasks'
    BY <1>2 DEF AcceptInv, Unmoved, BacklogsKept
  <1>3. HasBacklog(r) => FirstTask(r) \in StartedTasks
    BY <1>1 DEF AcceptInv, Unmoved
  <1>4. FirstTask(r) \in Claimed
    BY <1>1, <1>3, StartedIsPast DEF AcceptInv
  <1>5. \A s \in Schedulers : AboutToStart(s)' => job'[s] # FirstTask(r)
    <2>1. CASE FirstTask(r) \in StartedTasks
      BY <2>1, StartedIsPast DEF AcceptInv, LoopsKept, AboutToStart
    <2>2. CASE FirstTask(r) \notin StartedTasks
      BY <1>1, <1>3, <2>2 DEF AboutToStart
    <2>. QED
      BY <2>1, <2>2
  <1>6. ASSUME NEW q \in Runs, taskState'[FirstTask(q)] = "PENDING"
        PROVE  runState'[q] = "WORKER_QUEUED"
    <2>1. taskState[FirstTask(q)] = "PENDING" /\ q # r
      BY <1>4, <1>6 DEF Claimed, TerminalTask
    <2>. QED
      BY <2>1 DEF AcceptInv, Unmoved
  <1>7. ASSUME NEW s \in Schedulers, NEW q \in Runs, AboutToStart(s)', job'[s] = FirstTask(q)
        PROVE  runState'[q] = "WORKER_QUEUED"
    BY <1>5, <1>7 DEF AcceptInv, Unmoved, LoopsKept, AboutToStart
  <1>8. runState[r] # "ABSENT"
    BY <1>4, <1>1 DEF AcceptInv, StartInv, QueuedForAReason, Claimed, TerminalTask
  <1>9. \A q \in Runs : runState'[q] = "ABSENT" => log'[q] = <<>>
    BY <1>8 DEF AcceptInv, Unmoved
  <1>. QED
    BY <1>2, <1>6, <1>7, <1>9 DEF Unmoved
-----------------------------------------------------------------------------
(***************************************************************************)
(* What a step does to the run of the task it is about.                    *)
(***************************************************************************)
\* The log of r grows by events of these types, and by nothing else.
Appends(r, types) ==
  \E events \in Seq(Events) :
    /\ log' = [log EXCEPT ![r] = @ \o events]
    /\ \A i \in DOMAIN events : events[i].type \in types

\* A step about t: only its run moves, and only along the table.
ActsFor(t, types) ==
  /\ t \in Claimed
  /\ log' = log \/ Appends(RunOf(t), types)
  /\ \A r \in Runs : r # RunOf(t) => runState'[r] = runState[r]
  /\ runState[RunOf(t)] # "ABSENT" => runState'[RunOf(t)] # "ABSENT"

LEMMA AppendsGrows ==
  ASSUME TypeOK, NEW r \in Runs, NEW types, log' = log \/ Appends(r, types)
  PROVE  /\ LogKept
         /\ \A q \in Runs : q # r => log'[q] = log[q]
         /\ \A i \in DOMAIN log'[r] : i \in DOMAIN log[r] \/ log'[r][i].type \in types
  <1>1. CASE log' = log
    BY <1>1 DEF LogKept
  <1>2. ASSUME NEW events \in Seq(Events), log' = [log EXCEPT ![r] = @ \o events],
               \A i \in DOMAIN events : events[i].type \in types
        PROVE  /\ LogKept
               /\ \A q \in Runs : q # r => log'[q] = log[q]
               /\ \A i \in DOMAIN log'[r] : i \in DOMAIN log[r] \/ log'[r][i].type \in types
    <2>1. /\ log[r] \in Seq(Events) /\ log'[r] = log[r] \o events
          /\ \A q \in Runs : q # r => log'[q] = log[q]
      BY <1>2 DEF TypeOK
    <2>2. /\ \A i \in DOMAIN log[r] : i \in DOMAIN log'[r] /\ log'[r][i] = log[r][i]
          /\ \A i \in DOMAIN log'[r] : i \notin DOMAIN log[r] =>
               i - Len(log[r]) \in DOMAIN events /\ log'[r][i] = events[i - Len(log[r])]
      BY <2>1, Concatenated
    <2>. QED
      BY <1>2, <2>1, <2>2 DEF LogKept
  <1>. QED
    BY <1>1, <1>2 DEF Appends

LEMMA StartsStay ==
  ASSUME LogKept
  PROVE  StartedTasks \subseteq StartedTasks' /\ \A r \in Runs : HasBacklog(r) => HasBacklog(r)'
  BY TaskTypes DEF LogKept, StartedTasks, HasBacklog

LEMMA DrivingActs ==
  ASSUME TypeOK, NEW t \in Claimed, NEW events \in Seq(Events), NEW event, NEW types,
         AppendDriving(RunOf(t), events, event), Accepts(runState[RunOf(t)], event),
         \A i \in DOMAIN events : events[i].type \in types
  PROVE  ActsFor(t, types)
  <1>1. RunOf(t) \in Runs
    BY TaskTypes DEF Claimed
  <1>2. Appends(RunOf(t), types)
    BY DEF Appends, AppendDriving
  <1>3. \A r \in Runs : runState[r] # "ABSENT" => runState'[r] # "ABSENT"
    BY <1>1, DrivingKeepsRuns
  <1>4. \A r \in Runs : r # RunOf(t) => runState'[r] = runState[r]
    BY <1>1 DEF AppendDriving, TypeOK
  <1>. QED
    BY <1>1, <1>2, <1>3, <1>4 DEF ActsFor

LEMMA RecordingActs ==
  ASSUME NEW t \in Claimed, NEW events \in Seq(Events), NEW types,
         AppendEvents(RunOf(t), events), \A i \in DOMAIN events : events[i].type \in types
  PROVE  ActsFor(t, types)
  BY DEF ActsFor, Appends, AppendEvents

LEMMA RecordStartedActs ==
  ASSUME StartInv, NEW s \in Schedulers, RecordStarted(s)
  PROVE  ActsFor(job[s], {"AGENT_STARTED"}) /\ UNCHANGED <<taskState, queue, answered>>
  <1>. DEFINE events == <<Event("AGENT_STARTED", job[s])>>
  <1>1. job[s] \in Claimed /\ job[s] \in Tasks
    BY DEF RecordStarted, ReadyToRecord, StartInv, ClaimedFirst, Claimed
  <1>2. events \in Seq(Events) /\ \A i \in DOMAIN events : events[i].type \in {"AGENT_STARTED"}
    BY <1>1, EventType DEF EventTypes, Event
  <1>. HIDE DEF events
  <1>3. ActsFor(job[s], {"AGENT_STARTED"})
    BY <1>1, <1>2, DrivingActs, RecordingActs DEF RecordStarted, StartInv, events
  <1>. QED
    BY <1>3 DEF RecordStarted, taskVars, httpVars

LEMMA EndActs ==
  ASSUME StartInv, NEW s \in Schedulers, RecordFinished(s) \/ RecordRuntimeFailure(s)
  PROVE  /\ ActsFor(job[s], {"AGENT_FAILED"}) /\ UNCHANGED <<queue, answered>> /\ Rest(s)
         /\ \/ taskState' = taskState
            \/ \E state \in {"FAILED", "TIMED_OUT"} :
                 taskState' = [taskState EXCEPT ![job[s]] = state]
  <1>. DEFINE events == <<Event("AGENT_FAILED", job[s])>>
  <1>1. job[s] \in Claimed /\ job[s] \in Tasks
    BY DEF RecordFinished, RecordRuntimeFailure, StartInv, ClaimedFirst, Claimed
  <1>2. events \in Seq(Events) /\ \A i \in DOMAIN events : events[i].type \in {"AGENT_FAILED"}
    BY <1>1, EventType DEF EventTypes, Event
  <1>. HIDE DEF events
  <1>3. UNCHANGED runVars \/ Compensate(s, Outcome(exit[s])) \/ Compensate(s, "FAILED")
    BY DEF RecordFinished, RecordRuntimeFailure
  <1>4. ASSUME NEW outcome, Compensate(s, outcome) PROVE ActsFor(job[s], {"AGENT_FAILED"})
    <2>1. CASE Accepts(runState[RunOf(job[s])], "AGENT_FAILED")
      BY <1>1, <1>2, <1>4, <2>1, DrivingActs DEF Compensate, StartInv, events
    <2>2. CASE ~Accepts(runState[RunOf(job[s])], "AGENT_FAILED")
      BY <1>1, <1>4, <2>2 DEF Compensate, ActsFor, runVars
    <2>. QED
      BY <2>1, <2>2
  <1>5. ActsFor(job[s], {"AGENT_FAILED"})
    BY <1>1, <1>3, <1>4 DEF ActsFor, runVars
  <1>6. \/ taskState' = taskState
        \/ \E state \in {"FAILED", "TIMED_OUT"} : taskState' = [taskState EXCEPT ![job[s]] = state]
    BY DEF RecordFinished, RecordRuntimeFailure, Compensate, Outcome
  <1>. QED
    BY <1>5, <1>6 DEF RecordFinished, RecordRuntimeFailure, httpVars

LEMMA OutputActs ==
  ASSUME StartInv, NEW c \in calls, SubmitTaskOutput(c)
  PROVE  ActsFor(c.task, {"FAKE_WORKER_COMPLETED", "AGENT_FAILED", "RUN_COMPLETED", "RUN_FAILED"})
  <1>. DEFINE event == OutputEvent(c.payload)
              note == IF c.payload.status = "SUCCEEDED" THEN "RUN_COMPLETED" ELSE "RUN_FAILED"
              events == <<Event(event, c.task), Event(note, NoTask)>>
              types == {"FAKE_WORKER_COMPLETED", "AGENT_FAILED", "RUN_COMPLETED", "RUN_FAILED"}
  <1>1. TypeOK /\ c.task \in Claimed /\ c.task \in Tasks
    BY CallTypes DEF StartInv, ClaimedFirst
  <1>2. events \in Seq(Events) /\ \A i \in DOMAIN events : events[i].type \in types
    BY <1>1 DEF Event, Events, EventTypes, OutputEvent
  <1>3. /\ AppendDriving(RunOf(c.task), events, event)
        /\ Accepts(runState[RunOf(c.task)], event)
    BY DEF SubmitTaskOutput, Granted, Acceptable
  <1>. HIDE DEF events, event, types
  <1>4. ActsFor(c.task, types)
    BY <1>1, <1>2, <1>3, DrivingActs
  <1>. QED
    BY <1>4 DEF types

LEMMA FailureActs ==
  ASSUME StartInv, NEW c \in calls, ReportWorkerFailure(c)
  PROVE  ActsFor(c.task, {"AGENT_FAILED"})
  <1>. DEFINE events == <<Event("AGENT_FAILED", c.task)>>
  <1>1. TypeOK /\ c.task \in Claimed /\ c.task \in Tasks
    BY CallTypes DEF StartInv, ClaimedFirst
  <1>2. events \in Seq(Events) /\ \A i \in DOMAIN events : events[i].type \in {"AGENT_FAILED"}
    BY <1>1, EventType DEF Event, EventTypes
  <1>3. /\ AppendDriving(RunOf(c.task), events, "AGENT_FAILED")
        /\ Accepts(runState[RunOf(c.task)], "AGENT_FAILED")
    BY DEF ReportWorkerFailure, Granted, Acceptable
  <1>. HIDE DEF events
  <1>. QED
    BY <1>1, <1>2, <1>3, DrivingActs

LEMMA DeliveryActs ==
  ASSUME StartInv, NEW c \in calls, SubmitDevDelivery(c)
  PROVE  ActsFor(c.task, {"DEV_TASK_PLAN_CREATED", "CODE_DELIVERED", "AGENT_FAILED"})
  <1>. DEFINE ready == c.payload.status = "READY_FOR_QA"
              type == IF ready THEN "CODE_DELIVERED" ELSE "AGENT_FAILED"
              events == <<Event("DEV_TASK_PLAN_CREATED", c.task), Event(type, c.task)>>
              types == {"DEV_TASK_PLAN_CREATED", "CODE_DELIVERED", "AGENT_FAILED"}
  <1>1. TypeOK /\ c.task \in Claimed /\ c.task \in Tasks
    BY CallTypes DEF StartInv, ClaimedFirst
  <1>2. events \in Seq(Events) /\ \A i \in DOMAIN events : events[i].type \in types
    BY <1>1 DEF Event, Events, EventTypes
  <1>3. AppendEvents(RunOf(c.task), events)
    BY DEF SubmitDevDelivery
  <1>. HIDE DEF events, types
  <1>4. ActsFor(c.task, types)
    BY <1>1, <1>2, <1>3, RecordingActs
  <1>. QED
    BY <1>4 DEF types

\* The events of a PO output: a story frozen at each place but the last.
LEMMA FrozenEventsType ==
  ASSUME TypeOK, NEW c \in calls,
         NEW devs, devs = [i \in DOMAIN c.payload.stories |-> <<RunOf(c.task), c.payload.stories[i]>>]
  PROVE  /\ devs \in Seq(Tasks) /\ Len(devs) = Len(c.payload.stories)
         /\ FrozenEvents(c, devs) \in Seq(Events)
         /\ Len(FrozenEvents(c, devs)) = Len(devs) + 1
         /\ \A i \in 1 .. Len(devs) : FrozenEvents(c, devs)[i] = Event("STORY_FROZEN", devs[i])
         /\ FrozenEvents(c, devs)[Len(devs) + 1] = Event("PO_COMPLETED", c.task)
  <1>. DEFINE frozen == [i \in DOMAIN devs |-> Event("STORY_FROZEN", devs[i])]
              last == Event("PO_COMPLETED", c.task)
  <1>1. /\ c.task \in Tasks /\ c.payload.stories \in Seq(Stories)
        /\ devs \in Seq(Tasks) /\ frozen \in Seq(Events)
    BY CallTypes, DevsType
  <1>2. /\ DOMAIN devs = 1 .. Len(c.payload.stories)
        /\ DOMAIN frozen = 1 .. Len(devs) /\ Len(devs) = Len(c.payload.stories)
    BY <1>1
  <1>3. last \in Events /\ FrozenEvents(c, devs) = frozen \o <<last>>
    BY <1>1 DEF FrozenEvents, Event, Events, EventTypes
  <1>4. \A i \in 1 .. Len(devs) : frozen[i] = Event("STORY_FROZEN", devs[i])
    BY <1>2
  <1>. HIDE DEF frozen, last
  <1>5. Len(frozen) = Len(devs) /\ Len(devs) \in Nat
    BY <1>1, <1>2
  <1>6. <<last>> \in Seq(Events) /\ Len(<<last>>) = 1 /\ <<last>>[1] = last
    BY <1>3
  <1>7. /\ frozen \o <<last>> \in Seq(Events)
        /\ Len(frozen \o <<last>>) = Len(frozen) + 1
        /\ \A i \in 1 .. Len(frozen) : (frozen \o <<last>>)[i] = frozen[i]
        /\ (frozen \o <<last>>)[Len(frozen) + 1] = last
    BY <1>1, <1>6
  <1>. QED
    BY <1>1, <1>2, <1>3, <1>4, <1>5, <1>7 DEF last

\* A backlog is taken once, from the worker of the run's first task.
LEMMA PoOutputActs ==
  ASSUME StartInv, NEW c \in calls, SubmitPoOutput(c)
  PROVE  /\ ActsFor(c.task, {"STORY_FROZEN", "PO_COMPLETED"})
         /\ c.task = FirstTask(RunOf(c.task)) /\ ~HasBacklog(RunOf(c.task))
  <1>. DEFINE devs == [i \in DOMAIN c.payload.stories |-> <<RunOf(c.task), c.payload.stories[i]>>]
              events == FrozenEvents(c, devs)
  <1>1. TypeOK /\ c.task \in Claimed
    BY DEF StartInv, ClaimedFirst
  <1>2. events \in Seq(Events) /\ \A i \in DOMAIN events : events[i].type \in {"STORY_FROZEN", "PO_COMPLETED"}
    <2>0. devs = [i \in DOMAIN c.payload.stories |-> <<RunOf(c.task), c.payload.stories[i]>>]
      OBVIOUS
    <2>. HIDE DEF devs
    <2>. HIDE DEF events
    <2>1. /\ devs \in Seq(Tasks)
          /\ events \in Seq(Events) /\ Len(events) = Len(devs) + 1
          /\ \A i \in 1 .. Len(devs) : events[i] = Event("STORY_FROZEN", devs[i])
          /\ events[Len(devs) + 1] = Event("PO_COMPLETED", c.task)
      BY <1>1, <2>0, FrozenEventsType, Zenon DEF events
    <2>2. \A i \in DOMAIN events : i \in 1 .. Len(devs) \/ i = Len(devs) + 1
      BY <2>1
    <2>3. \A t : Event("STORY_FROZEN", t).type = "STORY_FROZEN" /\ Event("PO_COMPLETED", t).type = "PO_COMPLETED"
      BY DEF Event
    <2>. QED
      BY <2>1, <2>2, <2>3
  <1>3. AppendEvents(RunOf(c.task), events) /\ ~HasBacklog(RunOf(c.task))
    BY DEF SubmitPoOutput, Granted, Acceptable
  <1>. HIDE DEF events
  <1>4. ActsFor(c.task, {"STORY_FROZEN", "PO_COMPLETED"})
    BY <1>1, <1>2, <1>3, RecordingActs
  <1>. QED
    BY <1>1, <1>3, <1>4, ClaimedTaskIsExplained
-----------------------------------------------------------------------------
LEMMA QueuedState == NextState(InitialState, "TASK_QUEUED") = "WORKER_QUEUED"
  <1>1. <<InitialState, "TASK_QUEUED", NextState(InitialState, "TASK_QUEUED")>> \in Transitions
    BY NextStateType, QueuedIsAccepted
  <1>. QED
    BY <1>1 DEF Transitions, InitialState

\* Writing a terminal state, or none, leaves no first task in the queue that was not.
LEMMA EndingTask ==
  ASSUME TypeOK, NEW t \in Tasks, NEW state, state # "PENDING",
         taskState' = taskState \/ taskState' = [taskState EXCEPT ![t] = state]
  PROVE  \A u \in Tasks : taskState'[u] = "PENDING" => taskState[u] = "PENDING"
  BY DEF TypeOK

LEMMA InitUnmoved == Init => Unmoved
  <1>. SUFFICES ASSUME Init PROVE Unmoved
    OBVIOUS
  <1>1. \A r \in Runs : log[r] = <<>> /\ ~HasBacklog(r)
    BY DEF Init, HasBacklog
  <1>. QED
    BY <1>1, TaskTypes DEF Init, Unmoved, AboutToStart

LEMMA QuietUnmoved ==
  ASSUME AcceptInv, QuietStep
  PROVE  Unmoved'
  <1>1. UNCHANGED <<runState, log, taskState>> /\ LoopsKept
    BY QuietKeeps DEF AcceptInv, StartInv
  <1>. QED
    BY <1>1 DEF AcceptInv, Unmoved, HasBacklog, StartedTasks, LoopsKept, AboutToStart

LEMMA CreateRunUnmoved ==
  ASSUME AcceptInv, NEW r \in Runs, CreateRun(r)
  PROVE  Unmoved'
  <1>. DEFINE types == {"RUN_CREATED", "BRIEFING_RECEIVED", "TASK_QUEUED"}
              events == << Event("RUN_CREATED", NoTask), Event("BRIEFING_RECEIVED", NoTask),
                           Event("TASK_QUEUED", FirstTask(r)) >>
  <1>1. TypeOK /\ FirstTask(r) \in Tasks
    BY TaskTypes DEF AcceptInv, StartInv
  <1>2. events \in Seq(Events) /\ \A i \in DOMAIN events : events[i].type \in types
    BY <1>1 DEF Event, Events, EventTypes
  <1>3. log' = [log EXCEPT ![r] = @ \o events]
    BY DEF CreateRun
  <1>4. Appends(r, types)
    BY <1>2, <1>3 DEF Appends
  <1>5. /\ LogKept
        /\ \A q \in Runs : q # r => log'[q] = log[q]
        /\ \A i \in DOMAIN log'[r] : i \in DOMAIN log[r] \/ log'[r][i].type \in types
    BY <1>1, <1>4, AppendsGrows
  <1>6. \A q \in Runs : HasBacklog(q)' => HasBacklog(q)
    BY <1>5 DEF HasBacklog, LogKept
  <1>7. StartedTasks \subseteq StartedTasks'
    BY <1>5, StartsStay
  <1>8. /\ runState[r] = "ABSENT" /\ runState'[r] = "WORKER_QUEUED"
        /\ \A q \in Runs : q # r => runState'[q] = runState[q]
        /\ \A t \in Tasks : t # FirstTask(r) => taskState'[t] = taskState[t]
        /\ UNCHANGED <<pc, job>>
    BY <1>1, QueuedState DEF CreateRun, TypeOK, loopVars
  <1>9. \A q \in Runs : q # r => FirstTask(q) # FirstTask(r)
    BY DEF FirstTask
  <1>. QED
    BY <1>5, <1>6, <1>7, <1>8, <1>9, TaskTypes DEF AcceptInv, Unmoved, AboutToStart

LEMMA ClaimUnmoved ==
  ASSUME AcceptInv, NEW s \in Schedulers, NEW t \in Tasks, Claim(s, t)
  PROVE  Unmoved'
  <1>1. TypeOK /\ UNCHANGED <<runState, log>>
    BY DEF AcceptInv, StartInv, Claim, runVars
  <1>2. \A u \in Tasks : taskState'[u] = "PENDING" => taskState[u] = "PENDING"
    BY <1>1 DEF Claim, TypeOK
  <1>3. \A r \in Runs : t = FirstTask(r) => taskState[t] = "PENDING"
    <2>1. \A r \in Runs : RoleOf(FirstTask(r)) # "dev"
      BY RolesAssumption DEF RoleOf, FirstTask
    <2>. QED
      BY <2>1 DEF Claim, Claimable, Oldest
  <1>4. \A u \in Schedulers : AboutToStart(u)' =>
          (AboutToStart(u) /\ job'[u] = job[u]) \/ job'[u] = t
    BY <1>1 DEF Claim, AboutToStart, TypeOK
  <1>5. \A r \in Runs : HasBacklog(r)' = HasBacklog(r)
    BY <1>1 DEF HasBacklog
  <1>6. StartedTasks' = StartedTasks
    BY <1>1 DEF StartedTasks
  <1>. QED
    BY <1>1, <1>2, <1>3, <1>4, <1>5, <1>6, TaskTypes DEF AcceptInv, Unmoved

LEMMA RecordStartedUnmoved ==
  ASSUME AcceptInv, StartInv', CauseInv', NEW s \in Schedulers, RecordStarted(s)
  PROVE  Unmoved'
  <1>. SUFFICES ASSUME NEW t, t = job[s] PROVE Unmoved'
    OBVIOUS
  <1>1. TypeOK /\ ActsFor(t, {"AGENT_STARTED"}) /\ UNCHANGED taskState /\ t \in Claimed
    BY RecordStartedActs DEF AcceptInv, StartInv, ActsFor
  <1>2. RunOf(t) \in Runs
    BY <1>1, TaskTypes DEF Claimed
  <1>3. /\ LogKept /\ \A q \in Runs : q # RunOf(t) => log'[q] = log[q]
        /\ \A i \in DOMAIN log'[RunOf(t)] :
             i \in DOMAIN log[RunOf(t)] \/ log'[RunOf(t)][i].type = "AGENT_STARTED"
    BY <1>1, <1>2, AppendsGrows DEF ActsFor
  <1>4. /\ pc' = [pc EXCEPT ![s] = "recorded"] /\ job' = job
        /\ pc[s] # "idle" /\ AboutToStart(s)
    BY DEF RecordStarted, Go, ReadyToRecord, AboutToStart
  <1>5. LoopsKept
    BY <1>1, <1>4 DEF LoopsKept, AboutToStart, TypeOK
  <1>6. \A u \in Schedulers : pc'[u] \in {"claimed", "created"} => job'[u] # t
    <2>. SUFFICES ASSUME NEW u \in Schedulers, pc'[u] \in {"claimed", "created"}, job'[u] = t
                  PROVE  FALSE
      OBVIOUS
    <2>1. pc'[s] = "recorded" /\ pc[u] # "idle" /\ job[u] = t
      BY <1>1, <1>4, <1>5 DEF TypeOK, LoopsKept, AboutToStart
    <2>. QED
      BY <1>4, <2>1 DEF AcceptInv, StartInv, OneLoopPerTask, AboutToStart
  <1>7. StartedTasks \subseteq StartedTasks'
    BY <1>3, StartsStay
  <1>8. BacklogsKept
    BY <1>2, <1>3 DEF BacklogsKept, HasBacklog, LogKept
  <1>9. /\ \A q \in Runs : q # RunOf(t) => runState'[q] = runState[q] /\ log'[q] = log[q]
        /\ runState[RunOf(t)] # "ABSENT" => runState'[RunOf(t)] # "ABSENT"
    BY <1>1, <1>3 DEF ActsFor
  <1>10. \A r \in Runs : taskState'[FirstTask(r)] = "PENDING" => taskState[FirstTask(r)] = "PENDING"
    BY <1>1
  <1>. QED
    BY <1>1, <1>5, <1>6, <1>7, <1>8, <1>9, <1>10, UnmovedFrame

LEMMA EndUnmoved ==
  ASSUME AcceptInv, StartInv', CauseInv', NEW s \in Schedulers,
         RecordFinished(s) \/ RecordRuntimeFailure(s)
  PROVE  Unmoved'
  <1>. SUFFICES ASSUME NEW t, t = job[s] PROVE Unmoved'
    OBVIOUS
  <1>1. TypeOK /\ ActsFor(t, {"AGENT_FAILED"}) /\ t \in Claimed /\ Rest(s)
    BY EndActs DEF AcceptInv, StartInv, ActsFor
  <1>2. RunOf(t) \in Runs /\ t \in Tasks
    BY <1>1, TaskTypes DEF Claimed
  <1>3. /\ LogKept /\ \A q \in Runs : q # RunOf(t) => log'[q] = log[q]
        /\ \A i \in DOMAIN log'[RunOf(t)] :
             i \in DOMAIN log[RunOf(t)] \/ log'[RunOf(t)][i].type = "AGENT_FAILED"
    BY <1>1, <1>2, AppendsGrows DEF ActsFor
  <1>4. LoopsKept
    BY <1>1, RestKeepsLoops
  <1>5. pc[s] # "idle" /\ ~AboutToStart(s)
    BY DEF RecordFinished, RecordRuntimeFailure, AboutToStart
  <1>6. \A u \in Schedulers : pc'[u] \in {"claimed", "created"} => job'[u] # t
    BY <1>4, <1>5 DEF LoopsKept, AcceptInv, StartInv, OneLoopPerTask, AboutToStart
  <1>7. StartedTasks \subseteq StartedTasks'
    BY <1>3, StartsStay
  <1>8. BacklogsKept
    BY <1>2, <1>3 DEF BacklogsKept, HasBacklog, LogKept
  <1>9. \A u \in Tasks : taskState'[u] = "PENDING" => taskState[u] = "PENDING"
    BY <1>1, <1>2, EndActs, EndingTask DEF AcceptInv
  <1>10. /\ \A q \in Runs : q # RunOf(t) => runState'[q] = runState[q] /\ log'[q] = log[q]
         /\ runState[RunOf(t)] # "ABSENT" => runState'[RunOf(t)] # "ABSENT"
    BY <1>1, <1>3 DEF ActsFor
  <1>11. \A r \in Runs : taskState'[FirstTask(r)] = "PENDING" => taskState[FirstTask(r)] = "PENDING"
    BY <1>9, TaskTypes
  <1>. QED
    BY <1>1, <1>4, <1>6, <1>7, <1>8, <1>10, <1>11, UnmovedFrame

LEMMA CallUnmoved ==
  ASSUME AcceptInv, StartInv', CauseInv', NEW c \in calls,
         \/ SubmitTaskOutput(c) \/ SubmitPoOutput(c) \/ SubmitDevDelivery(c)
         \/ ReportWorkerFailure(c)
  PROVE  Unmoved'
  <1>. SUFFICES ASSUME NEW t, t = c.task PROVE Unmoved'
    OBVIOUS
  <1>. DEFINE types == EventTypes \ {"PO_COMPLETED"}
  <1>1. /\ TypeOK /\ t \in Claimed /\ t \in StartedTasks /\ LoopsKept
    BY CallKeeps DEF AcceptInv, StartInv, CauseInv, CallStep
  <1>2. RunOf(t) \in Runs /\ t \in Tasks
    BY <1>1, TaskTypes DEF Claimed
  <1>3. \/ ActsFor(t, types)
        \/ ActsFor(t, EventTypes) /\ t = FirstTask(RunOf(t))
    <2>1. \A some \in SUBSET types : ActsFor(t, some) => ActsFor(t, types)
      BY DEF ActsFor, Appends
    <2>2. \A some \in SUBSET EventTypes : ActsFor(t, some) => ActsFor(t, EventTypes)
      BY DEF ActsFor, Appends
    <2>3. /\ {"FAKE_WORKER_COMPLETED", "AGENT_FAILED", "RUN_COMPLETED", "RUN_FAILED"} \subseteq types
          /\ {"DEV_TASK_PLAN_CREATED", "CODE_DELIVERED", "AGENT_FAILED"} \subseteq types
          /\ {"AGENT_FAILED"} \subseteq types
          /\ {"STORY_FROZEN", "PO_COMPLETED"} \subseteq EventTypes
      BY DEF EventTypes
    <2>. HIDE DEF types
    <2>. QED
      BY <2>1, <2>2, <2>3, OutputActs, PoOutputActs, DeliveryActs, FailureActs DEF AcceptInv
  <1>4. ActsFor(t, EventTypes)
    BY <1>3 DEF ActsFor, Appends
  <1>5. LogKept /\ \A q \in Runs : q # RunOf(t) => log'[q] = log[q]
    BY <1>1, <1>2, <1>4, AppendsGrows DEF ActsFor
  <1>6. StartedTasks \subseteq StartedTasks'
    BY <1>5, StartsStay
  <1>7. BacklogsKept
    <2>1. CASE ActsFor(t, types)
      <3>1. \A i \in DOMAIN log'[RunOf(t)] :
              i \in DOMAIN log[RunOf(t)] \/ log'[RunOf(t)][i].type \in types
        BY <1>1, <1>2, <2>1, AppendsGrows DEF ActsFor
      <3>. QED
        BY <1>5, <3>1, <1>2 DEF BacklogsKept, HasBacklog, LogKept
    <2>2. CASE t = FirstTask(RunOf(t))
      BY <1>1, <1>2, <1>5, <2>2 DEF BacklogsKept, HasBacklog
    <2>. QED
      BY <1>3, <2>1, <2>2
  <1>8. \A r \in Runs : taskState'[FirstTask(r)] = "PENDING" => taskState[FirstTask(r)] = "PENDING"
    <2>1. CASE SubmitPoOutput(c)
      <3>. DEFINE devs == [i \in DOMAIN c.payload.stories |-> <<RunOf(t), c.payload.stories[i]>>]
      <3>1. taskState' = [u \in Tasks |->
              IF \E i \in DOMAIN devs : devs[i] = u THEN "WAITING" ELSE WriteTask(c, "SUCCEEDED")[u]]
        BY <2>1 DEF SubmitPoOutput
      <3>. HIDE DEF devs
      <3>. QED
        BY <1>1, <1>2, <3>1, TaskTypes DEF WriteTask, TypeOK
    <2>2. CASE ~SubmitPoOutput(c)
      <3>1. \E state \in {"SUCCEEDED", "FAILED"} : taskState' = WriteTask(c, state)
        BY <2>2 DEF SubmitTaskOutput, SubmitDevDelivery, ReportWorkerFailure
      <3>. QED
        BY <1>1, <1>2, <3>1, EndingTask, TaskTypes DEF WriteTask
    <2>. QED
      BY <2>1, <2>2
  <1>9. /\ \A q \in Runs : q # RunOf(t) => runState'[q] = runState[q] /\ log'[q] = log[q]
        /\ runState[RunOf(t)] # "ABSENT" => runState'[RunOf(t)] # "ABSENT"
    BY <1>4, <1>5 DEF ActsFor
  <1>. QED
    BY <1>1, <1>6, <1>7, <1>8, <1>9, UnmovedFrame

LEMMA StepAccepts == AcceptInv /\ [Next]_vars => AcceptInv'
  <1>. SUFFICES ASSUME AcceptInv, [Next]_vars PROVE AcceptInv'
    OBVIOUS
  <1>1. StartInv' /\ CauseInv'
    BY StepStarts, StepCause DEF AcceptInv
  <1>2. Unmoved'
    BY <1>1, StepKinds, QuietUnmoved, CreateRunUnmoved, ClaimUnmoved, RecordStartedUnmoved,
       EndUnmoved, CallUnmoved DEF RowStep
  <1>. QED
    BY <1>1, <1>2 DEF AcceptInv

LEMMA AcceptInductive == Spec => []AcceptInv
  <1>1. Init => AcceptInv
    BY InitStarts, InitCause, InitUnmoved DEF AcceptInv
  <1>. QED
    BY <1>1, StepAccepts, PTL DEF Spec

\* Between the claim of a first task and the record of its start nothing moves its
\* run: with the container created already, record_started does not raise
\* InvalidTransition.
THEOREM StartsAreAccepted == Spec => []StartIsAccepted
  <1>1. AcceptInv => StartIsAccepted
    <2>. SUFFICES ASSUME AcceptInv, NEW s \in Schedulers,
                         pc[s] \in {"claimed", "created"}, Drives(job[s])
                  PROVE  Accepts(runState[RunOf(job[s])], "AGENT_STARTED")
      BY DEF StartIsAccepted
    <2>1. job[s] \in Tasks
      BY DEF AcceptInv, StartInv, TypeOK
    <2>2. job[s] = FirstTask(RunOf(job[s])) /\ RunOf(job[s]) \in Runs
      BY <2>1, TaskKinds, TaskTypes, FirstAssumption DEF Drives, RoleOf
    <2>3. runState[RunOf(job[s])] = "WORKER_QUEUED"
      BY <2>2 DEF AcceptInv, Unmoved, AboutToStart
    <2>. QED
      BY <2>3 DEF Accepts, Transitions, RunStates
  <1>. QED
    BY <1>1, AcceptInductive, PTL
=============================================================================
