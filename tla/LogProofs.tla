----------------------------- MODULE LogProofs ------------------------------
(***************************************************************************)
(* What the logs of ControlPlane say, for every value of its constants: the*)
(* ledger that the runs of a single worker implement, the audit of their   *)
(* logs, the stories a backlog freezes, the outcomes of callbacks and the  *)
(* order in which dev tasks start.                                         *)
(***************************************************************************)
EXTENDS ControlPlaneProofs, FiniteSetTheorems, WellFoundedInduction

(***************************************************************************)
(* Submissions. What waits to be settled came from a worker of the role of *)
(* its task, by the route of that role.                                    *)
(***************************************************************************)
\* A callback of an output is one that a worker of the task's role submits.
Submitted ==
  \A c \in calls : c.route # "failure" =>
    c.route = Route(c.task) /\ c.payload \in Submissions(c.task)

LEMMA InitSubmitted == Init => Submitted
  BY DEF Init, Submitted

LEMMA StepSubmitted == Submitted /\ [Next]_vars => Submitted'
  <1>. SUFFICES ASSUME Submitted, [Next]_vars PROVE Submitted'
    OBVIOUS
  <1>1. CASE calls' \subseteq calls
    BY <1>1 DEF Submitted
  <1>2. ASSUME NEW t \in Tasks, Submit(t) \/ ReportFailure(t) PROVE Submitted'
    <2>1. ASSUME NEW route, NEW key, NEW payload, Arrive(t, route, key, payload),
                 route # "failure" => route = Route(t) /\ payload \in Submissions(t)
          PROVE  Submitted'
      <3>. DEFINE c == [task |-> t, n |-> sent[t] + 1, route |-> route, key |-> key,
                        payload |-> payload, seen |-> taskState[t]]
      <3>1. calls' = calls \union {c}
        BY <2>1 DEF Arrive
      <3>2. c.route # "failure" => c.route = Route(c.task) /\ c.payload \in Submissions(c.task)
        BY <2>1
      <3>. HIDE DEF c
      <3>. QED
        BY <3>1, <3>2 DEF Submitted
    <2>. QED
      BY <1>2, <2>1 DEF Submit, ReportFailure
  <1>3. CASE UNCHANGED vars
    BY <1>3, <1>1 DEF vars
  <1>4. CASE \E r \in Runs : CreateRun(r)
    BY <1>4, <1>1 DEF CreateRun, httpVars
  <1>5. ASSUME NEW s \in Schedulers, SchedulerStep(s) PROVE Submitted'
    BY <1>5, <1>1
    DEF SchedulerStep, Claim, CreateContainer, CreateFails, RecordStarted, StartWorker, StartFails,
        WaitExit, WaitTimeout, WaitFails, ReadFinished, ReadFailing, ReadTask, RecordFinished,
        RecordRuntimeFailure, TransactionFails, httpVars
  <1>6. ASSUME NEW t \in Tasks, LeaseExpires(t) \/ Heartbeat(t) \/ WorkerExits(t) PROVE Submitted'
    BY <1>6, <1>1 DEF LeaseExpires, Heartbeat, WorkerExits, httpVars
  <1>7. ASSUME NEW c \in calls, CallStep(c) PROVE Submitted'
    BY <1>7, <1>1 DEF CallStep, Replay, Refuse, SubmitTaskOutput, SubmitPoOutput, SubmitDevDelivery,
                      ReportWorkerFailure, Answer, Settle
  <1>8. CASE Crash
    BY <1>8, <1>1 DEF Crash
  <1>. QED
    BY <1>2, <1>3, <1>4, <1>5, <1>6, <1>7, <1>8 DEF Next, WorkerStep
-----------------------------------------------------------------------------
(***************************************************************************)
(* One worker does the whole run: settings.initial_task_role is not "po".  *)
(***************************************************************************)
NoBacklogs == \A r \in Runs : ~HasBacklog(r)

\* A first task that succeeded has completed its run.
SuccessCompletes ==
  \A r \in Runs : taskState[FirstTask(r)] = "SUCCEEDED" => runState[r] = "COMPLETED"

LoneInv ==
  /\ AcceptInv
  /\ Submitted
  /\ InitialRole # "po" => NoBacklogs /\ SuccessCompletes

TypesOf(events) == [i \in DOMAIN events |-> events[i].type]

\* What one transaction may write in the log of a run that one worker does.
Entries == { <<"AGENT_STARTED">>, <<"AGENT_FAILED">>,
             <<"FAKE_WORKER_COMPLETED", "RUN_COMPLETED">>, <<"AGENT_FAILED", "RUN_FAILED">> }

\* The run of t is driven by the first event of what its log gets.
Entered(t, entry) ==
  \E events \in Seq(Events) :
    /\ TypesOf(events) = entry
    /\ Accepts(runState[RunOf(t)], entry[1])
    /\ AppendDriving(RunOf(t), events, entry[1])

LEMMA LoneTasks ==
  ASSUME LoneInv, InitialRole # "po"
  PROVE  /\ \A t \in Claimed : t = FirstTask(RunOf(t)) /\ Drives(t) /\ RunOf(t) \in Runs
         /\ \A c \in calls : ~SubmitPoOutput(c) /\ ~SubmitDevDelivery(c)
  <1>1. \A t \in Claimed : t = FirstTask(RunOf(t)) /\ RunOf(t) \in Runs
    BY ClaimedTaskIsExplained DEF LoneInv, AcceptInv, NoBacklogs
  <1>2. \A t \in Claimed : RoleOf(t) = InitialRole
    BY <1>1 DEF RoleOf, FirstTask
  <1>3. \A c \in calls : c.task \in Claimed
    BY DEF LoneInv, AcceptInv, StartInv, ClaimedFirst
  <1>4. \A c \in calls : c.route \in {"failure", "outputs"}
    BY <1>2, <1>3, RolesAssumption DEF LoneInv, Submitted, Route
  <1>5. \A c \in calls : ~SubmitPoOutput(c) /\ ~SubmitDevDelivery(c)
    BY <1>4 DEF SubmitPoOutput, SubmitDevDelivery
  <1>. QED
    BY <1>1, <1>2, <1>5, RolesAssumption DEF Drives

LEMMA OneType ==
  ASSUME NEW type \in EventTypes, NEW t \in Tasks
  PROVE  TypesOf(<<Event(type, t)>>) = <<type>>
  BY DEF TypesOf, Event

LEMMA TwoTypes ==
  ASSUME NEW a \in EventTypes, NEW b \in EventTypes, NEW t, NEW u
  PROVE  TypesOf(<<Event(a, t), Event(b, u)>>) = <<a, b>>
  BY DEF TypesOf, Event

\* Every step either leaves runs and logs alone, creates a run, or enters
\* something in the log of the run of a claimed task.
LEMMA LoneSteps ==
  ASSUME LoneInv, InitialRole # "po", [Next]_vars
  PROVE  \/ UNCHANGED <<runState, log>>
         \/ \E r \in Runs : CreateRun(r)
         \/ \E t \in Claimed, entry \in Entries : Entered(t, entry)
  <1>0. StartInv /\ TypeOK
    BY DEF LoneInv, AcceptInv, StartInv
  <1>1. CASE QuietStep
    BY <1>0, <1>1, QuietKeeps
  <1>2. ASSUME NEW s \in Schedulers, NEW t \in Tasks, Claim(s, t)
        PROVE  UNCHANGED <<runState, log>>
    BY <1>2 DEF Claim, runVars
  <1>3. ASSUME NEW s \in Schedulers, RecordStarted(s)
        PROVE  \E t \in Claimed, entry \in Entries : Entered(t, entry)
    <2>1. job[s] \in Claimed /\ job[s] \in Tasks
      BY <1>0, <1>3 DEF RecordStarted, ReadyToRecord, StartInv, ClaimedFirst, Claimed
    <2>2. Drives(job[s])
      BY <2>1, LoneTasks
    <2>3. /\ Accepts(runState[RunOf(job[s])], "AGENT_STARTED")
          /\ AppendDriving(RunOf(job[s]), <<Event("AGENT_STARTED", job[s])>>, "AGENT_STARTED")
      BY <1>3, <2>2 DEF RecordStarted
    <2>4. /\ <<Event("AGENT_STARTED", job[s])>> \in Seq(Events)
          /\ TypesOf(<<Event("AGENT_STARTED", job[s])>>) = <<"AGENT_STARTED">>
      BY <2>1, EventType, OneType DEF EventTypes
    <2>5. Entered(job[s], <<"AGENT_STARTED">>)
      BY <2>3, <2>4 DEF Entered
    <2>. QED
      BY <2>1, <2>5 DEF Entries
  <1>4. ASSUME NEW s \in Schedulers, RecordFinished(s) \/ RecordRuntimeFailure(s)
        PROVE  \/ UNCHANGED <<runState, log>>
               \/ \E t \in Claimed, entry \in Entries : Entered(t, entry)
    <2>1. job[s] \in Claimed /\ job[s] \in Tasks
      BY <1>0, <1>4 DEF RecordFinished, RecordRuntimeFailure, StartInv, ClaimedFirst, Claimed
    <2>2. \/ UNCHANGED <<runState, log>>
          \/ /\ Accepts(runState[RunOf(job[s])], "AGENT_FAILED")
             /\ AppendDriving(RunOf(job[s]), <<Event("AGENT_FAILED", job[s])>>, "AGENT_FAILED")
      BY <1>4 DEF RecordFinished, RecordRuntimeFailure, Compensate, runVars
    <2>3. /\ <<Event("AGENT_FAILED", job[s])>> \in Seq(Events)
          /\ TypesOf(<<Event("AGENT_FAILED", job[s])>>) = <<"AGENT_FAILED">>
      BY <2>1, EventType, OneType DEF EventTypes
    <2>4. UNCHANGED <<runState, log>> \/ Entered(job[s], <<"AGENT_FAILED">>)
      BY <2>2, <2>3 DEF Entered
    <2>. QED
      BY <2>1, <2>4 DEF Entries
  <1>5. ASSUME NEW c \in calls, SubmitTaskOutput(c)
        PROVE  \E entry \in Entries : Entered(c.task, entry)
    <2>. DEFINE event == OutputEvent(c.payload)
                note == IF c.payload.status = "SUCCEEDED" THEN "RUN_COMPLETED" ELSE "RUN_FAILED"
                events == <<Event(event, c.task), Event(note, NoTask)>>
    <2>1. /\ Accepts(runState[RunOf(c.task)], event)
          /\ AppendDriving(RunOf(c.task), events, event)
      BY <1>5 DEF SubmitTaskOutput, Granted, Acceptable
    <2>2. event \in EventTypes /\ note \in EventTypes /\ <<event, note>> \in Entries
      BY DEF OutputEvent, EventTypes, Entries
    <2>3. c.task \in Tasks
      BY <1>0, CallTypes
    <2>4. events \in Seq(Events)
      BY <2>2, <2>3 DEF Event, Events
    <2>. HIDE DEF event, note
    <2>5. TypesOf(events) = <<event, note>>
      BY <2>2, TwoTypes
    <2>. HIDE DEF events
    <2>6. Entered(c.task, <<event, note>>)
      BY <2>1, <2>4, <2>5 DEF Entered
    <2>. QED
      BY <2>2, <2>6
  <1>6. ASSUME NEW c \in calls, ReportWorkerFailure(c)
        PROVE  \E entry \in Entries : Entered(c.task, entry)
    <2>1. /\ Accepts(runState[RunOf(c.task)], "AGENT_FAILED")
          /\ AppendDriving(RunOf(c.task), <<Event("AGENT_FAILED", c.task)>>, "AGENT_FAILED")
      BY <1>6 DEF ReportWorkerFailure, Granted, Acceptable
    <2>2. /\ <<Event("AGENT_FAILED", c.task)>> \in Seq(Events)
          /\ TypesOf(<<Event("AGENT_FAILED", c.task)>>) = <<"AGENT_FAILED">>
      BY <1>0, CallTypes, EventType, OneType DEF EventTypes
    <2>3. Entered(c.task, <<"AGENT_FAILED">>)
      BY <2>1, <2>2 DEF Entered
    <2>. QED
      BY <2>3 DEF Entries
  <1>7. \A c \in calls : c.task \in Claimed
    BY <1>0 DEF StartInv, ClaimedFirst
  <1>. QED
    BY <1>1, <1>2, <1>3, <1>4, <1>5, <1>6, <1>7, StepKinds, LoneTasks DEF RowStep

-----------------------------------------------------------------------------
(***************************************************************************)
(* The table, row by row.                                                  *)
(***************************************************************************)
LEMMA Table ==
  ASSUME NEW state
  PROVE  /\ state \in TerminalStates \union {"ABSENT"} => \A event : ~Accepts(state, event)
         /\ Accepts(state, "AGENT_STARTED") => NextState(state, "AGENT_STARTED") = "WORKER_RUNNING"
         /\ Accepts(state, "AGENT_FAILED") => NextState(state, "AGENT_FAILED") = "FAILED"
         /\ Accepts(state, "FAKE_WORKER_COMPLETED") =>
              NextState(state, "FAKE_WORKER_COMPLETED") = "COMPLETED"
  <1>1. ASSUME NEW event, Accepts(state, event)
        PROVE  <<state, event, NextState(state, event)>> \in Transitions
    BY <1>1, NextStateType
  <1>2. state \in TerminalStates \union {"ABSENT"} => \A event : ~Accepts(state, event)
    BY DEF Accepts, Transitions, TerminalStates
  <1>3. Accepts(state, "AGENT_STARTED") => NextState(state, "AGENT_STARTED") = "WORKER_RUNNING"
    BY <1>1 DEF Transitions
  <1>4. Accepts(state, "AGENT_FAILED") => NextState(state, "AGENT_FAILED") = "FAILED"
    BY <1>1 DEF Transitions
  <1>5. Accepts(state, "FAKE_WORKER_COMPLETED") =>
          NextState(state, "FAKE_WORKER_COMPLETED") = "COMPLETED"
    BY <1>1 DEF Transitions
  <1>. QED
    BY <1>2, <1>3, <1>4, <1>5

LEMMA EnteredKeeps ==
  ASSUME TypeOK, NEW t \in Claimed, NEW entry \in Entries, Entered(t, entry)
  PROVE  /\ runState[RunOf(t)] \notin TerminalStates \union {"ABSENT"}
         /\ runState'[RunOf(t)] = NextState(runState[RunOf(t)], entry[1])
         /\ \A r \in Runs : r # RunOf(t) => runState'[r] = runState[r] /\ log'[r] = log[r]
         /\ \A r \in Runs : HasBacklog(r)' => HasBacklog(r)
  <1>1. t \in Tasks /\ RunOf(t) \in Runs
    BY TaskTypes DEF Claimed
  <1>2. PICK events \in Seq(Events) :
          /\ TypesOf(events) = entry
          /\ Accepts(runState[RunOf(t)], entry[1])
          /\ AppendDriving(RunOf(t), events, entry[1])
    BY DEF Entered
  <1>3. \A i \in DOMAIN events : events[i].type \in EventTypes \ {"PO_COMPLETED"}
    <2>1. \A i \in DOMAIN entry : entry[i] \in EventTypes \ {"PO_COMPLETED"}
      BY DEF Entries, EventTypes
    <2>2. DOMAIN events = DOMAIN entry /\ \A i \in DOMAIN events : entry[i] = events[i].type
      BY <1>2 DEF TypesOf
    <2>. QED
      BY <2>1, <2>2
  <1>4. ActsFor(t, EventTypes \ {"PO_COMPLETED"})
    BY <1>2, <1>3, DrivingActs
  <1>5. /\ LogKept /\ \A q \in Runs : q # RunOf(t) => log'[q] = log[q]
        /\ \A i \in DOMAIN log'[RunOf(t)] :
             \/ i \in DOMAIN log[RunOf(t)]
             \/ log'[RunOf(t)][i].type \in EventTypes \ {"PO_COMPLETED"}
    BY <1>1, <1>4, AppendsGrows DEF ActsFor
  <1>6. \A r \in Runs : HasBacklog(r)' => HasBacklog(r)
    BY <1>1, <1>5 DEF HasBacklog, LogKept
  <1>7. /\ runState'[RunOf(t)] = NextState(runState[RunOf(t)], entry[1])
        /\ \A r \in Runs : r # RunOf(t) => runState'[r] = runState[r]
    BY <1>1, <1>2 DEF AppendDriving, TypeOK
  <1>. QED
    BY <1>2, <1>5, <1>6, <1>7, Table

LEMMA CreatedRun ==
  ASSUME TypeOK, NEW r \in Runs, CreateRun(r)
  PROVE  /\ runState[r] = "ABSENT" /\ runState' = [runState EXCEPT ![r] = "WORKER_QUEUED"]
         /\ \A q \in Runs : q # r => runState'[q] = runState[q] /\ log'[q] = log[q]
         /\ \A q \in Runs : HasBacklog(q)' => HasBacklog(q)
  <1>. DEFINE types == {"RUN_CREATED", "BRIEFING_RECEIVED", "TASK_QUEUED"}
              events == << Event("RUN_CREATED", NoTask), Event("BRIEFING_RECEIVED", NoTask),
                           Event("TASK_QUEUED", FirstTask(r)) >>
  <1>1. events \in Seq(Events) /\ \A i \in DOMAIN events : events[i].type \in types
    BY TaskTypes DEF Event, Events, EventTypes
  <1>2. Appends(r, types)
    BY <1>1 DEF Appends, CreateRun
  <1>3. /\ LogKept /\ \A q \in Runs : q # r => log'[q] = log[q]
        /\ \A i \in DOMAIN log'[r] : i \in DOMAIN log[r] \/ log'[r][i].type \in types
    BY <1>2, AppendsGrows
  <1>4. \A q \in Runs : HasBacklog(q)' => HasBacklog(q)
    BY <1>3 DEF HasBacklog, LogKept
  <1>. QED
    BY <1>3, <1>4, QueuedState DEF CreateRun, TypeOK

LEMMA LoneTerminal ==
  ASSUME LoneInv, InitialRole # "po", [Next]_vars, NEW r \in Runs, runState[r] \in TerminalStates
  PROVE  runState'[r] = runState[r] /\ log'[r] = log[r]
  <1>1. TypeOK /\ "ABSENT" \notin TerminalStates
    BY DEF LoneInv, AcceptInv, StartInv, TerminalStates
  <1>. QED
    BY <1>1, LoneSteps, EnteredKeeps, CreatedRun

\* Only the answer of a worker that succeeded makes a first task SUCCEEDED.
LEMMA OnlySuccessSucceeds ==
  ASSUME LoneInv, InitialRole # "po", [Next]_vars, NEW r \in Runs,
         taskState'[FirstTask(r)] = "SUCCEEDED"
  PROVE  taskState[FirstTask(r)] = "SUCCEEDED" \/ runState'[r] = "COMPLETED"
  <1>0. StartInv /\ TypeOK /\ FirstTask(r) \in Tasks
    BY TaskTypes DEF LoneInv, AcceptInv, StartInv
  <1>1. CASE QuietStep
    BY <1>0, <1>1, QuietKeeps
  <1>2. ASSUME NEW q \in Runs, CreateRun(q) PROVE taskState[FirstTask(r)] = "SUCCEEDED"
    BY <1>0, <1>2, TaskTypes DEF CreateRun, TypeOK
  <1>3. ASSUME NEW s \in Schedulers, NEW t \in Tasks, Claim(s, t)
        PROVE  taskState[FirstTask(r)] = "SUCCEEDED"
    BY <1>0, <1>3 DEF Claim, TypeOK
  <1>4. ASSUME NEW s \in Schedulers, RecordStarted(s) PROVE taskState[FirstTask(r)] = "SUCCEEDED"
    BY <1>4 DEF RecordStarted, taskVars
  <1>5. ASSUME NEW s \in Schedulers, RecordFinished(s) \/ RecordRuntimeFailure(s)
        PROVE  taskState[FirstTask(r)] = "SUCCEEDED"
    BY <1>0, <1>5, EndActs DEF TypeOK
  <1>6. ASSUME NEW c \in calls, ReportWorkerFailure(c) PROVE taskState[FirstTask(r)] = "SUCCEEDED"
    BY <1>0, <1>6 DEF ReportWorkerFailure, WriteTask, TypeOK
  <1>7. ASSUME NEW c \in calls, SubmitTaskOutput(c)
        PROVE  taskState[FirstTask(r)] = "SUCCEEDED" \/ runState'[r] = "COMPLETED"
    <2>1. CASE c.payload.status # "SUCCEEDED"
      BY <1>0, <1>7, <2>1 DEF SubmitTaskOutput, WriteTask, TypeOK
    <2>2. CASE c.task # FirstTask(r)
      BY <1>0, <1>7, <2>2 DEF SubmitTaskOutput, WriteTask, TypeOK
    <2>3. CASE c.payload.status = "SUCCEEDED" /\ c.task = FirstTask(r)
      <3>1. /\ Accepts(runState[r], "FAKE_WORKER_COMPLETED")
            /\ runState' = [runState EXCEPT ![r] = NextState(runState[r], "FAKE_WORKER_COMPLETED")]
        <4>1. RunOf(c.task) = r /\ OutputEvent(c.payload) = "FAKE_WORKER_COMPLETED"
          BY <2>3 DEF FirstTask, RunOf, OutputEvent
        <4>. QED
          BY <1>7, <4>1 DEF SubmitTaskOutput, AppendDriving, Granted, Acceptable
      <3>. QED
        BY <1>0, <3>1, Table DEF TypeOK
    <2>. QED
      BY <2>1, <2>2, <2>3
  <1>. QED
    BY <1>1, <1>2, <1>3, <1>4, <1>5, <1>6, <1>7, StepKinds, LoneTasks DEF RowStep

LEMMA InitLone == Init => LoneInv
  <1>1. Init => AcceptInv
    BY InitStarts, InitCause, InitUnmoved DEF AcceptInv
  <1>2. Init => NoBacklogs /\ SuccessCompletes
    BY TaskTypes DEF Init, NoBacklogs, HasBacklog, SuccessCompletes
  <1>. QED
    BY <1>1, <1>2, InitSubmitted DEF LoneInv

LEMMA StepLone == LoneInv /\ [Next]_vars => LoneInv'
  <1>. SUFFICES ASSUME LoneInv, [Next]_vars PROVE LoneInv'
    OBVIOUS
  <1>1. AcceptInv' /\ Submitted'
    BY StepAccepts, StepSubmitted DEF LoneInv
  <1>2. ASSUME InitialRole # "po" PROVE NoBacklogs' /\ SuccessCompletes'
    <2>0. TypeOK /\ NoBacklogs
      BY <1>2 DEF LoneInv, AcceptInv, StartInv
    <2>1. NoBacklogs'
      <3>1. \A r \in Runs : HasBacklog(r)' => HasBacklog(r)
        BY <1>2, <2>0, LoneSteps, EnteredKeeps, CreatedRun DEF HasBacklog
      <3>. QED
        BY <2>0, <3>1 DEF NoBacklogs
    <2>2. SuccessCompletes'
      <3>1. \A r \in Runs : runState[r] = "COMPLETED" => runState'[r] = "COMPLETED"
        BY <1>2, LoneTerminal DEF TerminalStates
      <3>. QED
        BY <1>2, <3>1, OnlySuccessSucceeds DEF LoneInv, SuccessCompletes
    <2>. QED
      BY <2>1, <2>2
  <1>. QED
    BY <1>1, <1>2 DEF LoneInv

LEMMA LoneInductive == Spec => []LoneInv
  BY InitLone, StepLone, PTL DEF Spec
-----------------------------------------------------------------------------
\* A run that one worker does is moved and logged no more once it is COMPLETED or
\* FAILED, whichever of callback, failure report and compensation comes late.
THEOREM ClosedRunsStayClosed ==
  ASSUME InitialRole # "po"
  PROVE  Spec => TerminalIsFinal
  <1>1. LoneInv /\ [Next]_vars =>
          [\A r \in Runs : runState[r] \in TerminalStates =>
             runState'[r] = runState[r] /\ log'[r] = log[r]]_vars
    BY LoneTerminal
  <1>. QED
    BY <1>1, LoneInductive, PTL DEF Spec, TerminalIsFinal

\* In such a run the answer and the compensation agree: where the run FAILED, its
\* task has not SUCCEEDED.
THEOREM FailureIsNoSuccess ==
  ASSUME InitialRole # "po"
  PROVE  Spec => []FailedRunHasNoSuccess
  <1>1. LoneInv => FailedRunHasNoSuccess
    BY DEF LoneInv, SuccessCompletes, FailedRunHasNoSuccess
  <1>. QED
    BY <1>1, LoneInductive, PTL
-----------------------------------------------------------------------------
(***************************************************************************)
(* The refinement of the ledger, step by step.                             *)
(***************************************************************************)
LEMMA TypesAppend ==
  ASSUME NEW old \in Seq(Events), NEW new \in Seq(Events)
  PROVE  /\ TypesOf(old) \in Seq(EventTypes) /\ TypesOf(new) \in Seq(EventTypes)
         /\ TypesOf(old \o new) = TypesOf(old) \o TypesOf(new)
  <1>1. \A events \in Seq(Events) :
          TypesOf(events) \in Seq(EventTypes) /\ Len(TypesOf(events)) = Len(events)
    <2>. SUFFICES ASSUME NEW events \in Seq(Events)
                  PROVE  TypesOf(events) \in Seq(EventTypes) /\ Len(TypesOf(events)) = Len(events)
      OBVIOUS
    <2>1. DOMAIN events = 1 .. Len(events) /\ Len(events) \in Nat
      OBVIOUS
    <2>2. \A i \in DOMAIN events : events[i].type \in EventTypes
      <3>1. \A i \in DOMAIN events : events[i] \in Events
        OBVIOUS
      <3>. QED
        BY <3>1 DEF Events
    <2>3. TypesOf(events) \in [1 .. Len(events) -> EventTypes]
      BY <2>1, <2>2 DEF TypesOf
    <2>. QED
      BY <2>1, <2>3
  <1>. DEFINE a == TypesOf(old)
              b == TypesOf(new)
              c == TypesOf(old \o new)
  <1>2. /\ a \in Seq(EventTypes) /\ Len(a) = Len(old)
        /\ b \in Seq(EventTypes) /\ Len(b) = Len(new)
        /\ c \in Seq(EventTypes) /\ Len(c) = Len(old) + Len(new)
    <2>1. old \o new \in Seq(Events) /\ Len(old \o new) = Len(old) + Len(new)
      OBVIOUS
    <2>. QED
      BY <1>1, <2>1
  <1>3. /\ \A i \in 1 .. Len(old) : c[i] = a[i]
        /\ \A i \in 1 .. Len(old) + Len(new) : i \notin 1 .. Len(old) => c[i] = b[i - Len(old)]
    BY Concatenated DEF TypesOf
  <1>. HIDE DEF a, b, c
  <1>4. /\ a \o b \in Seq(EventTypes) /\ Len(a \o b) = Len(c)
        /\ \A i \in 1 .. Len(c) : (a \o b)[i] = c[i]
    <2>1. Len(old) \in Nat /\ Len(new) \in Nat
      OBVIOUS
    <2>2. a \o b \in Seq(EventTypes) /\ Len(a \o b) = Len(a) + Len(b)
      BY <1>2
    <2>3. \A i \in 1 .. Len(a) : (a \o b)[i] = a[i]
      BY <1>2
    <2>4. \A i \in 1 .. Len(a) + Len(b) : i \notin 1 .. Len(a) => (a \o b)[i] = b[i - Len(a)]
      BY <1>2
    <2>. QED
      BY <1>2, <1>3, <2>1, <2>2, <2>3, <2>4
  <1>5. a \o b = c
    BY <1>2, <1>4
  <1>. QED
    BY <1>2, <1>5 DEF a, b, c

LEMMA Regrouped ==
  ASSUME NEW old \in Seq(EventTypes), NEW event \in EventTypes, NEW note \in Seq(EventTypes)
  PROVE  (old \o <<event>>) \o note = old \o (<<event>> \o note)
  <1>. DEFINE a == (old \o <<event>>) \o note
              b == old \o (<<event>> \o note)
  <1>1. /\ a \in Seq(EventTypes) /\ b \in Seq(EventTypes)
        /\ Len(a) = Len(old) + 1 + Len(note) /\ Len(b) = Len(a)
    OBVIOUS
  <1>2. \A i \in 1 .. Len(a) : a[i] = b[i]
    OBVIOUS
  <1>. HIDE DEF a, b
  <1>3. a = b
    BY <1>1, <1>2
  <1>. QED
    BY <1>3 DEF a, b

\* What a reader of the timeline sees.
History == [r \in Runs |-> TypesOf(log[r])]

LEMMA HistoryOfCreate ==
  ASSUME LoneInv, NEW r \in Runs, CreateRun(r)
  PROVE  History' = [History EXCEPT ![r] = <<"RUN_CREATED", "BRIEFING_RECEIVED", "TASK_QUEUED">>]
  <1>. DEFINE events == << Event("RUN_CREATED", NoTask), Event("BRIEFING_RECEIVED", NoTask),
                           Event("TASK_QUEUED", FirstTask(r)) >>
  <1>1. TypeOK /\ log[r] = <<>>
    BY DEF CreateRun, LoneInv, AcceptInv, StartInv, Unmoved
  <1>2. events \in Seq(Events)
    BY TaskTypes DEF Event, Events, EventTypes
  <1>3. log' = [log EXCEPT ![r] = events]
    <2>1. log' = [log EXCEPT ![r] = @ \o events]
      BY DEF CreateRun
    <2>. HIDE DEF events
    <2>. QED
      BY <1>1, <1>2, <2>1
  <1>4. TypesOf(events) = <<"RUN_CREATED", "BRIEFING_RECEIVED", "TASK_QUEUED">>
    BY DEF TypesOf, Event
  <1>. HIDE DEF events
  <1>. QED
    BY <1>1, <1>3, <1>4 DEF History, TypeOK

LEMMA HistoryOfEntry ==
  ASSUME LoneInv, NEW t \in Claimed, NEW entry \in Entries, Entered(t, entry)
  PROVE  /\ RunOf(t) \in Runs
         /\ Accepts(runState[RunOf(t)], entry[1])
         /\ runState' = [runState EXCEPT ![RunOf(t)] = NextState(runState[RunOf(t)], entry[1])]
         /\ History' = [History EXCEPT ![RunOf(t)] = @ \o entry]
         /\ TypesOf(log[RunOf(t)]) \in Seq(EventTypes)
  <1>1. TypeOK /\ RunOf(t) \in Runs
    BY TaskTypes DEF Claimed, LoneInv, AcceptInv, StartInv
  <1>2. PICK events \in Seq(Events) :
          /\ TypesOf(events) = entry
          /\ Accepts(runState[RunOf(t)], entry[1])
          /\ AppendDriving(RunOf(t), events, entry[1])
    BY DEF Entered
  <1>3. /\ log' = [log EXCEPT ![RunOf(t)] = log[RunOf(t)] \o events]
        /\ log[RunOf(t)] \in Seq(Events)
    BY <1>1, <1>2 DEF AppendDriving, TypeOK
  <1>4. /\ TypesOf(log[RunOf(t)] \o events) = TypesOf(log[RunOf(t)]) \o entry
        /\ TypesOf(log[RunOf(t)]) \in Seq(EventTypes)
    BY <1>2, <1>3, TypesAppend
  <1>5. History' = [History EXCEPT ![RunOf(t)] = @ \o entry]
    BY <1>1, <1>3, <1>4 DEF History, TypeOK
  <1>. QED
    BY <1>1, <1>2, <1>4, <1>5 DEF AppendDriving

LEMMA StepRefines ==
  ASSUME LoneInv, InitialRole # "po", [Next]_vars
  PROVE  [Ledger!LedgerNext]_(Ledger!ledger)
  <1>1. History = [r \in Runs |-> Types(r)] /\ History' = [r \in Runs |-> Types(r)]'
    BY DEF History, Types, TypesOf
  <1>2. CASE UNCHANGED <<runState, log>>
    BY <1>1, <1>2 DEF Ledger!ledger, History
  <1>3. ASSUME NEW r \in Runs, CreateRun(r) PROVE Ledger!Open(r)
    <2>1. /\ runState[r] = "ABSENT" /\ runState' = [runState EXCEPT ![r] = "WORKER_QUEUED"]
          /\ History' = [History EXCEPT ![r] = <<"RUN_CREATED", "BRIEFING_RECEIVED", "TASK_QUEUED">>]
      BY <1>3, CreatedRun, HistoryOfCreate DEF LoneInv, AcceptInv, StartInv
    <2>. QED
      BY <1>1, <2>1 DEF Ledger!Open
  <1>4. ASSUME NEW t \in Claimed, NEW entry \in Entries, Entered(t, entry)
        PROVE  Ledger!LedgerNext
    <2>. DEFINE r == RunOf(t)
    <2>1. /\ r \in Runs
          /\ Accepts(runState[r], entry[1])
          /\ runState' = [runState EXCEPT ![r] = NextState(runState[r], entry[1])]
          /\ History' = [History EXCEPT ![r] = @ \o entry]
          /\ History[r] \in Seq(EventTypes)
      BY <1>4, HistoryOfEntry DEF History
    <2>. HIDE DEF r
    <2>2. ASSUME NEW event \in EventTypes, NEW note \in Seq(EventTypes),
                 entry = <<event>> \o note
          PROVE  Ledger!Enter(r, event, note)
      <3>1. entry[1] = event
        BY <2>2
      <3>2. (History[r] \o <<event>>) \o note = History[r] \o entry
        BY <2>1, <2>2, Regrouped
      <3>3. History' = [History EXCEPT ![r] = (@ \o <<event>>) \o note]
        BY <2>1, <3>2 DEF History
      <3>. QED
        BY <1>1, <2>1, <3>1, <3>3
        DEF Ledger!Enter, Ledger!Accepts, Ledger!NextState, Ledger!RunStates, Ledger!Transitions,
            Accepts, NextState, RunStates, Transitions
    <2>3. CASE entry = <<"AGENT_STARTED">>
      <3>1. /\ entry = <<"AGENT_STARTED">> \o <<>>
            /\ "AGENT_STARTED" \in EventTypes /\ <<>> \in Seq(EventTypes)
        BY <2>3 DEF EventTypes
      <3>. QED
        BY <2>1, <2>2, <3>1 DEF Ledger!LedgerNext, Ledger!Start
    <2>4. CASE entry = <<"AGENT_FAILED">>
      <3>1. /\ entry = <<"AGENT_FAILED">> \o <<>>
            /\ "AGENT_FAILED" \in EventTypes /\ <<>> \in Seq(EventTypes)
        BY <2>4 DEF EventTypes
      <3>. QED
        BY <2>1, <2>2, <3>1 DEF Ledger!LedgerNext, Ledger!Fail
    <2>5. CASE entry = <<"FAKE_WORKER_COMPLETED", "RUN_COMPLETED">>
      <3>1. /\ entry = <<"FAKE_WORKER_COMPLETED">> \o <<"RUN_COMPLETED">>
            /\ "FAKE_WORKER_COMPLETED" \in EventTypes /\ <<"RUN_COMPLETED">> \in Seq(EventTypes)
        BY <2>5 DEF EventTypes
      <3>. QED
        BY <2>1, <2>2, <3>1 DEF Ledger!LedgerNext, Ledger!Complete
    <2>6. CASE entry = <<"AGENT_FAILED", "RUN_FAILED">>
      <3>1. /\ entry = <<"AGENT_FAILED">> \o <<"RUN_FAILED">>
            /\ "AGENT_FAILED" \in EventTypes /\ <<"RUN_FAILED">> \in Seq(EventTypes)
        BY <2>6 DEF EventTypes
      <3>. QED
        BY <2>1, <2>2, <3>1 DEF Ledger!LedgerNext, Ledger!Fail
    <2>. QED
      BY <2>3, <2>4, <2>5, <2>6 DEF Entries
  <1>. QED
    BY <1>2, <1>3, <1>4, LoneSteps DEF Ledger!LedgerNext

\* With loops, crashes, late callbacks and compensations, the runs of one worker
\* are the abstract ledger: each step opens a run, enters what moves it, or stutters.
THEOREM LedgerImplemented ==
  ASSUME InitialRole # "po"
  PROVE  Spec => RefinesLedger
  <1>1. Init => Ledger!LedgerInit
    <2>1. ASSUME Init PROVE \A r \in Runs : Types(r) = <<>>
      BY <2>1 DEF Init, Types
    <2>. QED
      BY <2>1 DEF Init, Ledger!LedgerInit
  <1>2. LoneInv /\ [Next]_vars => [Ledger!LedgerNext]_(Ledger!ledger)
    BY StepRefines
  <1>. QED
    BY <1>1, <1>2, LoneInductive, PTL DEF Spec, RefinesLedger, Ledger!LedgerSpec
-----------------------------------------------------------------------------
(***************************************************************************)
(* The audit of a log. Audited is a recursive function over the log; that  *)
(* it goes on where the audit of a shorter log ended is proved by a least  *)
(* counterexample, which needs no induction over operators: two audits that*)
(* differ do so at a least place, and there they were fed the same.        *)
(***************************************************************************)
LEMMA LessRel == OpToRel(<, Nat) = {ss \in Nat \X Nat : ss[1] < ss[2]}
  BY Zenon DEF OpToRel

\* Every set of numbers has a least one: the library's induction rule, which
\* takes the relation as a value.
LEMMA Least ==
  ASSUME NEW T \in SUBSET Nat, T # {}
  PROVE  \E x \in T : \A y \in T : x <= y
  <1>. DEFINE R == {ss \in Nat \X Nat : ss[1] < ss[2]}
  <1>1. IsWellFoundedOn(R, Nat)
    BY NatLessThanWellFounded, LessRel, Zenon
  <1>2. PICK x \in T : \A y \in T : ~(<<y, x>> \in R)
    <2>. HIDE DEF R
    <2>. QED
      BY <1>1, WFMin
  <1>3. \A y \in T : ~(y < x)
    BY <1>2
  <1>4. \A y \in T : x <= y
    <2>. TAKE y \in T
    <2>1. x \in Nat /\ y \in Nat /\ ~(y < x)
      BY <1>3
    <2>. QED
      BY <2>1
  <1>. QED
    BY <1>4

\* One step of an audit.
Fed(state, type) ==
  IF type \notin DrivingEvents THEN state
  ELSE IF Accepts(state, type) THEN NextState(state, type) ELSE "IMPOSSIBLE"

\* f is the audit of the first n of these types.
Audits(f, types, n) ==
  f = [k \in 0 .. n |-> IF k = 0 THEN InitialState ELSE Fed(f[k - 1], types[k])]

LEMMA AuditsExist ==
  ASSUME NEW types, NEW n \in Nat
  PROVE  \E f : Audits(f, types, n)
  <1>. DEFINE T == {k \in Nat : ~\E f : Audits(f, types, k)}
  <1>1. SUFFICES ASSUME T # {} PROVE FALSE
    OBVIOUS
  <1>2. PICK k \in T : \A j \in T : k <= j
    BY <1>1, Least
  <1>3. CASE k = 0
    <2>. DEFINE f == [i \in 0 .. 0 |-> InitialState]
    <2>1. f = [i \in 0 .. 0 |-> IF i = 0 THEN InitialState ELSE Fed(f[i - 1], types[i])]
      OBVIOUS
    <2>2. Audits(f, types, 0)
      BY <2>1 DEF Audits
    <2>. QED
      BY <1>2, <1>3, <2>2
  <1>4. CASE k # 0
    <2>1. k - 1 \in Nat /\ k - 1 \notin T
      BY <1>2, <1>4
    <2>2. PICK f : Audits(f, types, k - 1)
      BY <2>1
    <2>. DEFINE g == [i \in 0 .. k |-> IF i = k THEN Fed(f[k - 1], types[k]) ELSE f[i]]
    <2>3. f = [i \in 0 .. (k - 1) |-> IF i = 0 THEN InitialState ELSE Fed(f[i - 1], types[i])]
      BY <2>2 DEF Audits
    <2>4. \A i \in 0 .. k : g[i] = IF i = 0 THEN InitialState ELSE Fed(g[i - 1], types[i])
      <3>. TAKE i \in 0 .. k
      <3>1. CASE i = k
        BY <3>1, <1>4, <1>2
      <3>2. CASE i # k
        <4>1. i \in 0 .. (k - 1) /\ g[i] = f[i]
          BY <3>2, <1>2
        <4>2. i # 0 => g[i - 1] = f[i - 1]
          BY <3>2, <1>2
        <4>3. f[i] = IF i = 0 THEN InitialState ELSE Fed(f[i - 1], types[i])
          BY <2>3, <4>1
        <4>. QED
          BY <4>1, <4>2, <4>3
      <3>. QED
        BY <3>1, <3>2
    <2>5. g = [i \in 0 .. k |-> g[i]]
      OBVIOUS
    <2>. HIDE DEF g
    <2>6. Audits(g, types, k)
      BY <2>4, <2>5 DEF Audits
    <2>. QED
      BY <1>2, <2>6
  <1>. QED
    BY <1>3, <1>4

LEMMA AuditsAgree ==
  ASSUME NEW a, NEW b, NEW m \in Nat, NEW n \in Nat, m <= n, NEW f, NEW g,
         Audits(f, a, m), Audits(g, b, n), \A k \in 1 .. m : a[k] = b[k]
  PROVE  \A k \in 0 .. m : f[k] = g[k]
  <1>. DEFINE T == {k \in 0 .. m : f[k] # g[k]}
  <1>1. SUFFICES ASSUME T # {} PROVE FALSE
    OBVIOUS
  <1>2. PICK k \in T : \A j \in T : k <= j
    <2>1. T \in SUBSET Nat
      OBVIOUS
    <2>. HIDE DEF T
    <2>. QED
      BY <1>1, <2>1, Least
  <1>3. /\ f[k] = IF k = 0 THEN InitialState ELSE Fed(f[k - 1], a[k])
        /\ g[k] = IF k = 0 THEN InitialState ELSE Fed(g[k - 1], b[k])
    BY <1>2 DEF Audits
  <1>4. k # 0 => k - 1 \in 0 .. m /\ k - 1 \notin T /\ a[k] = b[k]
    BY <1>2
  <1>. QED
    BY <1>2, <1>3, <1>4

\* An audit goes on where that of the shorter log ended.
LEMMA AuditedStep ==
  ASSUME NEW types \in Seq(EventTypes), NEW type \in EventTypes
  PROVE  /\ Audited(<<>>) = InitialState
         /\ Audited(types \o <<type>>) = Fed(Audited(types), type)
  <1>1. ASSUME NEW some \in Seq(EventTypes)
        PROVE  Audits(AuditedStates(some), some, Len(some))
    <2>0. Len(some) \in Nat
      OBVIOUS
    <2>1. PICK f : Audits(f, some, Len(some))
      BY <2>0, AuditsExist
    <2>2. AuditedStates(some) = CHOOSE g : Audits(g, some, Len(some))
      BY DEF AuditedStates, Audits, Fed
    <2>. QED
      BY <2>1, <2>2
  <1>2. Audited(<<>>) = InitialState
    <2>0. <<>> \in Seq(EventTypes) /\ Len(<<>>) = 0
      OBVIOUS
    <2>1. Audits(AuditedStates(<<>>), <<>>, 0)
      BY <1>1, <2>0
    <2>. QED
      BY <2>1 DEF Audits, Audited
  <1>. DEFINE longer == types \o <<type>>
              f == AuditedStates(types)
              g == AuditedStates(longer)
              n == Len(types)
  <1>3. /\ longer \in Seq(EventTypes) /\ Len(longer) = n + 1 /\ n \in Nat
        /\ longer[n + 1] = type /\ \A k \in 1 .. n : types[k] = longer[k]
    OBVIOUS
  <1>4. Audits(f, types, n) /\ Audits(g, longer, n + 1)
    BY <1>1, <1>3
  <1>. HIDE DEF longer, f, g, n
  <1>5. f[n] = g[n]
    BY <1>3, <1>4, AuditsAgree
  <1>6. g[n + 1] = Fed(g[n], type)
    <2>1. n + 1 \in 0 .. n + 1 /\ n + 1 # 0 /\ n + 1 - 1 = n
      BY <1>3
    <2>2. g = [k \in 0 .. n + 1 |-> IF k = 0 THEN InitialState ELSE Fed(g[k - 1], longer[k])]
      BY <1>4 DEF Audits
    <2>3. \A k \in 0 .. n + 1 :
            g[k] = IF k = 0 THEN InitialState ELSE Fed(g[k - 1], longer[k])
      BY <2>2
    <2>4. PICK k \in 0 .. n + 1 : k = n + 1
      BY <2>1
    <2>5. g[k] = Fed(g[k - 1], longer[k]) /\ k - 1 = n
      BY <1>3, <2>3, <2>4
    <2>. QED
      BY <1>3, <2>4, <2>5
  <1>7. Audited(types) = f[n] /\ Audited(longer) = g[n + 1]
    BY <1>3 DEF Audited, f, g, n
  <1>. QED
    BY <1>2, <1>5, <1>6, <1>7 DEF longer
-----------------------------------------------------------------------------
LEMMA Driving ==
  /\ {"TASK_QUEUED", "AGENT_STARTED", "AGENT_FAILED", "FAKE_WORKER_COMPLETED"} \subseteq DrivingEvents
  /\ {"RUN_CREATED", "BRIEFING_RECEIVED", "RUN_COMPLETED", "RUN_FAILED"} \cap DrivingEvents = {}
  <1>1. \A type : type \in DrivingEvents <=> \E tr \in Transitions : tr[2] = type
    BY DEF DrivingEvents
  <1>2. \A tr \in Transitions :
          tr[2] \notin {"RUN_CREATED", "BRIEFING_RECEIVED", "RUN_COMPLETED", "RUN_FAILED"}
    BY DEF Transitions
  <1>3. /\ <<"RECEIVED", "TASK_QUEUED", "WORKER_QUEUED">> \in Transitions
        /\ <<"WORKER_QUEUED", "AGENT_STARTED", "WORKER_RUNNING">> \in Transitions
        /\ <<"WORKER_QUEUED", "AGENT_FAILED", "FAILED">> \in Transitions
        /\ <<"WORKER_RUNNING", "FAKE_WORKER_COMPLETED", "COMPLETED">> \in Transitions
    BY DEF Transitions
  <1>. QED
    BY <1>1, <1>2, <1>3

LEMMA SameSequence ==
  ASSUME NEW S, NEW a \in Seq(S), NEW b \in Seq(S), Len(a) = Len(b),
         \A i \in 1 .. Len(a) : a[i] = b[i]
  PROVE  a = b
  OBVIOUS

LEMMA AuditOfCreated ==
  Audited(<<"RUN_CREATED", "BRIEFING_RECEIVED", "TASK_QUEUED">>) = "WORKER_QUEUED"
  <1>. DEFINE one == <<"RUN_CREATED">>
              two == <<"RUN_CREATED", "BRIEFING_RECEIVED">>
  <1>1. {"RUN_CREATED", "BRIEFING_RECEIVED", "TASK_QUEUED"} \subseteq EventTypes
    BY DEF EventTypes
  <1>2. <<>> \in Seq(EventTypes) /\ one \in Seq(EventTypes) /\ two \in Seq(EventTypes)
    BY <1>1
  <1>3. <<>> \o <<"RUN_CREATED">> = one
    OBVIOUS
  <1>4. one \o <<"BRIEFING_RECEIVED">> = two
    <2>1. one \o <<"BRIEFING_RECEIVED">> \in Seq(EventTypes)
      BY <1>1
    <2>2. Len(one \o <<"BRIEFING_RECEIVED">>) = 2 /\ Len(two) = 2
      OBVIOUS
    <2>3. \A i \in 1 .. 2 : (one \o <<"BRIEFING_RECEIVED">>)[i] = two[i]
      OBVIOUS
    <2>. QED
      BY <1>2, <2>1, <2>2, <2>3, SameSequence
  <1>5. two \o <<"TASK_QUEUED">> = <<"RUN_CREATED", "BRIEFING_RECEIVED", "TASK_QUEUED">>
    <2>. DEFINE three == <<"RUN_CREATED", "BRIEFING_RECEIVED", "TASK_QUEUED">>
    <2>1. two \o <<"TASK_QUEUED">> \in Seq(EventTypes) /\ three \in Seq(EventTypes)
      BY <1>1
    <2>2. Len(two \o <<"TASK_QUEUED">>) = 3 /\ Len(three) = 3
      OBVIOUS
    <2>3. \A i \in 1 .. 3 : (two \o <<"TASK_QUEUED">>)[i] = three[i]
      OBVIOUS
    <2>. QED
      BY <1>2, <2>1, <2>2, <2>3, SameSequence
  <1>. HIDE DEF one, two
  <1>6. Audited(one) = InitialState
    <2>1. Audited(<<>> \o <<"RUN_CREATED">>) = Fed(Audited(<<>>), "RUN_CREATED")
      BY <1>1, <1>2, AuditedStep
    <2>. QED
      BY <1>1, <1>2, <1>3, <2>1, AuditedStep, Driving DEF Fed
  <1>7. Audited(two) = InitialState
    <2>1. Audited(one \o <<"BRIEFING_RECEIVED">>) = Fed(Audited(one), "BRIEFING_RECEIVED")
      BY <1>1, <1>2, AuditedStep
    <2>. QED
      BY <1>4, <1>6, <2>1, Driving DEF Fed
  <1>8. Audited(two \o <<"TASK_QUEUED">>) = Fed(Audited(two), "TASK_QUEUED")
    BY <1>1, <1>2, AuditedStep
  <1>. QED
    BY <1>5, <1>7, <1>8, Driving, QueuedIsAccepted, QueuedState DEF Fed

LEMMA AuditOfEntry ==
  ASSUME NEW types \in Seq(EventTypes), NEW entry \in Entries, Accepts(Audited(types), entry[1])
  PROVE  Audited(types \o entry) = NextState(Audited(types), entry[1])
  <1>1. ASSUME NEW event \in {"AGENT_STARTED", "AGENT_FAILED", "FAKE_WORKER_COMPLETED"},
               event = entry[1]
        PROVE  /\ event \in EventTypes
               /\ Audited(types \o <<event>>) = NextState(Audited(types), entry[1])
    <2>1. event \in EventTypes /\ event \in DrivingEvents
      BY Driving DEF EventTypes
    <2>. QED
      BY <1>1, <2>1, AuditedStep DEF Fed
  <1>2. CASE entry = <<"AGENT_STARTED">> \/ entry = <<"AGENT_FAILED">>
    BY <1>1, <1>2
  <1>3. ASSUME NEW note \in {"RUN_COMPLETED", "RUN_FAILED"},
               NEW event \in {"AGENT_FAILED", "FAKE_WORKER_COMPLETED"},
               entry = <<event, note>>
        PROVE  Audited(types \o entry) = NextState(Audited(types), entry[1])
    <2>1. /\ event = entry[1] /\ entry = <<event>> \o <<note>>
          /\ note \in EventTypes /\ note \notin DrivingEvents
          /\ event \in EventTypes /\ <<note>> \in Seq(EventTypes)
      BY <1>3, Driving DEF EventTypes
    <2>2. Audited(types \o <<event>>) = NextState(Audited(types), entry[1])
      BY <1>1, <2>1
    <2>3. (types \o <<event>>) \o <<note>> = types \o entry
      BY <2>1, Regrouped
    <2>4. types \o <<event>> \in Seq(EventTypes)
      BY <2>1
    <2>5. Audited((types \o <<event>>) \o <<note>>) = Fed(Audited(types \o <<event>>), note)
      BY <2>1, <2>4, AuditedStep
    <2>. QED
      BY <2>1, <2>2, <2>3, <2>5 DEF Fed
  <1>. QED
    BY <1>2, <1>3 DEF Entries

LEMMA StepAudited ==
  ASSUME LoneInv, InitialRole # "po", [Next]_vars, LogIsAuditable
  PROVE  LogIsAuditable'
  <1>1. /\ \A r \in Runs : Types(r) = History[r] /\ Types(r)' = History'[r]
        /\ TypeOK
    BY DEF Types, TypesOf, History, LoneInv, AcceptInv, StartInv
  <1>2. CASE UNCHANGED <<runState, log>>
    BY <1>2 DEF LogIsAuditable, Types
  <1>3. ASSUME NEW r \in Runs, CreateRun(r) PROVE LogIsAuditable'
    <2>1. /\ History' = [History EXCEPT ![r] = <<"RUN_CREATED", "BRIEFING_RECEIVED", "TASK_QUEUED">>]
          /\ runState' = [runState EXCEPT ![r] = "WORKER_QUEUED"]
      BY <1>1, <1>3, CreatedRun, HistoryOfCreate
    <2>2. /\ History'[r] = <<"RUN_CREATED", "BRIEFING_RECEIVED", "TASK_QUEUED">>
          /\ runState'[r] = "WORKER_QUEUED"
          /\ \A q \in Runs : q # r => History'[q] = History[q] /\ runState'[q] = runState[q]
      BY <1>1, <2>1 DEF History, TypeOK
    <2>. QED
      BY <1>1, <2>2, AuditOfCreated DEF LogIsAuditable
  <1>4. ASSUME NEW t \in Claimed, NEW entry \in Entries, Entered(t, entry)
        PROVE  LogIsAuditable'
    <2>. DEFINE r == RunOf(t)
    <2>1. /\ r \in Runs
          /\ Accepts(runState[r], entry[1])
          /\ runState' = [runState EXCEPT ![r] = NextState(runState[r], entry[1])]
          /\ History' = [History EXCEPT ![r] = @ \o entry]
          /\ History[r] \in Seq(EventTypes)
      BY <1>4, HistoryOfEntry DEF History
    <2>. HIDE DEF r
    <2>2. /\ History'[r] = History[r] \o entry
          /\ runState'[r] = NextState(runState[r], entry[1])
          /\ \A q \in Runs : q # r => History'[q] = History[q] /\ runState'[q] = runState[q]
      BY <1>1, <2>1 DEF History, TypeOK
    <2>3. runState[r] # "ABSENT"
      BY <2>1, Table
    <2>4. Audited(History[r]) = runState[r]
      BY <1>1, <2>1, <2>3 DEF LogIsAuditable
    <2>5. Audited(History'[r]) = runState'[r]
      BY <2>1, <2>2, <2>4, AuditOfEntry
    <2>. QED
      BY <1>1, <2>2, <2>5 DEF LogIsAuditable
  <1>. QED
    BY <1>2, <1>3, <1>4, LoneSteps

\* Feeding the log of such a run to the table gives the state of its row, whatever
\* was refused, repeated or compensated on the way.
THEOREM LogsAreAuditable ==
  ASSUME InitialRole # "po"
  PROVE  Spec => []LogIsAuditable
  <1>1. Init => LogIsAuditable
    BY DEF Init, LogIsAuditable
  <1>2. LoneInv /\ LogIsAuditable /\ [Next]_vars => LogIsAuditable'
    BY StepAudited
  <1>. QED
    BY <1>1, <1>2, LoneInductive, PTL DEF Spec
-----------------------------------------------------------------------------
(***************************************************************************)
(* Frozen stories, in every configuration. FrozenInv says that a story's   *)
(* task is in the queue where its event is in the log: one event and one   *)
(* place each, both in the order of the backlog. It needs what a worker    *)
(* submitted (Submitted): a backlog names each story once.                 *)
(***************************************************************************)
StoryTasks == {t \in Tasks : t[2] \in Stories}

\* The places of a value in a sequence, and places counted from n.
Spots(seq, e) == {i \in DOMAIN seq : seq[i] = e}
From(n, places) == {n + k : k \in places}

Queued(t) == Spots(queue, t)

\* A story is frozen by one event and queued in one place, or in none.
FrozenOnce ==
  \A t \in StoryTasks :
    IF taskState[t] = "ABSENT"
    THEN Frozen(t) = {} /\ Queued(t) = {}
    ELSE (\E i : Frozen(t) = {i}) /\ (\E i : Queued(t) = {i})

\* The queue holds the stories of a run in the order its log froze them.
QueuedInOrder ==
  \A t, u \in StoryTasks : RunOf(t) = RunOf(u) =>
    \A i \in Frozen(t), j \in Frozen(u), p \in Queued(t), q \in Queued(u) : i < j <=> p < q

FrozenInv ==
  /\ AcceptInv
  /\ Submitted
  /\ FrozenOnce
  /\ QueuedInOrder

LEMMA StoryTaskTypes ==
  /\ \A t \in StoryTasks : /\ t \in Tasks /\ RunOf(t) \in Runs
                           /\ \A r \in Runs : t # FirstTask(r)
                           /\ \E story \in Stories : t = <<RunOf(t), story>>
  /\ \A r \in Runs, story \in Stories : <<r, story>> \in StoryTasks
  BY FirstAssumption DEF StoryTasks, Tasks, RunOf, FirstTask

\* Nothing is frozen or queued, and no story's task comes or goes.
FrozenKept ==
  \A t \in StoryTasks :
    /\ taskState'[t] = "ABSENT" <=> taskState[t] = "ABSENT"
    /\ Frozen(t)' = Frozen(t) /\ Queued(t)' = Queued(t)

LEMMA FrozenFrame ==
  ASSUME FrozenOnce, QueuedInOrder, FrozenKept
  PROVE  FrozenOnce' /\ QueuedInOrder'
  <1>1. FrozenOnce'
    BY DEF FrozenOnce, FrozenKept
  <1>2. QueuedInOrder'
    BY DEF QueuedInOrder, FrozenKept
  <1>. QED
    BY <1>1, <1>2

\* A log that grows by other events freezes nothing.
LEMMA NothingFrozen ==
  ASSUME TypeOK, NEW r \in Runs, NEW types, "STORY_FROZEN" \notin types,
         log' = log \/ Appends(r, types)
  PROVE  \A t \in StoryTasks : Frozen(t)' = Frozen(t)
  <1>1. /\ LogKept
        /\ \A q \in Runs : q # r => log'[q] = log[q]
        /\ \A i \in DOMAIN log'[r] : i \in DOMAIN log[r] \/ log'[r][i].type \in types
    BY AppendsGrows
  <1>2. \A t : Event("STORY_FROZEN", t).type = "STORY_FROZEN"
    BY DEF Event
  <1>3. ASSUME NEW t \in StoryTasks, RunOf(t) = r PROVE Frozen(t)' = Frozen(t)
    BY <1>1, <1>2, <1>3 DEF Frozen, LogKept
  <1>4. ASSUME NEW t \in StoryTasks, RunOf(t) # r PROVE Frozen(t)' = Frozen(t)
    BY <1>1, <1>4, StoryTaskTypes DEF Frozen
  <1>. QED
    BY <1>3, <1>4

LEMMA InitFrozen == Init => FrozenOnce /\ QueuedInOrder
  <1>. SUFFICES ASSUME Init PROVE FrozenOnce /\ QueuedInOrder
    OBVIOUS
  <1>1. \A t \in StoryTasks : Frozen(t) = {} /\ Queued(t) = {} /\ taskState[t] = "ABSENT"
    BY StoryTaskTypes DEF Init, Frozen, Queued, Spots
  <1>. QED
    BY <1>1 DEF FrozenOnce, QueuedInOrder

\* A task that is settled, or left alone, does not come or go.
LEMMA SettlingKeepsStories ==
  ASSUME StartInv, NEW t \in Claimed, NEW state \in TerminalTask \union {"RUNNING"},
         taskState' = taskState \/ taskState' = [taskState EXCEPT ![t] = state]
  PROVE  \A u \in StoryTasks : taskState'[u] = "ABSENT" <=> taskState[u] = "ABSENT"
  BY StoryTaskTypes DEF StartInv, TypeOK, Claimed, TerminalTask

\* What a step about a claimed task keeps, unless it is a PO's output.
LEMMA ActsFrozen ==
  ASSUME FrozenInv, NEW t, NEW types, ActsFor(t, types), "STORY_FROZEN" \notin types,
         NEW state \in TerminalTask,
         taskState' = taskState \/ taskState' = [taskState EXCEPT ![t] = state],
         queue' = queue
  PROVE  FrozenOnce' /\ QueuedInOrder'
  <1>1. /\ TypeOK /\ StartInv /\ t \in Claimed /\ RunOf(t) \in Runs
        /\ log' = log \/ Appends(RunOf(t), types)
    BY TaskTypes DEF FrozenInv, AcceptInv, StartInv, ActsFor, Claimed
  <1>2. \A u \in StoryTasks : Frozen(u)' = Frozen(u)
    BY <1>1, NothingFrozen
  <1>3. \A u \in StoryTasks : taskState'[u] = "ABSENT" <=> taskState[u] = "ABSENT"
    BY <1>1, SettlingKeepsStories
  <1>4. \A u \in StoryTasks : Queued(u)' = Queued(u)
    BY DEF Queued, Spots
  <1>. QED
    BY <1>2, <1>3, <1>4, FrozenFrame DEF FrozenKept, FrozenInv

LEMMA CreateRunFrozen ==
  ASSUME FrozenInv, NEW r \in Runs, CreateRun(r)
  PROVE  FrozenOnce' /\ QueuedInOrder'
  <1>. DEFINE types == {"RUN_CREATED", "BRIEFING_RECEIVED", "TASK_QUEUED"}
              events == << Event("RUN_CREATED", NoTask), Event("BRIEFING_RECEIVED", NoTask),
                           Event("TASK_QUEUED", FirstTask(r)) >>
  <1>1. TypeOK /\ FirstTask(r) \in Tasks
    BY TaskTypes DEF FrozenInv, AcceptInv, StartInv
  <1>2. events \in Seq(Events) /\ \A i \in DOMAIN events : events[i].type \in types
    BY <1>1 DEF Event, Events, EventTypes
  <1>3. Appends(r, types)
    BY <1>2 DEF Appends, CreateRun
  <1>4. \A t \in StoryTasks : Frozen(t)' = Frozen(t)
    BY <1>1, <1>3, NothingFrozen
  <1>5. \A t \in StoryTasks : Queued(t)' = Queued(t)
    <2>1. queue \in Seq(Tasks) /\ queue' = Append(queue, FirstTask(r))
      BY <1>1 DEF CreateRun, TypeOK
    <2>2. /\ DOMAIN queue' = 1 .. Len(queue) + 1 /\ DOMAIN queue = 1 .. Len(queue)
          /\ \A i \in DOMAIN queue : queue'[i] = queue[i]
          /\ queue'[Len(queue) + 1] = FirstTask(r) /\ Len(queue) \in Nat
      BY <1>1, <2>1
    <2>3. \A i \in DOMAIN queue' : i \in DOMAIN queue \/ queue'[i] = FirstTask(r)
      BY <2>2
    <2>4. DOMAIN queue \subseteq DOMAIN queue'
      BY <2>2
    <2>. QED
      BY <2>2, <2>3, <2>4, StoryTaskTypes DEF Queued, Spots
  <1>6. \A t \in StoryTasks : taskState'[t] = taskState[t]
    BY <1>1, StoryTaskTypes DEF CreateRun, TypeOK
  <1>. QED
    BY <1>4, <1>5, <1>6, FrozenFrame DEF FrozenKept, FrozenInv

LEMMA ClaimFrozen ==
  ASSUME FrozenInv, NEW s \in Schedulers, NEW t \in Tasks, Claim(s, t)
  PROVE  FrozenOnce' /\ QueuedInOrder'
  <1>1. TypeOK /\ UNCHANGED <<log, queue>>
    BY DEF FrozenInv, AcceptInv, StartInv, Claim, runVars
  <1>2. \A u \in StoryTasks : taskState'[u] = "ABSENT" <=> taskState[u] = "ABSENT"
    BY <1>1, StoryTaskTypes DEF Claim, Claimable, Oldest, TypeOK
  <1>3. \A u \in StoryTasks : Frozen(u)' = Frozen(u) /\ Queued(u)' = Queued(u)
    BY <1>1 DEF Frozen, Queued, Spots
  <1>. QED
    BY <1>2, <1>3, FrozenFrame DEF FrozenKept, FrozenInv

LEMMA QuietFrozen ==
  ASSUME FrozenInv, QuietStep
  PROVE  FrozenOnce' /\ QueuedInOrder'
  <1>1. UNCHANGED <<log, taskState, queue>>
    BY QuietKeeps DEF FrozenInv, AcceptInv, StartInv
  <1>2. FrozenKept
    BY <1>1 DEF FrozenKept, Frozen, Queued, Spots
  <1>. QED
    BY <1>2, FrozenFrame DEF FrozenInv

\* Where a value is in a concatenation.
LEMMA Places ==
  ASSUME NEW S, NEW old \in Seq(S), NEW new \in Seq(S), NEW e
  PROVE  Spots(old \o new, e) = Spots(old, e) \union From(Len(old), Spots(new, e))
  <1>. DEFINE all == old \o new
              m == Len(old)
              n == Len(new)
  <1>1. /\ m \in Nat /\ n \in Nat
        /\ DOMAIN old = 1 .. m /\ DOMAIN new = 1 .. n /\ DOMAIN all = 1 .. m + n
    OBVIOUS
  <1>2. \A i \in 1 .. m : all[i] = old[i]
    OBVIOUS
  <1>3. \A k \in 1 .. n : all[m + k] = new[k]
    OBVIOUS
  <1>. HIDE DEF all, m, n
  <1>4. \A i \in 1 .. m + n : i \in 1 .. m \/ \E k \in 1 .. n : i = m + k
    <2>. TAKE i \in 1 .. m + n
    <2>1. CASE i > m
      <3>1. i - m \in 1 .. n /\ i = m + (i - m)
        BY <1>1, <2>1
      <3>. QED
        BY <3>1
    <2>2. CASE ~(i > m)
      BY <1>1, <2>2
    <2>. QED
      BY <2>1, <2>2
  <1>5. (\A i \in 1 .. m : i \in 1 .. m + n) /\ \A k \in 1 .. n : m + k \in 1 .. m + n
    BY <1>1
  <1>6. ASSUME NEW i, i \in DOMAIN all, all[i] = e
        PROVE  \/ i \in DOMAIN old /\ old[i] = e
               \/ \E k \in {j \in DOMAIN new : new[j] = e} : i = m + k
    BY <1>1, <1>2, <1>3, <1>4, <1>6
  <1>7. ASSUME NEW i, \/ i \in DOMAIN old /\ old[i] = e
                      \/ \E k \in {j \in DOMAIN new : new[j] = e} : i = m + k
        PROVE  i \in DOMAIN all /\ all[i] = e
    BY <1>1, <1>2, <1>3, <1>5, <1>7
  <1>8. {i \in DOMAIN all : all[i] = e}
           = {i \in DOMAIN old : old[i] = e} \union {m + k : k \in {j \in DOMAIN new : new[j] = e}}
    BY <1>6, <1>7
  <1>. QED
    BY <1>8 DEF all, m, Spots, From

\* A PO output puts its stories, each once, at the same place of the log and of
\* the queue, counted from where each of them ended.
Placed(r, devs) ==
  /\ r \in Runs /\ Len(log[r]) \in Nat /\ Len(queue) \in Nat /\ DOMAIN devs \subseteq Nat
  /\ \A i, j \in DOMAIN devs : devs[i] = devs[j] => i = j
  /\ \A t \in StoryTasks : RunOf(t) = r =>
       /\ Frozen(t)' = From(Len(log[r]), Spots(devs, t))
       /\ Queued(t)' = From(Len(queue), Spots(devs, t))
       /\ taskState'[t] = IF \E i \in DOMAIN devs : devs[i] = t THEN "WAITING" ELSE "ABSENT"
  /\ \A t \in StoryTasks : RunOf(t) # r =>
       /\ Frozen(t)' = Frozen(t) /\ Queued(t)' = Queued(t) /\ taskState'[t] = taskState[t]

LEMMA PoPlaces ==
  ASSUME FrozenInv, NEW c \in calls, SubmitPoOutput(c), NEW r, r = RunOf(c.task),
         NEW devs, devs = [i \in DOMAIN c.payload.stories |-> <<r, c.payload.stories[i]>>]
  PROVE  Placed(r, devs)
  <1>. DEFINE events == FrozenEvents(c, devs)
  <1>1. /\ TypeOK /\ StartInv /\ c.task \in Claimed /\ c.task \in Tasks /\ r \in Runs
        /\ log[r] \in Seq(Events) /\ queue \in Seq(Tasks)
    BY TaskTypes DEF FrozenInv, AcceptInv, StartInv, TypeOK, ClaimedFirst, Claimed
  <1>2. c.task = FirstTask(r) /\ ~HasBacklog(r)
    BY <1>1, PoOutputActs
  <1>3. c.payload.stories \in Backlogs
    <2>1. c.route = "po-output" /\ c.route = Route(c.task) /\ c.payload \in Submissions(c.task)
      BY DEF SubmitPoOutput, FrozenInv, Submitted
    <2>. QED
      BY <2>1 DEF Submissions, Payload
  <1>4. /\ devs \in Seq(Tasks) /\ Len(devs) = Len(c.payload.stories)
        /\ events \in Seq(Events) /\ Len(events) = Len(devs) + 1
        /\ \A i \in 1 .. Len(devs) : events[i] = Event("STORY_FROZEN", devs[i])
        /\ events[Len(devs) + 1] = Event("PO_COMPLETED", c.task)
    <2>. HIDE DEF events
    <2>. QED
      BY <1>1, FrozenEventsType, Zenon DEF events
  <1>5. \A i, j \in DOMAIN devs : devs[i] = devs[j] => i = j
    BY <1>3, BacklogsAssumption
  <1>6. \A i \in DOMAIN devs : RunOf(devs[i]) = r
    BY DEF RunOf
  <1>7. /\ log' = [log EXCEPT ![r] = @ \o events] /\ queue' = queue \o devs
        /\ taskState' = [t \in Tasks |->
             IF \E i \in DOMAIN devs : devs[i] = t THEN "WAITING"
             ELSE WriteTask(c, "SUCCEEDED")[t]]
    BY DEF SubmitPoOutput, AppendEvents
  <1>. HIDE DEF events
  <1>8. /\ log'[r] = log[r] \o events
        /\ \A q \in Runs : q # r => log'[q] = log[q]
    BY <1>1, <1>7 DEF TypeOK
  <1>9. \A t \in StoryTasks : t # c.task /\ t \in Tasks /\ RunOf(t) \in Runs
    BY <1>1, <1>2, StoryTaskTypes
  <1>10. \A t \in StoryTasks : WriteTask(c, "SUCCEEDED")[t] = taskState[t]
    BY <1>1, <1>9 DEF WriteTask, TypeOK
  <1>11. \A t \in StoryTasks : RunOf(t) = r => taskState[t] = "ABSENT"
    BY <1>1, <1>2, StoryTaskTypes DEF StartInv, QueuedForAReason
  <1>12. \A t \in StoryTasks : RunOf(t) = r => Frozen(t) = {} /\ Queued(t) = {}
    BY <1>11 DEF FrozenInv, FrozenOnce
  <1>13. Len(log[r]) \in Nat /\ Len(queue) \in Nat /\ DOMAIN devs \subseteq Nat
    BY <1>1, <1>4
  <1>14. ASSUME NEW t \in StoryTasks
         PROVE  Spots(events, Event("STORY_FROZEN", t)) = Spots(devs, t)
    <2>1. /\ \A u : Event("STORY_FROZEN", u) = Event("STORY_FROZEN", t) <=> u = t
          /\ Event("PO_COMPLETED", c.task) # Event("STORY_FROZEN", t)
      BY DEF Event
    <2>2. /\ DOMAIN events = 1 .. Len(devs) + 1 /\ DOMAIN devs = 1 .. Len(devs)
          /\ Len(devs) \in Nat
      BY <1>4
    <2>3. \A k \in DOMAIN events : k \in DOMAIN devs \/ k = Len(devs) + 1
      BY <2>2
    <2>4. DOMAIN devs \subseteq DOMAIN events
      BY <2>2
    <2>5. ASSUME NEW k \in DOMAIN devs
          PROVE  events[k] = Event("STORY_FROZEN", t) <=> devs[k] = t
      BY <1>4, <2>1, <2>2
    <2>6. events[Len(devs) + 1] # Event("STORY_FROZEN", t)
      BY <1>4, <2>1
    <2>. QED
      BY <2>3, <2>4, <2>5, <2>6 DEF Spots
  <1>15. ASSUME NEW t \in StoryTasks, RunOf(t) = r
         PROVE  Frozen(t)' = From(Len(log[r]), Spots(devs, t))
    <2>1. Spots(log[r], Event("STORY_FROZEN", t)) = {}
      BY <1>12, <1>15 DEF Frozen, Spots
    <2>2. Spots(log'[r], Event("STORY_FROZEN", t))
            = Spots(log[r], Event("STORY_FROZEN", t))
                \union From(Len(log[r]), Spots(events, Event("STORY_FROZEN", t)))
      BY <1>1, <1>4, <1>8, Places
    <2>3. Frozen(t)' = Spots(log'[r], Event("STORY_FROZEN", t))
      BY <1>15 DEF Frozen, Spots
    <2>. QED
      BY <1>14, <2>1, <2>2, <2>3
  <1>16. ASSUME NEW t \in StoryTasks
         PROVE  Queued(t)' = Queued(t) \union From(Len(queue), Spots(devs, t))
    <2>1. Spots(queue \o devs, t) = Spots(queue, t) \union From(Len(queue), Spots(devs, t))
      <3>1. queue \in Seq(Tasks) /\ devs \in Seq(Tasks)
        BY <1>1, <1>4
      <3>2. \A new \in Seq(Tasks) :
              Spots(queue \o new, t) = Spots(queue, t) \union From(Len(queue), Spots(new, t))
        <4>. TAKE new \in Seq(Tasks)
        <4>. QED
          BY <3>1, Places
      <3>. QED
        BY <3>1, <3>2, Zenon
    <2>. QED
      BY <1>7, <2>1 DEF Queued
  <1>17. ASSUME NEW t \in StoryTasks, RunOf(t) = r
         PROVE  Queued(t)' = From(Len(queue), Spots(devs, t))
    BY <1>12, <1>16, <1>17
  <1>18. ASSUME NEW t \in StoryTasks, RunOf(t) # r
         PROVE  Frozen(t)' = Frozen(t) /\ Queued(t)' = Queued(t) /\ taskState'[t] = taskState[t]
    <2>1. \A i \in DOMAIN devs : devs[i] # t
      BY <1>6, <1>18
    <2>2. Queued(t)' = Queued(t)
      BY <1>16, <2>1 DEF Spots, From
    <2>. QED
      BY <1>7, <1>8, <1>9, <1>10, <1>18, <2>1, <2>2 DEF Frozen
  <1>. QED
    BY <1>1, <1>5, <1>7, <1>9, <1>10, <1>11, <1>13, <1>15, <1>17, <1>18 DEF Placed

LEMMA PoOutputFrozen ==
  ASSUME FrozenInv, NEW c \in calls, SubmitPoOutput(c)
  PROVE  FrozenOnce' /\ QueuedInOrder'
  <1>. SUFFICES ASSUME NEW r, r = RunOf(c.task),
                       NEW devs, devs = [i \in DOMAIN c.payload.stories |-> <<r, c.payload.stories[i]>>]
                PROVE  FrozenOnce' /\ QueuedInOrder'
    OBVIOUS
  <1>. DEFINE m == Len(log[r])
              n == Len(queue)
  <1>1. Placed(r, devs)
    BY PoPlaces, Zenon
  <1>. HIDE DEF m, n
  <1>2. ASSUME NEW t \in StoryTasks, RunOf(t) = r
         PROVE  /\ Frozen(t)' = From(m, Spots(devs, t))
                /\ Queued(t)' = From(n, Spots(devs, t))
                /\ (\E i \in DOMAIN devs : devs[i] = t) => taskState'[t] = "WAITING"
                /\ (\A i \in DOMAIN devs : devs[i] # t) => taskState'[t] = "ABSENT"
    BY <1>1, <1>2, Zenon DEF m, n, Placed
  <1>3. ASSUME NEW t \in StoryTasks, RunOf(t) # r
         PROVE  Frozen(t)' = Frozen(t) /\ Queued(t)' = Queued(t) /\ taskState'[t] = taskState[t]
    BY <1>1, <1>3, Zenon DEF Placed
  <1>4. /\ r \in Runs /\ m \in Nat /\ n \in Nat /\ DOMAIN devs \subseteq Nat
         /\ \A i, j \in DOMAIN devs : devs[i] = devs[j] => i = j
    BY <1>1, Zenon DEF m, n, Placed
  <1>5. FrozenOnce'
    <2>. SUFFICES ASSUME NEW t \in StoryTasks
                  PROVE  IF taskState'[t] = "ABSENT"
                         THEN Frozen(t)' = {} /\ Queued(t)' = {}
                         ELSE (\E i : Frozen(t)' = {i}) /\ (\E i : Queued(t)' = {i})
      BY DEF FrozenOnce
    <2>1. CASE RunOf(t) # r
      BY <1>3, <2>1, Zenon DEF FrozenInv, FrozenOnce
    <2>2. ASSUME RunOf(t) = r, NEW k \in DOMAIN devs, devs[k] = t
          PROVE  /\ taskState'[t] # "ABSENT"
                 /\ \E i : Frozen(t)' = {i}
                 /\ \E i : Queued(t)' = {i}
      <3>1. Spots(devs, t) = {k}
        BY <1>4, <2>2, Zenon DEF Spots
      <3>2. \A p : From(p, {k}) = {p + k}
        BY DEF From
      <3>3. Frozen(t)' = {m + k} /\ Queued(t)' = {n + k}
        BY <1>2, <2>2, <3>1, <3>2, Zenon
      <3>. QED
        BY <1>2, <2>2, <3>3, Zenon
    <2>3. ASSUME RunOf(t) = r, \A k \in DOMAIN devs : devs[k] # t
          PROVE  taskState'[t] = "ABSENT" /\ Frozen(t)' = {} /\ Queued(t)' = {}
      <3>1. Spots(devs, t) = {} /\ \A p : From(p, {}) = {}
        BY <2>3 DEF Spots, From
      <3>. QED
        BY <1>2, <2>3, <3>1, Zenon
    <2>. QED
      BY <2>1, <2>2, <2>3
  <1>6. QueuedInOrder'
    <2>. SUFFICES ASSUME NEW t \in StoryTasks, NEW u \in StoryTasks, RunOf(t) = RunOf(u),
                         NEW i \in Frozen(t)', NEW j \in Frozen(u)',
                         NEW p \in Queued(t)', NEW q \in Queued(u)'
                  PROVE  i < j <=> p < q
      BY DEF QueuedInOrder
    <2>1. CASE RunOf(t) # r
      BY <1>3, <2>1 DEF FrozenInv, QueuedInOrder
    <2>2. CASE RunOf(t) = r
      <3>1. PICK a \in Spots(devs, t), b \in Spots(devs, t), x \in Spots(devs, u), y \in Spots(devs, u) :
              i = m + a /\ p = n + b /\ j = m + x /\ q = n + y
        <4>1. \A x, y : \A e \in From(x, y) : \E k \in y : e = x + k
          BY DEF From
        <4>2. /\ i \in From(m, Spots(devs, t)) /\ p \in From(n, Spots(devs, t))
              /\ j \in From(m, Spots(devs, u)) /\ q \in From(n, Spots(devs, u))
          BY <1>2, <2>2
        <4>3. /\ \E a \in Spots(devs, t) : i = m + a
              /\ \E b \in Spots(devs, t) : p = n + b
              /\ \E x \in Spots(devs, u) : j = m + x
              /\ \E y \in Spots(devs, u) : q = n + y
          BY <4>1, <4>2, Zenon
        <4>. QED
          BY <4>3, Zenon
      <3>2. a = b /\ x = y /\ a \in Nat /\ x \in Nat
        BY <1>4, Zenon DEF Spots
      <3>. QED
        BY <1>4, <3>1, <3>2
    <2>. QED
      BY <2>1, <2>2
  <1>. QED
    BY <1>5, <1>6

LEMMA CallFrozen ==
  ASSUME FrozenInv, NEW c \in calls,
         SubmitTaskOutput(c) \/ SubmitDevDelivery(c) \/ ReportWorkerFailure(c)
  PROVE  FrozenOnce' /\ QueuedInOrder'
  <1>1. \E types : ActsFor(c.task, types) /\ "STORY_FROZEN" \notin types
    <2>1. "STORY_FROZEN" \notin {"FAKE_WORKER_COMPLETED", "AGENT_FAILED", "RUN_COMPLETED", "RUN_FAILED"}
      OBVIOUS
    <2>2. "STORY_FROZEN" \notin {"DEV_TASK_PLAN_CREATED", "CODE_DELIVERED", "AGENT_FAILED"}
      OBVIOUS
    <2>3. "STORY_FROZEN" \notin {"AGENT_FAILED"}
      OBVIOUS
    <2>. QED
      BY <2>1, <2>2, <2>3, OutputActs, DeliveryActs, FailureActs DEF FrozenInv, AcceptInv
  <1>2. \E state \in TerminalTask :
          taskState' = taskState \/ taskState' = [taskState EXCEPT ![c.task] = state]
    BY DEF SubmitTaskOutput, SubmitDevDelivery, ReportWorkerFailure, WriteTask, TerminalTask
  <1>3. queue' = queue
    BY DEF SubmitTaskOutput, SubmitDevDelivery, ReportWorkerFailure
  <1>. QED
    BY <1>1, <1>2, <1>3, ActsFrozen

LEMMA StepFrozen == FrozenInv /\ [Next]_vars => FrozenInv'
  <1>. SUFFICES ASSUME FrozenInv, [Next]_vars PROVE FrozenInv'
    OBVIOUS
  <1>1. AcceptInv' /\ Submitted' /\ StartInv
    BY StepAccepts, StepSubmitted DEF FrozenInv, AcceptInv
  <1>2. ASSUME NEW s \in Schedulers, RecordStarted(s) PROVE FrozenOnce' /\ QueuedInOrder'
    BY <1>1, <1>2, RecordStartedActs, ActsFrozen DEF TerminalTask
  <1>3. ASSUME NEW s \in Schedulers, RecordFinished(s) \/ RecordRuntimeFailure(s)
        PROVE  FrozenOnce' /\ QueuedInOrder'
    BY <1>1, <1>3, EndActs, ActsFrozen DEF TerminalTask
  <1>4. FrozenOnce' /\ QueuedInOrder'
    BY <1>2, <1>3, StepKinds, QuietFrozen, CreateRunFrozen, ClaimFrozen, PoOutputFrozen, CallFrozen
    DEF RowStep
  <1>. QED
    BY <1>1, <1>4 DEF FrozenInv

LEMMA FrozenInductive == Spec => []FrozenInv
  <1>1. Init => FrozenInv
    BY InitStarts, InitCause, InitUnmoved, InitSubmitted, InitFrozen DEF FrozenInv, AcceptInv
  <1>. QED
    BY <1>1, StepFrozen, PTL DEF Spec

\* Whatever fails and however many loops there are, the dev tasks of a run are the
\* stories its log froze, each in one place of the queue.
THEOREM StoriesAreQueuedOnce == Spec => []FrozenStoriesAreQueued
  <1>1. FrozenInv => FrozenStoriesAreQueued
    <2>. SUFFICES ASSUME FrozenInv, NEW r \in Runs, NEW story \in Stories,
                         NEW t, t = <<r, story>>
                  PROVE  LET n == IF taskState[t] = "ABSENT" THEN 0 ELSE 1
                         IN  Cardinality(Frozen(t)) = n /\ Cardinality(Queued(t)) = n
      BY DEF FrozenStoriesAreQueued, Queued, Spots
    <2>1. IF taskState[t] = "ABSENT"
          THEN Frozen(t) = {} /\ Queued(t) = {}
          ELSE (\E i : Frozen(t) = {i}) /\ (\E i : Queued(t) = {i})
      BY StoryTaskTypes DEF FrozenInv, FrozenOnce
    <2>. QED
      BY <2>1, FS_EmptySet, FS_Singleton
  <1>. QED
    BY <1>1, FrozenInductive, PTL
-----------------------------------------------------------------------------
(***************************************************************************)
(* Outcomes. A callback records its outcome with its answer, and is refused*)
(* or replayed when its key has an answer; so two outcomes of a task would *)
(* need two keys, and the workers derive the key of a task from what they  *)
(* submit.                                                                 *)
(***************************************************************************)
\* An outcome in a log has its answer among those recorded for its task.
Answered ==
  \A r \in Runs : \A i \in DOMAIN log[r] : log[r][i].type \in OutcomeEvents =>
    /\ log[r][i].task \in Tasks
    /\ \E k \in Keys : answered[log[r][i].task][k] # NoPayload

OutcomeInv == AcceptInv /\ Answered /\ OneOutcome

\* c records these events with its answer; none of its outcomes twice.
Records(c, events) ==
  /\ c \in calls /\ c.route # "failure" /\ Granted(c) /\ Answer(c)
  /\ events \in Seq(Events)
  /\ log' = [log EXCEPT ![RunOf(c.task)] = @ \o events]
  /\ \A i \in DOMAIN events : events[i].type \in OutcomeEvents =>
       /\ events[i].task = c.task
       /\ \A j \in DOMAIN events : events[j] = events[i] => i = j

LEMMA SubmitRecords ==
  ASSUME TypeOK, NEW c \in calls, SubmitTaskOutput(c) \/ SubmitPoOutput(c) \/ SubmitDevDelivery(c)
  PROVE  \E events : Records(c, events)
  <1>1. c.task \in Tasks /\ c.route # "failure" /\ Granted(c) /\ Answer(c)
    BY CallTypes DEF SubmitTaskOutput, SubmitPoOutput, SubmitDevDelivery
  <1>2. ASSUME SubmitTaskOutput(c) PROVE \E events : Records(c, events)
    <2>. DEFINE note == IF c.payload.status = "SUCCEEDED" THEN "RUN_COMPLETED" ELSE "RUN_FAILED"
                events == <<Event(OutputEvent(c.payload), c.task), Event(note, NoTask)>>
    <2>1. log' = [log EXCEPT ![RunOf(c.task)] = @ \o events]
      BY <1>2 DEF SubmitTaskOutput, AppendDriving
    <2>2. events \in Seq(Events)
      BY <1>1 DEF Event, Events, EventTypes, OutputEvent
    <2>3. \A i \in DOMAIN events : events[i].type \in OutcomeEvents => i = 1 /\ events[i].task = c.task
      BY DEF Event, OutcomeEvents, OutputEvent
    <2>4. events[2].type \notin OutcomeEvents
      BY DEF Event, OutcomeEvents
    <2>5. DOMAIN events = {1, 2}
      OBVIOUS
    <2>. HIDE DEF events
    <2>6. \A i, j \in DOMAIN events : events[i].type \in OutcomeEvents /\ events[j] = events[i] => i = j
      BY <2>3
    <2>. QED
      BY <1>1, <2>1, <2>2, <2>3, <2>6 DEF Records
  <1>3. ASSUME SubmitPoOutput(c) PROVE \E events : Records(c, events)
    <2>. SUFFICES ASSUME NEW devs,
                         devs = [i \in DOMAIN c.payload.stories |-> <<RunOf(c.task), c.payload.stories[i]>>]
                  PROVE  \E events : Records(c, events)
      OBVIOUS
    <2>. DEFINE events == FrozenEvents(c, devs)
    <2>1. log' = [log EXCEPT ![RunOf(c.task)] = @ \o events]
      BY <1>3 DEF SubmitPoOutput, AppendEvents
    <2>. HIDE DEF events
    <2>2. /\ devs \in Seq(Tasks)
          /\ events \in Seq(Events) /\ Len(events) = Len(devs) + 1
          /\ \A i \in 1 .. Len(devs) : events[i] = Event("STORY_FROZEN", devs[i])
          /\ events[Len(devs) + 1] = Event("PO_COMPLETED", c.task)
      BY FrozenEventsType, Zenon DEF events
    <2>3. /\ \A t : Event("STORY_FROZEN", t).type \notin OutcomeEvents
          /\ Event("PO_COMPLETED", c.task).task = c.task
      BY DEF Event, OutcomeEvents
    <2>4. \A i \in DOMAIN events : i \in 1 .. Len(devs) \/ i = Len(devs) + 1
      BY <2>2
    <2>5. \A i \in DOMAIN events : events[i].type \in OutcomeEvents =>
            i = Len(devs) + 1 /\ events[i].task = c.task
      BY <2>2, <2>3, <2>4
    <2>6. \A i, j \in DOMAIN events : events[i].type \in OutcomeEvents /\ events[j] = events[i] => i = j
      BY <2>5
    <2>. QED
      BY <1>1, <2>1, <2>2, <2>5, <2>6 DEF Records
  <1>4. ASSUME SubmitDevDelivery(c) PROVE \E events : Records(c, events)
    <2>. DEFINE type == IF c.payload.status = "READY_FOR_QA" THEN "CODE_DELIVERED" ELSE "AGENT_FAILED"
                events == <<Event("DEV_TASK_PLAN_CREATED", c.task), Event(type, c.task)>>
    <2>1. log' = [log EXCEPT ![RunOf(c.task)] = @ \o events]
      BY <1>4 DEF SubmitDevDelivery, AppendEvents
    <2>2. events \in Seq(Events) /\ \A i \in DOMAIN events : events[i].task = c.task
      BY <1>1 DEF Event, Events, EventTypes
    <2>3. events[1].type # events[2].type /\ DOMAIN events = {1, 2}
      BY DEF Event
    <2>. HIDE DEF events
    <2>4. \A i, j \in DOMAIN events : events[j] = events[i] => i = j
      BY <2>3
    <2>. QED
      BY <1>1, <2>1, <2>2, <2>4 DEF Records
  <1>. QED
    BY <1>2, <1>3, <1>4

\* With one key per task, what is answered is refused or replayed, never recorded.
LEMMA RecordedOnce ==
  ASSUME OutcomeInv, \A k, l \in Keys : k = l, NEW c, NEW events, Records(c, events)
  PROVE  Answered' /\ OneOutcome'
  <1>. DEFINE r == RunOf(c.task)
  <1>1. /\ TypeOK /\ c \in calls /\ c.task \in Tasks /\ r \in Runs /\ c.key \in Keys
        /\ c.payload \in Payloads
    BY CallTypes, TaskTypes DEF Records, OutcomeInv, AcceptInv, StartInv, TypeOK, Calls
  <1>2. /\ events \in Seq(Events) /\ log[r] \in Seq(Events) /\ log'[r] = log[r] \o events
        /\ \A q \in Runs : q # r => log'[q] = log[q]
    BY <1>1 DEF Records, TypeOK
  <1>3. /\ \A i \in DOMAIN log[r] : i \in DOMAIN log'[r] /\ log'[r][i] = log[r][i]
        /\ \A i \in DOMAIN log'[r] : i \notin DOMAIN log[r] =>
             i - Len(log[r]) \in DOMAIN events /\ log'[r][i] = events[i - Len(log[r])]
        /\ DOMAIN log[r] = 1 .. Len(log[r]) /\ DOMAIN log'[r] \subseteq Nat /\ Len(log[r]) \in Nat
    BY <1>2, Concatenated
  <1>4. answered[c.task][c.key] = NoPayload
    BY DEF Records, Granted, Known
  <1>5. \A i \in DOMAIN log[r] : log[r][i].type \in OutcomeEvents => log[r][i].task # c.task
    BY <1>1, <1>4 DEF OutcomeInv, Answered
  <1>6. /\ c.payload # NoPayload
        /\ answered'[c.task][c.key] = c.payload
        /\ \A t \in Tasks, k \in Keys : answered'[t][k] = answered[t][k] \/ answered'[t][k] = c.payload
    <2>1. c.payload # NoPayload
      BY <1>1 DEF Payloads, NoPayload, Payload
    <2>2. /\ answered \in [Tasks -> [Keys -> Payloads \union {NoPayload}]]
          /\ answered' = [answered EXCEPT ![c.task][c.key] = c.payload]
      BY <1>1 DEF Records, Answer, TypeOK
    <2>. QED
      BY <1>1, <2>1, <2>2
  <1>7. \A i \in DOMAIN events : events[i].type \in OutcomeEvents =>
          /\ events[i].task = c.task
          /\ \A j \in DOMAIN events : events[j] = events[i] => i = j
    BY DEF Records
  <1>. HIDE DEF r
  <1>8. Answered'
    <2>. SUFFICES ASSUME NEW q \in Runs, NEW i \in DOMAIN log'[q], log'[q][i].type \in OutcomeEvents
                  PROVE  /\ log'[q][i].task \in Tasks
                         /\ \E k \in Keys : answered'[log'[q][i].task][k] # NoPayload
      BY DEF Answered
    <2>1. \/ i \in DOMAIN log[q] /\ log'[q][i] = log[q][i]
          \/ log'[q][i].task = c.task
      <3>1. CASE q # r
        BY <1>2, <3>1
      <3>2. CASE q = r /\ i \in DOMAIN log[r]
        BY <1>3, <3>2
      <3>3. CASE q = r /\ i \notin DOMAIN log[r]
        BY <1>3, <1>7, <3>3
      <3>. QED
        BY <3>1, <3>2, <3>3
    <2>. QED
      BY <1>1, <1>6, <2>1 DEF OutcomeInv, Answered
  <1>9. OneOutcome'
    <2>. SUFFICES ASSUME NEW q \in Runs, NEW i \in DOMAIN log'[q], NEW j \in DOMAIN log'[q],
                         log'[q][i].type \in OutcomeEvents, log'[q][j] = log'[q][i]
                  PROVE  i = j
      BY DEF OneOutcome
    <2>1. CASE q # r
      BY <1>2, <2>1 DEF OutcomeInv, OneOutcome
    <2>2. CASE q = r /\ i \in DOMAIN log[r] /\ j \in DOMAIN log[r]
      BY <1>3, <2>2 DEF OutcomeInv, OneOutcome
    <2>3. CASE q = r /\ i \in DOMAIN log[r] /\ j \notin DOMAIN log[r]
      BY <1>3, <1>5, <1>7, <2>3
    <2>4. CASE q = r /\ i \notin DOMAIN log[r] /\ j \in DOMAIN log[r]
      BY <1>3, <1>5, <1>7, <2>4
    <2>5. CASE q = r /\ i \notin DOMAIN log[r] /\ j \notin DOMAIN log[r]
      <3>1. i - Len(log[r]) = j - Len(log[r])
        BY <1>3, <1>7, <2>5
      <3>2. i \in Nat /\ j \in Nat
        BY <1>3, <2>5
      <3>. QED
        BY <1>3, <3>1, <3>2
    <2>. QED
      BY <2>1, <2>2, <2>3, <2>4, <2>5
  <1>. QED
    BY <1>8, <1>9

\* A step that records no outcome and changes no answer.
LEMMA OutcomeFrame ==
  ASSUME OutcomeInv, answered' = answered, NEW r \in Runs, NEW types,
         log' = log \/ Appends(r, types), types \cap OutcomeEvents = {}
  PROVE  Answered' /\ OneOutcome'
  <1>1. /\ LogKept /\ \A q \in Runs : q # r => log'[q] = log[q]
        /\ \A i \in DOMAIN log'[r] : i \in DOMAIN log[r] \/ log'[r][i].type \in types
    BY AppendsGrows DEF OutcomeInv, AcceptInv, StartInv
  <1>2. \A q \in Runs : \A i \in DOMAIN log'[q] : log'[q][i].type \in OutcomeEvents =>
          i \in DOMAIN log[q] /\ log'[q][i] = log[q][i]
    BY <1>1 DEF LogKept
  <1>3. Answered'
    BY <1>2 DEF Answered, OutcomeInv
  <1>4. OneOutcome'
    BY <1>2 DEF OneOutcome, OutcomeInv
  <1>. QED
    BY <1>3, <1>4

LEMMA StepOutcome ==
  ASSUME OutcomeInv, \A k, l \in Keys : k = l, [Next]_vars
  PROVE  OutcomeInv'
  <1>1. AcceptInv' /\ StartInv /\ TypeOK
    BY StepAccepts DEF OutcomeInv, AcceptInv, StartInv
  <1>2. CASE QuietStep
    <2>1. log' = log /\ answered' = answered
      BY <1>1, <1>2, QuietKeeps
    <2>. QED
      BY <1>1, <2>1 DEF OutcomeInv, Answered, OneOutcome
  <1>3. ASSUME NEW r \in Runs, CreateRun(r) PROVE Answered' /\ OneOutcome'
    <2>. DEFINE types == {"RUN_CREATED", "BRIEFING_RECEIVED", "TASK_QUEUED"}
                events == << Event("RUN_CREATED", NoTask), Event("BRIEFING_RECEIVED", NoTask),
                             Event("TASK_QUEUED", FirstTask(r)) >>
    <2>1. events \in Seq(Events) /\ \A i \in DOMAIN events : events[i].type \in types
      BY TaskTypes DEF Event, Events, EventTypes
    <2>2. Appends(r, types) /\ answered' = answered
      BY <1>3, <2>1 DEF Appends, CreateRun, httpVars
    <2>3. types \cap OutcomeEvents = {}
      BY DEF OutcomeEvents
    <2>. HIDE DEF types
    <2>. QED
      BY <2>2, <2>3, OutcomeFrame
  <1>4. ASSUME NEW s \in Schedulers, NEW t \in Tasks, Claim(s, t) PROVE Answered' /\ OneOutcome'
    BY <1>4 DEF Claim, runVars, httpVars, OutcomeInv, Answered, OneOutcome
  <1>5. ASSUME NEW t, ActsFor(t, {"AGENT_STARTED"}) \/ ActsFor(t, {"AGENT_FAILED"}), answered' = answered
        PROVE  Answered' /\ OneOutcome'
    <2>1. \E type \in {"AGENT_STARTED", "AGENT_FAILED"} : log' = log \/ Appends(RunOf(t), {type})
      BY <1>5 DEF ActsFor
    <2>2. RunOf(t) \in Runs /\ \A type \in {"AGENT_STARTED", "AGENT_FAILED"} : {type} \cap OutcomeEvents = {}
      BY <1>5, TaskTypes DEF ActsFor, Claimed, OutcomeEvents
    <2>. QED
      BY <1>5, <2>1, <2>2, OutcomeFrame
  <1>6. ASSUME NEW s \in Schedulers, RecordStarted(s) \/ RecordFinished(s) \/ RecordRuntimeFailure(s)
        PROVE  Answered' /\ OneOutcome'
    BY <1>1, <1>5, <1>6, RecordStartedActs, EndActs
  <1>7. ASSUME NEW c \in calls, ReportWorkerFailure(c) PROVE Answered' /\ OneOutcome'
    BY <1>1, <1>5, <1>7, FailureActs DEF ReportWorkerFailure
  <1>8. ASSUME NEW c \in calls, SubmitTaskOutput(c) \/ SubmitPoOutput(c) \/ SubmitDevDelivery(c)
        PROVE  Answered' /\ OneOutcome'
    BY <1>1, <1>8, SubmitRecords, RecordedOnce
  <1>. QED
    BY <1>1, <1>2, <1>3, <1>4, <1>6, <1>7, <1>8, StepKinds DEF RowStep, OutcomeInv

\* Repeated, delayed and replayed callbacks record an outcome once, where the
\* callbacks of a task have one key.
THEOREM OutcomesAreRecordedOnce ==
  ASSUME \A k, l \in Keys : k = l
  PROVE  Spec => []OneOutcome
  <1>1. Init => OutcomeInv
    <2>1. ASSUME Init PROVE Answered /\ OneOutcome
      BY <2>1 DEF Init, Answered, OneOutcome
    <2>. QED
      BY <2>1, InitStarts, InitCause, InitUnmoved DEF OutcomeInv, AcceptInv
  <1>2. OutcomeInv /\ [Next]_vars => OutcomeInv'
    BY StepOutcome
  <1>3. OutcomeInv => OneOutcome
    BY DEF OutcomeInv
  <1>. QED
    BY <1>1, <1>2, <1>3, PTL DEF Spec
-----------------------------------------------------------------------------
(***************************************************************************)
(* The order of dev tasks. A loop takes the oldest waiting task, and a     *)
(* single loop has recorded the start of one task, or given it up, before  *)
(* it claims the next: Ordered carries the order of the log's STORY_FROZEN *)
(* events through the queue and the claims to its AGENT_STARTED events.    *)
(***************************************************************************)
\* t's story was frozen before u's, in the same run.
Before(t, u) ==
  RunOf(t) = RunOf(u) /\ \E i \in Frozen(t), j \in Frozen(u) : i < j

\* A dev task waits, it is never PENDING: only the second choice of a claim.
StoriesWait == \A t \in StoryTasks : taskState[t] # "PENDING"

Ordered ==
  \A t, u \in StoryTasks : Before(t, u) =>
    /\ u \in Claimed => t \in Claimed
    /\ \A s \in Schedulers : AboutToStart(s) /\ job[s] = t => u \notin Claimed
    /\ \A i \in Started(t), j \in Started(u) : i < j

OrderInv == FrozenInv /\ StoriesWait /\ Ordered

\* No dev task is claimed, or started, or frozen.
OrderKept ==
  /\ LoopsKept
  /\ \A t \in StoryTasks :
       /\ taskState'[t] = "PENDING" => taskState[t] = "PENDING"
       /\ t \in Claimed' <=> t \in Claimed
       /\ Frozen(t)' = Frozen(t) /\ Started(t)' = Started(t)

LEMMA OrderFrame ==
  ASSUME StoriesWait, Ordered, OrderKept
  PROVE  StoriesWait' /\ Ordered'
  <1>1. StoriesWait'
    BY DEF StoriesWait, OrderKept
  <1>2. ASSUME NEW t \in StoryTasks, NEW u \in StoryTasks, Before(t, u)'
        PROVE  /\ u \in Claimed' => t \in Claimed'
               /\ \A s \in Schedulers : AboutToStart(s)' /\ job'[s] = t => u \notin Claimed'
               /\ \A i \in Started(t)', j \in Started(u)' : i < j
    <2>1. Before(t, u)
      BY <1>2 DEF OrderKept, Before
    <2>. QED
      BY <2>1 DEF OrderKept, LoopsKept, AboutToStart, Ordered
  <1>. QED
    BY <1>1, <1>2 DEF Ordered

LEMMA NothingStarted ==
  ASSUME TypeOK, NEW r \in Runs, NEW types, "AGENT_STARTED" \notin types,
         log' = log \/ Appends(r, types)
  PROVE  \A t \in StoryTasks : Started(t)' = Started(t)
  <1>1. /\ LogKept
        /\ \A q \in Runs : q # r => log'[q] = log[q]
        /\ \A i \in DOMAIN log'[r] : i \in DOMAIN log[r] \/ log'[r][i].type \in types
    BY AppendsGrows
  <1>2. \A t : Event("AGENT_STARTED", t).type = "AGENT_STARTED"
    BY DEF Event
  <1>3. ASSUME NEW t \in StoryTasks, RunOf(t) = r PROVE Started(t)' = Started(t)
    BY <1>1, <1>2, <1>3 DEF Started, LogKept
  <1>4. ASSUME NEW t \in StoryTasks, RunOf(t) # r PROVE Started(t)' = Started(t)
    BY <1>1, <1>4, StoryTaskTypes DEF Started
  <1>. QED
    BY <1>3, <1>4

\* What is started was claimed.
LEMMA StartedIsClaimed ==
  ASSUME StartInv, NEW t \in StoryTasks, Started(t) # {}
  PROVE  t \in Claimed /\ \A s \in Schedulers : AboutToStart(s) => job[s] # t
  BY StartedIsPast, StoryTaskTypes DEF Started, StartedTasks

LEMMA ActsOrder ==
  ASSUME OrderInv, NEW t, NEW types, ActsFor(t, types),
         types \cap {"STORY_FROZEN", "AGENT_STARTED"} = {},
         NEW state \in TerminalTask,
         taskState' = taskState \/ taskState' = [taskState EXCEPT ![t] = state],
         LoopsKept
  PROVE  StoriesWait' /\ Ordered'
  <1>1. /\ TypeOK /\ StartInv /\ t \in Claimed /\ RunOf(t) \in Runs /\ t \in Tasks
        /\ log' = log \/ Appends(RunOf(t), types)
        /\ "STORY_FROZEN" \notin types /\ "AGENT_STARTED" \notin types
    BY TaskTypes DEF OrderInv, FrozenInv, AcceptInv, StartInv, ActsFor, Claimed
  <1>2. \A u \in StoryTasks : Frozen(u)' = Frozen(u) /\ Started(u)' = Started(u)
    BY <1>1, NothingFrozen, NothingStarted
  <1>3. \A u \in StoryTasks : /\ taskState'[u] = "PENDING" => taskState[u] = "PENDING"
                              /\ u \in Claimed' <=> u \in Claimed
    BY <1>1, StoryTaskTypes DEF Claimed, TypeOK, TerminalTask
  <1>. QED
    BY <1>2, <1>3, OrderFrame DEF OrderKept, OrderInv

LEMMA QuietOrder ==
  ASSUME OrderInv, QuietStep
  PROVE  StoriesWait' /\ Ordered'
  <1>1. UNCHANGED <<log, taskState>> /\ LoopsKept
    BY QuietKeeps DEF OrderInv, FrozenInv, AcceptInv, StartInv
  <1>2. OrderKept
    BY <1>1 DEF OrderKept, Frozen, Started, Claimed
  <1>. QED
    BY <1>2, OrderFrame DEF OrderInv

LEMMA CreateRunOrder ==
  ASSUME OrderInv, NEW r \in Runs, CreateRun(r)
  PROVE  StoriesWait' /\ Ordered'
  <1>. DEFINE types == {"RUN_CREATED", "BRIEFING_RECEIVED", "TASK_QUEUED"}
              events == << Event("RUN_CREATED", NoTask), Event("BRIEFING_RECEIVED", NoTask),
                           Event("TASK_QUEUED", FirstTask(r)) >>
  <1>1. TypeOK /\ FirstTask(r) \in Tasks
    BY TaskTypes DEF OrderInv, FrozenInv, AcceptInv, StartInv
  <1>2. events \in Seq(Events) /\ \A i \in DOMAIN events : events[i].type \in types
    BY <1>1 DEF Event, Events, EventTypes
  <1>3. Appends(r, types)
    BY <1>2 DEF Appends, CreateRun
  <1>4. \A t \in StoryTasks : Frozen(t)' = Frozen(t) /\ Started(t)' = Started(t)
    BY <1>1, <1>3, NothingFrozen, NothingStarted
  <1>5. \A t \in StoryTasks : taskState'[t] = taskState[t]
    BY <1>1, StoryTaskTypes DEF CreateRun, TypeOK
  <1>6. LoopsKept
    BY DEF CreateRun, LoopsKept, AboutToStart, loopVars
  <1>. QED
    BY <1>4, <1>5, <1>6, StoryTaskTypes, OrderFrame DEF OrderKept, OrderInv, Claimed

\* The one loop takes the oldest waiting task: what was frozen before is out of
\* the queue, and it has no other task in hand.
LEMMA ClaimOrder ==
  ASSUME OrderInv, \A a, b \in Schedulers : a = b,
         NEW s \in Schedulers, NEW t \in Tasks, Claim(s, t)
  PROVE  StoriesWait' /\ Ordered'
  <1>1. /\ TypeOK /\ log' = log
        /\ taskState' = [taskState EXCEPT ![t] = "RUNNING"]
        /\ pc[s] = "idle"
    BY DEF OrderInv, FrozenInv, AcceptInv, StartInv, Claim, runVars
  <1>2. /\ \A u \in Tasks : u \in Claimed' <=> u \in Claimed \/ u = t
        /\ \A u \in Tasks : taskState'[u] = "PENDING" => taskState[u] = "PENDING"
        /\ t \notin Claimed /\ taskState[t] # "ABSENT"
    BY <1>1 DEF Claimed, TypeOK, Claim, Claimable, Oldest, TerminalTask
  <1>3. \A v \in Schedulers : ~AboutToStart(v)
    BY <1>1 DEF AboutToStart
  <1>4. \A v \in Schedulers : AboutToStart(v)' => job'[v] = t
    BY <1>1, <1>3 DEF Claim, AboutToStart, TypeOK
  <1>5. \A u \in StoryTasks : Frozen(u)' = Frozen(u) /\ Started(u)' = Started(u)
    BY <1>1 DEF Frozen, Started
  <1>6. ASSUME NEW u \in StoryTasks, t \in StoryTasks, Before(u, t) PROVE u \in Claimed
    <2>1. taskState[u] # "ABSENT"
      BY <1>6 DEF Before, OrderInv, FrozenInv, FrozenOnce
    <2>2. PICK p \in DOMAIN queue : queue[p] = u
      BY <2>1, <1>6 DEF OrderInv, FrozenInv, FrozenOnce, Queued, Spots
    <2>3. Oldest(t, "WAITING")
      BY <1>6 DEF Claim, Claimable, Oldest, OrderInv, StoriesWait
    <2>4. PICK q \in DOMAIN queue :
            queue[q] = t /\ \A j \in DOMAIN queue : taskState[queue[j]] = "WAITING" => q <= j
      BY <2>3 DEF Oldest
    <2>5. p \in Queued(u) /\ q \in Queued(t)
      BY <2>2, <2>4 DEF Queued, Spots
    <2>6. p < q /\ p \in Nat /\ q \in Nat
      <3>1. p < q
        BY <1>6, <2>5 DEF Before, OrderInv, FrozenInv, QueuedInOrder
      <3>2. DOMAIN queue \subseteq Nat
        BY <1>1 DEF TypeOK
      <3>. QED
        BY <3>1, <3>2
    <2>7. taskState[u] # "WAITING"
      BY <2>2, <2>4, <2>6
    <2>. QED
      BY <1>1, <1>6, <2>1, <2>7, StoryTaskTypes
      DEF Claimed, TypeOK, TaskStates, OrderInv, StoriesWait
  <1>7. StoriesWait'
    BY <1>2, StoryTaskTypes DEF OrderInv, StoriesWait
  <1>8. Ordered'
    <2>. SUFFICES ASSUME NEW u \in StoryTasks, NEW w \in StoryTasks, Before(u, w)'
                  PROVE  /\ w \in Claimed' => u \in Claimed'
                         /\ \A v \in Schedulers : AboutToStart(v)' /\ job'[v] = u => w \notin Claimed'
                         /\ \A i \in Started(u)', j \in Started(w)' : i < j
      BY DEF Ordered
    <2>1. Before(u, w)
      BY <1>5 DEF Before
    <2>2. w \in Claimed' => u \in Claimed'
      BY <1>2, <1>6, <2>1, StoryTaskTypes DEF OrderInv, Ordered
    <2>3. ASSUME NEW v \in Schedulers, AboutToStart(v)', job'[v] = u PROVE w \notin Claimed'
      <3>1. u = t
        BY <1>4, <2>3
      <3>2. w \notin Claimed
        BY <1>2, <2>1, <3>1 DEF OrderInv, Ordered
      <3>3. w # t
        BY <2>1, <3>1, <1>2, <1>6
      <3>. QED
        BY <1>2, <3>2, <3>3, StoryTaskTypes
    <2>4. \A i \in Started(u)', j \in Started(w)' : i < j
      BY <1>5, <2>1 DEF OrderInv, Ordered
    <2>. QED
      BY <2>2, <2>3, <2>4
  <1>. QED
    BY <1>7, <1>8

\* A start is put after every start of the run, and only of a task before which
\* nothing frozen later has been claimed.
LEMMA RecordStartedOrder ==
  ASSUME OrderInv, NEW s \in Schedulers, RecordStarted(s)
  PROVE  StoriesWait' /\ Ordered'
  <1>. SUFFICES ASSUME NEW t, t = job[s], NEW r, r = RunOf(t)
                PROVE  StoriesWait' /\ Ordered'
    OBVIOUS
  <1>. DEFINE n == Len(log[r]) + 1
  <1>1. /\ TypeOK /\ StartInv /\ ActsFor(t, {"AGENT_STARTED"}) /\ UNCHANGED taskState
        /\ t \in Claimed /\ t \in Tasks /\ r \in Runs
    BY RecordStartedActs, TaskTypes
    DEF OrderInv, FrozenInv, AcceptInv, StartInv, ActsFor, Claimed
  <1>2. /\ AboutToStart(s) /\ pc' = [pc EXCEPT ![s] = "recorded"] /\ job' = job
        /\ log' = [log EXCEPT ![r] = @ \o <<Event("AGENT_STARTED", t)>>]
    BY DEF RecordStarted, ReadyToRecord, AboutToStart, Go, AppendDriving, AppendEvents
  <1>3. LoopsKept
    BY <1>1, <1>2 DEF LoopsKept, AboutToStart, TypeOK
  <1>4. Claimed' = Claimed
    BY <1>1 DEF Claimed
  <1>5. \A u \in StoryTasks : Frozen(u)' = Frozen(u)
    BY <1>1, NothingFrozen DEF ActsFor
  <1>6. \A q \in Runs : \A i \in DOMAIN log'[q] :
          \/ q = r /\ i = n /\ log'[q][i] = Event("AGENT_STARTED", t)
          \/ i \in DOMAIN log[q] /\ log'[q][i] = log[q][i]
    <2>. SUFFICES ASSUME NEW started, started = Event("AGENT_STARTED", t)
                  PROVE  \A q \in Runs : \A i \in DOMAIN log'[q] :
                           \/ q = r /\ i = n /\ log'[q][i] = started
                           \/ i \in DOMAIN log[q] /\ log'[q][i] = log[q][i]
      OBVIOUS
    <2>1. started \in Events
      BY <1>1, EventType DEF EventTypes
    <2>2. /\ log[r] \in Seq(Events) /\ log'[r] = log[r] \o <<started>>
          /\ \A q \in Runs : q # r => log'[q] = log[q]
      BY <1>1, <1>2 DEF TypeOK
    <2>3. \A i \in DOMAIN (log[r] \o <<started>>) :
            \/ i \in DOMAIN log[r] /\ (log[r] \o <<started>>)[i] = log[r][i]
            \/ i = n /\ (log[r] \o <<started>>)[i] = started
      BY <2>1, <2>2, AppendedLast
    <2>. QED
      BY <2>2, <2>3
  <1>7. DOMAIN log[r] = 1 .. Len(log[r]) /\ Len(log[r]) \in Nat
    BY <1>1 DEF TypeOK
  <1>8. \A u : Event("AGENT_STARTED", u) = Event("AGENT_STARTED", t) => u = t
    BY DEF Event
  <1>. HIDE DEF n
  <1>9. \A u \in StoryTasks : \A i \in Started(u)' : i \in Started(u) \/ (i = n /\ u = t)
    <2>. SUFFICES ASSUME NEW u \in StoryTasks, NEW i \in Started(u)'
                  PROVE  i \in Started(u) \/ (i = n /\ u = t)
      OBVIOUS
    <2>1. i \in DOMAIN log'[RunOf(u)] /\ log'[RunOf(u)][i] = Event("AGENT_STARTED", u)
      BY DEF Started
    <2>2. RunOf(u) \in Runs
      BY StoryTaskTypes
    <2>3. CASE i \in DOMAIN log[RunOf(u)] /\ log'[RunOf(u)][i] = log[RunOf(u)][i]
      BY <2>1, <2>3 DEF Started
    <2>4. CASE i = n /\ log'[RunOf(u)][i] = Event("AGENT_STARTED", t)
      BY <1>8, <2>1, <2>4
    <2>. QED
      BY <1>6, <2>1, <2>2, <2>3, <2>4
  <1>10. ASSUME NEW u \in StoryTasks, u = t, NEW w \in StoryTasks, Before(u, w)
         PROVE  Started(w)' = {}
    <2>1. w \notin Claimed
      BY <1>2, <1>10 DEF OrderInv, Ordered
    <2>2. Started(w) = {}
      BY <1>1, <2>1, StartedIsClaimed
    <2>. QED
      BY <1>1, <1>9, <2>1, <2>2
  <1>11. ASSUME NEW u \in StoryTasks, NEW w \in StoryTasks, Before(u, w),
                NEW i \in Started(u)', NEW j \in Started(w)'
         PROVE  i < j
    <2>1. i \in Started(u)
      BY <1>9, <1>10, <1>11
    <2>2. CASE j \in Started(w)
      BY <1>11, <2>1, <2>2 DEF OrderInv, Ordered
    <2>3. CASE j = n /\ w = t
      <3>1. i \in DOMAIN log[r]
        BY <1>11, <2>1, <2>3 DEF Before, Started
      <3>. QED
        BY <1>7, <2>3, <3>1 DEF n
    <2>. QED
      BY <1>9, <1>11, <2>2, <2>3
  <1>12. Ordered'
    <2>. SUFFICES ASSUME NEW u \in StoryTasks, NEW w \in StoryTasks, Before(u, w)'
                  PROVE  /\ w \in Claimed' => u \in Claimed'
                         /\ \A v \in Schedulers : AboutToStart(v)' /\ job'[v] = u => w \notin Claimed'
                         /\ \A i \in Started(u)', j \in Started(w)' : i < j
      BY DEF Ordered
    <2>1. Before(u, w)
      BY <1>5 DEF Before
    <2>2. (w \in Claimed' => u \in Claimed')
      BY <1>4, <2>1 DEF OrderInv, Ordered
    <2>3. \A v \in Schedulers : AboutToStart(v)' /\ job'[v] = u => w \notin Claimed'
      BY <1>3, <1>4, <2>1 DEF OrderInv, Ordered, LoopsKept, AboutToStart
    <2>. QED
      BY <1>11, <2>1, <2>2, <2>3
  <1>. QED
    BY <1>1, <1>12 DEF OrderInv, StoriesWait

LEMMA EndOrder ==
  ASSUME OrderInv, NEW s \in Schedulers, RecordFinished(s) \/ RecordRuntimeFailure(s)
  PROVE  StoriesWait' /\ Ordered'
  <1>1. TypeOK /\ StartInv
    BY DEF OrderInv, FrozenInv, AcceptInv, StartInv
  <1>2. LoopsKept
    BY <1>1, EndActs, RestKeepsLoops
  <1>3. {"AGENT_FAILED"} \cap {"STORY_FROZEN", "AGENT_STARTED"} = {}
    OBVIOUS
  <1>4. \E state \in TerminalTask :
          taskState' = taskState \/ taskState' = [taskState EXCEPT ![job[s]] = state]
    BY <1>1, EndActs DEF TerminalTask
  <1>. QED
    BY <1>1, <1>2, <1>3, <1>4, EndActs, ActsOrder

\* The tasks of a new backlog are all in the queue.
LEMMA PoOutputOrder ==
  ASSUME OrderInv, NEW c \in calls, SubmitPoOutput(c)
  PROVE  StoriesWait' /\ Ordered'
  <1>. SUFFICES ASSUME NEW r, r = RunOf(c.task),
                       NEW devs, devs = [i \in DOMAIN c.payload.stories |-> <<r, c.payload.stories[i]>>]
                PROVE  StoriesWait' /\ Ordered'
    OBVIOUS
  <1>1. TypeOK /\ StartInv /\ CauseInv /\ LoopsKept
    BY CallKeeps DEF OrderInv, FrozenInv, AcceptInv, StartInv, CallStep
  <1>2. Placed(r, devs)
    BY PoPlaces, Zenon DEF OrderInv
  <1>3. /\ ActsFor(c.task, {"STORY_FROZEN", "PO_COMPLETED"}) /\ r \in Runs
        /\ c.task = FirstTask(r) /\ ~HasBacklog(r)
    BY <1>1, <1>2, PoOutputActs DEF Placed
  <1>4. \A t \in StoryTasks : Started(t)' = Started(t)
    BY <1>1, <1>3, NothingStarted DEF ActsFor
  <1>5. ASSUME NEW t \in StoryTasks, RunOf(t) = r
        PROVE  taskState'[t] \in {"WAITING", "ABSENT"} /\ taskState[t] = "ABSENT"
    <2>1. taskState'[t] \in {"WAITING", "ABSENT"}
      BY <1>2, <1>5, Zenon DEF Placed
    <2>. QED
      BY <1>1, <1>3, <1>5, <2>1, StoryTaskTypes DEF StartInv, QueuedForAReason
  <1>6. ASSUME NEW t \in StoryTasks, RunOf(t) # r
        PROVE  taskState'[t] = taskState[t] /\ Frozen(t)' = Frozen(t)
    BY <1>2, <1>6, Zenon DEF Placed
  <1>7. ASSUME NEW t \in StoryTasks, RunOf(t) = r
        PROVE  t \notin Claimed' /\ Started(t)' = {}
    <2>1. t \notin Claimed /\ t \notin Claimed'
      BY <1>5, <1>7 DEF Claimed, TerminalTask
    <2>. QED
      BY <1>1, <1>4, <2>1, StartedIsClaimed
  <1>8. StoriesWait'
    BY <1>5, <1>6 DEF StoriesWait, OrderInv
  <1>9. Ordered'
    <2>. SUFFICES ASSUME NEW u \in StoryTasks, NEW w \in StoryTasks, Before(u, w)'
                  PROVE  /\ w \in Claimed' => u \in Claimed'
                         /\ \A v \in Schedulers : AboutToStart(v)' /\ job'[v] = u => w \notin Claimed'
                         /\ \A i \in Started(u)', j \in Started(w)' : i < j
      BY DEF Ordered
    <2>1. RunOf(u) = RunOf(w)
      BY DEF Before
    <2>2. CASE RunOf(u) = r
      BY <1>7, <2>1, <2>2
    <2>3. CASE RunOf(u) # r
      <3>1. Before(u, w)
        BY <1>6, <2>1, <2>3 DEF Before
      <3>2. /\ u \in Claimed' <=> u \in Claimed
            /\ w \in Claimed' <=> w \in Claimed
        BY <1>6, <2>1, <2>3 DEF Claimed
      <3>. QED
        BY <1>1, <1>4, <3>1, <3>2 DEF OrderInv, Ordered, LoopsKept, AboutToStart
    <2>. QED
      BY <2>2, <2>3
  <1>. QED
    BY <1>8, <1>9

LEMMA CallOrder ==
  ASSUME OrderInv, NEW c \in calls,
         SubmitTaskOutput(c) \/ SubmitDevDelivery(c) \/ ReportWorkerFailure(c)
  PROVE  StoriesWait' /\ Ordered'
  <1>1. StartInv /\ LoopsKept
    BY CallKeeps DEF OrderInv, FrozenInv, AcceptInv, StartInv, CallStep
  <1>2. \E types : ActsFor(c.task, types) /\ types \cap {"STORY_FROZEN", "AGENT_STARTED"} = {}
    <2>1. {"FAKE_WORKER_COMPLETED", "AGENT_FAILED", "RUN_COMPLETED", "RUN_FAILED"}
             \cap {"STORY_FROZEN", "AGENT_STARTED"} = {}
      OBVIOUS
    <2>2. {"DEV_TASK_PLAN_CREATED", "CODE_DELIVERED", "AGENT_FAILED"}
             \cap {"STORY_FROZEN", "AGENT_STARTED"} = {}
      OBVIOUS
    <2>3. {"AGENT_FAILED"} \cap {"STORY_FROZEN", "AGENT_STARTED"} = {}
      OBVIOUS
    <2>. QED
      BY <1>1, <2>1, <2>2, <2>3, OutputActs, DeliveryActs, FailureActs
  <1>3. \E state \in TerminalTask :
          taskState' = taskState \/ taskState' = [taskState EXCEPT ![c.task] = state]
    BY DEF SubmitTaskOutput, SubmitDevDelivery, ReportWorkerFailure, WriteTask, TerminalTask
  <1>. QED
    BY <1>1, <1>2, <1>3, ActsOrder

LEMMA StepOrder ==
  ASSUME \A a, b \in Schedulers : a = b, OrderInv, [Next]_vars
  PROVE  OrderInv'
  <1>1. FrozenInv'
    BY StepFrozen DEF OrderInv
  <1>2. StoriesWait' /\ Ordered'
    BY StepKinds, QuietOrder, CreateRunOrder, ClaimOrder, RecordStartedOrder, EndOrder,
       PoOutputOrder, CallOrder DEF RowStep
  <1>. QED
    BY <1>1, <1>2 DEF OrderInv

LEMMA InitOrder == Init => OrderInv
  <1>. SUFFICES ASSUME Init PROVE OrderInv
    OBVIOUS
  <1>1. FrozenInv
    BY InitStarts, InitCause, InitUnmoved, InitSubmitted, InitFrozen DEF FrozenInv, AcceptInv
  <1>2. \A t \in StoryTasks : taskState[t] = "ABSENT" /\ Frozen(t) = {}
    BY StoryTaskTypes DEF Init, Frozen
  <1>. QED
    BY <1>1, <1>2 DEF OrderInv, StoriesWait, Ordered, Before

\* One loop alone claims, starts and records the dev tasks of a run in the order
\* the PO froze them, however often the process dies in between.
THEOREM DevsStartAsFrozen ==
  ASSUME \A a, b \in Schedulers : a = b
  PROVE  Spec => []DevsStartInOrder
  <1>1. OrderInv /\ [Next]_vars => OrderInv'
    BY StepOrder
  <1>2. OrderInv => DevsStartInOrder
    <2>. SUFFICES ASSUME OrderInv, NEW r \in Runs, NEW a \in Stories, NEW b \in Stories,
                         NEW t, t = <<r, a>>, NEW u, u = <<r, b>>,
                         NEW i \in Frozen(t), NEW j \in Frozen(u), NEW k \in Started(u), i < j
                  PROVE  /\ taskState[t] # "WAITING"
                         /\ \A m \in Started(t) : m < k
      BY DEF DevsStartInOrder
    <2>1. t \in StoryTasks /\ u \in StoryTasks /\ Before(t, u)
      BY StoryTaskTypes DEF Before, RunOf
    <2>2. u \in Claimed
      BY <2>1, StartedIsClaimed DEF OrderInv, FrozenInv, AcceptInv
    <2>3. t \in Claimed
      BY <2>1, <2>2 DEF OrderInv, Ordered
    <2>. QED
      BY <2>1, <2>3 DEF OrderInv, Ordered, Claimed, TerminalTask
  <1>. QED
    BY <1>1, <1>2, InitOrder, PTL DEF Spec
=============================================================================
