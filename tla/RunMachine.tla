------------------------------ MODULE RunMachine ------------------------------
(***************************************************************************)
(* The state machine of a run, as persistence/state_machine.py loads it    *)
(* from packages/contracts/state-machine/v1.json.  Every state change of a *)
(* run that the control-api makes goes through NextState.                  *)
(***************************************************************************)
EXTENDS Naturals, Sequences

RunStates == {"RECEIVED", "WORKER_QUEUED", "WORKER_RUNNING",
              "COMPLETED", "FAILED", "CANCELED"}

InitialState == "RECEIVED"

TerminalStates == {"COMPLETED", "FAILED", "CANCELED"}

\* Mutation: a row lets a late failure reopen a completed run.
ReopeningTransitions ==
  { <<"RECEIVED",       "TASK_QUEUED",           "WORKER_QUEUED">>,
    <<"WORKER_QUEUED",  "AGENT_STARTED",         "WORKER_RUNNING">>,
    <<"WORKER_QUEUED",  "AGENT_FAILED",          "FAILED">>,
    <<"WORKER_RUNNING", "FAKE_WORKER_COMPLETED", "COMPLETED">>,
    <<"WORKER_RUNNING", "AGENT_FAILED",          "FAILED">>,
    <<"COMPLETED",      "AGENT_FAILED",          "FAILED">> }

\* The rows of the contract: from, event, to.
Transitions ==
  { <<"RECEIVED",       "TASK_QUEUED",           "WORKER_QUEUED">>,
    <<"WORKER_QUEUED",  "AGENT_STARTED",         "WORKER_RUNNING">>,
    <<"WORKER_QUEUED",  "AGENT_FAILED",          "FAILED">>,
    <<"WORKER_RUNNING", "FAKE_WORKER_COMPLETED", "COMPLETED">>,
    <<"WORKER_RUNNING", "AGENT_FAILED",          "FAILED">>,
    <<"RECEIVED",       "RUN_CANCELED",          "CANCELED">>,
    <<"WORKER_QUEUED",  "RUN_CANCELED",          "CANCELED">>,
    <<"WORKER_RUNNING", "RUN_CANCELED",          "CANCELED">> }

Accepts(state, event) ==
  \E to \in RunStates : <<state, event, to>> \in Transitions

\* Meaningful where Accepts holds; the code raises InvalidTransition elsewhere.
NextState(state, event) ==
  CHOOSE to \in RunStates : <<state, event, to>> \in Transitions

DrivingEvents == {tr[2] : tr \in Transitions}

(***************************************************************************)
(* What an auditor computes from a log alone: the state reached by feeding *)
(* the logged event types, in order, to the table, starting at             *)
(* InitialState.  A step the table does not have leads to "IMPOSSIBLE".    *)
(***************************************************************************)
AuditedStates(types) ==
  LET reached[n \in 0 .. Len(types)] ==
        IF n = 0 THEN InitialState
        ELSE IF types[n] \notin DrivingEvents THEN reached[n - 1]
        ELSE IF Accepts(reached[n - 1], types[n])
             THEN NextState(reached[n - 1], types[n])
             ELSE "IMPOSSIBLE"
  IN  reached

Audited(types) == AuditedStates(types)[Len(types)]
=============================================================================
