------------------------------- MODULE RunLedger -------------------------------
(***************************************************************************)
(* What the control-api promises of a run to whoever reads its timeline    *)
(* when one worker does the whole run: the state and the log move together,*)
(* only along the contract's table, and a terminal run is closed.          *)
(***************************************************************************)
EXTENDS RunMachine

CONSTANT Runs

VARIABLES state, history    \* per run: its state, the types in its log

ledger == <<state, history>>

LedgerInit ==
  /\ state = [r \in Runs |-> "ABSENT"]
  /\ history = [r \in Runs |-> <<>>]

Open(r) ==
  /\ state[r] = "ABSENT"
  /\ state' = [state EXCEPT ![r] = "WORKER_QUEUED"]
  /\ history' = [history EXCEPT ![r] = <<"RUN_CREATED", "BRIEFING_RECEIVED", "TASK_QUEUED">>]

\* One accepted event moves the run; an informative one may close the entry.
Enter(r, event, note) ==
  /\ Accepts(state[r], event)
  /\ state' = [state EXCEPT ![r] = NextState(state[r], event)]
  /\ history' = [history EXCEPT ![r] = @ \o <<event>> \o note]

Start(r) == Enter(r, "AGENT_STARTED", <<>>)

Complete(r) == Enter(r, "FAKE_WORKER_COMPLETED", <<"RUN_COMPLETED">>)

Fail(r) == \E note \in {<<>>, <<"RUN_FAILED">>} : Enter(r, "AGENT_FAILED", note)

LedgerNext == \E r \in Runs : Open(r) \/ Start(r) \/ Complete(r) \/ Fail(r)

LedgerSpec == LedgerInit /\ [][LedgerNext]_ledger
=============================================================================
