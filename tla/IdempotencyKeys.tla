--------------------------- MODULE IdempotencyKeys ---------------------------
(***************************************************************************)
(* How the control-api keeps the promise of OncePerKey: one transaction    *)
(* reserves the key, executes the command and records its answer, and the  *)
(* unique index makes a second reservation of the key wait for the first.  *)
(*                                                                         *)
(* A repetition is another request with the same key; it may come at any   *)
(* time, also while the first is executed.  The answer of a command is     *)
(* named after the request that was executed, since it holds fresh ids.    *)
(***************************************************************************)
EXTENDS Naturals, FiniteSets

CONSTANTS
  Requests, Keys, Payloads,
  PoolSize,    \* connections of the engine
  MayFail,     \* transactions may be refused by the handler, fail or be lost
  NoCommand, NoRow, NoOne, Waiting, Failed, Conflict, InFlight

ASSUME PoolAssumption == PoolSize \in Nat \ {0}
ASSUME FailAssumption == MayFail \in BOOLEAN
ASSUME RequestsAssumption ==
  /\ IsFiniteSet(Requests)
  /\ Requests \intersect {NoOne, Waiting, Failed, Conflict, InFlight} = {}
ASSUME AnswersAssumption ==
  /\ Waiting \notin {Failed, Conflict, InFlight} /\ InFlight \notin {Failed, Conflict}
  /\ NoCommand \notin [key : Keys, payload : Payloads]
  /\ NoRow \notin [payload : Payloads, answer : Requests \union {InFlight}]

VARIABLES
  command,  \* key and request hash of each request
  pc,       \* where its handler is
  holder,   \* the request whose uncommitted insert holds each key
  rows,     \* idempotency_keys, committed
  effects,  \* committed effects of each key's command
  reply     \* the answer of each request

vars == <<command, pc, holder, rows, effects, reply>>

Commands == [key : Keys, payload : Payloads]

Key(r) == command[r].key

\* A session has a connection from its first statement to its end.
Connected == {r \in Requests : pc[r] \notin {"away", "queued", "done"}}

Init ==
  /\ command = [r \in Requests |-> NoCommand]
  /\ pc = [r \in Requests |-> "away"]
  /\ holder = [k \in Keys |-> NoOne]
  /\ rows = [k \in Keys |-> NoRow]
  /\ effects = [k \in Keys |-> {}]
  /\ reply = [r \in Requests |-> Waiting]
-----------------------------------------------------------------------------
GoTo(r, place) == pc' = [pc EXCEPT ![r] = place]

Finish(r, answer) == GoTo(r, "done") /\ reply' = [reply EXCEPT ![r] = answer]

\* The transaction of a request ends, and with it its hold on a key.
Released(r) == [k \in Keys |-> IF holder[k] = r THEN NoOne ELSE holder[k]]

Arrive(r) ==
  /\ pc[r] = "away"
  /\ \E c \in Commands : command' = [command EXCEPT ![r] = c]
  /\ GoTo(r, "queued")
  /\ UNCHANGED <<holder, rows, effects, reply>>

\* Mutation: the pool grows as it is asked to.
CheckoutAnyway(r) ==
  /\ pc[r] = "queued"
  /\ GoTo(r, "claiming")
  /\ UNCHANGED <<command, holder, rows, effects, reply>>

\* The first statement takes a connection of the pool.
Checkout(r) ==
  /\ pc[r] = "queued"
  /\ Cardinality(Connected) < PoolSize
  /\ GoTo(r, "claiming")
  /\ UNCHANGED <<command, holder, rows, effects, reply>>

\* Mutation: the reservation is committed in a transaction of its own.
ReserveAtOnce(r) ==
  /\ pc[r] = "claiming" /\ rows[Key(r)] = NoRow
  /\ rows' = [rows EXCEPT ![Key(r)] = [payload |-> command[r].payload, answer |-> InFlight]]
  /\ GoTo(r, "reserved")
  /\ UNCHANGED <<command, holder, effects, reply>>

\* claim, where the key is new.  Nobody else holds it: the insert waits for them.
Reserve(r) ==
  /\ pc[r] = "claiming"
  /\ rows[Key(r)] = NoRow /\ holder[Key(r)] = NoOne
  /\ holder' = [holder EXCEPT ![Key(r)] = r]
  /\ GoTo(r, "reserved")
  /\ UNCHANGED <<command, rows, effects, reply>>

\* claim, where the insert does nothing because the key has a committed row.
FindTaken(r) ==
  /\ pc[r] = "claiming"
  /\ rows[Key(r)] # NoRow
  /\ GoTo(r, "reading")
  /\ UNCHANGED <<command, holder, rows, effects, reply>>

\* Mutation: the payload under the key is not compared.
AnswerAnyway(r) == rows[Key(r)].answer

\* The three ways a row answers a repetition.
AnswerOf(r) ==
  IF rows[Key(r)].payload # command[r].payload THEN Conflict ELSE rows[Key(r)].answer

Read(r) ==
  /\ pc[r] = "reading" /\ rows[Key(r)] # NoRow
  /\ Finish(r, AnswerOf(r))
  /\ UNCHANGED <<command, holder, rows, effects>>

\* Mutation: the command works in a session of its own.
ExecuteElsewhere(r) ==
  /\ pc[r] = "reserved"
  /\ Cardinality(Connected) < PoolSize
  /\ GoTo(r, "executed")
  /\ UNCHANGED <<command, holder, rows, effects, reply>>

\* The command, in the same session; its effects show at the commit.
Execute(r) ==
  /\ pc[r] = "reserved"
  /\ GoTo(r, "executed")
  /\ UNCHANGED <<command, holder, rows, effects, reply>>

RecordResponse(r) ==
  /\ pc[r] = "executed"
  /\ GoTo(r, "recorded")
  /\ UNCHANGED <<command, holder, rows, effects, reply>>

\* The commit may be done and its acknowledgement lost.
Commit(r) ==
  /\ pc[r] = "recorded"
  /\ rows' = [rows EXCEPT ![Key(r)] = [payload |-> command[r].payload, answer |-> r]]
  /\ effects' = [effects EXCEPT ![Key(r)] = @ \union {r}]
  /\ holder' = Released(r)
  /\ Finish(r, r) \/ (MayFail /\ Finish(r, Failed))
  /\ UNCHANGED command

\* A refusal, an exception, a timeout of the pool, a lost connection or the end of
\* the process: the transaction is rolled back, and nothing of it remains.
Rollback(r) ==
  /\ MayFail
  /\ pc[r] \notin {"away", "done"}
  /\ Finish(r, Failed)
  /\ holder' = Released(r)
  /\ UNCHANGED <<command, rows, effects>>
-----------------------------------------------------------------------------
Step(r) ==
  \/ Checkout(r) \/ Reserve(r) \/ FindTaken(r) \/ Read(r)
  \/ Execute(r) \/ RecordResponse(r) \/ Commit(r)

Next == \E r \in Requests : Arrive(r) \/ Step(r) \/ Rollback(r)

Spec == Init /\ [][Next]_vars

\* Every statement of a handler ends, the insert once the key is free.
FairSpec == Spec /\ \A r \in Requests : WF_vars(Step(r))
-----------------------------------------------------------------------------
(***************************************************************************)
(* Properties                                                              *)
(***************************************************************************)
\* Every variable holds a value of its type; no more sessions than connections,
\* and a key is held by the request that reserved it.
TypeOK ==
  /\ command \in [Requests -> Commands \union {NoCommand}]
  /\ pc \in [Requests -> {"away", "queued", "claiming", "reading", "reserved",
                          "executed", "recorded", "done"}]
  /\ holder \in [Keys -> Requests \union {NoOne}]
  /\ rows \in [Keys -> [payload : Payloads, answer : Requests \union {InFlight}] \union {NoRow}]
  /\ effects \in [Keys -> SUBSET Requests]
  /\ reply \in [Requests -> Requests \union {Waiting, Failed, Conflict, InFlight}]
  /\ Cardinality(Connected) <= PoolSize

\* The transaction around a command implements one atomic effect per key, and
\* what a repetition is told is the answer of that effect.
Once == INSTANCE OncePerKey WITH done <- effects

RefinesOnce == Once!OnceSpec

\* The branch of claim for a request still in flight never runs: a reservation is
\* seen only together with its answer.
InFlightIsNeverSeen == \A r \in Requests : reply[r] # InFlight

\* Repetitions that wait for a key hold connections; every request is answered all
\* the same, even by a pool of one connection less than there are requests.
EveryRequestIsAnswered == \A r \in Requests : pc[r] = "queued" ~> pc[r] = "done"
=============================================================================
