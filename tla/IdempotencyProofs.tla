-------------------------- MODULE IdempotencyProofs --------------------------
(***************************************************************************)
(* The transaction around a command implements OncePerKey, for every       *)
(* number of requests, keys, payloads and connections.                     *)
(*                                                                         *)
(* The claim of a key is exclusive while it is uncommitted: a request that *)
(* has reserved its key is the holder, and there is no row yet.  A row is  *)
(* committed together with the effect it answers for.                      *)
(***************************************************************************)
EXTENDS IdempotencyKeys, FiniteSetTheorems, TLAPS

Types ==
  /\ command \in [Requests -> Commands \union {NoCommand}]
  /\ pc \in [Requests -> {"away", "queued", "claiming", "reading", "reserved",
                          "executed", "recorded", "done"}]
  /\ holder \in [Keys -> Requests \union {NoOne}]
  /\ rows \in [Keys -> [payload : Payloads, answer : Requests \union {InFlight}] \union {NoRow}]
  /\ effects \in [Keys -> SUBSET Requests]
  /\ reply \in [Requests -> Requests \union {Waiting, Failed, Conflict}]

\* A request has a command once it arrived, and an answer once it is done.
PlaceInv ==
  \A r \in Requests :
    /\ pc[r] = "away" <=> command[r] = NoCommand
    /\ pc[r] = "done" <=> reply[r] # Waiting

HolderInv ==
  \A r \in Requests :
    pc[r] \in {"reserved", "executed", "recorded"} =>
      holder[Key(r)] = r /\ rows[Key(r)] = NoRow

RowInv ==
  \A k \in Keys :
    \/ rows[k] = NoRow /\ effects[k] = {}
    \/ \E q \in Requests :
         /\ pc[q] = "done" /\ effects[k] = {q}
         /\ rows[k] = [payload |-> command[q].payload, answer |-> q]

KeyInv == Types /\ PlaceInv /\ HolderInv /\ RowInv
-----------------------------------------------------------------------------
LEMMA InitKeys == Init => KeyInv /\ Once!OnceInit
  BY DEF Init, KeyInv, Types, PlaceInv, HolderInv, RowInv, Once!OnceInit

LEMMA ArriveKeys ==
  ASSUME KeyInv, NEW r \in Requests, Arrive(r)
  PROVE  KeyInv' /\ Once!Ask(r)
  <1>. PICK c \in Commands : command' = [command EXCEPT ![r] = c]
    BY DEF Arrive
  <1>1. Types'
    BY DEF Arrive, GoTo, KeyInv, Types
  <1>2. PlaceInv'
    BY AnswersAssumption DEF Arrive, GoTo, KeyInv, Types, PlaceInv, Commands
  <1>3. HolderInv'
    BY DEF Arrive, GoTo, KeyInv, Types, HolderInv, Key
  <1>4. RowInv'
    BY DEF Arrive, GoTo, KeyInv, Types, RowInv
  <1>5. Once!Ask(r)
    BY DEF Arrive, KeyInv, Types, PlaceInv, Once!Ask, Once!Commands, Commands
  <1>. QED
    BY <1>1, <1>2, <1>3, <1>4, <1>5 DEF KeyInv

\* Steps inside a transaction that nobody else can see.
LEMMA QuietKeys ==
  ASSUME KeyInv, NEW r \in Requests,
         Checkout(r) \/ Reserve(r) \/ FindTaken(r) \/ Execute(r) \/ RecordResponse(r)
  PROVE  KeyInv' /\ UNCHANGED Once!once
  <1>1. UNCHANGED <<command, rows, effects, reply>>
    BY DEF Checkout, Reserve, FindTaken, Execute, RecordResponse
  <1>2. PICK place \in {"claiming", "reserved", "reading", "executed", "recorded"} :
          pc' = [pc EXCEPT ![r] = place]
    BY DEF Checkout, Reserve, FindTaken, Execute, RecordResponse, GoTo
  <1>3. pc[r] \notin {"away", "done"}
    BY DEF Checkout, Reserve, FindTaken, Execute, RecordResponse
  <1>4. Key(r) \in Keys
    BY <1>3 DEF KeyInv, Types, PlaceInv, Key, Commands
  <1>5. Types'
    BY <1>1, <1>2, <1>4 DEF KeyInv, Types, Checkout, Reserve, FindTaken, Execute, RecordResponse
  <1>6. PlaceInv'
    BY <1>1, <1>2, <1>3 DEF KeyInv, Types, PlaceInv
  <1>7. RowInv'
    BY <1>1, <1>2, <1>3 DEF KeyInv, Types, RowInv
  <1>8. HolderInv'
    <2>1. CASE Reserve(r)
      BY <2>1, <1>1, <1>4, RequestsAssumption DEF Reserve, GoTo, KeyInv, Types, HolderInv, Key
    <2>2. CASE Execute(r) \/ RecordResponse(r)
      BY <2>2, <1>1 DEF Execute, RecordResponse, GoTo, KeyInv, Types, HolderInv, Key
    <2>3. CASE Checkout(r) \/ FindTaken(r)
      BY <2>3, <1>1 DEF Checkout, FindTaken, GoTo, KeyInv, Types, HolderInv, Key
    <2>. QED
      BY <2>1, <2>2, <2>3
  <1>. QED
    BY <1>1, <1>5, <1>6, <1>7, <1>8 DEF KeyInv, Once!once

LEMMA ReadKeys ==
  ASSUME KeyInv, NEW r \in Requests, Read(r)
  PROVE  KeyInv' /\ Once!Repeat(r)
  <1>1. Key(r) \in Keys /\ command[r] # NoCommand /\ reply[r] = Waiting /\ pc[r] = "reading"
    BY DEF Read, KeyInv, Types, PlaceInv, Key, Commands
  <1>2. PICK q \in Requests :
          /\ pc[q] = "done" /\ effects[Key(r)] = {q}
          /\ rows[Key(r)] = [payload |-> command[q].payload, answer |-> q]
    BY <1>1 DEF Read, KeyInv, RowInv
  <1>3. AnswerOf(r) = IF command[q].payload = command[r].payload THEN q ELSE Conflict
    BY <1>2 DEF AnswerOf
  <1>4. AnswerOf(r) \in Requests \union {Conflict} /\ AnswerOf(r) # Waiting
    BY <1>3, RequestsAssumption, AnswersAssumption
  <1>5. Types' /\ PlaceInv'
    BY <1>4 DEF Read, Finish, GoTo, KeyInv, Types, PlaceInv
  <1>6. HolderInv' /\ RowInv'
    BY <1>1 DEF Read, Finish, GoTo, KeyInv, Types, HolderInv, RowInv, Key
  <1>7. Once!Repeat(r)
    BY <1>1, <1>2, <1>3
       DEF Read, Finish, Key, Once!Repeat, Once!Asked, Once!Answered
  <1>. QED
    BY <1>5, <1>6, <1>7 DEF KeyInv

\* Releasing the keys of a request takes none from the others.
LEMMA ReleaseOwn ==
  ASSUME KeyInv, NEW r \in Requests
  PROVE  /\ Released(r) \in [Keys -> Requests \union {NoOne}]
         /\ \A k \in Keys : holder[k] # r => Released(r)[k] = holder[k]
  BY DEF Released, KeyInv, Types

LEMMA CommitKeys ==
  ASSUME KeyInv, NEW r \in Requests, Commit(r)
  PROVE  KeyInv' /\ Once!TakeEffect(r)
  <1>1. /\ Key(r) \in Keys /\ command[r] \in Commands /\ command[r] # NoCommand
        /\ reply[r] = Waiting /\ pc[r] = "recorded"
        /\ holder[Key(r)] = r /\ rows[Key(r)] = NoRow
    BY DEF Commit, KeyInv, Types, PlaceInv, HolderInv, Key, Commands
  <1>2. effects[Key(r)] = {}
    <2>1. ASSUME NEW q \in Requests, pc[q] = "done"
          PROVE  [payload |-> command[q].payload, answer |-> q] # NoRow
      <3>1. command[q].payload \in Payloads
        BY <2>1 DEF KeyInv, Types, PlaceInv, Commands
      <3>. QED
        BY <3>1, AnswersAssumption
    <2>. QED
      BY <1>1, <2>1 DEF KeyInv, RowInv
  <1>3. PICK a \in {r, Failed} :
          pc' = [pc EXCEPT ![r] = "done"] /\ reply' = [reply EXCEPT ![r] = a]
    BY DEF Commit, Finish, GoTo
  <1>4. a # Waiting
    BY RequestsAssumption, AnswersAssumption
  <1>5. /\ rows' = [rows EXCEPT ![Key(r)] = [payload |-> command[r].payload, answer |-> r]]
        /\ effects' = [effects EXCEPT ![Key(r)] = {r}]
        /\ holder' = Released(r) /\ command' = command
    BY <1>2 DEF Commit
  <1>6. Types'
    <2>1. rows' \in [Keys -> [payload : Payloads, answer : Requests \union {InFlight}] \union {NoRow}]
      BY <1>1, <1>5 DEF KeyInv, Types, Commands
    <2>2. /\ command' \in [Requests -> Commands \union {NoCommand}]
          /\ holder' \in [Keys -> Requests \union {NoOne}]
          /\ effects' \in [Keys -> SUBSET Requests]
      BY <1>5, ReleaseOwn DEF KeyInv, Types
    <2>. QED
      BY <1>3, <2>1, <2>2 DEF KeyInv, Types
  <1>7. PlaceInv'
    BY <1>1, <1>3, <1>4, <1>5 DEF KeyInv, Types, PlaceInv
  <1>8. HolderInv'
    <2>. SUFFICES ASSUME NEW q \in Requests, pc'[q] \in {"reserved", "executed", "recorded"}
                  PROVE  holder'[Key(q)] = q /\ rows'[Key(q)] = NoRow
      BY <1>5 DEF HolderInv, Key
    <2>1. q # r /\ pc[q] = pc'[q]
      BY <1>3 DEF KeyInv, Types
    <2>2. Key(q) \in Keys /\ holder[Key(q)] = q /\ rows[Key(q)] = NoRow
      BY <2>1 DEF KeyInv, Types, PlaceInv, HolderInv, Key, Commands
    <2>3. Key(q) # Key(r)
      BY <1>1, <2>1, <2>2
    <2>. QED
      BY <1>5, <2>1, <2>2, <2>3, ReleaseOwn DEF KeyInv, Types
  <1>9. RowInv'
    BY <1>1, <1>3, <1>5 DEF KeyInv, Types, RowInv
  <1>10. Once!TakeEffect(r)
    BY <1>1, <1>2, <1>3, <1>5 DEF Key, Once!TakeEffect, Once!Asked, Once!Answered
  <1>. QED
    BY <1>6, <1>7, <1>8, <1>9, <1>10 DEF KeyInv

LEMMA RollbackKeys ==
  ASSUME KeyInv, NEW r \in Requests, Rollback(r)
  PROVE  KeyInv' /\ Once!Fail(r)
  <1>1. command[r] # NoCommand /\ reply[r] = Waiting /\ Failed # Waiting
    BY AnswersAssumption DEF Rollback, KeyInv, Types, PlaceInv
  <1>2. /\ pc' = [pc EXCEPT ![r] = "done"] /\ reply' = [reply EXCEPT ![r] = Failed]
        /\ holder' = Released(r) /\ UNCHANGED <<command, rows, effects>>
    BY DEF Rollback, Finish, GoTo
  <1>3. Types' /\ PlaceInv' /\ RowInv'
    BY <1>1, <1>2, ReleaseOwn DEF KeyInv, Types, PlaceInv, RowInv
  <1>4. HolderInv'
    <2>. SUFFICES ASSUME NEW q \in Requests, pc'[q] \in {"reserved", "executed", "recorded"}
                  PROVE  holder'[Key(q)] = q /\ rows'[Key(q)] = NoRow
      BY <1>2 DEF HolderInv, Key
    <2>1. q # r /\ pc[q] = pc'[q]
      BY <1>2 DEF KeyInv, Types
    <2>2. Key(q) \in Keys /\ holder[Key(q)] = q /\ rows[Key(q)] = NoRow
      BY <2>1 DEF KeyInv, Types, PlaceInv, HolderInv, Key, Commands
    <2>. QED
      BY <1>2, <2>1, <2>2, ReleaseOwn
  <1>5. Once!Fail(r)
    BY <1>1, <1>2 DEF Once!Fail, Once!Asked, Once!Answered
  <1>. QED
    BY <1>3, <1>4, <1>5 DEF KeyInv
-----------------------------------------------------------------------------
LEMMA StepKeys == KeyInv /\ [Next]_vars => KeyInv' /\ [Once!OnceNext]_(Once!once)
  <1>. SUFFICES ASSUME KeyInv, [Next]_vars
                PROVE  KeyInv' /\ [Once!OnceNext]_(Once!once)
    OBVIOUS
  <1>1. CASE UNCHANGED vars
    BY <1>1 DEF vars, KeyInv, Types, PlaceInv, HolderInv, RowInv, Key, Once!once
  <1>2. ASSUME NEW r \in Requests, Arrive(r) \/ Step(r) \/ Rollback(r)
        PROVE  KeyInv' /\ [Once!OnceNext]_(Once!once)
    BY <1>2, ArriveKeys, QuietKeys, ReadKeys, CommitKeys, RollbackKeys DEF Step, Once!OnceNext
  <1>. QED
    BY <1>1, <1>2 DEF Next

\* One transaction per command implements one atomic effect per key, answered to
\* every repetition, for any number of requests, keys and connections.
THEOREM OnceImplemented == Spec => RefinesOnce
  BY InitKeys, StepKeys, PTL DEF Spec, RefinesOnce, Once!OnceSpec

\* No reader ever meets a reservation without its answer.
THEOREM NeverInFlight == Spec => []InFlightIsNeverSeen
  <1>1. KeyInv => InFlightIsNeverSeen
    BY RequestsAssumption, AnswersAssumption DEF KeyInv, Types, InFlightIsNeverSeen
  <1>. QED
    BY <1>1, InitKeys, StepKeys, PTL DEF Spec

PoolInv == Cardinality(Connected) <= PoolSize

\* Only a checkout adds a connection, and it looks for a free one.
LEMMA StepPool ==
  ASSUME KeyInv, PoolInv, [Next]_vars
  PROVE  PoolInv'
  <1>1. IsFiniteSet(Connected) /\ Cardinality(Connected) \in Nat
    BY RequestsAssumption, FS_Subset, FS_CardinalityType DEF Connected
  <1>2. CASE Connected' \subseteq Connected
    BY <1>1, <1>2, FS_Subset, FS_CardinalityType, PoolAssumption DEF PoolInv
  <1>3. ASSUME NEW r \in Requests, Checkout(r)
        PROVE  PoolInv'
    <2>1. Connected' \subseteq Connected \union {r}
      BY <1>3 DEF Checkout, GoTo, Connected, KeyInv, Types
    <2>2. /\ IsFiniteSet(Connected \union {r})
          /\ Cardinality(Connected \union {r}) <= Cardinality(Connected) + 1
      <3>1. /\ IsFiniteSet(Connected \union {r})
            /\ Cardinality(Connected \union {r}) =
                 IF r \in Connected THEN Cardinality(Connected) ELSE Cardinality(Connected) + 1
        BY <1>1, FS_AddElement, Zenon
      <3>. QED
        BY <1>1, <3>1
    <2>3. Cardinality(Connected') <= Cardinality(Connected) + 1
      BY <1>1, <2>1, <2>2, FS_Subset, FS_CardinalityType
    <2>. QED
      BY <1>1, <1>3, <2>1, <2>2, <2>3, FS_Subset, FS_CardinalityType, PoolAssumption DEF Checkout, PoolInv
  <1>4. ASSUME NEW r \in Requests,
               \/ Arrive(r) \/ Rollback(r) \/ Reserve(r) \/ FindTaken(r) \/ Read(r)
               \/ Execute(r) \/ RecordResponse(r) \/ Commit(r)
        PROVE  Connected' \subseteq Connected
    <2>1. \E place \in {"queued", "reserved", "reading", "executed", "recorded", "done"} :
            /\ pc' = [pc EXCEPT ![r] = place]
            /\ pc[r] \in {"away", "queued", "done"} => place \in {"queued", "done"}
      BY <1>4 DEF Arrive, Rollback, Reserve, FindTaken, Read, Execute, RecordResponse, Commit, Finish, GoTo
    <2>. QED
      BY <2>1 DEF Connected, KeyInv, Types
  <1>5. UNCHANGED vars => Connected' \subseteq Connected
    BY DEF vars, Connected
  <1>. QED
    BY <1>2, <1>3, <1>4, <1>5 DEF Next, Step

\* Every variable has its type; in particular there are never more sessions than
\* connections, however many requests wait for a key.
THEOREM TypeCorrect == Spec => []TypeOK
  <1>1. Init => KeyInv /\ PoolInv
    <2>1. Init => Connected = {}
      BY DEF Init, Connected
    <2>. QED
      BY <2>1, InitKeys, FS_EmptySet, PoolAssumption DEF PoolInv
  <1>2. KeyInv /\ PoolInv /\ [Next]_vars => KeyInv' /\ PoolInv'
    BY StepKeys, StepPool
  <1>3. KeyInv /\ PoolInv => TypeOK
    BY DEF KeyInv, Types, PoolInv, TypeOK
  <1>. QED
    BY <1>1, <1>2, <1>3, PTL DEF Spec
=============================================================================
