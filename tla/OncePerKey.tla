------------------------------ MODULE OncePerKey ------------------------------
(***************************************************************************)
(* What an idempotency key promises to the clients of the control-api: the *)
(* command of a key takes effect at most once, whoever repeats it is given *)
(* the answer of that one execution, and whoever reuses the key for        *)
(* something else is told so.  A request that fails may or may not have    *)
(* taken effect: repeating it is how a client finds out.                   *)
(***************************************************************************)
CONSTANTS Requests, Keys, Payloads, NoCommand, Waiting, Failed, Conflict

VARIABLES
  command,  \* what each request asks: a key and a payload
  done,     \* the requests that took effect under each key
  reply     \* the answer of each request: the request that was executed for it

once == <<command, done, reply>>

Commands == [key : Keys, payload : Payloads]

OnceInit ==
  /\ command = [r \in Requests |-> NoCommand]
  /\ done = [k \in Keys |-> {}]
  /\ reply = [r \in Requests |-> Waiting]

Ask(r) ==
  /\ command[r] = NoCommand
  /\ \E c \in Commands : command' = [command EXCEPT ![r] = c]
  /\ UNCHANGED <<done, reply>>

Asked(r) == command[r] # NoCommand /\ reply[r] = Waiting

Answered(r, a) == reply' = [reply EXCEPT ![r] = a] /\ UNCHANGED command

TakeEffect(r) ==
  /\ Asked(r) /\ done[command[r].key] = {}
  /\ done' = [done EXCEPT ![command[r].key] = {r}]
  /\ Answered(r, r) \/ Answered(r, Failed)

Repeat(r) ==
  /\ Asked(r)
  /\ \E first \in done[command[r].key] :
       Answered(r, IF command[first].payload = command[r].payload THEN first ELSE Conflict)
  /\ UNCHANGED done

Fail(r) == Asked(r) /\ Answered(r, Failed) /\ UNCHANGED done

OnceNext == \E r \in Requests : Ask(r) \/ TakeEffect(r) \/ Repeat(r) \/ Fail(r)

OnceSpec == OnceInit /\ [][OnceNext]_once
=============================================================================
