---------------------------- MODULE ToolExecutor ----------------------------
(***************************************************************************)
(* One execution of the tool executor: a command of the allowlist is       *)
(* started in a session of its own, two tasks read its output within one   *)
(* shared budget, and the process group is killed at the timeout.          *)
(*                                                                         *)
(* The command may start descendants, which inherit its group and the two  *)
(* pipes; a descendant may leave the group, close the pipes, and outlive   *)
(* the command.  The bytes of a stream are numbered from 1.                *)
(***************************************************************************)
EXTENDS Naturals, FiniteSets

CONSTANTS
  Leader,      \* the process that runs argv
  Descendants,
  Requests,    \* records: argv is valid, the command, its profile, the cwd
  Allowlist,   \* the commands of each profile
  Directories, \* the virtual directories that resolve inside a mounted root
  Limit,       \* output_limit_bytes
  Chunk,       \* READ_CHUNK_BYTES
  MaxBytes     \* bound on what is written to each stream

ASSUME LimitAssumption == Limit \in Nat \ {0} /\ Chunk \in Nat \ {0} /\ MaxBytes \in Nat
ASSUME ProcessesAssumption == Leader \notin Descendants /\ IsFiniteSet(Descendants)

Processes == Descendants \union {Leader}
Streams == {"stdout", "stderr"}
Bytes == 1..MaxBytes

VARIABLES
  phase,     \* where execute is
  live,      \* processes that run
  born,      \* processes that were started
  group,     \* processes in the leader's group
  holding,   \* processes with the write ends of the pipes open
  written, taken,  \* bytes written to and read from each stream
  kept,      \* the bytes of each stream in the result
  eof,       \* the reader of the stream is done
  remaining, truncated,  \* the budget
  timedOut

processes == <<live, born, group, holding>>
output == <<taken, kept, eof, remaining, truncated>>
vars == <<phase, processes, written, output, timedOut>>

Init ==
  /\ phase = "idle"
  /\ live = {} /\ born = {} /\ group = {} /\ holding = {}
  /\ written = [s \in Streams |-> 0] /\ taken = [s \in Streams |-> 0]
  /\ kept = [s \in Streams |-> {}]
  /\ eof = [s \in Streams |-> FALSE]
  /\ remaining = Limit /\ truncated = FALSE
  /\ timedOut = FALSE
-----------------------------------------------------------------------------
\* The checks of a request, its command and its directory, in their order.
Refusal(request) ==
  CASE ~request.valid -> "InvalidExecution"
    [] request.valid /\ request.command \notin Allowlist[request.profile] -> "CommandNotAllowed"
    [] request.valid /\ request.command \in Allowlist[request.profile]
         /\ request.cwd \notin Directories -> "WorkingDirectoryNotAllowed"
    [] OTHER -> "none"

Execute(request) ==
  /\ phase = "idle"
  /\ \/ /\ Refusal(request) # "none"
        /\ phase' = "refused"
        /\ UNCHANGED processes
     \/ /\ Refusal(request) = "none"
        /\ phase' = "running"
        /\ live' = {Leader} /\ born' = {Leader} /\ group' = {Leader} /\ holding' = {Leader}
  /\ UNCHANGED <<written, output, timedOut>>

(* What the command and its descendants do. *)
Fork(p, q) ==
  /\ p \in live /\ q \notin born
  /\ live' = live \union {q} /\ born' = born \union {q}
  /\ group' = IF p \in group THEN group \union {q} ELSE group
  /\ holding' = IF p \in holding THEN holding \union {q} ELSE holding
  /\ UNCHANGED <<phase, written, output, timedOut>>

LeaveGroup(p) ==
  /\ p \in live \intersect group /\ p # Leader
  /\ group' = group \ {p}
  /\ UNCHANGED <<phase, live, born, holding, written, output, timedOut>>

ClosePipes(p) ==
  /\ p \in live \intersect holding
  /\ holding' = holding \ {p}
  /\ UNCHANGED <<phase, live, born, group, written, output, timedOut>>

WriteByte(p, s) ==
  /\ p \in live \intersect holding /\ written[s] < MaxBytes
  /\ written' = [written EXCEPT ![s] = @ + 1]
  /\ UNCHANGED <<phase, processes, output, timedOut>>

End(p) ==
  /\ p \in live
  /\ live' = live \ {p}
  /\ UNCHANGED <<phase, born, group, holding, written, output, timedOut>>

(* The two readers and their budget. *)
Reading == phase \in {"running", "killing", "draining"}

\* Mutation: what is left of the budget serves the next chunk.
TakeGenerously(s, chunk) ==
  /\ kept' = [kept EXCEPT ![s] = @ \union
                {b \in chunk : b <= taken[s] + remaining}]
  /\ remaining' = IF Cardinality(chunk) <= remaining THEN remaining - Cardinality(chunk) ELSE remaining
  /\ truncated' = (truncated \/ Cardinality(chunk) > remaining)

\* A chunk within the budget is kept whole, of another one what fits; a chunk
\* that does not fit leaves nothing for the next.
Take(s, chunk) ==
  LET fits == Cardinality(chunk) <= remaining
  IN /\ kept' = [kept EXCEPT ![s] = @ \union {b \in chunk : b <= taken[s] + remaining}]
     /\ remaining' = IF fits THEN remaining - Cardinality(chunk) ELSE 0
     /\ truncated' = (truncated \/ ~fits)

ReadChunk(s) ==
  /\ Reading /\ ~eof[s] /\ taken[s] < written[s]
  /\ \E n \in 1..Chunk :
       /\ taken[s] + n <= written[s]
       /\ Take(s, (taken[s] + 1)..(taken[s] + n))
       /\ taken' = [taken EXCEPT ![s] = @ + n]
  /\ UNCHANGED <<phase, processes, written, eof, timedOut>>

\* Mutation: the reader ends when there is nothing to read yet.
EndOfStreamEarly(s) ==
  /\ Reading /\ ~eof[s] /\ taken[s] = written[s]
  /\ eof' = [eof EXCEPT ![s] = TRUE]
  /\ UNCHANGED <<phase, processes, written, taken, kept, remaining, truncated, timedOut>>

\* The end of a stream shows when nobody can write to it any more.
EndOfStream(s) ==
  /\ Reading /\ ~eof[s] /\ taken[s] = written[s]
  /\ live \intersect holding = {}
  /\ eof' = [eof EXCEPT ![s] = TRUE]
  /\ UNCHANGED <<phase, processes, written, taken, kept, remaining, truncated, timedOut>>

(* execute itself. *)
ObserveExit ==
  /\ phase \in {"running", "killing"} /\ Leader \notin live
  /\ phase' = "draining"
  /\ UNCHANGED <<processes, written, output, timedOut>>

\* Mutation: only the process itself is killed.
TimeoutOfLeader ==
  /\ phase = "running"
  /\ timedOut' = TRUE /\ phase' = "killing"
  /\ live' = live \ {Leader}
  /\ UNCHANGED <<born, group, holding, written, output>>

\* Mutation: the timeout is recorded and nothing is killed.
TimeoutOnly ==
  /\ phase = "running"
  /\ timedOut' = TRUE /\ phase' = "killing"
  /\ UNCHANGED <<processes, written, output>>

\* SIGKILL ends every process that is in the group, also after the leader's end.
Timeout ==
  /\ phase = "running"
  /\ timedOut' = TRUE /\ phase' = "killing"
  /\ live' = live \ group
  /\ UNCHANGED <<born, group, holding, written, output>>

Return ==
  /\ phase = "draining" /\ \A s \in Streams : eof[s]
  /\ phase' = "returned"
  /\ UNCHANGED <<processes, written, output, timedOut>>
-----------------------------------------------------------------------------
Command == \E p \in Processes :
  \/ LeaveGroup(p) \/ ClosePipes(p) \/ End(p)
  \/ \E q \in Descendants : Fork(p, q)
  \/ \E s \in Streams : WriteByte(p, s)

Next ==
  \/ \E request \in Requests : Execute(request)
  \/ Command
  \/ \E s \in Streams : ReadChunk(s) \/ EndOfStream(s)
  \/ ObserveExit \/ Timeout \/ Return

Spec == Init /\ [][Next]_vars

\* The event loop runs what is ready and the clock runs; the command may hang.
FairSpec ==
  /\ Spec
  /\ \A s \in Streams : WF_vars(ReadChunk(s)) /\ WF_vars(EndOfStream(s))
  /\ WF_vars(ObserveExit) /\ WF_vars(Timeout) /\ WF_vars(Return)
-----------------------------------------------------------------------------
\* Every variable holds a value of its type, the budget is never overdrawn, and
\* the bytes kept and what remains add up to at most the limit.
TypeOK ==
  /\ phase \in {"idle", "refused", "running", "killing", "draining", "returned"}
  /\ live \subseteq born /\ born \subseteq Processes
  /\ group \subseteq born /\ holding \subseteq born
  /\ \A s \in Streams : /\ written[s] \in 0..MaxBytes /\ taken[s] \in 0..written[s]
                        /\ kept[s] \subseteq 1..taken[s]
                        /\ eof[s] \in BOOLEAN
  /\ remaining \in 0..Limit
  /\ Cardinality(kept["stdout"]) + Cardinality(kept["stderr"]) + remaining <= Limit
  /\ truncated \in BOOLEAN /\ timedOut \in BOOLEAN

\* However the two readers share the budget, the evidence of each stream is its
\* beginning without a gap, and unless it says so it lacks nothing that was written.
OutputIsAPrefix ==
  /\ \A s \in Streams : kept[s] = 1..Cardinality(kept[s])
  /\ phase = "returned" /\ ~truncated => \A s \in Streams : kept[s] = 1..written[s]

\* After a timeout nothing of the command goes on working, except a descendant that
\* has left its process group.
TimeoutKillsTheGroup == timedOut => live \intersect group = {}

\* A command that hangs, writes more than the limit or starts others is waited for
\* no longer than its timeout, unless a descendant that outlives it never lets go of
\* the pipes.
ExecuteReturns ==
  \/ Reading ~> phase = "returned"
  \/ <>[]((live \intersect holding) \ {Leader} # {})
=============================================================================
