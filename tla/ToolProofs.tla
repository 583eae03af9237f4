----------------------------- MODULE ToolProofs -----------------------------
(***************************************************************************)
(* The tool executor for any number of descendants, any limit, size of     *)
(* chunk and length of output.                                             *)
(*                                                                         *)
(* What is kept of a stream is always the whole of what was read or, once  *)
(* the budget is overdrawn, stays what it was then: a budget that is       *)
(* overdrawn is empty.                                                     *)
(***************************************************************************)
EXTENDS ToolExecutor, FiniteSetTheorems, TLAPS

ProcessTypes ==
  /\ phase \in {"idle", "refused", "running", "killing", "draining", "returned"}
  /\ live \subseteq born /\ born \subseteq Processes
  /\ group \subseteq born /\ holding \subseteq born
  /\ timedOut \in BOOLEAN

StreamTypes ==
  /\ written \in [Streams -> 0..MaxBytes] /\ taken \in [Streams -> Nat]
  /\ kept \in [Streams -> SUBSET Nat] /\ eof \in [Streams -> BOOLEAN]
  /\ \A s \in Streams : taken[s] <= written[s]
  /\ remaining \in 0..Limit /\ truncated \in BOOLEAN

\* Before the start nothing happened; no stream ends while somebody can write to it.
Ends ==
  /\ phase = "idle" => ~timedOut /\ \A s \in Streams : ~eof[s]
  /\ phase = "returned" => \A s \in Streams : eof[s]
  /\ \A s \in Streams : eof[s] => taken[s] = written[s] /\ live \intersect holding = {}

Kept(s) == Cardinality(kept[s])

Budget ==
  /\ \A s \in Streams : /\ kept[s] = 1..Kept(s) /\ Kept(s) \in 0..taken[s]
                        /\ ~truncated => Kept(s) = taken[s]
  /\ truncated => remaining = 0
  /\ Kept("stdout") + Kept("stderr") + remaining <= Limit

Inv == ProcessTypes /\ StreamTypes /\ Ends /\ Budget /\ TimeoutKillsTheGroup
-----------------------------------------------------------------------------
LEMMA BeginningSize == \A k \in Nat : Cardinality(1..k) = k
  BY FS_Interval

LEMMA InitInv == Init => Inv
  <1>. SUFFICES ASSUME Init PROVE Inv
    OBVIOUS
  <1>1. \A s \in Streams : kept[s] = {} /\ Kept(s) = 0
    BY FS_EmptySet DEF Init, Kept
  <1>2. StreamTypes
    <2>1. written \in [Streams -> 0..MaxBytes] /\ taken \in [Streams -> Nat]
          /\ kept \in [Streams -> SUBSET Nat] /\ eof \in [Streams -> BOOLEAN]
      BY LimitAssumption DEF Init
    <2>2. remaining \in 0..Limit
      BY LimitAssumption DEF Init
    <2>3. truncated \in BOOLEAN
      BY DEF Init
    <2>4. \A s \in Streams : taken[s] = 0 /\ written[s] = 0
      BY DEF Init
    <2>. QED
      BY <2>1, <2>2, <2>3, <2>4 DEF StreamTypes
  <1>3. ProcessTypes /\ Ends /\ TimeoutKillsTheGroup
    BY DEF Init, ProcessTypes, Ends, TimeoutKillsTheGroup
  <1>4. Budget
    <2>1. 1..0 = {} /\ truncated = FALSE /\ remaining = Limit /\ Limit \in Nat
          /\ \A s \in Streams : taken[s] = 0
      BY LimitAssumption DEF Init
    <2>2. Kept("stdout") = 0 /\ Kept("stderr") = 0
      BY <1>1 DEF Streams
    <2>3. Kept("stdout") + Kept("stderr") + remaining <= Limit
      BY <2>1, <2>2
    <2>4. \A s \in Streams : /\ kept[s] = 1..Kept(s) /\ Kept(s) \in 0..taken[s]
                             /\ ~truncated => Kept(s) = taken[s]
      <3>. SUFFICES ASSUME NEW s \in Streams
                    PROVE  /\ kept[s] = 1..Kept(s) /\ Kept(s) \in 0..taken[s]
                           /\ ~truncated => Kept(s) = taken[s]
        OBVIOUS
      <3>1. Kept(s) = 0 /\ kept[s] = {} /\ taken[s] = 0
        BY <1>1, <2>1
      <3>. QED
        BY <2>1, <3>1
    <2>. QED
      BY <2>1, <2>3, <2>4 DEF Budget
  <1>. QED
    BY <1>2, <1>3, <1>4 DEF Inv

\* The budget does not move unless a chunk is read.
LEMMA BudgetFrame ==
  ASSUME Budget, UNCHANGED <<taken, kept, remaining, truncated>>
  PROVE  Budget'
  BY DEF Budget, Kept

LEMMA ExecuteInv ==
  ASSUME Inv, NEW request \in Requests, Execute(request)
  PROVE  Inv'
  <1>1. Budget'
    BY BudgetFrame DEF Execute, output, Inv
  <1>2. StreamTypes'
    BY DEF Execute, output, Inv, StreamTypes
  <1>3. ProcessTypes' /\ Ends' /\ TimeoutKillsTheGroup'
    BY DEF Execute, output, processes, Inv, ProcessTypes, Ends, TimeoutKillsTheGroup, Processes
  <1>. QED
    BY <1>1, <1>2, <1>3 DEF Inv

\* A process that was not born is in no group and holds no pipe, so the descendant
\* of a process that can neither be killed nor write is such a process too.
LEMMA CommandInv ==
  ASSUME Inv, Command
  PROVE  Inv'
  <1>1. UNCHANGED <<phase, output, timedOut>>
    BY DEF Command, LeaveGroup, ClosePipes, End, Fork, WriteByte
  <1>2. Budget'
    BY <1>1, BudgetFrame DEF output, Inv
  <1>3. PICK p \in Processes :
          \/ LeaveGroup(p) \/ ClosePipes(p) \/ End(p)
          \/ \E q \in Descendants : Fork(p, q)
          \/ \E s \in Streams : WriteByte(p, s)
    BY DEF Command
  <1>4. CASE LeaveGroup(p) \/ ClosePipes(p) \/ End(p)
    BY <1>1, <1>2, <1>4 DEF LeaveGroup, ClosePipes, End, output, Inv, ProcessTypes, StreamTypes,
                            Ends, TimeoutKillsTheGroup
  <1>5. ASSUME NEW q \in Descendants, Fork(p, q) PROVE Inv'
    <2>1. ProcessTypes'
      BY <1>1, <1>5 DEF Fork, Inv, ProcessTypes, Processes
    <2>2. StreamTypes'
      BY <1>1, <1>5 DEF Fork, output, Inv, StreamTypes
    <2>3. Ends' /\ TimeoutKillsTheGroup'
      BY <1>1, <1>5 DEF Fork, output, Inv, ProcessTypes, Ends, TimeoutKillsTheGroup
    <2>. QED
      BY <1>2, <2>1, <2>2, <2>3 DEF Inv
  <1>6. ASSUME NEW s \in Streams, WriteByte(p, s) PROVE Inv'
    <2>1. written' = [written EXCEPT ![s] = written[s] + 1] /\ written[s] < MaxBytes
          /\ UNCHANGED processes /\ p \in live \intersect holding
      BY <1>6 DEF WriteByte
    <2>2. StreamTypes'
      BY <1>1, <2>1, LimitAssumption DEF output, Inv, StreamTypes
    <2>3. \A t \in Streams : ~eof[t]
      BY <2>1 DEF Inv, Ends
    <2>4. ProcessTypes' /\ Ends' /\ TimeoutKillsTheGroup'
      BY <1>1, <2>1, <2>3 DEF output, processes, Inv, ProcessTypes, Ends, TimeoutKillsTheGroup
    <2>. QED
      BY <1>2, <2>2, <2>4 DEF Inv
  <1>. QED
    BY <1>3, <1>4, <1>5, <1>6

\* A chunk extends a beginning, as far as the budget goes.
LEMMA TakeInv ==
  ASSUME Inv, NEW s \in Streams, NEW n \in 1..Chunk,
         Take(s, (taken[s] + 1)..(taken[s] + n)),
         taken' = [taken EXCEPT ![s] = taken[s] + n]
  PROVE  /\ kept' \in [Streams -> SUBSET Nat]
         /\ remaining' \in 0..Limit /\ truncated' \in BOOLEAN
         /\ Budget'
  <1>. DEFINE chunk == (taken[s] + 1)..(taken[s] + n)
              more == {b \in chunk : b <= taken[s] + remaining}
              k == Kept(s)
  <1>1. taken[s] \in Nat /\ n \in Nat /\ n >= 1 /\ remaining \in 0..Limit /\ Limit \in Nat
        /\ kept \in [Streams -> SUBSET Nat] /\ taken \in [Streams -> Nat] /\ truncated \in BOOLEAN
    BY LimitAssumption DEF Inv, StreamTypes
  <1>2. Cardinality(chunk) = n
    BY <1>1, FS_Interval
  <1>3. kept' = [kept EXCEPT ![s] = kept[s] \union more]
        /\ remaining' = (IF n <= remaining THEN remaining - n ELSE 0)
        /\ truncated' = (truncated \/ ~(n <= remaining))
    BY <1>2 DEF Take
  <1>4. kept[s] = 1..k /\ k \in 0..taken[s] /\ (~truncated => k = taken[s])
        /\ (truncated => remaining = 0)
        /\ Kept("stdout") + Kept("stderr") + remaining <= Limit
        /\ \A t \in Streams : Kept(t) \in Nat
    BY <1>1 DEF Inv, Budget
  <1>5. \A t \in Streams \ {s} : kept'[t] = kept[t] /\ taken'[t] = taken[t]
                                  /\ Cardinality(kept'[t]) = Kept(t)
    BY <1>1, <1>3 DEF Kept
  <1>6. kept'[s] = kept[s] \union more /\ taken'[s] = taken[s] + n
    BY <1>1, <1>3
  <1>7. kept' \in [Streams -> SUBSET Nat] /\ remaining' \in 0..Limit /\ truncated' \in BOOLEAN
    <2>1. more \subseteq Nat
      BY <1>1
    <2>. HIDE DEF more
    <2>2. kept' \in [Streams -> SUBSET Nat]
      BY <1>1, <1>3, <2>1
    <2>3. remaining' \in 0..Limit
      BY <1>1, <1>3
    <2>4. truncated' \in BOOLEAN
      BY <1>1, <1>3
    <2>. QED
      BY <2>2, <2>3, <2>4
  <1>. DEFINE grown == IF truncated THEN 0 ELSE IF n <= remaining THEN n ELSE remaining
  <1>8. kept'[s] = 1..(k + grown)
    <2>1. CASE truncated
      BY <1>1, <1>4, <1>6, <2>1
    <2>2. CASE ~truncated
      BY <1>1, <1>4, <1>6, <2>2
    <2>. QED
      BY <2>1, <2>2
  <1>9. grown \in Nat /\ grown <= n /\ k \in Nat
    BY <1>1, <1>4
  <1>10. Cardinality(kept'[s]) = k + grown
    <2>. HIDE DEF grown, k
    <2>1. k + grown \in Nat
      BY <1>9
    <2>. QED
      BY <1>8, <2>1, BeginningSize
  <1>11. ~truncated' => grown = n /\ k = taken[s]
    BY <1>1, <1>3, <1>4
  <1>12. grown + remaining' <= remaining
    BY <1>1, <1>3, <1>4
  <1>. HIDE DEF grown, k, more, chunk
  <1>13. kept'[s] = 1..Cardinality(kept'[s]) /\ Cardinality(kept'[s]) \in 0..taken'[s]
         /\ (~truncated' => Cardinality(kept'[s]) = taken'[s])
    <2>1. k = Kept(s)
      BY DEF k
    <2>2. k + grown \in 0..(taken[s] + n)
      BY <1>1, <1>4, <1>9, <2>1
    <2>3. ~truncated' => k + grown = taken[s] + n
      BY <1>11
    <2>. QED
      BY <1>6, <1>8, <1>10, <2>2, <2>3
  <1>14. \A t \in Streams \ {s} :
           /\ kept'[t] = 1..Cardinality(kept'[t]) /\ Cardinality(kept'[t]) \in 0..taken'[t]
           /\ ~truncated' => Cardinality(kept'[t]) = taken'[t]
    BY <1>3, <1>5 DEF Inv, Budget
  <1>15. truncated' => remaining' = 0
    BY <1>1, <1>3, <1>4
  <1>16. Cardinality(kept'["stdout"]) + Cardinality(kept'["stderr"]) + remaining' <= Limit
    <2>1. k = Kept(s)
      BY DEF k
    <2>2. remaining \in Nat /\ remaining' \in Nat /\ Limit \in Nat
      BY <1>1, <1>7
    <2>3. Kept("stdout") \in Nat /\ Kept("stderr") \in Nat
      BY <1>4 DEF Streams
    <2>. DEFINE out == Kept("stdout")
                err == Kept("stderr")
                left == remaining'
    <2>4. out + err + remaining <= Limit /\ grown + left <= remaining
          /\ out \in Nat /\ err \in Nat /\ left \in Nat /\ grown \in Nat
      BY <1>4, <1>9, <1>12, <2>2, <2>3
    <2>. HIDE DEF out, err, left
    <2>5. (out + grown) + err + left <= Limit /\ out + (err + grown) + left <= Limit
      BY <2>2, <2>4
    <2>. USE DEF out, err, left
    <2>6. CASE s = "stdout"
      <3>1. Cardinality(kept'["stdout"]) = Kept("stdout") + grown
            /\ Cardinality(kept'["stderr"]) = Kept("stderr")
        BY <1>5, <1>10, <2>1, <2>6 DEF Streams
      <3>. QED
        BY <2>5, <3>1
    <2>7. CASE s = "stderr"
      <3>1. Cardinality(kept'["stderr"]) = Kept("stderr") + grown
            /\ Cardinality(kept'["stdout"]) = Kept("stdout")
        BY <1>5, <1>10, <2>1, <2>7 DEF Streams
      <3>. QED
        BY <2>5, <3>1
    <2>. QED
      BY <2>6, <2>7 DEF Streams
  <1>. QED
    BY <1>7, <1>13, <1>14, <1>15, <1>16 DEF Budget, Kept

LEMMA ReadInv ==
  ASSUME Inv, NEW s \in Streams, ReadChunk(s) \/ EndOfStream(s)
  PROVE  Inv'
  <1>1. CASE ReadChunk(s)
    <2>1. PICK n \in 1..Chunk :
            /\ taken[s] + n <= written[s]
            /\ Take(s, (taken[s] + 1)..(taken[s] + n))
            /\ taken' = [taken EXCEPT ![s] = taken[s] + n]
      BY <1>1 DEF ReadChunk
    <2>2. ~eof[s] /\ UNCHANGED <<phase, processes, written, eof, timedOut>>
      BY <1>1 DEF ReadChunk
    <2>3. kept' \in [Streams -> SUBSET Nat] /\ remaining' \in 0..Limit /\ truncated' \in BOOLEAN
          /\ Budget'
      BY <2>1, TakeInv
    <2>4. StreamTypes'
      <3>1. taken[s] + n \in Nat /\ taken \in [Streams -> Nat]
        BY LimitAssumption DEF Inv, StreamTypes
      <3>2. taken' \in [Streams -> Nat] /\ \A t \in Streams : taken'[t] <= written[t]
        BY <2>1, <3>1 DEF Inv, StreamTypes
      <3>. QED
        BY <2>2, <2>3, <3>2 DEF Inv, StreamTypes
    <2>5. \A t \in Streams \ {s} : taken'[t] = taken[t]
      BY <2>1 DEF Inv, StreamTypes
    <2>6. ProcessTypes' /\ TimeoutKillsTheGroup'
      BY <2>2 DEF processes, Inv, ProcessTypes, TimeoutKillsTheGroup
    <2>7. Ends'
      BY <2>2, <2>5 DEF processes, Inv, Ends
    <2>. QED
      BY <2>3, <2>4, <2>6, <2>7 DEF Inv
  <1>2. CASE EndOfStream(s)
    <2>1. Budget'
      BY <1>2, BudgetFrame DEF EndOfStream, Inv
    <2>2. StreamTypes' /\ ProcessTypes' /\ TimeoutKillsTheGroup'
      BY <1>2 DEF EndOfStream, processes, Inv, StreamTypes, ProcessTypes, TimeoutKillsTheGroup
    <2>3. Ends'
      BY <1>2 DEF EndOfStream, Reading, processes, Inv, StreamTypes, Ends
    <2>. QED
      BY <2>1, <2>2, <2>3 DEF Inv
  <1>. QED
    BY <1>1, <1>2

LEMMA SupervisorInv ==
  ASSUME Inv, ObserveExit \/ Timeout \/ Return
  PROVE  Inv'
  <1>1. UNCHANGED <<born, group, holding, written, output>>
    BY DEF ObserveExit, Timeout, Return, processes
  <1>2. Budget'
    BY <1>1, BudgetFrame DEF output, Inv
  <1>3. StreamTypes'
    BY <1>1 DEF output, Inv, StreamTypes
  <1>4. live' \subseteq live
    BY DEF ObserveExit, Timeout, Return, processes
  <1>5. phase' \in {"killing", "draining", "returned"}
        /\ (phase' = "returned" => \A s \in Streams : eof[s])
        /\ timedOut' \in {timedOut, TRUE}
    BY DEF ObserveExit, Timeout, Return
  <1>6. ProcessTypes'
    BY <1>1, <1>4, <1>5 DEF Inv, ProcessTypes
  <1>7. Ends'
    BY <1>1, <1>4, <1>5 DEF output, Inv, Ends
  <1>8. TimeoutKillsTheGroup'
    BY <1>1 DEF ObserveExit, Timeout, Return, processes, Inv, TimeoutKillsTheGroup
  <1>. QED
    BY <1>2, <1>3, <1>6, <1>7, <1>8 DEF Inv

LEMMA StepInv == Inv /\ [Next]_vars => Inv'
  <1>. SUFFICES ASSUME Inv, [Next]_vars PROVE Inv'
    OBVIOUS
  <1>1. CASE UNCHANGED vars
    BY <1>1, BudgetFrame DEF vars, output, processes, Inv, ProcessTypes, StreamTypes, Ends,
                             TimeoutKillsTheGroup
  <1>. QED
    BY <1>1, ExecuteInv, CommandInv, ReadInv, SupervisorInv DEF Next

LEMMA Invariance == Spec => []Inv
  BY InitInv, StepInv, PTL DEF Spec
-----------------------------------------------------------------------------
\* Every variable keeps its type, and what is kept of both streams never exceeds
\* the limit, whatever the limit and the size of a chunk.
THEOREM TypeCorrect == Spec => []TypeOK
  <1>1. Inv => TypeOK
    BY DEF Inv, ProcessTypes, StreamTypes, Budget, Kept, TypeOK, Streams
  <1>. QED
    BY <1>1, Invariance, PTL

\* The evidence of each stream is its beginning, and all of it unless it is marked
\* as truncated, however the two readers take turns.
THEOREM EvidenceIsAPrefix == Spec => []OutputIsAPrefix
  <1>1. Inv => OutputIsAPrefix
    BY DEF Inv, Ends, Budget, Kept, OutputIsAPrefix
  <1>. QED
    BY <1>1, Invariance, PTL

\* After a timeout no process runs that is in the group of the command, whatever
\* descendants there are and whenever they were started.
THEOREM TimeoutIsFinal == Spec => []TimeoutKillsTheGroup
  <1>1. Inv => TimeoutKillsTheGroup
    BY DEF Inv
  <1>. QED
    BY <1>1, Invariance, PTL
=============================================================================
