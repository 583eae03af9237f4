---------------------------- MODULE ArtifactProofs ----------------------------
(***************************************************************************)
(* What the artifact store keeps for any number of callers, paths,         *)
(* contents, crashes and failures.                                         *)
(***************************************************************************)
EXTENDS ArtifactStore, TLAPS

Idle(c) == pc[c] \in {"idle", "waiting"}

\* Only the holder of the lock writes; only write writes a file or removes one.
Locked ==
  \A c \in Callers :
    /\ ~Idle(c) => lock = c
    /\ pc[c] \in {"file", "unfile"} => op[c].kind = "write"

\* What the writes made so far, and those to come, leave of a call's path.
Working ==
  \A c \in Callers :
    /\ pc[c] \in {"file", "record", "index", "unrecord", "unfile"} => index[op[c].ref.path] = NoRef
    /\ pc[c] \in {"record", "index", "unrecord"} => files[op[c].ref.path] = op[c].ref.content
    /\ pc[c] = "index" => op[c].ref \in records
    /\ pc[c] = "return" => index[op[c].ref.path] = op[c].ref

\* The index never leads to nothing.
Indexed ==
  \A p \in Paths : index[p] # NoRef => /\ index[p] \in records
                                       /\ index[p].path = p
                                       /\ files[p] = index[p].content

HandedOutIsIndexed == \A r \in handedOut : index[r.path] = r

\* Without a crash what is out of the index is in the hands of the lock's holder.
NoStrayRecord ==
  crashes = 0 =>
    \A r \in records :
      \/ index[r.path] = r
      \/ \E c \in Callers : lock = c /\ op[c].ref = r /\ pc[c] \in {"index", "unrecord"}

NoStrayFile ==
  crashes = 0 =>
    \A p \in Paths \ StreamedPaths :
      files[p] # NoFile =>
        \/ index[p] # NoRef
        \/ \E c \in Callers : /\ lock = c /\ op[c].kind = "write" /\ op[c].ref.path = p
                              /\ pc[c] \in {"record", "index", "unrecord", "unfile"}

Inv == /\ Locked /\ Working /\ Indexed /\ HandedOutIsIndexed
       /\ NoStrayRecord /\ NoStrayFile
-----------------------------------------------------------------------------
LEMMA InitArtifacts == Init => TypeOK /\ Inv
  BY BoundsAssumption, NamesAssumption
  DEF Init, TypeOK, Inv, Refs, Stages, Answers, Locked, Working, Indexed, HandedOutIsIndexed,
      NoStrayRecord, NoStrayFile, Idle

(* Types. *)
LEMMA BeginType ==
  ASSUME TypeOK, NEW c \in Callers, Begin(c)
  PROVE  TypeOK'
  BY NamesAssumption DEF Begin, GoTo, TypeOK, Stages, Answers, disk

LEMMA FinishType ==
  ASSUME TypeOK, NEW c \in Callers, NEW result \in Answers, Finish(c, result)
  PROVE  /\ pc' \in [Callers -> Stages] /\ answer' \in [Callers -> Answers]
         /\ lock' \in Callers \union {NoOne}
         /\ \A d \in Callers : pc'[d] # "idle" => pc[d] # "idle"
  BY DEF Finish, GoTo, TypeOK, Stages

LEMMA CandidateType ==
  ASSUME TypeOK, NEW c \in Callers, pc[c] # "idle",
         op[c].kind = "write" \/ files[op[c].ref.path] # NoFile
  PROVE  Candidate(c) \in Refs /\ op[c].ref \in Refs
  BY DEF Candidate, TypeOK, Refs

LEMMA RepeatType ==
  ASSUME TypeOK, NEW c \in Callers, NEW r \in Refs, Repeat(c, r)
  PROVE  TypeOK'
  <1>. DEFINE existing == RecordOf(r.path)
  <1>. DEFINE result == IF existing = NoRef THEN "not_found" ELSE AnswerOf(existing, r)
  <1>1. result \in Answers
    BY DEF AnswerOf, Answers
  <1>2. result = "reference" => existing \in Refs
    BY DEF RecordOf, TypeOK
  <1>3. Finish(c, result)
    BY DEF Repeat
  <1>4. handedOut' \subseteq Refs
    BY <1>2 DEF Repeat, TypeOK
  <1>. HIDE DEF existing, result
  <1>. QED
    BY <1>1, <1>3, <1>4, FinishType DEF Repeat, TypeOK, disk

LEMMA ProceedType ==
  ASSUME TypeOK, NEW c \in Callers, NEW r \in Refs, NEW stage \in {"file", "record"},
         Proceed(c, r, stage)
  PROVE  TypeOK'
  BY DEF Proceed, GoTo, TypeOK, Stages, disk

LEMMA StepType ==
  ASSUME TypeOK, NEW c \in Callers, Call(c)
  PROVE  TypeOK'
  <1>1. ASSUME Begin(c) PROVE TypeOK'
    BY <1>1, BeginType
  <1>2. ASSUME StartWrite(c) PROVE TypeOK'
    <2>1. Candidate(c) \in Refs
      BY <1>2, CandidateType DEF StartWrite
    <2>2. ASSUME Refuse(c, "conflict") PROVE TypeOK'
      <3>1. "conflict" \in Answers /\ Finish(c, "conflict")
        BY <2>2 DEF Answers, Refuse
      <3>. QED
        BY <3>1, <2>2, FinishType DEF Refuse, TypeOK, disk
    <2>. QED
      BY <1>2, <2>1, <2>2, RepeatType, ProceedType DEF StartWrite
  <1>3. ASSUME StartRegister(c) PROVE TypeOK'
    <2>1. ASSUME Refuse(c, "not_found") PROVE TypeOK'
      <3>1. "not_found" \in Answers /\ Finish(c, "not_found")
        BY <2>1 DEF Answers, Refuse
      <3>. QED
        BY <3>1, <2>1, FinishType DEF Refuse, TypeOK, disk
    <2>2. files[op[c].ref.path] # NoFile => Candidate(c) \in Refs
      BY <1>3, CandidateType DEF StartRegister
    <2>. QED
      BY <1>3, <2>1, <2>2, RepeatType, ProceedType DEF StartRegister
  <1>4. ASSUME WriteFile(c) \/ WriteRecord(c) \/ WriteIndex(c) \/ RemoveRecord(c)
               \/ RemoveFile(c) \/ Return(c)
        PROVE  TypeOK'
    <2>1. op[c].ref \in Refs /\ op[c].ref.path \in Paths /\ op[c].ref.content \in Contents
      BY <1>4 DEF WriteFile, WriteRecord, WriteIndex, RemoveRecord, RemoveFile, Return, TypeOK, Refs
    <2>2. failures' \in 0..MaxFailures
      BY <1>4, BoundsAssumption
      DEF WriteFile, WriteRecord, WriteIndex, RemoveRecord, RemoveFile, Return, Refused, TypeOK
    <2>3. ASSUME WriteFile(c) PROVE TypeOK'
      BY <2>1, <2>2, <2>3 DEF WriteFile, Finish, GoTo, TypeOK, Stages, Answers
    <2>4. ASSUME WriteRecord(c) PROVE TypeOK'
      BY <2>1, <2>2, <2>4 DEF WriteRecord, GiveUp, Finish, GoTo, TypeOK, Stages, Answers
    <2>5. ASSUME WriteIndex(c) PROVE TypeOK'
      BY <2>1, <2>2, <2>5 DEF WriteIndex, GoTo, TypeOK, Stages
    <2>6. ASSUME RemoveRecord(c) PROVE TypeOK'
      BY <2>1, <2>2, <2>6 DEF RemoveRecord, GiveUp, Finish, GoTo, TypeOK, Stages, Answers
    <2>7. ASSUME RemoveFile(c) PROVE TypeOK'
      BY <2>1, <2>2, <2>7 DEF RemoveFile, Finish, GoTo, TypeOK, Stages, Answers
    <2>8. ASSUME Return(c) PROVE TypeOK'
      BY <2>1, <2>2, <2>8 DEF Return, Finish, GoTo, TypeOK, Stages, Answers, disk
    <2>. QED
      BY <1>4, <2>3, <2>4, <2>5, <2>6, <2>7, <2>8
  <1>. QED
    BY <1>1, <1>2, <1>3, <1>4 DEF Call

LEMMA OtherType ==
  ASSUME TypeOK, (\E p \in StreamedPaths : Stream(p)) \/ Crash \/ UNCHANGED vars
  PROVE  TypeOK'
  <1>1. ASSUME \E p \in StreamedPaths : Stream(p) PROVE TypeOK'
    BY <1>1, StreamingAssumption DEF Stream, calls, TypeOK
  <1>2. ASSUME Crash PROVE TypeOK'
    BY <1>2, BoundsAssumption DEF Crash, disk, TypeOK, Stages, Answers
  <1>3. ASSUME UNCHANGED vars PROVE TypeOK'
    BY <1>3 DEF vars, TypeOK
  <1>. QED
    BY <1>1, <1>2, <1>3

\* Every variable of the store holds a value of its type: ArtifactStore.TypeOK.
THEOREM TypeCorrect == Spec => []TypeOK
  <1>1. TypeOK /\ [Next]_vars => TypeOK'
    BY StepType, OtherType DEF Next
  <1>. QED
    BY <1>1, InitArtifacts, PTL DEF Spec
-----------------------------------------------------------------------------
(* Steps that write nothing and hand out only what is indexed. *)
LEMMA QuietInv ==
  ASSUME TypeOK, Inv, NEW c \in Callers, Idle(c),
         UNCHANGED <<disk, crashes>>,
         pc' = [pc EXCEPT ![c] = "idle"] \/ pc' = [pc EXCEPT ![c] = "waiting"],
         lock' = NoOne \/ lock' = lock, lock = NoOne \/ lock' = lock,
         \A d \in Callers \ {c} : op'[d] = op[d],
         \A r \in handedOut' \ handedOut : index[r.path] = r
  PROVE  Inv'
  <1>1. /\ pc'[c] \in {"idle", "waiting"}
        /\ \A d \in Callers \ {c} : pc'[d] = pc[d]
    BY DEF TypeOK
  <1>2. \A d \in Callers : pc'[d] \notin {"idle", "waiting"} => pc'[d] = pc[d] /\ op'[d] = op[d]
    BY <1>1
  <1>3. Locked'
    BY <1>2, NamesAssumption DEF Inv, Locked, Idle
  <1>4. Working'
    BY <1>2 DEF Inv, Working, disk
  <1>5. Indexed' /\ HandedOutIsIndexed'
    BY DEF Inv, Indexed, HandedOutIsIndexed, disk
  <1>6. NoStrayRecord'
    BY <1>1, NamesAssumption DEF Inv, NoStrayRecord, disk, Idle, TypeOK
  <1>7. NoStrayFile'
    BY <1>1, NamesAssumption DEF Inv, NoStrayFile, disk, Idle, TypeOK
  <1>. QED
    BY <1>3, <1>4, <1>5, <1>6, <1>7 DEF Inv

LEMMA BeginInv ==
  ASSUME TypeOK, Inv, NEW c \in Callers, Begin(c)
  PROVE  Inv'
  <1>1. Idle(c) /\ pc' = [pc EXCEPT ![c] = "waiting"] /\ lock' = lock
    BY DEF Begin, Idle, GoTo
  <1>2. \A d \in Callers \ {c} : op'[d] = op[d]
    BY DEF Begin, TypeOK
  <1>. QED
    BY <1>1, <1>2, QuietInv DEF Begin

LEMMA RefuseInv ==
  ASSUME TypeOK, Inv, NEW c \in Callers, Idle(c), LockFree(c), NEW result, Refuse(c, result)
  PROVE  Inv'
  BY QuietInv DEF Refuse, Finish, GoTo, LockFree

LEMMA RepeatInv ==
  ASSUME TypeOK, Inv, NEW c \in Callers, Idle(c), LockFree(c), NEW r \in Refs, Repeat(c, r)
  PROVE  Inv'
  <1>. DEFINE existing == RecordOf(r.path)
  <1>. DEFINE result == IF existing = NoRef THEN "not_found" ELSE AnswerOf(existing, r)
  <1>1. Finish(c, result)
    BY DEF Repeat
  <1>2. handedOut' = IF result = "reference" THEN handedOut \union {existing} ELSE handedOut
    BY DEF Repeat
  <1>3. result = "reference" => existing # NoRef
    OBVIOUS
  <1>4. existing # NoRef => existing = index[r.path]
    BY DEF RecordOf
  <1>5. r.path \in Paths
    BY DEF Refs
  <1>6. existing # NoRef => index[existing.path] = existing
    BY <1>4, <1>5 DEF Inv, Indexed
  <1>. HIDE DEF existing, result
  <1>7. \A q \in handedOut' \ handedOut : index[q.path] = q
    BY <1>2, <1>3, <1>6
  <1>. QED
    BY <1>1, <1>7, QuietInv DEF Repeat, Finish, GoTo, LockFree

\* The first write of a call is its own: nobody else is between two writes.
LEMMA ProceedInv ==
  ASSUME TypeOK, Inv, NEW c \in Callers, Idle(c), LockFree(c), NEW r \in Refs,
         NEW stage \in {"file", "record"}, Proceed(c, r, stage),
         stage = "file" => op[c].kind = "write" /\ files[r.path] = NoFile,
         stage = "record" => op[c].kind = "register" /\ files[r.path] = r.content
  PROVE  Inv'
  <1>1. /\ pc'[c] = stage /\ op'[c].ref = r /\ op'[c].kind = op[c].kind
        /\ \A d \in Callers \ {c} : pc'[d] = pc[d] /\ op'[d] = op[d]
    BY DEF Proceed, GoTo, TypeOK
  <1>2. lock' = c /\ lock = NoOne /\ index[r.path] = NoRef
    BY DEF Proceed, LockFree
  <1>3. \A d \in Callers \ {c} : Idle(d)
    BY <1>2, NamesAssumption DEF Inv, Locked
  <1>4. Locked'
    BY <1>1, <1>2, <1>3 DEF Locked, Idle
  <1>5. Working'
    BY <1>1, <1>2, <1>3 DEF Working, Idle, Proceed, disk
  <1>6. Indexed' /\ HandedOutIsIndexed'
    BY DEF Inv, Indexed, HandedOutIsIndexed, Proceed, disk
  <1>7. NoStrayRecord'
    BY <1>2, NamesAssumption DEF Inv, NoStrayRecord, Proceed, disk
  <1>8. NoStrayFile'
    BY <1>2, NamesAssumption DEF Inv, NoStrayFile, Proceed, disk
  <1>. QED
    BY <1>4, <1>5, <1>6, <1>7, <1>8 DEF Inv

LEMMA StartInv ==
  ASSUME TypeOK, Inv, NEW c \in Callers, StartWrite(c) \/ StartRegister(c)
  PROVE  Inv'
  <1>1. Idle(c) /\ LockFree(c)
    BY DEF StartWrite, StartRegister, Idle
  <1>2. ASSUME StartWrite(c) PROVE Inv'
    <2>1. Candidate(c) \in Refs
      BY <1>2, CandidateType DEF StartWrite
    <2>. QED
      BY <1>1, <1>2, <2>1, RefuseInv, RepeatInv, ProceedInv DEF StartWrite
  <1>3. ASSUME StartRegister(c) PROVE Inv'
    <2>1. CASE files[op[c].ref.path] = NoFile
      BY <1>1, <1>3, <2>1, RefuseInv DEF StartRegister
    <2>2. CASE files[op[c].ref.path] # NoFile
      <3>1. Candidate(c) \in Refs /\ op[c].ref \in Refs /\ op[c].kind = "register"
        BY <1>3, <2>2, CandidateType DEF StartRegister
      <3>2. Candidate(c).path = op[c].ref.path /\ Candidate(c).content = files[op[c].ref.path]
        BY <3>1 DEF Candidate, Refs
      <3>. QED
        BY <1>1, <1>3, <2>2, <3>1, <3>2, RepeatInv, ProceedInv DEF StartRegister
    <2>. QED
      BY <2>1, <2>2
  <1>. QED
    BY <1>2, <1>3
-----------------------------------------------------------------------------
(* The writes of the lock's holder; nobody else is between two writes. *)
LEMMA HolderIsAlone ==
  ASSUME TypeOK, Inv, NEW c \in Callers, ~Idle(c)
  PROVE  /\ lock = c
         /\ \A d \in Callers \ {c} : Idle(d)
         /\ op[c].ref \in Refs /\ op[c].ref.path \in Paths
         /\ op[c].ref.content \in Contents /\ op[c].ref # NoRef
  <1>1. lock = c /\ \A d \in Callers \ {c} : Idle(d)
    BY DEF Inv, Locked
  <1>2. op[c].ref \in Refs
    BY DEF TypeOK, Idle
  <1>. QED
    BY <1>1, <1>2, NamesAssumption DEF Refs

LEMMA WriteFileInv ==
  ASSUME TypeOK, Inv, NEW c \in Callers, WriteFile(c)
  PROVE  Inv'
  <1>1. ~Idle(c) /\ pc[c] = "file" /\ op' = op
    BY DEF WriteFile, Idle
  <1>2. /\ lock = c
        /\ \A d \in Callers \ {c} : Idle(d)
        /\ op[c].ref.path \in Paths /\ op[c].ref.content \in Contents
    BY <1>1, HolderIsAlone
  <1>3. index[op[c].ref.path] = NoRef /\ op[c].kind = "write"
    BY <1>1 DEF Inv, Working, Locked
  <1>4. CASE Finish(c, "error") /\ UNCHANGED files
    <2>1. \A d \in Callers : Idle(d)'
      BY <1>2, <1>4 DEF Finish, GoTo, Idle, TypeOK
    <2>2. Locked' /\ Working'
      BY <2>1 DEF Locked, Working, Idle
    <2>3. Indexed' /\ HandedOutIsIndexed'
      BY <1>4 DEF WriteFile, Inv, Indexed, HandedOutIsIndexed
    <2>4. NoStrayRecord' /\ NoStrayFile'
      BY <1>1, <1>2, <1>4 DEF WriteFile, Inv, NoStrayRecord, NoStrayFile
    <2>. QED
      BY <2>2, <2>3, <2>4 DEF Inv
  <1>5. CASE /\ files' = [files EXCEPT ![op[c].ref.path] = op[c].ref.content]
             /\ GoTo(c, "record") /\ UNCHANGED lock
    <2>1. pc'[c] = "record" /\ \A d \in Callers \ {c} : Idle(d)' /\ pc'[d] = pc[d]
      BY <1>2, <1>5 DEF GoTo, Idle, TypeOK
    <2>2. /\ files'[op[c].ref.path] = op[c].ref.content
          /\ \A p \in Paths : p # op[c].ref.path => files'[p] = files[p]
      BY <1>2, <1>5 DEF TypeOK
    <2>3. Locked' /\ Working'
      BY <1>1, <1>2, <1>3, <1>5, <2>1, <2>2 DEF Locked, Working, Idle, WriteFile
    <2>4. Indexed' /\ HandedOutIsIndexed'
      BY <1>3, <2>2 DEF WriteFile, Inv, Indexed, HandedOutIsIndexed
    <2>5. NoStrayRecord'
      BY <1>1, <1>2, <1>5 DEF WriteFile, Inv, NoStrayRecord
    <2>6. NoStrayFile'
      BY <1>1, <1>2, <1>3, <1>5, <2>1, <2>2 DEF WriteFile, Inv, NoStrayFile
    <2>. QED
      BY <2>3, <2>4, <2>5, <2>6 DEF Inv
  <1>. QED
    BY <1>4, <1>5 DEF WriteFile

LEMMA GiveUpInv ==
  ASSUME TypeOK, Inv, NEW c \in Callers, pc[c] \in {"record", "unrecord"}, GiveUp(c),
         UNCHANGED <<files, index, op, handedOut, crashes>>,
         records' = records \ {op[c].ref} \/ (records' = records /\ pc[c] = "record")
  PROVE  Inv'
  <1>1. ~Idle(c)
    BY DEF Idle
  <1>2. /\ lock = c
        /\ \A d \in Callers \ {c} : Idle(d)
        /\ op[c].ref \in Refs /\ op[c].ref.path \in Paths /\ op[c].ref # NoRef
        /\ op[c].ref.content \in Contents
    BY <1>1, HolderIsAlone
  <1>3. index[op[c].ref.path] = NoRef /\ files[op[c].ref.path] = op[c].ref.content
    BY DEF Inv, Working
  <1>4. \A p \in Paths : index[p] # NoRef => index[p] # op[c].ref
    BY <1>3 DEF Inv, Indexed
  <1>5. \/ pc'[c] = "unfile" /\ lock' = c /\ op[c].kind = "write"
        \/ pc'[c] = "idle" /\ lock' = NoOne /\ op[c].kind # "write"
    BY <1>2 DEF GiveUp, Finish, GoTo, TypeOK
  <1>6. \A d \in Callers \ {c} : Idle(d)' /\ pc'[d] = pc[d]
    BY <1>2 DEF GiveUp, Finish, GoTo, Idle, TypeOK
  <1>7. Locked' /\ Working'
    BY <1>2, <1>3, <1>5, <1>6 DEF Locked, Working, Idle
  <1>8. Indexed' /\ HandedOutIsIndexed'
    BY <1>4 DEF Inv, Indexed, HandedOutIsIndexed
  <1>9. NoStrayRecord'
    BY <1>2, <1>5, <1>6 DEF Inv, NoStrayRecord
  <1>10. NoStrayFile'
    BY <1>2, <1>3, <1>5, <1>6 DEF Inv, NoStrayFile
  <1>. QED
    BY <1>7, <1>8, <1>9, <1>10 DEF Inv

LEMMA WriteRecordInv ==
  ASSUME TypeOK, Inv, NEW c \in Callers, WriteRecord(c)
  PROVE  Inv'
  <1>1. ~Idle(c) /\ pc[c] = "record" /\ op' = op
    BY DEF WriteRecord, Idle
  <1>2. /\ lock = c
        /\ \A d \in Callers \ {c} : Idle(d)
        /\ op[c].ref \in Refs
    BY <1>1, HolderIsAlone
  <1>3. CASE GiveUp(c) /\ UNCHANGED records
    BY <1>1, <1>3, GiveUpInv DEF WriteRecord
  <1>4. CASE records' = records \union {op[c].ref} /\ GoTo(c, "index") /\ UNCHANGED lock
    <2>1. pc'[c] = "index" /\ \A d \in Callers \ {c} : Idle(d)' /\ pc'[d] = pc[d]
      BY <1>2, <1>4 DEF GoTo, Idle, TypeOK
    <2>2. Locked' /\ Working'
      BY <1>1, <1>2, <1>4, <2>1 DEF Inv, Locked, Working, Idle, WriteRecord
    <2>3. Indexed' /\ HandedOutIsIndexed'
      BY <1>4 DEF WriteRecord, Inv, Indexed, HandedOutIsIndexed
    <2>4. NoStrayRecord'
      BY <1>1, <1>2, <1>4, <2>1 DEF WriteRecord, Inv, NoStrayRecord
    <2>5. NoStrayFile'
      BY <1>1, <1>2, <1>4, <2>1 DEF WriteRecord, Inv, NoStrayFile
    <2>. QED
      BY <2>2, <2>3, <2>4, <2>5 DEF Inv
  <1>. QED
    BY <1>3, <1>4 DEF WriteRecord

LEMMA WriteIndexInv ==
  ASSUME TypeOK, Inv, NEW c \in Callers, WriteIndex(c)
  PROVE  Inv'
  <1>1. ~Idle(c) /\ pc[c] = "index"
    BY DEF WriteIndex, Idle
  <1>2. /\ lock = c
        /\ \A d \in Callers \ {c} : Idle(d)
        /\ op[c].ref \in Refs /\ op[c].ref.path \in Paths
    BY <1>1, HolderIsAlone
  <1>3. /\ index[op[c].ref.path] = NoRef /\ op[c].ref \in records
        /\ files[op[c].ref.path] = op[c].ref.content
    BY <1>1 DEF Inv, Working
  <1>4. /\ pc'[c] \in {"return", "unrecord"}
        /\ \A d \in Callers \ {c} : Idle(d)' /\ pc'[d] = pc[d]
    BY <1>2 DEF WriteIndex, GoTo, Idle, TypeOK
  <1>5. UNCHANGED <<files, records, lock, op, handedOut, crashes>>
    BY DEF WriteIndex
  <1>6. Locked'
    BY <1>2, <1>4, <1>5 DEF Locked, Idle
  <1>7. CASE index' = [index EXCEPT ![op[c].ref.path] = op[c].ref] /\ GoTo(c, "return")
    <2>1. pc'[c] = "return"
      BY <1>7 DEF GoTo, TypeOK
    <2>2. /\ index'[op[c].ref.path] = op[c].ref
          /\ \A p \in Paths : p # op[c].ref.path => index'[p] = index[p]
      BY <1>2, <1>7 DEF TypeOK
    <2>3. Working'
      BY <1>4, <1>5, <2>1, <2>2 DEF Working, Idle
    <2>4. Indexed'
      BY <1>3, <1>5, <2>2 DEF Inv, Indexed
    <2>5. HandedOutIsIndexed'
      <3>1. \A r \in handedOut : r \in Refs /\ r.path \in Paths /\ r # NoRef
        BY NamesAssumption DEF TypeOK, Refs
      <3>. QED
        BY <1>3, <1>5, <2>2, <3>1 DEF Inv, HandedOutIsIndexed
    <2>6. NoStrayRecord'
      <3>1. \A r \in records : r \in Refs /\ r.path \in Paths /\ r # NoRef
        BY NamesAssumption DEF TypeOK, Refs
      <3>. QED
        BY <1>2, <1>3, <1>5, <2>2, <3>1 DEF Inv, NoStrayRecord
    <2>7. NoStrayFile'
      <3>1. op[c].ref # NoRef
        BY <1>2, NamesAssumption DEF Refs
      <3>. QED
        BY <1>2, <1>5, <2>2, <3>1 DEF Inv, NoStrayFile
    <2>. QED
      BY <1>6, <2>3, <2>4, <2>5, <2>6, <2>7 DEF Inv
  <1>8. CASE GoTo(c, "unrecord") /\ UNCHANGED index
    <2>1. pc'[c] = "unrecord"
      BY <1>8 DEF GoTo, TypeOK
    <2>2. Working'
      BY <1>3, <1>4, <1>5, <1>8, <2>1 DEF Working, Idle
    <2>3. Indexed' /\ HandedOutIsIndexed'
      BY <1>5, <1>8 DEF Inv, Indexed, HandedOutIsIndexed
    <2>4. NoStrayRecord' /\ NoStrayFile'
      BY <1>2, <1>4, <1>5, <1>8, <2>1 DEF Inv, NoStrayRecord, NoStrayFile
    <2>. QED
      BY <1>6, <2>2, <2>3, <2>4 DEF Inv
  <1>. QED
    BY <1>7, <1>8 DEF WriteIndex

LEMMA RemoveFileInv ==
  ASSUME TypeOK, Inv, NEW c \in Callers, RemoveFile(c)
  PROVE  Inv'
  <1>1. ~Idle(c) /\ pc[c] = "unfile"
    BY DEF RemoveFile, Idle
  <1>2. /\ lock = c
        /\ \A d \in Callers \ {c} : Idle(d)
        /\ op[c].ref.path \in Paths
    BY <1>1, HolderIsAlone
  <1>3. index[op[c].ref.path] = NoRef
    BY <1>1 DEF Inv, Working
  <1>4. \A d \in Callers : Idle(d)'
    BY <1>2 DEF RemoveFile, Finish, GoTo, Idle, TypeOK
  <1>5. /\ files'[op[c].ref.path] = NoFile
        /\ \A p \in Paths : p # op[c].ref.path => files'[p] = files[p]
    BY <1>2 DEF RemoveFile, TypeOK
  <1>6. Locked' /\ Working'
    BY <1>4 DEF Locked, Working, Idle
  <1>7. Indexed' /\ HandedOutIsIndexed'
    BY <1>3, <1>5 DEF RemoveFile, Inv, Indexed, HandedOutIsIndexed
  <1>8. NoStrayRecord'
    BY <1>1, <1>2 DEF RemoveFile, Inv, NoStrayRecord
  <1>9. NoStrayFile'
    BY <1>1, <1>2, <1>5 DEF RemoveFile, Inv, NoStrayFile
  <1>. QED
    BY <1>6, <1>7, <1>8, <1>9 DEF Inv

LEMMA ReturnInv ==
  ASSUME TypeOK, Inv, NEW c \in Callers, Return(c)
  PROVE  Inv'
  <1>1. ~Idle(c) /\ pc[c] = "return"
    BY DEF Return, Idle
  <1>2. lock = c /\ \A d \in Callers \ {c} : Idle(d)
    BY <1>1, HolderIsAlone
  <1>3. index[op[c].ref.path] = op[c].ref
    BY <1>1 DEF Inv, Working
  <1>4. \A d \in Callers : Idle(d)'
    BY <1>2 DEF Return, Finish, GoTo, Idle, TypeOK
  <1>5. Locked' /\ Working'
    BY <1>4 DEF Locked, Working, Idle
  <1>6. Indexed' /\ HandedOutIsIndexed'
    BY <1>3 DEF Return, disk, Inv, Indexed, HandedOutIsIndexed
  <1>7. NoStrayRecord' /\ NoStrayFile'
    BY <1>1, <1>2 DEF Return, disk, Inv, NoStrayRecord, NoStrayFile
  <1>. QED
    BY <1>5, <1>6, <1>7 DEF Inv

LEMMA OtherInv ==
  ASSUME TypeOK, Inv, (\E p \in StreamedPaths : Stream(p)) \/ Crash \/ UNCHANGED vars
  PROVE  Inv'
  <1>1. ASSUME NEW p \in StreamedPaths, Stream(p) PROVE Inv'
    <2>1. /\ p \in Paths /\ files[p] = NoFile /\ index[p] = NoRef
          /\ \A q \in Paths : q # p => files'[q] = files[q]
          /\ UNCHANGED <<records, index, lock, op, pc, handedOut, crashes>>
      BY <1>1, StreamingAssumption DEF Stream, calls, TypeOK
    <2>2. \A c \in Callers : ~Idle(c) => op[c].ref.path \in Paths /\ op[c].ref.content # NoFile
      BY NamesAssumption, HolderIsAlone
    <2>3. Locked'
      BY <2>1 DEF Inv, Locked, Idle
    <2>4. Working'
      BY <2>1, <2>2 DEF Inv, Working, Idle
    <2>5. Indexed' /\ HandedOutIsIndexed'
      BY <2>1 DEF Inv, Indexed, HandedOutIsIndexed
    <2>6. NoStrayRecord' /\ NoStrayFile'
      BY <2>1 DEF Inv, NoStrayRecord, NoStrayFile
    <2>. QED
      BY <2>3, <2>4, <2>5, <2>6 DEF Inv
  <1>2. ASSUME Crash PROVE Inv'
    <2>1. \A c \in Callers : pc'[c] = "idle"
      BY <1>2 DEF Crash
    <2>2. crashes' # 0
      BY <1>2, BoundsAssumption DEF Crash, TypeOK
    <2>3. Locked' /\ Working'
      BY <2>1 DEF Locked, Working, Idle
    <2>4. Indexed' /\ HandedOutIsIndexed'
      BY <1>2 DEF Crash, disk, Inv, Indexed, HandedOutIsIndexed
    <2>5. NoStrayRecord' /\ NoStrayFile'
      BY <2>2 DEF NoStrayRecord, NoStrayFile
    <2>. QED
      BY <2>3, <2>4, <2>5 DEF Inv
  <1>3. ASSUME UNCHANGED vars PROVE Inv'
    BY <1>3 DEF vars, Inv, Locked, Working, Indexed, HandedOutIsIndexed, NoStrayRecord,
                NoStrayFile, Idle
  <1>. QED
    BY <1>1, <1>2, <1>3

LEMMA StepInv ==
  ASSUME TypeOK, Inv, NEW c \in Callers, Call(c)
  PROVE  Inv'
  <1>1. ASSUME RemoveRecord(c) PROVE Inv'
    BY <1>1, GiveUpInv DEF RemoveRecord
  <1>. QED
    BY <1>1, BeginInv, StartInv, WriteFileInv, WriteRecordInv, WriteIndexInv, RemoveFileInv,
       ReturnInv DEF Call

LEMMA Invariance == Spec => [](TypeOK /\ Inv)
  <1>1. TypeOK /\ Inv /\ [Next]_vars => Inv'
    BY StepInv, OtherInv DEF Next
  <1>. QED
    BY <1>1, InitArtifacts, TypeCorrect, PTL DEF Spec
-----------------------------------------------------------------------------
\* A reference some call returned stays readable: ArtifactStore.HandedOutIsReadable.
THEOREM ReadableForGood == Spec => []HandedOutIsReadable
  <1>1. TypeOK /\ Inv => HandedOutIsReadable
    <2>. SUFFICES ASSUME TypeOK, Inv, NEW r \in handedOut
                  PROVE  Readable(r)
      BY DEF HandedOutIsReadable
    <2>1. r.path \in Paths /\ r # NoRef
      BY NamesAssumption DEF TypeOK, Refs
    <2>2. index[r.path] = r
      BY DEF Inv, HandedOutIsIndexed
    <2>. QED
      BY <2>1, <2>2 DEF Inv, Indexed, Readable
  <1>. QED
    BY <1>1, Invariance, PTL

\* A refused write takes back what its call wrote: ArtifactStore.FailureLeavesNothing.
THEOREM NothingIsLeft == Spec => []FailureLeavesNothing
  <1>1. TypeOK /\ Inv => FailureLeavesNothing
    BY NamesAssumption DEF Inv, NoStrayRecord, NoStrayFile, FailureLeavesNothing
  <1>. QED
    BY <1>1, Invariance, PTL

\* The record of a path that was handed out is found, and its file is whole.
LEMMA AnswerOfHandedOut ==
  ASSUME TypeOK, Inv, NEW c \in Callers, Candidate(c) \in handedOut
  PROVE  /\ index[Candidate(c).path] = Candidate(c)
         /\ RecordOf(Candidate(c).path) = Candidate(c)
         /\ AnswerOf(Candidate(c), Candidate(c)) = "reference"
         /\ Candidate(c) # NoRef /\ Candidate(c).content \in Contents
         /\ files[Candidate(c).path] # NoFile
  <1>. DEFINE r == Candidate(c)
  <1>1. r \in Refs /\ r.path \in Paths /\ r.content \in Contents /\ r # NoRef
    BY NamesAssumption DEF TypeOK, Refs
  <1>2. index[r.path] = r
    BY DEF Inv, HandedOutIsIndexed
  <1>3. r \in records /\ files[r.path] = r.content
    BY <1>1, <1>2 DEF Inv, Indexed
  <1>. HIDE DEF r
  <1>4. RecordOf(r.path) = r /\ AnswerOf(r, r) = "reference" /\ files[r.path] # NoFile
    BY <1>1, <1>2, <1>3, NamesAssumption DEF RecordOf, AnswerOf
  <1>. QED
    BY <1>1, <1>2, <1>4 DEF r

RetryStep ==
  \A c \in Callers :
    pc[c] = "waiting" /\ pc'[c] = "idle" /\ Candidate(c) \in handedOut
      => answer'[c] = "reference" \/ crashes' # crashes

LEMMA RetryByCall ==
  ASSUME TypeOK, Inv, NEW c \in Callers, Call(c)
  PROVE  RetryStep
  <1>. SUFFICES ASSUME NEW d \in Callers, pc[d] = "waiting", pc'[d] = "idle",
                       Candidate(d) \in handedOut
                PROVE  answer'[d] = "reference"
    BY DEF RetryStep
  <1>1. d = c
    BY DEF Call, Begin, StartWrite, StartRegister, Repeat, Proceed, Refuse, WriteFile, WriteRecord,
           WriteIndex, RemoveRecord, RemoveFile, Return, GiveUp, Finish, GoTo, TypeOK
  <1>2. StartWrite(c) \/ StartRegister(c)
    BY <1>1 DEF Call, Begin, GoTo, TypeOK, WriteFile, WriteRecord, WriteIndex, RemoveRecord,
                RemoveFile, Return
  <1>3. op[c].kind = "write" \/ op[c].kind = "register"
    BY DEF TypeOK
  <1>4. op[c].ref.path = Candidate(c).path
    <2>1. op[c].ref \in Refs
      BY <1>1 DEF TypeOK
    <2>. QED
      BY <2>1 DEF Candidate, Refs
  <1>5. Repeat(c, Candidate(c))
    BY <1>1, <1>2, <1>4, AnswerOfHandedOut DEF StartWrite, StartRegister, Proceed
  <1>6. Finish(c, "reference")
    BY <1>1, <1>5, AnswerOfHandedOut DEF Repeat
  <1>. QED
    BY <1>1, <1>6 DEF Finish, TypeOK

\* Asking again for what was handed out answers it: ArtifactStore.RetryGetsTheReference.
THEOREM RetriesAreAnswered == Spec => RetryGetsTheReference
  <1>1. TypeOK /\ Inv /\ [Next]_vars => [RetryStep]_vars
    <2>1. ASSUME TypeOK, Inv, \E p \in StreamedPaths : Stream(p) PROVE RetryStep
      BY <2>1 DEF Stream, calls, RetryStep
    <2>2. ASSUME TypeOK, Inv, Crash PROVE RetryStep
      BY <2>2, BoundsAssumption DEF Crash, RetryStep, TypeOK
    <2>. QED
      BY <2>1, <2>2, RetryByCall DEF Next
  <1>. QED
    BY <1>1, Invariance, PTL DEF Spec, RetryGetsTheReference, RetryStep
-----------------------------------------------------------------------------
(* Refinement: only WriteIndex binds a path, only Return and a repetition hand *)
(* out a reference.                                                            *)
PromiseVars == <<index, handedOut>>

LEMMA ProceedQuietly ==
  ASSUME NEW c, NEW r, NEW stage, Proceed(c, r, stage)
  PROVE  UNCHANGED PromiseVars
  BY DEF Proceed, disk, PromiseVars

LEMMA RepeatHandsOut ==
  ASSUME TypeOK, Inv, NEW c \in Callers, NEW r \in Refs, Repeat(c, r)
  PROVE  Promise!Next \/ UNCHANGED PromiseVars
  <1>. DEFINE existing == RecordOf(r.path)
  <1>. DEFINE result == IF existing = NoRef THEN "not_found" ELSE AnswerOf(existing, r)
  <1>1. index' = index
    BY DEF Repeat, disk
  <1>2. CASE result = "reference"
    <2>1. existing # NoRef /\ existing = index[r.path] /\ r.path \in Paths
      BY <1>2 DEF RecordOf, Refs
    <2>2. existing \in Refs /\ index[existing.path] = existing
      BY <2>1 DEF Inv, Indexed, TypeOK
    <2>3. handedOut' = handedOut \union {existing}
      BY <1>2 DEF Repeat
    <2>. HIDE DEF existing
    <2>4. Promise!HandOut(existing)
      BY <1>1, <2>2, <2>3 DEF Promise!HandOut
    <2>. QED
      BY <2>2, <2>4 DEF Promise!Next
  <1>3. CASE result # "reference"
    BY <1>1, <1>3 DEF Repeat, PromiseVars
  <1>. QED
    BY <1>2, <1>3

LEMMA CallKeepsPromise ==
  ASSUME TypeOK, Inv, NEW c \in Callers, Call(c)
  PROVE  Promise!Next \/ UNCHANGED PromiseVars
  <1>1. ASSUME StartWrite(c) PROVE Promise!Next \/ UNCHANGED PromiseVars
    <2>1. Candidate(c) \in Refs
      BY <1>1, CandidateType DEF StartWrite
    <2>2. ASSUME Refuse(c, "conflict") PROVE UNCHANGED PromiseVars
      BY <2>2 DEF Refuse, disk, PromiseVars
    <2>. QED
      BY <1>1, <2>1, <2>2, RepeatHandsOut, ProceedQuietly DEF StartWrite
  <1>2. ASSUME StartRegister(c) PROVE Promise!Next \/ UNCHANGED PromiseVars
    <2>1. files[op[c].ref.path] # NoFile => Candidate(c) \in Refs
      BY <1>2, CandidateType DEF StartRegister
    <2>2. ASSUME Refuse(c, "not_found") PROVE UNCHANGED PromiseVars
      BY <2>2 DEF Refuse, disk, PromiseVars
    <2>. QED
      BY <1>2, <2>1, <2>2, RepeatHandsOut, ProceedQuietly DEF StartRegister
  <1>3. ASSUME WriteIndex(c) PROVE Promise!Next \/ UNCHANGED PromiseVars
    <2>1. ~Idle(c) /\ index[op[c].ref.path] = NoRef
      BY <1>3 DEF WriteIndex, Idle, Inv, Working
    <2>2. op[c].ref \in Refs
      BY <2>1, HolderIsAlone
    <2>3. Promise!Bind(op[c].ref) \/ UNCHANGED PromiseVars
      BY <1>3, <2>1 DEF WriteIndex, Promise!Bind, PromiseVars
    <2>. QED
      BY <2>2, <2>3 DEF Promise!Next
  <1>4. ASSUME Return(c) PROVE Promise!Next
    <2>1. ~Idle(c) /\ index[op[c].ref.path] = op[c].ref
      BY <1>4 DEF Return, Idle, Inv, Working
    <2>2. op[c].ref \in Refs
      BY <2>1, HolderIsAlone
    <2>3. Promise!HandOut(op[c].ref)
      BY <1>4, <2>1 DEF Return, disk, Promise!HandOut
    <2>. QED
      BY <2>2, <2>3 DEF Promise!Next
  <1>5. ASSUME Begin(c) \/ WriteFile(c) \/ WriteRecord(c) \/ RemoveRecord(c) \/ RemoveFile(c)
        PROVE  UNCHANGED PromiseVars
    BY <1>5 DEF Begin, WriteFile, WriteRecord, RemoveRecord, RemoveFile, disk, PromiseVars
  <1>. QED
    BY <1>1, <1>2, <1>3, <1>4, <1>5 DEF Call

\* The three files under one lock bind each path once, through failures and
\* crashes: ArtifactStore.ImplementsWriteOnce.
THEOREM StoreIsWriteOnce == Spec => ImplementsWriteOnce
  <1>1. Init => Promise!Init
    BY DEF Init, Promise!Init
  <1>2. TypeOK /\ Inv /\ [Next]_vars => [Promise!Next]_PromiseVars
    <2>1. ASSUME (\E p \in StreamedPaths : Stream(p)) \/ Crash \/ UNCHANGED vars
          PROVE  UNCHANGED PromiseVars
      BY <2>1 DEF Stream, Crash, disk, vars, PromiseVars
    <2>. QED
      BY <2>1, CallKeepsPromise DEF Next
  <1>. QED
    BY <1>1, <1>2, Invariance, PTL DEF Spec, ImplementsWriteOnce, Promise!Spec, PromiseVars
=============================================================================
