---------------------------- MODULE ArtifactStore ----------------------------
(***************************************************************************)
(* The artifact store of the control-api: a file, a record named after the *)
(* identity of the artifact, and an index from the path to that record,    *)
(* each written by an atomic rename.  One lock per root directory serves   *)
(* every instance of the process; a crash frees it between any two writes. *)
(*                                                                         *)
(* The id of an artifact is a hash of its path, content and metadata, so a *)
(* reference is modelled by these three.  A producer that streams into the *)
(* path the store gave it takes no lock; it is assumed to write before the *)
(* path has a file, never over one.                                        *)
(***************************************************************************)
EXTENDS Naturals

CONSTANTS
  Callers,     \* requests and worker threads that use the store
  Paths, Contents, Metas,
  MaxCrashes,  \* bound on the crashes of the process
  MaxFailures, \* bound on the writes the disk refuses
  StreamedPaths, \* where producers write files themselves, for register
  NoOne, NoFile, NoRef

ASSUME BoundsAssumption == MaxCrashes \in Nat /\ MaxFailures \in Nat
ASSUME StreamingAssumption == StreamedPaths \subseteq Paths
ASSUME NamesAssumption ==
  /\ NoOne \notin Callers
  /\ NoFile \notin Contents
  /\ NoRef \notin [path : Paths, content : Contents, meta : Metas]

VARIABLES
  files,     \* the bytes at each path
  records,   \* records/<id>.json
  index,     \* path-index/<hash of the path>.ref
  lock,      \* who holds the lock of the root
  op,        \* the call each caller is in: which, and for what
  pc,        \* the next write of that call
  answer,    \* how the last call of each caller ended
  handedOut, \* references some call has returned
  crashes, failures

disk == <<files, records, index>>
calls == <<lock, op, pc, answer>>
vars == <<files, records, index, lock, op, pc, answer, handedOut, crashes, failures>>

Refs == [path : Paths, content : Contents, meta : Metas]

Answers == {"none", "reference", "conflict", "integrity", "not_found", "error"}

Stages == {"idle", "waiting", "file", "record", "index", "unrecord", "unfile", "return"}

TypeOK ==
  /\ files \in [Paths -> Contents \union {NoFile}]
  /\ records \subseteq Refs
  /\ index \in [Paths -> Refs \union {NoRef}]
  /\ lock \in Callers \union {NoOne}
  /\ op \in [Callers -> [kind : {"write", "register"}, ref : Refs \union {NoRef}]]
  /\ pc \in [Callers -> Stages]
  /\ answer \in [Callers -> Answers]
  /\ handedOut \subseteq Refs
  /\ \A c \in Callers : pc[c] # "idle" => op[c].ref \in Refs
  /\ crashes \in 0..MaxCrashes /\ failures \in 0..MaxFailures

Init ==
  /\ files = [p \in Paths |-> NoFile]
  /\ records = {}
  /\ index = [p \in Paths |-> NoRef]
  /\ lock = NoOne
  /\ op = [c \in Callers |-> [kind |-> "write", ref |-> NoRef]]
  /\ pc = [c \in Callers |-> "idle"]
  /\ answer = [c \in Callers |-> "none"]
  /\ handedOut = {}
  /\ crashes = 0 /\ failures = 0
-----------------------------------------------------------------------------
GoTo(c, stage) == pc' = [pc EXCEPT ![c] = stage]

\* A call ends with an answer and leaves the lock.
Finish(c, result) ==
  /\ GoTo(c, "idle")
  /\ answer' = [answer EXCEPT ![c] = result]
  /\ lock' = NoOne

\* A write is refused by the disk: nothing of it stays at its destination.
Refused == failures < MaxFailures /\ failures' = failures + 1

\* What a call asks a record for.  register takes the content from the file.
Candidate(c) == IF op[c].kind = "write" THEN op[c].ref
                ELSE [op[c].ref EXCEPT !.content = files[op[c].ref.path]]

\* Mutation: the lock belongs to the object, and every request makes its own.
LockOfObject(c) == TRUE

\* The lock is shared by every store over the same root.
LockFree(c) == lock = NoOne

Begin(c) ==
  /\ pc[c] = "idle"
  /\ \E kind \in {"write", "register"}, r \in Refs :
       op' = [op EXCEPT ![c] = [kind |-> kind, ref |-> r]]
  /\ answer' = [answer EXCEPT ![c] = "none"]
  /\ GoTo(c, "waiting")
  /\ UNCHANGED <<disk, lock, handedOut, crashes, failures>>

\* Mutation: the records are compared whole, with the time they were made.
AnswerOfRecord(existing, candidate) == "conflict"

\* The retry of what is registered: the same reference, or what differs.
AnswerOf(existing, candidate) ==
  CASE existing # candidate -> "conflict"
    [] existing = candidate /\ files[candidate.path] # candidate.content -> "integrity"
    [] OTHER -> "reference"

\* The record the index leads to: _record_for_path, which get may refuse.
RecordOf(p) == IF index[p] \in records THEN index[p] ELSE NoRef

\* A path that already has a record is answered under the lock, from it.
Repeat(c, candidate) ==
  LET existing == RecordOf(candidate.path)
      result == IF existing = NoRef THEN "not_found" ELSE AnswerOf(existing, candidate)
  IN /\ index[candidate.path] # NoRef
     /\ Finish(c, result)
     /\ handedOut' = IF result = "reference" THEN handedOut \union {existing} ELSE handedOut
     /\ UNCHANGED <<disk, op, crashes, failures>>

\* The caller has the lock and goes on to its first write.
Proceed(c, candidate, stage) ==
  /\ index[candidate.path] = NoRef
  /\ lock' = c
  /\ op' = [op EXCEPT ![c].ref = candidate]
  /\ GoTo(c, stage)
  /\ UNCHANGED <<disk, answer, handedOut, crashes, failures>>

Refuse(c, result) ==
  /\ Finish(c, result)
  /\ UNCHANGED <<disk, op, handedOut, crashes, failures>>

StartWrite(c) ==
  LET candidate == Candidate(c)
      file == files[candidate.path]
  IN /\ pc[c] = "waiting" /\ op[c].kind = "write" /\ LockFree(c)
     /\ \/ Repeat(c, candidate)
        \/ file = NoFile /\ Proceed(c, candidate, "file")
        \/ file # NoFile /\ index[candidate.path] = NoRef /\ Refuse(c, "conflict")

\* Mutation: the file is taken to be there.
StartRegisterAnyway(c) ==
  /\ pc[c] = "waiting" /\ op[c].kind = "register" /\ LockFree(c)
  /\ Repeat(c, Candidate(c)) \/ Proceed(c, Candidate(c), "record")

StartRegister(c) ==
  LET file == files[op[c].ref.path]
  IN /\ pc[c] = "waiting" /\ op[c].kind = "register" /\ LockFree(c)
     /\ \/ file = NoFile /\ Refuse(c, "not_found")
        \/ file # NoFile /\ (Repeat(c, Candidate(c)) \/ Proceed(c, Candidate(c), "record"))

\* The destination is replaced by the complete temporary file.
WriteFile(c) ==
  /\ pc[c] = "file"
  /\ \/ /\ files' = [files EXCEPT ![op[c].ref.path] = op[c].ref.content]
        /\ GoTo(c, "record")
        /\ UNCHANGED <<lock, answer, failures>>
     \/ Refused /\ Finish(c, "error") /\ UNCHANGED files
  /\ UNCHANGED <<records, index, op, handedOut, crashes>>

\* Mutation: nobody removes the file.
GiveUpFile(c) == Finish(c, "error")

\* Only write removes the file again: register did not put it there.
GiveUp(c) == IF op[c].kind = "write"
             THEN GoTo(c, "unfile") /\ UNCHANGED <<lock, answer>>
             ELSE Finish(c, "error")

WriteRecord(c) ==
  /\ pc[c] = "record"
  /\ \/ /\ records' = records \union {op[c].ref}
        /\ GoTo(c, "index")
        /\ UNCHANGED <<lock, answer, failures>>
     \/ Refused /\ GiveUp(c) /\ UNCHANGED records
  /\ UNCHANGED <<files, index, op, handedOut, crashes>>

\* Mutation: the failure of the index is swallowed.
WriteIndexOrNot(c) ==
  /\ pc[c] = "index"
  /\ \/ index' = [index EXCEPT ![op[c].ref.path] = op[c].ref] /\ UNCHANGED failures
     \/ Refused /\ UNCHANGED index
  /\ GoTo(c, "return")
  /\ UNCHANGED <<files, records, lock, op, answer, handedOut, crashes>>

WriteIndex(c) ==
  /\ pc[c] = "index"
  /\ \/ /\ index' = [index EXCEPT ![op[c].ref.path] = op[c].ref]
        /\ GoTo(c, "return")
        /\ UNCHANGED failures
     \/ Refused /\ GoTo(c, "unrecord") /\ UNCHANGED index
  /\ UNCHANGED <<files, records, lock, op, answer, handedOut, crashes>>

RemoveRecord(c) ==
  /\ pc[c] = "unrecord"
  /\ records' = records \ {op[c].ref}
  /\ GiveUp(c)
  /\ UNCHANGED <<files, index, op, handedOut, crashes, failures>>

RemoveFile(c) ==
  /\ pc[c] = "unfile"
  /\ files' = [files EXCEPT ![op[c].ref.path] = NoFile]
  /\ Finish(c, "error")
  /\ UNCHANGED <<records, index, op, handedOut, crashes, failures>>

Return(c) ==
  /\ pc[c] = "return"
  /\ handedOut' = handedOut \union {op[c].ref}
  /\ Finish(c, "reference")
  /\ UNCHANGED <<disk, op, crashes, failures>>

\* A producer writes a new file at the path the store gave it.
Stream(p) ==
  /\ files[p] = NoFile /\ index[p] = NoRef
  /\ \E d \in Contents : files' = [files EXCEPT ![p] = d]
  /\ UNCHANGED <<records, index, calls, handedOut, crashes, failures>>

\* The process dies: what is on disk stays as it is.
Crash ==
  /\ crashes < MaxCrashes /\ crashes' = crashes + 1
  /\ lock' = NoOne
  /\ pc' = [c \in Callers |-> "idle"]
  /\ answer' = [c \in Callers |-> "none"]
  /\ UNCHANGED <<disk, op, handedOut, failures>>

Call(c) == \/ Begin(c) \/ StartWrite(c) \/ StartRegister(c)
           \/ WriteFile(c) \/ WriteRecord(c) \/ WriteIndex(c)
           \/ RemoveRecord(c) \/ RemoveFile(c) \/ Return(c)

Next == \/ \E c \in Callers : Call(c)
        \/ \E p \in StreamedPaths : Stream(p)
        \/ Crash

Spec == Init /\ [][Next]_vars
-----------------------------------------------------------------------------
\* get and resolve: the record is there and the bytes have its hash.
Readable(r) == r \in records /\ files[r.path] = r.content

\* A reference that some call has returned is readable for good, whoever else
\* writes, registers, fails or dies at any point of a call of theirs.
HandedOutIsReadable == \A r \in handedOut : Readable(r)

\* A call that asks again for a reference that was handed out gets it, although
\* the record it makes anew is not the one on disk: the caller whose answer was
\* lost is neither refused nor told of damage.
RetryGetsTheReference ==
  [][\A c \in Callers :
       pc[c] = "waiting" /\ pc'[c] = "idle" /\ Candidate(c) \in handedOut
         => answer'[c] = "reference" \/ crashes' # crashes]_vars

\* A call the disk refuses at any of its three writes takes back the writes it
\* made: until the process dies no record is out of the index, and no file of
\* write is left to be taken for somebody else's by the next call.
FailureLeavesNothing ==
  lock = NoOne /\ crashes = 0 =>
    /\ \A r \in records : index[r.path] = r
    /\ \A p \in Paths \ StreamedPaths : files[p] # NoFile => index[p] # NoRef

Promise == INSTANCE WriteOnce WITH bound <- index

\* The three files and the lock together bind each path once, and no call returns
\* a reference to which its path is not bound.
ImplementsWriteOnce == Promise!Spec
=============================================================================
