----------------------------- MODULE Workspaces -----------------------------
(***************************************************************************)
(* The workspace manager: a snapshot of a source tree under the hash of    *)
(* its content, and a copy of a snapshot for each run, task and revision.  *)
(* Both are prepared in a temporary directory and appear by one rename; no *)
(* lock orders the creators, and nobody stops the source from changing     *)
(* while it is read.                                                       *)
(*                                                                         *)
(* A tree is the sequence of the versions of its files, and its own hash.  *)
(* A rename onto a directory that is not empty fails with EEXIST or with   *)
(* ENOTEMPTY, as the file system likes; the code expects the first.        *)
(***************************************************************************)
EXTENDS Naturals, Sequences

CONSTANTS
  Creators,      \* threads and processes that use the same root
  Keys,          \* run, task and revision
  NumFiles, Versions,
  RenameErrors,  \* what the file system answers to the loser of a rename
  MaxEdits,      \* bound on the edits of the source
  NoTree, NoKey, NoDir

ASSUME SizeAssumption == NumFiles \in Nat /\ MaxEdits \in Nat
ASSUME ErrorsAssumption == RenameErrors \subseteq {"EEXIST", "ENOTEMPTY"}

\* A tree stands for its hash, of which distinct trees are assumed to have distinct
\* ones: no content is taken to look like the names and files that follow it.
Trees == [1..NumFiles -> Versions]

ASSUME NamesAssumption ==
  /\ NoTree \notin Trees /\ NoKey \notin Keys
  /\ NoDir \notin [tree : Trees, sealed : BOOLEAN]
  /\ NoDir \notin [base : Trees, code : Trees]

VARIABLES
  source,      \* the tree somebody works on
  edits,
  snapshots,   \* snapshots/<hash>: its files, and whether they are read-only
  workspaces,  \* runs/<run>/<task>/r<revision>: its marker and its code
  pc,          \* where each creator is
  scan,        \* the versions it has read or copied so far
  want,        \* the snapshot it makes or starts from
  key,         \* the workspace it makes
  answer,
  given        \* workspaces some call returned, with the snapshot asked for

calls == <<pc, scan, want, key, answer>>
vars == <<source, edits, snapshots, workspaces, calls, given>>

Init ==
  /\ source \in Trees
  /\ edits = 0
  /\ snapshots = [h \in Trees |-> NoDir]
  /\ workspaces = [k \in Keys |-> NoDir]
  /\ pc = [c \in Creators |-> "idle"]
  /\ scan = [c \in Creators |-> <<>>]
  /\ want = [c \in Creators |-> NoTree]
  /\ key = [c \in Creators |-> NoKey]
  /\ answer = [c \in Creators |-> "none"]
  /\ given = {}
-----------------------------------------------------------------------------
GoTo(c, step) == pc' = [pc EXCEPT ![c] = step]

Scanned(c, files) == scan' = [scan EXCEPT ![c] = files]

\* A call ends; its temporary directory is gone.
Finish(c, result) ==
  /\ GoTo(c, "idle") /\ Scanned(c, <<>>)
  /\ want' = [want EXCEPT ![c] = NoTree]
  /\ key' = [key EXCEPT ![c] = NoKey]
  /\ answer' = [answer EXCEPT ![c] = result]

\* Somebody saves a file of the source.
EditSource ==
  /\ edits < MaxEdits /\ edits' = edits + 1
  /\ \E f \in 1..NumFiles, v \in Versions : source' = [source EXCEPT ![f] = v]
  /\ UNCHANGED <<snapshots, workspaces, calls, given>>

\* _load_snapshot: the files are hashed again each time.
LoadSnapshot(h) ==
  IF snapshots[h] = NoDir THEN "missing"
  ELSE IF snapshots[h].tree # h THEN "altered" ELSE "snapshot"

StartSnapshot(c) ==
  /\ pc[c] = "idle"
  /\ GoTo(c, "hashing") /\ Scanned(c, <<>>)
  /\ answer' = [answer EXCEPT ![c] = "none"]
  /\ UNCHANGED <<source, edits, snapshots, workspaces, want, key, given>>

\* _hash_tree and copytree take one file after the other.
ScanFile(c) ==
  /\ pc[c] \in {"hashing", "copying"} /\ Len(scan[c]) < NumFiles
  /\ Scanned(c, Append(scan[c], source[Len(scan[c]) + 1]))
  /\ UNCHANGED <<source, edits, snapshots, workspaces, pc, want, key, answer, given>>

\* Mutation: a directory is hashed before all its files are read.
EndHashEarly(c) ==
  /\ pc[c] = "hashing"
  /\ want' = [want EXCEPT ![c] = scan[c]]
  /\ GoTo(c, "copying") /\ Scanned(c, <<>>)
  /\ UNCHANGED <<source, edits, snapshots, workspaces, key, answer, given>>

EndHash(c) ==
  /\ pc[c] = "hashing" /\ Len(scan[c]) = NumFiles
  /\ \/ /\ snapshots[scan[c]] # NoDir
        /\ Finish(c, LoadSnapshot(scan[c]))
     \/ /\ snapshots[scan[c]] = NoDir
        /\ want' = [want EXCEPT ![c] = scan[c]]
        /\ GoTo(c, "copying") /\ Scanned(c, <<>>)
        /\ UNCHANGED <<key, answer>>
  /\ UNCHANGED <<source, edits, snapshots, workspaces, given>>

\* Mutation: the copy is taken for what was hashed.
EndCopyUnchecked(c) ==
  /\ pc[c] = "copying" /\ Len(scan[c]) = NumFiles
  /\ GoTo(c, "renaming")
  /\ UNCHANGED <<source, edits, snapshots, workspaces, scan, want, key, answer, given>>

\* The copy is hashed too, and must be what was hashed before.
EndCopy(c) ==
  /\ pc[c] = "copying" /\ Len(scan[c]) = NumFiles
  /\ \/ scan[c] # want[c] /\ Finish(c, "changed")
     \/ scan[c] = want[c] /\ GoTo(c, "renaming") /\ UNCHANGED <<scan, want, key, answer>>
  /\ UNCHANGED <<source, edits, snapshots, workspaces, given>>

\* The rename meets a directory: only EEXIST is taken for a lost race.
LoseRename(c, result) ==
  \E error \in RenameErrors : Finish(c, IF error = "EEXIST" THEN result ELSE "oserror")

RenameSnapshot(c) ==
  LET h == want[c]
  IN /\ pc[c] = "renaming" /\ key[c] = NoKey
     /\ \/ /\ snapshots[h] = NoDir
           /\ snapshots' = [snapshots EXCEPT ![h] = [tree |-> scan[c], sealed |-> FALSE]]
           /\ GoTo(c, "sealing")
           /\ UNCHANGED <<scan, want, key, answer>>
        \/ /\ snapshots[h] # NoDir
           /\ LoseRename(c, LoadSnapshot(h))
           /\ UNCHANGED snapshots
     /\ UNCHANGED <<source, edits, workspaces, given>>

\* The files lose their write permission after they have their name.
SealSnapshot(c) ==
  /\ pc[c] = "sealing"
  /\ snapshots' = [snapshots EXCEPT ![want[c]].sealed = TRUE]
  /\ Finish(c, LoadSnapshot(want[c]))
  /\ UNCHANGED <<source, edits, workspaces, given>>

\* Mutation: whoever names a workspace gets it, for any snapshot.
LoadWorkspaceOfKey(k, h) == "workspace"

\* _load_workspace: the marker must name the snapshot the caller asks for.
LoadWorkspace(k, h) == IF workspaces[k].base = h THEN "workspace" ELSE "conflict"

Give(c, k, h, result) ==
  /\ Finish(c, result)
  /\ given' = IF result = "workspace" THEN given \union {[key |-> k, snapshot |-> h]} ELSE given

StartWorkspace(c) ==
  /\ pc[c] = "idle"
  /\ \E k \in Keys, h \in Trees :
       \/ LoadSnapshot(h) # "snapshot" /\ Finish(c, LoadSnapshot(h)) /\ UNCHANGED given
       \/ /\ LoadSnapshot(h) = "snapshot" /\ workspaces[k] # NoDir
          /\ Give(c, k, h, LoadWorkspace(k, h))
       \/ /\ LoadSnapshot(h) = "snapshot" /\ workspaces[k] = NoDir
          /\ want' = [want EXCEPT ![c] = h] /\ key' = [key EXCEPT ![c] = k]
          /\ answer' = [answer EXCEPT ![c] = "none"]
          /\ GoTo(c, "renaming") /\ Scanned(c, snapshots[h].tree)
          /\ UNCHANGED given
  /\ UNCHANGED <<source, edits, snapshots, workspaces>>

\* Mutation: an existing directory is replaced.
ReplaceWorkspace(c) ==
  /\ pc[c] = "renaming" /\ key[c] # NoKey
  /\ workspaces' = [workspaces EXCEPT ![key[c]] = [base |-> want[c], code |-> scan[c]]]
  /\ Give(c, key[c], want[c], "workspace")
  /\ UNCHANGED <<source, edits, snapshots>>

RenameWorkspace(c) ==
  LET k == key[c]
      h == want[c]
  IN /\ pc[c] = "renaming" /\ k # NoKey
     /\ \/ /\ workspaces[k] = NoDir
           /\ workspaces' = [workspaces EXCEPT ![k] = [base |-> h, code |-> scan[c]]]
           /\ Give(c, k, h, "workspace")
        \/ /\ workspaces[k] # NoDir
           /\ \E error \in RenameErrors :
                Give(c, k, h, IF error = "EEXIST" THEN LoadWorkspace(k, h) ELSE "oserror")
           /\ UNCHANGED workspaces
     /\ UNCHANGED <<source, edits, snapshots>>

\* A dev worker has the code of its workspace mounted and writes it.
EditCode(k) ==
  /\ workspaces[k] # NoDir
  /\ \E r \in given : r.key = k
  /\ \E f \in 1..NumFiles, v \in Versions : workspaces' = [workspaces EXCEPT ![k].code[f] = v]
  /\ UNCHANGED <<source, edits, snapshots, calls, given>>

\* A creator dies; what it has not renamed stays in a directory nobody looks at.
Die(c) ==
  /\ pc[c] # "idle"
  /\ Finish(c, "none")
  /\ UNCHANGED <<source, edits, snapshots, workspaces, given>>

Create(c) == \/ StartSnapshot(c) \/ ScanFile(c) \/ EndHash(c) \/ EndCopy(c)
             \/ RenameSnapshot(c) \/ SealSnapshot(c)
             \/ StartWorkspace(c) \/ RenameWorkspace(c) \/ Die(c)

Next == \/ EditSource
        \/ \E c \in Creators : Create(c)
        \/ \E k \in Keys : EditCode(k)

Spec == Init /\ [][Next]_vars
-----------------------------------------------------------------------------
\* Every variable holds a value of its type.
TypeOK ==
  /\ source \in Trees /\ edits \in 0..MaxEdits
  /\ snapshots \in [Trees -> [tree : Trees, sealed : BOOLEAN] \union {NoDir}]
  /\ workspaces \in [Keys -> [base : Trees, code : Trees] \union {NoDir}]
  /\ pc \in [Creators -> {"idle", "hashing", "copying", "renaming", "sealing"}]
  /\ \A c \in Creators : /\ scan[c] \in Seq(Versions) /\ Len(scan[c]) <= NumFiles
                         /\ want[c] \in Trees \union {NoTree}
                         /\ key[c] \in Keys \union {NoKey}
  /\ answer \in [Creators -> {"none", "snapshot", "workspace", "missing", "altered",
                              "changed", "conflict", "oserror"}]
  /\ given \subseteq [key : Keys, snapshot : Trees]

\* Files saved while the source is hashed or copied never end up under the hash
\* of another tree, whichever creator wins: loading a snapshot cannot fail.  A tree
\* both passes mixed alike is under its own hash, although the source never was it.
SnapshotIsExact == \A h \in Trees : snapshots[h] # NoDir => snapshots[h].tree = h

\* Creators that race for one key with different snapshots never get each other's
\* workspace: all that were given it asked for the snapshot it was copied from.
WorkspaceIsItsSnapshot ==
  \A r \in given : workspaces[r.key] # NoDir /\ workspaces[r.key].base = r.snapshot

\* Once a worker may have written in a workspace, no creator that repeats the call,
\* loses its race late or dies takes a file of it away.
WorkIsNeverLost ==
  [][\A r \in given : calls' # calls => workspaces'[r.key] = workspaces[r.key]]_vars
=============================================================================
