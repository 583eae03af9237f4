---------------------------- MODULE WorkspaceProofs ----------------------------
(***************************************************************************)
(* Snapshots and workspaces for any number of creators, keys and files.    *)
(*                                                                         *)
(* What is about to be renamed is what its name says: the copy of a        *)
(* snapshot was compared with its hash, and the copy for a workspace comes *)
(* from a snapshot that was just loaded.                                   *)
(***************************************************************************)
EXTENDS Workspaces, TLAPS

Steps == {"idle", "hashing", "copying", "renaming", "sealing"}
Results == {"none", "snapshot", "workspace", "missing", "altered", "changed", "conflict", "oserror"}

CallTypes ==
  /\ pc \in [Creators -> Steps]
  /\ scan \in [Creators -> Seq(Versions)]
  /\ want \in [Creators -> Trees \union {NoTree}]
  /\ key \in [Creators -> Keys \union {NoKey}]
  /\ answer \in [Creators -> Results]

DiskTypes ==
  /\ source \in Trees /\ edits \in 0..MaxEdits
  /\ snapshots \in [Trees -> [tree : Trees, sealed : BOOLEAN] \union {NoDir}]
  /\ workspaces \in [Keys -> [base : Trees, code : Trees] \union {NoDir}]
  /\ given \subseteq [key : Keys, snapshot : Trees]

Short == \A c \in Creators : Len(scan[c]) <= NumFiles

Named ==
  \A c \in Creators :
    /\ pc[c] \in {"copying", "renaming", "sealing"} => want[c] \in Trees
    /\ pc[c] = "renaming" => scan[c] = want[c]
    /\ pc[c] = "sealing" => snapshots[want[c]] # NoDir

Inv == /\ CallTypes /\ DiskTypes /\ Short /\ Named
       /\ SnapshotIsExact /\ WorkspaceIsItsSnapshot
-----------------------------------------------------------------------------
LEMMA TreesAreSequences ==
  /\ \A t \in Trees : t \in Seq(Versions) /\ Len(t) = NumFiles
  /\ \A s \in Seq(Versions) : Len(s) = NumFiles => s \in Trees
  BY SizeAssumption DEF Trees

LEMMA InitInv == Init => Inv
  BY SizeAssumption
  DEF Init, Inv, CallTypes, DiskTypes, Short, Named, Steps, Results, SnapshotIsExact,
      WorkspaceIsItsSnapshot

\* A call that ends keeps what it found on the disk.
LEMMA FinishInv ==
  ASSUME Inv, NEW c \in Creators, NEW result \in Results, Finish(c, result),
         UNCHANGED <<source, edits, snapshots, workspaces, given>>
  PROVE  Inv'
  <1>1. /\ pc' = [pc EXCEPT ![c] = "idle"] /\ scan' = [scan EXCEPT ![c] = <<>>]
        /\ want' = [want EXCEPT ![c] = NoTree] /\ key' = [key EXCEPT ![c] = NoKey]
        /\ answer' = [answer EXCEPT ![c] = result]
    BY DEF Finish, GoTo, Scanned
  <1>2. CallTypes'
    BY <1>1 DEF Inv, CallTypes, Steps
  <1>3. DiskTypes' /\ SnapshotIsExact' /\ WorkspaceIsItsSnapshot'
    BY DEF Inv, DiskTypes, SnapshotIsExact, WorkspaceIsItsSnapshot
  <1>4. Short'
    BY <1>1, SizeAssumption DEF Inv, CallTypes, Short
  <1>5. Named'
    BY <1>1 DEF Inv, CallTypes, Named
  <1>. QED
    BY <1>2, <1>3, <1>4, <1>5 DEF Inv

LEMMA LoadResult == \A h : LoadSnapshot(h) \in Results
  BY DEF LoadSnapshot, Results

\* Steps of a call that leave the disk alone.
LEMMA MoveInv ==
  ASSUME Inv, NEW c \in Creators, NEW step \in Steps, NEW files \in Seq(Versions),
         NEW tree \in Trees \union {NoTree}, NEW k \in Keys \union {NoKey},
         NEW result \in Results,
         pc' = [pc EXCEPT ![c] = step], scan' = [scan EXCEPT ![c] = files],
         want' = [want EXCEPT ![c] = tree], key' = [key EXCEPT ![c] = k],
         answer' = [answer EXCEPT ![c] = result],
         UNCHANGED <<source, edits, snapshots, workspaces, given>>,
         Len(files) <= NumFiles,
         step # "sealing",
         step \in {"copying", "renaming"} => tree \in Trees,
         step = "renaming" => files = tree
  PROVE  Inv'
  <1>1. CallTypes'
    BY DEF Inv, CallTypes
  <1>2. DiskTypes' /\ SnapshotIsExact' /\ WorkspaceIsItsSnapshot'
    BY DEF Inv, DiskTypes, SnapshotIsExact, WorkspaceIsItsSnapshot
  <1>3. Short'
    BY DEF Inv, CallTypes, Short
  <1>4. Named'
    BY DEF Inv, CallTypes, Named
  <1>. QED
    BY <1>1, <1>2, <1>3, <1>4 DEF Inv

LEMMA ScanInv ==
  ASSUME Inv, NEW c \in Creators, ScanFile(c)
  PROVE  Inv'
  <1>. DEFINE files == Append(scan[c], source[Len(scan[c]) + 1])
  <1>1. scan[c] \in Seq(Versions) /\ Len(scan[c]) < NumFiles
    BY DEF ScanFile, Inv, CallTypes
  <1>2. source[Len(scan[c]) + 1] \in Versions
    BY <1>1, SizeAssumption DEF Inv, DiskTypes, Trees
  <1>3. files \in Seq(Versions) /\ Len(files) <= NumFiles
    BY <1>1, <1>2, SizeAssumption
  <1>. HIDE DEF files
  <1>4. scan' = [scan EXCEPT ![c] = files] /\ pc[c] \in {"hashing", "copying"}
        /\ UNCHANGED <<source, edits, snapshots, workspaces, pc, want, key, answer, given>>
    BY DEF ScanFile, Scanned, files
  <1>5. CallTypes'
    BY <1>3, <1>4 DEF Inv, CallTypes
  <1>6. DiskTypes' /\ SnapshotIsExact' /\ WorkspaceIsItsSnapshot'
    BY <1>4 DEF Inv, DiskTypes, SnapshotIsExact, WorkspaceIsItsSnapshot
  <1>7. Short' /\ Named'
    BY <1>3, <1>4 DEF Inv, CallTypes, Short, Named
  <1>. QED
    BY <1>5, <1>6, <1>7 DEF Inv

\* Starting a snapshot, and the two comparisons of hashes.
LEMMA HashInv ==
  ASSUME Inv, NEW c \in Creators, StartSnapshot(c) \/ EndHash(c) \/ EndCopy(c)
  PROVE  Inv'
  <1>1. /\ <<>> \in Seq(Versions) /\ Len(<<>>) <= NumFiles
        /\ scan[c] \in Seq(Versions) /\ Len(scan[c]) <= NumFiles
        /\ want[c] \in Trees \union {NoTree} /\ key[c] \in Keys \union {NoKey}
        /\ answer[c] \in Results
    BY SizeAssumption DEF Inv, CallTypes, Short
  <1>2. /\ scan = [scan EXCEPT ![c] = scan[c]] /\ want = [want EXCEPT ![c] = want[c]]
        /\ key = [key EXCEPT ![c] = key[c]] /\ answer = [answer EXCEPT ![c] = answer[c]]
    BY DEF Inv, CallTypes
  <1>3. "none" \in Results /\ "changed" \in Results
        /\ "hashing" \in Steps /\ "copying" \in Steps /\ "renaming" \in Steps
    BY DEF Results, Steps
  <1>4. CASE StartSnapshot(c)
    <2>1. pc' = [pc EXCEPT ![c] = "hashing"] /\ scan' = [scan EXCEPT ![c] = <<>>]
          /\ want' = [want EXCEPT ![c] = want[c]] /\ key' = [key EXCEPT ![c] = key[c]]
          /\ answer' = [answer EXCEPT ![c] = "none"]
          /\ UNCHANGED <<source, edits, snapshots, workspaces, given>>
      BY <1>2, <1>4 DEF StartSnapshot, GoTo, Scanned
    <2>. QED
      BY <1>1, <1>3, <2>1, MoveInv
  <1>5. CASE EndHash(c)
    <2>1. scan[c] \in Trees
      BY <1>1, <1>5, TreesAreSequences DEF EndHash
    <2>2. CASE Finish(c, LoadSnapshot(scan[c]))
      BY <1>5, <2>2, LoadResult, FinishInv DEF EndHash
    <2>3. CASE /\ want' = [want EXCEPT ![c] = scan[c]] /\ GoTo(c, "copying") /\ Scanned(c, <<>>)
               /\ UNCHANGED <<key, answer>>
      <3>1. pc' = [pc EXCEPT ![c] = "copying"] /\ scan' = [scan EXCEPT ![c] = <<>>]
            /\ key' = [key EXCEPT ![c] = key[c]] /\ answer' = [answer EXCEPT ![c] = answer[c]]
            /\ UNCHANGED <<source, edits, snapshots, workspaces, given>>
        BY <1>2, <1>5, <2>3 DEF EndHash, GoTo, Scanned
      <3>. QED
        BY <1>1, <1>3, <2>1, <2>3, <3>1, MoveInv
    <2>. QED
      BY <1>5, <2>2, <2>3 DEF EndHash
  <1>6. CASE EndCopy(c)
    <2>1. CASE Finish(c, "changed")
      BY <1>3, <1>6, <2>1, FinishInv DEF EndCopy
    <2>2. CASE scan[c] = want[c] /\ GoTo(c, "renaming") /\ UNCHANGED <<scan, want, key, answer>>
      <3>1. pc' = [pc EXCEPT ![c] = "renaming"]
            /\ UNCHANGED <<source, edits, snapshots, workspaces, given>>
        BY <1>6, <2>2 DEF EndCopy, GoTo
      <3>2. want[c] \in Trees
        BY <1>6 DEF EndCopy, Inv, Named
      <3>3. CallTypes' /\ Short'
        BY <1>3, <2>2, <3>1 DEF Inv, CallTypes, Short
      <3>4. DiskTypes' /\ SnapshotIsExact' /\ WorkspaceIsItsSnapshot'
        BY <3>1 DEF Inv, DiskTypes, SnapshotIsExact, WorkspaceIsItsSnapshot
      <3>5. Named'
        BY <2>2, <3>1, <3>2 DEF Inv, CallTypes, Named
      <3>. QED
        BY <3>3, <3>4, <3>5 DEF Inv
    <2>. QED
      BY <1>6, <2>1, <2>2 DEF EndCopy
  <1>. QED
    BY <1>4, <1>5, <1>6

LEMMA RenameSnapshotInv ==
  ASSUME Inv, NEW c \in Creators, RenameSnapshot(c)
  PROVE  Inv'
  <1>1. /\ pc[c] = "renaming" /\ want[c] \in Trees /\ scan[c] = want[c]
        /\ UNCHANGED <<source, edits, workspaces, given>>
    BY DEF RenameSnapshot, Inv, Named
  <1>2. CASE LoseRename(c, LoadSnapshot(want[c])) /\ UNCHANGED snapshots
    <2>1. \E result \in Results : Finish(c, result)
      BY <1>2, LoadResult DEF LoseRename, Results
    <2>. QED
      BY <1>1, <1>2, <2>1, FinishInv
  <1>3. CASE /\ snapshots[want[c]] = NoDir
             /\ snapshots' = [snapshots EXCEPT ![want[c]] = [tree |-> scan[c], sealed |-> FALSE]]
             /\ GoTo(c, "sealing") /\ UNCHANGED <<scan, want, key, answer>>
    <2>. DEFINE dir == [tree |-> scan[c], sealed |-> FALSE]
    <2>1. dir \in [tree : Trees, sealed : BOOLEAN] /\ dir.tree = want[c] /\ dir # NoDir
      <3>1. scan[c] \in Trees /\ FALSE \in BOOLEAN
        BY <1>1
      <3>2. dir \in [tree : Trees, sealed : BOOLEAN]
        BY <3>1
      <3>. QED
        BY <1>1, <3>2, NamesAssumption
    <2>. HIDE DEF dir
    <2>2. snapshots' = [snapshots EXCEPT ![want[c]] = dir]
      BY <1>3 DEF dir
    <2>3. CallTypes' /\ Short'
      BY <1>3 DEF Inv, CallTypes, Short, GoTo, Steps
    <2>4. DiskTypes'
      BY <1>1, <2>1, <2>2 DEF Inv, DiskTypes
    <2>5. snapshots'[want[c]] = dir /\ \A h \in Trees : h # want[c] => snapshots'[h] = snapshots[h]
      BY <1>1, <2>2 DEF Inv, DiskTypes
    <2>6. SnapshotIsExact'
      BY <2>1, <2>5 DEF Inv, SnapshotIsExact
    <2>7. WorkspaceIsItsSnapshot'
      BY <1>1 DEF Inv, WorkspaceIsItsSnapshot
    <2>8. pc' = [pc EXCEPT ![c] = "sealing"]
      BY <1>3 DEF GoTo
    <2>9. Named'
      <3>1. \A d \in Creators : want'[d] = want[d] /\ scan'[d] = scan[d]
        BY <1>3
      <3>2. pc'[c] = "sealing" /\ \A d \in Creators \ {c} : pc'[d] = pc[d]
        BY <2>8 DEF Inv, CallTypes
      <3>3. \A h \in Trees : snapshots[h] # NoDir => snapshots'[h] # NoDir
        BY <2>1, <2>5
      <3>. QED
        BY <1>1, <2>1, <2>5, <3>1, <3>2, <3>3 DEF Inv, Named
    <2>. QED
      BY <2>3, <2>4, <2>6, <2>7, <2>9 DEF Inv
  <1>. QED
    BY <1>2, <1>3 DEF RenameSnapshot

LEMMA SealInv ==
  ASSUME Inv, NEW c \in Creators, SealSnapshot(c)
  PROVE  Inv'
  <1>1. /\ want[c] \in Trees /\ snapshots[want[c]] # NoDir
        /\ snapshots[want[c]] \in [tree : Trees, sealed : BOOLEAN]
    BY DEF SealSnapshot, Inv, Named, DiskTypes
  <1>. DEFINE dir == [snapshots[want[c]] EXCEPT !.sealed = TRUE]
  <1>2. dir \in [tree : Trees, sealed : BOOLEAN] /\ dir.tree = snapshots[want[c]].tree /\ dir # NoDir
    BY <1>1, NamesAssumption
  <1>3. snapshots' = [snapshots EXCEPT ![want[c]] = dir]
    BY DEF SealSnapshot
  <1>. HIDE DEF dir
  <1>4. snapshots'[want[c]] = dir /\ \A h \in Trees : h # want[c] => snapshots'[h] = snapshots[h]
    BY <1>1, <1>3 DEF Inv, DiskTypes
  <1>5. PICK result \in Results : Finish(c, result)
    BY LoadResult DEF SealSnapshot
  <1>6. UNCHANGED <<source, edits, workspaces, given>>
    BY DEF SealSnapshot
  <1>7. /\ pc' = [pc EXCEPT ![c] = "idle"] /\ scan' = [scan EXCEPT ![c] = <<>>]
        /\ want' = [want EXCEPT ![c] = NoTree] /\ key' = [key EXCEPT ![c] = NoKey]
        /\ answer' = [answer EXCEPT ![c] = result]
    BY <1>5 DEF Finish, GoTo, Scanned
  <1>8. CallTypes' /\ Short'
    BY <1>7, SizeAssumption DEF Inv, CallTypes, Short, Steps
  <1>9. DiskTypes'
    BY <1>1, <1>2, <1>3, <1>6 DEF Inv, DiskTypes
  <1>10. SnapshotIsExact' /\ WorkspaceIsItsSnapshot'
    BY <1>1, <1>2, <1>4, <1>6 DEF Inv, SnapshotIsExact, WorkspaceIsItsSnapshot
  <1>11. Named'
    BY <1>2, <1>4, <1>7 DEF Inv, CallTypes, Named
  <1>. QED
    BY <1>8, <1>9, <1>10, <1>11 DEF Inv

LEMMA LoadWorkspaceResult == \A k, h : LoadWorkspace(k, h) \in {"workspace", "conflict"}
  BY DEF LoadWorkspace

\* A call that ends with a workspace hands out one copied from its snapshot.
LEMMA GiveInv ==
  ASSUME Inv, NEW c \in Creators, NEW k \in Keys, NEW h \in Trees, NEW result \in Results,
         Give(c, k, h, result),
         UNCHANGED <<source, edits, snapshots>>,
         DiskTypes',
         \A r \in given : workspaces'[r.key] # NoDir /\ workspaces'[r.key].base = r.snapshot,
         result = "workspace" => workspaces'[k] # NoDir /\ workspaces'[k].base = h
  PROVE  Inv'
  <1>1. /\ pc' = [pc EXCEPT ![c] = "idle"] /\ scan' = [scan EXCEPT ![c] = <<>>]
        /\ want' = [want EXCEPT ![c] = NoTree] /\ key' = [key EXCEPT ![c] = NoKey]
        /\ answer' = [answer EXCEPT ![c] = result]
    BY DEF Give, Finish, GoTo, Scanned
  <1>2. CallTypes'
    BY <1>1 DEF Inv, CallTypes, Steps
  <1>3. SnapshotIsExact'
    BY DEF Inv, SnapshotIsExact
  <1>4. WorkspaceIsItsSnapshot'
    BY DEF Give, WorkspaceIsItsSnapshot
  <1>5. Short'
    BY <1>1, SizeAssumption DEF Inv, CallTypes, Short
  <1>6. Named'
    BY <1>1 DEF Inv, CallTypes, Named
  <1>. QED
    BY <1>2, <1>3, <1>4, <1>5, <1>6 DEF Inv

LEMMA StartWorkspaceInv ==
  ASSUME Inv, NEW c \in Creators, StartWorkspace(c)
  PROVE  Inv'
  <1>1. UNCHANGED <<source, edits, snapshots, workspaces>>
    BY DEF StartWorkspace
  <1>2. PICK k \in Keys, h \in Trees :
          \/ LoadSnapshot(h) # "snapshot" /\ Finish(c, LoadSnapshot(h)) /\ UNCHANGED given
          \/ /\ LoadSnapshot(h) = "snapshot" /\ workspaces[k] # NoDir
             /\ Give(c, k, h, LoadWorkspace(k, h))
          \/ /\ LoadSnapshot(h) = "snapshot" /\ workspaces[k] = NoDir
             /\ want' = [want EXCEPT ![c] = h] /\ key' = [key EXCEPT ![c] = k]
             /\ answer' = [answer EXCEPT ![c] = "none"]
             /\ GoTo(c, "renaming") /\ Scanned(c, snapshots[h].tree)
             /\ UNCHANGED given
    BY DEF StartWorkspace
  <1>3. CASE Finish(c, LoadSnapshot(h)) /\ UNCHANGED given
    BY <1>1, <1>3, LoadResult, FinishInv
  <1>4. CASE workspaces[k] # NoDir /\ Give(c, k, h, LoadWorkspace(k, h))
    <2>1. LoadWorkspace(k, h) \in Results
      BY LoadWorkspaceResult DEF Results
    <2>2. DiskTypes'
      BY <1>1, <1>4 DEF Inv, DiskTypes, Give
    <2>3. \A r \in given : workspaces'[r.key] # NoDir /\ workspaces'[r.key].base = r.snapshot
      BY <1>1 DEF Inv, WorkspaceIsItsSnapshot
    <2>4. LoadWorkspace(k, h) = "workspace" => workspaces'[k] # NoDir /\ workspaces'[k].base = h
      BY <1>1, <1>4 DEF LoadWorkspace
    <2>. QED
      BY <1>1, <1>4, <2>1, <2>2, <2>3, <2>4, GiveInv
  <1>5. CASE /\ LoadSnapshot(h) = "snapshot" /\ workspaces[k] = NoDir
             /\ want' = [want EXCEPT ![c] = h] /\ key' = [key EXCEPT ![c] = k]
             /\ answer' = [answer EXCEPT ![c] = "none"]
             /\ GoTo(c, "renaming") /\ Scanned(c, snapshots[h].tree)
             /\ UNCHANGED given
    <2>1. snapshots[h].tree = h
      BY <1>5 DEF LoadSnapshot
    <2>2. h \in Seq(Versions) /\ Len(h) <= NumFiles
      BY TreesAreSequences, SizeAssumption
    <2>3. "renaming" \in Steps /\ "none" \in Results
      BY DEF Steps, Results
    <2>4. pc' = [pc EXCEPT ![c] = "renaming"] /\ scan' = [scan EXCEPT ![c] = h]
      BY <1>5, <2>1 DEF GoTo, Scanned
    <2>. QED
      BY <1>1, <1>5, <2>2, <2>3, <2>4, MoveInv
  <1>. QED
    BY <1>2, <1>3, <1>4, <1>5

LEMMA RenameWorkspaceInv ==
  ASSUME Inv, NEW c \in Creators, RenameWorkspace(c)
  PROVE  Inv'
  <1>1. /\ pc[c] = "renaming" /\ key[c] \in Keys
        /\ want[c] \in Trees /\ scan[c] = want[c]
        /\ UNCHANGED <<source, edits, snapshots>>
    BY DEF RenameWorkspace, Inv, CallTypes, Named
  <1>2. CASE /\ workspaces[key[c]] = NoDir
             /\ workspaces' = [workspaces EXCEPT ![key[c]] = [base |-> want[c], code |-> scan[c]]]
             /\ Give(c, key[c], want[c], "workspace")
    <2>. DEFINE dir == [base |-> want[c], code |-> scan[c]]
    <2>1. dir \in [base : Trees, code : Trees] /\ dir.base = want[c]
      BY <1>1
    <2>2. dir # NoDir
      BY <2>1, NamesAssumption
    <2>. HIDE DEF dir
    <2>3. workspaces' = [workspaces EXCEPT ![key[c]] = dir]
      BY <1>2 DEF dir
    <2>4. workspaces'[key[c]] = dir /\ \A k \in Keys : k # key[c] => workspaces'[k] = workspaces[k]
      BY <1>1, <2>3 DEF Inv, DiskTypes
    <2>5. given' = given \union {[key |-> key[c], snapshot |-> want[c]]}
      BY <1>2 DEF Give
    <2>6. DiskTypes'
      BY <1>1, <2>1, <2>3, <2>5 DEF Inv, DiskTypes
    <2>7. \A r \in given : workspaces'[r.key] # NoDir /\ workspaces'[r.key].base = r.snapshot
      BY <1>2, <2>4 DEF Inv, DiskTypes, WorkspaceIsItsSnapshot
    <2>8. "workspace" \in Results
      BY DEF Results
    <2>. QED
      BY <1>1, <1>2, <2>1, <2>2, <2>4, <2>6, <2>7, <2>8, GiveInv
  <1>3. CASE /\ workspaces[key[c]] # NoDir /\ UNCHANGED workspaces
             /\ \E error \in RenameErrors :
                  Give(c, key[c], want[c],
                       IF error = "EEXIST" THEN LoadWorkspace(key[c], want[c]) ELSE "oserror")
    <2>1. PICK error \in RenameErrors :
            Give(c, key[c], want[c],
                 IF error = "EEXIST" THEN LoadWorkspace(key[c], want[c]) ELSE "oserror")
      BY <1>3
    <2>. DEFINE result == IF error = "EEXIST" THEN LoadWorkspace(key[c], want[c]) ELSE "oserror"
    <2>2. result \in Results
      BY LoadWorkspaceResult DEF Results
    <2>3. result = "workspace" => workspaces'[key[c]] # NoDir /\ workspaces'[key[c]].base = want[c]
      BY <1>3 DEF LoadWorkspace
    <2>4. Give(c, key[c], want[c], result)
      BY <2>1
    <2>. HIDE DEF result
    <2>5. DiskTypes'
      BY <1>1, <1>3, <2>4 DEF Inv, DiskTypes, Give
    <2>6. \A r \in given : workspaces'[r.key] # NoDir /\ workspaces'[r.key].base = r.snapshot
      BY <1>3 DEF Inv, WorkspaceIsItsSnapshot
    <2>. QED
      BY <1>1, <2>2, <2>3, <2>4, <2>5, <2>6, GiveInv
  <1>. QED
    BY <1>2, <1>3 DEF RenameWorkspace

LEMMA EditInv ==
  ASSUME Inv, EditSource \/ \E k \in Keys : EditCode(k)
  PROVE  Inv'
  <1>1. CASE EditSource
    <2>1. PICK f \in 1..NumFiles, v \in Versions : source' = [source EXCEPT ![f] = v]
      BY <1>1 DEF EditSource
    <2>2. source' \in Trees /\ edits' \in 0..MaxEdits
      BY <1>1, <2>1, SizeAssumption DEF Inv, DiskTypes, EditSource, Trees
    <2>. QED
      BY <1>1, <2>2 DEF EditSource, Inv, CallTypes, DiskTypes, Short, Named, SnapshotIsExact,
                        WorkspaceIsItsSnapshot, calls
  <1>2. CASE \E k \in Keys : EditCode(k)
    <2>1. PICK k \in Keys, f \in 1..NumFiles, v \in Versions :
            /\ workspaces[k] # NoDir
            /\ workspaces' = [workspaces EXCEPT ![k].code[f] = v]
            /\ UNCHANGED <<source, edits, snapshots, calls, given>>
      BY <1>2 DEF EditCode
    <2>. DEFINE dir == [workspaces[k] EXCEPT !.code[f] = v]
    <2>2. workspaces[k] \in [base : Trees, code : Trees]
      BY <2>1 DEF Inv, DiskTypes
    <2>3. [workspaces[k].code EXCEPT ![f] = v] \in Trees
      BY <2>2 DEF Trees
    <2>4. dir \in [base : Trees, code : Trees] /\ dir.base = workspaces[k].base
      BY <2>2, <2>3
    <2>5. dir # NoDir
      BY <2>4, NamesAssumption
    <2>6. workspaces' = [workspaces EXCEPT ![k] = dir]
      BY <2>1
    <2>. HIDE DEF dir
    <2>7. workspaces'[k] = dir /\ \A j \in Keys : j # k => workspaces'[j] = workspaces[j]
      BY <2>6 DEF Inv, DiskTypes
    <2>8. CallTypes' /\ Short' /\ Named' /\ SnapshotIsExact'
      BY <2>1 DEF Inv, CallTypes, Short, Named, SnapshotIsExact, calls
    <2>9. DiskTypes'
      BY <2>1, <2>4, <2>6 DEF Inv, DiskTypes
    <2>10. WorkspaceIsItsSnapshot'
      BY <2>1, <2>4, <2>5, <2>7 DEF Inv, DiskTypes, WorkspaceIsItsSnapshot
    <2>. QED
      BY <2>8, <2>9, <2>10 DEF Inv
  <1>. QED
    BY <1>1, <1>2

LEMMA DieInv ==
  ASSUME Inv, NEW c \in Creators, Die(c)
  PROVE  Inv'
  <1>1. "none" \in Results
    BY DEF Results
  <1>. QED
    BY <1>1, FinishInv DEF Die

LEMMA StepInv == Inv /\ [Next]_vars => Inv'
  <1>. SUFFICES ASSUME Inv, [Next]_vars PROVE Inv'
    OBVIOUS
  <1>1. CASE UNCHANGED vars
    BY <1>1 DEF vars, calls, Inv, CallTypes, DiskTypes, Short, Named, SnapshotIsExact,
                WorkspaceIsItsSnapshot
  <1>2. CASE EditSource \/ \E k \in Keys : EditCode(k)
    BY <1>2, EditInv
  <1>3. ASSUME NEW c \in Creators, Create(c) PROVE Inv'
    BY <1>3, HashInv, ScanInv, RenameSnapshotInv, SealInv, StartWorkspaceInv,
       RenameWorkspaceInv, DieInv DEF Create
  <1>. QED
    BY <1>1, <1>2, <1>3 DEF Next

LEMMA Invariance == Spec => []Inv
  BY InitInv, StepInv, PTL DEF Spec
-----------------------------------------------------------------------------
\* Every variable keeps its type, whatever the number of creators and of files.
THEOREM TypeCorrect == Spec => []TypeOK
  <1>1. Inv => TypeOK
    BY DEF Inv, CallTypes, DiskTypes, Short, Steps, Results, TypeOK
  <1>. QED
    BY <1>1, Invariance, PTL

\* However the source changes while snapshots are made, each is the tree its hash names.
THEOREM SnapshotsAreExact == Spec => []SnapshotIsExact
  <1>1. Inv => SnapshotIsExact
    BY DEF Inv
  <1>. QED
    BY <1>1, Invariance, PTL

\* Whoever wins a race for a key, a workspace that was handed out was copied from
\* the snapshot its caller asked for.
THEOREM WorkspacesAreTheirSnapshot == Spec => []WorkspaceIsItsSnapshot
  <1>1. Inv => WorkspaceIsItsSnapshot
    BY DEF Inv
  <1>. QED
    BY <1>1, Invariance, PTL

\* A creator only ever takes a name nobody has.
LEMMA CreatorsReplaceNothing ==
  ASSUME Inv, NEW c \in Creators, Create(c), NEW k \in Keys, workspaces[k] # NoDir
  PROVE  workspaces'[k] = workspaces[k]
  <1>1. CASE RenameWorkspace(c)
    BY <1>1 DEF RenameWorkspace, Inv, DiskTypes
  <1>2. CASE ~RenameWorkspace(c)
    BY <1>2 DEF Create, StartSnapshot, ScanFile, EndHash, EndCopy, RenameSnapshot, SealSnapshot,
                StartWorkspace, Die
  <1>. QED
    BY <1>1, <1>2

\* No call takes away what a worker may have written in a workspace it was given.
THEOREM WorkIsKept == Spec => WorkIsNeverLost
  <1>1. Inv /\ [Next]_vars =>
          [\A r \in given : calls' # calls => workspaces'[r.key] = workspaces[r.key]]_vars
    <2>. SUFFICES ASSUME Inv, Next, NEW r \in given, calls' # calls
                  PROVE  workspaces'[r.key] = workspaces[r.key]
      OBVIOUS
    <2>1. r.key \in Keys /\ workspaces[r.key] # NoDir
      BY DEF Inv, DiskTypes, WorkspaceIsItsSnapshot
    <2>2. PICK c \in Creators : Create(c)
      BY DEF Next, EditSource, EditCode
    <2>. QED
      BY <2>1, <2>2, CreatorsReplaceNothing
  <1>. QED
    BY <1>1, Invariance, PTL DEF Spec, WorkIsNeverLost
=============================================================================
