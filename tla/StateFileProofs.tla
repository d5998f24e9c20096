--------------------------- MODULE StateFileProofs ---------------------------
(***************************************************************************)
(* One save at a time is atomic: for every directory and every number of   *)
(* changes, FileInv is an invariant and the state file implements the      *)
(* abstract store.  With two savers neither holds (TLC shows how), so the  *)
(* theorems say that there is one.                                         *)
(***************************************************************************)
EXTENDS StateFile, TLAPS

(* What a file or a new process holds is a state. *)
LEMMA LoadedType == TypeOK /\ FileIsWhole => Loaded \in State
  BY StateFileAssumption DEF TypeOK, FileIsWhole, Loaded, State, New, Part

(* A broken file is none of the states. *)
LEMMA BrokenIsNoState == Broken \notin State
  BY StateFileAssumption DEF State, Part

(* Before the first save. *)
LEMMA FileInit == Init => FileInv
  BY StateFileAssumption
  DEF Init, FileInv, TypeOK, FileIsWhole, State, New, Part, Loaded, AtMost, ReadSoFar

(* What does not touch the state file does not change what a restart       *)
(* would load.                                                             *)
LEMMA SameFile ==
    ASSUME FileIsWhole, path' = path, path # None => disk'[path] = disk[path]
    PROVE  Loaded' = Loaded /\ FileIsWhole'
  BY DEF FileIsWhole, Loaded

(* The running state moves on. *)
LEMMA ChangeStep ==
    ASSUME FileInv, NEW x \in Part, Change(x)
    PROVE  FileInv' /\ Loaded' = Loaded
  <1> USE DEF FileInv, Change
  <1>1. live' \in State /\ AtMost(live, live')
    BY StateFileAssumption DEF TypeOK, State, AtMost
  <1>2. Loaded' = Loaded /\ FileIsWhole'
    BY SameFile
  <1>3. TypeOK'
    BY <1>1 DEF TypeOK
  <1>4. Loaded \in State /\ live \in State /\ since \in [Saver -> State] /\ image \in [Saver -> State]
    BY LoadedType DEF TypeOK
  <1>5. AtMost(Loaded, live')
    BY <1>1, <1>4 DEF AtMost, State
  <1>6. QED
    BY <1>1, <1>2, <1>3, <1>4, <1>5 DEF AtMost, State, ReadSoFar

(* Reading the two parts: each is taken between the request and now. *)
LEMMA SnapshotStep ==
    ASSUME FileInv, NEW s \in Saver, SnapshotKeys(s) \/ SnapshotBlocks(s)
    PROVE  FileInv' /\ Loaded' = Loaded
  <1> USE DEF FileInv
  <1>1. /\ UNCHANGED <<up, live, tmp, path, disk, fd>> /\ up
        /\ Loaded' = Loaded /\ FileIsWhole'
    BY SameFile DEF SnapshotKeys, SnapshotBlocks, At
  <1>2. /\ Loaded \in State /\ live \in State
        /\ since \in [Saver -> State] /\ image \in [Saver -> State]
        /\ pc \in [Saver -> {"idle", "keys", "built", "writing", "written", "cleanup"}]
    BY LoadedType DEF TypeOK
  <1>3. CASE SnapshotKeys(s)
    <2>1. /\ pc[s] = "idle" /\ pc' = [pc EXCEPT ![s] = "keys"]
          /\ image' = [image EXCEPT ![s]["keys"] = live["keys"]]
          /\ since' = [since EXCEPT ![s] = live]
      BY <1>3 DEF SnapshotKeys, At
    <2>2. /\ image' \in [Saver -> State] /\ image'[s]["keys"] = live["keys"]
          /\ \A q \in Saver \ {s} : image'[q] = image[q]
      BY <1>2, <2>1 DEF State, Part
    <2>3. TypeOK'
      BY <1>1, <1>2, <2>1, <2>2 DEF TypeOK
    <2>4. \A x \in Part : live[x] <= live[x]
      BY <1>2 DEF State
    <2>5. QED
      BY <1>1, <1>2, <2>1, <2>2, <2>3, <2>4 DEF ReadSoFar, AtMost, Part
  <1>4. CASE SnapshotBlocks(s)
    <2>1. /\ pc[s] = "keys" /\ pc' = [pc EXCEPT ![s] = "built"]
          /\ image' = [image EXCEPT ![s]["blocks"] = live["blocks"]]
          /\ since' = since
      BY <1>4 DEF SnapshotBlocks, At
    <2>2. /\ image' \in [Saver -> State] /\ image'[s]["blocks"] = live["blocks"]
          /\ image'[s]["keys"] = image[s]["keys"]
          /\ \A q \in Saver \ {s} : image'[q] = image[q]
      BY <1>2, <2>1 DEF State, Part
    <2>3. TypeOK'
      BY <1>1, <1>2, <2>1, <2>2 DEF TypeOK
    <2>4. live["blocks"] <= live["blocks"] /\ since[s]["blocks"] <= live["blocks"]
      BY <1>2, <2>1 DEF State, AtMost, Part
    <2>5. QED
      BY <1>1, <1>2, <2>1, <2>2, <2>3, <2>4 DEF ReadSoFar, AtMost, Part
  <1>5. QED
    BY <1>3, <1>4

(* Writing the temporary file leaves the state file alone: the name of the *)
(* one is not the name of the other.                                       *)
LEMMA WriteStep ==
    ASSUME FileInv, NEW s, Saver = {s}, OpenTmp(s) \/ WriteTmp(s) \/ WriteFails(s)
    PROVE  FileInv' /\ Loaded' = Loaded
  <1> USE DEF FileInv
  <1>1. /\ UNCHANGED <<up, live, path, image, since>> /\ up /\ s \in Saver
        /\ pc \in [Saver -> {"idle", "keys", "built", "writing", "written", "cleanup"}]
        /\ disk \in [Inode -> State \cup {Broken}] /\ fd \in [Saver -> Inode \cup {None}]
        /\ image \in [Saver -> State]
    BY DEF OpenTmp, WriteTmp, WriteFails, At, TypeOK
  <1>2. CASE OpenTmp(s)
    <2>1. PICK i \in Inode :
              /\ IF tmp = None THEN Unused(i) ELSE i = tmp
              /\ tmp' = i /\ fd' = [fd EXCEPT ![s] = i]
              /\ disk' = [disk EXCEPT ![i] = Broken]
              /\ pc[s] = "built" /\ pc' = [pc EXCEPT ![s] = "writing"]
      BY <1>2 DEF OpenTmp, At
    <2>2. i # path /\ i # None
      BY <2>1, StateFileAssumption DEF Unused
    <2>3. Loaded' = Loaded /\ FileIsWhole'
      BY <1>1, <2>1, <2>2, SameFile
    <2>4. TypeOK'
      BY <1>1, <2>1 DEF TypeOK
    <2>5. QED
      BY <1>1, <2>1, <2>2, <2>3, <2>4 DEF ReadSoFar
  <1>3. CASE WriteTmp(s)
    <2>1. /\ pc[s] = "writing" /\ pc' = [pc EXCEPT ![s] = "written"]
          /\ tmp' = tmp /\ fd' = [fd EXCEPT ![s] = None]
          /\ fd[s] = tmp /\ fd[s] # None /\ tmp # path /\ tmp \in Inode
      BY <1>1, <1>3 DEF WriteTmp, At
    <2>2. PICK c \in {image[s], Broken} :
              /\ disk' = [disk EXCEPT ![tmp] = c]
              /\ disk[tmp] = Broken => c = image[s]
      BY <1>1, <1>3, <2>1 DEF WriteTmp, Alone
    <2>3. Loaded' = Loaded /\ FileIsWhole'
      BY <1>1, <2>1, <2>2, SameFile
    <2>4. TypeOK'
      BY <1>1, <2>1, <2>2 DEF TypeOK
    <2>5. c = image[s]
      BY <2>1, <2>2
    <2>6. QED
      BY <1>1, <2>1, <2>2, <2>3, <2>4, <2>5 DEF ReadSoFar
  <1>4. CASE WriteFails(s)
    <2>1. /\ pc[s] = "writing" /\ pc' = [pc EXCEPT ![s] = "idle"]
          /\ tmp' = tmp /\ disk' = disk /\ fd' = [fd EXCEPT ![s] = None]
      BY <1>4 DEF WriteFails, At
    <2>2. Loaded' = Loaded /\ FileIsWhole' /\ TypeOK'
      BY <1>1, <2>1, SameFile DEF TypeOK
    <2>3. QED
      BY <1>1, <2>1, <2>2 DEF ReadSoFar
  <1>5. QED
    BY <1>2, <1>3, <1>4

(* The moving of the name: what the file held before is replaced by the    *)
(* image, which lies between it and the present state.                     *)
LEMMA RenameStep ==
    ASSUME FileInv, NEW s, Saver = {s}, RenameTmp(s)
    PROVE  /\ FileInv' /\ live' = live /\ up' = up
           /\ Loaded' = image[s]
           /\ AtMost(Loaded, image[s]) /\ AtMost(since[s], image[s])
           /\ AtMost(image[s], live)
  <1> USE DEF FileInv
  <1>1. /\ pc[s] = "written" /\ pc' = [pc EXCEPT ![s] = "idle"] /\ up
        /\ tmp # None /\ path' = tmp /\ tmp' = None /\ tmp # path
        /\ disk' = [i \in Inode |-> IF i = path THEN Broken ELSE disk[i]]
        /\ UNCHANGED <<up, live, image, since, fd>> /\ s \in Saver
    BY DEF RenameTmp, At
  <1>2. /\ Loaded \in State /\ live \in State /\ tmp \in Inode
        /\ since[s] \in State /\ image[s] \in State
    BY <1>1, LoadedType DEF TypeOK
  <1>3. /\ AtMost(since[s], image[s]) /\ AtMost(image[s], live)
        /\ AtMost(Loaded, since[s]) /\ disk[tmp] = image[s]
    BY <1>1 DEF AtMost, ReadSoFar
  <1>4. AtMost(Loaded, image[s])
    BY <1>2, <1>3 DEF AtMost, State
  <1>5. Loaded' = image[s] /\ FileIsWhole'
    BY <1>1, <1>2, <1>3, BrokenIsNoState DEF Loaded, FileIsWhole
  <1>6. TypeOK'
    BY <1>1, <1>2 DEF TypeOK
  <1>7. pc'[s] = "idle"
    BY <1>1 DEF TypeOK
  <1>8. FileInv'
    BY <1>1, <1>2, <1>3, <1>4, <1>5, <1>6, <1>7 DEF ReadSoFar, TypeOK
  <1>9. QED
    BY <1>1, <1>3, <1>4, <1>5, <1>8

(* A rename that fails, and the cleaning up after it. *)
LEMMA CleanupStep ==
    ASSUME FileInv, NEW s, Saver = {s}, RenameFails(s) \/ RemoveTmp(s)
    PROVE  FileInv' /\ Loaded' = Loaded /\ live' = live /\ up' = up
  <1> USE DEF FileInv
  <1>1. /\ UNCHANGED <<up, live, path, disk, image, since, fd>> /\ up /\ s \in Saver
        /\ tmp' \in {tmp, None}
        /\ \/ pc[s] = "written" /\ pc' = [pc EXCEPT ![s] = "cleanup"]
           \/ pc[s] = "cleanup" /\ pc' = [pc EXCEPT ![s] = "idle"]
    BY DEF RenameFails, RemoveTmp, At
  <1>2. Loaded' = Loaded /\ FileIsWhole'
    BY <1>1, SameFile
  <1>3. TypeOK'
    BY <1>1 DEF TypeOK
  <1>4. pc'[s] \in {"cleanup", "idle"} /\ fd[s] = None
    BY <1>1 DEF TypeOK
  <1>5. \A x \in ReadSoFar(s)' : since[s][x] <= image[s][x] /\ image[s][x] <= live[x]
    BY <1>1, <1>4 DEF ReadSoFar
  <1>6. FileInv'
    BY <1>1, <1>2, <1>3, <1>4, <1>5
  <1>7. QED
    BY <1>1, <1>2, <1>6

(* The end of a process and the start of the next. *)
LEMMA ProcessStep ==
    ASSUME FileInv, Crash \/ Restart
    PROVE  /\ FileInv' /\ Loaded' = Loaded
           /\ Crash => up'= FALSE
           /\ Restart => ~up /\ up' = TRUE /\ live' = Loaded
  <1> USE DEF FileInv
  <1>1. /\ UNCHANGED <<tmp, path, disk, image, since>>
        /\ Loaded' = Loaded /\ FileIsWhole' /\ Loaded \in State
    BY SameFile, LoadedType DEF Crash, Restart
  <1>2. AtMost(Loaded, Loaded)
    BY <1>1 DEF AtMost, State
  <1>3. CASE Crash
    <2>1. TypeOK'
      BY <1>1, <1>3 DEF Crash, TypeOK
    <2>2. QED
      BY <1>1, <1>3, <2>1 DEF Crash, Restart, ReadSoFar
  <1>4. CASE Restart
    <2>1. TypeOK'
      BY <1>1, <1>4 DEF Restart, TypeOK
    <2>2. \A q \in Saver : pc[q] = "idle"
      BY <1>4 DEF Restart, TypeOK
    <2>3. QED
      BY <1>1, <1>2, <1>4, <2>1, <2>2 DEF Restart, Crash, ReadSoFar
  <1>5. QED
    BY <1>3, <1>4

(* Every step preserves the invariant while there is one saver. *)
LEMMA FileStep ==
    ASSUME NEW s, Saver = {s}, FileInv, [Next]_vars
    PROVE  FileInv'
  <1>1. CASE UNCHANGED vars
    BY <1>1 DEF vars, FileInv, TypeOK, FileIsWhole, Loaded, ReadSoFar, AtMost
  <1>2. ASSUME NEW q \in Saver, SaveStep(q)
        PROVE  FileInv'
    BY <1>2, SnapshotStep, WriteStep, RenameStep, CleanupStep DEF SaveStep
  <1>3. QED
    BY <1>1, <1>2, ChangeStep, ProcessStep DEF Next

(* With one saver at a time the invariant holds throughout.                *)
THEOREM FileInvariance ==
    ASSUME NEW s, Saver = {s}
    PROVE  Spec => []FileInv
  <1>1. FileInv /\ [Next]_vars => FileInv'
    BY FileStep
  <1>2. QED
    BY <1>1, FileInit, PTL DEF Spec

(* With one saver at a time the state file always parses, whatever crashes *)
(* and failures of the disk occur (PersistedState::save).                  *)
THEOREM AlwaysWhole ==
    ASSUME NEW s, Saver = {s}
    PROVE  Spec => []FileIsWhole
  <1>1. FileInv => FileIsWhole
    BY DEF FileInv
  <1>2. QED
    BY <1>1, FileInvariance, PTL

(* A save that reports success has put into the file what was there when   *)
(* it was asked for (admin_save).                                          *)
THEOREM SavesCoverRequests ==
    ASSUME NEW s, Saver = {s}
    PROVE  Spec => SaveCoversRequest
  <1>1. FileInv /\ [Next]_vars => [Covered]_vars
    <2>1. SUFFICES ASSUME FileInv, Next, pc[s] = "written", pc'[s] = "idle", up'
                   PROVE  disk'[path'] # Broken /\ AtMost(since[s], disk'[path'])
      BY DEF Covered
    <2>2. pc \in [Saver -> {"idle", "keys", "built", "writing", "written", "cleanup"}]
      BY <2>1 DEF FileInv, TypeOK
    <2>3. ~Crash /\ ~Restart /\ \A x \in Part : ~Change(x)
      BY <2>1 DEF Crash, Restart, Change
    <2>4. SaveStep(s)
      BY <2>1, <2>3 DEF Next
    <2>5. RenameTmp(s)
      BY <2>1, <2>2, <2>4
      DEF SaveStep, SnapshotKeys, SnapshotBlocks, OpenTmp, WriteTmp,
          WriteFails, RenameFails, RemoveTmp, At
    <2>6. /\ Loaded' = image[s] /\ AtMost(since[s], image[s]) /\ FileInv'
          /\ path' # None
      BY <2>1, <2>5, RenameStep DEF RenameTmp
    <2>7. disk'[path'] # Broken
      BY <2>6 DEF FileInv, FileIsWhole
    <2>8. QED
      BY <2>6, <2>7 DEF Loaded
  <1>2. QED
    BY <1>1, FileInvariance, PTL DEF Spec, SaveCoversRequest

(* A new process has saved nothing and done nothing. *)
LEMMA StoreInit == Init => Store!Init
  BY DEF Init, Store!Init, Loaded, New

(* Each step of the savers, the process and its changes is a step of the   *)
(* store or none.                                                          *)
LEMMA StoreStep ==
    ASSUME NEW s, Saver = {s}, FileInv, [Next]_vars
    PROVE  [Store!Next]_Store!vars
  <1> DEFINE now == IF up THEN live ELSE Loaded
  <1>1. Loaded \in State /\ live \in State
    BY LoadedType DEF FileInv, TypeOK
  <1>2. ASSUME now' = now, Loaded' = Loaded
        PROVE  [Store!Next]_Store!vars
    BY <1>2 DEF Store!vars
  <1>3. CASE UNCHANGED vars
    BY <1>2, <1>3 DEF vars, Loaded
  <1>4. ASSUME NEW x \in Part, Change(x)
        PROVE  Store!Next
    <2>1. Loaded' = Loaded /\ now' = [now EXCEPT ![x] = @ + 1]
      BY <1>4, ChangeStep DEF Change
    <2>2. QED
      BY <2>1 DEF Store!Next, Store!Change, Part
  <1>5. CASE RenameTmp(s)
    <2>1. /\ Loaded' = image[s] /\ now' = now /\ now = live
          /\ AtMost(Loaded, image[s]) /\ AtMost(image[s], live)
      BY <1>5, RenameStep DEF RenameTmp, At
    <2>2. image[s] \in [Part -> Nat]
      BY StateFileAssumption DEF FileInv, TypeOK, State
    <2>3. QED
      BY <2>1, <2>2 DEF Store!Next, Store!Save, Store!AtMost, AtMost
  <1>6. ASSUME SnapshotKeys(s) \/ SnapshotBlocks(s) \/ OpenTmp(s) \/ WriteTmp(s)
               \/ WriteFails(s) \/ RenameFails(s) \/ RemoveTmp(s)
        PROVE  now' = now /\ Loaded' = Loaded
    <2>1. Loaded' = Loaded
      BY <1>6, SnapshotStep, WriteStep, CleanupStep
    <2>2. live' = live /\ up' = up
      BY <1>6 DEF SnapshotKeys, SnapshotBlocks, OpenTmp, WriteTmp, WriteFails,
                  RenameFails, RemoveTmp
    <2>3. QED
      BY <2>1, <2>2
  <1>7. CASE Crash
    <2>1. now' = Loaded /\ Loaded' = Loaded
      BY <1>7, ProcessStep
    <2>2. QED
      BY <2>1 DEF Store!Next, Store!Restart
  <1>8. CASE Restart
    <2>1. now' = now /\ Loaded' = Loaded
      BY <1>8, ProcessStep
    <2>2. QED
      BY <1>2, <2>1
  <1>9. QED
    BY <1>2, <1>3, <1>4, <1>5, <1>6, <1>7, <1>8 DEF Next, SaveStep

(* With one saver at a time the state file is the abstract store: nothing  *)
(* saved is lost in a crash, and a restart brings back the last save.      *)
THEOREM StoreRefinement ==
    ASSUME NEW s, Saver = {s}
    PROVE  Spec => ImplementsStore
  <1>1. FileInv /\ [Next]_vars => [Store!Next]_Store!vars
    BY StoreStep
  <1>2. QED
    BY <1>1, StoreInit, FileInvariance, PTL DEF Spec, ImplementsStore, Store!Spec

=============================================================================
