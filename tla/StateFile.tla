------------------------------ MODULE StateFile -------------------------------
(***************************************************************************)
(* The gateway's state file: admin_save (src/src/api/admin.rs) with        *)
(* PersistedState::save and ::load (src/src/state/mod.rs), a crash of the  *)
(* process at any point, and the start of the next one (src/src/main.rs).  *)
(*                                                                         *)
(* A save is written to `{path}.tmp` and renamed to `{path}`.  Every save  *)
(* uses the same temporary name, and nothing keeps two of them apart, so   *)
(* files are modelled as a directory does it: a name leads to an inode,    *)
(* a writer holds an inode, and a rename moves the name only.              *)
(*                                                                         *)
(* The state consists of the keys and the blocked models; of each only the *)
(* number of its changes is kept.  The periodic task of main.rs refreshes  *)
(* the copy in memory and writes nothing.                                  *)
(***************************************************************************)
EXTENDS Naturals, FiniteSets

CONSTANTS
    Saver,      \* requests to POST /admin/save that may overlap
    Inode,      \* files of the directory
    None,
    Broken,     \* the content of a file that does not parse
    MaxChange   \* bound: changes of a part

Part == {"keys", "blocks"}

ASSUME StateFileAssumption ==
    /\ None \notin Inode
    /\ MaxChange \in Nat
    /\ Broken \notin [{"keys", "blocks"} -> Nat]

VARIABLES
    up,         \* the process runs
    live,       \* Part -> changes made so far
    tmp, path,  \* the inodes the two names lead to, or None
    disk,       \* Inode -> its content
    pc,         \* Saver -> where its save is
    image,      \* Saver -> the PersistedState it has built
    since,      \* history: Saver -> the state when it was asked to save
    fd          \* Saver -> the inode it has open

vars == <<up, live, tmp, path, disk, pc, image, since, fd>>

State == [Part -> 0..MaxChange]

New == [x \in Part |-> 0]

(* A file that parses holds a state; one that is empty, unfinished or      *)
(* written by two savers at once is Broken.                                *)
Init ==
    /\ up = TRUE
    /\ live = New
    /\ tmp = None /\ path = None
    /\ disk = [i \in Inode |-> Broken]
    /\ pc = [s \in Saver |-> "idle"]
    /\ image = [s \in Saver |-> New]
    /\ since = [s \in Saver |-> New]
    /\ fd = [s \in Saver |-> None]

At(s, here, next) == up /\ pc[s] = here /\ pc' = [pc EXCEPT ![s] = next]

(* Requests change the keys, the operator blocks models. *)
Change(x) ==
    /\ up /\ live[x] < MaxChange
    /\ live' = [live EXCEPT ![x] = @ + 1]
    /\ UNCHANGED <<up, tmp, path, disk, pc, image, since, fd>>

(* Mutant of SnapshotKeys: the copy of the last save is used again. *)
SnapshotKeysCached(s) ==
    /\ At(s, "idle", "keys")
    /\ since' = [since EXCEPT ![s] = live]
    /\ UNCHANGED <<up, live, tmp, path, disk, image, fd>>

(* admin_save reads the keys and then, under another lock, the blocks. *)
SnapshotKeys(s) ==
    /\ At(s, "idle", "keys")
    /\ image' = [image EXCEPT ![s]["keys"] = live["keys"]]
    /\ since' = [since EXCEPT ![s] = live]
    /\ UNCHANGED <<up, live, tmp, path, disk, fd>>

SnapshotBlocks(s) ==
    /\ At(s, "keys", "built")
    /\ image' = [image EXCEPT ![s]["blocks"] = live["blocks"]]
    /\ UNCHANGED <<up, live, tmp, path, disk, since, fd>>

Unused(i) == i \notin {tmp, path} \cup {fd[s] : s \in Saver}

(* Mutant of OpenTmp: the state file itself is truncated and written. *)
OpenPath(s) ==
    /\ At(s, "built", "writing")
    /\ \E i \in Inode :
          /\ IF path = None THEN Unused(i) ELSE i = path
          /\ path' = i
          /\ fd' = [fd EXCEPT ![s] = i]
          /\ disk' = [disk EXCEPT ![i] = Broken]
    /\ UNCHANGED <<up, live, tmp, image, since>>

(* fs::write begins: the temporary file is created or truncated. *)
OpenTmp(s) ==
    /\ At(s, "built", "writing")
    /\ \E i \in Inode :
          /\ IF tmp = None THEN Unused(i) ELSE i = tmp
          /\ tmp' = i
          /\ fd' = [fd EXCEPT ![s] = i]
          /\ disk' = [disk EXCEPT ![i] = Broken]
    /\ UNCHANGED <<up, live, path, image, since>>

Alone(s) == \A q \in Saver \ {s} : fd[q] # fd[s]

(* The rest of fs::write, from the writer's own position in the file: what *)
(* another saver has written there since shows or does not.                *)
WriteTmp(s) ==
    /\ At(s, "writing", "written")
    /\ \E c \in IF Alone(s) /\ disk[fd[s]] = Broken THEN {image[s]} ELSE {image[s], Broken} :
          disk' = [disk EXCEPT ![fd[s]] = c]
    /\ fd' = [fd EXCEPT ![s] = None]
    /\ UNCHANGED <<up, live, tmp, path, image, since>>

(* The disk is full: save returns the error and leaves the file there. *)
WriteFails(s) ==
    /\ At(s, "writing", "idle")
    /\ fd' = [fd EXCEPT ![s] = None]
    /\ UNCHANGED <<up, live, tmp, path, disk, image, since>>

(* The file that had the name before is gone. *)
RenameTmp(s) ==
    /\ At(s, "written", "idle")
    /\ tmp # None
    /\ path' = tmp
    /\ tmp' = None
    /\ disk' = [i \in Inode |-> IF i = path THEN Broken ELSE disk[i]]
    /\ UNCHANGED <<up, live, image, since, fd>>

(* The temporary file is gone, or the directory refuses. *)
RenameFails(s) ==
    /\ At(s, "written", "cleanup")
    /\ UNCHANGED <<up, live, tmp, path, disk, image, since, fd>>

RemoveTmp(s) ==
    /\ At(s, "cleanup", "idle")
    /\ tmp' = None
    /\ UNCHANGED <<up, live, path, disk, image, since, fd>>

(* Names and contents survive the process, open files do not. *)
Crash ==
    /\ up
    /\ up' = FALSE
    /\ pc' = [s \in Saver |-> "idle"]
    /\ fd' = [s \in Saver |-> None]
    /\ UNCHANGED <<live, tmp, path, disk, image, since>>

(* PersistedState::load: no file, or one that does not parse, means a      *)
(* fresh state.                                                            *)
Loaded == IF path = None \/ disk[path] = Broken THEN New ELSE disk[path]

(* Mutant of Restart: an unreadable file is not replaced by a fresh state. *)
RestartRaw ==
    /\ ~up
    /\ up' = TRUE
    /\ live' = IF path = None THEN Broken ELSE disk[path]
    /\ UNCHANGED <<tmp, path, disk, pc, image, since, fd>>

(* Mutant of Restart: the loaded state is not restored. *)
RestartFresh ==
    /\ ~up
    /\ up' = TRUE
    /\ live' = New
    /\ UNCHANGED <<tmp, path, disk, pc, image, since, fd>>

(* main.rs loads the file and restores it into the pools. *)
Restart ==
    /\ ~up
    /\ up' = TRUE
    /\ live' = Loaded
    /\ UNCHANGED <<tmp, path, disk, pc, image, since, fd>>

SaveStep(s) ==
    \/ SnapshotKeys(s) \/ SnapshotBlocks(s)
    \/ OpenTmp(s) \/ WriteTmp(s) \/ WriteFails(s)
    \/ RenameTmp(s) \/ RenameFails(s) \/ RemoveTmp(s)

Next ==
    \/ \E x \in Part : Change(x)
    \/ \E s \in Saver : SaveStep(s)
    \/ Crash \/ Restart

Spec == Init /\ [][Next]_vars

-----------------------------------------------------------------------------
(* Properties *)

(* The types of the process, of the directory and of the savers            *)
(* (admin_save, PersistedState::save).                                     *)
TypeOK ==
    /\ up \in BOOLEAN
    /\ live \in State
    /\ tmp \in Inode \cup {None} /\ path \in Inode \cup {None}
    /\ disk \in [Inode -> State \cup {Broken}]
    /\ pc \in [Saver -> {"idle", "keys", "built", "writing", "written", "cleanup"}]
    /\ image \in [Saver -> State] /\ since \in [Saver -> State]
    /\ fd \in [Saver -> Inode \cup {None}]

(* The state file parses at every moment, also right after a crash         *)
(* (ARCHITECTURE.md:202: "Saved atomically (write to `.tmp` then rename)"; *)
(* PersistedState::save).                                                  *)
FileIsWhole == path # None => disk[path] # Broken

AtMost(a, b) == \A x \in Part : a[x] <= b[x]

Covered ==
    \A s \in Saver : pc[s] = "written" /\ pc'[s] = "idle" /\ up' =>
        disk'[path'] # Broken /\ AtMost(since[s], disk'[path'])

(* A save that reports success has put into the file everything that had   *)
(* happened when it was asked for (admin_save).                            *)
SaveCoversRequest == [][Covered]_vars

(* Why one save at a time is safe: the saver is the only one to touch the  *)
(* temporary file, its image is complete before the name moves, and what   *)
(* it holds lies between the saved state and the present one.              *)
ReadSoFar(s) ==
    CASE pc[s] = "idle" -> {}
      [] pc[s] = "keys" -> {"keys"}
      [] OTHER          -> Part

FileInv ==
    /\ TypeOK
    /\ FileIsWhole
    /\ tmp # None => tmp # path
    /\ up => AtMost(Loaded, live)
    /\ \A s \in Saver :
          /\ pc[s] # "idle" => /\ up
                              /\ AtMost(Loaded, since[s])
                              /\ AtMost(since[s], live)
          /\ \A x \in ReadSoFar(s) : since[s][x] <= image[s][x] /\ image[s][x] <= live[x]
          /\ pc[s] = "writing" => /\ fd[s] # None /\ fd[s] = tmp
                                  /\ disk[tmp] = Broken
          /\ pc[s] # "writing" => fd[s] = None
          /\ pc[s] = "written" => tmp # None /\ disk[tmp] = image[s]

(* Saves and restarts implement the abstract store, the file being the     *)
(* stored state: a crash loses nothing that was saved, and a restart       *)
(* brings back the last save, whole (save, load and main.rs).              *)
Store == INSTANCE DurableState WITH
    live <- IF up THEN live ELSE Loaded, stored <- Loaded

ImplementsStore == Store!Spec

=============================================================================
