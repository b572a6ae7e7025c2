------------------------------- MODULE Engine -------------------------------
(***************************************************************************)
(* BackupEngine (engine.rs): run() opens a session and backs up every      *)
(* enabled root; backup_root() lists the source, assigns the tracked_file  *)
(* ids, reads the latest versions, and then for each file compares, hashes,*)
(* picks a target, upserts the block, copies it if it is new and records   *)
(* the version.  Every await is a point where other processes run, so each *)
(* statement and each file operation is a step of its own.                 *)
(***************************************************************************)
EXTENDS Files

CONSTANTS
  Backups,      \* the processes and tasks that run a backup
  MaxSessions   \* bound: how many backups are started

ASSUME EngineAssumption == MaxSessions \in Nat

VARIABLE job  \* the state of each process's run() call

engineVars == <<storeVars, fileVars, job>>

JobPC == {"idle", "root", "tracked", "track", "file", "hash",
          "insert", "bump", "copy", "copying", "version"}

StatRecord == [mtime : Nat, size : Nat]

(* An Option that is None is no value. *)
ASSUME NoneIsNothing == None \notin StatRecord /\ None \notin Version

Job == [pc     : JobPC,
        sid    : Nat,                              \* session_id
        roots  : SUBSET Root,                      \* roots still to do
        scan   : [File -> StatRecord \cup {None}],       \* files, by path
        ids    : [File -> Nat],                    \* file_ids; 0: none yet
        latest : [File -> Version \cup {None}],    \* latest_versions
        todo   : SUBSET File,                      \* rest of the current loop
        file   : File \cup {None},                 \* the loop's file
        path   : Path \cup {None},                 \* rel_path; it has the hash
        failed : BOOLEAN]                          \* has_error

EngineTypeOK == job \in [Backups -> Job]

Idle == [pc |-> "idle", sid |-> 0, roots |-> {},
         scan |-> [f \in File |-> None], ids |-> [f \in File |-> 0],
         latest |-> [f \in File |-> None], todo |-> {},
         file |-> None, path |-> None, failed |-> FALSE]

EngineInit == job = [b \in Backups |-> Idle]

At(b, pc) == job[b].pc = pc
Become(b, j) == job' = [job EXCEPT ![b] = j]
Goto(b, pc) == Become(b, [job[b] EXCEPT !.pc = pc])

(* The locals of backup_root and of a loop's turn end with their scope. *)
BetweenRoots(j, fail) ==
  [Idle EXCEPT !.pc = "root", !.sid = j.sid, !.roots = j.roots,
               !.failed = j.failed \/ fail]
NextTurn(j) == [j EXCEPT !.pc = "file", !.file = None, !.path = None]

Listed(j) == {f \in File : j.scan[f] # None}
Scanned(b) == job[b].scan[job[b].file]
HashOf(b) == job[b].path.hash

-----------------------------------------------------------------------------
(* run() *)

StartBackup(b) ==
  /\ At(b, "idle")
  /\ Len(session) < MaxSessions
  /\ BeginSession
  /\ Become(b, [Idle EXCEPT !.pc = "root", !.sid = Len(session) + 1, !.roots = Root])
  /\ UNCHANGED <<tracked, lastTracked, block, version, lastVersion, dec, fileVars>>

FinishSession(b) ==
  /\ At(b, "root")
  /\ job[b].roots = {}
  /\ SetSession(job[b].sid, IF job[b].failed THEN "failed" ELSE "completed")
  /\ Become(b, Idle)
  /\ UNCHANGED <<tracked, lastTracked, block, version, lastVersion, dec, fileVars>>

-----------------------------------------------------------------------------
(* backup_root() *)

(* list_files: the files below the root, in any order. *)
OpenRoot(b, r) ==
  /\ At(b, "root")
  /\ r \in job[b].roots
  /\ LET here == {f \in DOMAIN source : RootOf[f] = r}
     IN Become(b, [job[b] EXCEPT !.pc = "tracked",
                                 !.roots = @ \ {r},
                                 !.scan = [f \in File |-> IF f \in here THEN Stat(f) ELSE None]])
  /\ UNCHANGED <<storeVars, fileVars>>

LoadTracked(b) ==
  /\ At(b, "tracked")
  /\ LET listed == Listed(job[b])
     IN Become(b, [job[b] EXCEPT !.pc = "track",
                                 !.ids = [f \in File |-> IF f \in listed THEN TrackedId(f) ELSE 0],
                                 !.todo = {f \in listed : ~ IsTracked(f)}])
  /\ UNCHANGED <<storeVars, fileVars>>

(* A file that another process tracked meanwhile breaks UNIQUE: the `?`    *)
(* gives up the whole root.                                                *)
InsertTracked(b, f) ==
  /\ At(b, "track")
  /\ f \in job[b].todo
  /\ \/ /\ InsertTrackedFile(f)
        /\ Become(b, [job[b] EXCEPT !.todo = @ \ {f},
                                   !.ids = [@ EXCEPT ![f] = lastTracked + 1]])
     \/ /\ IsTracked(f)
        /\ Become(b, BetweenRoots(job[b], TRUE))
        /\ UNCHANGED <<tracked, lastTracked>>
  /\ UNCHANGED <<block, version, lastVersion, session, dec, fileVars>>

LoadLatest(b) ==
  /\ At(b, "track")
  /\ job[b].todo = {}
  /\ Become(b, [job[b] EXCEPT !.pc = "file",
                              !.todo = Listed(job[b]),
                              !.latest = [f \in File |-> LatestVersion(job[b].ids[f])]])
  /\ UNCHANGED <<storeVars, fileVars>>

(* Mutant: one of the two is enough. *)
UnchangedEither(stat, v) == v # None /\ (v.mtime = stat.mtime \/ v.size = stat.size)

(* differ::check_changed: same mtime and same size means unchanged. *)
Unchanged(stat, v) == v # None /\ v.mtime = stat.mtime /\ v.size = stat.size

NextFile(b, f) ==
  /\ At(b, "file")
  /\ f \in job[b].todo
  /\ LET turn == [job[b] EXCEPT !.todo = @ \ {f}]
     IN Become(b, IF Unchanged(turn.scan[f], turn.latest[f])
                  THEN turn ELSE [turn EXCEPT !.pc = "hash", !.file = f])
  /\ UNCHANGED <<storeVars, fileVars>>

RootDone(b) ==
  /\ At(b, "file")
  /\ job[b].todo = {}
  /\ Become(b, BetweenRoots(job[b], FALSE))
  /\ UNCHANGED <<storeVars, fileVars>>

SameHash(b) ==
  LET v == job[b].latest[job[b].file]
  IN v # None /\ v.hash = source[job[b].file].hash

(* hash_file, the comparison with the latest version, select_target and    *)
(* build_rel_path: one await, and then code that nothing interrupts.       *)
HashFile(b) ==
  /\ At(b, "hash")
  /\ job[b].file \in DOMAIN source
  /\ \/ /\ SameHash(b)
        /\ Become(b, NextTurn(job[b]))
        /\ UNCHANGED clock
     \/ /\ ~ SameHash(b)
        /\ \E t \in Target :
             Become(b, [job[b] EXCEPT !.pc = "insert",
                                      !.path = BuildPath(t, source[job[b].file].hash)])
        /\ clock' = clock + 1
  /\ UNCHANGED <<storeVars, source, edits, disk>>

(* Mutant: the copy of a new block is left out. *)
InsertBlockNoCopy(b) ==
  /\ At(b, "insert")
  /\ InsertOrIgnore(HashOf(b), Scanned(b).size, job[b].path)
  /\ Goto(b, IF HashOf(b) \in DOMAIN block THEN "bump" ELSE "version")
  /\ UNCHANGED <<tracked, lastTracked, version, lastVersion, session, dec, fileVars>>

(* upsert_content_block, first statement; is_new when it inserted. *)
InsertBlock(b) ==
  /\ At(b, "insert")
  /\ InsertOrIgnore(HashOf(b), Scanned(b).size, job[b].path)
  /\ Goto(b, IF HashOf(b) \in DOMAIN block THEN "bump" ELSE "copy")
  /\ UNCHANGED <<tracked, lastTracked, version, lastVersion, session, dec, fileVars>>

(* Mutant: a block that was there is not counted once more. *)
BumpRefNot(b) ==
  /\ At(b, "bump")
  /\ Goto(b, "version")
  /\ UNCHANGED <<storeVars, fileVars>>

(* ... and its second one, when the block was there. *)
BumpRef(b) ==
  /\ At(b, "bump")
  /\ AddRef(HashOf(b))
  /\ Goto(b, "version")
  /\ UNCHANGED <<tracked, lastTracked, version, lastVersion, session, dec, fileVars>>

(* copy_file_to, from the open of both files to the last byte written. *)
StartCopy(b) ==
  /\ At(b, "copy")
  /\ job[b].file \in DOMAIN source
  /\ CreateFile(job[b].path, source[job[b].file].hash)
  /\ Goto(b, "copying")
  /\ UNCHANGED <<storeVars, source, edits, clock>>

FinishCopy(b) ==
  /\ At(b, "copying")
  /\ CompleteFile(job[b].path)
  /\ Goto(b, "version")
  /\ UNCHANGED <<storeVars, source, edits, clock>>

(* insert_file_version: an error is logged and the loop goes on. *)
RecordVersion(b) ==
  LET f == job[b].file
      i == job[b].ids[f]
      h == HashOf(b)
  IN /\ At(b, "version")
     /\ \/ InsertFileVersion(i, h, Scanned(b).mtime, Scanned(b).size)
        \/ /\ ~ (i \in TrackedIds /\ h \in DOMAIN block)
           /\ UNCHANGED <<version, lastVersion>>
     /\ Become(b, NextTurn(job[b]))
     /\ UNCHANGED <<tracked, lastTracked, block, session, dec, fileVars>>

-----------------------------------------------------------------------------
(* Failures *)

(* A statement fails.  In the file loop it skips the file, before it the   *)
(* root fails, and finish_session's error ends run() at once.              *)
StatementFails(b) ==
  /\ "db" \in Faults
  /\ \/ /\ At(b, "insert") \/ At(b, "bump") \/ At(b, "version")
        /\ Become(b, NextTurn(job[b]))
     \/ /\ At(b, "tracked") \/ At(b, "track")
        /\ Become(b, BetweenRoots(job[b], TRUE))
     \/ /\ At(b, "root") /\ job[b].roots = {}
        /\ Become(b, Idle)
  /\ UNCHANGED <<storeVars, fileVars>>

(* The root cannot be opened or listed. *)
RootFails(b, r) ==
  /\ "source" \in Faults
  /\ At(b, "root")
  /\ r \in job[b].roots
  /\ Become(b, BetweenRoots([job[b] EXCEPT !.roots = @ \ {r}], TRUE))
  /\ UNCHANGED <<storeVars, fileVars>>

(* hash_file fails, or the file has gone since it was listed; or           *)
(* select_target finds no target with room.  The file is skipped.          *)
HashFails(b) ==
  /\ At(b, "hash")
  /\ "source" \in Faults \/ "full" \in Faults \/ job[b].file \notin DOMAIN source
  /\ Become(b, NextTurn(job[b]))
  /\ UNCHANGED <<storeVars, fileVars>>

(* Mutant: a copy that fails is tried again, for ever. *)
CopyFailsRetry(b) ==
  /\ \/ At(b, "copy") /\ job[b].file \notin DOMAIN source
     \/ (At(b, "copy") \/ At(b, "copying")) /\ Faults \cap {"source", "disk"} # {}
  /\ Goto(b, "copy")
  /\ UNCHANGED <<storeVars, fileVars>>

(* copy_file_to fails before or while it writes.  The file is skipped; the *)
(* block's row stays, and so does what was written.                        *)
CopyFails(b) ==
  /\ \/ At(b, "copy") /\ job[b].file \notin DOMAIN source
     \/ (At(b, "copy") \/ At(b, "copying")) /\ Faults \cap {"source", "disk"} # {}
  /\ Become(b, NextTurn(job[b]))
  /\ UNCHANGED <<storeVars, fileVars>>

(* The process dies; its session stays "running". *)
BackupCrash(b) ==
  /\ "crash" \in Faults
  /\ ~ At(b, "idle")
  /\ Become(b, Idle)
  /\ UNCHANGED <<storeVars, fileVars>>

-----------------------------------------------------------------------------
(* What run() does when nothing fails that the code does not provoke. *)
BackupWork(b) ==
  \/ FinishSession(b)
  \/ \E r \in Root : OpenRoot(b, r)
  \/ LoadTracked(b)
  \/ \E f \in File : InsertTracked(b, f)
  \/ LoadLatest(b)
  \/ \E f \in File : NextFile(b, f)
  \/ RootDone(b)
  \/ HashFile(b)
  \/ InsertBlock(b)
  \/ BumpRef(b)
  \/ StartCopy(b)
  \/ FinishCopy(b)
  \/ RecordVersion(b)

BackupFault(b) ==
  \/ StatementFails(b)
  \/ \E r \in Root : RootFails(b, r)
  \/ HashFails(b)
  \/ CopyFails(b)

BackupStep(b) ==
  StartBackup(b) \/ BackupWork(b) \/ BackupFault(b) \/ BackupCrash(b)

(* A source changes; without "live" only while no backup runs. *)
SourceStep ==
  /\ "live" \in Faults \/ \A b \in Backups : At(b, "idle")
  /\ \E f \in File : Edit(f) \/ Unlink(f)
  /\ UNCHANGED <<storeVars, job>>
=============================================================================
