-------------------------------- MODULE Vault --------------------------------
(***************************************************************************)
(* The whole of a vault: backups, garbage collections and checks, started  *)
(* from the command line or the window (main.rs, gui.rs), side by side on  *)
(* one database, the same sources and the same targets.  Nothing in the    *)
(* code keeps two of them apart.                                           *)
(***************************************************************************)
EXTENDS Engine, Verifier

vars == <<storeVars, fileVars, job, verifierVars>>

TypeOK ==
  /\ StoreTypeOK
  /\ FilesTypeOK
  /\ EngineTypeOK
  /\ VerifierTypeOK

Init ==
  /\ StoreInit
  /\ FilesInit
  /\ EngineInit
  /\ VerifierInit

AllIdle ==
  /\ \A b \in Backups : At(b, "idle")
  /\ \A g \in Gcs : gc[g].pc = "idle"
  /\ \A c \in Checks : chk[c].pc = "idle"

(* Nobody runs a command. *)
Rest == AllIdle /\ UNCHANGED vars

Next ==
  \/ \E b \in Backups : BackupStep(b) /\ UNCHANGED verifierVars
  \/ \E g \in Gcs : GcStep(g) /\ UNCHANGED job
  \/ \E c \in Checks : CheckStep(c) /\ UNCHANGED job
  \/ SourceStep /\ UNCHANGED verifierVars
  \/ Rest

Spec == Init /\ [][Next]_vars

(* A started command runs on, as a task of the runtime does; nobody has to *)
(* start one, and nothing has to fail.                                     *)
FairSpec ==
  /\ Spec
  /\ \A b \in Backups :
       WF_vars((BackupWork(b) \/ BackupFault(b)) /\ UNCHANGED verifierVars)
  /\ \A g \in Gcs : WF_vars(GcWork(g) /\ UNCHANGED job)
  /\ \A c \in Checks : WF_vars(CheckWork(c) /\ UNCHANGED job)

-----------------------------------------------------------------------------
(* A version can be restored: its block's row leads to its bytes. *)
Restorable(v) == Stored(v.hash)

(* Nothing the programs do removes or overwrites a whole file that a row   *)
(* of content_block names: remove_file runs after the row is gone          *)
(* (verifier.rs), and each copy has a path of its own (build_rel_path).    *)
RemovalIsOrphan ==
  [][\A h \in DOMAIN block :
       LET p == block[h].path
       IN p \in DOMAIN disk /\ disk[p].whole
            => p \in DOMAIN disk' /\ disk'[p] = disk[p]]_vars

(* A version that can be restored stays so until it is deleted, whatever   *)
(* other backups, collections and checks do and wherever they fail or die. *)
RestorableStays ==
  [][\A v \in version \cap version' : Restorable(v) => Restorable(v)']_vars

(* Every version that was recorded can be restored.  It is so when one     *)
(* backup runs at a time, its copies do not fail and the sources rest      *)
(* meanwhile; collections and checks may run beside it.                    *)
AllRestorable == \A v \in version : Restorable(v)

(* Readers count: ref_count is never below the number of versions that     *)
(* name the block, so that no collection can drop it under a version.      *)
(* It is so with any number of backups and no collection, or with one of   *)
(* each, and with no check; any of them may fail or die anywhere.          *)
RefCountCovers ==
  \A h \in DOMAIN block :
    block[h].refs >= Cardinality({v \in version : v.hash = h})

(* gc deletes all the data of a root (cli.rs): when the last root has been *)
(* collected and no backup runs, no block and no block file is left.       *)
AllDataDeleted ==
  [][\A g \in Gcs :
       GcTracked(g) /\ tracked' = {} /\ (\A b \in Backups : At(b, "idle"))
         => DOMAIN block = {} /\ DOMAIN disk = {}]_vars

(* A backup that ended as "completed" before any collection or check was   *)
(* run has a version of every file: of the content that the file has, or   *)
(* at least of one that mtime and size do not tell from it (engine.rs,     *)
(* differ.rs).  It is so when no file fails, since run() reports only the  *)
(* roots that do, and the sources rest; other backups may run beside it.   *)
CompletedIsBackedUp ==
  [][\A b \in Backups :
       FinishSession(b) /\ ~ job[b].failed /\ (\A p \in Callers : runs[p] = 0)
         => \A f \in DOMAIN source :
              LET v == LatestVersion(TrackedId(f))
              IN /\ v # None
                 /\ \/ v.hash = source[f].hash
                    \/ [mtime |-> v.mtime, size |-> v.size] = Stat(f)]_vars

(* Every command that was started ends. *)
RunsEnd ==
  /\ \A b \in Backups : ~ At(b, "idle") ~> At(b, "idle")
  /\ \A g \in Gcs : gc[g].pc # "idle" ~> gc[g].pc = "idle"
  /\ \A c \in Checks : chk[c].pc # "idle" ~> chk[c].pc = "idle"

(* The vault keeps what an archive promises. *)
TheArchive == INSTANCE Archive
  WITH kept <- version,
       good <- {v \in version : Restorable(v)},
       last <- lastVersion
ArchiveSpec == TheArchive!Spec

-----------------------------------------------------------------------------
(* The inductive invariant behind them: who may still use which path.      *)

(* A backup between build_rel_path and the end of its copy is the only one *)
(* that creates or writes the file at its path.                            *)
WritePC == {"insert", "copy", "copying"}
Writes(b) == job[b].pc \in WritePC

(* A collection in decrement_block_ref, or about to remove the file. *)
Decrementing(g) == dec[g].at \in {"update", "select", "delete", "deleted"}

(* A backup has the locals that its place in backup_root needs. *)
WithFile == {"hash", "insert", "bump", "copy", "copying", "version"}
WellFormed(j) ==
  /\ j.todo \subseteq Listed(j)
  /\ j.pc \in {"root", "tracked"} => j.todo = {}
  /\ j.pc \in WithFile => j.file \in File /\ j.scan[j.file] \in StatRecord
  /\ j.pc \in WithFile \ {"hash"} => j.path \in Path
JobShape == \A b \in Backups : WellFormed(job[b])

RowsNameTheirHash == \A h \in DOMAIN block : block[h].path.hash = h

(* Every path in use was built before, so that the next one is new. *)
PathsBuilt ==
  /\ \A h \in DOMAIN block : block[h].path.stamp <= clock
  /\ \A p \in DOMAIN disk : p.stamp <= clock
  /\ \A b \in Backups : Writes(b) => job[b].path.stamp <= clock
  /\ \A g \in Gcs : \A d \in gc[g].plan : d.path.stamp <= clock
  /\ \A g \in Gcs : Decrementing(g) => gc[g].path.stamp <= clock

OneWriter ==
  \A b, c \in Backups : Writes(b) /\ Writes(c) /\ b # c => job[b].path # job[c].path

(* Before its row is inserted a path is in no row and no plan, and before  *)
(* the copy begins there is no file at it.                                 *)
FreshPaths ==
  \A b \in Backups :
    /\ At(b, "insert") =>
         /\ \A h \in DOMAIN block : block[h].path # job[b].path
         /\ \A g \in Gcs : \A d \in gc[g].plan : d.path # job[b].path
         /\ \A g \in Gcs : Decrementing(g) => gc[g].path # job[b].path
    /\ At(b, "insert") \/ At(b, "copy") => job[b].path \notin DOMAIN disk

(* While decrement_block_ref runs for a collection it is about the block   *)
(* whose file it will remove; when it has deleted the row, no row names    *)
(* that file.                                                              *)
RemovesOrphans ==
  \A g \in Gcs :
    /\ \A d \in gc[g].plan : d.path.hash = d.hash
    /\ Decrementing(g) => /\ gc[g].pc = "running"
                          /\ gc[g].path \in Path
                          /\ gc[g].path.hash = dec[g].hash
    /\ dec[g].at = "deleted" => \A h \in DOMAIN block : block[h].path # gc[g].path

(* A version's number is its own. *)
IdsAscend ==
  /\ \A v \in version : v.id <= lastVersion
  /\ \A v, w \in version : v.id = w.id => v = w

IInv ==
  /\ TypeOK
  /\ JobShape
  /\ RowsNameTheirHash
  /\ PathsBuilt
  /\ OneWriter
  /\ FreshPaths
  /\ RemovesOrphans
  /\ IdsAscend
=============================================================================
