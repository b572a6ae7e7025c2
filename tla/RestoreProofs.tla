---------------------------- MODULE RestoreProofs ----------------------------
(***************************************************************************)
(* Theorems about Vault under the conditions that a backup needs to be     *)
(* good for something: that versions can be restored, and that a completed *)
(* backup has one of every file.                                           *)
(***************************************************************************)
EXTENDS VaultSteps

-----------------------------------------------------------------------------
(* Part 1: every version can be restored. *)

(* No more than one backup runs at a time, in whatever process. *)
OneAtATime == \A b, c \in Backups : At(b, "idle") \/ At(c, "idle") \/ b = c

(* What a backup hashed is what it is going to copy. *)
HashedIsCopied ==
  \A b \in Backups :
    job[b].pc \in {"insert", "copy"} =>
      /\ job[b].file \in DOMAIN source
      /\ source[job[b].file].hash = HashOf(b)

(* Backup b has yet to write, or to end, the file of row h. *)
Copies(b, h) ==
  /\ job[b].path = block[h].path
  /\ \/ At(b, "copy")
     \/ /\ At(b, "copying")
        /\ job[b].path \in DOMAIN disk
        /\ disk[job[b].path] = [content |-> h, whole |-> FALSE]

(* A row without its bytes is a row whose copy is under way. *)
RowsBacked == \A h \in DOMAIN block : Stored(h) \/ \E b \in Backups : Copies(b, h)

RestoreInv == HashedIsCopied /\ RowsBacked /\ AllRestorable

LEMMA HashedStep ==
  ASSUME TypeInv, HashedIsCopied, [Next]_vars, "live" \notin Faults
  PROVE  HashedIsCopied'
<1> SUFFICES ASSUME NEW b \in Backups, job'[b].pc \in {"insert", "copy"}
             PROVE  /\ job'[b].file \in DOMAIN source'
                    /\ source'[job'[b].file].hash = job'[b].path.hash
  BY DEF HashedIsCopied, HashOf
<1>1. CASE job'[b] = job[b]
  <2>1. source' = source
    BY <1>1, SourceRests DEF At
  <2>2. QED  BY <1>1, <2>1 DEF HashedIsCopied, HashOf
<1>2. CASE BackupStep(b)
  <2>1. source' = source
    BY <1>2, BackupReads
  <2>2. job[b] \in Job
    BY DEF TypeInv, TypeOK, EngineTypeOK
  <2>3. CASE HashFile(b) /\ job'[b].pc # "file"
    <3>1. ~ Become(b, NextTurn(job[b]))
      BY <2>2, <2>3, PcOf, JobMoves
    <3>2. PICK t \in Target : Become(b, [job[b] EXCEPT !.pc = "insert",
                                           !.path = BuildPath(t, source[job[b].file].hash)])
      BY <2>3, <3>1 DEF HashFile
    <3> DEFINE j == [job[b] EXCEPT !.pc = "insert",
                                   !.path = BuildPath(t, source[job[b].file].hash)]
    <3>3. j.file = job[b].file /\ j.path.hash = source[job[b].file].hash
      BY <2>2 DEF Job, BuildPath
    <3> HIDE DEF j
    <3>4. Become(b, j)
      BY <3>2 DEF j
    <3>5. job'[b] = j
      BY <3>4, JobMoves
    <3>6. QED  BY <2>1, <2>3, <3>3, <3>5 DEF HashFile
  <2>4. CASE InsertBlock(b)
    <3>1. job'[b].file = job[b].file /\ job'[b].path = job[b].path /\ At(b, "insert")
      BY <2>4, GotoKeeps DEF InsertBlock
    <3>2. QED  BY <2>1, <3>1 DEF HashedIsCopied, HashOf, At
  <2>5. (HashFile(b) /\ job'[b].pc # "file") \/ InsertBlock(b)
    BY <1>2, NextPc
  <2>6. QED  BY <2>3, <2>4, <2>5
<1>3. QED  BY <1>1, <1>2, OneMoves

(* A copy that is under way goes on, or ends with the bytes of its row.    *)
LEMMA CopyGoesOn ==
  ASSUME TypeInv, PathInv, HashedIsCopied, [Next]_vars,
         Faults \cap {"source", "disk", "crash", "live"} = {},
         NEW h \in DOMAIN block, h \in DOMAIN block', NEW b \in Backups, Copies(b, h)
  PROVE  Stored(h)' \/ Copies(b, h)'
<1> DEFINE p == job[b].path
<1>1. block[h].path = p /\ block'[h].path = p /\ p.hash = h
  BY RowsFate DEF Copies, PathInv, RowsNameTheirHash
<1>2. At(b, "copy") \/ At(b, "copying")
  BY DEF Copies
<1>3. Writes(b)
  BY <1>2 DEF Writes, WritePC, At
<1>4. CASE BackupStep(b) /\ At(b, "copy")
  <2>1. ~ BackupCrash(b) /\ ~ CopyFails(b)
    BY <1>4 DEF BackupCrash, CopyFails, HashedIsCopied, At
  <2>2. StartCopy(b)
    BY <1>4, <2>1, AtCopy DEF At
  <2>3. job'[b].path = p /\ job'[b].pc = "copying"
    BY <2>2, GotoKeeps DEF StartCopy
  <2>4. source[job[b].file].hash = h
    BY <1>1, <1>4 DEF HashedIsCopied, At, HashOf
  <2>5. p \in DOMAIN disk' /\ disk'[p] = [content |-> h, whole |-> FALSE]
    BY <2>2, <2>4 DEF StartCopy, CreateFile, Put
  <2>6. QED  BY <1>1, <2>3, <2>5 DEF Copies, At
<1>5. CASE BackupStep(b) /\ At(b, "copying")
  <2>1. ~ BackupCrash(b) /\ ~ CopyFails(b)
    BY <1>5 DEF BackupCrash, CopyFails, At
  <2>2. FinishCopy(b)
    BY <1>5, <2>1, AtCopy DEF At
  <2>3. p \in DOMAIN disk /\ disk[p] = [content |-> h, whole |-> FALSE]
    BY <1>5 DEF Copies, At
  <2>4. disk[p] \in DiskFile
    BY <2>3 DEF TypeInv, TypeOK, FilesTypeOK
  <2>5. p \in DOMAIN disk' /\ disk'[p] = [content |-> h, whole |-> TRUE]
    <3>1. disk' = [disk EXCEPT ![p].whole = TRUE]
      BY <2>2, <2>3 DEF FinishCopy, CompleteFile
    <3>2. p \in DOMAIN disk' /\ disk'[p].content = h /\ disk'[p].whole = TRUE
      BY <2>3, <2>4, <3>1 DEF DiskFile
    <3>3. disk'[p] \in DiskFile
      BY <3>2, NextTypes DEF TypeInv, TypeOK, FilesTypeOK
    <3>4. QED  BY <3>2, <3>3 DEF DiskFile
  <2>6. QED  BY <1>1, <2>5 DEF Stored
<1>6. CASE job'[b] = job[b]
  <2>1. CASE At(b, "copy")
    BY <1>1, <1>6, <2>1 DEF Copies, At
  <2>2. CASE At(b, "copying")
    <3>1. p \in DOMAIN disk /\ disk[p] = [content |-> h, whole |-> FALSE]
      BY <2>2 DEF Copies, At
    <3>2. ASSUME NEW c \in Backups, StartCopy(c) \/ FinishCopy(c), job[c].path = p
          PROVE  FALSE
      <4>1. Writes(c)
        BY <3>2 DEF StartCopy, FinishCopy, Writes, WritePC, At
      <4>2. c = b
        BY <1>3, <3>2, <4>1 DEF PathInv, OneWriter
      <4>3. job'[b].pc # job[b].pc
        BY <2>2, <3>2, <4>2, GotoKeeps DEF StartCopy, FinishCopy, At
      <4>4. QED  BY <1>6, <4>3
    <3>3. ~ \E g \in Gcs : GcRemove(g) /\ gc[g].path = p
      BY <1>1 DEF GcRemove, PathInv, RemovesOrphans
    <3>4. p \in DOMAIN disk' /\ disk'[p] = disk[p]
      BY <3>1, <3>2, <3>3, FilesFate
    <3>5. QED  BY <1>1, <1>6, <2>2, <3>1, <3>4 DEF Copies, At
  <2>3. QED  BY <1>2, <2>1, <2>2
<1>7. QED  BY <1>2, <1>4, <1>5, <1>6, OneMoves

LEMMA BackedStep ==
  ASSUME TypeInv, PathInv, HashedIsCopied, RowsBacked, [Next]_vars,
         Faults \cap {"source", "disk", "crash", "live"} = {}
  PROVE  RowsBacked'
<1> SUFFICES ASSUME NEW h \in DOMAIN block'
             PROVE  Stored(h)' \/ \E b \in Backups : Copies(b, h)'
  BY DEF RowsBacked
<1>1. CASE h \in DOMAIN block
  BY <1>1, StoredStays, CopyGoesOn DEF RowsBacked
<1>2. ASSUME NEW b \in Backups, InsertBlock(b), h \notin DOMAIN block, h = HashOf(b),
             block'[h].path = job[b].path
      PROVE  Copies(b, h)'
  <2>1. job'[b].path = job[b].path /\ job'[b].pc = "copy"
    BY <1>2, GotoKeeps DEF InsertBlock
  <2>2. QED  BY <1>2, <2>1 DEF Copies, At
<1>3. QED  BY <1>1, <1>2, RowsFate

(* The one backup that runs records a version only of a row that was there *)
(* before with its bytes, or that it has just copied.                      *)
LEMMA RestorableStep ==
  ASSUME TypeInv, PathInv, RowsBacked, AllRestorable, OneAtATime, [Next]_vars
  PROVE  AllRestorable'
<1>1. ASSUME NEW v \in version
      PROVE  Restorable(v)'
  BY <1>1, NextKeepsRestorable DEF AllRestorable
<1>2. ASSUME NEW b \in Backups, RecordVersion(b), NEW v \in version', v \notin version
      PROVE  Restorable(v)'
  <2>1. v.hash \in DOMAIN block
    BY <1>2 DEF RecordVersion, InsertFileVersion
  <2>2. \A c \in Backups : ~ Copies(c, v.hash)
    BY <1>2 DEF RecordVersion, OneAtATime, Copies, At
  <2>3. Stored(v.hash)
    BY <2>1, <2>2 DEF RowsBacked
  <2>4. v.hash \in DOMAIN block'
    BY <1>2, <2>1 DEF RecordVersion
  <2>5. QED  BY <2>3, <2>4, StoredStays DEF Restorable
<1>3. (\E b \in Backups : RecordVersion(b)) \/ version' \subseteq version
  BY VersionSteps DEF GcVersion, DeleteVersion
<1>4. QED  BY <1>1, <1>2, <1>3 DEF AllRestorable

(* Every version can be restored, whenever backups run one at a time,      *)
(* their copies do not fail or die, and the sources rest under them: a     *)
(* block is new to the database only if its bytes are written before any   *)
(* version names it (backup_root), and no collection or check, of which    *)
(* any number may run beside and fail in the database, takes them away.    *)
THEOREM VersionsRestorable ==
  ASSUME Faults \cap {"source", "disk", "crash", "live"} = {}
  PROVE  Spec /\ []OneAtATime => []AllRestorable
<1>1. Init => RestoreInv
  BY DEF Init, StoreInit, EngineInit, Idle, RestoreInv, HashedIsCopied, RowsBacked, AllRestorable
<1>2. IInv /\ RestoreInv /\ OneAtATime /\ [Next]_vars => RestoreInv'
  BY UnfoldInv, HashedStep, BackedStep, RestorableStep DEF RestoreInv
<1>3. RestoreInv => AllRestorable
  BY DEF RestoreInv
<1>4. QED  BY <1>1, <1>2, <1>3, Inductive, PTL DEF Spec

-----------------------------------------------------------------------------
(* Part 2: a completed backup has a version of every file.                 *)

(* No collection and no check was ever started. *)
Quiet == \A p \in Callers : runs[p] = 0

NobodyElse ==
  /\ \A g \in Gcs : gc[g].pc = "idle"
  /\ \A c \in Checks : chk[c].pc = "idle"
  /\ \A p \in Callers : dec[p].at = "none"

(* A path has one number, which is no other path's, and never 0. *)
TrackedOnce ==
  /\ \A t \in tracked : t.id \in 1 .. lastTracked
  /\ \A t, u \in tracked : t.id = u.id \/ t.file = u.file => t = u
  /\ \A v \in version : v.tid # 0

(* The latest version of f is one that CompletedIsBackedUp asks for. *)
Done(f) ==
  LET v == LatestVersion(TrackedId(f))
  IN v # None /\ (v.hash = source[f].hash \/ [mtime |-> v.mtime, size |-> v.size] = Stat(f))

(* Backup b, which runs: the listing is what the sources have, ... *)
ListingTrue(b) ==
  /\ \A f \in Listed(job[b]) : f \in DOMAIN source /\ job[b].scan[f] = Stat(f)
  /\ job[b].pc \in WithFile => job[b].file \in Listed(job[b])

(* ... the numbers those of the database, ... *)
InLoop == WithFile \cup {"file"}
Numbered(b) ==
  \A f \in Listed(job[b]) :
    job[b].pc \in InLoop \/ (At(b, "track") /\ f \notin job[b].todo)
      => IsTracked(f) /\ job[b].ids[f] = TrackedId(f)

(* ... the file it is about, and those that are left, ... *)
Left(b, f) == f \in job[b].todo \/ (job[b].pc \in WithFile /\ f = job[b].file)

(* ... whose latest versions only another backup of the same contents can  *)
(* have replaced since, ...                                                *)
Compared(b) ==
  \A f \in Listed(job[b]) :
    job[b].pc \in InLoop /\ Left(b, f)
      => Done(f) \/ job[b].latest[f] = LatestVersion(job[b].ids[f])

(* ... the hash the file's, and its row inserted. *)
HashTrue(b) ==
  /\ job[b].pc \in WithFile \ {"hash"} => source[job[b].file].hash = HashOf(b)
  /\ job[b].pc \in WithFile \ {"hash", "insert"} => HashOf(b) \in DOMAIN block

(* Unless a root failed, what is not done is left to do. *)
Due(b, f) ==
  \/ RootOf[f] \in job[b].roots
  \/ job[b].pc \in {"tracked", "track"} /\ f \in Listed(job[b])
  \/ job[b].pc \in InLoop /\ Left(b, f)
Covers(b) == job[b].failed \/ \A f \in DOMAIN source : Done(f) \/ Due(b, f)

BackupTrue(b) ==
  /\ ListingTrue(b)
  /\ Numbered(b)
  /\ Compared(b)
  /\ HashTrue(b)
  /\ Covers(b)

BackInv ==
  /\ TrackedOnce
  /\ Quiet => NobodyElse /\ \A b \in Backups : At(b, "idle") \/ BackupTrue(b)

-----------------------------------------------------------------------------
(* Numbers and versions. *)

LEMMA OneOfFile ==
  ASSUME NEW T, NEW t \in T, \A u \in T : u.file = t.file => u = t
  PROVE  (CHOOSE u \in T : u.file = t.file) = t
OBVIOUS

LEMMA TrackedIdIs ==
  ASSUME TrackedOnce, NEW t \in tracked
  PROVE  IsTracked(t.file) /\ TrackedId(t.file) = t.id
BY OneOfFile DEF TrackedOnce, IsTracked, TrackedId

LEMMA TrackedIdIn ==
  ASSUME TrackedOnce, NEW f, IsTracked(f)
  PROVE  \E t \in tracked : t.file = f /\ t.id = TrackedId(f)
BY TrackedIdIs DEF IsTracked

LEMMA NewestIs ==
  ASSUME NEW V, NEW v \in V, \A w \in V : w.id \in Nat /\ w.id <= v.id,
         \A w \in V : w.id = v.id => w = v
  PROVE  (CHOOSE u \in V : \A w \in V : w.id <= u.id) = v
<1> DEFINE P(u) == u \in V /\ \A w \in V : w.id <= u.id
<1>1. P(v)
  OBVIOUS
<1>2. \A u : P(u) => u = v
  <2> SUFFICES ASSUME NEW u, P(u) PROVE u = v
    OBVIOUS
  <2>1. u.id <= v.id /\ v.id <= u.id /\ u.id \in Nat /\ v.id \in Nat
    OBVIOUS
  <2>2. QED  BY <2>1
<1> HIDE DEF P
<1>3. (CHOOSE u : P(u)) = v
  BY <1>1, <1>2
<1>4. QED  BY <1>3 DEF P

LEMMA DoneIsTracked ==
  ASSUME TrackedOnce, NEW f, Done(f)
  PROVE  IsTracked(f)
BY DEF TrackedOnce, Done, TrackedId, LatestVersion, VersionsOf

LEMMA TrackedStep ==
  ASSUME TypeInv, TrackedOnce, [Next]_vars
  PROVE  TrackedOnce'
<1>1. lastTracked \in Nat
  BY DEF TypeInv, TypeOK, StoreTypeOK
<1>2. CASE tracked' \subseteq tracked /\ lastTracked' = lastTracked /\ version' \subseteq version
  BY <1>2 DEF TrackedOnce
<1>3. ASSUME NEW b \in Backups, NEW f \in File, InsertTracked(b, f), InsertTrackedFile(f)
      PROVE  TrackedOnce'
  <2> DEFINE new == [id |-> lastTracked + 1, file |-> f]
  <2>1. tracked' = tracked \cup {new} /\ lastTracked' = lastTracked + 1 /\ version' = version
        /\ new.id = lastTracked + 1 /\ new.file = f /\ \A t \in tracked : t.file # f
    BY <1>3 DEF InsertTracked, InsertTrackedFile, IsTracked
  <2> HIDE DEF new
  <2>2. QED  BY <1>1, <2>1 DEF TrackedOnce
<1>4. ASSUME NEW b \in Backups, RecordVersion(b)
      PROVE  TrackedOnce'
  <2>1. UNCHANGED <<tracked, lastTracked>>
    BY <1>4 DEF RecordVersion
  <2>2. ASSUME NEW v \in version', v \notin version
        PROVE  v.tid # 0
    BY <1>1, <1>4, <2>2 DEF RecordVersion, InsertFileVersion, TrackedIds, TrackedOnce
  <2>3. QED  BY <2>1, <2>2 DEF TrackedOnce
<1>5. ASSUME NEW b \in Backups, BackupStep(b), ~ RecordVersion(b),
             ~ \E f \in File : InsertTracked(b, f) /\ InsertTrackedFile(f)
      PROVE  UNCHANGED <<tracked, lastTracked, version>>
  BY <1>5 DEF BackupStep, BackupWork, BackupFault, BackupCrash, StartBackup, FinishSession,
     OpenRoot, LoadTracked, InsertTracked, LoadLatest, NextFile, RootDone, HashFile, InsertBlock,
     BumpRef, StartCopy, FinishCopy, StatementFails, RootFails, HashFails, CopyFails, storeVars
<1>6. ASSUME NEW g \in Gcs, GcStep(g)
      PROVE  tracked' \subseteq tracked /\ lastTracked' = lastTracked /\ version' \subseteq version
  BY <1>6 DEF GcStep, GcWork, StartGc, GcVersion, DeleteVersion, GcVersionFails, GcRemove,
     GcRemoveFails, GcAborts, GcTracked, DeleteTrackedFilesByRoot, VerifierCrash, Decrement,
     DecStep, DecFails, storeVars, storeButDec
<1>7. ASSUME NEW c \in Checks, CheckStep(c)
      PROVE  UNCHANGED <<tracked, lastTracked, version>>
  BY <1>7 DEF CheckStep, CheckWork, StartCheck, ExamineBlock, CheckAborts, AllExamined,
     CleanBlock, CheckDone, VerifierCrash, Decrement, DecStep, DecFails, storeVars, storeButDec
<1>8. SourceStep \/ UNCHANGED vars => UNCHANGED <<tracked, lastTracked, version>>
  BY DEF SourceStep, vars, storeVars
<1>9. QED  BY <1>2, <1>3, <1>4, <1>5, <1>6, <1>7, <1>8 DEF Next, Rest

-----------------------------------------------------------------------------
(* While nothing but backups runs, what they rely on only grows. *)

LEMMA QuietSteps ==
  ASSUME TypeInv, BackInv, [Next]_vars, Quiet'
  PROVE  /\ Quiet /\ NobodyElse'
         /\ \/ \E b \in Backups : BackupStep(b)
            \/ SourceStep
            \/ UNCHANGED vars
<1>1. Quiet
  <2> SUFFICES ASSUME NEW p \in Callers, runs[p] # 0 PROVE FALSE
    BY DEF Quiet
  <2>1. runs[p] \in Nat /\ runs \in [Callers -> Nat]
    BY DEF TypeInv, TypeOK, VerifierTypeOK
  <2>2. UNCHANGED runs \/ \E q \in Callers : CountRun(q)
    BY RunSteps
  <2>3. QED  BY <2>1, <2>2 DEF CountRun, Quiet
<1>2. NobodyElse
  BY <1>1 DEF BackInv
<1>3. ~ \E g \in Gcs : GcStep(g)
  <2> SUFFICES ASSUME NEW g \in Gcs, GcStep(g) PROVE FALSE
    OBVIOUS
  <2>1. gc[g].pc = "idle" /\ dec[g].at = "none" /\ g \in Callers /\ g \notin Checks
    BY <1>2, CallersOK, VerifierAssumption DEF NobodyElse
  <2>2. ~ CountRun(g)
    BY <1>1, <2>1 DEF CountRun, Quiet, TypeInv, TypeOK, VerifierTypeOK
  <2>3. QED
    BY <2>1, <2>2 DEF GcStep, GcWork, StartGc, GcVersion, GcVersionFails, GcRemove, GcRemoveFails,
       GcAborts, GcTracked, VerifierCrash, Decrement, DecStep, DecFails, DecUpdate, DecSelect,
       DecDelete
<1>4. ~ \E c \in Checks : CheckStep(c)
  <2> SUFFICES ASSUME NEW c \in Checks, CheckStep(c) PROVE FALSE
    OBVIOUS
  <2>1. chk[c].pc = "idle" /\ dec[c].at = "none" /\ c \in Callers /\ c \notin Gcs
    BY <1>2, CallersOK, VerifierAssumption DEF NobodyElse
  <2>2. ~ CountRun(c)
    BY <1>1, <2>1 DEF CountRun, Quiet, TypeInv, TypeOK, VerifierTypeOK
  <2>3. QED
    BY <2>1, <2>2 DEF CheckStep, CheckWork, StartCheck, ExamineBlock, CheckAborts, AllExamined,
       CleanBlock, CheckDone, VerifierCrash, Decrement, DecStep, DecFails, DecUpdate, DecSelect,
       DecDelete
<1>5. UNCHANGED <<gc, chk, dec>>
  <2>1. ASSUME NEW b \in Backups, BackupStep(b)
        PROVE  UNCHANGED dec
    BY <2>1 DEF BackupStep, BackupWork, BackupFault, BackupCrash, StartBackup, FinishSession,
       OpenRoot, LoadTracked, InsertTracked, LoadLatest, NextFile, RootDone, HashFile,
       InsertBlock, BumpRef, StartCopy, FinishCopy, RecordVersion, StatementFails, RootFails,
       HashFails, CopyFails, storeVars
  <2>2. QED
    BY <1>3, <1>4, <2>1 DEF Next, Rest, vars, verifierVars, SourceStep, storeVars
<1>6. QED  BY <1>1, <1>2, <1>3, <1>4, <1>5 DEF Next, Rest, NobodyElse

(* What a step of one backup leaves to all of them. *)
Grows ==
  /\ source' = source
  /\ \A f \in File : IsTracked(f) => IsTracked(f)' /\ TrackedId(f)' = TrackedId(f)
  /\ \A f \in File : Done(f) => Done(f)'
  /\ \A f \in File, i \in Nat :
       IsTracked(f) /\ i = TrackedId(f) => Done(f)' \/ LatestVersion(i)' = LatestVersion(i)
  /\ DOMAIN block \subseteq DOMAIN block'

LEMMA TrackedStays ==
  ASSUME TrackedOnce, TrackedOnce', tracked \subseteq tracked', NEW f, IsTracked(f)
  PROVE  IsTracked(f)' /\ TrackedId(f)' = TrackedId(f)
<1>1. PICK t \in tracked : t.file = f /\ t.id = TrackedId(f)
  BY TrackedIdIn
<1>2. t \in tracked' /\ \A u \in tracked' : u.file = f => u = t
  BY <1>1 DEF TrackedOnce
<1>3. (CHOOSE u \in tracked' : u.file = f) = t
  BY <1>1, <1>2, OneOfFile
<1>4. QED  BY <1>1, <1>2, <1>3 DEF IsTracked, TrackedId

(* The version that a backup records is the latest of its file, with the   *)
(* hash that the source has.                                               *)
LEMMA RecordsLatest ==
  ASSUME TypeInv, IdsAscend, TrackedOnce, NEW b \in Backups, BackupTrue(b), JobShape,
         RecordVersion(b), NEW f, f = job[b].file
  PROVE  /\ f \in File /\ IsTracked(f) /\ job[b].ids[f] = TrackedId(f)
         /\ Done(f)'
         /\ \A i \in Nat : i # TrackedId(f) => VersionsOf(i)' = VersionsOf(i)
<1>1. job[b] \in Job /\ WellFormed(job[b]) /\ job[b].pc = "version"
  BY JobNow DEF TypeInv, TypeOK, RecordVersion, At
<1>2. f \in File /\ f \in Listed(job[b]) /\ IsTracked(f) /\ job[b].ids[f] = TrackedId(f)
  BY <1>1 DEF BackupTrue, ListingTrue, Numbered, WellFormed, WithFile, InLoop
<1>3. HashOf(b) \in DOMAIN block /\ source[f].hash = HashOf(b)
  BY <1>1 DEF BackupTrue, HashTrue, WithFile
<1> DEFINE i == TrackedId(f)
           new == [id |-> lastVersion + 1, tid |-> i, hash |-> HashOf(b),
                   mtime |-> Scanned(b).mtime, size |-> Scanned(b).size]
<1>4. i \in TrackedIds
  BY <1>2, TrackedIdIn DEF TrackedIds
<1>5. /\ version' = version \cup {new}
      /\ new.id = lastVersion + 1 /\ new.tid = i /\ new.hash = HashOf(b)
  BY <1>2, <1>3, <1>4 DEF RecordVersion, InsertFileVersion
<1>6. new # None
  <2>1. new \in Version
    BY <1>1, <1>3, <1>4 DEF Version, WellFormed, WithFile, Scanned, StatRecord, TypeInv, TypeOK,
       StoreTypeOK, TrackedIds, Tracked
  <2>2. QED  BY <2>1, NoneIsNothing
<1> HIDE DEF new
<1>7. \A v \in version : v.id \in Nat /\ v.id < new.id
  BY <1>5 DEF TypeInv, TypeOK, StoreTypeOK, Version, IdsAscend
<1>8. UNCHANGED <<tracked, source>>
  BY DEF RecordVersion, fileVars
<1>9. TrackedId(f)' = i
  BY <1>8 DEF TrackedId, IsTracked
<1>10. \A k : k = i => LatestVersion(k)' = new
  <2> SUFFICES ASSUME NEW k, k = i PROVE LatestVersion(k)' = new
    OBVIOUS
  <2>1. new \in VersionsOf(k)'
    BY <1>5 DEF VersionsOf
  <2>2. \A w \in VersionsOf(k)' : w.id \in Nat /\ w.id <= new.id /\ (w.id = new.id => w = new)
    BY <1>5, <1>7 DEF VersionsOf, TypeInv, TypeOK, StoreTypeOK
  <2>3. (CHOOSE u \in VersionsOf(k)' : \A w \in VersionsOf(k)' : w.id <= u.id) = new
    BY <2>1, <2>2, NewestIs
  <2>4. QED  BY <2>1, <2>3 DEF LatestVersion
<1>11. Done(f)'
  BY <1>3, <1>5, <1>6, <1>8, <1>9, <1>10 DEF Done
<1>12. \A k \in Nat : k # i => VersionsOf(k)' = VersionsOf(k)
  BY <1>5 DEF VersionsOf
<1>13. QED  BY <1>2, <1>11, <1>12

LEMMA BackupGrows ==
  ASSUME TypeInv, JobShape, IdsAscend, TrackedOnce, [Next]_vars,
         NEW b \in Backups, BackupStep(b), At(b, "idle") \/ BackupTrue(b)
  PROVE  Grows
<1>1. source' = source
  BY BackupReads
<1>2. TrackedOnce'
  BY TrackedStep
<1>3. tracked \subseteq tracked'
  BY DEF BackupStep, BackupWork, BackupFault, BackupCrash, StartBackup, FinishSession, OpenRoot,
     LoadTracked, InsertTracked, InsertTrackedFile, LoadLatest, NextFile, RootDone, HashFile,
     InsertBlock, BumpRef, StartCopy, FinishCopy, RecordVersion, StatementFails, RootFails,
     HashFails, CopyFails, storeVars
<1>4. \A f \in File : IsTracked(f) => IsTracked(f)' /\ TrackedId(f)' = TrackedId(f)
  BY <1>2, <1>3, TrackedStays
<1>5. DOMAIN block \subseteq DOMAIN block'
  BY DEF BackupStep, BackupWork, BackupFault, BackupCrash, StartBackup, FinishSession, OpenRoot,
     LoadTracked, InsertTracked, LoadLatest, NextFile, RootDone, HashFile, InsertBlock,
     InsertOrIgnore, Put, BumpRef, AddRef, StartCopy, FinishCopy, RecordVersion, StatementFails,
     RootFails, HashFails, CopyFails, storeVars
<1>6. ASSUME NEW f \in File, NEW i \in Nat, IsTracked(f), i = TrackedId(f)
      PROVE  Done(f)' \/ LatestVersion(i)' = LatestVersion(i)
  <2>1. CASE RecordVersion(b) /\ f # job[b].file
    <3>1. ~ At(b, "idle")
      BY <2>1 DEF RecordVersion, At
    <3>2. /\ IsTracked(job[b].file)
          /\ i # TrackedId(job[b].file) => VersionsOf(i)' = VersionsOf(i)
      BY <2>1, <3>1, RecordsLatest
    <3>3. i # TrackedId(job[b].file)
      BY <1>6, <2>1, <3>2, TrackedIdIn DEF TrackedOnce
    <3>4. QED  BY <3>2, <3>3 DEF LatestVersion
  <2>2. CASE RecordVersion(b) /\ f = job[b].file
    BY <2>2, RecordsLatest DEF RecordVersion, At
  <2>3. CASE ~ RecordVersion(b)
    <3>1. version' = version
      BY <2>3 DEF BackupStep, BackupWork, BackupFault, BackupCrash, StartBackup, FinishSession,
         OpenRoot, LoadTracked, InsertTracked, LoadLatest, NextFile, RootDone, HashFile,
         InsertBlock, BumpRef, StartCopy, FinishCopy, StatementFails, RootFails, HashFails,
         CopyFails, storeVars
    <3>2. QED  BY <3>1 DEF LatestVersion, VersionsOf
  <2>4. QED  BY <2>1, <2>2, <2>3
<1>7. ASSUME NEW f \in File, Done(f)
      PROVE  Done(f)'
  <2>1. IsTracked(f) /\ TrackedId(f) \in Nat
    BY <1>7, DoneIsTracked, TrackedIdIn DEF TypeInv, TypeOK, StoreTypeOK, Tracked
  <2>2. PICK i \in Nat : i = TrackedId(f)
    BY <2>1
  <2>3. TrackedId(f)' = i
    BY <1>4, <2>1, <2>2
  <2>4. CASE LatestVersion(i)' = LatestVersion(i)
    BY <1>1, <1>7, <2>2, <2>3, <2>4 DEF Done, Stat
  <2>5. QED  BY <1>6, <2>1, <2>2, <2>4
<1>8. QED  BY <1>1, <1>4, <1>5, <1>6, <1>7 DEF Grows

LEMMA OthersTrue ==
  ASSUME TypeInv, Grows, NEW c \in Backups, job'[c] = job[c], BackupTrue(c)
  PROVE  BackupTrue(c)'
<1>1. \A f : Stat(f)' = Stat(f)
  BY DEF Grows, Stat
<1>2. job[c] \in Job /\ Listed(job[c]) \subseteq File /\ Listed(job'[c]) = Listed(job[c])
  BY DEF TypeInv, TypeOK, EngineTypeOK, Listed
<1>3. ListingTrue(c)'
  BY <1>1, <1>2 DEF BackupTrue, ListingTrue, Grows, Listed
<1>4. Numbered(c)'
  BY <1>2 DEF BackupTrue, Numbered, Grows, At, Listed
<1>5. Compared(c)'
  <2> SUFFICES ASSUME NEW f \in Listed(job[c]), job[c].pc \in InLoop, Left(c, f)
               PROVE  Done(f)' \/ job'[c].latest[f] = LatestVersion(job[c].ids[f])'
    BY <1>2 DEF Compared, Left, Listed
  <2>1. f \in File /\ IsTracked(f) /\ job[c].ids[f] = TrackedId(f) /\ job[c].ids[f] \in Nat
    BY <1>2 DEF BackupTrue, Numbered, Job
  <2>2. PICK i \in Nat : i = job[c].ids[f]
    BY <2>1
  <2>3. Done(f)' \/ LatestVersion(i)' = LatestVersion(i)
    BY <2>1, <2>2 DEF Grows
  <2>4. Done(f)' \/ job'[c].latest[f] = LatestVersion(i)'
    BY <2>1, <2>2, <2>3 DEF BackupTrue, Compared, Grows
  <2>5. job'[c].ids[f] = i
    BY <2>2
  <2>6. QED  BY <2>4, <2>5
<1>6. HashTrue(c)'
  BY DEF BackupTrue, HashTrue, Grows, HashOf
<1>7. Covers(c)'
  BY <1>2 DEF BackupTrue, Covers, Due, Left, Grows, Listed, TypeInv, TypeOK, FilesTypeOK
<1>8. QED  BY <1>3, <1>4, <1>5, <1>6, <1>7 DEF BackupTrue

-----------------------------------------------------------------------------
(* A backup's own steps, one root after the other ...                      *)

LEMMA BetweenIs ==
  ASSUME NEW j \in Job, NEW fail \in BOOLEAN
  PROVE  LET k == BetweenRoots(j, fail)
         IN /\ k.pc = "root" /\ k.roots = j.roots /\ k.failed = (j.failed \/ fail)
            /\ Listed(k) = {} /\ k.todo = {}
BY DEF BetweenRoots, Idle, Listed, Job

LEMMA RootEnds ==
  ASSUME TypeInv, Grows, NEW b \in Backups, BackupTrue(b), NEW fail \in BOOLEAN,
         Become(b, BetweenRoots(job[b], fail)),
         fail \/ job[b].failed
           \/ \A f \in DOMAIN source : Done(f) \/ RootOf[f] \in job[b].roots
  PROVE  BackupTrue(b)'
<1>1. job[b] \in Job
  BY DEF TypeInv, TypeOK, EngineTypeOK
<1>2. /\ job'[b].pc = "root" /\ job'[b].roots = job[b].roots
      /\ job'[b].failed = (job[b].failed \/ fail) /\ Listed(job'[b]) = {}
  BY <1>1, BetweenIs, JobMoves
<1>3. ListingTrue(b)' /\ Numbered(b)' /\ Compared(b)' /\ HashTrue(b)'
  BY <1>2 DEF ListingTrue, Numbered, Compared, HashTrue, WithFile, InLoop
<1>4. Covers(b)'
  BY <1>2 DEF Covers, Due, Grows, TypeInv, TypeOK, FilesTypeOK
<1>5. QED  BY <1>3, <1>4 DEF BackupTrue

LEMMA StartTrue ==
  ASSUME TypeInv, Grows, NEW b \in Backups, StartBackup(b)
  PROVE  BackupTrue(b)'
<1> DEFINE j == [Idle EXCEPT !.pc = "root", !.sid = Len(session) + 1, !.roots = Root]
<1>1. j.pc = "root" /\ j.roots = Root /\ Listed(j) = {}
  BY DEF Idle, Listed
<1>2. Become(b, j)
  BY DEF StartBackup
<1> HIDE DEF j
<1>3. job'[b] = j
  BY <1>2, JobMoves
<1>4. ListingTrue(b)' /\ Numbered(b)' /\ Compared(b)' /\ HashTrue(b)'
  BY <1>1, <1>3 DEF ListingTrue, Numbered, Compared, HashTrue, WithFile, InLoop
<1>5. \A f \in DOMAIN source' : RootOf[f] \in Root
  BY StoreAssumption DEF Grows, TypeInv, TypeOK, FilesTypeOK
<1>6. Covers(b)'
  BY <1>1, <1>3, <1>5 DEF Covers, Due
<1>7. QED  BY <1>4, <1>6 DEF BackupTrue

LEMMA StatIsRecord ==
  ASSUME TypeInv, NEW f \in DOMAIN source
  PROVE  Stat(f) \in StatRecord
BY FilesAssumption DEF TypeInv, TypeOK, FilesTypeOK, Stat, StatRecord, SourceFile

LEMMA OpenRootTrue ==
  ASSUME TypeInv, Grows, NEW b \in Backups, BackupTrue(b), NEW r \in Root, OpenRoot(b, r)
  PROVE  BackupTrue(b)'
<1> DEFINE here == {f \in DOMAIN source : RootOf[f] = r}
           scan == [f \in File |-> IF f \in here THEN Stat(f) ELSE None]
           j == [job[b] EXCEPT !.pc = "tracked", !.roots = @ \ {r}, !.scan = scan]
<1>1. job[b] \in Job /\ job[b].pc = "root" /\ DOMAIN source \subseteq File
  BY DEF TypeInv, TypeOK, EngineTypeOK, FilesTypeOK, OpenRoot, At
<1>2. /\ j.pc = "tracked" /\ j.roots = job[b].roots \ {r} /\ j.scan = scan
      /\ j.failed = job[b].failed
  BY <1>1 DEF Job
<1>3. Become(b, j)
  BY DEF OpenRoot
<1>4. Listed(j) = here /\ \A f \in here : j.scan[f] = Stat(f)
  BY <1>1, <1>2, StatIsRecord, NoneIsNothing DEF Listed
<1> HIDE DEF j
<1>5. job'[b] = j
  BY <1>3, JobMoves
<1>6. \A f : Stat(f)' = Stat(f)
  BY DEF Grows, Stat
<1>7. ListingTrue(b)'
  BY <1>2, <1>4, <1>5, <1>6 DEF ListingTrue, Grows, WithFile
<1>8. Numbered(b)' /\ Compared(b)' /\ HashTrue(b)'
  BY <1>2, <1>5 DEF Numbered, Compared, HashTrue, WithFile, InLoop, At
<1>9. Covers(b)'
  BY <1>1, <1>2, <1>4, <1>5 DEF BackupTrue, Covers, Due, InLoop, WithFile, Grows
<1>10. QED  BY <1>7, <1>8, <1>9 DEF BackupTrue

LEMMA LoadTrackedTrue ==
  ASSUME TypeInv, Grows, NEW b \in Backups, BackupTrue(b), LoadTracked(b)
  PROVE  BackupTrue(b)'
<1> DEFINE listed == Listed(job[b])
           ids == [f \in File |-> IF f \in listed THEN TrackedId(f) ELSE 0]
           todo == {f \in listed : ~ IsTracked(f)}
           j == [job[b] EXCEPT !.pc = "track", !.ids = ids, !.todo = todo]
<1>1. job[b] \in Job /\ job[b].pc = "tracked" /\ listed \subseteq File
  BY DEF TypeInv, TypeOK, EngineTypeOK, LoadTracked, At, Listed
<1>2. /\ j.pc = "track" /\ j.roots = job[b].roots /\ j.scan = job[b].scan
      /\ j.failed = job[b].failed /\ j.ids = ids /\ j.todo = todo
  BY <1>1 DEF Job
<1>3. Become(b, j)
  BY DEF LoadTracked
<1>4. Listed(j) = listed
  BY <1>2 DEF Listed
<1> HIDE DEF j
<1>5. job'[b] = j
  BY <1>3, JobMoves
<1>6. \A f : Stat(f)' = Stat(f)
  BY DEF Grows, Stat
<1>7. ListingTrue(b)'
  BY <1>2, <1>4, <1>5, <1>6 DEF BackupTrue, ListingTrue, Grows, WithFile
<1>8. Numbered(b)'
  BY <1>1, <1>2, <1>4, <1>5 DEF Numbered, Grows, InLoop, WithFile, At
<1>9. Compared(b)' /\ HashTrue(b)'
  BY <1>2, <1>5 DEF Compared, HashTrue, WithFile, InLoop
<1>10. Covers(b)'
  BY <1>1, <1>2, <1>4, <1>5
     DEF BackupTrue, Covers, Due, InLoop, WithFile, Grows, TypeInv, TypeOK, FilesTypeOK
<1>11. QED  BY <1>7, <1>8, <1>9, <1>10 DEF BackupTrue

LEMMA InsertTrackedTrue ==
  ASSUME TypeInv, TrackedOnce', Grows, NEW b \in Backups, BackupTrue(b),
         NEW f \in File, InsertTracked(b, f)
  PROVE  BackupTrue(b)'
<1> DEFINE ids == [job[b].ids EXCEPT ![f] = lastTracked + 1]
           j == [job[b] EXCEPT !.todo = @ \ {f}, !.ids = ids]
<1>1. job[b] \in Job /\ job[b].pc = "track"
  BY DEF TypeInv, TypeOK, EngineTypeOK, InsertTracked, At
<1>2. CASE Become(b, BetweenRoots(job[b], TRUE))
  BY <1>2, RootEnds
<1>3. CASE InsertTrackedFile(f) /\ Become(b, j)
  <2>1. /\ j.pc = "track" /\ j.roots = job[b].roots /\ j.scan = job[b].scan
        /\ j.failed = job[b].failed /\ j.ids = ids /\ j.todo = job[b].todo \ {f}
        /\ ids[f] = lastTracked + 1 /\ \A e \in File : e # f => ids[e] = job[b].ids[e]
    BY <1>1 DEF Job
  <2>2. Listed(j) = Listed(job[b])
    BY <2>1 DEF Listed
  <2> HIDE DEF j, ids
  <2>3. job'[b] = j
    BY <1>3, JobMoves
  <2>4. \A e : Stat(e)' = Stat(e)
    BY DEF Grows, Stat
  <2>5. ListingTrue(b)'
    BY <2>1, <2>2, <2>3, <2>4 DEF BackupTrue, ListingTrue, Grows, WithFile
  <2>6. IsTracked(f)' /\ TrackedId(f)' = lastTracked + 1
    <3> DEFINE new == [id |-> lastTracked + 1, file |-> f]
    <3>1. new \in tracked' /\ new.file = f /\ new.id = lastTracked + 1
      BY <1>3 DEF InsertTrackedFile
    <3> HIDE DEF new
    <3>2. \A u \in tracked' : u.file = f => u = new
      BY <3>1 DEF TrackedOnce
    <3>3. (CHOOSE u \in tracked' : u.file = f) = new
      BY <3>1, <3>2, OneOfFile
    <3>4. QED  BY <3>1, <3>3 DEF IsTracked, TrackedId
  <2>7. Numbered(b)'
    <3> SUFFICES ASSUME NEW e \in Listed(job[b]), e \notin job[b].todo \/ e = f
                 PROVE  IsTracked(e)' /\ ids[e] = TrackedId(e)'
      BY <2>1, <2>2, <2>3 DEF Numbered, InLoop, WithFile, At
    <3>1. CASE e = f
      BY <2>1, <2>6, <3>1
    <3>2. CASE e # f
      <4>1. e \in File
        BY DEF Listed
      <4>2. IsTracked(e) /\ job[b].ids[e] = TrackedId(e)
        BY <1>1, <3>2 DEF BackupTrue, Numbered, At
      <4>3. QED  BY <2>1, <3>2, <4>1, <4>2 DEF Grows
    <3>3. QED  BY <3>1, <3>2
  <2>8. Compared(b)' /\ HashTrue(b)'
    BY <2>1, <2>3 DEF Compared, HashTrue, WithFile, InLoop
  <2>9. Covers(b)'
    BY <1>1, <2>1, <2>2, <2>3
       DEF BackupTrue, Covers, Due, InLoop, WithFile, Grows, TypeInv, TypeOK, FilesTypeOK
  <2>10. QED  BY <2>5, <2>7, <2>8, <2>9 DEF BackupTrue
<1>4. QED  BY <1>2, <1>3 DEF InsertTracked

LEMMA LoadLatestTrue ==
  ASSUME TypeInv, Grows, NEW b \in Backups, BackupTrue(b), LoadLatest(b)
  PROVE  BackupTrue(b)'
<1> DEFINE latest == [f \in File |-> LatestVersion(job[b].ids[f])]
           j == [job[b] EXCEPT !.pc = "file", !.todo = Listed(job[b]), !.latest = latest]
<1>1. job[b] \in Job /\ job[b].pc = "track" /\ job[b].todo = {} /\ version' = version
  BY DEF TypeInv, TypeOK, EngineTypeOK, LoadLatest, At, storeVars
<1>2. /\ j.pc = "file" /\ j.roots = job[b].roots /\ j.scan = job[b].scan
      /\ j.failed = job[b].failed /\ j.ids = job[b].ids /\ j.todo = Listed(job[b])
      /\ j.latest = latest
  BY <1>1 DEF Job
<1>3. Become(b, j)
  BY DEF LoadLatest
<1>4. Listed(j) = Listed(job[b])
  BY <1>2 DEF Listed
<1> HIDE DEF j
<1>5. job'[b] = j
  BY <1>3, JobMoves
<1>6. \A f : Stat(f)' = Stat(f)
  BY DEF Grows, Stat
<1>7. ListingTrue(b)'
  BY <1>2, <1>4, <1>5, <1>6 DEF BackupTrue, ListingTrue, Grows, WithFile
<1>8. Numbered(b)'
  BY <1>1, <1>2, <1>4, <1>5 DEF BackupTrue, Numbered, Grows, InLoop, WithFile, At, Listed
<1>9. Compared(b)'
  <2> SUFFICES ASSUME NEW f \in Listed(job[b])
               PROVE  latest[f] = LatestVersion(job[b].ids[f])'
    BY <1>2, <1>4, <1>5 DEF Compared, Listed
  <2>1. \A i : LatestVersion(i)' = LatestVersion(i)
    BY <1>1 DEF LatestVersion, VersionsOf
  <2>2. PICK i : i = job[b].ids[f]
    OBVIOUS
  <2>3. job'[b].ids[f] = i
    BY <1>2, <1>5, <2>2
  <2>4. latest[f] = LatestVersion(i)
    BY <2>2 DEF Listed
  <2>5. QED  BY <2>1, <2>2, <2>3, <2>4
<1>10. HashTrue(b)'
  BY <1>2, <1>5 DEF HashTrue, WithFile
<1>11. Covers(b)'
  BY <1>1, <1>2, <1>4, <1>5
     DEF BackupTrue, Covers, Due, Left, InLoop, WithFile, Grows, TypeInv, TypeOK, FilesTypeOK
<1>12. QED  BY <1>7, <1>8, <1>9, <1>10, <1>11 DEF BackupTrue

LEMMA RootDoneTrue ==
  ASSUME TypeInv, Grows, NEW b \in Backups, BackupTrue(b), RootDone(b)
  PROVE  BackupTrue(b)'
<1>1. job[b].failed \/ \A f \in DOMAIN source : Done(f) \/ RootOf[f] \in job[b].roots
  BY DEF BackupTrue, Covers, Due, Left, RootDone, At, WithFile
<1>2. QED  BY <1>1, RootEnds DEF RootDone

(* ... and one file of the root after the other. *)
LEMMA InLoopTrue ==
  ASSUME TypeInv, Grows, NEW b \in Backups, BackupTrue(b),
         job[b].pc \in InLoop, job'[b].pc \in InLoop,
         job'[b].scan = job[b].scan, job'[b].ids = job[b].ids, job'[b].latest = job[b].latest,
         job'[b].roots = job[b].roots, job'[b].failed = job[b].failed,
         \A f \in File : Left(b, f) => Left(b, f)' \/ Done(f)',
         \A f \in File : Left(b, f)' => Left(b, f),
         job'[b].pc \in WithFile => job'[b].file \in Listed(job[b]),
         HashTrue(b)'
  PROVE  BackupTrue(b)'
<1>1. Listed(job'[b]) = Listed(job[b]) /\ Listed(job[b]) \subseteq File
  BY DEF Listed
<1>2. \A f : Stat(f)' = Stat(f)
  BY DEF Grows, Stat
<1>3. ListingTrue(b)'
  BY <1>1, <1>2 DEF BackupTrue, ListingTrue, Grows
<1>4. Numbered(b)'
  BY <1>1 DEF BackupTrue, Numbered, Grows, Listed
<1>5. Compared(b)'
  <2> SUFFICES ASSUME NEW f \in Listed(job[b]), Left(b, f)
               PROVE  Done(f)' \/ job[b].latest[f] = LatestVersion(job[b].ids[f])'
    BY <1>1 DEF Compared, Listed
  <2>1. f \in File /\ IsTracked(f) /\ job[b].ids[f] = TrackedId(f) /\ job[b].ids[f] \in Nat
    BY <1>1 DEF BackupTrue, Numbered, TypeInv, TypeOK, EngineTypeOK, Job
  <2>2. PICK i \in Nat : i = job[b].ids[f]
    BY <2>1
  <2>3. Done(f)' \/ LatestVersion(i)' = LatestVersion(i)
    BY <2>1, <2>2 DEF Grows
  <2>4. Done(f)' \/ job[b].latest[f] = LatestVersion(i)'
    BY <2>1, <2>2, <2>3 DEF BackupTrue, Compared, Grows
  <2>5. \A k : k = i => LatestVersion(k)' = LatestVersion(i)'
    OBVIOUS
  <2>6. job'[b].ids[f] = i
    BY <2>2
  <2>7. QED  BY <2>4, <2>6
<1>6. Covers(b)'
  BY <1>1 DEF BackupTrue, Covers, Due, InLoop, WithFile, Grows, TypeInv, TypeOK, FilesTypeOK
<1>7. QED  BY <1>3, <1>4, <1>5, <1>6 DEF BackupTrue

LEMMA NextFileTrue ==
  ASSUME TypeInv, JobShape, Grows, NEW b \in Backups, BackupTrue(b), NEW f \in File, NextFile(b, f)
  PROVE  BackupTrue(b)'
<1> DEFINE turn == [job[b] EXCEPT !.todo = @ \ {f}]
           work == [turn EXCEPT !.pc = "hash", !.file = f]
<1>1. job[b] \in Job /\ WellFormed(job[b]) /\ job[b].pc = "file" /\ f \in job[b].todo
      /\ UNCHANGED <<tracked, version, source>>
  BY JobNow DEF TypeInv, TypeOK, NextFile, At, storeVars, fileVars
<1>2. f \in Listed(job[b])
  BY <1>1 DEF WellFormed
<1>3. /\ turn.pc = "file" /\ work.pc = "hash" /\ work.file = f
      /\ turn.scan = job[b].scan /\ turn.latest = job[b].latest
      /\ \A j \in {turn, work} :
           /\ j.scan = job[b].scan /\ j.ids = job[b].ids /\ j.latest = job[b].latest
           /\ j.roots = job[b].roots /\ j.failed = job[b].failed /\ j.todo = job[b].todo \ {f}
  BY <1>1 DEF Job
<1>4. Become(b, IF Unchanged(turn.scan[f], turn.latest[f]) THEN turn ELSE work)
  BY DEF NextFile
<1> HIDE DEF turn, work
<1>5. CASE Unchanged(turn.scan[f], turn.latest[f]) /\ job'[b] = turn
  <2>1. Done(f)
    <3>1. Done(f) \/ job[b].latest[f] = LatestVersion(TrackedId(f))
      BY <1>1, <1>2 DEF BackupTrue, Compared, Numbered, Left, InLoop, WithFile
    <3>2. job[b].scan[f] = Stat(f)
      BY <1>2 DEF BackupTrue, ListingTrue
    <3> SUFFICES ASSUME job[b].latest[f] = LatestVersion(TrackedId(f)) PROVE Done(f)
      BY <3>1
    <3> DEFINE v == LatestVersion(TrackedId(f))
    <3>3. v # None /\ v.mtime = Stat(f).mtime /\ v.size = Stat(f).size
      BY <1>3, <1>5, <3>2 DEF Unchanged
    <3> HIDE DEF v
    <3>4. [mtime |-> v.mtime, size |-> v.size] = Stat(f)
      BY <3>3 DEF Stat
    <3>5. QED  BY <3>3, <3>4 DEF v, Done
  <2>2. Done(f)'
    BY <2>1 DEF Grows
  <2>3. job[b].pc \in InLoop /\ job'[b].pc \in InLoop /\ job'[b].pc \notin WithFile
    BY <1>1, <1>3, <1>5 DEF InLoop, WithFile
  <2>4. \A e \in File : (Left(b, e) => Left(b, e)' \/ Done(e)') /\ (Left(b, e)' => Left(b, e))
    BY <1>1, <1>3, <1>5, <2>2, <2>3 DEF Left, WithFile
  <2>5. HashTrue(b)'
    BY <2>3 DEF HashTrue
  <2>6. QED  BY <1>3, <1>5, <2>3, <2>4, <2>5, InLoopTrue
<1>6. CASE job'[b] = work
  <2>1. job[b].pc \in InLoop /\ job'[b].pc \in InLoop /\ job'[b].pc \in WithFile
    BY <1>1, <1>3, <1>6 DEF InLoop, WithFile
  <2>2. \A e \in File : (Left(b, e) => Left(b, e)' \/ Done(e)') /\ (Left(b, e)' => Left(b, e))
    BY <1>1, <1>3, <1>6, <2>1 DEF Left, WithFile
  <2>3. HashTrue(b)'
    BY <1>3, <1>6 DEF HashTrue
  <2>4. QED  BY <1>2, <1>3, <1>6, <2>1, <2>2, <2>3, InLoopTrue
<1>7. QED  BY <1>4, <1>5, <1>6, JobMoves

LEMMA TurnIs ==
  ASSUME TypeInv, NEW b \in Backups, Become(b, NextTurn(job[b]))
  PROVE  /\ job'[b].pc = "file" /\ job'[b].scan = job[b].scan /\ job'[b].ids = job[b].ids
         /\ job'[b].latest = job[b].latest /\ job'[b].todo = job[b].todo
         /\ job'[b].roots = job[b].roots /\ job'[b].failed = job[b].failed
<1>1. job[b] \in Job
  BY DEF TypeInv, TypeOK, EngineTypeOK
<1>2. job'[b] = NextTurn(job[b])
  BY JobMoves
<1>3. QED  BY <1>1, <1>2 DEF NextTurn, Job

(* A turn ends when its file has what is asked for. *)
LEMMA TurnEnds ==
  ASSUME TypeInv, Grows, NEW b \in Backups, BackupTrue(b), job[b].pc \in WithFile,
         Become(b, NextTurn(job[b])), NEW f, f = job[b].file, Done(f)'
  PROVE  BackupTrue(b)'
<1>1. job[b].pc \in InLoop /\ job'[b].pc \in InLoop /\ job'[b].pc \notin WithFile
  BY TurnIs DEF InLoop, WithFile
<1>2. \A e \in File : (Left(b, e) => Left(b, e)' \/ Done(e)') /\ (Left(b, e)' => Left(b, e))
  BY <1>1, TurnIs DEF Left
<1>3. HashTrue(b)'
  BY <1>1 DEF HashTrue
<1>4. QED  BY <1>1, <1>2, <1>3, TurnIs, InLoopTrue

LEMMA HashFileTrue ==
  ASSUME TypeInv, JobShape, Grows, NEW b \in Backups, BackupTrue(b), HashFile(b)
  PROVE  BackupTrue(b)'
<1>0. PICK f : f = job[b].file
  OBVIOUS
<1>1. job[b] \in Job /\ WellFormed(job[b]) /\ job[b].pc = "hash"
      /\ UNCHANGED <<tracked, version, source>>
  BY JobNow DEF TypeInv, TypeOK, HashFile, At, storeVars
<1>2. f \in Listed(job[b]) /\ f \in File
  BY <1>0, <1>1 DEF BackupTrue, ListingTrue, WithFile, Listed
<1>3. CASE SameHash(b) /\ Become(b, NextTurn(job[b]))
  <2>1. Done(f) \/ job[b].latest[f] = LatestVersion(TrackedId(f))
    BY <1>0, <1>1, <1>2 DEF BackupTrue, Compared, Numbered, Left, InLoop, WithFile
  <2>2. Done(f)
    BY <1>0, <1>3, <2>1 DEF SameHash, Done
  <2>3. Done(f)'
    BY <1>2, <2>2 DEF Grows
  <2>4. QED  BY <1>0, <1>1, <1>3, <2>3, TurnEnds DEF WithFile
<1>4. ASSUME NEW t \in Target,
             Become(b, [job[b] EXCEPT !.pc = "insert", !.path = BuildPath(t, source[f].hash)])
      PROVE  BackupTrue(b)'
  <2> DEFINE p == BuildPath(t, source[f].hash)
             j == [job[b] EXCEPT !.pc = "insert", !.path = p]
  <2>1. /\ j.pc = "insert" /\ j.path = p /\ j.file = f /\ j.scan = job[b].scan
        /\ j.ids = job[b].ids /\ j.latest = job[b].latest /\ j.todo = job[b].todo
        /\ j.roots = job[b].roots /\ j.failed = job[b].failed
    BY <1>0, <1>1 DEF Job
  <2>2. p.hash = source[f].hash
    BY DEF BuildPath
  <2> HIDE DEF p
  <2>3. Become(b, j)
    BY <1>4 DEF p
  <2> HIDE DEF j
  <2>4. job'[b] = j
    BY <2>3, JobMoves
  <2>5. job[b].pc \in InLoop /\ job'[b].pc \in InLoop
    BY <1>1, <2>1, <2>4 DEF InLoop, WithFile
  <2>6. \A e \in File : (Left(b, e) => Left(b, e)' \/ Done(e)') /\ (Left(b, e)' => Left(b, e))
    BY <1>0, <1>1, <2>1, <2>4 DEF Left, WithFile
  <2>7. HashTrue(b)'
    BY <1>1, <2>1, <2>2, <2>4 DEF HashTrue, HashOf
  <2>8. QED  BY <1>2, <2>1, <2>4, <2>5, <2>6, <2>7, InLoopTrue
<1>5. QED  BY <1>0, <1>3, <1>4 DEF HashFile

(* From one statement or file operation on a file to the next. *)
LEMMA GoesOn ==
  ASSUME TypeInv, Grows, NEW b \in Backups, BackupTrue(b),
         job[b].pc \in WithFile \ {"hash"}, NEW pc \in WithFile \ {"hash", "insert"}, Goto(b, pc),
         HashOf(b) \in DOMAIN block'
  PROVE  BackupTrue(b)'
<1>1. job[b].pc \in InLoop /\ job'[b].pc \in InLoop
  BY GotoKeeps DEF InLoop
<1>2. \A e \in File : (Left(b, e) => Left(b, e)' \/ Done(e)') /\ (Left(b, e)' => Left(b, e))
  BY GotoKeeps DEF Left
<1>3. HashTrue(b)'
  BY GotoKeeps DEF BackupTrue, HashTrue, HashOf, Grows
<1>4. job'[b].file \in Listed(job[b])
  BY GotoKeeps DEF BackupTrue, ListingTrue
<1>5. QED  BY <1>1, <1>2, <1>3, <1>4, GotoKeeps, InLoopTrue

LEMMA RecordTrue ==
  ASSUME TypeInv, JobShape, IdsAscend, TrackedOnce, Grows,
         NEW b \in Backups, BackupTrue(b), RecordVersion(b)
  PROVE  BackupTrue(b)'
<1>1. PICK f : f = job[b].file
  OBVIOUS
<1>2. Done(f)'
  BY <1>1, RecordsLatest
<1>3. QED  BY <1>1, <1>2, TurnEnds DEF RecordVersion, At, WithFile

(* A failure that only a fault brings about does not happen, a file that   *)
(* was listed is there, and who dies has no more to show.                  *)
LEMMA FaultTrue ==
  ASSUME TypeInv, NEW b \in Backups, BackupTrue(b), BackupFault(b) \/ BackupCrash(b),
         Faults \subseteq {"crash", "offline"}
  PROVE  At(b, "idle")'
<1>1. job[b].pc \in WithFile => job[b].file \in DOMAIN source
  BY DEF BackupTrue, ListingTrue
<1>2. ~ BackupFault(b)
  BY <1>1 DEF BackupFault, StatementFails, RootFails, HashFails, CopyFails, At, WithFile
<1>3. Become(b, Idle)
  BY <1>2 DEF BackupCrash
<1>4. QED  BY <1>3, JobMoves DEF At, Idle

LEMMA OwnStep ==
  ASSUME TypeInv, JobShape, IdsAscend, TrackedOnce, [Next]_vars,
         NEW b \in Backups, BackupStep(b), At(b, "idle") \/ BackupTrue(b),
         Faults \subseteq {"crash", "offline"}
  PROVE  At(b, "idle")' \/ BackupTrue(b)'
<1>1. Grows /\ TrackedOnce'
  BY BackupGrows, TrackedStep
<1>2. CASE At(b, "idle")
  <2>1. StartBackup(b)
    BY <1>2 DEF BackupStep, BackupWork, BackupFault, BackupCrash, FinishSession, OpenRoot,
       LoadTracked, InsertTracked, LoadLatest, NextFile, RootDone, HashFile, InsertBlock, BumpRef,
       StartCopy, FinishCopy, RecordVersion, StatementFails, RootFails, HashFails, CopyFails, At
  <2>2. QED  BY <1>1, <2>1, StartTrue
<1>3. CASE BackupTrue(b) /\ ~ At(b, "idle")
  <2>1. FinishSession(b) => At(b, "idle")'
    BY JobMoves DEF FinishSession, At, Idle
  <2>2. LoadTracked(b) \/ LoadLatest(b) \/ RootDone(b) \/ HashFile(b) \/ RecordVersion(b)
          => BackupTrue(b)'
    BY <1>1, <1>3, LoadTrackedTrue, LoadLatestTrue, RootDoneTrue, HashFileTrue, RecordTrue
  <2>3. (\E r \in Root : OpenRoot(b, r)) => BackupTrue(b)'
    BY <1>1, <1>3, OpenRootTrue
  <2>4. (\E f \in File : InsertTracked(b, f) \/ NextFile(b, f)) => BackupTrue(b)'
    BY <1>1, <1>3, InsertTrackedTrue, NextFileTrue
  <2>5. CASE InsertBlock(b)
    <3>1. HashOf(b) \in DOMAIN block'
      BY <2>5 DEF InsertBlock, InsertOrIgnore, Put
    <3>2. PICK pc \in {"bump", "copy"} : Goto(b, pc)
      BY <2>5 DEF InsertBlock
    <3>3. job[b].pc \in WithFile \ {"hash"} /\ pc \in WithFile \ {"hash", "insert"}
      BY <2>5, <3>2 DEF InsertBlock, At, WithFile
    <3>4. QED  BY <1>1, <1>3, <3>1, <3>2, <3>3, GoesOn
  <2>6. CASE BumpRef(b) \/ StartCopy(b) \/ FinishCopy(b)
    <3>1. job[b].pc \in {"bump", "copy", "copying"}
      BY <2>6 DEF BumpRef, StartCopy, FinishCopy, At
    <3>2. HashOf(b) \in DOMAIN block'
      BY <1>1, <1>3, <3>1 DEF BackupTrue, HashTrue, WithFile, Grows
    <3>3. Goto(b, "version") \/ Goto(b, "copying")
      BY <2>6 DEF BumpRef, StartCopy, FinishCopy
    <3>4. QED  BY <1>1, <1>3, <3>1, <3>2, <3>3, GoesOn DEF WithFile
  <2>7. BackupFault(b) \/ BackupCrash(b) => At(b, "idle")'
    BY <1>3, FaultTrue
  <2>8. ~ StartBackup(b)
    BY <1>3 DEF StartBackup
  <2>9. QED
    BY <2>1, <2>2, <2>3, <2>4, <2>5, <2>6, <2>7, <2>8 DEF BackupStep, BackupWork
<1>4. QED  BY <1>2, <1>3

LEMMA BackStep ==
  ASSUME TypeInv, JobShape, IdsAscend, BackInv, [Next]_vars,
         Faults \subseteq {"crash", "offline"}
  PROVE  BackInv'
<1>1. TrackedOnce'
  BY TrackedStep DEF BackInv
<1> SUFFICES ASSUME Quiet' PROVE NobodyElse' /\ \A b \in Backups : At(b, "idle")' \/ BackupTrue(b)'
  BY <1>1 DEF BackInv
<1>2. NobodyElse' /\ \A b \in Backups : At(b, "idle") \/ BackupTrue(b)
  BY QuietSteps DEF BackInv
<1>3. ASSUME NEW b \in Backups, BackupStep(b), NEW c \in Backups
      PROVE  At(c, "idle")' \/ BackupTrue(c)'
  <2>1. Grows
    BY <1>2, <1>3, BackupGrows DEF BackInv
  <2>2. CASE c = b
    BY <1>2, <1>3, <2>2, OwnStep DEF BackInv
  <2>3. CASE c # b
    <3>1. job'[c] = job[c]
      BY <1>3, <2>3, OthersRest
    <3>2. QED  BY <1>2, <2>1, <3>1, OthersTrue DEF At
  <2>4. QED  BY <2>2, <2>3
<1>4. CASE SourceStep
  BY <1>2, <1>4 DEF SourceStep, At
<1>5. ASSUME UNCHANGED vars, NEW b \in Backups
      PROVE  At(b, "idle")' \/ BackupTrue(b)'
  <2>1. \A f : Stat(f)' = Stat(f) /\ IsTracked(f)' = IsTracked(f) /\ TrackedId(f)' = TrackedId(f)
    BY <1>5 DEF Stat, IsTracked, TrackedId, vars, storeVars, fileVars
  <2>2. \A i : LatestVersion(i)' = LatestVersion(i)
    BY <1>5 DEF LatestVersion, VersionsOf, vars, storeVars
  <2>3. \A f : Done(f) => Done(f)'
    BY <1>5, <2>1, <2>2 DEF Done, vars, fileVars
  <2>4. Grows
    BY <1>5, <2>1, <2>2, <2>3 DEF Grows, vars, storeVars, fileVars
  <2>5. job' = job
    BY <1>5 DEF vars
  <2>6. QED  BY <1>2, <2>4, <2>5, OthersTrue DEF At
<1>6. QED
  BY <1>2, <1>3, <1>4, <1>5, QuietSteps

(* What CompletedIsBackedUp says of a step. *)
CompletedNow ==
  \A b \in Backups :
    FinishSession(b) /\ ~ job[b].failed /\ (\A p \in Callers : runs[p] = 0)
      => \A f \in DOMAIN source :
           LET v == LatestVersion(TrackedId(f))
           IN /\ v # None
              /\ \/ v.hash = source[f].hash
                 \/ [mtime |-> v.mtime, size |-> v.size] = Stat(f)

(* A backup that ends as "completed" has a version of every file, whatever *)
(* other backups run beside it and wherever they die, as long as nothing   *)
(* fails, the sources rest and no collection or check was run: the listing *)
(* is true, what check_changed or the hash finds unchanged has a version   *)
(* already, everything else gets one, and another backup's version of the  *)
(* same file is as good (run, backup_root, check_changed).                 *)
THEOREM CompletedHasAll ==
  ASSUME Faults \subseteq {"crash", "offline"}
  PROVE  Spec => CompletedIsBackedUp
<1>1. Init => BackInv
  <2> SUFFICES ASSUME Init PROVE BackInv
    OBVIOUS
  <2>1. TrackedOnce
    BY DEF Init, StoreInit, TrackedOnce
  <2>2. NobodyElse
    BY DEF Init, StoreInit, VerifierInit, NoGc, NoCheck, NoCall, NobodyElse
  <2>3. \A b \in Backups : At(b, "idle")
    BY DEF Init, EngineInit, Idle, At
  <2>4. QED  BY <2>1, <2>2, <2>3 DEF BackInv
<1>2. IInv => TypeInv /\ JobShape /\ IdsAscend
  BY UnfoldInv DEF IInv
<1>3. IInv /\ BackInv /\ [Next]_vars => BackInv'
  BY <1>2, BackStep
<1>4. IInv /\ BackInv /\ [Next]_vars => [CompletedNow]_vars
  <2> SUFFICES ASSUME IInv, BackInv, NEW b \in Backups, FinishSession(b), ~ job[b].failed,
                      \A p \in Callers : runs[p] = 0, NEW f \in DOMAIN source
               PROVE  Done(f)
    BY DEF CompletedNow, Done
  <2>1. BackupTrue(b) /\ job[b].pc = "root" /\ job[b].roots = {}
    BY DEF BackInv, Quiet, FinishSession, At
  <2>2. QED  BY <2>1 DEF BackupTrue, Covers, Due, InLoop, WithFile
<1>5. Spec => [][CompletedNow]_vars
  BY <1>1, <1>3, <1>4, Inductive, PTL DEF Spec
<1>6. QED  BY <1>5 DEF CompletedIsBackedUp, CompletedNow
=============================================================================
