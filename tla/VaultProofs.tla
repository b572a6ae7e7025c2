----------------------------- MODULE VaultProofs -----------------------------
(***************************************************************************)
(* Theorems about Vault for every number of files, contents, targets and   *)
(* processes, every set of faults and every bound.                         *)
(***************************************************************************)
EXTENDS Vault, SequenceTheorems, TLAPS

-----------------------------------------------------------------------------
(* Part 1: types.  The locals of a backup are only as large as its place   *)
(* in backup_root needs (JobShape), so both are invariant together.        *)

(* A backup that becomes a well-formed job leaves the jobs well formed. *)
LEMMA BecomeOK ==
  ASSUME EngineTypeOK, JobShape, NEW b \in Backups, NEW j \in Job, WellFormed(j),
         Become(b, j)
  PROVE  EngineTypeOK' /\ JobShape'
BY DEF EngineTypeOK, JobShape, Become

LEMMA JobNow ==
  ASSUME EngineTypeOK, JobShape, NEW b \in Backups
  PROVE  job[b] \in Job /\ WellFormed(job[b])
BY DEF EngineTypeOK, JobShape

LEMMA IdleOK == Idle \in Job /\ WellFormed(Idle)
BY DEF Idle, Job, JobPC, WellFormed, WithFile

LEMMA BetweenRootsOK ==
  ASSUME NEW j \in Job, NEW fail \in BOOLEAN
  PROVE  BetweenRoots(j, fail) \in Job /\ WellFormed(BetweenRoots(j, fail))
BY IdleOK DEF BetweenRoots, Idle, Job, JobPC, WellFormed, WithFile

LEMMA NextTurnOK ==
  ASSUME NEW j \in Job, WellFormed(j)
  PROVE  NextTurn(j) \in Job /\ WellFormed(NextTurn(j))
BY DEF NextTurn, Job, JobPC, WellFormed, WithFile, Listed

(* From one place to another with a file and a path, and nothing else. *)
LEMMA GotoOK ==
  ASSUME EngineTypeOK, JobShape, NEW b \in Backups,
         job[b].pc \in WithFile \ {"hash"},
         NEW pc \in WithFile, Goto(b, pc)
  PROVE  EngineTypeOK' /\ JobShape'
<1> DEFINE j == [job[b] EXCEPT !.pc = pc]
<1>1. j \in Job
  BY JobNow DEF Job, JobPC, WithFile
<1>2. WellFormed(j)
  BY JobNow DEF Job, WellFormed, WithFile, Listed
<1>3. QED  BY <1>1, <1>2, BecomeOK DEF Goto

LEMMA StartBackupJobs ==
  ASSUME TypeOK, JobShape, NEW b \in Backups, StartBackup(b)
  PROVE  EngineTypeOK' /\ JobShape'
<1> DEFINE j == [Idle EXCEPT !.pc = "root", !.sid = Len(session) + 1, !.roots = Root]
<1>1. Len(session) + 1 \in Nat
  BY DEF TypeOK, StoreTypeOK
<1>2. j \in Job
  BY <1>1, IdleOK DEF Idle, Job, JobPC
<1>3. WellFormed(j)
  BY <1>1 DEF Idle, WellFormed, WithFile, Listed
<1>4. QED  BY <1>2, <1>3, BecomeOK DEF StartBackup, TypeOK

LEMMA OpenRootJobs ==
  ASSUME TypeOK, JobShape, NEW b \in Backups, NEW r \in Root, OpenRoot(b, r)
  PROVE  EngineTypeOK' /\ JobShape'
<1> DEFINE here == {f \in DOMAIN source : RootOf[f] = r}
           scan == [f \in File |-> IF f \in here THEN Stat(f) ELSE None]
           j == [job[b] EXCEPT !.pc = "tracked", !.roots = @ \ {r}, !.scan = scan]
<1>1. job[b] \in Job /\ WellFormed(job[b])
  BY JobNow DEF TypeOK
<1>2. scan \in [File -> StatRecord \cup {None}]
  BY FilesAssumption DEF TypeOK, FilesTypeOK, Stat, SourceFile, StatRecord
<1>3. j \in Job
  BY <1>1, <1>2 DEF Job, JobPC
<1>4. WellFormed(j)
  BY <1>1 DEF OpenRoot, At, Job, WellFormed, WithFile, Listed
<1>5. QED  BY <1>3, <1>4, BecomeOK DEF OpenRoot, TypeOK

LEMMA LoadTrackedJobs ==
  ASSUME TypeOK, JobShape, NEW b \in Backups, LoadTracked(b)
  PROVE  EngineTypeOK' /\ JobShape'
<1> DEFINE listed == Listed(job[b])
           ids == [f \in File |-> IF f \in listed THEN TrackedId(f) ELSE 0]
           todo == {f \in listed : ~ IsTracked(f)}
           j == [job[b] EXCEPT !.pc = "track", !.ids = ids, !.todo = todo]
<1>1. job[b] \in Job /\ WellFormed(job[b])
  BY JobNow DEF TypeOK
<1>2. \A f \in File : TrackedId(f) \in Nat
  BY DEF TypeOK, StoreTypeOK, TrackedId, IsTracked, Tracked
<1>3. ids \in [File -> Nat] /\ todo \subseteq File
  BY <1>2 DEF Listed
<1> HIDE DEF ids
<1>4. j \in Job
  BY <1>1, <1>3 DEF Job, JobPC
<1>5. WellFormed(j)
  BY <1>1 DEF Job, WellFormed, WithFile, Listed
<1>6. QED  BY <1>4, <1>5, BecomeOK DEF LoadTracked, TypeOK, ids

LEMMA InsertTrackedJobs ==
  ASSUME TypeOK, JobShape, NEW b \in Backups, NEW f \in File, InsertTracked(b, f)
  PROVE  EngineTypeOK' /\ JobShape'
<1> DEFINE j == [job[b] EXCEPT !.todo = @ \ {f}, !.ids = [@ EXCEPT ![f] = lastTracked + 1]]
<1>1. job[b] \in Job /\ WellFormed(job[b])
  BY JobNow DEF TypeOK
<1>2. CASE Become(b, j)
  <2>1. [job[b].ids EXCEPT ![f] = lastTracked + 1] \in [File -> Nat]
    BY <1>1 DEF TypeOK, StoreTypeOK, Job
  <2>2. j \in Job
    BY <1>1, <2>1 DEF Job, JobPC
  <2>3. WellFormed(j)
    BY <1>1 DEF InsertTracked, At, Job, WellFormed, WithFile, Listed
  <2>4. QED  BY <1>2, <2>2, <2>3, BecomeOK DEF TypeOK
<1>3. CASE Become(b, BetweenRoots(job[b], TRUE))
  BY <1>1, <1>3, BetweenRootsOK, BecomeOK DEF TypeOK
<1>4. QED  BY <1>2, <1>3 DEF InsertTracked

LEMMA LatestVersionOK ==
  ASSUME StoreTypeOK, NEW i
  PROVE  LatestVersion(i) = None \/ LatestVersion(i) \in version
BY DEF LatestVersion, VersionsOf

LEMMA LoadLatestJobs ==
  ASSUME TypeOK, JobShape, NEW b \in Backups, LoadLatest(b)
  PROVE  EngineTypeOK' /\ JobShape'
<1> DEFINE latest == [f \in File |-> LatestVersion(job[b].ids[f])]
           j == [job[b] EXCEPT !.pc = "file", !.todo = Listed(job[b]), !.latest = latest]
<1>1. job[b] \in Job /\ WellFormed(job[b])
  BY JobNow DEF TypeOK
<1>2. latest \in [File -> Version \cup {None}]
  BY LatestVersionOK DEF TypeOK, StoreTypeOK
<1>3. j \in Job
  BY <1>1, <1>2 DEF Job, JobPC, Listed
<1>4. WellFormed(j)
  BY <1>1 DEF Job, WellFormed, WithFile, Listed
<1>5. QED  BY <1>3, <1>4, BecomeOK DEF LoadLatest, TypeOK

LEMMA NextFileJobs ==
  ASSUME TypeOK, JobShape, NEW b \in Backups, NEW f \in File, NextFile(b, f)
  PROVE  EngineTypeOK' /\ JobShape'
<1> DEFINE turn == [job[b] EXCEPT !.todo = @ \ {f}]
           work == [turn EXCEPT !.pc = "hash", !.file = f]
<1>1. job[b] \in Job /\ WellFormed(job[b])
  BY JobNow DEF TypeOK
<1>2. turn \in Job /\ work \in Job
  BY <1>1 DEF Job, JobPC
<1>3. WellFormed(turn) /\ WellFormed(work)
  BY <1>1 DEF Job, WellFormed, WithFile, Listed, NextFile, At
<1>4. QED  BY <1>2, <1>3, BecomeOK DEF NextFile, TypeOK

LEMMA HashFileJobs ==
  ASSUME TypeOK, JobShape, NEW b \in Backups, HashFile(b)
  PROVE  EngineTypeOK' /\ JobShape'
<1>1. job[b] \in Job /\ WellFormed(job[b])
  BY JobNow DEF TypeOK
<1>2. CASE Become(b, NextTurn(job[b]))
  BY <1>1, <1>2, NextTurnOK, BecomeOK DEF TypeOK
<1>3. ASSUME NEW t \in Target, NEW h \in Hash, At(b, "hash"),
             Become(b, [job[b] EXCEPT !.pc = "insert", !.path = BuildPath(t, h)])
      PROVE  EngineTypeOK' /\ JobShape'
  <2> DEFINE j == [job[b] EXCEPT !.pc = "insert", !.path = BuildPath(t, h)]
  <2>1. BuildPath(t, h) \in Path
    BY DEF BuildPath, Path, TypeOK, FilesTypeOK
  <2>2. j \in Job
    BY <1>1, <2>1 DEF Job, JobPC
  <2>3. WellFormed(j)
    BY <1>1, <1>3, <2>1 DEF Job, WellFormed, WithFile, At, Listed
  <2>4. QED  BY <1>3, <2>2, <2>3, BecomeOK DEF TypeOK
<1>4. QED  BY <1>1, <1>2, <1>3 DEF HashFile, TypeOK, FilesTypeOK, SourceFile

(* The failures end a turn, a root or the whole job. *)
LEMMA FaultJobs ==
  ASSUME TypeOK, JobShape, NEW b \in Backups, BackupFault(b) \/ BackupCrash(b)
  PROVE  EngineTypeOK' /\ JobShape'
<1>1. job[b] \in Job /\ WellFormed(job[b])
  BY JobNow DEF TypeOK
<1>2. ASSUME NEW r \in Root, RootFails(b, r)
      PROVE  EngineTypeOK' /\ JobShape'
  <2> DEFINE j == [job[b] EXCEPT !.roots = @ \ {r}]
  <2>1. j \in Job
    BY <1>1 DEF Job
  <2>2. QED  BY <1>2, <2>1, BetweenRootsOK, BecomeOK DEF RootFails, TypeOK
<1>3. CASE Become(b, NextTurn(job[b]))
  BY <1>1, <1>3, NextTurnOK, BecomeOK DEF TypeOK
<1>4. CASE Become(b, BetweenRoots(job[b], TRUE))
  BY <1>1, <1>4, BetweenRootsOK, BecomeOK DEF TypeOK
<1>5. CASE Become(b, Idle)
  BY <1>5, IdleOK, BecomeOK DEF TypeOK
<1>6. QED
  BY <1>2, <1>3, <1>4, <1>5
     DEF BackupFault, BackupCrash, StatementFails, HashFails, CopyFails

LEMMA BackupJobs ==
  ASSUME TypeOK, JobShape, NEW b \in Backups, BackupStep(b)
  PROVE  EngineTypeOK' /\ JobShape'
<1>1. job[b] \in Job /\ WellFormed(job[b]) /\ EngineTypeOK
  BY JobNow DEF TypeOK
<1>2. CASE FinishSession(b)
  BY <1>1, <1>2, IdleOK, BecomeOK DEF FinishSession
<1>3. CASE RootDone(b)
  BY <1>1, <1>3, BetweenRootsOK, BecomeOK DEF RootDone
<1>4. CASE InsertBlock(b)
  BY <1>1, <1>4, GotoOK DEF InsertBlock, At, WithFile
<1>5. CASE BumpRef(b)
  BY <1>1, <1>5, GotoOK DEF BumpRef, At, WithFile
<1>6. CASE StartCopy(b)
  BY <1>1, <1>6, GotoOK DEF StartCopy, At, WithFile
<1>7. CASE FinishCopy(b)
  BY <1>1, <1>7, GotoOK DEF FinishCopy, At, WithFile
<1>8. CASE RecordVersion(b)
  BY <1>1, <1>8, NextTurnOK, BecomeOK DEF RecordVersion
<1>9. QED
  BY <1>2, <1>3, <1>4, <1>5, <1>6, <1>7, <1>8, StartBackupJobs, OpenRootJobs,
     LoadTrackedJobs, InsertTrackedJobs, LoadLatestJobs, NextFileJobs, HashFileJobs, FaultJobs
     DEF BackupStep, BackupWork

-----------------------------------------------------------------------------
(* The database keeps its types. *)

LEMMA PutBlock ==
  ASSUME DOMAIN block \subseteq Hash, \A h \in DOMAIN block : block[h] \in Block,
         NEW k \in Hash, NEW row \in Block, block' = Put(block, k, row)
  PROVE  DOMAIN block' \subseteq Hash /\ \A h \in DOMAIN block' : block'[h] \in Block
BY DEF Put

LEMMA DropBlock ==
  ASSUME DOMAIN block \subseteq Hash, \A h \in DOMAIN block : block[h] \in Block,
         NEW K, block' = Without(block, K)
  PROVE  DOMAIN block' \subseteq Hash /\ \A h \in DOMAIN block' : block'[h] \in Block
BY DEF Without

LEMMA CountBlock ==
  ASSUME DOMAIN block \subseteq Hash, \A h \in DOMAIN block : block[h] \in Block,
         NEW k \in DOMAIN block, NEW n \in Nat, block' = [block EXCEPT ![k].refs = n]
  PROVE  DOMAIN block' \subseteq Hash /\ \A h \in DOMAIN block' : block'[h] \in Block
BY DEF Block

LEMMA SetSessionOK ==
  ASSUME session \in Seq(Status), NEW i, NEW s \in Status, SetSession(i, s)
  PROVE  session' \in Seq(Status)
<1>1. CASE i \in 1 .. Len(session)
  BY <1>1, ExceptSeq DEF SetSession
<1>2. CASE i \notin 1 .. Len(session)
  <2>1. DOMAIN session = 1 .. Len(session) /\ session = [k \in DOMAIN session |-> session[k]]
    OBVIOUS
  <2>2. session' = [k \in DOMAIN session |-> session[k]]
    BY <1>2, <2>1, Zenon DEF SetSession
  <2>3. QED  BY <2>1, <2>2
<1>3. QED  BY <1>1, <1>2

LEMMA BackupStore ==
  ASSUME TypeOK, JobShape, NEW b \in Backups, BackupStep(b)
  PROVE  StoreTypeOK'
<1>1. job[b] \in Job /\ WellFormed(job[b])
  BY JobNow DEF TypeOK
<1>2. StoreTypeOK
  BY DEF TypeOK
<1>3. CASE StartBackup(b)
  BY <1>2, <1>3 DEF StartBackup, StoreTypeOK, BeginSession, Status
<1>4. CASE FinishSession(b)
  <2>1. session' \in Seq(Status)
    BY <1>2, <1>4, SetSessionOK DEF FinishSession, StoreTypeOK, Status
  <2>2. QED  BY <1>2, <1>4, <2>1 DEF FinishSession, StoreTypeOK
<1>5. ASSUME NEW f \in File, InsertTracked(b, f)
      PROVE  StoreTypeOK'
  <2>1. tracked' \subseteq Tracked /\ lastTracked' \in Nat
    <3>1. CASE InsertTrackedFile(f)
      BY <1>2, <3>1 DEF InsertTrackedFile, StoreTypeOK, Tracked
    <3>2. CASE UNCHANGED <<tracked, lastTracked>>
      BY <1>2, <3>2 DEF StoreTypeOK
    <3>3. QED  BY <1>5, <3>1, <3>2 DEF InsertTracked
  <2>2. UNCHANGED <<block, version, lastVersion, session, dec>>
    BY <1>5 DEF InsertTracked
  <2>3. QED  BY <1>2, <2>1, <2>2 DEF StoreTypeOK
<1>6. CASE InsertBlock(b)
  <2> DEFINE h == HashOf(b)
             row == [path |-> job[b].path, size |-> Scanned(b).size, refs |-> 1]
  <2>1. h \in Hash /\ row \in Block
    BY <1>1, <1>6 DEF InsertBlock, At, WellFormed, WithFile, HashOf, Scanned, StatRecord, Path, Block
  <2>2. block' = block \/ block' = Put(block, h, row)
    BY <1>6 DEF InsertBlock, InsertOrIgnore
  <2>3. DOMAIN block' \subseteq Hash /\ \A k \in DOMAIN block' : block'[k] \in Block
    BY <1>2, <2>1, <2>2, PutBlock DEF StoreTypeOK
  <2>4. QED  BY <1>2, <1>6, <2>3 DEF InsertBlock, StoreTypeOK
<1>7. CASE BumpRef(b)
  <2> DEFINE h == HashOf(b)
  <2>1. CASE h \in DOMAIN block
    <3>1. block[h].refs + 1 \in Nat
      BY <1>2, <2>1 DEF StoreTypeOK, Block
    <3>2. block' = [block EXCEPT ![h].refs = block[h].refs + 1]
      BY <1>7, <2>1 DEF BumpRef, AddRef
    <3>3. DOMAIN block' \subseteq Hash /\ \A k \in DOMAIN block' : block'[k] \in Block
      BY <1>2, <2>1, <3>1, <3>2, CountBlock DEF StoreTypeOK
    <3>4. QED  BY <1>2, <1>7, <3>3 DEF BumpRef, StoreTypeOK
  <2>2. CASE h \notin DOMAIN block
    BY <1>2, <1>7, <2>2 DEF BumpRef, AddRef, StoreTypeOK
  <2>3. QED  BY <2>1, <2>2
<1>8. CASE RecordVersion(b)
  <2>1. Scanned(b) \in StatRecord
    BY <1>1, <1>8 DEF RecordVersion, At, WellFormed, WithFile, Scanned
  <2>2. TrackedIds \subseteq Nat
    BY <1>2 DEF StoreTypeOK, Tracked, TrackedIds
  <2>3. ASSUME NEW i, NEW h, InsertFileVersion(i, h, Scanned(b).mtime, Scanned(b).size)
        PROVE  version' \subseteq Version /\ lastVersion' \in Nat
    BY <1>2, <2>1, <2>2, <2>3 DEF InsertFileVersion, StoreTypeOK, StatRecord, Version
  <2>4. version' \subseteq Version /\ lastVersion' \in Nat
    BY <1>2, <1>8, <2>3 DEF RecordVersion, StoreTypeOK
  <2>5. QED  BY <1>2, <1>8, <2>4 DEF RecordVersion, StoreTypeOK
<1>9. CASE UNCHANGED storeVars
  BY <1>2, <1>9 DEF StoreTypeOK, storeVars
<1>10. QED
  BY <1>3, <1>4, <1>5, <1>6, <1>7, <1>8, <1>9
     DEF BackupStep, BackupWork, BackupFault, BackupCrash, OpenRoot, LoadTracked, LoadLatest,
         NextFile, RootDone, HashFile, StartCopy, FinishCopy, StatementFails, RootFails,
         HashFails, CopyFails

-----------------------------------------------------------------------------
(* The file systems keep theirs. *)

LEMMA CreateFileOK ==
  ASSUME FilesTypeOK, NEW p \in Path, NEW h \in Hash, CreateFile(p, h)
  PROVE  DOMAIN disk' \subseteq Path /\ \A q \in DOMAIN disk' : disk'[q] \in DiskFile
BY DEF FilesTypeOK, CreateFile, Put, DiskFile

LEMMA CompleteFileOK ==
  ASSUME FilesTypeOK, NEW p, CompleteFile(p)
  PROVE  DOMAIN disk' \subseteq Path /\ \A q \in DOMAIN disk' : disk'[q] \in DiskFile
BY DEF FilesTypeOK, CompleteFile, DiskFile

LEMMA RemoveFileOK ==
  ASSUME FilesTypeOK, NEW p, RemoveFile(p)
  PROVE  DOMAIN disk' \subseteq Path /\ \A q \in DOMAIN disk' : disk'[q] \in DiskFile
BY DEF FilesTypeOK, RemoveFile, Without

LEMMA BackupFiles ==
  ASSUME TypeOK, JobShape, NEW b \in Backups, BackupStep(b)
  PROVE  FilesTypeOK'
<1>1. job[b] \in Job /\ WellFormed(job[b])
  BY JobNow DEF TypeOK
<1>2. FilesTypeOK
  BY DEF TypeOK
<1>3. CASE HashFile(b)
  <2>1. clock' = clock \/ clock' = clock + 1
    BY <1>3, Zenon DEF HashFile
  <2>2. UNCHANGED <<source, edits, disk>>
    BY <1>3 DEF HashFile
  <2>3. QED  BY <1>2, <2>1, <2>2 DEF FilesTypeOK
<1>4. CASE StartCopy(b)
  <2>1. job[b].path \in Path /\ source[job[b].file].hash \in Hash
    BY <1>1, <1>2, <1>4 DEF StartCopy, At, WellFormed, WithFile, FilesTypeOK, SourceFile
  <2>2. DOMAIN disk' \subseteq Path /\ \A q \in DOMAIN disk' : disk'[q] \in DiskFile
    BY <1>2, <1>4, <2>1, CreateFileOK DEF StartCopy
  <2>3. QED  BY <1>2, <1>4, <2>2 DEF StartCopy, FilesTypeOK
<1>5. CASE FinishCopy(b)
  <2>1. DOMAIN disk' \subseteq Path /\ \A q \in DOMAIN disk' : disk'[q] \in DiskFile
    BY <1>2, <1>5, CompleteFileOK DEF FinishCopy
  <2>2. QED  BY <1>2, <1>5, <2>1 DEF FinishCopy, FilesTypeOK
<1>6. CASE UNCHANGED fileVars
  BY <1>2, <1>6 DEF FilesTypeOK, fileVars
<1>7. QED
  BY <1>3, <1>4, <1>5, <1>6
     DEF BackupStep, BackupWork, BackupFault, BackupCrash, StartBackup, FinishSession, OpenRoot,
         LoadTracked, InsertTracked, LoadLatest, NextFile, RootDone, InsertBlock, BumpRef,
         RecordVersion, StatementFails, RootFails, HashFails, CopyFails

LEMMA SourceTypes ==
  ASSUME TypeOK, JobShape, SourceStep, UNCHANGED verifierVars
  PROVE  TypeOK' /\ JobShape'
<1>1. FilesTypeOK'
  <2>1. ASSUME NEW f \in File, Edit(f)
        PROVE  FilesTypeOK'
    BY <2>1 DEF TypeOK, FilesTypeOK, Edit, SourceFile, Put
  <2>2. ASSUME NEW f \in File, Unlink(f)
        PROVE  FilesTypeOK'
    BY <2>2 DEF TypeOK, FilesTypeOK, Unlink, SourceFile, Without
  <2>3. QED  BY <2>1, <2>2 DEF SourceStep
<1>2. QED
  BY <1>1 DEF TypeOK, SourceStep, StoreTypeOK, EngineTypeOK, VerifierTypeOK, JobShape,
              storeVars, verifierVars

-----------------------------------------------------------------------------
(* Collections and checks keep all types; the jobs are not theirs. *)

LEMMA CallersOK == Gcs \subseteq Callers /\ Checks \subseteq Callers
BY VerifierAssumption

LEMMA CallDecOK ==
  ASSUME StoreTypeOK, NEW p \in Callers, NEW h \in Hash, CallDec(p, h) \/ EndDec(p)
  PROVE  dec' \in [Callers -> [at : DecAt, hash : Hash \cup {None}]]
BY DEF StoreTypeOK, CallDec, EndDec, NoCall, DecAt

LEMMA EndDecOK ==
  ASSUME StoreTypeOK, NEW p \in Callers, EndDec(p)
  PROVE  dec' \in [Callers -> [at : DecAt, hash : Hash \cup {None}]]
BY DEF StoreTypeOK, EndDec, NoCall, DecAt

LEMMA DecrementTypes ==
  ASSUME StoreTypeOK, NEW p \in Callers, DecStep(p) \/ DecFails(p)
  PROVE  StoreTypeOK'
<1> DEFINE h == dec[p].hash
<1>1. CASE DecUpdate(p)
  <2>1. dec' \in [Callers -> [at : DecAt, hash : Hash \cup {None}]]
    BY <1>1 DEF StoreTypeOK, DecUpdate, DecAt
  <2>2. CASE h \in DOMAIN block /\ block[h].refs > 0
    <3>1. block[h].refs - 1 \in Nat
      BY <2>2 DEF StoreTypeOK, Block
    <3>2. block' = [block EXCEPT ![h].refs = block[h].refs - 1]
      BY <1>1, <2>2 DEF DecUpdate
    <3>3. DOMAIN block' \subseteq Hash /\ \A k \in DOMAIN block' : block'[k] \in Block
      BY <2>2, <3>1, <3>2, CountBlock DEF StoreTypeOK
    <3>4. QED  BY <2>1, <3>3 DEF DecStep, DecFails, StoreTypeOK
  <2>3. CASE ~ (h \in DOMAIN block /\ block[h].refs > 0)
    BY <1>1, <2>1, <2>3 DEF DecUpdate, DecStep, DecFails, StoreTypeOK
  <2>4. QED  BY <2>2, <2>3
<1>2. CASE DecSelect(p)
  BY <1>2 DEF DecSelect, DecStep, DecFails, StoreTypeOK, DecAt
<1>3. CASE DecDelete(p)
  <2>1. dec' \in [Callers -> [at : DecAt, hash : Hash \cup {None}]]
    BY <1>3 DEF StoreTypeOK, DecDelete, DecAt
  <2>2. DOMAIN block' \subseteq Hash /\ \A k \in DOMAIN block' : block'[k] \in Block
    BY <1>3, DropBlock DEF DecDelete, StoreTypeOK
  <2>3. QED  BY <1>3, <2>1, <2>2 DEF DecStep, DecFails, StoreTypeOK
<1>4. CASE DecFails(p)
  BY <1>4 DEF DecFails, StoreTypeOK, DecAt
<1>5. QED  BY <1>1, <1>2, <1>3, <1>4 DEF DecStep

LEMMA GcBecomesOK ==
  ASSUME VerifierTypeOK, NEW g \in Gcs, NEW n \in Gc, GcBecomes(g, n)
  PROVE  gc' \in [Gcs -> Gc]
BY DEF VerifierTypeOK, GcBecomes

LEMMA CheckBecomesOK ==
  ASSUME VerifierTypeOK, NEW c \in Checks, NEW n \in Check, CheckBecomes(c, n)
  PROVE  chk' \in [Checks -> Check]
BY DEF VerifierTypeOK, CheckBecomes

LEMMA VersionsByRootOK ==
  ASSUME StoreTypeOK, NEW r
  PROVE  VersionsByRoot(r) \subseteq Doomed
BY DEF StoreTypeOK, VersionsByRoot, Doomed, Version, Block

LEMMA GcTypes ==
  ASSUME TypeOK, NEW g \in Gcs, GcStep(g)
  PROVE  StoreTypeOK' /\ FilesTypeOK' /\ VerifierTypeOK'
<1>1. StoreTypeOK /\ FilesTypeOK /\ VerifierTypeOK /\ g \in Callers /\ gc[g] \in Gc
  BY CallersOK DEF TypeOK, VerifierTypeOK
<1>2. NoGc \in Gc
  BY DEF NoGc, Gc
<1>3. ASSUME NEW r \in Root, StartGc(g, r)
      PROVE  StoreTypeOK' /\ FilesTypeOK' /\ VerifierTypeOK'
  <2>1. VersionsByRoot(r) \subseteq Doomed
    BY <1>1, VersionsByRootOK
  <2>2. gc' \in [Gcs -> Gc] /\ runs' \in [Callers -> Nat]
    <3>1. [pc |-> "running", root |-> r, plan |-> VersionsByRoot(r), path |-> None] \in Gc
      BY <2>1 DEF Gc
    <3>2. QED  BY <1>1, <1>3, <3>1, GcBecomesOK DEF StartGc, CountRun, VerifierTypeOK
  <2>3. UNCHANGED <<storeVars, fileVars, chk>>
    BY <1>3 DEF StartGc
  <2>4. QED
    BY <1>1, <2>2, <2>3 DEF StoreTypeOK, FilesTypeOK, VerifierTypeOK, storeVars, fileVars
<1>4. ASSUME NEW d \in gc[g].plan, GcVersion(g, d)
      PROVE  StoreTypeOK' /\ FilesTypeOK' /\ VerifierTypeOK'
  <2>1. d \in Doomed /\ d.hash \in Hash /\ d.path \in Path
    BY <1>1 DEF Gc, Doomed
  <2>2. gc' \in [Gcs -> Gc]
    <3>1. [gc[g] EXCEPT !.plan = @ \ {d}, !.path = d.path] \in Gc
      BY <1>1, <2>1 DEF Gc
    <3>2. QED  BY <1>1, <1>4, <3>1, GcBecomesOK DEF GcVersion
  <2>3. dec' \in [Callers -> [at : DecAt, hash : Hash \cup {None}]]
    BY <1>1, <1>4, <2>1, CallDecOK DEF GcVersion
  <2>4. version' \subseteq Version
    BY <1>1, <1>4 DEF GcVersion, DeleteVersion, StoreTypeOK
  <2>5. UNCHANGED <<tracked, lastTracked, block, lastVersion, session, fileVars, chk, runs>>
    BY <1>4 DEF GcVersion
  <2>6. QED
    BY <1>1, <2>2, <2>3, <2>4, <2>5 DEF StoreTypeOK, FilesTypeOK, VerifierTypeOK, fileVars
<1>5. ASSUME NEW d \in gc[g].plan, GcVersionFails(g, d)
      PROVE  StoreTypeOK' /\ FilesTypeOK' /\ VerifierTypeOK'
  <2>1. gc' \in [Gcs -> Gc]
    <3>1. [gc[g] EXCEPT !.plan = @ \ {d}, !.path = None] \in Gc
      BY <1>1 DEF Gc
    <3>2. QED  BY <1>1, <1>5, <3>1, GcBecomesOK DEF GcVersionFails
  <2>2. dec' \in [Callers -> [at : DecAt, hash : Hash \cup {None}]]
    BY <1>1, <1>5, EndDecOK DEF GcVersionFails
  <2>3. UNCHANGED <<storeButDec, fileVars, chk, runs>>
    BY <1>5 DEF GcVersionFails
  <2>4. QED
    BY <1>1, <2>1, <2>2, <2>3
       DEF StoreTypeOK, FilesTypeOK, VerifierTypeOK, storeButDec, fileVars
<1>6. ASSUME GcRemove(g) \/ GcRemoveFails(g)
      PROVE  StoreTypeOK' /\ FilesTypeOK' /\ VerifierTypeOK'
  <2>1. gc' \in [Gcs -> Gc]
    <3>1. [gc[g] EXCEPT !.path = None] \in Gc
      BY <1>1 DEF Gc
    <3>2. QED  BY <1>1, <1>6, <3>1, GcBecomesOK DEF GcRemove, GcRemoveFails
  <2>2. dec' \in [Callers -> [at : DecAt, hash : Hash \cup {None}]]
    BY <1>1, <1>6, EndDecOK DEF GcRemove, GcRemoveFails
  <2>3. DOMAIN disk' \subseteq Path /\ \A q \in DOMAIN disk' : disk'[q] \in DiskFile
    BY <1>1, <1>6, RemoveFileOK DEF GcRemove, GcRemoveFails, FilesTypeOK, fileVars
  <2>4. UNCHANGED <<storeButDec, source, edits, clock, chk, runs>>
    BY <1>6 DEF GcRemove, GcRemoveFails, fileVars
  <2>5. QED
    BY <1>1, <2>1, <2>2, <2>3, <2>4
       DEF StoreTypeOK, FilesTypeOK, VerifierTypeOK, storeButDec
<1>7. ASSUME GcAborts(g) \/ GcTracked(g)
      PROVE  StoreTypeOK' /\ FilesTypeOK' /\ VerifierTypeOK'
  <2>1. gc' \in [Gcs -> Gc]
    BY <1>1, <1>2, <1>7, GcBecomesOK DEF GcAborts, GcTracked
  <2>2. dec' \in [Callers -> [at : DecAt, hash : Hash \cup {None}]]
    BY <1>1, <1>7, EndDecOK DEF GcAborts, GcTracked
  <2>3. tracked' \subseteq Tracked
    BY <1>1, <1>7 DEF GcAborts, GcTracked, DeleteTrackedFilesByRoot, StoreTypeOK, storeButDec
  <2>4. UNCHANGED <<lastTracked, block, version, lastVersion, session, fileVars, chk, runs>>
    BY <1>7 DEF GcAborts, GcTracked, storeButDec
  <2>5. QED
    BY <1>1, <2>1, <2>2, <2>3, <2>4 DEF StoreTypeOK, FilesTypeOK, VerifierTypeOK, fileVars
<1>8. CASE Decrement(g)
  BY <1>1, <1>8, DecrementTypes DEF Decrement, FilesTypeOK, VerifierTypeOK, fileVars
<1>9. CASE VerifierCrash(g)
  <2>1. gc' \in [Gcs -> Gc] /\ UNCHANGED chk
    BY <1>1, <1>2, <1>9, VerifierAssumption, GcBecomesOK DEF VerifierCrash
  <2>2. dec' \in [Callers -> [at : DecAt, hash : Hash \cup {None}]]
    BY <1>1, <1>9, EndDecOK DEF VerifierCrash
  <2>3. UNCHANGED <<storeButDec, fileVars, runs>>
    BY <1>9 DEF VerifierCrash
  <2>4. QED
    BY <1>1, <2>1, <2>2, <2>3
       DEF StoreTypeOK, FilesTypeOK, VerifierTypeOK, storeButDec, fileVars
<1>10. QED
  BY <1>3, <1>4, <1>5, <1>6, <1>7, <1>8, <1>9 DEF GcStep, GcWork

LEMMA CheckTypes ==
  ASSUME TypeOK, NEW c \in Checks, CheckStep(c)
  PROVE  StoreTypeOK' /\ FilesTypeOK' /\ VerifierTypeOK'
<1>1. StoreTypeOK /\ FilesTypeOK /\ VerifierTypeOK /\ c \in Callers /\ chk[c] \in Check
  BY CallersOK DEF TypeOK, VerifierTypeOK
<1>2. NoCheck \in Check
  BY DEF NoCheck, Check
<1>3. CASE StartCheck(c)
  <2>1. {[hash |-> h, path |-> block[h].path, size |-> block[h].size] : h \in DOMAIN block}
          \subseteq [hash : Hash, path : Path, size : Nat]
    BY <1>1 DEF StoreTypeOK, Block
  <2>2. chk' \in [Checks -> Check] /\ runs' \in [Callers -> Nat]
    <3>1. ASSUME NEW deep \in BOOLEAN, NEW rows \in SUBSET [hash : Hash, path : Path, size : Nat]
          PROVE  [pc |-> "examine", deep |-> deep, broken |-> {}, rows |-> rows] \in Check
      BY DEF Check
    <3>2. QED  BY <1>1, <1>3, <2>1, <3>1, CheckBecomesOK DEF StartCheck, CountRun, VerifierTypeOK
  <2>3. UNCHANGED <<storeVars, fileVars, gc>>
    BY <1>3 DEF StartCheck
  <2>4. QED
    BY <1>1, <2>2, <2>3 DEF StoreTypeOK, FilesTypeOK, VerifierTypeOK, storeVars, fileVars
<1>4. ASSUME \/ \E r \in chk[c].rows : ExamineBlock(c, r)
             \/ CheckAborts(c)
             \/ AllExamined(c)
      PROVE  StoreTypeOK' /\ FilesTypeOK' /\ VerifierTypeOK'
  <2>1. chk' \in [Checks -> Check]
    <3>1. ASSUME NEW r \in chk[c].rows, ExamineBlock(c, r)
          PROVE  chk' \in [Checks -> Check]
      <4>1. ASSUME NEW B \in SUBSET Hash
            PROVE  [chk[c] EXCEPT !.rows = @ \ {r}, !.broken = B] \in Check
        BY <1>1 DEF Check
      <4>2. \A bad : (IF bad THEN chk[c].broken \cup {r.hash} ELSE chk[c].broken) \in SUBSET Hash
        BY <1>1, <3>1 DEF Check
      <4>3. QED  BY <1>1, <3>1, <4>1, <4>2, CheckBecomesOK DEF ExamineBlock
    <3>2. CASE CheckAborts(c)
      BY <1>1, <1>2, <3>2, CheckBecomesOK DEF CheckAborts
    <3>3. CASE AllExamined(c)
      <4>1. [chk[c] EXCEPT !.pc = "clean"] \in Check
        BY <1>1 DEF Check
      <4>2. QED  BY <1>1, <3>3, <4>1, CheckBecomesOK DEF AllExamined
    <3>4. QED  BY <1>4, <3>1, <3>2, <3>3
  <2>2. UNCHANGED <<storeVars, fileVars, gc, runs>>
    BY <1>4 DEF ExamineBlock, CheckAborts, AllExamined
  <2>3. QED
    BY <1>1, <2>1, <2>2 DEF StoreTypeOK, FilesTypeOK, VerifierTypeOK, storeVars, fileVars
<1>5. ASSUME \/ \E h \in chk[c].broken : CleanBlock(c, h)
             \/ CheckDone(c)
      PROVE  StoreTypeOK' /\ FilesTypeOK' /\ VerifierTypeOK'
  <2>1. chk' \in [Checks -> Check]
    <3>1. ASSUME NEW h \in chk[c].broken
          PROVE  [chk[c] EXCEPT !.broken = @ \ {h}] \in Check
      BY <1>1 DEF Check
    <3>2. QED  BY <1>1, <1>2, <1>5, <3>1, CheckBecomesOK DEF CleanBlock, CheckDone
  <2>2. dec' \in [Callers -> [at : DecAt, hash : Hash \cup {None}]]
    <3>1. ASSUME NEW h \in chk[c].broken, CleanBlock(c, h)
          PROVE  dec' \in [Callers -> [at : DecAt, hash : Hash \cup {None}]]
      BY <1>1, <3>1, CallDecOK DEF CleanBlock, Check
    <3>2. QED  BY <1>1, <1>5, <3>1, EndDecOK DEF CheckDone
  <2>3. UNCHANGED <<storeButDec, fileVars, gc, runs>>
    BY <1>5 DEF CleanBlock, CheckDone
  <2>4. QED
    BY <1>1, <2>1, <2>2, <2>3
       DEF StoreTypeOK, FilesTypeOK, VerifierTypeOK, storeButDec, fileVars
<1>6. CASE Decrement(c)
  BY <1>1, <1>6, DecrementTypes DEF Decrement, FilesTypeOK, VerifierTypeOK, fileVars
<1>7. CASE VerifierCrash(c)
  <2>1. chk' \in [Checks -> Check] /\ UNCHANGED gc
    BY <1>1, <1>2, <1>7, VerifierAssumption, CheckBecomesOK DEF VerifierCrash
  <2>2. dec' \in [Callers -> [at : DecAt, hash : Hash \cup {None}]]
    BY <1>1, <1>7, EndDecOK DEF VerifierCrash
  <2>3. UNCHANGED <<storeButDec, fileVars, runs>>
    BY <1>7 DEF VerifierCrash
  <2>4. QED
    BY <1>1, <2>1, <2>2, <2>3
       DEF StoreTypeOK, FilesTypeOK, VerifierTypeOK, storeButDec, fileVars
<1>8. QED
  BY <1>3, <1>4, <1>5, <1>6, <1>7 DEF CheckStep, CheckWork

-----------------------------------------------------------------------------
TypeInv == TypeOK /\ JobShape

LEMMA InitTypes == Init => TypeInv
<1> SUFFICES ASSUME Init PROVE TypeInv
  OBVIOUS
<1>1. StoreTypeOK
  BY DEF Init, StoreInit, StoreTypeOK, NoCall, DecAt
<1>2. FilesTypeOK
  BY DEF Init, FilesInit, FilesTypeOK, SourceFile
<1>3. EngineTypeOK /\ JobShape
  BY IdleOK DEF Init, EngineInit, EngineTypeOK, JobShape
<1>4. VerifierTypeOK
  BY DEF Init, VerifierInit, VerifierTypeOK, NoGc, Gc, NoCheck, Check
<1>5. QED  BY <1>1, <1>2, <1>3, <1>4 DEF TypeInv, TypeOK

LEMMA NextTypes == TypeInv /\ [Next]_vars => TypeInv'
<1> SUFFICES ASSUME TypeOK, JobShape, [Next]_vars PROVE TypeOK' /\ JobShape'
  BY DEF TypeInv
<1>1. ASSUME NEW b \in Backups, BackupStep(b), UNCHANGED verifierVars
      PROVE  TypeOK' /\ JobShape'
  BY <1>1, BackupJobs, BackupStore, BackupFiles DEF TypeOK, VerifierTypeOK, verifierVars
<1>2. ASSUME NEW g \in Gcs, GcStep(g), UNCHANGED job
      PROVE  TypeOK' /\ JobShape'
  BY <1>2, GcTypes DEF TypeOK, EngineTypeOK, JobShape
<1>3. ASSUME NEW c \in Checks, CheckStep(c), UNCHANGED job
      PROVE  TypeOK' /\ JobShape'
  BY <1>3, CheckTypes DEF TypeOK, EngineTypeOK, JobShape
<1>4. CASE SourceStep /\ UNCHANGED verifierVars
  BY <1>4, SourceTypes
<1>5. CASE UNCHANGED vars
  BY <1>5 DEF vars, storeVars, fileVars, verifierVars, TypeOK, StoreTypeOK, FilesTypeOK,
              EngineTypeOK, VerifierTypeOK, JobShape
<1>6. QED  BY <1>1, <1>2, <1>3, <1>4, <1>5 DEF Next, Rest

(* Every variable keeps its type in every behaviour; in particular         *)
(* ref_count never goes below zero, however decrements interleave          *)
(* (SqliteStore::decrement_block_ref), and a backup never uses a local of   *)
(* backup_root that it has not set.                                        *)
THEOREM TypeCorrect == Spec => [](TypeOK /\ JobShape)
<1>1. Spec => []TypeInv
  BY InitTypes, NextTypes, PTL DEF Spec
<1>2. QED  BY <1>1, PTL DEF TypeInv

-----------------------------------------------------------------------------
(* Part 2: who may use which path. *)

PathInv ==
  /\ RowsNameTheirHash
  /\ PathsBuilt
  /\ OneWriter
  /\ FreshPaths
  /\ RemovesOrphans

(* What most steps do to paths: rows and files may go, backups and         *)
(* collections may let go of a path, and nobody gets a new one.            *)
LEMMA Frame ==
  ASSUME PathInv,
         DOMAIN block' \subseteq DOMAIN block,
         \A h \in DOMAIN block' : block'[h].path = block[h].path,
         DOMAIN disk' \subseteq DOMAIN disk,
         clock' = clock,
         \A b \in Backups : job'[b] = job[b] \/ job'[b].pc \notin WritePC,
         \A g \in Gcs : gc'[g].plan \subseteq gc[g].plan,
         \A g \in Gcs : Decrementing(g)' =>
           /\ Decrementing(g)
           /\ gc'[g] = gc[g]
           /\ dec'[g].hash = dec[g].hash
           /\ dec'[g].at = "deleted" => dec[g].at = "deleted"
  PROVE  PathInv'
<1>1. \A b \in Backups : Writes(b)' => Writes(b) /\ job'[b] = job[b]
  BY DEF Writes
<1>2. RowsNameTheirHash'
  BY DEF PathInv, RowsNameTheirHash
<1>3. PathsBuilt'
  BY <1>1 DEF PathInv, PathsBuilt
<1>4. OneWriter'
  BY <1>1 DEF PathInv, OneWriter
<1>5. FreshPaths'
  <2> SUFFICES ASSUME NEW b \in Backups, At(b, "insert")' \/ At(b, "copy")'
               PROVE  /\ At(b, "insert")' =>
                           /\ \A h \in DOMAIN block' : block'[h].path # job'[b].path
                           /\ \A g \in Gcs : \A d \in gc'[g].plan : d.path # job'[b].path
                           /\ \A g \in Gcs : Decrementing(g)' => gc'[g].path # job'[b].path
                      /\ job'[b].path \notin DOMAIN disk'
    BY DEF FreshPaths, At
  <2>1. job'[b] = job[b]
    BY DEF At, WritePC
  <2>2. QED  BY <2>1 DEF PathInv, FreshPaths, At
<1>6. RemovesOrphans'
  BY DEF PathInv, RemovesOrphans, Decrementing
<1>7. QED  BY <1>2, <1>3, <1>4, <1>5, <1>6 DEF PathInv

(* A backup that goes where it writes no file, beside which only counts,   *)
(* versions and whole files change.                                        *)
LEMMA QuietBackup ==
  ASSUME TypeInv, PathInv, NEW b \in Backups, NEW j, Become(b, j), j.pc \notin WritePC,
         UNCHANGED <<clock, gc, dec>>,
         DOMAIN block' = DOMAIN block, \A h \in DOMAIN block : block'[h].path = block[h].path,
         DOMAIN disk' = DOMAIN disk
  PROVE  PathInv'
<1>1. \A c \in Backups : job'[c] = job[c] \/ job'[c].pc \notin WritePC
  BY DEF TypeInv, TypeOK, EngineTypeOK, Become
<1>2. QED  BY <1>1, Frame DEF Decrementing

LEMMA PcOf ==
  ASSUME NEW j \in Job
  PROVE  /\ NextTurn(j).pc = "file"
         /\ \A x : BetweenRoots(j, x).pc = "root"
         /\ \A pc : [j EXCEPT !.pc = pc].pc = pc
         /\ \A pc : [j EXCEPT !.pc = pc].path = j.path
BY DEF NextTurn, BetweenRoots, Idle, Job

LEMMA HashFilePaths ==
  ASSUME TypeInv, PathInv, NEW b \in Backups, HashFile(b), UNCHANGED <<gc, dec>>
  PROVE  PathInv'
<1>1. job \in [Backups -> Job] /\ job[b] \in Job /\ clock \in Nat
  BY DEF TypeInv, TypeOK, EngineTypeOK, FilesTypeOK
<1>2. UNCHANGED <<block, disk>>
  BY DEF HashFile, storeVars
<1>3. CASE Become(b, NextTurn(job[b])) /\ UNCHANGED clock
  BY <1>1, <1>2, <1>3, PcOf, QuietBackup DEF WritePC
<1>4. ASSUME NEW t \in Target, NEW h \in Hash,
             Become(b, [job[b] EXCEPT !.pc = "insert", !.path = BuildPath(t, h)]),
             clock' = clock + 1
      PROVE  PathInv'
  <2> DEFINE j == [job[b] EXCEPT !.pc = "insert", !.path = BuildPath(t, h)]
  <2>1. j.pc = "insert" /\ j.path = BuildPath(t, h) /\ j.path.stamp = clock + 1
    BY <1>1 DEF Job, BuildPath
  <2> HIDE DEF j
  <2>2. job'[b] = j /\ \A c \in Backups : c # b => job'[c] = job[c]
    BY <1>1, <1>4 DEF Become, j
  <2>3. \A p : p.stamp \in Nat /\ p.stamp <= clock => p # j.path
    BY <1>1, <2>1
  <2>4. /\ \A k \in DOMAIN block : block[k].path.stamp \in Nat
        /\ \A p \in DOMAIN disk : p.stamp \in Nat
        /\ \A c \in Backups : Writes(c) => job[c].path.stamp \in Nat
        /\ \A g \in Gcs : \A d \in gc[g].plan : d.path.stamp \in Nat
        /\ \A g \in Gcs : Decrementing(g) => gc[g].path.stamp \in Nat
    <3>1. \A k \in DOMAIN block : block[k].path.stamp \in Nat
      BY DEF TypeInv, TypeOK, StoreTypeOK, Block, Path
    <3>2. \A p \in DOMAIN disk : p.stamp \in Nat
      BY DEF TypeInv, TypeOK, FilesTypeOK, Path
    <3>3. \A c \in Backups : Writes(c) => job[c].path.stamp \in Nat
      BY DEF TypeInv, JobShape, WellFormed, Writes, WritePC, WithFile, Path
    <3>4. \A g \in Gcs : \A d \in gc[g].plan : d.path.stamp \in Nat
      BY DEF TypeInv, TypeOK, VerifierTypeOK, Gc, Doomed, Path
    <3>5. \A g \in Gcs : Decrementing(g) => gc[g].path.stamp \in Nat
      BY DEF PathInv, RemovesOrphans, Path
    <3>6. QED  BY <3>1, <3>2, <3>3, <3>4, <3>5
  <2>5. PathsBuilt'
    BY <1>1, <1>2, <1>4, <2>1, <2>2, <2>4 DEF PathInv, PathsBuilt, Writes, Decrementing
  <2>6. OneWriter'
    BY <2>2, <2>3, <2>4 DEF PathInv, PathsBuilt, OneWriter, Writes
  <2>7. FreshPaths'
    BY <1>2, <2>1, <2>2, <2>3, <2>4 DEF PathInv, PathsBuilt, FreshPaths, Decrementing, At
  <2>8. RowsNameTheirHash' /\ RemovesOrphans'
    BY <1>2 DEF PathInv, RowsNameTheirHash, RemovesOrphans, Decrementing
  <2>9. QED  BY <2>5, <2>6, <2>7, <2>8 DEF PathInv
<1>5. QED
  BY <1>3, <1>4 DEF HashFile, TypeInv, TypeOK, FilesTypeOK, SourceFile

LEMMA InsertBlockPaths ==
  ASSUME TypeInv, PathInv, NEW b \in Backups, InsertBlock(b), UNCHANGED <<gc, dec>>
  PROVE  PathInv'
<1> DEFINE h == HashOf(b)
           p == job[b].path
<1>1. job \in [Backups -> Job] /\ job[b] \in Job
  BY DEF TypeInv, TypeOK, EngineTypeOK
<1>2. UNCHANGED <<disk, clock>> /\ At(b, "insert") /\ p.hash = h
  BY DEF InsertBlock, fileVars, HashOf
<1>3. CASE h \in DOMAIN block
  <2> DEFINE j == [job[b] EXCEPT !.pc = "bump"]
  <2>1. Become(b, j) /\ j.pc \notin WritePC /\ UNCHANGED block
    BY <1>1, <1>3, PcOf DEF InsertBlock, InsertOrIgnore, Goto, WritePC
  <2> HIDE DEF j
  <2>2. QED  BY <1>2, <2>1, QuietBackup
<1>4. CASE h \notin DOMAIN block
  <2>1. /\ job'[b].pc = "copy" /\ job'[b].path = p
        /\ \A c \in Backups : c # b => job'[c] = job[c]
    BY <1>1, <1>4, PcOf DEF InsertBlock, Goto, Become
  <2>2. /\ DOMAIN block' = DOMAIN block \cup {h}
        /\ block'[h].path = p
        /\ \A k \in DOMAIN block : block'[k] = block[k]
    BY <1>4 DEF InsertBlock, InsertOrIgnore, Put
  <2>3. Writes(b) /\ \A c \in Backups : Writes(c)' <=> Writes(c)
    BY <1>2, <2>1 DEF Writes, WritePC, At
  <2> HIDE DEF h, p
  <2>4. RowsNameTheirHash'
    BY <1>2, <2>2 DEF PathInv, RowsNameTheirHash
  <2>5. PathsBuilt'
    BY <1>2, <2>1, <2>2, <2>3 DEF PathInv, PathsBuilt, Decrementing, p
  <2>6. OneWriter'
    BY <2>1, <2>3 DEF PathInv, OneWriter, p
  <2>7. FreshPaths'
    <3>1. ASSUME NEW c \in Backups, c # b, At(c, "insert")
          PROVE  job[c].path # p
      BY <2>3, <3>1 DEF PathInv, OneWriter, Writes, WritePC, At, p
    <3>2. \A c \in Backups : c # b => (At(c, "insert")' <=> At(c, "insert"))
                                      /\ (At(c, "copy")' <=> At(c, "copy"))
      BY <2>1 DEF At
    <3>3. ~ At(b, "insert")' /\ p \notin DOMAIN disk
      BY <1>2, <2>1 DEF At, PathInv, FreshPaths, p
    <3>4. QED
      BY <1>2, <2>1, <2>2, <3>1, <3>2, <3>3 DEF PathInv, FreshPaths, Decrementing
  <2>8. RemovesOrphans'
    <3>1. \A g \in Gcs : Decrementing(g) => gc[g].path # p
      BY <1>2 DEF PathInv, FreshPaths, p
    <3>2. QED  BY <2>2, <3>1 DEF PathInv, RemovesOrphans, Decrementing
  <2>9. QED  BY <2>4, <2>5, <2>6, <2>7, <2>8 DEF PathInv
<1>5. QED  BY <1>3, <1>4

LEMMA StartCopyPaths ==
  ASSUME TypeInv, PathInv, NEW b \in Backups, StartCopy(b), UNCHANGED <<gc, dec>>
  PROVE  PathInv'
<1> DEFINE p == job[b].path
<1>1. job \in [Backups -> Job] /\ job[b] \in Job
  BY DEF TypeInv, TypeOK, EngineTypeOK
<1>2. UNCHANGED <<block, clock>> /\ At(b, "copy")
  BY DEF StartCopy, storeVars
<1>3. /\ job'[b].pc = "copying" /\ job'[b].path = p
      /\ \A c \in Backups : c # b => job'[c] = job[c]
  BY <1>1, PcOf DEF StartCopy, Goto, Become
<1>4. DOMAIN disk' = DOMAIN disk \cup {p}
  BY DEF StartCopy, CreateFile, Put
<1>5. Writes(b) /\ \A c \in Backups : Writes(c)' <=> Writes(c)
  BY <1>2, <1>3 DEF Writes, WritePC, At
<1> HIDE DEF p
<1>6. PathsBuilt'
  BY <1>2, <1>3, <1>4, <1>5 DEF PathInv, PathsBuilt, Decrementing, p
<1>7. OneWriter'
  BY <1>3, <1>5 DEF PathInv, OneWriter, p
<1>8. FreshPaths'
  <2>1. ASSUME NEW c \in Backups, c # b, At(c, "insert") \/ At(c, "copy")
        PROVE  job[c].path # p
    BY <1>5, <2>1 DEF PathInv, OneWriter, Writes, WritePC, At, p
  <2>2. \A c \in Backups : c # b => (At(c, "insert")' <=> At(c, "insert"))
                                    /\ (At(c, "copy")' <=> At(c, "copy"))
    BY <1>3 DEF At
  <2>3. ~ At(b, "insert")' /\ ~ At(b, "copy")'
    BY <1>3 DEF At
  <2>4. QED
    BY <1>2, <1>3, <1>4, <2>1, <2>2, <2>3 DEF PathInv, FreshPaths, Decrementing
<1>9. RowsNameTheirHash' /\ RemovesOrphans'
  BY <1>2 DEF PathInv, RowsNameTheirHash, RemovesOrphans, Decrementing
<1>10. QED  BY <1>6, <1>7, <1>8, <1>9 DEF PathInv

LEMMA BackupPaths ==
  ASSUME TypeInv, PathInv, NEW b \in Backups, BackupStep(b), UNCHANGED <<gc, dec>>
  PROVE  PathInv'
<1>1. job \in [Backups -> Job] /\ job[b] \in Job
  BY DEF TypeInv, TypeOK, EngineTypeOK
<1>2. ASSUME NEW j, Become(b, j), j.pc \notin WritePC,
             UNCHANGED <<block, disk, clock>>
      PROVE  PathInv'
  BY <1>2, QuietBackup
<1>3. "file" \notin WritePC /\ "root" \notin WritePC /\ "idle" \notin WritePC
  BY DEF WritePC
<1>4. CASE StartBackup(b)
  <2>1. [Idle EXCEPT !.pc = "root", !.sid = Len(session) + 1, !.roots = Root].pc = "root"
    BY DEF Idle
  <2>2. QED  BY <1>2, <1>3, <1>4, <2>1 DEF StartBackup, fileVars
<1>5. CASE FinishSession(b)
  BY <1>2, <1>3, <1>5 DEF FinishSession, fileVars, Idle
<1>6. ASSUME NEW r \in Root, OpenRoot(b, r)
      PROVE  PathInv'
  <2>1. \A s : [job[b] EXCEPT !.pc = "tracked", !.roots = @ \ {r}, !.scan = s].pc = "tracked"
    BY <1>1 DEF Job
  <2>2. QED  BY <1>2, <1>6, <2>1 DEF OpenRoot, fileVars, storeVars, WritePC
<1>7. CASE LoadTracked(b)
  <2>1. \A s, t : [job[b] EXCEPT !.pc = "track", !.ids = s, !.todo = t].pc = "track"
    BY <1>1 DEF Job
  <2>2. QED  BY <1>2, <1>7, <2>1 DEF LoadTracked, fileVars, storeVars, WritePC
<1>8. ASSUME NEW f \in File, InsertTracked(b, f)
      PROVE  PathInv'
  <2> DEFINE j == [job[b] EXCEPT !.todo = @ \ {f}, !.ids = [@ EXCEPT ![f] = lastTracked + 1]]
             k == BetweenRoots(job[b], TRUE)
  <2>1. j.pc = job[b].pc /\ k.pc = "root"
    BY <1>1, PcOf DEF Job
  <2>2. Become(b, j) \/ Become(b, k)
    BY <1>8 DEF InsertTracked
  <2>3. j.pc \notin WritePC /\ k.pc \notin WritePC /\ UNCHANGED <<block, disk, clock>>
    BY <1>8, <2>1 DEF InsertTracked, fileVars, At, WritePC
  <2> HIDE DEF j, k
  <2>4. QED  BY <1>2, <2>2, <2>3
<1>9. CASE LoadLatest(b)
  <2>1. \A s, t : [job[b] EXCEPT !.pc = "file", !.todo = s, !.latest = t].pc = "file"
    BY <1>1 DEF Job
  <2>2. QED  BY <1>2, <1>3, <1>9, <2>1 DEF LoadLatest, fileVars, storeVars
<1>10. ASSUME NEW f \in File, NextFile(b, f)
       PROVE  PathInv'
  <2> DEFINE turn == [job[b] EXCEPT !.todo = @ \ {f}]
             work == [turn EXCEPT !.pc = "hash", !.file = f]
  <2>1. turn.pc = job[b].pc /\ work.pc = "hash"
    BY <1>1 DEF Job
  <2>2. Become(b, turn) \/ Become(b, work)
    BY <1>10 DEF NextFile
  <2>3. turn.pc \notin WritePC /\ work.pc \notin WritePC /\ UNCHANGED <<block, disk, clock>>
    BY <1>10, <2>1 DEF NextFile, At, WritePC, fileVars, storeVars
  <2>4. QED  BY <1>2, <2>2, <2>3
<1>11. CASE RootDone(b)
  BY <1>1, <1>2, <1>3, <1>11, PcOf DEF RootDone, fileVars, storeVars
<1>12. CASE BumpRef(b)
  <2>1. DOMAIN block' = DOMAIN block /\ \A h \in DOMAIN block : block'[h].path = block[h].path
    BY <1>12 DEF BumpRef, AddRef, TypeInv, TypeOK, StoreTypeOK, Block
  <2> DEFINE j == [job[b] EXCEPT !.pc = "version"]
  <2>2. Become(b, j) /\ j.pc \notin WritePC
    BY <1>1, <1>12, PcOf DEF BumpRef, Goto, WritePC
  <2> HIDE DEF j
  <2>3. QED
    BY <1>12, <2>1, <2>2, QuietBackup DEF BumpRef, fileVars
<1>13. CASE FinishCopy(b)
  <2>1. DOMAIN disk' = DOMAIN disk
    BY <1>13 DEF FinishCopy, CompleteFile
  <2> DEFINE j == [job[b] EXCEPT !.pc = "version"]
  <2>2. Become(b, j) /\ j.pc \notin WritePC
    BY <1>1, <1>13, PcOf DEF FinishCopy, Goto, WritePC
  <2> HIDE DEF j
  <2>3. QED
    BY <1>13, <2>1, <2>2, QuietBackup DEF FinishCopy, storeVars
<1>14. CASE RecordVersion(b)
  BY <1>1, <1>2, <1>3, <1>14, PcOf DEF RecordVersion, fileVars
<1>15. ASSUME BackupFault(b) \/ BackupCrash(b)
       PROVE  PathInv'
  <2>1. UNCHANGED <<block, disk, clock>>
    BY <1>15 DEF BackupFault, BackupCrash, StatementFails, RootFails, HashFails, CopyFails,
                 fileVars, storeVars
  <2>2. \/ Become(b, NextTurn(job[b]))
        \/ Become(b, Idle)
        \/ \E j \in Job : Become(b, BetweenRoots(j, TRUE))
    <3>1. ASSUME NEW r \in Root, RootFails(b, r)
          PROVE  \E j \in Job : Become(b, BetweenRoots(j, TRUE))
      <4>1. [job[b] EXCEPT !.roots = @ \ {r}] \in Job
        BY <1>1 DEF Job
      <4>2. QED  BY <3>1, <4>1 DEF RootFails
    <3>2. QED
      BY <1>1, <1>15, <3>1 DEF BackupFault, BackupCrash, StatementFails, HashFails, CopyFails
  <2>3. Idle.pc = "idle"
    BY DEF Idle
  <2>4. NextTurn(job[b]).pc = "file" /\ \A j \in Job : BetweenRoots(j, TRUE).pc = "root"
    BY <1>1, PcOf
  <2>5. PICK j : Become(b, j) /\ j.pc \notin WritePC
    BY <1>3, <2>2, <2>3, <2>4
  <2>6. QED  BY <1>2, <2>1, <2>5
<1>16. QED
  BY <1>4, <1>5, <1>6, <1>7, <1>8, <1>9, <1>10, <1>11, <1>12, <1>13, <1>14, <1>15,
     HashFilePaths, InsertBlockPaths, StartCopyPaths DEF BackupStep, BackupWork

(* A step of a collection in which it lets go of its path. *)
LEMMA QuietGc ==
  ASSUME TypeInv, PathInv, NEW g \in Gcs, NEW n, GcBecomes(g, n), n.plan \subseteq gc[g].plan,
         EndDec(g), UNCHANGED <<block, clock, job>>, DOMAIN disk' \subseteq DOMAIN disk
  PROVE  PathInv'
<1>1. gc \in [Gcs -> Gc] /\ DOMAIN dec = Callers /\ g \in Callers
  BY CallersOK DEF TypeInv, TypeOK, VerifierTypeOK, StoreTypeOK
<1>2. \A k \in Gcs : gc'[k].plan \subseteq gc[k].plan /\ (k # g => gc'[k] = gc[k])
  BY <1>1 DEF GcBecomes
<1>3. dec'[g] = NoCall /\ \A k \in Gcs : k # g => dec'[k] = dec[k]
  BY <1>1 DEF EndDec
<1>4. ~ Decrementing(g)'
  BY <1>3 DEF Decrementing, NoCall
<1>5. \A k \in Gcs : Decrementing(k)' =>
           /\ Decrementing(k)
           /\ gc'[k] = gc[k]
           /\ dec'[k].hash = dec[k].hash
           /\ dec'[k].at = "deleted" => dec[k].at = "deleted"
  BY <1>2, <1>3, <1>4 DEF Decrementing
<1>6. QED  BY <1>2, <1>5, Frame

LEMMA StartGcPaths ==
  ASSUME TypeInv, PathInv, NEW g \in Gcs, NEW r \in Root, StartGc(g, r), UNCHANGED job
  PROVE  PathInv'
<1>1. /\ gc'[g].plan = VersionsByRoot(r)
      /\ \A k \in Gcs : k # g => gc'[k] = gc[k]
      /\ gc[g].pc = "idle"
  BY DEF StartGc, GcBecomes, TypeInv, TypeOK, VerifierTypeOK
<1>2. \A d \in gc'[g].plan : \E h \in DOMAIN block : d.path = block[h].path /\ d.hash = h
  BY <1>1 DEF VersionsByRoot
<1>3. UNCHANGED <<block, disk, clock, dec, job>>
  BY DEF StartGc, storeVars, fileVars
<1>4. ~ Decrementing(g)
  BY <1>1 DEF PathInv, RemovesOrphans
<1>5. PathsBuilt'
  BY <1>1, <1>2, <1>3, <1>4 DEF PathInv, PathsBuilt, Writes, Decrementing
<1>6. OneWriter' /\ RowsNameTheirHash'
  BY <1>3 DEF PathInv, OneWriter, Writes, RowsNameTheirHash
<1>7. FreshPaths'
  BY <1>1, <1>2, <1>3, <1>4 DEF PathInv, FreshPaths, At, Decrementing
<1>8. RemovesOrphans'
  BY <1>1, <1>2, <1>3, <1>4 DEF PathInv, RowsNameTheirHash, RemovesOrphans, Decrementing
<1>9. QED  BY <1>5, <1>6, <1>7, <1>8 DEF PathInv

(* The collection takes the path of the version it deletes from its plan.  *)
LEMMA GcVersionPaths ==
  ASSUME TypeInv, PathInv, NEW g \in Gcs, NEW d \in gc[g].plan, GcVersion(g, d), UNCHANGED job
  PROVE  PathInv'
<1>1. gc \in [Gcs -> Gc] /\ gc[g] \in Gc /\ DOMAIN dec = Callers /\ g \in Callers
      /\ d.path \in Path
  BY CallersOK DEF TypeInv, TypeOK, VerifierTypeOK, StoreTypeOK, Gc, Doomed
<1> DEFINE n == [gc[g] EXCEPT !.plan = @ \ {d}, !.path = d.path]
<1>2. n.plan \subseteq gc[g].plan /\ n.path = d.path /\ n.pc = gc[g].pc
  BY <1>1 DEF Gc
<1>3. gc'[g] = n /\ \A k \in Gcs : k # g => gc'[k] = gc[k]
  BY <1>1 DEF GcVersion, GcBecomes
<1> HIDE DEF n
<1>4. /\ dec'[g].hash = d.hash /\ dec'[g].at = "update"
      /\ \A k \in Gcs : k # g => dec'[k] = dec[k]
  BY <1>1 DEF GcVersion, CallDec
<1>5. UNCHANGED <<block, disk, clock, job>> /\ gc[g].pc = "running"
  BY DEF GcVersion, fileVars
<1>6. PathsBuilt'
  BY <1>2, <1>3, <1>4, <1>5 DEF PathInv, PathsBuilt, Writes, Decrementing
<1>7. OneWriter' /\ RowsNameTheirHash'
  BY <1>5 DEF PathInv, OneWriter, Writes, RowsNameTheirHash
<1>8. FreshPaths'
  BY <1>2, <1>3, <1>4, <1>5 DEF PathInv, FreshPaths, At, Decrementing
<1>9. RemovesOrphans'
  BY <1>1, <1>2, <1>3, <1>4, <1>5 DEF PathInv, RemovesOrphans, Decrementing
<1>10. QED  BY <1>6, <1>7, <1>8, <1>9 DEF PathInv

(* When decrement_block_ref has deleted the row of a hash no row has that  *)
(* hash, and so none has the path that the collection will remove.         *)
LEMMA DecrementPaths ==
  ASSUME TypeInv, PathInv, NEW p \in Callers, Decrement(p), UNCHANGED job
  PROVE  PathInv'
<1>1. DOMAIN dec = Callers /\ Gcs \subseteq Callers
      /\ dec \in [Callers -> [at : DecAt, hash : Hash \cup {None}]]
  BY CallersOK DEF TypeInv, TypeOK, StoreTypeOK
<1>2. UNCHANGED <<disk, clock, gc, job>>
  BY DEF Decrement, fileVars
<1>3. \A k \in Callers : k # p => dec'[k] = dec[k]
  BY <1>1 DEF Decrement, DecStep, DecUpdate, DecSelect, DecDelete, DecFails
<1>4. dec'[p].hash = dec[p].hash
  BY <1>1 DEF Decrement, DecStep, DecUpdate, DecSelect, DecDelete, DecFails
<1>5. dec[p].at \in {"update", "select", "delete"}
  BY DEF Decrement, DecStep, DecUpdate, DecSelect, DecDelete, DecFails
<1>6. DOMAIN block' \subseteq DOMAIN block /\ \A h \in DOMAIN block' : block'[h].path = block[h].path
  <2>1. CASE DecUpdate(p)
    BY <2>1 DEF DecUpdate, TypeInv, TypeOK, StoreTypeOK, Block
  <2>2. CASE DecDelete(p)
    BY <2>2 DEF DecDelete, Without
  <2>3. CASE UNCHANGED block
    BY <2>3
  <2>4. QED  BY <2>1, <2>2, <2>3 DEF Decrement, DecStep, DecSelect, DecFails
<1>7. CASE dec'[p].at # "deleted"
  <2>1. \A g \in Gcs : Decrementing(g)' =>
           /\ Decrementing(g)
           /\ gc'[g] = gc[g]
           /\ dec'[g].hash = dec[g].hash
           /\ dec'[g].at = "deleted" => dec[g].at = "deleted"
    BY <1>1, <1>2, <1>3, <1>4, <1>5, <1>7 DEF Decrementing
  <2>2. QED  BY <1>2, <1>6, <2>1, Frame
<1>8. CASE dec'[p].at = "deleted"
  <2>1. dec[p].hash \notin DOMAIN block'
    BY <1>1, <1>5, <1>8 DEF Decrement, DecStep, DecUpdate, DecSelect, DecDelete, DecFails, Without
  <2>2. \A g \in Gcs : Decrementing(g)' => Decrementing(g) /\ dec'[g].hash = dec[g].hash
    BY <1>1, <1>3, <1>4, <1>5 DEF Decrementing
  <2>3. RowsNameTheirHash'
    BY <1>6 DEF PathInv, RowsNameTheirHash
  <2>4. PathsBuilt'
    BY <1>2, <1>6, <2>2 DEF PathInv, PathsBuilt, Writes
  <2>5. OneWriter'
    BY <1>2 DEF PathInv, OneWriter, Writes
  <2>6. FreshPaths'
    BY <1>2, <1>6, <2>2 DEF PathInv, FreshPaths, At
  <2>7. RemovesOrphans'
    <3> SUFFICES ASSUME NEW g \in Gcs
                 PROVE  /\ \A d \in gc'[g].plan : d.path.hash = d.hash
                        /\ Decrementing(g)' => /\ gc'[g].pc = "running"
                                               /\ gc'[g].path \in Path
                                               /\ gc'[g].path.hash = dec'[g].hash
                        /\ dec'[g].at = "deleted" => \A h \in DOMAIN block' : block'[h].path # gc'[g].path
      BY DEF RemovesOrphans
    <3>1. /\ \A d \in gc'[g].plan : d.path.hash = d.hash
          /\ Decrementing(g)' => /\ gc'[g].pc = "running"
                                 /\ gc'[g].path \in Path
                                 /\ gc'[g].path.hash = dec'[g].hash
      BY <1>2, <2>2 DEF PathInv, RemovesOrphans
    <3>2. CASE g = p
      <4>1. gc[g].path.hash = dec[p].hash
        BY <1>5, <3>2 DEF PathInv, RemovesOrphans, Decrementing
      <4>2. \A h \in DOMAIN block' : block'[h].path.hash = h
        BY <2>3 DEF RowsNameTheirHash
      <4>3. QED  BY <1>2, <2>1, <3>1, <4>1, <4>2
    <3>3. CASE g # p
      BY <1>1, <1>2, <1>3, <1>6, <3>1, <3>3 DEF PathInv, RemovesOrphans
    <3>4. QED  BY <3>2, <3>3
  <2>8. QED  BY <2>3, <2>4, <2>5, <2>6, <2>7 DEF PathInv
<1>9. QED  BY <1>7, <1>8

LEMMA GcPaths ==
  ASSUME TypeInv, PathInv, NEW g \in Gcs, GcStep(g), UNCHANGED job
  PROVE  PathInv'
<1>1. gc[g] \in Gc /\ NoGc.plan = {} /\ g \in Callers
  BY CallersOK DEF TypeInv, TypeOK, VerifierTypeOK, NoGc
<1>2. ASSUME NEW d \in gc[g].plan, GcVersionFails(g, d)
      PROVE  PathInv'
  <2> DEFINE n == [gc[g] EXCEPT !.plan = @ \ {d}, !.path = None]
  <2>1. n.plan \subseteq gc[g].plan
    BY <1>1 DEF Gc
  <2>2. GcBecomes(g, n) /\ EndDec(g) /\ UNCHANGED <<block, clock, disk>>
    BY <1>2 DEF GcVersionFails, storeButDec, fileVars
  <2> HIDE DEF n
  <2>3. QED  BY <2>1, <2>2, QuietGc
<1>3. ASSUME GcRemove(g) \/ GcRemoveFails(g)
      PROVE  PathInv'
  <2> DEFINE n == [gc[g] EXCEPT !.path = None]
  <2>1. n.plan = gc[g].plan
    BY <1>1 DEF Gc
  <2>2. GcBecomes(g, n) /\ EndDec(g) /\ UNCHANGED <<block, clock>>
    BY <1>3 DEF GcRemove, GcRemoveFails, storeButDec, fileVars
  <2>3. DOMAIN disk' \subseteq DOMAIN disk
    BY <1>3 DEF GcRemove, GcRemoveFails, RemoveFile, Without, fileVars
  <2> HIDE DEF n
  <2>4. QED  BY <2>1, <2>2, <2>3, QuietGc
<1>4. ASSUME GcAborts(g) \/ GcTracked(g) \/ VerifierCrash(g)
      PROVE  PathInv'
  <2>1. GcBecomes(g, NoGc) /\ EndDec(g) /\ UNCHANGED <<block, clock, disk>>
    BY <1>4, VerifierAssumption DEF GcAborts, GcTracked, VerifierCrash, storeButDec, fileVars
  <2>2. QED  BY <1>1, <2>1, QuietGc
<1>5. QED
  BY <1>1, <1>2, <1>3, <1>4, StartGcPaths, GcVersionPaths, DecrementPaths DEF GcStep, GcWork

LEMMA CheckPaths ==
  ASSUME TypeInv, PathInv, NEW c \in Checks, CheckStep(c), UNCHANGED job
  PROVE  PathInv'
<1>1. c \in Callers
  BY CallersOK
<1>2. CASE Decrement(c)
  BY <1>1, <1>2, DecrementPaths
<1>3. CASE /\ UNCHANGED <<block, disk, clock, gc>>
           /\ \A g \in Gcs : dec'[g] = dec[g]
  <2>1. \A g \in Gcs : Decrementing(g)' <=> Decrementing(g)
    BY <1>3 DEF Decrementing
  <2>2. QED  BY <1>3, <2>1, Frame
<1>4. ~ Decrement(c) => UNCHANGED <<block, disk, clock, gc>>
  BY VerifierAssumption
     DEF CheckStep, CheckWork, StartCheck, ExamineBlock, CheckAborts, AllExamined, CleanBlock,
         CheckDone, VerifierCrash, storeVars, storeButDec, fileVars
<1>5. ~ Decrement(c) => UNCHANGED dec \/ EndDec(c) \/ \E h : CallDec(c, h)
  BY DEF CheckStep, CheckWork, StartCheck, ExamineBlock, CheckAborts, AllExamined, CleanBlock,
         CheckDone, VerifierCrash, storeVars
<1>6. ~ Decrement(c) => \A g \in Gcs : dec'[g] = dec[g]
  BY <1>1, <1>5, VerifierAssumption DEF EndDec, CallDec, TypeInv, TypeOK, StoreTypeOK
<1>7. QED  BY <1>2, <1>3, <1>4, <1>6

LEMMA NextPaths == TypeInv /\ PathInv /\ [Next]_vars => PathInv'
<1> SUFFICES ASSUME TypeInv, PathInv, [Next]_vars PROVE PathInv'
  OBVIOUS
<1>1. ASSUME NEW b \in Backups, BackupStep(b), UNCHANGED verifierVars
      PROVE  PathInv'
  <2>1. UNCHANGED dec
    BY <1>1 DEF BackupStep, BackupWork, BackupFault, BackupCrash, StartBackup, FinishSession,
       OpenRoot, LoadTracked, InsertTracked, LoadLatest, NextFile, RootDone, HashFile,
       InsertBlock, BumpRef, StartCopy, FinishCopy, RecordVersion, StatementFails, RootFails,
       HashFails, CopyFails, storeVars
  <2>2. QED  BY <1>1, <2>1, BackupPaths DEF verifierVars
<1>2. CASE \E g \in Gcs : GcStep(g) /\ UNCHANGED job
  BY <1>2, GcPaths
<1>3. CASE \E c \in Checks : CheckStep(c) /\ UNCHANGED job
  BY <1>3, CheckPaths
<1>4. CASE UNCHANGED <<block, disk, clock, job, gc, dec>>
  BY <1>4, Frame DEF Decrementing
<1>5. ASSUME SourceStep, UNCHANGED verifierVars
      PROVE  PathInv'
  BY <1>4, <1>5 DEF SourceStep, Edit, Unlink, storeVars, verifierVars
<1>6. CASE UNCHANGED vars
  BY <1>4, <1>6 DEF vars, storeVars, fileVars, verifierVars
<1>7. QED  BY <1>1, <1>2, <1>3, <1>5, <1>6 DEF Next, Rest

LEMMA InitPaths == Init => PathInv
<1> SUFFICES ASSUME Init PROVE PathInv
  OBVIOUS
<1>1. DOMAIN block = {} /\ DOMAIN disk = {}
  BY DEF Init, StoreInit, FilesInit
<1>2. \A b \in Backups : job[b].pc = "idle"
  BY DEF Init, EngineInit, Idle
<1>3. \A g \in Gcs : gc[g].plan = {} /\ ~ Decrementing(g)
  BY CallersOK DEF Init, StoreInit, VerifierInit, NoGc, Decrementing, NoCall
<1>4. \A b \in Backups : ~ Writes(b) /\ ~ At(b, "insert") /\ ~ At(b, "copy")
  BY <1>2 DEF Writes, WritePC, At
<1>5. QED
  BY <1>1, <1>3, <1>4 DEF PathInv, RowsNameTheirHash, PathsBuilt, OneWriter, FreshPaths,
     RemovesOrphans, Decrementing

-----------------------------------------------------------------------------
(* Part 3: version numbers. *)

LEMMA InitIds == Init => IdsAscend
BY DEF Init, StoreInit, IdsAscend

LEMMA NextIds == TypeInv /\ IdsAscend /\ [Next]_vars => IdsAscend'
<1> SUFFICES ASSUME TypeInv, IdsAscend, [Next]_vars PROVE IdsAscend'
  OBVIOUS
<1>1. lastVersion \in Nat /\ \A v \in version : v.id \in Nat
  BY DEF TypeInv, TypeOK, StoreTypeOK, Version
<1>2. CASE version' \subseteq version /\ lastVersion' = lastVersion
  BY <1>2 DEF IdsAscend
<1>3. ASSUME NEW i, NEW h, NEW m, NEW s, InsertFileVersion(i, h, m, s)
      PROVE  IdsAscend'
  <2> DEFINE new == [id |-> lastVersion + 1, tid |-> i, hash |-> h, mtime |-> m, size |-> s]
  <2>1. version' = version \cup {new} /\ lastVersion' = lastVersion + 1 /\ new.id = lastVersion + 1
    BY <1>3 DEF InsertFileVersion
  <2> HIDE DEF new
  <2>2. QED  BY <1>1, <2>1 DEF IdsAscend
<1>4. ASSUME NEW b \in Backups, BackupStep(b)
      PROVE  IdsAscend'
  <2>1. CASE RecordVersion(b)
    BY <1>2, <1>3, <2>1 DEF RecordVersion
  <2>2. CASE ~ RecordVersion(b)
    <3>1. UNCHANGED <<version, lastVersion>>
      BY <1>4, <2>2 DEF BackupStep, BackupWork, BackupFault, BackupCrash, StartBackup,
         FinishSession, OpenRoot, LoadTracked, InsertTracked, LoadLatest, NextFile, RootDone,
         HashFile, InsertBlock, BumpRef, StartCopy, FinishCopy, StatementFails, RootFails,
         HashFails, CopyFails, storeVars
    <3>2. QED  BY <1>2, <3>1
  <2>3. QED  BY <2>1, <2>2
<1>5. ASSUME NEW g \in Gcs, GcStep(g)
      PROVE  IdsAscend'
  <2>1. version' \subseteq version /\ lastVersion' = lastVersion
    BY <1>5 DEF GcStep, GcWork, StartGc, GcVersion, DeleteVersion, GcVersionFails, GcRemove,
       GcRemoveFails, GcAborts, GcTracked, VerifierCrash, Decrement, DecStep, DecFails,
       storeVars, storeButDec
  <2>2. QED  BY <1>2, <2>1
<1>6. ASSUME NEW c \in Checks, CheckStep(c)
      PROVE  IdsAscend'
  <2>1. UNCHANGED <<version, lastVersion>>
    BY <1>6 DEF CheckStep, CheckWork, StartCheck, ExamineBlock, CheckAborts, AllExamined,
       CleanBlock, CheckDone, VerifierCrash, Decrement, DecStep, DecFails, storeVars, storeButDec
  <2>2. QED  BY <1>2, <2>1
<1>7. CASE SourceStep \/ UNCHANGED vars
  <2>1. UNCHANGED <<version, lastVersion>>
    BY <1>7 DEF SourceStep, vars, storeVars
  <2>2. QED  BY <1>2, <2>1
<1>8. QED  BY <1>4, <1>5, <1>6, <1>7 DEF Next, Rest

(* The inductive invariant: paths are new when they are built, one backup  *)
(* at most writes to each, a collection only holds the path of a row that  *)
(* is still to go or has gone (delete_by_root), and version numbers grow.  *)
THEOREM Inductive == Spec => []IInv
<1>1. Init => TypeInv /\ PathInv /\ IdsAscend
  BY InitTypes, InitPaths, InitIds
<1>2. TypeInv /\ PathInv /\ IdsAscend /\ [Next]_vars => (TypeInv /\ PathInv /\ IdsAscend)'
  BY NextTypes, NextPaths, NextIds
<1>3. TypeInv /\ PathInv /\ IdsAscend => IInv
  BY DEF TypeInv, PathInv, IInv
<1>4. QED  BY <1>1, <1>2, <1>3, PTL DEF Spec

-----------------------------------------------------------------------------
(* Part 4: what the user has. *)

LEMMA UnfoldInv == IInv => TypeInv /\ PathInv
BY DEF IInv, TypeInv, PathInv

(* A step leaves the whole files that rows name as they are. *)
KeepsFiles ==
  \A h \in DOMAIN block :
    LET p == block[h].path
    IN p \in DOMAIN disk /\ disk[p].whole => p \in DOMAIN disk' /\ disk'[p] = disk[p]

LEMMA NextKeepsFiles == TypeInv /\ PathInv /\ [Next]_vars => KeepsFiles
<1> SUFFICES ASSUME TypeInv, PathInv, [Next]_vars,
                    NEW h \in DOMAIN block, block[h].path \in DOMAIN disk,
                    disk[block[h].path].whole
             PROVE  /\ block[h].path \in DOMAIN disk'
                    /\ disk'[block[h].path] = disk[block[h].path]
  BY DEF KeepsFiles
<1> DEFINE p == block[h].path
<1>1. CASE UNCHANGED disk
  BY <1>1
<1>2. ASSUME NEW b \in Backups, StartCopy(b)
      PROVE  p \in DOMAIN disk' /\ disk'[p] = disk[p]
  <2>1. job[b].path # p
    BY <1>2 DEF StartCopy, PathInv, FreshPaths
  <2>2. QED  BY <1>2, <2>1 DEF StartCopy, CreateFile, Put
<1>3. ASSUME NEW b \in Backups, FinishCopy(b)
      PROVE  p \in DOMAIN disk' /\ disk'[p] = disk[p]
  <2>1. disk[p] \in DiskFile
    BY DEF TypeInv, TypeOK, FilesTypeOK
  <2>2. [disk[p] EXCEPT !.whole = TRUE] = disk[p]
    BY <2>1 DEF DiskFile
  <2>3. QED  BY <1>3, <2>2 DEF FinishCopy, CompleteFile
<1>4. ASSUME NEW g \in Gcs, GcRemove(g)
      PROVE  p \in DOMAIN disk' /\ disk'[p] = disk[p]
  <2>1. gc[g].path # p
    BY <1>4 DEF GcRemove, PathInv, RemovesOrphans
  <2>2. QED  BY <1>4, <2>1 DEF GcRemove, RemoveFile, Without
<1>5. ASSUME NEW b \in Backups, BackupStep(b), ~ StartCopy(b), ~ FinishCopy(b)
      PROVE  UNCHANGED disk
  BY <1>5 DEF BackupStep, BackupWork, BackupFault, BackupCrash, StartBackup, FinishSession,
     OpenRoot, LoadTracked, InsertTracked, LoadLatest, NextFile, RootDone, HashFile,
     InsertBlock, BumpRef, RecordVersion, StatementFails, RootFails, HashFails, CopyFails, fileVars
<1>6. ASSUME NEW g \in Gcs, GcStep(g), ~ GcRemove(g)
      PROVE  UNCHANGED disk
  BY <1>6 DEF GcStep, GcWork, StartGc, GcVersion, GcVersionFails, GcRemoveFails, GcAborts,
     GcTracked, VerifierCrash, Decrement, fileVars
<1>7. ASSUME NEW c \in Checks, CheckStep(c)
      PROVE  UNCHANGED disk
  BY <1>7 DEF CheckStep, CheckWork, StartCheck, ExamineBlock, CheckAborts, AllExamined,
     CleanBlock, CheckDone, VerifierCrash, Decrement, fileVars
<1>8. CASE SourceStep \/ UNCHANGED vars
  BY <1>8 DEF SourceStep, Edit, Unlink, vars, fileVars
<1>9. QED  BY <1>1, <1>2, <1>3, <1>4, <1>5, <1>6, <1>7, <1>8 DEF Next, Rest

(* No step of any backup, collection or check removes or overwrites a      *)
(* whole file that a row of content_block names (GC removes a file only    *)
(* when its row is gone, copies go to paths of their own).                 *)
THEOREM NoLiveFileRemoved == Spec => RemovalIsOrphan
<1>1. IInv /\ [Next]_vars => [KeepsFiles]_vars
  BY UnfoldInv, NextKeepsFiles
<1>2. QED  BY <1>1, Inductive, PTL DEF Spec, RemovalIsOrphan, KeepsFiles

(* The row of a version stays, with its path: the foreign key refuses to   *)
(* delete it, and nothing else touches a path.                             *)
LEMMA NextKeepsRows ==
  ASSUME TypeInv, [Next]_vars, NEW v \in version, v.hash \in DOMAIN block
  PROVE  v.hash \in DOMAIN block' /\ block'[v.hash].path = block[v.hash].path
<1> DEFINE h == v.hash
<1>1. CASE UNCHANGED block
  BY <1>1
<1>2. ASSUME NEW b \in Backups, InsertBlock(b)
      PROVE  h \in DOMAIN block' /\ block'[h].path = block[h].path
  BY <1>2 DEF InsertBlock, InsertOrIgnore, Put
<1>3. ASSUME NEW b \in Backups, BumpRef(b)
      PROVE  h \in DOMAIN block' /\ block'[h].path = block[h].path
  BY <1>3 DEF BumpRef, AddRef, TypeInv, TypeOK, StoreTypeOK, Block
<1>4. ASSUME NEW p \in Callers, Decrement(p)
      PROVE  h \in DOMAIN block' /\ block'[h].path = block[h].path
  <2>1. CASE DecUpdate(p)
    BY <2>1 DEF DecUpdate, TypeInv, TypeOK, StoreTypeOK, Block
  <2>2. CASE DecDelete(p)
    BY <2>2 DEF DecDelete, Referenced, Without
  <2>3. QED  BY <1>4, <2>1, <2>2 DEF Decrement, DecStep, DecSelect, DecFails
<1>5. ASSUME NEW b \in Backups, BackupStep(b), ~ InsertBlock(b), ~ BumpRef(b)
      PROVE  UNCHANGED block
  BY <1>5 DEF BackupStep, BackupWork, BackupFault, BackupCrash, StartBackup, FinishSession,
     OpenRoot, LoadTracked, InsertTracked, LoadLatest, NextFile, RootDone, HashFile, StartCopy,
     FinishCopy, RecordVersion, StatementFails, RootFails, HashFails, CopyFails, storeVars
<1>6. ASSUME NEW g \in Gcs, GcStep(g), ~ Decrement(g)
      PROVE  UNCHANGED block
  BY <1>6 DEF GcStep, GcWork, StartGc, GcVersion, GcVersionFails, GcRemove, GcRemoveFails,
     GcAborts, GcTracked, VerifierCrash, storeVars, storeButDec
<1>7. ASSUME NEW c \in Checks, CheckStep(c), ~ Decrement(c)
      PROVE  UNCHANGED block
  BY <1>7 DEF CheckStep, CheckWork, StartCheck, ExamineBlock, CheckAborts, AllExamined,
     CleanBlock, CheckDone, VerifierCrash, storeVars, storeButDec
<1>8. CASE SourceStep \/ UNCHANGED vars
  BY <1>8 DEF SourceStep, vars, storeVars
<1>9. QED
  BY <1>1, <1>2, <1>3, <1>4, <1>5, <1>6, <1>7, <1>8, CallersOK DEF Next, Rest

LEMMA NextKeepsRestorable ==
  ASSUME TypeInv, PathInv, [Next]_vars, NEW v \in version, Restorable(v)
  PROVE  Restorable(v)'
<1> DEFINE p == block[v.hash].path
<1>1. v.hash \in DOMAIN block /\ p \in DOMAIN disk /\ disk[p] = [content |-> v.hash, whole |-> TRUE]
  BY DEF Restorable, Stored
<1>2. v.hash \in DOMAIN block' /\ block'[v.hash].path = p
  BY <1>1, NextKeepsRows
<1>3. p \in DOMAIN disk' /\ disk'[p] = disk[p]
  BY <1>1, NextKeepsFiles DEF KeepsFiles
<1>4. QED  BY <1>1, <1>2, <1>3 DEF Restorable, Stored

(* A version that can be restored stays so until it is deleted, with any   *)
(* number of backups, collections and checks at once, and whichever of     *)
(* their steps fails or is their last.                                     *)
THEOREM RestorableForGood == Spec => RestorableStays
<1> DEFINE Stays == \A v \in version \cap version' : Restorable(v) => Restorable(v)'
<1>1. IInv /\ [Next]_vars => [Stays]_vars
  BY UnfoldInv, NextKeepsRestorable
<1>2. QED  BY <1>1, Inductive, PTL DEF Spec, RestorableStays

-----------------------------------------------------------------------------
(* Part 5: a vault is an archive. *)

Good == {v \in version : Restorable(v)}

LEMMA ArchiveInit == Init => TheArchive!Init
BY DEF Init, StoreInit, TheArchive!Init

LEMMA GoodStays ==
  ASSUME TypeInv, PathInv, [Next]_vars, version \subseteq version'
  PROVE  Good \subseteq Good'
BY NextKeepsRestorable DEF Good

LEMMA ArchiveStutter ==
  ASSUME TypeInv, PathInv, [Next]_vars, UNCHANGED <<version, lastVersion>>
  PROVE  TheArchive!Next
<1>1. Good \subseteq Good' /\ Good' \subseteq version
  BY GoodStays DEF Good
<1>2. TheArchive!Complete
  BY <1>1 DEF TheArchive!Complete, Good
<1>3. QED  BY <1>2 DEF TheArchive!Next

LEMMA ArchiveKeep ==
  ASSUME TypeInv, PathInv, [Next]_vars, NEW i, NEW h, NEW m, NEW s, InsertFileVersion(i, h, m, s)
  PROVE  TheArchive!Next
<1> DEFINE new == [id |-> lastVersion + 1, tid |-> i, hash |-> h, mtime |-> m, size |-> s]
<1>1. lastVersion \in Nat
  BY DEF TypeInv, TypeOK, StoreTypeOK
<1>2. version' = version \cup {new} /\ lastVersion' = lastVersion + 1 /\ new.id = lastVersion + 1
  BY DEF InsertFileVersion
<1> HIDE DEF new
<1>3. Good \subseteq Good' /\ Good' \subseteq version'
  BY <1>2, GoodStays DEF Good
<1>4. new \in version' /\ new.id > lastVersion /\ lastVersion' = new.id
  BY <1>1, <1>2
<1>5. TheArchive!Keep
  BY <1>2, <1>3, <1>4 DEF TheArchive!Keep, Good
<1>6. QED  BY <1>5 DEF TheArchive!Next

LEMMA ArchiveForget ==
  ASSUME TypeInv, PathInv, IdsAscend, [Next]_vars, NEW g \in Gcs, NEW d \in gc[g].plan, GcVersion(g, d)
  PROVE  TheArchive!Next
<1>1. version' = {v \in version : v.id # d.id} /\ UNCHANGED <<block, disk, lastVersion>>
  BY DEF GcVersion, DeleteVersion, fileVars
<1>2. CASE \A v \in version : v.id # d.id
  BY <1>1, <1>2, ArchiveStutter
<1>3. ASSUME NEW w \in version, w.id = d.id
      PROVE  TheArchive!Next
  <2>1. version' = version \ {w}
    BY <1>1, <1>3 DEF IdsAscend
  <2>2. Good' = Good \ {w}
    BY <1>1, <2>1 DEF Good, Restorable, Stored
  <2>3. TheArchive!Forget
    BY <1>1, <2>1, <2>2 DEF TheArchive!Forget, Good
  <2>4. QED  BY <2>3 DEF TheArchive!Next
<1>4. QED  BY <1>2, <1>3

LEMMA ArchiveNext ==
  ASSUME TypeInv, PathInv, IdsAscend, [Next]_vars
  PROVE  [TheArchive!Next]_(TheArchive!vars)
<1>1. ASSUME NEW b \in Backups, BackupStep(b)
      PROVE  TheArchive!Next
  <2>1. CASE RecordVersion(b)
    BY <2>1, ArchiveStutter, ArchiveKeep DEF RecordVersion
  <2>2. CASE ~ RecordVersion(b)
    <3>1. UNCHANGED <<version, lastVersion>>
      BY <1>1, <2>2 DEF BackupStep, BackupWork, BackupFault, BackupCrash, StartBackup,
         FinishSession, OpenRoot, LoadTracked, InsertTracked, LoadLatest, NextFile, RootDone,
         HashFile, InsertBlock, BumpRef, StartCopy, FinishCopy, StatementFails, RootFails,
         HashFails, CopyFails, storeVars
    <3>2. QED  BY <3>1, ArchiveStutter
  <2>3. QED  BY <2>1, <2>2
<1>2. ASSUME NEW g \in Gcs, GcStep(g)
      PROVE  TheArchive!Next
  <2>1. CASE \E d \in gc[g].plan : GcVersion(g, d)
    BY <2>1, ArchiveForget
  <2>2. CASE ~ \E d \in gc[g].plan : GcVersion(g, d)
    <3>1. UNCHANGED <<version, lastVersion>>
      BY <1>2, <2>2 DEF GcStep, GcWork, StartGc, GcVersionFails, GcRemove, GcRemoveFails,
         GcAborts, GcTracked, VerifierCrash, Decrement, DecStep, DecFails, storeVars, storeButDec
    <3>2. QED  BY <3>1, ArchiveStutter
  <2>3. QED  BY <2>1, <2>2
<1>3. ASSUME NEW c \in Checks, CheckStep(c)
      PROVE  TheArchive!Next
  <2>1. UNCHANGED <<version, lastVersion>>
    BY <1>3 DEF CheckStep, CheckWork, StartCheck, ExamineBlock, CheckAborts, AllExamined,
       CleanBlock, CheckDone, VerifierCrash, Decrement, DecStep, DecFails, storeVars, storeButDec
  <2>2. QED  BY <2>1, ArchiveStutter
<1>4. CASE SourceStep \/ UNCHANGED vars
  <2>1. UNCHANGED <<version, lastVersion>>
    BY <1>4 DEF SourceStep, vars, storeVars
  <2>2. QED  BY <2>1, ArchiveStutter
<1>5. QED  BY <1>1, <1>2, <1>3, <1>4 DEF Next, Rest

(* Whatever runs and fails, the vault is an archive: version numbers only  *)
(* grow, a collection deletes one version at a time, and what can be       *)
(* restored stays restorable until it is deleted.                          *)
THEOREM VaultIsArchive == Spec => ArchiveSpec
<1>1. Init => TheArchive!Init
  BY ArchiveInit
<1>2. IInv /\ [Next]_vars => [TheArchive!Next]_(TheArchive!vars)
  BY UnfoldInv, ArchiveNext DEF IInv
<1>3. QED  BY <1>1, <1>2, Inductive, PTL DEF Spec, ArchiveSpec, TheArchive!Spec
=============================================================================
