------------------------------ MODULE VaultSteps ------------------------------
(***************************************************************************)
(* Lemmas about single steps of Vault: which of them touch a job, a row, a *)
(* file or a source, and what they make of it.                             *)
(***************************************************************************)
EXTENDS VaultProofs

-----------------------------------------------------------------------------
(* Part 1: jobs. *)

LEMMA JobMoves ==
  ASSUME TypeInv, NEW b \in Backups, NEW j, Become(b, j)
  PROVE  job'[b] = j /\ \A c \in Backups : c # b => job'[c] = job[c]
BY DEF TypeInv, TypeOK, EngineTypeOK, Become

LEMMA OthersRest ==
  ASSUME TypeInv, NEW b \in Backups, BackupStep(b)
  PROVE  \A c \in Backups : c # b => job'[c] = job[c]
<1>1. \E j : Become(b, j)
  BY Zenon
     DEF BackupStep, BackupWork, BackupFault, BackupCrash, StartBackup, FinishSession, OpenRoot,
         LoadTracked, InsertTracked, LoadLatest, NextFile, RootDone, HashFile, InsertBlock, BumpRef,
         StartCopy, FinishCopy, RecordVersion, StatementFails, RootFails, HashFails, CopyFails, Goto
<1>2. QED  BY <1>1, JobMoves

LEMMA OneMoves ==
  ASSUME TypeInv, [Next]_vars, NEW b \in Backups
  PROVE  BackupStep(b) \/ job'[b] = job[b]
<1>1. ASSUME NEW c \in Backups, BackupStep(c), c # b
      PROVE  job'[b] = job[b]
  BY <1>1, OthersRest
<1>2. SourceStep \/ UNCHANGED vars => job' = job
  BY DEF SourceStep, vars
<1>3. QED  BY <1>1, <1>2 DEF Next, Rest

(* A failure ends a turn, a root or the job. *)
LEMMA FaultPc ==
  ASSUME TypeInv, NEW b \in Backups, BackupFault(b) \/ BackupCrash(b)
  PROVE  job'[b].pc \in {"file", "root", "idle"}
<1>1. job[b] \in Job
  BY DEF TypeInv, TypeOK, EngineTypeOK
<1>2. \/ Become(b, NextTurn(job[b]))
      \/ Become(b, Idle)
      \/ \E j \in Job : Become(b, BetweenRoots(j, TRUE))
  <2>1. ASSUME NEW r \in Root, RootFails(b, r)
        PROVE  \E j \in Job : Become(b, BetweenRoots(j, TRUE))
    <3>1. [job[b] EXCEPT !.roots = @ \ {r}] \in Job
      BY <1>1 DEF Job
    <3>2. QED  BY <2>1, <3>1 DEF RootFails
  <2>2. QED
    BY <1>1, <2>1 DEF BackupFault, BackupCrash, StatementFails, HashFails, CopyFails
<1>3. Idle.pc = "idle"
  BY DEF Idle
<1>4. ASSUME NEW j, Become(b, j), j.pc \in {"file", "root", "idle"}
      PROVE  job'[b].pc \in {"file", "root", "idle"}
  BY <1>4, JobMoves
<1>5. NextTurn(job[b]).pc = "file" /\ \A j \in Job : BetweenRoots(j, TRUE).pc = "root"
  BY <1>1, PcOf
<1>6. PICK j : Become(b, j) /\ j.pc \in {"file", "root", "idle"}
  BY <1>2, <1>3, <1>5
<1>7. QED  BY <1>4, <1>6

(* Where each step of a backup leads. *)
LEMMA NextPc ==
  ASSUME TypeInv, NEW b \in Backups, BackupStep(b)
  PROVE  \/ StartBackup(b) /\ job'[b].pc = "root"
         \/ FinishSession(b) /\ job'[b].pc = "idle"
         \/ \E r \in Root : OpenRoot(b, r) /\ job'[b].pc = "tracked"
         \/ LoadTracked(b) /\ job'[b].pc = "track"
         \/ \E f \in File : InsertTracked(b, f) /\ job'[b].pc \in {"track", "root"}
         \/ LoadLatest(b) /\ job'[b].pc = "file"
         \/ \E f \in File : NextFile(b, f) /\ job'[b].pc \in {"file", "hash"}
         \/ RootDone(b) /\ job'[b].pc = "root"
         \/ HashFile(b) /\ job'[b].pc \in {"file", "insert"}
         \/ InsertBlock(b) /\ job'[b].pc = IF HashOf(b) \in DOMAIN block THEN "bump" ELSE "copy"
         \/ BumpRef(b) /\ job'[b].pc = "version"
         \/ StartCopy(b) /\ job'[b].pc = "copying"
         \/ FinishCopy(b) /\ job'[b].pc = "version"
         \/ RecordVersion(b) /\ job'[b].pc = "file"
         \/ (BackupFault(b) \/ BackupCrash(b)) /\ job'[b].pc \in {"file", "root", "idle"}
<1>1. job[b] \in Job
  BY DEF TypeInv, TypeOK, EngineTypeOK
<1>2. StartBackup(b) => job'[b].pc = "root"
  <2> DEFINE j == [Idle EXCEPT !.pc = "root", !.sid = Len(session) + 1, !.roots = Root]
  <2>1. j.pc = "root"
    BY DEF Idle
  <2>2. QED  BY <2>1, JobMoves DEF StartBackup
<1>3. FinishSession(b) => job'[b].pc = "idle"
  BY JobMoves DEF FinishSession, Idle
<1>4. ASSUME NEW r \in Root, OpenRoot(b, r)
      PROVE  job'[b].pc = "tracked"
  <2>1. PICK s : Become(b, [job[b] EXCEPT !.pc = "tracked", !.roots = @ \ {r}, !.scan = s])
    BY <1>4 DEF OpenRoot
  <2> DEFINE j == [job[b] EXCEPT !.pc = "tracked", !.roots = @ \ {r}, !.scan = s]
  <2>2. j.pc = "tracked"
    BY <1>1 DEF Job
  <2> HIDE DEF j
  <2>3. Become(b, j)
    BY <2>1 DEF j
  <2>4. QED  BY <2>2, <2>3, JobMoves
<1>5. LoadTracked(b) => job'[b].pc = "track"
  <2> SUFFICES ASSUME LoadTracked(b) PROVE job'[b].pc = "track"
    OBVIOUS
  <2>1. PICK s : \E t : Become(b, [job[b] EXCEPT !.pc = "track", !.ids = s, !.todo = t])
    BY DEF LoadTracked
  <2>2. PICK t : Become(b, [job[b] EXCEPT !.pc = "track", !.ids = s, !.todo = t])
    BY <2>1
  <2> DEFINE j == [job[b] EXCEPT !.pc = "track", !.ids = s, !.todo = t]
  <2>3. j.pc = "track"
    BY <1>1 DEF Job
  <2> HIDE DEF j
  <2>4. Become(b, j)
    BY <2>2 DEF j
  <2>5. QED  BY <2>3, <2>4, JobMoves
<1>6. ASSUME NEW f \in File, InsertTracked(b, f)
      PROVE  job'[b].pc \in {"track", "root"}
  <2> DEFINE j == [job[b] EXCEPT !.todo = @ \ {f}, !.ids = [@ EXCEPT ![f] = lastTracked + 1]]
  <2>1. Become(b, j) \/ Become(b, BetweenRoots(job[b], TRUE))
    BY <1>6 DEF InsertTracked
  <2>2. j.pc = "track" /\ BetweenRoots(job[b], TRUE).pc = "root"
    BY <1>1, <1>6, PcOf DEF InsertTracked, At, Job
  <2> HIDE DEF j
  <2>3. QED  BY <2>1, <2>2, JobMoves
<1>7. LoadLatest(b) => job'[b].pc = "file"
  <2> SUFFICES ASSUME LoadLatest(b) PROVE job'[b].pc = "file"
    OBVIOUS
  <2>1. PICK s : Become(b, [job[b] EXCEPT !.pc = "file", !.todo = Listed(job[b]), !.latest = s])
    BY DEF LoadLatest
  <2> DEFINE j == [job[b] EXCEPT !.pc = "file", !.todo = Listed(job[b]), !.latest = s]
  <2>2. j.pc = "file"
    BY <1>1 DEF Job
  <2> HIDE DEF j
  <2>3. Become(b, j)
    BY <2>1 DEF j
  <2>4. QED  BY <2>2, <2>3, JobMoves
<1>8. ASSUME NEW f \in File, NextFile(b, f)
      PROVE  job'[b].pc \in {"file", "hash"}
  <2> DEFINE turn == [job[b] EXCEPT !.todo = @ \ {f}]
             work == [turn EXCEPT !.pc = "hash", !.file = f]
  <2>1. turn.pc = "file" /\ work.pc = "hash"
    BY <1>1, <1>8 DEF NextFile, At, Job
  <2>2. Become(b, turn) \/ Become(b, work)
    BY <1>8 DEF NextFile
  <2> HIDE DEF turn, work
  <2>3. job'[b] = turn \/ job'[b] = work
    BY <2>2, JobMoves
  <2>4. QED  BY <2>1, <2>3
<1>9. RootDone(b) => job'[b].pc = "root"
  <2>1. BetweenRoots(job[b], FALSE).pc = "root"
    BY <1>1, PcOf
  <2>2. QED  BY <2>1, JobMoves DEF RootDone
<1>10. HashFile(b) => job'[b].pc \in {"file", "insert"}
  <2> SUFFICES ASSUME HashFile(b) PROVE job'[b].pc \in {"file", "insert"}
    OBVIOUS
  <2>1. CASE Become(b, NextTurn(job[b]))
    BY <1>1, <2>1, PcOf, JobMoves
  <2>2. ASSUME NEW p, Become(b, [job[b] EXCEPT !.pc = "insert", !.path = p])
        PROVE  job'[b].pc = "insert"
    <3> DEFINE j == [job[b] EXCEPT !.pc = "insert", !.path = p]
    <3>1. j.pc = "insert"
      BY <1>1 DEF Job
    <3> HIDE DEF j
    <3>2. Become(b, j)
      BY <2>2 DEF j
    <3>3. QED  BY <3>1, <3>2, JobMoves
  <2>3. QED  BY <2>1, <2>2 DEF HashFile
<1>11. ASSUME NEW pc, Goto(b, pc)
       PROVE  job'[b].pc = pc
  <2> DEFINE j == [job[b] EXCEPT !.pc = pc]
  <2>1. j.pc = pc
    BY <1>1, PcOf
  <2> HIDE DEF j
  <2>2. Become(b, j)
    BY <1>11 DEF Goto, j
  <2>3. QED  BY <2>1, <2>2, JobMoves
<1>12. RecordVersion(b) => job'[b].pc = "file"
  BY <1>1, PcOf, JobMoves DEF RecordVersion
<1>13. \/ StartBackup(b) \/ FinishSession(b) \/ (\E r \in Root : OpenRoot(b, r)) \/ LoadTracked(b)
       \/ (\E f \in File : InsertTracked(b, f)) \/ LoadLatest(b) \/ (\E f \in File : NextFile(b, f))
       \/ RootDone(b) \/ HashFile(b) \/ InsertBlock(b) \/ BumpRef(b) \/ StartCopy(b)
       \/ FinishCopy(b) \/ RecordVersion(b) \/ BackupFault(b) \/ BackupCrash(b)
  BY DEF BackupStep, BackupWork
<1>14. CASE InsertBlock(b)
  BY <1>11, <1>14 DEF InsertBlock
<1>15. CASE BumpRef(b) \/ StartCopy(b) \/ FinishCopy(b)
  BY <1>11, <1>15 DEF BumpRef, StartCopy, FinishCopy
<1>16. QED
  BY <1>2, <1>3, <1>4, <1>5, <1>6, <1>7, <1>8, <1>9, <1>10, <1>12, <1>13, <1>14, <1>15, FaultPc

LEMMA GotoKeeps ==
  ASSUME TypeInv, NEW b \in Backups, NEW pc, Goto(b, pc)
  PROVE  /\ job'[b].pc = pc /\ job'[b].path = job[b].path /\ job'[b].file = job[b].file
         /\ job'[b].scan = job[b].scan /\ job'[b].ids = job[b].ids
         /\ job'[b].latest = job[b].latest /\ job'[b].todo = job[b].todo
         /\ job'[b].roots = job[b].roots /\ job'[b].failed = job[b].failed
         /\ job'[b].sid = job[b].sid
<1> DEFINE j == [job[b] EXCEPT !.pc = pc]
<1>1. job[b] \in Job
  BY DEF TypeInv, TypeOK, EngineTypeOK
<1>2. /\ j.pc = pc /\ j.path = job[b].path /\ j.file = job[b].file
      /\ j.scan = job[b].scan /\ j.ids = job[b].ids /\ j.latest = job[b].latest
      /\ j.todo = job[b].todo /\ j.roots = job[b].roots /\ j.failed = job[b].failed
      /\ j.sid = job[b].sid
  BY <1>1 DEF Job
<1> HIDE DEF j
<1>3. Become(b, j)
  BY DEF Goto, j
<1>4. QED  BY <1>2, <1>3, JobMoves

(* What a backup can do that has a file to copy. *)
LEMMA AtCopy ==
  ASSUME NEW b \in Backups, BackupStep(b), At(b, "copy") \/ At(b, "copying")
  PROVE  \/ At(b, "copy") /\ StartCopy(b)
         \/ At(b, "copying") /\ FinishCopy(b)
         \/ CopyFails(b)
         \/ BackupCrash(b)
BY DEF BackupStep, BackupWork, BackupFault, StartBackup, FinishSession, OpenRoot, LoadTracked,
       InsertTracked, LoadLatest, NextFile, RootDone, HashFile, InsertBlock, BumpRef, StartCopy,
       FinishCopy, RecordVersion, StatementFails, RootFails, HashFails, At

-----------------------------------------------------------------------------
(* Part 2: sources. *)

LEMMA BackupReads ==
  ASSUME NEW b \in Backups, BackupStep(b)
  PROVE  source' = source
BY DEF BackupStep, BackupWork, BackupFault, BackupCrash, StartBackup, FinishSession, OpenRoot,
       LoadTracked, InsertTracked, LoadLatest, NextFile, RootDone, HashFile, InsertBlock, BumpRef,
       StartCopy, FinishCopy, RecordVersion, StatementFails, RootFails, HashFails, CopyFails,
       fileVars

(* Sources that rest while a backup runs. *)
LEMMA SourceRests ==
  ASSUME [Next]_vars, "live" \notin Faults, NEW b \in Backups, ~ At(b, "idle")
  PROVE  source' = source
<1>1. ~ SourceStep
  BY DEF SourceStep
<1>2. ASSUME NEW g \in Gcs, GcStep(g)
      PROVE  source' = source
  BY <1>2 DEF GcStep, GcWork, StartGc, GcVersion, GcVersionFails, GcRemove, GcRemoveFails,
     GcAborts, GcTracked, VerifierCrash, Decrement, fileVars
<1>3. ASSUME NEW c \in Checks, CheckStep(c)
      PROVE  source' = source
  BY <1>3 DEF CheckStep, CheckWork, StartCheck, ExamineBlock, CheckAborts, AllExamined,
     CleanBlock, CheckDone, VerifierCrash, Decrement, fileVars
<1>4. QED  BY <1>1, <1>2, <1>3, BackupReads DEF Next, Rest, vars, fileVars

-----------------------------------------------------------------------------
(* Part 3: rows and files. *)

LEMMA BlockSteps ==
  ASSUME [Next]_vars
  PROVE  \/ \E b \in Backups : InsertBlock(b) \/ BumpRef(b)
         \/ \E p \in Callers : Decrement(p)
         \/ UNCHANGED block
<1>1. ASSUME NEW b \in Backups, BackupStep(b), ~ InsertBlock(b), ~ BumpRef(b)
      PROVE  UNCHANGED block
  BY <1>1 DEF BackupStep, BackupWork, BackupFault, BackupCrash, StartBackup, FinishSession,
     OpenRoot, LoadTracked, InsertTracked, LoadLatest, NextFile, RootDone, HashFile, StartCopy,
     FinishCopy, RecordVersion, StatementFails, RootFails, HashFails, CopyFails, storeVars
<1>2. ASSUME NEW g \in Gcs, GcStep(g), ~ Decrement(g)
      PROVE  UNCHANGED block
  BY <1>2 DEF GcStep, GcWork, StartGc, GcVersion, GcVersionFails, GcRemove, GcRemoveFails,
     GcAborts, GcTracked, VerifierCrash, storeVars, storeButDec
<1>3. ASSUME NEW c \in Checks, CheckStep(c), ~ Decrement(c)
      PROVE  UNCHANGED block
  BY <1>3 DEF CheckStep, CheckWork, StartCheck, ExamineBlock, CheckAborts, AllExamined,
     CleanBlock, CheckDone, VerifierCrash, storeVars, storeButDec
<1>4. SourceStep \/ UNCHANGED vars => UNCHANGED block
  BY DEF SourceStep, vars, storeVars
<1>5. QED  BY <1>1, <1>2, <1>3, <1>4, CallersOK DEF Next, Rest

LEMMA VersionSteps ==
  ASSUME [Next]_vars
  PROVE  \/ \E b \in Backups : RecordVersion(b)
         \/ /\ UNCHANGED lastVersion
            /\ \/ UNCHANGED version
               \/ \E g \in Gcs : \E d \in gc[g].plan : GcVersion(g, d)
<1>1. ASSUME NEW b \in Backups, BackupStep(b), ~ RecordVersion(b)
      PROVE  UNCHANGED <<version, lastVersion>>
  BY <1>1 DEF BackupStep, BackupWork, BackupFault, BackupCrash, StartBackup, FinishSession,
     OpenRoot, LoadTracked, InsertTracked, LoadLatest, NextFile, RootDone, HashFile, InsertBlock,
     BumpRef, StartCopy, FinishCopy, StatementFails, RootFails, HashFails, CopyFails, storeVars
<1>2. ASSUME NEW g \in Gcs, GcStep(g)
      PROVE  /\ UNCHANGED lastVersion
             /\ UNCHANGED version \/ \E d \in gc[g].plan : GcVersion(g, d)
  BY <1>2 DEF GcStep, GcWork, StartGc, GcVersion, GcVersionFails, GcRemove, GcRemoveFails,
     GcAborts, GcTracked, VerifierCrash, Decrement, DecStep, DecFails, storeVars, storeButDec
<1>3. ASSUME NEW c \in Checks, CheckStep(c)
      PROVE  UNCHANGED <<version, lastVersion>>
  BY <1>3 DEF CheckStep, CheckWork, StartCheck, ExamineBlock, CheckAborts, AllExamined,
     CleanBlock, CheckDone, VerifierCrash, Decrement, DecStep, DecFails, storeVars, storeButDec
<1>4. SourceStep \/ UNCHANGED vars => UNCHANGED <<version, lastVersion>>
  BY DEF SourceStep, vars, storeVars
<1>5. QED  BY <1>1, <1>2, <1>3, <1>4 DEF Next, Rest

LEMMA RunSteps ==
  ASSUME [Next]_vars
  PROVE  UNCHANGED runs \/ \E p \in Callers : CountRun(p)
<1>1. ASSUME NEW g \in Gcs, GcStep(g)
      PROVE  UNCHANGED runs \/ CountRun(g)
  BY <1>1 DEF GcStep, GcWork, StartGc, GcVersion, GcVersionFails, GcRemove, GcRemoveFails,
     GcAborts, GcTracked, VerifierCrash, Decrement
<1>2. ASSUME NEW c \in Checks, CheckStep(c)
      PROVE  UNCHANGED runs \/ CountRun(c)
  BY <1>2 DEF CheckStep, CheckWork, StartCheck, ExamineBlock, CheckAborts, AllExamined,
     CleanBlock, CheckDone, VerifierCrash, Decrement
<1>3. QED  BY <1>1, <1>2, CallersOK DEF Next, Rest, vars, verifierVars

(* A row keeps its path; a new one has that of the backup that inserts it. *)
LEMMA RowsFate ==
  ASSUME TypeInv, [Next]_vars, NEW h \in DOMAIN block'
  PROVE  \/ h \in DOMAIN block /\ block'[h].path = block[h].path
         \/ \E b \in Backups : /\ InsertBlock(b) /\ h \notin DOMAIN block
                               /\ h = HashOf(b) /\ block'[h].path = job[b].path
<1>1. CASE UNCHANGED block
  BY <1>1
<1>2. ASSUME NEW b \in Backups, InsertBlock(b)
      PROVE  \/ h \in DOMAIN block /\ block'[h].path = block[h].path
             \/ h \notin DOMAIN block /\ h = HashOf(b) /\ block'[h].path = job[b].path
  BY <1>2 DEF InsertBlock, InsertOrIgnore, Put
<1>3. ASSUME NEW b \in Backups, BumpRef(b)
      PROVE  h \in DOMAIN block /\ block'[h].path = block[h].path
  BY <1>3 DEF BumpRef, AddRef, TypeInv, TypeOK, StoreTypeOK, Block
<1>4. ASSUME NEW p \in Callers, Decrement(p)
      PROVE  h \in DOMAIN block /\ block'[h].path = block[h].path
  <2>1. CASE DecUpdate(p)
    BY <2>1 DEF DecUpdate, TypeInv, TypeOK, StoreTypeOK, Block
  <2>2. CASE DecDelete(p)
    BY <2>2 DEF DecDelete, Without
  <2>3. QED  BY <1>4, <2>1, <2>2 DEF Decrement, DecStep, DecSelect, DecFails
<1>5. QED  BY <1>1, <1>2, <1>3, <1>4, BlockSteps

(* A file changes only by the copy to its path or the removal of its path. *)
LEMMA FilesFate ==
  ASSUME [Next]_vars, NEW p \in DOMAIN disk
  PROVE  \/ p \in DOMAIN disk' /\ disk'[p] = disk[p]
         \/ \E b \in Backups : (StartCopy(b) \/ FinishCopy(b)) /\ job[b].path = p
         \/ \E g \in Gcs : GcRemove(g) /\ gc[g].path = p
<1>1. ASSUME NEW b \in Backups, StartCopy(b), job[b].path # p
      PROVE  p \in DOMAIN disk' /\ disk'[p] = disk[p]
  BY <1>1 DEF StartCopy, CreateFile, Put
<1>2. ASSUME NEW b \in Backups, FinishCopy(b), job[b].path # p
      PROVE  p \in DOMAIN disk' /\ disk'[p] = disk[p]
  BY <1>2 DEF FinishCopy, CompleteFile
<1>3. ASSUME NEW g \in Gcs, GcRemove(g), gc[g].path # p
      PROVE  p \in DOMAIN disk' /\ disk'[p] = disk[p]
  BY <1>3 DEF GcRemove, RemoveFile, Without
<1>4. ASSUME NEW b \in Backups, BackupStep(b), ~ StartCopy(b), ~ FinishCopy(b)
      PROVE  UNCHANGED disk
  BY <1>4 DEF BackupStep, BackupWork, BackupFault, BackupCrash, StartBackup, FinishSession,
     OpenRoot, LoadTracked, InsertTracked, LoadLatest, NextFile, RootDone, HashFile,
     InsertBlock, BumpRef, RecordVersion, StatementFails, RootFails, HashFails, CopyFails, fileVars
<1>5. ASSUME NEW g \in Gcs, GcStep(g), ~ GcRemove(g)
      PROVE  UNCHANGED disk
  BY <1>5 DEF GcStep, GcWork, StartGc, GcVersion, GcVersionFails, GcRemoveFails, GcAborts,
     GcTracked, VerifierCrash, Decrement, fileVars
<1>6. ASSUME NEW c \in Checks, CheckStep(c)
      PROVE  UNCHANGED disk
  BY <1>6 DEF CheckStep, CheckWork, StartCheck, ExamineBlock, CheckAborts, AllExamined,
     CleanBlock, CheckDone, VerifierCrash, Decrement, fileVars
<1>7. SourceStep \/ UNCHANGED vars => UNCHANGED disk
  BY DEF SourceStep, Edit, Unlink, vars, fileVars
<1>8. QED  BY <1>1, <1>2, <1>3, <1>4, <1>5, <1>6, <1>7 DEF Next, Rest

(* The bytes of a row that is not deleted stay. *)
LEMMA StoredStays ==
  ASSUME TypeInv, PathInv, [Next]_vars, NEW h, Stored(h), h \in DOMAIN block'
  PROVE  Stored(h)'
<1> DEFINE p == block[h].path
<1>1. h \in DOMAIN block /\ p \in DOMAIN disk /\ disk[p] = [content |-> h, whole |-> TRUE]
  BY DEF Stored
<1>2. block'[h].path = p
  BY <1>1, RowsFate
<1>3. p \in DOMAIN disk' /\ disk'[p] = disk[p]
  BY <1>1, NextKeepsFiles DEF KeepsFiles
<1>4. QED  BY <1>1, <1>2, <1>3 DEF Stored
=============================================================================
