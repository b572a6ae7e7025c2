---------------------------- MODULE RefCountProofs ----------------------------
(***************************************************************************)
(* The reference counts of Vault cover the versions, as long as nobody     *)
(* takes away what somebody else counted: with any number of backups and   *)
(* no collection, or with one of each, and with no check.                  *)
(***************************************************************************)
EXTENDS VaultSteps, FiniteSetTheorems

OneCollector ==
  /\ IsFiniteSet(Backups)
  /\ Checks = {}
  /\ \A g, k \in Gcs : g = k
  /\ Gcs = {} \/ \A b, c \in Backups : b = c

(* The versions that name block h, the backups that counted it for one     *)
(* they have yet to record, and the collections that deleted one and have  *)
(* yet to take it from the count.                                          *)
Naming(h) == {v \in version : v.hash = h}
Owing(h)  == {b \in Backups : job[b].pc \in {"copy", "copying", "version"} /\ HashOf(b) = h}
Taking(h) == {g \in Gcs : dec[g].at = "update" /\ dec[g].hash = h}

Counted(h) ==
  block[h].refs >= Cardinality(Naming(h)) + Cardinality(Owing(h)) + Cardinality(Taking(h))

(* The foreign key of file_version. *)
ForeignKeys == \A v \in version : v.hash \in DOMAIN block

(* What a collection plans to delete is there, each row of it once. *)
PlanKept ==
  \A g \in Gcs :
    /\ \A d \in gc[g].plan : \E v \in version : v.id = d.id /\ v.hash = d.hash
    /\ \A d, e \in gc[g].plan : d.id = e.id => d = e

(* The row that a collection decrements is there, ... *)
RowTaken ==
  \A g \in Gcs : dec[g].at \in {"update", "select", "delete"} => dec[g].hash \in DOMAIN block

(* ... and so is the one that a backup counts, if nobody collects. *)
RowOwed ==
  Gcs = {} => \A b \in Backups :
    job[b].pc \in {"bump", "copy", "copying", "version"} => HashOf(b) \in DOMAIN block

RefInv ==
  /\ IsFiniteSet(version)
  /\ ForeignKeys
  /\ PlanKept
  /\ RowTaken
  /\ RowOwed
  /\ \A h \in DOMAIN block : Counted(h)

-----------------------------------------------------------------------------
(* Counting. *)

LEMMA AllFinite ==
  ASSUME OneCollector, IsFiniteSet(version), NEW h
  PROVE  /\ IsFiniteSet(Naming(h)) /\ Cardinality(Naming(h)) \in Nat
         /\ IsFiniteSet(Owing(h))  /\ Cardinality(Owing(h)) \in Nat
         /\ IsFiniteSet(Taking(h)) /\ Cardinality(Taking(h)) \in Nat
<1>1. IsFiniteSet(Naming(h))
  BY FS_Subset DEF Naming
<1>2. IsFiniteSet(Owing(h))
  BY FS_Subset DEF Owing, OneCollector
<1>3. IsFiniteSet(Gcs)
  <2>1. ASSUME NEW g \in Gcs
        PROVE  Gcs = {g}
    BY DEF OneCollector
  <2>2. CASE Gcs = {}
    BY <2>2, FS_EmptySet
  <2>3. CASE \E g : g \in Gcs
    <3>1. PICK g : Gcs = {g}
      BY <2>1, <2>3
    <3>2. QED  BY <3>1, FS_Singleton
  <2>4. QED  BY <2>2, <2>3
<1>4. IsFiniteSet(Taking(h))
  BY <1>3, FS_Subset DEF Taking
<1>5. QED  BY <1>1, <1>2, <1>4, FS_CardinalityType

(* Fewer to count, and no smaller a count. *)
LEMMA StillCounted ==
  ASSUME TypeInv, TypeInv', OneCollector, IsFiniteSet(version),
         NEW h \in DOMAIN block, h \in DOMAIN block', Counted(h),
         block'[h].refs >= block[h].refs,
         Naming(h)' \subseteq Naming(h), Owing(h)' \subseteq Owing(h),
         Taking(h)' \subseteq Taking(h)
  PROVE  Counted(h)'
<1>1. block[h].refs \in Nat /\ block'[h].refs \in Nat
  BY DEF TypeInv, TypeOK, StoreTypeOK, Block
<1>2. /\ Cardinality(Naming(h)') \in Nat /\ Cardinality(Naming(h)') <= Cardinality(Naming(h))
      /\ Cardinality(Owing(h)') \in Nat /\ Cardinality(Owing(h)') <= Cardinality(Owing(h))
      /\ Cardinality(Taking(h)') \in Nat /\ Cardinality(Taking(h)') <= Cardinality(Taking(h))
  BY AllFinite, FS_Subset, FS_CardinalityType
<1>3. QED  BY <1>1, <1>2, AllFinite DEF Counted

LEMMA PlanRests ==
  ASSUME PlanKept, version' = version, \A g \in Gcs : gc'[g].plan \subseteq gc[g].plan
  PROVE  PlanKept'
BY DEF PlanKept

(* A step that touches no row and no version, and by which nobody begins   *)
(* to owe or to take.                                                      *)
LEMMA CountsRest ==
  ASSUME TypeInv, TypeInv', OneCollector, RefInv, PlanKept',
         block' = block, version' = version,
         \A g \in Gcs : dec'[g].at \in {"update", "select", "delete"} =>
           /\ dec[g].at \in {"update", "select", "delete"}
           /\ dec'[g].hash = dec[g].hash
           /\ dec'[g].at = "update" => dec[g].at = "update",
         \A h : Owing(h)' \subseteq Owing(h),
         RowOwed'
  PROVE  RefInv'
<1>1. IsFiniteSet(version)' /\ ForeignKeys' /\ RowTaken'
  BY DEF RefInv, ForeignKeys, RowTaken
<1>2. ASSUME NEW h \in DOMAIN block'
      PROVE  Counted(h)'
  <2>1. Naming(h)' \subseteq Naming(h)
    BY DEF Naming
  <2>2. Taking(h)' \subseteq Taking(h)
    BY DEF Taking
  <2>3. block'[h].refs >= block[h].refs
    BY DEF TypeInv, TypeOK, StoreTypeOK, Block
  <2>4. QED  BY <2>1, <2>2, <2>3, StillCounted DEF RefInv
<1>3. QED  BY <1>1, <1>2 DEF RefInv

-----------------------------------------------------------------------------
(* Backups. *)

LEMMA OweNoMore ==
  ASSUME TypeInv, NEW b \in Backups, BackupStep(b), ~ InsertBlock(b), ~ BumpRef(b)
  PROVE  /\ \A h : Owing(h)' \subseteq Owing(h)
         /\ \A c \in Backups :
              job'[c].pc \in {"bump", "copy", "copying", "version"} =>
                /\ job[c].pc \in {"bump", "copy", "copying", "version"}
                /\ job'[c].path = job[c].path
<1>1. \A c \in Backups : c # b => job'[c] = job[c]
  BY OthersRest
<1>2. \/ job'[b].pc \notin {"bump", "copy", "copying", "version"}
      \/ StartCopy(b) \/ FinishCopy(b)
  BY NextPc
<1>3. StartCopy(b) \/ FinishCopy(b) =>
        job'[b].path = job[b].path /\ job[b].pc \in {"copy", "copying"}
  BY GotoKeeps DEF StartCopy, FinishCopy, At
<1>4. QED  BY <1>1, <1>2, <1>3 DEF Owing, HashOf

LEMMA BackupKeeps ==
  ASSUME NEW b \in Backups, BackupStep(b), UNCHANGED verifierVars
  PROVE  /\ UNCHANGED <<gc, dec>>
         /\ InsertBlock(b) \/ BumpRef(b) \/ UNCHANGED block
         /\ RecordVersion(b) \/ UNCHANGED version
BY DEF BackupStep, BackupWork, BackupFault, BackupCrash, StartBackup, FinishSession, OpenRoot,
       LoadTracked, InsertTracked, LoadLatest, NextFile, RootDone, HashFile, InsertBlock, BumpRef,
       StartCopy, FinishCopy, RecordVersion, StatementFails, RootFails, HashFails, CopyFails,
       storeVars, verifierVars

LEMMA InsertBlockCounts ==
  ASSUME TypeInv, TypeInv', JobShape, OneCollector, RefInv, NEW b \in Backups, InsertBlock(b),
         UNCHANGED <<gc, dec>>
  PROVE  RefInv'
<1> DEFINE h == HashOf(b)
<1>1. /\ version' = version /\ job[b].pc = "insert" /\ h \in Hash
      /\ \A c \in Backups : c # b => job'[c] = job[c]
  <2>1. job[b] \in Job /\ WellFormed(job[b]) /\ job[b].pc = "insert"
    BY JobNow DEF TypeInv, TypeOK, InsertBlock, At
  <2>2. h \in Hash
    BY <2>1 DEF WellFormed, WithFile, HashOf, Path
  <2>3. QED  BY <2>1, <2>2, OthersRest DEF InsertBlock, BackupStep, BackupWork
<1>2. PlanKept'
  BY <1>1, PlanRests DEF RefInv
<1>3. CASE h \in DOMAIN block
  <2>1. block' = block /\ Goto(b, "bump")
    BY <1>3 DEF InsertBlock, InsertOrIgnore
  <2>2. job'[b].pc = "bump" /\ job'[b].path = job[b].path
    BY <2>1, GotoKeeps
  <2>3. \A k : Owing(k)' \subseteq Owing(k)
    BY <1>1, <2>2 DEF Owing, HashOf
  <2>4. RowOwed'
    BY <1>1, <1>3, <2>1, <2>2 DEF RefInv, RowOwed, HashOf
  <2>5. QED  BY <1>1, <1>2, <2>1, <2>3, <2>4, CountsRest
<1>4. CASE h \notin DOMAIN block
  <2>1. Goto(b, "copy") /\ DOMAIN block' = DOMAIN block \cup {h} /\ block'[h].refs = 1
        /\ \A k \in DOMAIN block : block'[k] = block[k]
    BY <1>4 DEF InsertBlock, InsertOrIgnore, Put
  <2>2. job'[b].pc = "copy" /\ job'[b].path = job[b].path
    BY <2>1, GotoKeeps
  <2>3. IsFiniteSet(version)' /\ ForeignKeys' /\ RowTaken' /\ RowOwed'
    BY <1>1, <2>1, <2>2 DEF RefInv, ForeignKeys, RowTaken, RowOwed, HashOf
  <2>4. ASSUME NEW k \in DOMAIN block
        PROVE  Counted(k)'
    <3>1. k # h
      BY <1>4
    <3>2. Naming(k)' \subseteq Naming(k) /\ Taking(k)' \subseteq Taking(k)
      BY <1>1 DEF Naming, Taking
    <3>3. Owing(k)' \subseteq Owing(k)
      BY <1>1, <2>2, <3>1 DEF Owing, HashOf
    <3>4. block'[k].refs >= block[k].refs /\ k \in DOMAIN block'
      BY <2>1 DEF TypeInv, TypeOK, StoreTypeOK, Block
    <3>5. QED  BY <3>2, <3>3, <3>4, StillCounted DEF RefInv
  <2>5. ASSUME NEW k, k = h
        PROVE  Counted(k)'
    <3>1. Naming(k)' = {} /\ Taking(k)' = {}
      BY <1>1, <1>4, <2>5 DEF RefInv, ForeignKeys, RowTaken, Naming, Taking
    <3>2. Owing(k)' = {b}
      <4>1. b \in Owing(k)'
        BY <2>2, <2>5 DEF Owing, HashOf
      <4>2. ASSUME NEW c \in Backups, c # b
            PROVE  c \notin Owing(k)'
        BY <1>1, <1>4, <2>5, <4>2 DEF OneCollector, RefInv, RowOwed, Owing, HashOf
      <4>3. QED  BY <4>1, <4>2 DEF Owing
    <3>3. /\ Cardinality(Naming(k)') = 0 /\ Cardinality(Taking(k)') = 0
          /\ Cardinality(Owing(k)') = 1
      BY <3>1, <3>2, FS_EmptySet, FS_Singleton
    <3>4. QED  BY <2>1, <2>5, <3>3 DEF Counted
  <2>6. \A k \in DOMAIN block' : Counted(k)'
    BY <2>1, <2>4, <2>5
  <2>7. QED  BY <1>2, <2>3, <2>6 DEF RefInv
<1>5. QED  BY <1>3, <1>4

LEMMA BumpRefCounts ==
  ASSUME TypeInv, TypeInv', OneCollector, RefInv, NEW b \in Backups, BumpRef(b),
         UNCHANGED <<gc, dec>>
  PROVE  RefInv'
<1> DEFINE h == HashOf(b)
<1>1. /\ version' = version /\ job[b].pc = "bump" /\ DOMAIN block' = DOMAIN block
      /\ \A k \in DOMAIN block : k # h => block'[k] = block[k]
      /\ h \in DOMAIN block => block'[h].refs = block[h].refs + 1
      /\ \A c \in Backups : c # b => job'[c] = job[c]
  <2>1. \A c \in Backups : c # b => job'[c] = job[c]
    BY OthersRest DEF BackupStep, BackupWork
  <2>2. QED  BY <2>1 DEF BumpRef, AddRef, At, TypeInv, TypeOK, StoreTypeOK, Block
<1>2. job'[b].pc = "version" /\ job'[b].path = job[b].path
  BY GotoKeeps DEF BumpRef
<1>3. IsFiniteSet(version)' /\ ForeignKeys' /\ RowTaken' /\ RowOwed'
  BY <1>1, <1>2 DEF RefInv, ForeignKeys, RowTaken, RowOwed, HashOf
<1>4. PlanKept'
  BY <1>1, PlanRests DEF RefInv
<1>5. ASSUME NEW k \in DOMAIN block
      PROVE  Counted(k)'
  <2>1. Naming(k)' = Naming(k) /\ Taking(k)' = Taking(k)
    BY <1>1 DEF Naming, Taking
  <2>2. CASE k # h
    <3>1. Owing(k)' \subseteq Owing(k)
      BY <1>1, <1>2, <2>2 DEF Owing, HashOf
    <3>2. block'[k].refs >= block[k].refs /\ k \in DOMAIN block'
      BY <1>1, <2>2 DEF TypeInv, TypeOK, StoreTypeOK, Block
    <3>3. QED  BY <2>1, <3>1, <3>2, StillCounted DEF RefInv
  <2>3. CASE k = h
    <3>1. Owing(k)' = Owing(k) \cup {b}
      BY <1>1, <1>2, <2>3 DEF Owing, HashOf
    <3>2. Cardinality(Owing(k)') <= Cardinality(Owing(k)) + 1 /\ Cardinality(Owing(k)') \in Nat
      <4>1. IsFiniteSet(Owing(k)) /\ Cardinality(Owing(k)) \in Nat
        BY AllFinite DEF RefInv
      <4>2. Cardinality(Owing(k) \cup {b}) \in {Cardinality(Owing(k)), Cardinality(Owing(k)) + 1}
        BY <4>1, FS_AddElement
      <4>3. QED  BY <3>1, <4>1, <4>2
    <3>3. block[k].refs \in Nat /\ block'[k].refs = block[k].refs + 1
      BY <1>1, <2>3 DEF TypeInv, TypeOK, StoreTypeOK, Block
    <3>4. QED  BY <2>1, <3>2, <3>3, AllFinite DEF Counted, RefInv
  <2>4. QED  BY <2>2, <2>3
<1>6. QED  BY <1>1, <1>3, <1>4, <1>5 DEF RefInv

LEMMA RecordVersionCounts ==
  ASSUME TypeInv, TypeInv', OneCollector, IdsAscend, RefInv, NEW b \in Backups, RecordVersion(b),
         UNCHANGED <<gc, dec>>
  PROVE  RefInv'
<1>1. BackupStep(b) /\ ~ InsertBlock(b) /\ ~ BumpRef(b) /\ block' = block /\ job[b].pc = "version"
  BY DEF BackupStep, BackupWork, RecordVersion, InsertBlock, BumpRef, At
<1>2. (\A h : Owing(h)' \subseteq Owing(h)) /\ RowOwed'
  BY <1>1, OweNoMore DEF RefInv, RowOwed, HashOf
<1>3. CASE version' = version
  <2>1. PlanKept'
    BY <1>3, PlanRests DEF RefInv
  <2>2. QED  BY <1>1, <1>2, <1>3, <2>1, CountsRest
<1>4. ASSUME version' # version
      PROVE  RefInv'
  <2>1. PICK h : h = HashOf(b)
    OBVIOUS
  <2> DEFINE new == [id |-> lastVersion + 1, tid |-> job[b].ids[job[b].file], hash |-> h,
                     mtime |-> Scanned(b).mtime, size |-> Scanned(b).size]
  <2>2. /\ version' = version \cup {new} /\ h \in DOMAIN block
        /\ new.id = lastVersion + 1 /\ new.hash = h
    BY <1>4, <2>1 DEF RecordVersion, InsertFileVersion
  <2> HIDE DEF new
  <2>3. new \notin version
    BY <2>2 DEF IdsAscend, TypeInv, TypeOK, StoreTypeOK, Version
  <2>4. IsFiniteSet(version)'
    BY <2>2, FS_AddElement DEF RefInv
  <2>5. ForeignKeys' /\ RowTaken'
    BY <1>1, <2>2 DEF RefInv, ForeignKeys, RowTaken
  <2>6. PlanKept'
    BY <2>2 DEF RefInv, PlanKept
  <2>7. ASSUME NEW k \in DOMAIN block, k # h
        PROVE  Counted(k)'
    <3>1. Naming(k)' \subseteq Naming(k) /\ Taking(k)' \subseteq Taking(k)
      BY <2>2, <2>7 DEF Naming, Taking
    <3>2. block'[k].refs >= block[k].refs /\ k \in DOMAIN block'
      BY <1>1 DEF TypeInv, TypeOK, StoreTypeOK, Block
    <3>3. QED  BY <1>2, <3>1, <3>2, StillCounted DEF RefInv
  <2>8. Counted(h)'
    <3>1. Naming(h)' = Naming(h) \cup {new} /\ new \notin Naming(h) /\ Taking(h)' = Taking(h)
      BY <2>2, <2>3 DEF Naming, Taking
    <3>2. b \in Owing(h) /\ Owing(h)' \subseteq Owing(h) \ {b}
      <4>1. job'[b].pc = "file"
        BY JobMoves, PcOf DEF RecordVersion, TypeInv, TypeOK, EngineTypeOK
      <4>2. QED  BY <1>1, <1>2, <2>1, <4>1 DEF Owing
    <3>3. Cardinality(Naming(h)') = Cardinality(Naming(h)) + 1
      BY <3>1, AllFinite, FS_AddElement DEF RefInv
    <3>4. Cardinality(Owing(h)') <= Cardinality(Owing(h)) - 1 /\ Cardinality(Owing(h)') \in Nat
      <4>1. IsFiniteSet(Owing(h) \ {b}) /\ Cardinality(Owing(h) \ {b}) = Cardinality(Owing(h)) - 1
        BY <3>2, AllFinite, FS_RemoveElement DEF RefInv
      <4>2. QED  BY <3>2, <4>1, FS_Subset, FS_CardinalityType
    <3>5. block'[h].refs = block[h].refs /\ block[h].refs \in Nat
      BY <1>1, <2>2 DEF TypeInv, TypeOK, StoreTypeOK, Block
    <3>6. Counted(h)
      BY <2>2 DEF RefInv
    <3>7. QED  BY <3>1, <3>3, <3>4, <3>5, <3>6, AllFinite DEF Counted, RefInv
  <2>9. QED  BY <1>1, <1>2, <2>4, <2>5, <2>6, <2>7, <2>8 DEF RefInv
<1>5. QED  BY <1>3, <1>4

-----------------------------------------------------------------------------
(* The collection. *)

LEMMA OwedRests ==
  ASSUME job' = job
  PROVE  (\A h : Owing(h)' = Owing(h)) /\ (RowOwed /\ DOMAIN block' = DOMAIN block => RowOwed')
BY DEF Owing, RowOwed, HashOf

(* It deletes a version, and is to take it from the count. *)
LEMMA GcVersionCounts ==
  ASSUME TypeInv, TypeInv', OneCollector, IdsAscend, RefInv, NEW g \in Gcs, NEW d \in gc[g].plan,
         GcVersion(g, d), UNCHANGED job
  PROVE  RefInv'
<1> DEFINE h == d.hash
<1>1. PICK v \in version : v.id = d.id /\ v.hash = d.hash
  BY DEF RefInv, PlanKept
<1>2. version' = version \ {v}
  BY <1>1 DEF GcVersion, DeleteVersion, IdsAscend
<1>3. block' = block /\ h \in DOMAIN block
  BY <1>1 DEF GcVersion, RefInv, ForeignKeys
<1>4. dec'[g].at = "update" /\ dec'[g].hash = h /\ dec[g].at \in {"none", "kept"}
  BY CallersOK DEF GcVersion, CallDec, TypeInv, TypeOK, StoreTypeOK
<1>5. gc'[g].plan = gc[g].plan \ {d}
  <2>1. gc[g] \in Gc
    BY DEF TypeInv, TypeOK, VerifierTypeOK
  <2> DEFINE n == [gc[g] EXCEPT !.plan = @ \ {d}, !.path = d.path]
  <2>2. n.plan = gc[g].plan \ {d}
    BY <2>1 DEF Gc
  <2> HIDE DEF n
  <2>3. gc' = [gc EXCEPT ![g] = n]
    BY DEF GcVersion, GcBecomes, n
  <2>4. QED  BY <2>2, <2>3 DEF TypeInv, TypeOK, VerifierTypeOK
<1>6. \A k \in Gcs : k = g
  BY DEF OneCollector
<1>7. IsFiniteSet(version)'
  BY <1>2, FS_Subset DEF RefInv
<1>8. ForeignKeys' /\ RowTaken' /\ RowOwed'
  BY <1>2, <1>3, <1>4, <1>6, OwedRests DEF RefInv, ForeignKeys, RowTaken
<1>9. PlanKept'
  <2> SUFFICES ASSUME NEW e \in gc[g].plan, e # d
               PROVE  \E w \in version' : w.id = e.id /\ w.hash = e.hash
    BY <1>5, <1>6 DEF RefInv, PlanKept
  <2>1. e.id # d.id
    BY DEF RefInv, PlanKept
  <2>2. PICK w \in version : w.id = e.id /\ w.hash = e.hash
    BY DEF RefInv, PlanKept
  <2>3. QED  BY <1>1, <1>2, <2>1, <2>2
<1>10. ASSUME NEW k \in DOMAIN block, k # h
       PROVE  Counted(k)'
  <2>1. /\ Naming(k)' \subseteq Naming(k)
        /\ Taking(k)' \subseteq Taking(k)
        /\ Owing(k)' \subseteq Owing(k)
    BY <1>2, <1>4, <1>6, <1>10, OwedRests DEF Naming, Taking
  <2>2. block'[k].refs >= block[k].refs /\ k \in DOMAIN block'
    BY <1>3 DEF TypeInv, TypeOK, StoreTypeOK, Block
  <2>3. QED  BY <2>1, <2>2, StillCounted DEF RefInv
<1>11. ASSUME NEW k, k = h
       PROVE  Counted(k)'
  <2>1. Naming(k)' = Naming(k) \ {v} /\ v \in Naming(k)
    BY <1>1, <1>2, <1>11 DEF Naming
  <2>2. Taking(k) = {} /\ Taking(k)' = {g} /\ Owing(k)' = Owing(k)
    BY <1>4, <1>6, <1>11, OwedRests DEF Taking
  <2>3. Cardinality(Naming(k)') = Cardinality(Naming(k)) - 1
    BY <2>1, AllFinite, FS_RemoveElement DEF RefInv
  <2>4. Cardinality(Taking(k)) = 0 /\ Cardinality(Taking(k)') = 1
    BY <2>2, FS_EmptySet, FS_Singleton
  <2>5. Counted(k) /\ block[k].refs \in Nat /\ block'[k].refs = block[k].refs
    BY <1>3, <1>11 DEF RefInv, TypeInv, TypeOK, StoreTypeOK, Block
  <2>6. QED  BY <2>2, <2>3, <2>4, <2>5, AllFinite DEF Counted, RefInv
<1>12. QED  BY <1>3, <1>7, <1>8, <1>9, <1>10, <1>11 DEF RefInv

(* decrement_block_ref takes it from the count, looks, and deletes a row   *)
(* only if no version names it.                                            *)
LEMMA DecrementCounts ==
  ASSUME TypeInv, TypeInv', OneCollector, RefInv, NEW g \in Gcs, Decrement(g), UNCHANGED job
  PROVE  RefInv'
<1> DEFINE h == dec[g].hash
<1>1. version' = version /\ gc' = gc /\ \A k \in Gcs : k = g
  BY DEF Decrement, DecStep, DecFails, OneCollector
<1>2. g \in Callers /\ DOMAIN dec = Callers
      /\ dec \in [Callers -> [at : DecAt, hash : Hash \cup {None}]]
  BY CallersOK DEF TypeInv, TypeOK, StoreTypeOK
<1>3. PlanKept'
  BY <1>1, PlanRests DEF RefInv
<1>4. CASE dec[g].at = "update" /\ h \in DOMAIN block /\ block[h].refs > 0 /\ DecUpdate(g)
  <2>1. /\ DOMAIN block' = DOMAIN block /\ \A k \in DOMAIN block : k # h => block'[k] = block[k]
        /\ block'[h].refs = block[h].refs - 1 /\ block[h].refs \in Nat
    BY <1>4 DEF DecUpdate, TypeInv, TypeOK, StoreTypeOK, Block
  <2>2. dec'[g].at = "select" /\ dec'[g].hash = h
    BY <1>2, <1>4 DEF DecUpdate
  <2>3. IsFiniteSet(version)' /\ ForeignKeys' /\ RowTaken' /\ RowOwed'
    BY <1>1, <1>4, <2>1, <2>2, OwedRests DEF RefInv, ForeignKeys, RowTaken
  <2>4. ASSUME NEW k \in DOMAIN block
        PROVE  Counted(k)'
    <3>1. Naming(k)' = Naming(k) /\ Owing(k)' = Owing(k) /\ Taking(k)' = {}
      BY <1>1, <2>2, OwedRests DEF Naming, Taking
    <3>2. CASE k # h
      <4>1. block'[k].refs >= block[k].refs /\ k \in DOMAIN block'
        BY <2>1, <3>2 DEF TypeInv, TypeOK, StoreTypeOK, Block
      <4>2. QED  BY <3>1, <4>1, StillCounted DEF RefInv
    <3>3. CASE k = h
      <4>1. Taking(k) = {g}
        BY <1>1, <1>4, <3>3 DEF Taking
      <4>2. Cardinality(Taking(k)) = 1 /\ Cardinality(Taking(k)') = 0
        BY <3>1, <4>1, FS_EmptySet, FS_Singleton
      <4>3. QED  BY <2>1, <3>1, <3>3, <4>2, AllFinite DEF Counted, RefInv
    <3>4. QED  BY <3>2, <3>3
  <2>5. QED  BY <1>3, <2>1, <2>3, <2>4 DEF RefInv
<1>5. CASE dec[g].at = "delete" /\ ~ Referenced(h) /\ DecDelete(g)
  <2>1. DOMAIN block' = DOMAIN block \ {h} /\ \A k \in DOMAIN block' : block'[k] = block[k]
    BY <1>5 DEF DecDelete, Without
  <2>2. dec'[g].at = "deleted"
    BY <1>2, <1>5 DEF DecDelete
  <2>3. IsFiniteSet(version)' /\ ForeignKeys' /\ RowTaken' /\ RowOwed'
    BY <1>1, <1>5, <2>1, <2>2 DEF RefInv, ForeignKeys, RowTaken, RowOwed, Referenced
  <2>4. ASSUME NEW k \in DOMAIN block'
        PROVE  Counted(k)'
    <3>1. /\ Naming(k)' \subseteq Naming(k)
          /\ Owing(k)' \subseteq Owing(k)
          /\ Taking(k)' \subseteq Taking(k)
      BY <1>1, <2>2, OwedRests DEF Naming, Taking
    <3>2. block'[k].refs >= block[k].refs /\ k \in DOMAIN block
      BY <2>1 DEF TypeInv, TypeOK, StoreTypeOK, Block
    <3>3. QED  BY <3>1, <3>2, StillCounted DEF RefInv
  <2>5. QED  BY <1>3, <2>3, <2>4 DEF RefInv
<1>6. CASE /\ block' = block
           /\ dec[g].at \in {"update", "select", "delete"}
           /\ dec'[g].at \in {"kept", "error", "delete"} /\ dec'[g].hash = h
           /\ dec'[g].at = "delete" => dec[g].at = "select"
  <2>1. \A k : Owing(k)' \subseteq Owing(k)
    BY OwedRests
  <2>2. RowOwed'
    BY <1>6, OwedRests DEF RefInv
  <2>3. QED  BY <1>1, <1>3, <1>6, <2>1, <2>2, CountsRest
<1>7. DecUpdate(g) \/ DecSelect(g) \/ DecDelete(g) \/ DecFails(g)
  BY DEF Decrement, DecStep
<1>8. QED
  BY <1>2, <1>4, <1>5, <1>6, <1>7 DEF DecUpdate, DecSelect, DecDelete, DecFails

LEMMA GcCounts ==
  ASSUME TypeInv, TypeInv', OneCollector, IdsAscend, RefInv, NEW g \in Gcs, GcStep(g), UNCHANGED job
  PROVE  RefInv'
<1>1. gc[g] \in Gc /\ NoGc.plan = {} /\ g \in Callers /\ DOMAIN dec = Callers
      /\ gc \in [Gcs -> Gc] /\ NoCall.at = "none" /\ g \notin Checks /\ \A k \in Gcs : k = g
  BY CallersOK DEF TypeInv, TypeOK, StoreTypeOK, VerifierTypeOK, NoGc, NoCall, OneCollector
<1>2. CASE \E d \in gc[g].plan : GcVersion(g, d)
  BY <1>2, GcVersionCounts
<1>3. CASE Decrement(g)
  BY <1>3, DecrementCounts
<1>4. ASSUME NEW r \in Root, StartGc(g, r)
      PROVE  RefInv'
  <2>1. UNCHANGED <<block, version, dec>> /\ gc'[g].plan = VersionsByRoot(r)
    BY <1>1, <1>4 DEF StartGc, GcBecomes, storeVars
  <2>2. PlanKept'
    <3>1. \A d \in VersionsByRoot(r) : \E v \in version : v.id = d.id /\ v.hash = d.hash
      BY DEF VersionsByRoot
    <3>2. \A d, e \in VersionsByRoot(r) : d.id = e.id => d = e
      BY DEF VersionsByRoot, IdsAscend
    <3>3. QED  BY <1>1, <2>1, <3>1, <3>2 DEF PlanKept
  <2>3. RowOwed' /\ \A h : Owing(h)' \subseteq Owing(h)
    BY <2>1, OwedRests DEF RefInv
  <2>4. QED  BY <2>1, <2>2, <2>3, CountsRest
<1>5. ASSUME NEW n, GcBecomes(g, n), n.plan \subseteq gc[g].plan, EndDec(g),
             UNCHANGED <<block, version>>
      PROVE  RefInv'
  <2>1. gc'[g] = n /\ dec'[g].at = "none"
    BY <1>1, <1>5 DEF GcBecomes, EndDec
  <2>2. PlanKept'
    BY <1>1, <1>5, <2>1, PlanRests DEF RefInv
  <2>3. RowOwed' /\ \A h : Owing(h)' \subseteq Owing(h)
    BY <1>5, OwedRests DEF RefInv
  <2>4. QED  BY <1>1, <1>5, <2>1, <2>2, <2>3, CountsRest
<1>6. ASSUME NEW d \in gc[g].plan, GcVersionFails(g, d)
      PROVE  RefInv'
  <2> DEFINE n == [gc[g] EXCEPT !.plan = @ \ {d}, !.path = None]
  <2>1. n.plan \subseteq gc[g].plan
    BY <1>1 DEF Gc
  <2> HIDE DEF n
  <2>2. GcBecomes(g, n) /\ EndDec(g) /\ UNCHANGED <<block, version>>
    BY <1>6 DEF GcVersionFails, storeButDec, n
  <2>3. QED  BY <1>5, <2>1, <2>2
<1>7. CASE GcRemove(g) \/ GcRemoveFails(g)
  <2> DEFINE n == [gc[g] EXCEPT !.path = None]
  <2>1. n.plan \subseteq gc[g].plan
    BY <1>1 DEF Gc
  <2> HIDE DEF n
  <2>2. GcBecomes(g, n) /\ EndDec(g) /\ UNCHANGED <<block, version>>
    BY <1>7 DEF GcRemove, GcRemoveFails, storeButDec, n
  <2>3. QED  BY <1>5, <2>1, <2>2
<1>8. CASE GcAborts(g) \/ GcTracked(g) \/ VerifierCrash(g)
  <2>1. GcBecomes(g, NoGc) /\ EndDec(g) /\ UNCHANGED <<block, version>>
    BY <1>1, <1>8 DEF GcAborts, GcTracked, VerifierCrash, storeButDec
  <2>2. QED  BY <1>1, <1>5, <2>1
<1>9. QED  BY <1>2, <1>3, <1>4, <1>6, <1>7, <1>8 DEF GcStep, GcWork

LEMMA RefStep ==
  ASSUME TypeInv, TypeInv', JobShape, IdsAscend, OneCollector, RefInv, [Next]_vars
  PROVE  RefInv'
<1>1. ASSUME NEW b \in Backups, BackupStep(b), UNCHANGED verifierVars
      PROVE  RefInv'
  <2>1. UNCHANGED <<gc, dec>>
    BY <1>1, BackupKeeps
  <2>2. CASE InsertBlock(b) \/ BumpRef(b) \/ RecordVersion(b)
    BY <2>1, <2>2, InsertBlockCounts, BumpRefCounts, RecordVersionCounts
  <2>3. CASE ~ InsertBlock(b) /\ ~ BumpRef(b) /\ ~ RecordVersion(b)
    <3>1. UNCHANGED <<block, version>>
      BY <1>1, <2>3, BackupKeeps
    <3>2. RowOwed' /\ \A h : Owing(h)' \subseteq Owing(h)
      BY <1>1, <2>3, <3>1, OweNoMore DEF RefInv, RowOwed, HashOf
    <3>3. PlanKept'
      BY <2>1, <3>1, PlanRests DEF RefInv
    <3>4. QED  BY <2>1, <3>1, <3>2, <3>3, CountsRest
  <2>4. QED  BY <2>2, <2>3
<1>2. CASE UNCHANGED <<storeVars, job, gc>>
  <2>1. RowOwed' /\ \A h : Owing(h)' \subseteq Owing(h)
    BY <1>2, OwedRests DEF RefInv, storeVars
  <2>2. PlanKept'
    BY <1>2, PlanRests DEF RefInv, storeVars
  <2>3. QED  BY <1>2, <2>1, <2>2, CountsRest DEF storeVars
<1>3. (SourceStep /\ UNCHANGED verifierVars) \/ UNCHANGED vars => UNCHANGED <<storeVars, job, gc>>
  BY DEF SourceStep, vars, verifierVars
<1>4. Checks = {}
  BY DEF OneCollector
<1>5. QED  BY <1>1, <1>2, <1>3, <1>4, GcCounts DEF Next, Rest

(* A count is never below the number of versions that name the block, with *)
(* any number of backups while nobody collects or checks, and with one     *)
(* backup beside one collection, whichever statements fail and wherever    *)
(* the two die: a backup counts a block before it records the version      *)
(* (upsert_content_block), a collection deletes the version before it      *)
(* takes it from the count (delete_by_root), and the foreign key keeps a   *)
(* row that is named.                                                      *)
THEOREM CountsCover ==
  ASSUME OneCollector
  PROVE  Spec => []RefCountCovers
<1>1. Init => RefInv
  <2> SUFFICES ASSUME Init PROVE RefInv
    OBVIOUS
  <2>1. version = {} /\ DOMAIN block = {} /\ \A g \in Gcs : dec[g].at = "none" /\ gc[g].plan = {}
    BY CallersOK DEF Init, StoreInit, VerifierInit, NoGc, NoCall
  <2>2. \A b \in Backups : job[b].pc = "idle"
    BY DEF Init, EngineInit, Idle
  <2>3. QED
    BY <2>1, <2>2, FS_EmptySet DEF RefInv, ForeignKeys, PlanKept, RowTaken, RowOwed
<1>2. IInv => TypeInv /\ JobShape /\ IdsAscend
  BY UnfoldInv DEF IInv
<1>3. IInv /\ IInv' /\ RefInv /\ [Next]_vars => RefInv'
  BY <1>2, RefStep, UnfoldInv, NextTypes
<1>4. TypeInv /\ RefInv => RefCountCovers
  <2> SUFFICES ASSUME TypeInv, RefInv, NEW h \in DOMAIN block
               PROVE  block[h].refs >= Cardinality(Naming(h))
    BY DEF RefCountCovers, Naming
  <2>1. block[h].refs \in Nat /\ Counted(h)
    BY DEF RefInv, TypeInv, TypeOK, StoreTypeOK, Block
  <2>2. QED  BY <2>1, AllFinite DEF Counted, RefInv
<1>5. QED  BY <1>1, <1>2, <1>3, <1>4, Inductive, PTL DEF Spec
=============================================================================
