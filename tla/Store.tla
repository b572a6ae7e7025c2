-------------------------------- MODULE Store --------------------------------
(***************************************************************************)
(* The metadata database: the tables of migrations/001_init.sql and the   *)
(* statements of SqliteStore (store/sqlite.rs) that change them.           *)
(*                                                                         *)
(* Every statement commits on its own: no method of SqliteStore opens a    *)
(* transaction, so one statement is one step and a method of several       *)
(* statements (upsert_content_block, decrement_block_ref) is interleaved   *)
(* with those of every other process or task that holds the database.      *)
(* A statement whose guard is false is one that the database refuses: the  *)
(* foreign keys are enforced on every connection (sqlx turns the pragma    *)
(* on), and UNIQUE and PRIMARY KEY always are.                             *)
(***************************************************************************)
EXTENDS Naturals, Sequences, FiniteSets

CONSTANTS
  Root,      \* rows of backup_root
  File,      \* paths of source files, each under one root
  RootOf,    \* the root of a file
  Hash,      \* content hashes; a content is identified with its hash
  Target,    \* rows of backup_target
  Callers,   \* the processes that call decrement_block_ref
  None       \* no value

ASSUME StoreAssumption ==
  /\ RootOf \in [File -> Root]
  /\ Target # {}

VARIABLES
  tracked,      \* tracked_file: set of [id, file]
  lastTracked,  \* its AUTOINCREMENT counter
  block,        \* content_block, by primary key: hash -> [path, size, refs]
  version,      \* file_version: set of [id, tid, hash, mtime, size]
  lastVersion,  \* its AUTOINCREMENT counter
  session,      \* backup_session: the status of each row, by id
  dec           \* the decrement_block_ref call of each caller

storeVars == <<tracked, lastTracked, block, version, lastVersion, session, dec>>

(* A block's place: target, and the relative path "subdir/hash_millis". *)
Path == [target : Target, hash : Hash, stamp : Nat]

Block   == [path : Path, size : Nat, refs : Nat]
Version == [id : Nat, tid : Nat, hash : Hash, mtime : Nat, size : Nat]
Tracked == [id : Nat, file : File]
Status  == {"running", "completed", "failed"}

(* decrement_block_ref runs up to three statements and returns whether it  *)
(* deleted the row, or an error.                                           *)
DecAt == {"none", "update", "select", "delete", "kept", "deleted", "error"}
NoCall == [at |-> "none", hash |-> None]

StoreTypeOK ==
  /\ tracked \subseteq Tracked
  /\ lastTracked \in Nat
  /\ DOMAIN block \subseteq Hash
  /\ \A h \in DOMAIN block : block[h] \in Block
  /\ version \subseteq Version
  /\ lastVersion \in Nat
  /\ session \in Seq(Status)
  /\ dec \in [Callers -> [at : DecAt, hash : Hash \cup {None}]]

StoreInit ==
  /\ tracked = {} /\ lastTracked = 0
  /\ block = << >>
  /\ version = {} /\ lastVersion = 0
  /\ session = << >>
  /\ dec = [p \in Callers |-> NoCall]

(* The function f with k mapped to v. *)
Put(f, k, v) == [x \in DOMAIN f \cup {k} |-> IF x = k THEN v ELSE f[x]]
(* The function f without the keys K. *)
Without(f, K) == [x \in DOMAIN f \ K |-> f[x]]

-----------------------------------------------------------------------------
(* tracked_file *)

TrackedIds == {t.id : t \in tracked}
IsTracked(f) == \E t \in tracked : t.file = f
(* load_tracked_files_map, for one path of it; 0 when it is not there. *)
TrackedId(f) ==
  IF IsTracked(f) THEN (CHOOSE t \in tracked : t.file = f).id ELSE 0

InsertTrackedFile(f) ==
  /\ ~ IsTracked(f)                           \* UNIQUE(backup_root_id, file_path)
  /\ tracked' = tracked \cup {[id |-> lastTracked + 1, file |-> f]}
  /\ lastTracked' = lastTracked + 1

TrackedOf(r) == {t \in tracked : RootOf[t.file] = r}
HasVersions(T) == \E v \in version, t \in T : v.tid = t.id
DeleteTrackedFilesByRoot(r) ==
  /\ ~ HasVersions(TrackedOf(r))              \* REFERENCES tracked_file(id)
  /\ tracked' = tracked \ TrackedOf(r)

-----------------------------------------------------------------------------
(* file_version *)

VersionsOf(i) == {v \in version : v.tid = i}
(* load_latest_versions, for one id: the row with MAX(id). *)
LatestVersion(i) ==
  IF VersionsOf(i) = {} THEN None
  ELSE CHOOSE v \in VersionsOf(i) : \A w \in VersionsOf(i) : w.id <= v.id

(* Mutant: a plain rowid, which SQLite gives out again after a deletion.   *)
InsertFileVersionRowid(i, h, mtime, size) ==
  /\ i \in TrackedIds /\ h \in DOMAIN block
  /\ lastVersion' = Cardinality(version) + 1
  /\ version' = version \cup
       {[id |-> lastVersion', tid |-> i, hash |-> h, mtime |-> mtime, size |-> size]}

InsertFileVersion(i, h, mtime, size) ==
  /\ i \in TrackedIds /\ h \in DOMAIN block   \* the two REFERENCES
  /\ version' = version \cup
       {[id |-> lastVersion + 1, tid |-> i, hash |-> h, mtime |-> mtime, size |-> size]}
  /\ lastVersion' = lastVersion + 1

(* Deleting an id that is gone changes no row and is no error. *)
DeleteVersion(i) == version' = {v \in version : v.id # i}

(* load_versions_by_root: the versions of a root joined with their blocks. *)
VersionsByRoot(r) ==
  {[id |-> v.id, hash |-> v.hash, path |-> block[v.hash].path] :
     v \in {w \in version : /\ w.hash \in DOMAIN block
                            /\ \E t \in TrackedOf(r) : t.id = w.tid}}

-----------------------------------------------------------------------------
(* content_block *)

Referenced(h) == \E v \in version : v.hash = h

(* upsert_content_block, first statement: INSERT OR IGNORE. *)
InsertOrIgnore(h, size, path) ==
  block' = IF h \in DOMAIN block THEN block
           ELSE Put(block, h, [path |-> path, size |-> size, refs |-> 1])

(* Second statement, when the insert was ignored; it may find no row. *)
AddRef(h) ==
  block' = IF h \in DOMAIN block THEN [block EXCEPT ![h].refs = @ + 1] ELSE block

(* Mutant: without ref_count > 0 in the WHERE clause. *)
DecUpdateUnguarded(p) ==
  LET h == dec[p].hash
      hit == h \in DOMAIN block
  IN /\ dec[p].at = "update"
     /\ block' = IF hit THEN [block EXCEPT ![h].refs = @ - 1] ELSE block
     /\ dec' = [dec EXCEPT ![p].at = IF hit THEN "select" ELSE "kept"]

(* decrement_block_ref: UPDATE ... WHERE ref_count > 0. *)
DecUpdate(p) ==
  LET h == dec[p].hash
      hit == h \in DOMAIN block /\ block[h].refs > 0
  IN /\ dec[p].at = "update"
     /\ block' = IF hit THEN [block EXCEPT ![h].refs = @ - 1] ELSE block
     /\ dec' = [dec EXCEPT ![p].at = IF hit THEN "select" ELSE "kept"]

(* SELECT ref_count, which fails when the row has gone meanwhile. *)
DecSelect(p) ==
  LET h == dec[p].hash
  IN /\ dec[p].at = "select"
     /\ dec' = [dec EXCEPT ![p].at =
                  IF h \notin DOMAIN block THEN "error"
                  ELSE IF block[h].refs = 0 THEN "delete" ELSE "kept"]
     /\ UNCHANGED block

(* Mutant: reports the row as deleted although the DELETE failed. *)
DecDeleteUnchecked(p) ==
  LET h == dec[p].hash
  IN /\ dec[p].at = "delete"
     /\ block' = IF Referenced(h) THEN block ELSE Without(block, {h})
     /\ dec' = [dec EXCEPT ![p].at = "deleted"]

(* DELETE ... WHERE hash = ?, whatever the count is by now; the foreign    *)
(* key of file_version refuses it while a version names the block.         *)
DecDelete(p) ==
  LET h == dec[p].hash
  IN /\ dec[p].at = "delete"
     /\ block' = IF Referenced(h) THEN block ELSE Without(block, {h})
     /\ dec' = [dec EXCEPT ![p].at = IF Referenced(h) THEN "error" ELSE "deleted"]

DecStep(p) ==
  /\ DecUpdate(p) \/ DecSelect(p) \/ DecDelete(p)
  /\ UNCHANGED <<tracked, lastTracked, version, lastVersion, session>>

(* A statement of the call fails (busy, I/O): the call returns the error.  *)
DecFails(p) ==
  /\ dec[p].at \in {"update", "select", "delete"}
  /\ dec' = [dec EXCEPT ![p].at = "error"]
  /\ UNCHANGED <<tracked, lastTracked, block, version, lastVersion, session>>

-----------------------------------------------------------------------------
(* backup_session *)

BeginSession == session' = Append(session, "running")
SetSession(i, status) == session' = [session EXCEPT ![i] = status]
=============================================================================
