------------------------------- MODULE Session -------------------------------
(***************************************************************************)
(* The books of a backup (engine.rs): which target takes a block and what  *)
(* that is charged to (DiskBalancer, balancer.rs), the counts that run()   *)
(* writes into its backup_session row, and the ones that its               *)
(* ProgressTracker shows (progress.rs).  Each action is an action of the   *)
(* engine with what it does to the books, so that every behaviour here is  *)
(* one of the vault.                                                       *)
(***************************************************************************)
EXTENDS Vault, Integers

CONSTANTS
  Order,     \* the place of each target in load_backup_targets
  Quota,     \* max_quota; None when it is not set
  Platform,  \* where disk_free_space is compiled: "windows" or another
  Space      \* the bytes that a disk may have free

ASSUME SessionAssumption ==
  /\ IsFiniteSet(Target) /\ IsFiniteSet(File)
  /\ Order \in [Target -> Nat]
  /\ Quota \in [Target -> Int \cup {None}]
  /\ None \notin Int /\ None \notin StatRecord
  /\ Space \subseteq Nat

VARIABLES
  load,      \* TargetStats of each run's balancer
  sums,      \* the counts of run() and backup_root()
  tracker,   \* the ProgressTracker of each run
  rows,      \* file_copy_count and data_copy_bytes of each session
  sessionOf  \* file_version.session_id, by version

books == <<load, sums, tracker, rows, sessionOf>>
sessionVars == <<vars, books>>

Row == [files : Nat, bytes : Nat]
Load == [active  : [Target -> Nat],
         written : [Target -> Nat],   \* session_bytes
         put     : [Target -> Nat],   \* history: bytes really written there
         left    : [Target -> Nat]]   \* history: ... by copies that failed
Sums == [files  : Nat, bytes  : Nat,  \* total_files, total_bytes
         count  : Nat, copied : Nat,  \* copy_count, copy_bytes
         length : Nat,                \* of the file being copied
         fresh  : Nat]                \* bytes_written
Tracker == [total : Nat, done : Nat, bytes : Nat,
            base  : Nat]              \* history: done when the root began

SessionTypeOK ==
  /\ TypeOK
  /\ load \in [Backups -> Load]
  /\ sums \in [Backups -> Sums]
  /\ tracker \in [Backups -> Tracker]
  /\ rows \in Seq(Row)
  /\ DOMAIN sessionOf \subseteq Nat
  /\ \A v \in DOMAIN sessionOf : sessionOf[v] \in Nat

Nowhere   == [t \in Target |-> 0]
NoLoad    == [active |-> Nowhere, written |-> Nowhere, put |-> Nowhere, left |-> Nowhere]
NoSums    == [files |-> 0, bytes |-> 0, count |-> 0, copied |-> 0, length |-> 0, fresh |-> 0]
NoTracker == [total |-> 0, done |-> 0, bytes |-> 0, base |-> 0]

SessionInit ==
  /\ Init
  /\ load = [b \in Backups |-> NoLoad]
  /\ sums = [b \in Backups |-> NoSums]
  /\ tracker = [b \in Backups |-> NoTracker]
  /\ rows = << >>
  /\ sessionOf = << >>

LoadBecomes(b, l) == load' = [load EXCEPT ![b] = l]
SumsBecome(b, s) == sums' = [sums EXCEPT ![b] = s]
TrackerBecomes(b, p) == tracker' = [tracker EXCEPT ![b] = p]

-----------------------------------------------------------------------------
(* DiskBalancer *)

(* Add n to what f has for t. *)
Plus(f, t, n) == [f EXCEPT ![t] = @ + n]

(* Mutant: a write under way is not counted. *)
AcquireNot(b, t) == UNCHANGED load

Acquire(b, t) ==
  LoadBecomes(b, [load[b] EXCEPT !.active = Plus(@, t, 1)])

Release(b, n) ==
  LET t == job[b].path.target
  IN LoadBecomes(b, [load[b] EXCEPT !.active = Plus(@, t, -1), !.written = Plus(@, t, n)])

(* disk_free_space, of which only Windows knows anything. *)
FreeSpace == IF Platform = "windows" THEN [Target -> Space] ELSE {Nowhere}

(* saturating_sub, and no less than 0 *)
Rest0(quota, used) == IF quota > used THEN quota - used ELSE 0

Available(b, free, t) ==
  IF Quota[t] = None THEN free[t] ELSE Rest0(Quota[t], load[b].written[t])

(* Mutant: any room will do. *)
CandidatesAny(b, free, size) == {t \in Target : Available(b, free, t) > 0}

Candidates(b, free, size) == {t \in Target : Available(b, free, t) >= size}

(* score, times 10 * (max_active + 1).  The space factor is a number       *)
(* divided by itself.                                                      *)
Score(b, free, t) ==
  LET slots == Cardinality(Target) + 1
  IN (IF Available(b, free, t) > 0 THEN 6 * slots ELSE 0)
       + 4 * (slots - load[b].active[t])

(* select_target: the first of those with the highest score. *)
Selects(b, free, size, t) ==
  LET better(u) == \/ Score(b, free, u) > Score(b, free, t)
                   \/ Score(b, free, u) = Score(b, free, t) /\ Order[u] < Order[t]
  IN /\ t \in Candidates(b, free, size)
     /\ ~ \E u \in Candidates(b, free, size) : better(u)

-----------------------------------------------------------------------------
(* ProgressTracker: file_done. *)
FileDone(b, n) ==
  TrackerBecomes(b, [tracker[b] EXCEPT !.done = @ + 1, !.bytes = @ + n])

(* The loop goes on to the next file, and nothing came of this one. *)
Skip(b) == FileDone(b, 0) /\ UNCHANGED <<load, sums, rows, sessionOf>>

(* Mutant: a way out of the loop that forgets the target. *)
GiveBackNot(b) ==
  /\ FileDone(b, 0)
  /\ UNCHANGED <<load, sums, rows, sessionOf>>

(* Mutant: ... or the progress. *)
GiveBackQuietly(b) ==
  /\ Release(b, 0)
  /\ UNCHANGED <<sums, tracker, rows, sessionOf>>

(* The file failed after its target was chosen. *)
GiveBack(b) ==
  /\ Release(b, 0)
  /\ FileDone(b, 0)
  /\ UNCHANGED <<sums, rows, sessionOf>>

-----------------------------------------------------------------------------
(* run() *)

Begin(b) ==
  /\ StartBackup(b)
  /\ LoadBecomes(b, NoLoad)
  /\ SumsBecome(b, NoSums)
  /\ TrackerBecomes(b, NoTracker)
  /\ rows' = Append(rows, [files |-> 0, bytes |-> 0])
  /\ UNCHANGED sessionOf

End(b) ==
  /\ FinishSession(b)
  /\ rows' = [rows EXCEPT ![job[b].sid] = [files |-> sums[b].files, bytes |-> sums[b].bytes]]
  /\ UNCHANGED <<load, sums, tracker, sessionOf>>

(* backup_root() *)

ListRoot(b, r) ==
  /\ OpenRoot(b, r)
  /\ TrackerBecomes(b, [tracker[b] EXCEPT
       !.total = Cardinality({f \in DOMAIN source : RootOf[f] = r}),
       !.base = tracker[b].done])
  /\ UNCHANGED <<load, sums, rows, sessionOf>>

(* Steps of the engine that no count follows. *)
Uncounted(b) ==
  /\ \/ LoadTracked(b)
     \/ \E f \in File : InsertTracked(b, f)
     \/ LoadLatest(b)
     \/ InsertBlock(b)
     \/ BumpRef(b)
  /\ UNCHANGED books

Compare(b, f) ==
  /\ NextFile(b, f)
  /\ IF Unchanged(job[b].scan[f], job[b].latest[f])
     THEN Skip(b) ELSE UNCHANGED books

(* Mutant: the last root's counts stand for all. *)
EndRootAlone(b) ==
  /\ RootDone(b)
  /\ SumsBecome(b, [sums[b] EXCEPT !.files = sums[b].count, !.count = 0,
                                   !.bytes = @ + sums[b].copied, !.copied = 0])
  /\ UNCHANGED <<load, tracker, rows, sessionOf>>

EndRoot(b) ==
  /\ RootDone(b)
  /\ SumsBecome(b, [sums[b] EXCEPT !.files = @ + sums[b].count, !.count = 0,
                                   !.bytes = @ + sums[b].copied, !.copied = 0])
  /\ UNCHANGED <<load, tracker, rows, sessionOf>>

HashSame(b) ==
  /\ HashFile(b)
  /\ SameHash(b)
  /\ Skip(b)

HashNew(b) ==
  /\ HashFile(b)
  /\ ~ SameHash(b)
  /\ LET t == job'[b].path.target
     IN /\ \E free \in FreeSpace : Selects(b, free, Scanned(b).size, t)
        /\ Acquire(b, t)
  /\ UNCHANGED <<sums, tracker, rows, sessionOf>>

HashError(b) ==
  /\ "source" \in Faults \/ job[b].file \notin DOMAIN source
  /\ HashFails(b)
  /\ Skip(b)

NoRoom(b) ==
  /\ "full" \in Faults
  /\ job[b].file \in DOMAIN source
  /\ HashFails(b)
  /\ ~ SameHash(b)
  /\ \E free \in FreeSpace : Candidates(b, free, Scanned(b).size) = {}
  /\ Skip(b)

BeginCopy(b) ==
  /\ StartCopy(b)
  /\ SumsBecome(b, [sums[b] EXCEPT !.length = SizeOf[source[job[b].file].hash]])
  /\ UNCHANGED <<load, tracker, rows, sessionOf>>

EndCopy(b) ==
  LET n == sums[b].length
  IN /\ FinishCopy(b)
     /\ SumsBecome(b, [sums[b] EXCEPT !.copied = @ + n, !.fresh = n])
     /\ LoadBecomes(b, [load[b] EXCEPT !.put = Plus(@, job[b].path.target, n)])
     /\ UNCHANGED <<tracker, rows, sessionOf>>

(* Mutant: shows the size of a block that was there already as written.    *)
SettleAll(b) ==
  /\ Release(b, Scanned(b).size)
  /\ FileDone(b, Scanned(b).size)
  /\ SumsBecome(b, [sums[b] EXCEPT !.count = @ + 1, !.fresh = 0])
  /\ UNCHANGED rows

(* The turn ends: the target is charged with the size that was listed, be  *)
(* the block new or not, and the version recorded or not.                  *)
Settle(b) ==
  /\ Release(b, Scanned(b).size)
  /\ FileDone(b, sums[b].fresh)
  /\ SumsBecome(b, [sums[b] EXCEPT !.count = @ + 1, !.fresh = 0])
  /\ UNCHANGED rows

Record(b) ==
  /\ RecordVersion(b)
  /\ Settle(b)
  /\ sessionOf' = IF lastVersion' = lastVersion THEN sessionOf
                  ELSE Put(sessionOf, lastVersion', job[b].sid)

-----------------------------------------------------------------------------
(* Failures *)

RecordFails(b) ==
  /\ At(b, "version")
  /\ StatementFails(b)
  /\ Settle(b)
  /\ UNCHANGED sessionOf

UpsertFails(b) ==
  /\ At(b, "insert") \/ At(b, "bump")
  /\ StatementFails(b)
  /\ GiveBack(b)

(* A root fails before its loop begins, or finish_session fails. *)
GiveUp(b) ==
  /\ \/ (At(b, "root") \/ At(b, "tracked") \/ At(b, "track")) /\ StatementFails(b)
     \/ \E r \in Root : RootFails(b, r)
  /\ UNCHANGED books

(* A copy fails after any number of bytes.  They stay at the target, which *)
(* is charged with none of them.                                           *)
CopyError(b) ==
  LET t == job[b].path.target
  IN /\ CopyFails(b)
     /\ \E n \in IF At(b, "copying") THEN 0 .. sums[b].length ELSE {0} :
          LoadBecomes(b, [load[b] EXCEPT !.active = Plus(@, t, -1),
                                         !.put = Plus(@, t, n), !.left = Plus(@, t, n)])
     /\ FileDone(b, 0)
     /\ UNCHANGED <<sums, rows, sessionOf>>

(* The memory of the process goes; the rows stay. *)
Die(b) ==
  /\ BackupCrash(b)
  /\ LoadBecomes(b, NoLoad)
  /\ SumsBecome(b, NoSums)
  /\ TrackerBecomes(b, NoTracker)
  /\ UNCHANGED <<rows, sessionOf>>

-----------------------------------------------------------------------------
SessionStep(b) ==
  \/ Begin(b)
  \/ End(b)
  \/ \E r \in Root : ListRoot(b, r)
  \/ Uncounted(b)
  \/ \E f \in File : Compare(b, f)
  \/ EndRoot(b)
  \/ HashSame(b)
  \/ HashNew(b)
  \/ HashError(b)
  \/ NoRoom(b)
  \/ BeginCopy(b)
  \/ EndCopy(b)
  \/ Record(b)
  \/ RecordFails(b)
  \/ UpsertFails(b)
  \/ GiveUp(b)
  \/ CopyError(b)
  \/ Die(b)

(* A collection, a check or a user: no backup moves. *)
Elsewhere ==
  /\ \/ \E g \in Gcs : GcStep(g)
     \/ \E c \in Checks : CheckStep(c)
     \/ SourceStep /\ UNCHANGED verifierVars
     \/ Rest
  /\ UNCHANGED <<job, books>>

SessionNext ==
  \/ \E b \in Backups : SessionStep(b) /\ UNCHANGED verifierVars
  \/ Elsewhere

SessionSpec == SessionInit /\ [][SessionNext]_sessionVars

-----------------------------------------------------------------------------
(* A turn of the loop holds a target from select_target on. *)
Holding == {"insert", "bump", "copy", "copying", "version"}
Holds(b, t) == job[b].pc \in Holding /\ job[b].path.target = t

(* Every way out of a turn releases the target that it acquired, and once: *)
(* active_writes counts the turns under way, which is what select_target   *)
(* takes it for (balancer.rs, engine.rs).                                  *)
Acquired ==
  \A b \in Backups, t \in Target :
    load[b].active[t] = IF Holds(b, t) THEN 1 ELSE 0

(* While the sources rest, one run writes to a target no more than its     *)
(* quota, but for what its failed copies left there: each file is charged  *)
(* with its listed size before the next one is selected for, unless its    *)
(* copy failed (balancer.rs, engine.rs).                                   *)
QuotaKept ==
  \A b \in Backups, t \in Target :
    Quota[t] # None =>
      load[b].put[t] <= (IF Quota[t] > 0 THEN Quota[t] ELSE 0) + load[b].left[t]

(* Every listed file is counted once by the tracker, by whichever way the  *)
(* loop leaves it, so that the bar of a root comes to its end (engine.rs). *)
InLoop == {"file", "hash"} \cup Holding
EveryFileDone ==
  \A b \in Backups :
    job[b].pc \in InLoop =>
      tracker[b].done + Cardinality(job[b].todo) + (IF At(b, "file") THEN 0 ELSE 1)
        = tracker[b].base + tracker[b].total

(* The bytes that the window shows as written are those that run() writes  *)
(* into its session's row, though roots and files fail (engine.rs).        *)
BytesAgree ==
  \A b \in Backups :
    tracker[b].bytes + sums[b].fresh = sums[b].bytes + sums[b].copied

(* The files that a session's row counts cover the versions that name the  *)
(* session, whatever failed in between (engine.rs).                        *)
VersionsIn(i) == {v \in DOMAIN sessionOf : sessionOf[v] = i}
RowCounts ==
  \A i \in DOMAIN session :
    session[i] # "running" => Cardinality(VersionsIn(i)) <= rows[i].files
=============================================================================
