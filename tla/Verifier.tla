------------------------------- MODULE Verifier -------------------------------
(***************************************************************************)
(* Verifier (verifier.rs): delete_by_root() is the gc command, which drops *)
(* the versions of a root and every block that loses its last reference;   *)
(* check_data() is the check command, which compares every block with its  *)
(* file and decrements the references of the broken ones.                  *)
(***************************************************************************)
EXTENDS Files

CONSTANTS
  Gcs,      \* the processes and tasks that run delete_by_root
  Checks,   \* the processes and tasks that run check_data
  MaxRuns   \* bound: how often each of them runs

ASSUME VerifierAssumption ==
  /\ Callers = Gcs \cup Checks
  /\ Gcs \cap Checks = {}
  /\ MaxRuns \in Nat

VARIABLES
  gc,    \* the state of each delete_by_root call
  chk,   \* the state of each check_data call
  runs   \* how many calls each process has made

verifierVars == <<gc, chk, runs>>

(* One row of load_versions_by_root. *)
Doomed == [id : Nat, hash : Hash, path : Path]
Gc == [pc   : {"idle", "running"},
       root : Root \cup {None},
       plan : SUBSET Doomed,            \* versions still to delete
       path : Path \cup {None}]         \* full_path of the current one

Check == [pc     : {"idle", "examine", "clean"},
          deep   : BOOLEAN,             \* with_hash
          rows   : SUBSET [hash : Hash, path : Path, size : Nat],
          broken : SUBSET Hash]

VerifierTypeOK ==
  /\ gc \in [Gcs -> Gc]
  /\ chk \in [Checks -> Check]
  /\ runs \in [Callers -> Nat]

NoGc    == [pc |-> "idle", root |-> None, plan |-> {}, path |-> None]
NoCheck == [pc |-> "idle", deep |-> FALSE, rows |-> {}, broken |-> {}]

VerifierInit ==
  /\ gc = [g \in Gcs |-> NoGc]
  /\ chk = [c \in Checks |-> NoCheck]
  /\ runs = [p \in Callers |-> 0]

GcBecomes(g, n) == gc' = [gc EXCEPT ![g] = n]
CheckBecomes(c, n) == chk' = [chk EXCEPT ![c] = n]

CountRun(p) ==
  /\ runs[p] < MaxRuns
  /\ runs' = [runs EXCEPT ![p] = @ + 1]

(* The caller calls decrement_block_ref; or its last call is dealt with.   *)
CallDec(p, h) == dec' = [dec EXCEPT ![p] = [at |-> "update", hash |-> h]]
EndDec(p)     == dec' = [dec EXCEPT ![p] = NoCall]

storeButDec == <<tracked, lastTracked, block, version, lastVersion, session>>

-----------------------------------------------------------------------------
(* delete_by_root() *)

StartGc(g, r) ==
  /\ gc[g].pc = "idle"
  /\ CountRun(g)
  /\ GcBecomes(g, [pc |-> "running", root |-> r, plan |-> VersionsByRoot(r), path |-> None])
  /\ UNCHANGED <<storeVars, fileVars, chk>>

(* delete_version, and the call of decrement_block_ref for its block. *)
GcVersion(g, d) ==
  /\ gc[g].pc = "running"
  /\ dec[g].at \in {"none", "kept"}
  /\ d \in gc[g].plan
  /\ DeleteVersion(d.id)
  /\ CallDec(g, d.hash)
  /\ GcBecomes(g, [gc[g] EXCEPT !.plan = @ \ {d}, !.path = d.path])
  /\ UNCHANGED <<tracked, lastTracked, block, lastVersion, session, fileVars, chk, runs>>

(* delete_version fails: the version is skipped. *)
GcVersionFails(g, d) ==
  /\ "db" \in Faults
  /\ gc[g].pc = "running"
  /\ dec[g].at \in {"none", "kept"}
  /\ d \in gc[g].plan
  /\ EndDec(g)
  /\ GcBecomes(g, [gc[g] EXCEPT !.plan = @ \ {d}, !.path = None])
  /\ UNCHANGED <<storeButDec, fileVars, chk, runs>>

(* The block's row is gone: remove_file, whose errors are ignored. *)
GcRemove(g) ==
  /\ dec[g].at = "deleted"
  /\ RemoveFile(gc[g].path)
  /\ EndDec(g)
  /\ GcBecomes(g, [gc[g] EXCEPT !.path = None])
  /\ UNCHANGED <<storeButDec, source, edits, clock, chk, runs>>

GcRemoveFails(g) ==
  /\ "disk" \in Faults
  /\ dec[g].at = "deleted"
  /\ EndDec(g)
  /\ GcBecomes(g, [gc[g] EXCEPT !.path = None])
  /\ UNCHANGED <<storeButDec, fileVars, chk, runs>>

(* An error of decrement_block_ref ends the whole call. *)
GcAborts(g) ==
  /\ dec[g].at = "error"
  /\ EndDec(g)
  /\ GcBecomes(g, NoGc)
  /\ UNCHANGED <<storeButDec, fileVars, chk, runs>>

(* delete_tracked_files_by_root, refused while a version is left; or it    *)
(* fails.                                                                  *)
GcTracked(g) ==
  /\ gc[g].pc = "running"
  /\ dec[g].at \in {"none", "kept"}
  /\ gc[g].plan = {}
  /\ \/ DeleteTrackedFilesByRoot(gc[g].root)
     \/ /\ "db" \in Faults \/ HasVersions(TrackedOf(gc[g].root))
        /\ UNCHANGED tracked
  /\ EndDec(g)
  /\ GcBecomes(g, NoGc)
  /\ UNCHANGED <<lastTracked, block, version, lastVersion, session, fileVars, chk, runs>>

-----------------------------------------------------------------------------
(* check_data() *)

StartCheck(c) ==
  /\ chk[c].pc = "idle"
  /\ CountRun(c)
  /\ \E deep \in BOOLEAN :
       CheckBecomes(c,
         [pc |-> "examine", deep |-> deep, broken |-> {},
          rows |-> {[hash |-> h, path |-> block[h].path, size |-> block[h].size] :
                       h \in DOMAIN block}])
  /\ UNCHANGED <<storeVars, fileVars, gc>>

(* The file of row r is missing, has another length or, when asked, another *)
(* hash; a target that is not there has no files.                          *)
Damaged(r, deep) ==
  \/ r.path \notin DOMAIN disk
  \/ Length(r.path) # r.size
  \/ deep /\ disk[r.path].content # r.hash

ExamineBlock(c, r) ==
  /\ chk[c].pc = "examine"
  /\ r \in chk[c].rows
  /\ \E bad \in {Damaged(r, chk[c].deep)} \cup (IF "offline" \in Faults THEN {TRUE} ELSE {}) :
       CheckBecomes(c, [chk[c] EXCEPT !.rows = @ \ {r},
                                      !.broken = IF bad THEN @ \cup {r.hash} ELSE @])
  /\ UNCHANGED <<storeVars, fileVars, gc, runs>>

(* Reading a file for its hash fails: the whole check ends. *)
CheckAborts(c) ==
  /\ "disk" \in Faults
  /\ chk[c].pc = "examine" /\ chk[c].deep /\ chk[c].rows # {}
  /\ CheckBecomes(c, NoCheck)
  /\ UNCHANGED <<storeVars, fileVars, gc, runs>>

AllExamined(c) ==
  /\ chk[c].pc = "examine"
  /\ chk[c].rows = {}
  /\ CheckBecomes(c, [chk[c] EXCEPT !.pc = "clean"])
  /\ UNCHANGED <<storeVars, fileVars, gc, runs>>

(* One decrement_block_ref per broken block, whatever it returns. *)
Returned == {"none", "kept", "deleted", "error"}
CleanBlock(c, h) ==
  /\ chk[c].pc = "clean"
  /\ dec[c].at \in Returned
  /\ h \in chk[c].broken
  /\ CallDec(c, h)
  /\ CheckBecomes(c, [chk[c] EXCEPT !.broken = @ \ {h}])
  /\ UNCHANGED <<storeButDec, fileVars, gc, runs>>

CheckDone(c) ==
  /\ chk[c].pc = "clean"
  /\ dec[c].at \in Returned
  /\ chk[c].broken = {}
  /\ EndDec(c)
  /\ CheckBecomes(c, NoCheck)
  /\ UNCHANGED <<storeButDec, fileVars, gc, runs>>

-----------------------------------------------------------------------------
VerifierCrash(p) ==
  /\ "crash" \in Faults
  /\ \/ /\ p \in Gcs /\ gc[p].pc # "idle"
        /\ GcBecomes(p, NoGc)
        /\ UNCHANGED chk
     \/ /\ p \in Checks /\ chk[p].pc # "idle"
        /\ CheckBecomes(p, NoCheck)
        /\ UNCHANGED gc
  /\ EndDec(p)
  /\ UNCHANGED <<storeButDec, fileVars, runs>>

(* The statements of a decrement_block_ref call. *)
Decrement(p) ==
  /\ DecStep(p) \/ ("db" \in Faults /\ DecFails(p))
  /\ UNCHANGED <<fileVars, gc, chk, runs>>

GcWork(g) ==
  \/ \E d \in gc[g].plan : GcVersion(g, d) \/ GcVersionFails(g, d)
  \/ Decrement(g)
  \/ GcRemove(g)
  \/ GcRemoveFails(g)
  \/ GcAborts(g)
  \/ GcTracked(g)
GcStep(g) == (\E r \in Root : StartGc(g, r)) \/ GcWork(g) \/ VerifierCrash(g)

CheckWork(c) ==
  \/ \E r \in chk[c].rows : ExamineBlock(c, r)
  \/ CheckAborts(c)
  \/ AllExamined(c)
  \/ \E h \in chk[c].broken : CleanBlock(c, h)
  \/ Decrement(c)
  \/ CheckDone(c)
CheckStep(c) == StartCheck(c) \/ CheckWork(c) \/ VerifierCrash(c)
=============================================================================
