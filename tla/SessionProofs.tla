---------------------------- MODULE SessionProofs ----------------------------
(***************************************************************************)
(* Theorems about Session for every number of backups, files and targets,  *)
(* every quota and every set of faults.                                    *)
(***************************************************************************)
EXTENDS Session, VaultProofs, FiniteSetTheorems

-----------------------------------------------------------------------------
(* Part 1: a session is a behaviour of the vault. *)

LEMMA StepIsBackup ==
  ASSUME NEW b \in Backups, SessionStep(b)
  PROVE  BackupStep(b)
<1>1. CASE Begin(b)
  BY <1>1 DEF Begin, BackupStep
<1>2. CASE BackupWork(b) \/ BackupFault(b)
  BY <1>2 DEF BackupStep
<1>3. BackupWork(b) \/ BackupFault(b) \/ Begin(b) \/ BackupCrash(b)
  BY DEF SessionStep, BackupWork, BackupFault, End, ListRoot, Uncounted, Compare, EndRoot,
         HashSame, HashNew, HashError, NoRoom, BeginCopy, EndCopy, Record, RecordFails,
         UpsertFails, GiveUp, CopyError, Die
<1>4. QED  BY <1>1, <1>2, <1>3 DEF BackupStep

LEMMA NextIsVault == [SessionNext]_sessionVars => [Next]_vars
<1>1. ASSUME NEW b \in Backups, SessionStep(b), UNCHANGED verifierVars
      PROVE  Next
  BY <1>1, StepIsBackup DEF Next
<1>2. CASE Elsewhere
  BY <1>2 DEF Elsewhere, Next
<1>3. QED  BY <1>1, <1>2 DEF SessionNext, sessionVars

(* The books change nothing: without them, a session is a behaviour of the *)
(* vault, so that all that is proved of the vault holds here.              *)
THEOREM SessionIsVault == SessionSpec => Spec
<1>1. SessionInit => Init
  BY DEF SessionInit
<1>2. QED  BY <1>1, NextIsVault, PTL DEF SessionSpec, Spec

-----------------------------------------------------------------------------
(* Part 2: what each step does to the job of its backup, and to no other.  *)

Others(b) ==
  \A c \in Backups :
    c # b => /\ job'[c] = job[c] /\ load'[c] = load[c]
             /\ sums'[c] = sums[c] /\ tracker'[c] = tracker[c]

LEMMA JobMoves ==
  ASSUME TypeInv, NEW b \in Backups, NEW j, Become(b, j)
  PROVE  job'[b] = j /\ \A c \in Backups : c # b => job'[c] = job[c]
BY DEF TypeInv, TypeOK, EngineTypeOK, Become

LEMMA TurnFacts ==
  ASSUME NEW j \in Job
  PROVE  /\ NextTurn(j).pc = "file" /\ NextTurn(j).sid = j.sid
         /\ NextTurn(j).scan = j.scan /\ NextTurn(j).todo = j.todo
BY DEF NextTurn, Job

LEMMA RootFacts ==
  ASSUME NEW j, NEW x \in BOOLEAN, NEW k, k = BetweenRoots(j, x)
  PROVE  /\ k.pc = "root" /\ k.sid = j.sid /\ k.todo = {}
         /\ k.scan = [f \in File |-> None]
BY DEF BetweenRoots, Idle

LEMMA IdleFacts == Idle.pc = "idle" /\ Idle.scan = [f \in File |-> None] /\ Idle.todo = {}
BY DEF Idle

LEMMA GotoFacts ==
  ASSUME NEW j \in Job, NEW pc
  PROVE  LET k == [j EXCEPT !.pc = pc]
         IN /\ k.pc = pc /\ k.sid = j.sid /\ k.scan = j.scan /\ k.todo = j.todo
            /\ k.file = j.file /\ k.path = j.path
BY DEF Job

(* The turn of a file ends in each of these steps. *)
TurnEnds(b) == HashSame(b) \/ HashError(b) \/ NoRoom(b)
TurnGivesBack(b) == UpsertFails(b) \/ CopyError(b)
TurnSettles(b) == Record(b) \/ RecordFails(b)

LEMMA EndsTurn ==
  ASSUME TypeInv, NEW b \in Backups, TurnEnds(b) \/ TurnGivesBack(b) \/ TurnSettles(b)
  PROVE  job'[b] = NextTurn(job[b])
<1>1. Become(b, NextTurn(job[b]))
  BY DEF TurnEnds, TurnGivesBack, TurnSettles, HashSame, HashError, NoRoom, UpsertFails, CopyError,
         Record, RecordFails, HashFile, HashFails, StatementFails, CopyFails, RecordVersion, At
<1>2. QED  BY <1>1, JobMoves

LEMMA EndsWhere ==
  ASSUME NEW b \in Backups
  PROVE  /\ TurnEnds(b) => At(b, "hash")
         /\ TurnGivesBack(b) => At(b, "insert") \/ At(b, "bump") \/ At(b, "copy") \/ At(b, "copying")
         /\ TurnSettles(b) => At(b, "version")
BY DEF TurnEnds, TurnGivesBack, TurnSettles, HashSame, HashError, NoRoom, UpsertFails, CopyError,
       Record, RecordFails, HashFile, HashFails, StatementFails, CopyFails, RecordVersion, At

(* From one await to the next of a turn that holds its target. *)
LEMMA GoesOn ==
  ASSUME TypeInv, NEW b \in Backups
  PROVE  /\ InsertBlock(b) \/ BumpRef(b) \/ BeginCopy(b) \/ EndCopy(b) =>
              \E pc \in {"bump", "copy", "copying", "version"} : job'[b] = [job[b] EXCEPT !.pc = pc]
         /\ InsertBlock(b) => At(b, "insert") /\ job'[b].pc \in {"bump", "copy"}
         /\ BumpRef(b) => At(b, "bump") /\ job'[b].pc = "version"
         /\ BeginCopy(b) => At(b, "copy") /\ job'[b].pc = "copying"
         /\ EndCopy(b) => At(b, "copying") /\ job'[b].pc = "version"
<1>1. job[b] \in Job
  BY DEF TypeInv, TypeOK, EngineTypeOK
<1>2. ASSUME NEW pc, Goto(b, pc)
      PROVE  job'[b] = [job[b] EXCEPT !.pc = pc] /\ job'[b].pc = pc
  <2>1. job'[b] = [job[b] EXCEPT !.pc = pc]
    BY <1>2, JobMoves DEF Goto
  <2>2. QED  BY <1>1, <2>1, GotoFacts
<1>3. InsertBlock(b) => At(b, "insert") /\ (Goto(b, "bump") \/ Goto(b, "copy"))
  BY DEF InsertBlock
<1>4. BumpRef(b) => At(b, "bump") /\ Goto(b, "version")
  BY DEF BumpRef
<1>5. BeginCopy(b) => At(b, "copy") /\ Goto(b, "copying")
  BY DEF BeginCopy, StartCopy
<1>6. EndCopy(b) => At(b, "copying") /\ Goto(b, "version")
  BY DEF EndCopy, FinishCopy
<1>7. QED  BY <1>2, <1>3, <1>4, <1>5, <1>6

(* Before the loop, between its turns and after it no target is held. *)
LEMMA Outside ==
  ASSUME TypeInv, NEW b \in Backups
  PROVE  /\ Begin(b) => /\ At(b, "idle") /\ job'[b].pc = "root" /\ job'[b].todo = {}
                        /\ job'[b].scan = [f \in File |-> None]
                        /\ job'[b].sid = Len(session) + 1
         /\ End(b) => At(b, "root") /\ job'[b] = Idle
         /\ \A r \in Root : ListRoot(b, r) =>
              /\ At(b, "root") /\ job'[b].pc = "tracked" /\ job'[b].sid = job[b].sid
              /\ job'[b].todo = job[b].todo
              /\ job'[b].scan =
                   [f \in File |-> IF f \in DOMAIN source /\ RootOf[f] = r THEN Stat(f) ELSE None]
         /\ EndRoot(b) => At(b, "file") /\ job[b].todo = {} /\ job'[b] = BetweenRoots(job[b], FALSE)
         /\ Die(b) => job'[b] = Idle
         /\ GiveUp(b) =>
              /\ job[b].pc \in {"root", "tracked", "track"}
              /\ \/ job'[b] = Idle
                 \/ \E j \in Job : job'[b] = BetweenRoots(j, TRUE) /\ j.sid = job[b].sid
<1>1. job[b] \in Job
  BY DEF TypeInv, TypeOK, EngineTypeOK
<1>2. ASSUME Begin(b)
      PROVE  /\ At(b, "idle") /\ job'[b].pc = "root" /\ job'[b].todo = {}
             /\ job'[b].scan = [f \in File |-> None]
             /\ job'[b].sid = Len(session) + 1
  <2> DEFINE j == [Idle EXCEPT !.pc = "root", !.sid = Len(session) + 1, !.roots = Root]
  <2>1. At(b, "idle") /\ Become(b, j)
    BY <1>2 DEF Begin, StartBackup
  <2>2. /\ j.pc = "root" /\ j.todo = {} /\ j.scan = [f \in File |-> None]
        /\ j.sid = Len(session) + 1
    BY DEF Idle
  <2> HIDE DEF j
  <2>3. QED  BY <2>1, <2>2, JobMoves
<1>3. ASSUME End(b)
      PROVE  At(b, "root") /\ job'[b] = Idle
  BY <1>3, JobMoves DEF End, FinishSession
<1>4. ASSUME NEW r \in Root, ListRoot(b, r)
      PROVE  /\ At(b, "root") /\ job'[b].pc = "tracked" /\ job'[b].sid = job[b].sid
             /\ job'[b].todo = job[b].todo
             /\ job'[b].scan =
                  [f \in File |-> IF f \in DOMAIN source /\ RootOf[f] = r THEN Stat(f) ELSE None]
  <2> DEFINE scan == [f \in File |-> IF f \in DOMAIN source /\ RootOf[f] = r THEN Stat(f) ELSE None]
             j == [job[b] EXCEPT !.pc = "tracked", !.roots = @ \ {r}, !.scan = scan]
  <2>1. At(b, "root") /\ Become(b, j)
    BY <1>4 DEF ListRoot, OpenRoot
  <2> HIDE DEF scan
  <2>2. j.pc = "tracked" /\ j.sid = job[b].sid /\ j.todo = job[b].todo /\ j.scan = scan
    BY <1>1 DEF Job
  <2> HIDE DEF j
  <2>3. QED  BY <2>1, <2>2, JobMoves DEF scan
<1>5. ASSUME EndRoot(b)
      PROVE  At(b, "file") /\ job[b].todo = {} /\ job'[b] = BetweenRoots(job[b], FALSE)
  BY <1>5, JobMoves DEF EndRoot, RootDone
<1>6. ASSUME Die(b)
      PROVE  job'[b] = Idle
  BY <1>6, JobMoves DEF Die, BackupCrash
<1>7. ASSUME GiveUp(b)
      PROVE  /\ job[b].pc \in {"root", "tracked", "track"}
             /\ \/ job'[b] = Idle
                \/ \E j \in Job : job'[b] = BetweenRoots(j, TRUE) /\ j.sid = job[b].sid
  <2>1. CASE \E r \in Root : RootFails(b, r)
    <3>1. PICK r \in Root : RootFails(b, r)
      BY <2>1
    <3> DEFINE j == [job[b] EXCEPT !.roots = @ \ {r}]
    <3>2. j \in Job /\ j.sid = job[b].sid
      BY <1>1 DEF Job
    <3>3. At(b, "root") /\ job'[b] = BetweenRoots(j, TRUE)
      BY <3>1, JobMoves DEF RootFails
    <3>4. QED  BY <3>2, <3>3 DEF At
  <2>2. CASE StatementFails(b)
    BY <1>1, <1>7, <2>2, JobMoves DEF GiveUp, StatementFails, At, RootFails
  <2>3. QED  BY <1>7, <2>1, <2>2 DEF GiveUp
<1>8. QED  BY <1>2, <1>3, <1>4, <1>5, <1>6, <1>7

(* What else the job keeps in a step. *)
SameRoot(b) == job'[b].sid = job[b].sid /\ job'[b].scan = job[b].scan

LEMMA BeforeLoop ==
  ASSUME TypeInv, NEW b \in Backups
  PROVE  /\ LoadTracked(b) => At(b, "tracked") /\ job'[b].pc = "track" /\ SameRoot(b)
         /\ \A f \in File : InsertTracked(b, f) =>
              /\ At(b, "track")
              /\ \/ job'[b].pc = "track" /\ SameRoot(b)
                 \/ job'[b] = BetweenRoots(job[b], TRUE)
         /\ LoadLatest(b) =>
              /\ At(b, "track") /\ job'[b].pc = "file" /\ SameRoot(b)
              /\ job'[b].todo = Listed(job[b])
<1>1. job[b] \in Job
  BY DEF TypeInv, TypeOK, EngineTypeOK
<1>2. ASSUME LoadTracked(b)
      PROVE  At(b, "tracked") /\ job'[b].pc = "track" /\ SameRoot(b)
  <2>1. PICK ids, todo :
          Become(b, [job[b] EXCEPT !.pc = "track", !.ids = ids, !.todo = todo]) /\ At(b, "tracked")
    BY <1>2 DEF LoadTracked
  <2> DEFINE j == [job[b] EXCEPT !.pc = "track", !.ids = ids, !.todo = todo]
  <2>2. j.pc = "track" /\ j.sid = job[b].sid /\ j.scan = job[b].scan
    BY <1>1 DEF Job
  <2> HIDE DEF j
  <2>3. QED  BY <2>1, <2>2, JobMoves DEF SameRoot, j
<1>3. ASSUME NEW f \in File, InsertTracked(b, f)
      PROVE  /\ At(b, "track")
             /\ \/ job'[b].pc = "track" /\ SameRoot(b)
                \/ job'[b] = BetweenRoots(job[b], TRUE)
  <2> DEFINE j == [job[b] EXCEPT !.todo = @ \ {f}, !.ids = [@ EXCEPT ![f] = lastTracked + 1]]
  <2>1. At(b, "track") /\ (Become(b, j) \/ Become(b, BetweenRoots(job[b], TRUE)))
    BY <1>3 DEF InsertTracked
  <2>2. j.pc = job[b].pc /\ j.sid = job[b].sid /\ j.scan = job[b].scan
    BY <1>1 DEF Job
  <2> HIDE DEF j
  <2>3. QED  BY <2>1, <2>2, JobMoves DEF SameRoot, At
<1>4. ASSUME LoadLatest(b)
      PROVE  /\ At(b, "track") /\ job'[b].pc = "file" /\ SameRoot(b)
             /\ job'[b].todo = Listed(job[b])
  <2>1. PICK latest :
          /\ Become(b, [job[b] EXCEPT !.pc = "file", !.todo = Listed(job[b]), !.latest = latest])
          /\ At(b, "track")
    BY <1>4 DEF LoadLatest
  <2> DEFINE j == [job[b] EXCEPT !.pc = "file", !.todo = Listed(job[b]), !.latest = latest]
  <2>2. j.pc = "file" /\ j.sid = job[b].sid /\ j.scan = job[b].scan /\ j.todo = Listed(job[b])
    BY <1>1 DEF Job
  <2> HIDE DEF j
  <2>3. QED  BY <2>1, <2>2, JobMoves DEF SameRoot, j
<1>5. QED  BY <1>2, <1>3, <1>4

LEMMA TurnBegins ==
  ASSUME TypeInv, NEW b \in Backups, NEW f \in File, NextFile(b, f)
  PROVE  /\ At(b, "file") /\ f \in job[b].todo /\ job'[b].todo = job[b].todo \ {f} /\ SameRoot(b)
         /\ IF Unchanged(job[b].scan[f], job[b].latest[f])
            THEN job'[b].pc = "file"
            ELSE job'[b].pc = "hash" /\ job'[b].file = f
<1> DEFINE turn == [job[b] EXCEPT !.todo = @ \ {f}]
           work == [turn EXCEPT !.pc = "hash", !.file = f]
<1>1. job[b] \in Job
  BY DEF TypeInv, TypeOK, EngineTypeOK
<1>2. /\ turn.pc = job[b].pc /\ turn.sid = job[b].sid /\ turn.scan = job[b].scan
      /\ turn.latest = job[b].latest /\ turn.todo = job[b].todo \ {f}
  BY <1>1 DEF Job
<1>3. turn \in Job
  BY <1>1 DEF Job
<1>4. /\ work.pc = "hash" /\ work.sid = job[b].sid /\ work.scan = job[b].scan
      /\ work.file = f /\ work.todo = job[b].todo \ {f}
  <2> HIDE DEF turn
  <2>1. QED  BY <1>2, <1>3 DEF Job
<1>5. /\ At(b, "file") /\ f \in job[b].todo
      /\ Become(b, IF Unchanged(turn.scan[f], turn.latest[f]) THEN turn ELSE work)
  BY DEF NextFile
<1> HIDE DEF turn, work
<1>6. job'[b] = IF Unchanged(turn.scan[f], turn.latest[f]) THEN turn ELSE work
  BY <1>5, JobMoves
<1>7. QED  BY <1>2, <1>4, <1>5, <1>6 DEF SameRoot, At

LEMMA TakesTarget ==
  ASSUME TypeInv, NEW b \in Backups, HashNew(b)
  PROVE  /\ At(b, "hash") /\ job'[b].pc = "insert" /\ job'[b].path.target \in Target
         /\ SameRoot(b) /\ job'[b].todo = job[b].todo /\ job'[b].file = job[b].file
<1>1. job[b] \in Job
  BY DEF TypeInv, TypeOK, EngineTypeOK
<1>0. PICK t \in Target : \E h :
        At(b, "hash") /\ Become(b, [job[b] EXCEPT !.pc = "insert", !.path = BuildPath(t, h)])
  BY DEF HashNew, HashFile
<1>2. PICK h :
        At(b, "hash") /\ Become(b, [job[b] EXCEPT !.pc = "insert", !.path = BuildPath(t, h)])
  BY <1>0
<1> DEFINE j == [job[b] EXCEPT !.pc = "insert", !.path = BuildPath(t, h)]
<1>3. /\ j.pc = "insert" /\ j.path = BuildPath(t, h) /\ j.sid = job[b].sid
      /\ j.scan = job[b].scan /\ j.todo = job[b].todo /\ j.file = job[b].file
  BY <1>1 DEF Job
<1> HIDE DEF j
<1>4. BuildPath(t, h).target = t
  BY DEF BuildPath
<1>5. job'[b] = j
  BY <1>2, JobMoves DEF j
<1>6. QED  BY <1>2, <1>3, <1>4, <1>5 DEF SameRoot

-----------------------------------------------------------------------------
(* Part 3: targets are acquired and released in turn. *)

LoadTyped == load \in [Backups -> Load]

LEMMA LoadMoves ==
  ASSUME LoadTyped, NEW b \in Backups, NEW l, LoadBecomes(b, l)
  PROVE  load'[b] = l /\ \A c \in Backups : c # b => load'[c] = load[c]
BY DEF LoadTyped, LoadBecomes

LEMMA LoadKeepsType ==
  ASSUME LoadTyped, NEW b \in Backups, NEW l \in Load, LoadBecomes(b, l)
  PROVE  LoadTyped'
BY DEF LoadTyped, LoadBecomes

LEMMA JobsOfOthers ==
  ASSUME TypeInv, NEW b \in Backups, SessionStep(b)
  PROVE  \A c \in Backups : c # b => job'[c] = job[c]
<1>1. BackupStep(b)
  BY StepIsBackup
<1>2. \E j : Become(b, j)
  BY <1>1, Zenon
     DEF BackupStep, BackupWork, BackupFault, BackupCrash, StartBackup, FinishSession, OpenRoot,
         LoadTracked, InsertTracked, LoadLatest, NextFile, RootDone, HashFile, InsertBlock, BumpRef,
         StartCopy, FinishCopy, RecordVersion, StatementFails, RootFails, HashFails, CopyFails, Goto
<1>3. QED  BY <1>2, JobMoves

(* The active writes of one backup, as Acquired has them. *)
Agree(b) == \A t \in Target : load[b].active[t] = IF Holds(b, t) THEN 1 ELSE 0

LEMMA AgreeAll ==
  ASSUME Acquired, NEW b \in Backups,
         \A c \in Backups : c # b => job'[c] = job[c] /\ load'[c] = load[c],
         Agree(b)'
  PROVE  Acquired'
BY DEF Acquired, Agree, Holds

(* A step that takes no target and gives none back. *)
LEMMA HoldsOn ==
  ASSUME LoadTyped, Acquired, NEW b \in Backups,
         load'[b].active = load[b].active,
         job[b].pc \in Holding <=> job'[b].pc \in Holding,
         job[b].pc \in Holding => job'[b].path = job[b].path
  PROVE  Agree(b)'
BY DEF Acquired, Agree, Holds

LEMMA NoLoadOK == NoLoad \in Load /\ \A t \in Target : NoLoad.active[t] = 0
BY DEF NoLoad, Load, Nowhere

LEMMA PlusOK ==
  ASSUME NEW f \in [Target -> Nat], NEW t \in Target, NEW n \in Int, f[t] + n \in Nat
  PROVE  /\ Plus(f, t, n) \in [Target -> Nat]
         /\ \A u \in Target : Plus(f, t, n)[u] = IF u = t THEN f[t] + n ELSE f[u]
BY DEF Plus

LEMMA ReleaseOK ==
  ASSUME TypeInv, LoadTyped, Acquired, NEW b \in Backups, NEW n \in Nat,
         job[b].pc \in Holding, Release(b, n)
  PROVE  /\ LoadTyped' /\ \A c \in Backups : c # b => load'[c] = load[c]
         /\ \A t \in Target : load'[b].active[t] = 0
         /\ load'[b].put = load[b].put /\ load'[b].left = load[b].left
         /\ \A t \in Target :
              load'[b].written[t] = load[b].written[t] + IF Holds(b, t) THEN n ELSE 0
<1> DEFINE t == job[b].path.target
           active == Plus(load[b].active, t, -1)
           written == Plus(load[b].written, t, n)
           l == [load[b] EXCEPT !.active = active, !.written = written]
<1>1. job[b].path \in Path
  BY DEF TypeInv, JobShape, WellFormed, WithFile, Holding
<1>2. t \in Target
  BY <1>1 DEF Path
<1>3. load[b] \in Load
  BY DEF LoadTyped
<1>4. load[b].active[t] = 1 /\ \A u \in Target : u # t => load[b].active[u] = 0
  BY <1>2 DEF Acquired, Holds
<1>5. /\ active \in [Target -> Nat]
      /\ \A u \in Target : active[u] = 0
  <2>1. load[b].active \in [Target -> Nat] /\ load[b].active[t] + (-1) = 0
    BY <1>3, <1>4 DEF Load
  <2>2. QED  BY <1>2, <1>4, <2>1, PlusOK
<1>6. /\ written \in [Target -> Nat]
      /\ \A u \in Target : written[u] = load[b].written[u] + IF u = t THEN n ELSE 0
  <2>1. load[b].written \in [Target -> Nat]
    BY <1>3 DEF Load
  <2>2. load[b].written[t] + n \in Nat
    BY <1>2, <2>1
  <2>3. QED  BY <1>2, <2>1, <2>2, PlusOK
<1>7. LoadBecomes(b, l)
  BY DEF Release
<1> HIDE DEF active, written
<1>8. /\ l \in Load /\ l.active = active /\ l.written = written
      /\ l.put = load[b].put /\ l.left = load[b].left
  BY <1>3, <1>5, <1>6 DEF Load
<1> HIDE DEF l
<1>9. load'[b] = l
  BY <1>7, LoadMoves
<1>10. \A u \in Target : Holds(b, u) <=> u = t
  BY DEF Holds
<1>11. LoadTyped' /\ \A c \in Backups : c # b => load'[c] = load[c]
  BY <1>7, <1>8, LoadMoves, LoadKeepsType
<1>12. QED  BY <1>5, <1>6, <1>8, <1>9, <1>10, <1>11, Zenon

LEMMA AcquireOK ==
  ASSUME LoadTyped, Acquired, NEW b \in Backups, NEW t \in Target,
         job[b].pc \notin Holding, Acquire(b, t)
  PROVE  /\ LoadTyped' /\ \A c \in Backups : c # b => load'[c] = load[c]
         /\ \A u \in Target : load'[b].active[u] = IF u = t THEN 1 ELSE 0
         /\ load'[b].put = load[b].put /\ load'[b].written = load[b].written
         /\ load'[b].left = load[b].left
<1> DEFINE active == Plus(load[b].active, t, 1)
           l == [load[b] EXCEPT !.active = active]
<1>1. load[b] \in Load
  BY DEF LoadTyped
<1>2. \A u \in Target : load[b].active[u] = 0
  BY DEF Acquired, Holds
<1>3. /\ active \in [Target -> Nat]
      /\ \A u \in Target : active[u] = IF u = t THEN 1 ELSE 0
  <2>1. load[b].active \in [Target -> Nat] /\ load[b].active[t] + 1 = 1
    BY <1>1, <1>2 DEF Load
  <2>2. QED  BY <1>2, <2>1, PlusOK
<1>4. LoadBecomes(b, l)
  BY DEF Acquire
<1> HIDE DEF active
<1>5. /\ l \in Load /\ l.active = active /\ l.written = load[b].written
      /\ l.put = load[b].put /\ l.left = load[b].left
  BY <1>1, <1>3 DEF Load
<1> HIDE DEF l
<1>6. QED  BY <1>3, <1>4, <1>5, LoadMoves, LoadKeepsType

SumsTyped == sums \in [Backups -> Sums]

(* A turn that holds its target has one. *)
LEMMA HasPath ==
  ASSUME TypeInv, NEW b \in Backups, job[b].pc \in Holding
  PROVE  job[b].path \in Path /\ job[b].path.target \in Target /\ job[b].file \in File
         /\ Scanned(b) \in StatRecord
BY DEF TypeInv, JobShape, WellFormed, WithFile, Holding, Path, Scanned

LEMMA EndCopyLoad ==
  ASSUME TypeInv, LoadTyped, SumsTyped, NEW b \in Backups, EndCopy(b)
  PROVE  /\ LoadTyped' /\ \A c \in Backups : c # b => load'[c] = load[c]
         /\ load'[b].active = load[b].active /\ load'[b].written = load[b].written
         /\ load'[b].left = load[b].left
         /\ \A t \in Target :
              load'[b].put[t] = load[b].put[t] + IF Holds(b, t) THEN sums[b].length ELSE 0
<1> DEFINE t == job[b].path.target
           n == sums[b].length
           put == Plus(load[b].put, t, n)
           l == [load[b] EXCEPT !.put = put]
<1>1. load[b] \in Load /\ n \in Nat
  BY DEF LoadTyped, SumsTyped, Sums
<1>2. job[b].pc \in Holding
  BY DEF EndCopy, FinishCopy, At, Holding
<1>3. t \in Target
  BY <1>2, HasPath
<1>4. put \in [Target -> Nat] /\ \A u \in Target : put[u] = load[b].put[u] + IF u = t THEN n ELSE 0
  <2>1. load[b].put \in [Target -> Nat]
    BY <1>1 DEF Load
  <2>2. load[b].put[t] + n \in Nat
    BY <1>1, <1>3, <2>1
  <2>3. QED  BY <1>1, <1>3, <2>1, <2>2, PlusOK
<1>5. LoadBecomes(b, l)
  BY DEF EndCopy
<1> HIDE DEF put
<1>6. /\ l \in Load /\ l.active = load[b].active /\ l.written = load[b].written
      /\ l.put = put /\ l.left = load[b].left
  BY <1>1, <1>4 DEF Load
<1> HIDE DEF l
<1>7. load'[b] = l /\ LoadTyped' /\ \A c \in Backups : c # b => load'[c] = load[c]
  BY <1>5, <1>6, LoadMoves, LoadKeepsType
<1>8. \A u \in Target : Holds(b, u) <=> u = t
  BY <1>2 DEF Holds
<1>9. QED  BY <1>4, <1>6, <1>7, <1>8, Zenon

(* What a copy left when it failed is added to both histories. *)
LEMMA CopyErrorLoad ==
  ASSUME TypeInv, LoadTyped, SumsTyped, Acquired, NEW b \in Backups, CopyError(b)
  PROVE  /\ LoadTyped' /\ \A c \in Backups : c # b => load'[c] = load[c]
         /\ \A t \in Target : load'[b].active[t] = 0
         /\ load'[b].written = load[b].written
         /\ \E n \in Nat : \A t \in Target :
              /\ load'[b].put[t] = load[b].put[t] + IF Holds(b, t) THEN n ELSE 0
              /\ load'[b].left[t] = load[b].left[t] + IF Holds(b, t) THEN n ELSE 0
<1> DEFINE t == job[b].path.target
<1>1. job[b].pc \in Holding
  BY DEF CopyError, CopyFails, At, Holding
<1>2. t \in Target
  BY <1>1, HasPath
<1>3. load[b] \in Load /\ sums[b].length \in Nat
  BY DEF LoadTyped, SumsTyped, Sums
<1>4. PICK n \in Nat :
        LoadBecomes(b, [load[b] EXCEPT !.active = Plus(load[b].active, t, -1),
                                       !.put = Plus(load[b].put, t, n),
                                       !.left = Plus(load[b].left, t, n)])
  <2>1. PICK n \in IF At(b, "copying") THEN 0 .. sums[b].length ELSE {0} :
          LoadBecomes(b, [load[b] EXCEPT !.active = Plus(load[b].active, t, -1),
                                         !.put = Plus(load[b].put, t, n),
                                         !.left = Plus(load[b].left, t, n)])
    BY DEF CopyError
  <2>2. n \in Nat
    BY <1>3
  <2>3. QED  BY <2>1, <2>2
<1> DEFINE active == Plus(load[b].active, t, -1)
           put == Plus(load[b].put, t, n)
           left == Plus(load[b].left, t, n)
           l == [load[b] EXCEPT !.active = active, !.put = put, !.left = left]
<1>5. LoadBecomes(b, l)
  BY <1>4
<1>6. /\ active \in [Target -> Nat]
      /\ \A u \in Target : active[u] = 0
  <2>1. load[b].active[t] = 1 /\ \A u \in Target : u # t => load[b].active[u] = 0
    BY <1>1, <1>2 DEF Acquired, Holds
  <2>2. load[b].active \in [Target -> Nat] /\ load[b].active[t] + (-1) = 0
    BY <1>3, <2>1 DEF Load
  <2>3. load[b].active[t] + (-1) \in Nat /\ load[b].active \in [Target -> Nat] /\ -1 \in Int
    BY <2>2
  <2>4. /\ Plus(load[b].active, t, -1) \in [Target -> Nat]
        /\ \A u \in Target :
             Plus(load[b].active, t, -1)[u] = IF u = t THEN load[b].active[t] + (-1)
                                              ELSE load[b].active[u]
    BY <1>2, <2>3, PlusOK
  <2> HIDE DEF t
  <2>5. QED  BY <2>1, <2>2, <2>4 DEF active
<1>7. ASSUME NEW f \in [Target -> Nat]
      PROVE  /\ Plus(f, t, n) \in [Target -> Nat]
             /\ \A u \in Target : Plus(f, t, n)[u] = f[u] + IF u = t THEN n ELSE 0
  <2>1. f[t] + n \in Nat
    BY <1>2
  <2>2. QED  BY <1>2, <2>1, PlusOK
<1>8. /\ put \in [Target -> Nat] /\ left \in [Target -> Nat]
      /\ \A u \in Target : put[u] = load[b].put[u] + IF u = t THEN n ELSE 0
      /\ \A u \in Target : left[u] = load[b].left[u] + IF u = t THEN n ELSE 0
  <2>1. load[b].put \in [Target -> Nat] /\ load[b].left \in [Target -> Nat]
    BY <1>3 DEF Load
  <2>2. QED  BY <1>7, <2>1
<1> HIDE DEF active, put, left
<1>9. /\ l \in Load /\ l.active = active /\ l.written = load[b].written
      /\ l.put = put /\ l.left = left
  BY <1>3, <1>6, <1>8 DEF Load
<1> HIDE DEF l
<1>10. load'[b] = l /\ LoadTyped' /\ \A c \in Backups : c # b => load'[c] = load[c]
  BY <1>5, <1>9, LoadMoves, LoadKeepsType
<1>11. \A u \in Target : Holds(b, u) <=> u = t
  BY <1>1 DEF Holds
<1>12. \A u \in Target :
         /\ load'[b].put[u] = load[b].put[u] + IF Holds(b, u) THEN n ELSE 0
         /\ load'[b].left[u] = load[b].left[u] + IF Holds(b, u) THEN n ELSE 0
  BY <1>8, <1>9, <1>10, <1>11
<1>13. QED  BY <1>6, <1>9, <1>10, <1>12

(* The steps that leave the books of the balancer alone. *)
LoadRests(b) ==
  \/ End(b) \/ (\E r \in Root : ListRoot(b, r)) \/ Uncounted(b) \/ (\E f \in File : Compare(b, f))
  \/ EndRoot(b) \/ TurnEnds(b) \/ BeginCopy(b) \/ GiveUp(b)

LEMMA LoadSplit ==
  ASSUME NEW b \in Backups, SessionStep(b)
  PROVE  \/ Begin(b) \/ Die(b) \/ HashNew(b) \/ EndCopy(b)
         \/ TurnGivesBack(b) \/ TurnSettles(b) \/ LoadRests(b)
BY DEF SessionStep, LoadRests, TurnEnds, TurnGivesBack, TurnSettles

LEMMA RestingLoad ==
  ASSUME TypeInv, NEW b \in Backups, LoadRests(b)
  PROVE  /\ load' = load
         /\ job[b].pc \in Holding <=> job'[b].pc \in Holding
         /\ job[b].pc \in Holding => job'[b].path = job[b].path /\ SameRoot(b) /\ job'[b].file = job[b].file
<1>1. load' = load
  BY DEF LoadRests, TurnEnds, End, ListRoot, Uncounted, Compare, EndRoot, HashSame, HashError,
         NoRoom, BeginCopy, GiveUp, Skip, FileDone, TrackerBecomes, books
<1>2. job[b] \in Job
  BY DEF TypeInv, TypeOK, EngineTypeOK
<1>3. CASE End(b)
  BY <1>1, <1>3, Outside, IdleFacts DEF Holding, At
<1>4. ASSUME NEW r \in Root, ListRoot(b, r)
      PROVE  job[b].pc \notin Holding /\ job'[b].pc \notin Holding
  BY <1>4, Outside DEF Holding, At
<1>5. CASE LoadTracked(b)
  BY <1>1, <1>5, BeforeLoop DEF Holding, At
<1>6. ASSUME NEW f \in File, InsertTracked(b, f)
      PROVE  job[b].pc \notin Holding /\ job'[b].pc \notin Holding
  BY <1>2, <1>6, BeforeLoop, RootFacts DEF Holding, At
<1>7. CASE LoadLatest(b)
  BY <1>1, <1>7, BeforeLoop DEF Holding, At
<1>8. CASE InsertBlock(b) \/ BumpRef(b) \/ BeginCopy(b)
  <2>1. PICK pc \in {"bump", "copy", "copying", "version"} : job'[b] = [job[b] EXCEPT !.pc = pc]
    BY <1>8, GoesOn
  <2>2. job[b].pc \in Holding
    BY <1>8, GoesOn DEF Holding, At
  <2>3. QED  BY <1>1, <1>2, <2>1, <2>2, GotoFacts DEF Holding, SameRoot
<1>9. ASSUME NEW f \in File, Compare(b, f)
      PROVE  job[b].pc \notin Holding /\ job'[b].pc \notin Holding
  BY <1>9, TurnBegins DEF Compare, Holding, At
<1>10. CASE EndRoot(b)
  BY <1>1, <1>2, <1>10, Outside, RootFacts DEF Holding, At
<1>11. CASE TurnEnds(b)
  BY <1>1, <1>2, <1>11, EndsTurn, EndsWhere, TurnFacts DEF Holding, At
<1>12. CASE GiveUp(b)
  BY <1>1, <1>2, <1>12, Outside, RootFacts, IdleFacts DEF Holding
<1>13. QED
  BY <1>1, <1>3, <1>4, <1>5, <1>6, <1>7, <1>8, <1>9, <1>10, <1>11, <1>12 DEF LoadRests, Uncounted

LEMMA NotHeld ==
  ASSUME NEW b \in Backups, job'[b].pc \notin Holding, \A t \in Target : load'[b].active[t] = 0
  PROVE  Agree(b)'
BY DEF Agree, Holds

LEMMA AcquiredStep ==
  ASSUME TypeInv, LoadTyped, SumsTyped, Acquired, NEW b \in Backups, SessionStep(b)
  PROVE  LoadTyped' /\ Acquired' /\ \A c \in Backups : c # b => load'[c] = load[c]
<1>1. \A c \in Backups : c # b => job'[c] = job[c]
  BY JobsOfOthers
<1>2. job[b] \in Job
  BY DEF TypeInv, TypeOK, EngineTypeOK
<1>3. CASE Begin(b) \/ Die(b)
  <2>1. LoadBecomes(b, NoLoad)
    BY <1>3 DEF Begin, Die
  <2>2. job'[b].pc \notin Holding
    BY <1>3, Outside, IdleFacts DEF Holding
  <2>3. Agree(b)'
    BY <2>1, <2>2, NoLoadOK, LoadMoves, NotHeld
  <2>4. QED  BY <1>1, <2>1, <2>3, NoLoadOK, LoadMoves, LoadKeepsType, AgreeAll
<1>4. CASE HashNew(b)
  <2> DEFINE t == job'[b].path.target
  <2>1. Acquire(b, t)
    BY <1>4 DEF HashNew
  <2>2. job[b].pc \notin Holding /\ job'[b].pc \in Holding /\ t \in Target
    BY <1>4, TakesTarget DEF Holding, At
  <2>3. /\ LoadTyped' /\ \A c \in Backups : c # b => load'[c] = load[c]
        /\ \A u \in Target : load'[b].active[u] = IF u = t THEN 1 ELSE 0
    BY <2>1, <2>2, AcquireOK
  <2>4. Agree(b)'
    BY <2>2, <2>3 DEF Agree, Holds
  <2>5. QED  BY <1>1, <2>3, <2>4, AgreeAll
<1>5. CASE EndCopy(b)
  <2>1. /\ LoadTyped' /\ \A c \in Backups : c # b => load'[c] = load[c]
        /\ load'[b].active = load[b].active
    BY <1>5, EndCopyLoad
  <2>2. job[b].pc \in Holding /\ job'[b].pc \in Holding /\ job'[b].path = job[b].path
    <3>1. PICK pc \in {"bump", "copy", "copying", "version"} : job'[b] = [job[b] EXCEPT !.pc = pc]
      BY <1>5, GoesOn
    <3>2. job[b].pc \in Holding
      BY <1>5, GoesOn DEF Holding, At
    <3>3. QED  BY <1>2, <3>1, <3>2, GotoFacts DEF Holding
  <2>3. Agree(b)'
    BY <2>1, <2>2, HoldsOn
  <2>4. QED  BY <1>1, <2>1, <2>3, AgreeAll
<1>6. CASE TurnGivesBack(b) \/ TurnSettles(b)
  <2> DEFINE Given == /\ LoadTyped' /\ \A c \in Backups : c # b => load'[c] = load[c]
                      /\ \A t \in Target : load'[b].active[t] = 0
  <2>1. ASSUME ~ CopyError(b)
        PROVE  \E n \in Nat : Release(b, n)
    <3>1. CASE TurnGivesBack(b)
      BY <2>1, <3>1 DEF TurnGivesBack, UpsertFails, GiveBack
    <3>2. CASE TurnSettles(b)
      <4>1. Scanned(b).size \in Nat
        BY <3>2, EndsWhere, HasPath DEF At, Holding, StatRecord
      <4>2. QED  BY <3>2, <4>1 DEF TurnSettles, Record, RecordFails, Settle
    <3>3. QED  BY <1>6, <3>1, <3>2
  <2>2. job[b].pc \in Holding
    BY <1>6, EndsWhere DEF At, Holding
  <2>3. Given
    <3>1. CASE CopyError(b)
      BY <3>1, CopyErrorLoad
    <3>2. CASE ~ CopyError(b)
      BY <2>1, <2>2, <3>2, ReleaseOK
    <3>3. QED  BY <3>1, <3>2
  <2>4. job'[b].pc \notin Holding
    BY <1>2, <1>6, EndsTurn, TurnFacts DEF Holding
  <2>5. QED  BY <1>1, <2>3, <2>4, NotHeld, AgreeAll
<1>7. CASE LoadRests(b)
  <2>1. Agree(b)' /\ load' = load
    BY <1>7, RestingLoad, HoldsOn
  <2>2. QED  BY <1>1, <2>1, AgreeAll DEF LoadTyped
<1>8. QED  BY <1>3, <1>4, <1>5, <1>6, <1>7, LoadSplit

-----------------------------------------------------------------------------
(* The other books keep their types. *)

TrackerTyped == tracker \in [Backups -> Tracker]
RowsTyped ==
  /\ rows \in Seq(Row)
  /\ DOMAIN sessionOf \subseteq Nat
  /\ \A v \in DOMAIN sessionOf : sessionOf[v] \in Nat

LEMMA SumsMove ==
  ASSUME SumsTyped, NEW b \in Backups, NEW s, SumsBecome(b, s)
  PROVE  /\ sums'[b] = s /\ \A c \in Backups : c # b => sums'[c] = sums[c]
         /\ s \in Sums => SumsTyped'
BY DEF SumsTyped, SumsBecome

LEMMA TrackerMoves ==
  ASSUME TrackerTyped, NEW b \in Backups, NEW p, TrackerBecomes(b, p)
  PROVE  /\ tracker'[b] = p /\ \A c \in Backups : c # b => tracker'[c] = tracker[c]
         /\ p \in Tracker => TrackerTyped'
BY DEF TrackerTyped, TrackerBecomes

LEMMA FileDoneOK ==
  ASSUME TrackerTyped, NEW b \in Backups, NEW n \in Nat, FileDone(b, n)
  PROVE  /\ TrackerTyped' /\ \A c \in Backups : c # b => tracker'[c] = tracker[c]
         /\ tracker'[b].done = tracker[b].done + 1 /\ tracker'[b].bytes = tracker[b].bytes + n
         /\ tracker'[b].total = tracker[b].total /\ tracker'[b].base = tracker[b].base
<1> DEFINE done == tracker[b].done + 1
           bytes == tracker[b].bytes + n
           p == [tracker[b] EXCEPT !.done = done, !.bytes = bytes]
<1>1. tracker[b] \in Tracker /\ done \in Nat /\ bytes \in Nat
  BY DEF TrackerTyped, Tracker
<1>2. TrackerBecomes(b, p)
  BY DEF FileDone
<1> HIDE DEF done, bytes
<1>3. /\ p \in Tracker
      /\ p.done = done /\ p.bytes = bytes
      /\ p.total = tracker[b].total /\ p.base = tracker[b].base
  BY <1>1 DEF Tracker
<1> HIDE DEF p
<1>4. QED  BY <1>2, <1>3, TrackerMoves DEF done, bytes

LEMMA SettleOK ==
  ASSUME SumsTyped, NEW b \in Backups,
         SumsBecome(b, [sums[b] EXCEPT !.count = @ + 1, !.fresh = 0])
  PROVE  /\ SumsTyped' /\ \A c \in Backups : c # b => sums'[c] = sums[c]
         /\ sums'[b].files = sums[b].files /\ sums'[b].bytes = sums[b].bytes
         /\ sums'[b].count = sums[b].count + 1 /\ sums'[b].copied = sums[b].copied
         /\ sums'[b].fresh = 0
<1> DEFINE count == sums[b].count + 1
           s == [sums[b] EXCEPT !.count = count, !.fresh = 0]
<1>1. sums[b] \in Sums /\ count \in Nat
  BY DEF SumsTyped, Sums
<1>2. SumsBecome(b, s)
  OBVIOUS
<1> HIDE DEF count
<1>3. /\ s \in Sums
      /\ s.files = sums[b].files /\ s.bytes = sums[b].bytes /\ s.count = count
      /\ s.copied = sums[b].copied /\ s.fresh = 0
  BY <1>1 DEF Sums
<1> HIDE DEF s
<1>4. QED  BY <1>2, <1>3, SumsMove DEF count

LEMMA EndRootSums ==
  ASSUME SumsTyped, NEW b \in Backups, EndRoot(b)
  PROVE  /\ SumsTyped' /\ \A c \in Backups : c # b => sums'[c] = sums[c]
         /\ sums'[b].files = sums[b].files + sums[b].count /\ sums'[b].count = 0
         /\ sums'[b].bytes = sums[b].bytes + sums[b].copied /\ sums'[b].copied = 0
         /\ sums'[b].fresh = sums[b].fresh
<1> DEFINE files == sums[b].files + sums[b].count
           bytes == sums[b].bytes + sums[b].copied
           s == [sums[b] EXCEPT !.files = files, !.count = 0, !.bytes = bytes, !.copied = 0]
<1>1. sums[b] \in Sums /\ files \in Nat /\ bytes \in Nat
  BY DEF SumsTyped, Sums
<1>2. SumsBecome(b, s)
  BY DEF EndRoot
<1> HIDE DEF files, bytes
<1>3. /\ s \in Sums
      /\ s.files = files /\ s.count = 0
      /\ s.bytes = bytes /\ s.copied = 0 /\ s.fresh = sums[b].fresh
  BY <1>1 DEF Sums
<1> HIDE DEF s
<1>4. QED  BY <1>2, <1>3, SumsMove DEF files, bytes

LEMMA EndCopySums ==
  ASSUME SumsTyped, NEW b \in Backups, EndCopy(b)
  PROVE  /\ SumsTyped' /\ \A c \in Backups : c # b => sums'[c] = sums[c]
         /\ sums'[b].files = sums[b].files /\ sums'[b].bytes = sums[b].bytes
         /\ sums'[b].count = sums[b].count
         /\ sums'[b].copied = sums[b].copied + sums[b].length /\ sums'[b].fresh = sums[b].length
<1> DEFINE n == sums[b].length
           copied == sums[b].copied + n
           s == [sums[b] EXCEPT !.copied = copied, !.fresh = n]
<1>1. sums[b] \in Sums /\ n \in Nat /\ copied \in Nat
  BY DEF SumsTyped, Sums
<1>2. SumsBecome(b, s)
  BY DEF EndCopy
<1> HIDE DEF n, copied
<1>3. /\ s \in Sums
      /\ s.files = sums[b].files /\ s.bytes = sums[b].bytes /\ s.count = sums[b].count
      /\ s.copied = copied /\ s.fresh = n
  BY <1>1 DEF Sums
<1> HIDE DEF s
<1>4. QED  BY <1>2, <1>3, SumsMove DEF n, copied

LEMMA BeginCopySums ==
  ASSUME TypeInv, SumsTyped, NEW b \in Backups, BeginCopy(b)
  PROVE  /\ SumsTyped' /\ \A c \in Backups : c # b => sums'[c] = sums[c]
         /\ sums'[b].files = sums[b].files /\ sums'[b].bytes = sums[b].bytes
         /\ sums'[b].count = sums[b].count /\ sums'[b].copied = sums[b].copied
         /\ sums'[b].fresh = sums[b].fresh
         /\ sums'[b].length = SizeOf[source[job[b].file].hash]
<1> DEFINE n == SizeOf[source[job[b].file].hash]
           s == [sums[b] EXCEPT !.length = n]
<1>1. sums[b] \in Sums
  BY DEF SumsTyped
<1>2. n \in Nat
  BY FilesAssumption DEF BeginCopy, StartCopy, TypeInv, TypeOK, FilesTypeOK, SourceFile
<1>3. SumsBecome(b, s)
  BY DEF BeginCopy
<1> HIDE DEF n
<1>4. /\ s \in Sums
      /\ s.files = sums[b].files /\ s.bytes = sums[b].bytes /\ s.count = sums[b].count
      /\ s.copied = sums[b].copied /\ s.fresh = sums[b].fresh /\ s.length = n
  BY <1>1, <1>2 DEF Sums
<1> HIDE DEF s
<1>5. QED  BY <1>3, <1>4, SumsMove DEF n

LEMMA ListRootTracker ==
  ASSUME TypeInv, TrackerTyped, NEW b \in Backups, NEW r \in Root, ListRoot(b, r)
  PROVE  /\ TrackerTyped' /\ \A c \in Backups : c # b => tracker'[c] = tracker[c]
         /\ tracker'[b].done = tracker[b].done /\ tracker'[b].bytes = tracker[b].bytes
         /\ tracker'[b].base = tracker[b].done
         /\ tracker'[b].total = Cardinality({f \in DOMAIN source : RootOf[f] = r})
<1> DEFINE n == Cardinality({f \in DOMAIN source : RootOf[f] = r})
           done == tracker[b].done
           p == [tracker[b] EXCEPT !.total = n, !.base = done]
<1>1. tracker[b] \in Tracker /\ done \in Nat
  BY DEF TrackerTyped, Tracker
<1>2. n \in Nat
  <2>1. {f \in DOMAIN source : RootOf[f] = r} \subseteq File
    BY DEF TypeInv, TypeOK, FilesTypeOK
  <2>2. QED  BY <2>1, SessionAssumption, FS_Subset, FS_CardinalityType
<1>3. TrackerBecomes(b, p)
  BY DEF ListRoot
<1> HIDE DEF n, done
<1>4. /\ p \in Tracker
      /\ p.total = n /\ p.base = done /\ p.done = tracker[b].done /\ p.bytes = tracker[b].bytes
  BY <1>1, <1>2 DEF Tracker
<1> HIDE DEF p
<1>5. QED  BY <1>3, <1>4, TrackerMoves DEF n, done

LEMMA NothingYet ==
  /\ NoSums \in Sums /\ NoSums.files = 0 /\ NoSums.bytes = 0 /\ NoSums.count = 0
  /\ NoSums.copied = 0 /\ NoSums.fresh = 0
  /\ NoTracker \in Tracker /\ NoTracker.bytes = 0
BY DEF NoSums, NoTracker, Sums, Tracker

LEMMA BookSplit ==
  ASSUME NEW b \in Backups, SessionStep(b)
  PROVE  \/ Begin(b) \/ Die(b) \/ End(b) \/ (\E r \in Root : ListRoot(b, r)) \/ Uncounted(b)
         \/ (\E f \in File : Compare(b, f)) \/ EndRoot(b) \/ TurnEnds(b) \/ HashNew(b)
         \/ BeginCopy(b) \/ EndCopy(b) \/ TurnGivesBack(b) \/ TurnSettles(b) \/ GiveUp(b)
BY DEF SessionStep, TurnEnds, TurnGivesBack, TurnSettles

(* Which steps touch the sums, and which the tracker. *)
LEMMA SumsRest ==
  ASSUME NEW b \in Backups,
         \/ End(b) \/ (\E r \in Root : ListRoot(b, r)) \/ Uncounted(b)
         \/ (\E f \in File : Compare(b, f)) \/ TurnEnds(b) \/ HashNew(b)
         \/ TurnGivesBack(b) \/ GiveUp(b)
  PROVE  sums' = sums
BY DEF End, ListRoot, Uncounted, Compare, Skip, TurnEnds, HashSame, HashError, NoRoom, HashNew,
       TurnGivesBack, UpsertFails, CopyError, GiveBack, GiveUp, books

LEMMA TrackerRests ==
  ASSUME NEW b \in Backups,
         \/ End(b) \/ Uncounted(b) \/ EndRoot(b) \/ HashNew(b)
         \/ BeginCopy(b) \/ EndCopy(b) \/ GiveUp(b)
  PROVE  tracker' = tracker
BY DEF End, Uncounted, EndRoot, HashNew, BeginCopy, EndCopy, GiveUp, books

LEMMA SkipsFile ==
  ASSUME TypeInv, NEW b \in Backups, TurnEnds(b) \/ TurnGivesBack(b)
  PROVE  FileDone(b, 0)
BY DEF TurnEnds, HashSame, HashError, NoRoom, Skip, TurnGivesBack, UpsertFails, CopyError, GiveBack

LEMMA CompareTracker ==
  ASSUME NEW b \in Backups, NEW f \in File, Compare(b, f)
  PROVE  IF Unchanged(job[b].scan[f], job[b].latest[f]) THEN FileDone(b, 0) ELSE tracker' = tracker
BY DEF Compare, Skip, books

LEMMA SettlesFile ==
  ASSUME NEW b \in Backups, TurnSettles(b)
  PROVE  /\ FileDone(b, sums[b].fresh)
         /\ SumsBecome(b, [sums[b] EXCEPT !.count = @ + 1, !.fresh = 0])
BY DEF TurnSettles, Record, RecordFails, Settle

BooksTyped == SumsTyped /\ TrackerTyped
OthersKeep(b) == \A c \in Backups : c # b => sums'[c] = sums[c] /\ tracker'[c] = tracker[c]

LEMMA BooksTypedStep ==
  ASSUME TypeInv, BooksTyped, NEW b \in Backups, SessionStep(b)
  PROVE  BooksTyped' /\ OthersKeep(b)
<1>1. SumsTyped /\ TrackerTyped /\ sums[b].fresh \in Nat
  BY DEF BooksTyped, SumsTyped, Sums
<1>2. SumsTyped' /\ \A c \in Backups : c # b => sums'[c] = sums[c]
  <2>1. CASE Begin(b) \/ Die(b)
    BY <1>1, <2>1, NothingYet, SumsMove DEF Begin, Die
  <2>2. CASE EndRoot(b)
    BY <1>1, <2>2, EndRootSums
  <2>3. CASE BeginCopy(b)
    BY <1>1, <2>3, BeginCopySums
  <2>4. CASE EndCopy(b)
    BY <1>1, <2>4, EndCopySums
  <2>5. CASE TurnSettles(b)
    BY <1>1, <2>5, SettlesFile, SettleOK
  <2>6. CASE sums' = sums
    BY <1>1, <2>6 DEF SumsTyped
  <2>7. QED  BY <2>1, <2>2, <2>3, <2>4, <2>5, <2>6, BookSplit, SumsRest
<1>3. TrackerTyped' /\ \A c \in Backups : c # b => tracker'[c] = tracker[c]
  <2>1. CASE Begin(b) \/ Die(b)
    BY <1>1, <2>1, NothingYet, TrackerMoves DEF Begin, Die
  <2>2. CASE \E r \in Root : ListRoot(b, r)
    BY <1>1, <2>2, ListRootTracker
  <2>3. ASSUME NEW n \in Nat, FileDone(b, n)
        PROVE  TrackerTyped' /\ \A c \in Backups : c # b => tracker'[c] = tracker[c]
    BY <1>1, <2>3, FileDoneOK
  <2>4. CASE tracker' = tracker
    BY <1>1, <2>4 DEF TrackerTyped
  <2>5. CASE TurnEnds(b) \/ TurnGivesBack(b)
    BY <2>3, <2>5, SkipsFile
  <2>6. CASE TurnSettles(b)
    BY <1>1, <2>3, <2>6, SettlesFile
  <2>7. CASE \E f \in File : Compare(b, f)
    BY <2>3, <2>4, <2>7, CompareTracker
  <2>8. QED  BY <2>1, <2>2, <2>4, <2>5, <2>6, <2>7, BookSplit, TrackerRests
<1>4. QED  BY <1>2, <1>3 DEF BooksTyped, OthersKeep

-----------------------------------------------------------------------------
(* Part 4: what the window shows is what the session's row will say. *)

(* Bytes wait in bytes_written only until the turn ends. *)
Balanced(b) ==
  /\ tracker[b].bytes + sums[b].fresh = sums[b].bytes + sums[b].copied
  /\ sums[b].fresh # 0 => At(b, "version")

BytesInv == \A b \in Backups : Balanced(b)

LEMMA BalancedStep ==
  ASSUME TypeInv, BooksTyped, BytesInv, NEW b \in Backups, SessionStep(b)
  PROVE  Balanced(b)'
<1>1. /\ SumsTyped /\ TrackerTyped /\ Balanced(b) /\ job[b] \in Job
      /\ sums[b].fresh \in Nat /\ sums[b].bytes \in Nat /\ sums[b].copied \in Nat
      /\ sums[b].length \in Nat /\ tracker[b].bytes \in Nat
  BY DEF BooksTyped, SumsTyped, Sums, TrackerTyped, Tracker, BytesInv, TypeInv, TypeOK, EngineTypeOK
<1>2. CASE Begin(b) \/ Die(b)
  <2>1. sums'[b] = NoSums /\ tracker'[b] = NoTracker
    BY <1>1, <1>2, SumsMove, TrackerMoves DEF Begin, Die
  <2>2. QED  BY <2>1, NothingYet DEF Balanced, At
<1>3. CASE EndRoot(b)
  <2>1. sums[b].fresh = 0
    BY <1>1, <1>3, Outside DEF Balanced, At
  <2>2. QED  BY <1>1, <1>3, <2>1, EndRootSums, TrackerRests DEF Balanced
<1>4. CASE BeginCopy(b)
  <2>1. sums[b].fresh = 0
    BY <1>1, <1>4, GoesOn DEF Balanced, At
  <2>2. QED  BY <1>1, <1>4, <2>1, BeginCopySums, TrackerRests DEF Balanced
<1>5. CASE EndCopy(b)
  <2>1. sums[b].fresh = 0 /\ At(b, "version")'
    BY <1>1, <1>5, GoesOn DEF Balanced, At
  <2>2. QED  BY <1>1, <1>5, <2>1, EndCopySums, TrackerRests DEF Balanced
<1>6. CASE TurnSettles(b)
  <2>1. FileDone(b, sums[b].fresh) /\ SumsBecome(b, [sums[b] EXCEPT !.count = @ + 1, !.fresh = 0])
    BY <1>6, SettlesFile
  <2>2. /\ tracker'[b].bytes = tracker[b].bytes + sums[b].fresh
        /\ sums'[b].bytes = sums[b].bytes /\ sums'[b].copied = sums[b].copied /\ sums'[b].fresh = 0
    BY <1>1, <2>1, FileDoneOK, SettleOK
  <2>3. QED  BY <1>1, <2>2 DEF Balanced
<1>7. CASE TurnEnds(b) \/ TurnGivesBack(b) \/ (\E f \in File : Compare(b, f))
  <2>1. sums' = sums
    BY <1>7, SumsRest
  <2>2. tracker'[b].bytes = tracker[b].bytes
    <3>1. FileDone(b, 0) \/ tracker' = tracker
      BY <1>7, SkipsFile, CompareTracker
    <3>2. QED  BY <1>1, <3>1, FileDoneOK
  <2>3. sums[b].fresh = 0
    BY <1>1, <1>7, EndsWhere DEF Balanced, At, Compare, NextFile
  <2>4. QED  BY <1>1, <2>1, <2>2, <2>3 DEF Balanced
<1>8. CASE End(b) \/ HashNew(b) \/ GiveUp(b) \/ (\E r \in Root : ListRoot(b, r))
  <2>1. sums' = sums
    BY <1>8, SumsRest
  <2>2. tracker'[b].bytes = tracker[b].bytes
    BY <1>1, <1>8, TrackerRests, ListRootTracker
  <2>3. sums[b].fresh = 0
    BY <1>1, <1>8, Outside, TakesTarget DEF Balanced, At
  <2>4. QED  BY <1>1, <2>1, <2>2, <2>3 DEF Balanced
<1>9. CASE Uncounted(b)
  <2>1. sums' = sums /\ tracker' = tracker
    BY <1>9, SumsRest, TrackerRests
  <2>2. ~ At(b, "version")
    BY <1>9 DEF Uncounted, LoadTracked, InsertTracked, LoadLatest, InsertBlock, BumpRef, At
  <2>3. QED  BY <1>1, <2>1, <2>2 DEF Balanced
<1>10. QED
  BY <1>2, <1>3, <1>4, <1>5, <1>6, <1>7, <1>8, <1>9, BookSplit

-----------------------------------------------------------------------------
(* Part 5: every listed file is counted once. *)

Turning == InLoop \ {"file"}
Counted(b) ==
  LET p == tracker[b]
      left == Cardinality(job[b].todo)
  IN /\ job[b].pc \in {"tracked", "track"} =>
          p.total = Cardinality(Listed(job[b])) /\ p.done = p.base
     /\ At(b, "file") => p.done + left = p.base + p.total
     /\ job[b].pc \in Turning => p.done + left + 1 = p.base + p.total

CountInv == \A b \in Backups : Counted(b)

LEMMA TodoFinite ==
  ASSUME TypeInv, NEW b \in Backups
  PROVE  /\ IsFiniteSet(job[b].todo) /\ Cardinality(job[b].todo) \in Nat
         /\ IsFiniteSet(Listed(job[b])) /\ Cardinality(Listed(job[b])) \in Nat
<1>1. job[b].todo \subseteq File /\ Listed(job[b]) \subseteq File
  BY DEF TypeInv, TypeOK, EngineTypeOK, Job, Listed
<1>2. QED  BY <1>1, SessionAssumption, FS_Subset, FS_CardinalityType

LEMMA CountedOutside ==
  ASSUME NEW b \in Backups, job'[b].pc \in {"root", "idle"}
  PROVE  Counted(b)'
BY DEF Counted, At, InLoop, Turning, Holding

LEMMA TurnStays ==
  ASSUME NEW b \in Backups, Counted(b), job[b].pc \in Turning, job'[b].pc \in Turning,
         job'[b].todo = job[b].todo, tracker' = tracker
  PROVE  Counted(b)'
BY DEF Counted, At, InLoop, Turning, Holding

LEMMA CountedStep ==
  ASSUME TypeInv, BooksTyped, CountInv, NEW b \in Backups, SessionStep(b)
  PROVE  Counted(b)'
<1>1. /\ TrackerTyped /\ Counted(b) /\ job[b] \in Job
      /\ tracker[b].done \in Nat /\ tracker[b].base \in Nat /\ tracker[b].total \in Nat
  BY DEF BooksTyped, TrackerTyped, Tracker, CountInv, TypeInv, TypeOK, EngineTypeOK
<1>2. Cardinality(job[b].todo) \in Nat /\ Cardinality(Listed(job[b])) \in Nat
  BY TodoFinite
<1>3. CASE Begin(b) \/ Die(b) \/ End(b)
  BY <1>3, Outside, IdleFacts, CountedOutside
<1>4. CASE GiveUp(b) \/ EndRoot(b)
  <2>1. job'[b].pc \in {"root", "idle"}
    BY <1>1, <1>4, Outside, IdleFacts, RootFacts
  <2>2. QED  BY <2>1, CountedOutside
<1>5. ASSUME NEW r \in Root, ListRoot(b, r)
      PROVE  Counted(b)'
  <2> DEFINE here == {f \in DOMAIN source : RootOf[f] = r}
  <2>1. /\ job'[b].pc = "tracked"
        /\ job'[b].scan =
             [f \in File |-> IF f \in DOMAIN source /\ RootOf[f] = r THEN Stat(f) ELSE None]
    BY <1>5, Outside
  <2>2. DOMAIN source \subseteq File /\ \A f \in DOMAIN source : Stat(f) # None
    BY SessionAssumption, FilesAssumption
       DEF TypeInv, TypeOK, FilesTypeOK, SourceFile, Stat, StatRecord
  <2>3. Listed(job'[b]) = here
    BY <2>1, <2>2 DEF Listed
  <2>4. tracker'[b].total = Cardinality(here) /\ tracker'[b].done = tracker'[b].base
    BY <1>1, <1>5, ListRootTracker
  <2> HIDE DEF here
  <2>5. QED  BY <2>1, <2>3, <2>4 DEF Counted, At, InLoop, Turning, Holding
<1>6. ASSUME InsertBlock(b) \/ BumpRef(b) \/ BeginCopy(b) \/ EndCopy(b), tracker' = tracker
      PROVE  Counted(b)'
  <2>1. job[b].pc \in Turning /\ job'[b].pc \in Turning
    BY <1>6, GoesOn DEF At, InLoop, Turning, Holding
  <2>2. job'[b].todo = job[b].todo
    <3>1. PICK pc \in {"bump", "copy", "copying", "version"} : job'[b] = [job[b] EXCEPT !.pc = pc]
      BY <1>6, GoesOn
    <3>2. QED  BY <1>1, <3>1, GotoFacts
  <2>3. QED  BY <1>1, <1>6, <2>1, <2>2, TurnStays
<1>7. ASSUME Uncounted(b)
      PROVE  Counted(b)'
  <2>1. tracker' = tracker
    BY <1>7, TrackerRests
  <2>2. CASE LoadTracked(b) \/ \E f \in File : InsertTracked(b, f)
    <3>1. job[b].pc \in {"tracked", "track"}
      BY <2>2, BeforeLoop DEF At
    <3>2. CASE job'[b].pc = "track" /\ SameRoot(b)
      <4>1. Listed(job'[b]) = Listed(job[b])
        BY <3>2 DEF SameRoot, Listed
      <4>2. tracker[b].total = Cardinality(Listed(job[b])) /\ tracker[b].done = tracker[b].base
        BY <1>1, <3>1 DEF Counted
      <4>3. QED  BY <2>1, <3>2, <4>1, <4>2 DEF Counted, At, InLoop, Turning, Holding
    <3>3. CASE job'[b] = BetweenRoots(job[b], TRUE)
      <4>1. job'[b].pc = "root"
        BY <3>3 DEF BetweenRoots, Idle
      <4>2. QED  BY <4>1, CountedOutside
    <3>4. QED  BY <2>2, <3>2, <3>3, BeforeLoop
  <2>3. CASE LoadLatest(b)
    <3>1. job[b].pc = "track" /\ job'[b].pc = "file" /\ job'[b].todo = Listed(job[b])
      BY <2>3, BeforeLoop DEF At
    <3>2. tracker[b].total = Cardinality(Listed(job[b])) /\ tracker[b].done = tracker[b].base
      BY <1>1, <3>1 DEF Counted
    <3>3. QED  BY <1>1, <1>2, <2>1, <3>1, <3>2 DEF Counted, At, InLoop, Turning, Holding
  <2>4. CASE InsertBlock(b) \/ BumpRef(b)
    BY <1>6, <2>1, <2>4
  <2>5. QED  BY <1>7, <2>2, <2>3, <2>4 DEF Uncounted
<1>8. CASE BeginCopy(b) \/ EndCopy(b)
  BY <1>6, <1>8, TrackerRests
<1>9. CASE HashNew(b)
  <2>1. job[b].pc \in Turning /\ job'[b].pc \in Turning /\ job'[b].todo = job[b].todo
    BY <1>9, TakesTarget DEF At, InLoop, Turning, Holding
  <2>2. QED  BY <1>1, <1>9, <2>1, TrackerRests, TurnStays
<1>10. CASE TurnEnds(b) \/ TurnGivesBack(b) \/ TurnSettles(b)
  <2>1. job'[b].pc = "file" /\ job'[b].todo = job[b].todo
    BY <1>1, <1>10, EndsTurn, TurnFacts
  <2>2. job[b].pc \in Turning
    BY <1>10, EndsWhere DEF At, InLoop, Turning, Holding
  <2>3. /\ tracker'[b].done = tracker[b].done + 1
        /\ tracker'[b].total = tracker[b].total /\ tracker'[b].base = tracker[b].base
    <3>1. PICK n \in Nat : FileDone(b, n)
      <4>1. sums[b].fresh \in Nat
        BY DEF BooksTyped, SumsTyped, Sums
      <4>2. QED  BY <1>10, <4>1, SkipsFile, SettlesFile
    <3>2. QED  BY <1>1, <3>1, FileDoneOK
  <2>4. QED  BY <1>1, <1>2, <2>1, <2>2, <2>3 DEF Counted, At, InLoop, Turning, Holding
<1>11. ASSUME NEW f \in File, Compare(b, f)
       PROVE  Counted(b)'
  <2>1. NextFile(b, f)
    BY <1>11 DEF Compare
  <2>2. /\ At(b, "file") /\ f \in job[b].todo /\ job'[b].todo = job[b].todo \ {f}
        /\ IF Unchanged(job[b].scan[f], job[b].latest[f])
           THEN job'[b].pc = "file" ELSE job'[b].pc = "hash"
    BY <2>1, TurnBegins
  <2>3. Cardinality(job'[b].todo) = Cardinality(job[b].todo) - 1
    <3>1. Cardinality(job[b].todo \ {f}) = Cardinality(job[b].todo) - 1
      BY <2>2, TodoFinite, FS_RemoveElement
    <3>2. QED  BY <2>2, <3>1, Zenon
  <2>4. CASE Unchanged(job[b].scan[f], job[b].latest[f])
    <3>1. /\ tracker'[b].done = tracker[b].done + 1
          /\ tracker'[b].total = tracker[b].total /\ tracker'[b].base = tracker[b].base
      BY <1>1, <1>11, <2>4, CompareTracker, FileDoneOK
    <3>2. job'[b].pc = "file"
      BY <2>2, <2>4
    <3>3. QED  BY <1>1, <1>2, <2>2, <2>3, <3>1, <3>2 DEF Counted, At, InLoop, Turning, Holding
  <2>5. CASE ~ Unchanged(job[b].scan[f], job[b].latest[f])
    <3>1. tracker' = tracker /\ job'[b].pc = "hash"
      BY <1>11, <2>2, <2>5, CompareTracker
    <3>2. QED  BY <1>1, <1>2, <2>2, <2>3, <3>1 DEF Counted, At, InLoop, Turning, Holding
  <2>6. QED  BY <2>4, <2>5
<1>12. QED
  BY <1>3, <1>4, <1>5, <1>7, <1>8, <1>9, <1>10, <1>11, BookSplit

-----------------------------------------------------------------------------
(* Part 6: a session's row covers its versions. *)

Open(b) == ~ At(b, "idle")

SessionsOpen ==
  \A b \in Backups : Open(b) => job[b].sid \in 1 .. Len(session) /\ session[job[b].sid] = "running"
OwnSession ==
  \A b, c \in Backups : Open(b) /\ Open(c) /\ b # c => job[b].sid # job[c].sid
VersionsNamed ==
  /\ DOMAIN sessionOf \subseteq 1 .. lastVersion
  /\ \A v \in DOMAIN sessionOf : sessionOf[v] \in 1 .. Len(session)
Own(b) == VersionsIn(job[b].sid)
Covered(b) == Open(b) => Cardinality(Own(b)) <= sums[b].files + sums[b].count
SumsCover == \A b \in Backups : Covered(b)
NothingCounted(b) == job[b].pc \in {"root", "tracked", "track"} => sums[b].count = 0

RowsInv ==
  /\ rows \in Seq(Row) /\ Len(rows) = Len(session)
  /\ SessionsOpen
  /\ OwnSession
  /\ VersionsNamed
  /\ SumsCover
  /\ \A b \in Backups : NothingCounted(b)
  /\ RowCounts

LEMMA SessionTypes ==
  ASSUME TypeInv
  PROVE  session \in Seq(Status) /\ lastVersion \in Nat /\ Len(session) \in Nat
BY DEF TypeInv, TypeOK, StoreTypeOK

LEMMA VersionsFinite ==
  ASSUME TypeInv, VersionsNamed, NEW i
  PROVE  /\ IsFiniteSet(VersionsIn(i)) /\ Cardinality(VersionsIn(i)) \in Nat
         /\ VersionsIn(i) \subseteq 1 .. lastVersion
<1>1. lastVersion \in Nat
  BY SessionTypes
<1>2. VersionsIn(i) \subseteq 1 .. lastVersion
  BY DEF VersionsIn, VersionsNamed
<1>3. IsFiniteSet(1 .. lastVersion)
  BY <1>1, FS_Interval
<1>4. QED  BY <1>2, <1>3, FS_Subset, FS_CardinalityType

(* A step that opens no session, ends none and records no version. *)
LEMMA RowsRest ==
  ASSUME TypeInv, BooksTyped, RowsInv, NEW b \in Backups,
         \A c \in Backups : c # b => job'[c] = job[c] /\ sums'[c] = sums[c],
         UNCHANGED <<session, lastVersion, rows, sessionOf>>,
         Open(b)' => /\ Open(b) /\ job'[b].sid = job[b].sid
                     /\ sums'[b].files \in Nat /\ sums'[b].count \in Nat
                     /\ sums[b].files + sums[b].count <= sums'[b].files + sums'[b].count,
         NothingCounted(b)'
  PROVE  RowsInv'
<1>1. \A c \in Backups : Open(c)' => Open(c) /\ job'[c].sid = job[c].sid
  BY DEF Open, At
<1>2. SessionsOpen'
  BY <1>1 DEF RowsInv, SessionsOpen
<1>3. OwnSession'
  BY <1>1 DEF RowsInv, OwnSession
<1>4. VersionsNamed'
  BY DEF RowsInv, VersionsNamed
<1>5. \A i : VersionsIn(i)' = VersionsIn(i)
  BY DEF VersionsIn
<1>6. SumsCover'
  <2> SUFFICES ASSUME NEW c \in Backups, Open(c)'
               PROVE  Cardinality(Own(c)') <= sums'[c].files + sums'[c].count
    BY DEF SumsCover, Covered
  <2>1. Open(c) /\ job'[c].sid = job[c].sid
    BY <1>1
  <2>2. Own(c)' = Own(c)
    BY <2>1 DEF Own, VersionsIn
  <2>3. Cardinality(Own(c)) <= sums[c].files + sums[c].count
    BY <2>1 DEF RowsInv, SumsCover, Covered
  <2>4. Cardinality(Own(c)) \in Nat
    BY VersionsFinite DEF RowsInv, Own
  <2>5. CASE c = b
    <3>1. sums[b].files \in Nat /\ sums[b].count \in Nat
      BY DEF BooksTyped, SumsTyped, Sums
    <3> DEFINE n == Cardinality(Own(b))
    <3>2. n \in Nat /\ n <= sums[b].files + sums[b].count /\ Cardinality(Own(b)') = n
      BY <2>2, <2>3, <2>4, <2>5
    <3> HIDE DEF n
    <3>3. QED  BY <2>1, <2>5, <3>1, <3>2
  <2>6. CASE c # b
    BY <2>2, <2>3, <2>6
  <2>7. QED  BY <2>5, <2>6
<1>7. \A c \in Backups : NothingCounted(c)'
  BY DEF RowsInv, NothingCounted
<1>8. RowCounts'
  <2>1. \A i : Cardinality(VersionsIn(i)') = Cardinality(VersionsIn(i))
    BY <1>5
  <2>2. QED  BY <2>1 DEF RowsInv, RowCounts
<1>9. QED  BY <1>2, <1>3, <1>4, <1>6, <1>7, <1>8 DEF RowsInv

(* The steps that open no session, end none and record no version. *)
LEMMA StoreRests ==
  ASSUME NEW b \in Backups, SessionStep(b), ~ Begin(b), ~ End(b), ~ Record(b)
  PROVE  UNCHANGED <<session, lastVersion, rows, sessionOf>>
<1>1. UNCHANGED <<rows, sessionOf>>
  BY DEF SessionStep, ListRoot, Uncounted, Compare, Skip, EndRoot, HashSame, HashNew, HashError,
         NoRoom, BeginCopy, EndCopy, RecordFails, Settle, UpsertFails, GiveBack, GiveUp, CopyError,
         Die, books
<1>2. UNCHANGED <<session, lastVersion>>
  <2>1. CASE Uncounted(b)
    BY <2>1 DEF Uncounted, LoadTracked, InsertTracked, LoadLatest, InsertBlock, BumpRef, storeVars
  <2>2. CASE \/ (\E r \in Root : ListRoot(b, r)) \/ (\E f \in File : Compare(b, f)) \/ EndRoot(b)
             \/ HashSame(b) \/ HashNew(b) \/ HashError(b) \/ NoRoom(b) \/ BeginCopy(b) \/ EndCopy(b)
             \/ RecordFails(b) \/ UpsertFails(b) \/ GiveUp(b) \/ CopyError(b) \/ Die(b)
    <3>1. UNCHANGED storeVars
      BY <2>2 DEF ListRoot, OpenRoot, Compare, NextFile, EndRoot, RootDone, HashSame, HashNew,
         HashFile, HashError, HashFails, NoRoom, BeginCopy, StartCopy, EndCopy, FinishCopy,
         RecordFails, UpsertFails, StatementFails, GiveUp, RootFails, CopyError, CopyFails, Die,
         BackupCrash
    <3>2. QED  BY <3>1 DEF storeVars
  <2>3. QED  BY <2>1, <2>2 DEF SessionStep
<1>3. QED  BY <1>1, <1>2

(* The job moves within the loop, or into it. *)
LEMMA InLoopNow ==
  ASSUME NEW b \in Backups, job'[b].pc \notin {"root", "tracked", "track"}
  PROVE  NothingCounted(b)'
BY DEF NothingCounted

LEMMA SidStays ==
  ASSUME TypeInv, NEW b \in Backups, SessionStep(b), ~ Begin(b), Open(b)'
  PROVE  Open(b) /\ job'[b].sid = job[b].sid
<1>1. job[b] \in Job
  BY DEF TypeInv, TypeOK, EngineTypeOK
<1>2. CASE Die(b) \/ End(b)
  BY <1>2, Outside, IdleFacts DEF Open, At
<1>3. ASSUME NEW r \in Root, ListRoot(b, r)
      PROVE  Open(b) /\ job'[b].sid = job[b].sid
  BY <1>3, Outside DEF Open, At
<1>4. CASE EndRoot(b)
  <2>1. job'[b].sid = job[b].sid
    BY <1>1, <1>4, Outside, RootFacts
  <2>2. QED  BY <1>4, <2>1, Outside DEF Open, At
<1>5. CASE GiveUp(b)
  <2>1. job[b].pc \in {"root", "tracked", "track"}
    BY <1>5, Outside
  <2>2. CASE job'[b] = Idle
    BY <2>2, IdleFacts DEF Open, At
  <2>3. ASSUME NEW j \in Job, job'[b] = BetweenRoots(j, TRUE), j.sid = job[b].sid
        PROVE  job'[b].sid = job[b].sid
    BY <2>3 DEF BetweenRoots, Idle
  <2>4. QED  BY <1>5, <2>1, <2>2, <2>3, Outside DEF Open, At
<1>6. CASE LoadTracked(b) \/ LoadLatest(b)
  BY <1>6, BeforeLoop DEF SameRoot, Open, At
<1>7. ASSUME NEW f \in File, InsertTracked(b, f)
      PROVE  Open(b) /\ job'[b].sid = job[b].sid
  <2>1. CASE job'[b] = BetweenRoots(job[b], TRUE)
    <3>1. job'[b].sid = job[b].sid
      BY <2>1 DEF BetweenRoots, Idle
    <3>2. QED  BY <1>7, <3>1, BeforeLoop DEF Open, At
  <2>2. QED  BY <1>7, <2>1, BeforeLoop DEF SameRoot, Open, At
<1>8. CASE InsertBlock(b) \/ BumpRef(b) \/ BeginCopy(b) \/ EndCopy(b)
  <2>1. PICK pc \in {"bump", "copy", "copying", "version"} : job'[b] = [job[b] EXCEPT !.pc = pc]
    BY <1>8, GoesOn
  <2>2. job'[b].sid = job[b].sid
    BY <1>1, <2>1, GotoFacts
  <2>3. QED  BY <1>8, <2>2, GoesOn DEF Open, At
<1>9. ASSUME NEW f \in File, Compare(b, f)
      PROVE  Open(b) /\ job'[b].sid = job[b].sid
  BY <1>9, TurnBegins DEF Compare, SameRoot, Open, At
<1>10. CASE TurnEnds(b) \/ TurnGivesBack(b) \/ TurnSettles(b)
  <2>1. job'[b].sid = job[b].sid
    BY <1>1, <1>10, EndsTurn, TurnFacts
  <2>2. QED  BY <1>10, <2>1, EndsWhere DEF Open, At
<1>11. CASE HashNew(b)
  BY <1>11, TakesTarget DEF SameRoot, Open, At
<1>12. QED
  BY <1>2, <1>3, <1>4, <1>5, <1>6, <1>7, <1>8, <1>9, <1>10, <1>11, BookSplit DEF Uncounted

LEMMA SumsGrow ==
  ASSUME TypeInv, BooksTyped, NEW b \in Backups, SessionStep(b), ~ Begin(b), ~ Die(b)
  PROVE  /\ sums'[b].files \in Nat /\ sums'[b].count \in Nat
         /\ sums[b].files + sums[b].count <= sums'[b].files + sums'[b].count
         /\ TurnSettles(b) => sums'[b].files + sums'[b].count = sums[b].files + sums[b].count + 1
<1>1. SumsTyped /\ sums[b].files \in Nat /\ sums[b].count \in Nat
  BY DEF BooksTyped, SumsTyped, Sums
<1>2. CASE sums' = sums /\ ~ TurnSettles(b)
  BY <1>1, <1>2
<1>3. CASE EndRoot(b)
  <2>1. ~ TurnSettles(b)
    BY <1>3, EndsWhere, Outside DEF At
  <2>2. QED  BY <1>1, <1>3, <2>1, EndRootSums
<1>4. CASE BeginCopy(b) \/ EndCopy(b)
  <2>1. ~ TurnSettles(b)
    BY <1>4, EndsWhere, GoesOn DEF At
  <2>2. sums'[b].files = sums[b].files /\ sums'[b].count = sums[b].count
    BY <1>1, <1>4, BeginCopySums, EndCopySums
  <2>3. QED  BY <1>1, <2>1, <2>2
<1>5. CASE TurnSettles(b)
  <2>1. sums'[b].files = sums[b].files /\ sums'[b].count = sums[b].count + 1
    BY <1>1, <1>5, SettlesFile, SettleOK
  <2>2. QED  BY <1>1, <2>1
<1>6. QED  BY <1>2, <1>3, <1>4, <1>5, BookSplit, SumsRest

LEMMA NothingCountedStep ==
  ASSUME TypeInv, BooksTyped, RowsInv, NEW b \in Backups, SessionStep(b)
  PROVE  NothingCounted(b)'
<1>1. /\ SumsTyped /\ NothingCounted(b) /\ job[b] \in Job
  BY DEF BooksTyped, RowsInv, TypeInv, TypeOK, EngineTypeOK
<1>2. CASE Begin(b) \/ Die(b)
  BY <1>1, <1>2, NothingYet, SumsMove DEF Begin, Die, NothingCounted
<1>3. CASE End(b)
  BY <1>3, Outside, IdleFacts, InLoopNow
<1>4. CASE EndRoot(b)
  BY <1>1, <1>4, EndRootSums DEF NothingCounted
<1>5. ASSUME job[b].pc \in {"root", "tracked", "track"}, sums' = sums
      PROVE  NothingCounted(b)'
  BY <1>1, <1>5 DEF NothingCounted
<1>6. CASE Uncounted(b)
  <2>1. sums' = sums
    BY <1>6, SumsRest
  <2>2. CASE LoadTracked(b) \/ \E f \in File : InsertTracked(b, f)
    BY <1>5, <2>1, <2>2, BeforeLoop DEF At
  <2>3. CASE LoadLatest(b)
    BY <2>3, BeforeLoop, InLoopNow
  <2>4. CASE InsertBlock(b) \/ BumpRef(b)
    BY <2>4, GoesOn, InLoopNow
  <2>5. QED  BY <1>6, <2>2, <2>3, <2>4 DEF Uncounted
<1>7. CASE BeginCopy(b) \/ EndCopy(b)
  BY <1>7, GoesOn, InLoopNow
<1>8. ASSUME NEW f \in File, Compare(b, f)
      PROVE  NothingCounted(b)'
  <2>1. job'[b].pc \in {"file", "hash"}
    BY <1>8, TurnBegins DEF Compare
  <2>2. QED  BY <2>1, InLoopNow
<1>9. CASE TurnEnds(b) \/ TurnGivesBack(b) \/ TurnSettles(b)
  <2>1. job'[b].pc = "file"
    BY <1>1, <1>9, EndsTurn, TurnFacts
  <2>2. QED  BY <2>1, InLoopNow
<1>10. CASE HashNew(b)
  BY <1>10, TakesTarget, InLoopNow
<1>11. CASE GiveUp(b) \/ (\E r \in Root : ListRoot(b, r))
  <2>1. job[b].pc \in {"root", "tracked", "track"} /\ sums' = sums
    BY <1>11, Outside, SumsRest DEF At
  <2>2. QED  BY <1>5, <2>1
<1>12. QED
  BY <1>2, <1>3, <1>4, <1>6, <1>7, <1>8, <1>9, <1>10, <1>11, BookSplit

LEMMA BeginRows ==
  ASSUME TypeInv, BooksTyped, RowsInv, NEW b \in Backups, Begin(b), NothingCounted(b)',
         \A c \in Backups : c # b => job'[c] = job[c] /\ sums'[c] = sums[c]
  PROVE  RowsInv'
<1> DEFINE n == Len(session) + 1
<1>1. /\ session \in Seq(Status) /\ Len(session) \in Nat /\ lastVersion \in Nat
      /\ rows \in Seq(Row) /\ Len(rows) = Len(session)
  BY SessionTypes DEF RowsInv
<1>2. session' = Append(session, "running") /\ rows' = Append(rows, [files |-> 0, bytes |-> 0])
  BY DEF Begin, StartBackup, BeginSession
<1>3. UNCHANGED <<sessionOf, lastVersion>>
  BY DEF Begin, StartBackup
<1>4. "running" \in Status /\ [files |-> 0, bytes |-> 0] \in Row
  BY DEF Status, Row
<1>5. /\ Len(session') = n /\ session'[n] = "running"
      /\ \A i \in 1 .. Len(session) : session'[i] = session[i]
  BY <1>1, <1>2, <1>4, AppendProperties
<1>6. /\ rows' \in Seq(Row) /\ Len(rows') = n
      /\ \A i \in 1 .. Len(session) : rows'[i] = rows[i]
  BY <1>1, <1>2, <1>4, AppendProperties
<1>7. At(b, "idle") /\ job'[b].sid = n
  BY Outside
<1>8. \A c \in Backups : c # b /\ Open(c)' =>
        Open(c) /\ job'[c] = job[c] /\ job[c].sid \in 1 .. Len(session) /\ session[job[c].sid] = "running"
  BY DEF RowsInv, SessionsOpen, Open, At
<1>9. SessionsOpen'
  BY <1>1, <1>5, <1>7, <1>8 DEF SessionsOpen
<1>10. OwnSession'
  BY <1>1, <1>7, <1>8 DEF OwnSession, RowsInv
<1>11. VersionsNamed'
  BY <1>1, <1>3, <1>5 DEF VersionsNamed, RowsInv
<1>12. \A i : VersionsIn(i)' = VersionsIn(i)
  BY <1>3 DEF VersionsIn
<1>13. SumsCover'
  <2> SUFFICES ASSUME NEW c \in Backups, Open(c)'
               PROVE  Cardinality(Own(c)') <= sums'[c].files + sums'[c].count
    BY DEF SumsCover, Covered
  <2>1. CASE c = b
    <3>1. Own(c)' = {}
      BY <1>1, <1>3, <1>7, <2>1 DEF Own, VersionsIn, RowsInv, VersionsNamed
    <3>2. sums'[c].files = 0 /\ sums'[c].count = 0
      BY <2>1, NothingYet, SumsMove DEF Begin, BooksTyped
    <3>3. QED  BY <3>1, <3>2, FS_EmptySet
  <2>2. CASE c # b
    <3>1. Own(c)' = Own(c) /\ Open(c)
      BY <1>3, <1>8, <2>2 DEF Own, VersionsIn
    <3>2. QED  BY <2>2, <3>1 DEF RowsInv, SumsCover, Covered
  <2>3. QED  BY <2>1, <2>2
<1>14. \A c \in Backups : NothingCounted(c)'
  BY DEF RowsInv, NothingCounted
<1>15. RowCounts'
  <2> SUFFICES ASSUME NEW i \in DOMAIN session', session'[i] # "running"
               PROVE  Cardinality(VersionsIn(i)') <= rows'[i].files
    BY DEF RowCounts
  <2>1. i \in 1 .. Len(session)
    BY <1>1, <1>2, <1>4, <1>5, AppendProperties
  <2>2. session'[i] = session[i] /\ rows'[i] = rows[i] /\ i \in DOMAIN session
    BY <1>1, <1>5, <1>6, <2>1
  <2>3. QED  BY <1>12, <2>2 DEF RowsInv, RowCounts
<1>16. QED  BY <1>5, <1>6, <1>9, <1>10, <1>11, <1>13, <1>14, <1>15 DEF RowsInv

LEMMA EndRows ==
  ASSUME TypeInv, BooksTyped, RowsInv, NEW b \in Backups, End(b), NothingCounted(b)',
         \A c \in Backups : c # b => job'[c] = job[c]
  PROVE  RowsInv'
<1> DEFINE i == job[b].sid
           status == IF job[b].failed THEN "failed" ELSE "completed"
           row == [files |-> sums[b].files, bytes |-> sums[b].bytes]
<1>1. /\ session \in Seq(Status) /\ Len(session) \in Nat /\ lastVersion \in Nat
      /\ rows \in Seq(Row) /\ Len(rows) = Len(session)
  BY SessionTypes DEF RowsInv
<1>2. session' = [session EXCEPT ![i] = status] /\ rows' = [rows EXCEPT ![i] = row]
  BY DEF End, FinishSession, SetSession
<1>3. UNCHANGED <<sessionOf, lastVersion, sums>>
  BY DEF End, FinishSession
<1>4. At(b, "root") /\ job'[b] = Idle
  BY Outside
<1>5. i \in 1 .. Len(session) /\ sums[b].count = 0 /\ status \in Status /\ status # "running"
  BY <1>4 DEF RowsInv, SessionsOpen, NothingCounted, Open, At, Status
<1>6. row \in Row /\ row.files = sums[b].files
  BY DEF BooksTyped, SumsTyped, Sums, Row
<1> HIDE DEF status, row
<1>7. /\ Len(session') = Len(session) /\ session'[i] = status /\ DOMAIN session' = DOMAIN session
      /\ \A k \in 1 .. Len(session) : k # i => session'[k] = session[k]
  BY <1>1, <1>2, <1>5, ExceptSeq
<1>8. /\ rows' \in Seq(Row) /\ Len(rows') = Len(session) /\ rows'[i] = row
      /\ \A k \in 1 .. Len(session) : k # i => rows'[k] = rows[k]
  BY <1>1, <1>2, <1>5, <1>6, ExceptSeq
<1>9. ~ Open(b)' /\ Open(b)
  BY <1>4, IdleFacts DEF Open, At
<1>10. \A c \in Backups : Open(c)' =>
         /\ Open(c) /\ c # b /\ job'[c] = job[c]
         /\ job[c].sid \in 1 .. Len(session) /\ job[c].sid # i /\ session[job[c].sid] = "running"
  BY <1>9 DEF RowsInv, SessionsOpen, OwnSession, Open, At
<1> HIDE DEF i
<1>11. SessionsOpen'
  BY <1>7, <1>10 DEF SessionsOpen
<1>12. OwnSession'
  BY <1>10 DEF OwnSession, RowsInv
<1>13. VersionsNamed'
  BY <1>3, <1>7 DEF VersionsNamed, RowsInv
<1>14. SumsCover'
  <2> SUFFICES ASSUME NEW c \in Backups, Open(c)'
               PROVE  Cardinality(Own(c)') <= sums'[c].files + sums'[c].count
    BY DEF SumsCover, Covered
  <2>1. Own(c)' = Own(c) /\ Open(c)
    BY <1>3, <1>10 DEF Own, VersionsIn
  <2>2. QED  BY <1>3, <2>1 DEF RowsInv, SumsCover, Covered
<1>15. \A c \in Backups : NothingCounted(c)'
  BY <1>3 DEF RowsInv, NothingCounted
<1>16. RowCounts'
  <2> SUFFICES ASSUME NEW k \in DOMAIN session', session'[k] # "running"
               PROVE  Cardinality(VersionsIn(k)') <= rows'[k].files
    BY DEF RowCounts
  <2>1. VersionsIn(k)' = VersionsIn(k)
    BY <1>3 DEF VersionsIn
  <2>2. k \in 1 .. Len(session) /\ k \in DOMAIN session
    BY <1>1, <1>7
  <2>3. CASE k = i
    <3>1. Cardinality(Own(b)) <= sums[b].files + sums[b].count /\ Own(b) = VersionsIn(k)
      BY <1>9, <2>3 DEF RowsInv, SumsCover, Covered, Own, i
    <3>2. sums[b].files \in Nat
      BY DEF BooksTyped, SumsTyped, Sums
    <3>3. QED  BY <1>5, <1>6, <1>8, <2>1, <2>3, <3>1, <3>2
  <2>4. CASE k # i
    BY <1>7, <1>8, <2>1, <2>2, <2>4 DEF RowsInv, RowCounts
  <2>5. QED  BY <2>3, <2>4
<1>17. QED  BY <1>7, <1>8, <1>11, <1>12, <1>13, <1>14, <1>15, <1>16 DEF RowsInv

LEMMA RecordRows ==
  ASSUME TypeInv, BooksTyped, RowsInv, NEW b \in Backups, Record(b), NothingCounted(b)',
         \A c \in Backups : c # b => job'[c] = job[c] /\ sums'[c] = sums[c]
  PROVE  RowsInv'
<1>0. PICK i, v : i = job[b].sid /\ v = lastVersion + 1
  OBVIOUS
<1>1. lastVersion \in Nat /\ Len(session) \in Nat
  BY SessionTypes
<1>2. UNCHANGED <<session, rows>>
  BY DEF Record, RecordVersion, Settle
<1>3. SessionStep(b) /\ TurnSettles(b) /\ ~ Begin(b) /\ ~ Die(b) /\ Open(b)
  <2>1. SessionStep(b) /\ TurnSettles(b)
    BY DEF SessionStep, TurnSettles
  <2>2. At(b, "version") /\ job'[b] = NextTurn(job[b])
    BY <2>1, EndsWhere, EndsTurn
  <2>3. job'[b].pc = "file"
    BY <2>2, TurnFacts DEF TypeInv, TypeOK, EngineTypeOK
  <2>4. QED  BY <2>1, <2>2, <2>3, Outside, IdleFacts DEF Open, At
<1>4. Open(b)' => job'[b].sid = i
  BY <1>0, <1>3, SidStays
<1>5. /\ sums'[b].files \in Nat /\ sums'[b].count \in Nat
      /\ sums'[b].files + sums'[b].count = sums[b].files + sums[b].count + 1
  BY <1>3, SumsGrow
<1>6. CASE UNCHANGED <<lastVersion, sessionOf>>
  <2>1. sums[b].files \in Nat /\ sums[b].count \in Nat
    BY DEF BooksTyped, SumsTyped, Sums
  <2>2. sums[b].files + sums[b].count <= sums'[b].files + sums'[b].count
    BY <1>5, <2>1
  <2>3. QED  BY <1>0, <1>2, <1>3, <1>4, <1>5, <1>6, <2>2, RowsRest
<1>7. CASE lastVersion' = v /\ sessionOf' = Put(sessionOf, v, i)
  <2>1. i \in 1 .. Len(session) /\ session[i] = "running"
    BY <1>0, <1>3 DEF RowsInv, SessionsOpen
  <2>2. v \notin DOMAIN sessionOf /\ DOMAIN sessionOf \subseteq 1 .. lastVersion
    BY <1>0, <1>1 DEF RowsInv, VersionsNamed
  <2>3. DOMAIN sessionOf' = DOMAIN sessionOf \cup {v}
    BY <1>7 DEF Put
  <2>4. /\ sessionOf'[v] = i
        /\ \A w \in DOMAIN sessionOf : sessionOf'[w] = sessionOf[w]
    BY <1>7, <2>2 DEF Put
  <2>5. VersionsNamed'
    <3>1. \A w \in 1 .. lastVersion : w \in 1 .. v
      BY <1>0, <1>1
    <3>2. v \in 1 .. v
      BY <1>0, <1>1
    <3>3. DOMAIN sessionOf' \subseteq 1 .. lastVersion'
      BY <1>7, <2>2, <2>3, <3>1, <3>2
    <3>4. \A w \in DOMAIN sessionOf' : sessionOf'[w] \in 1 .. Len(session')
      BY <1>2, <2>1, <2>3, <2>4 DEF RowsInv, VersionsNamed
    <3>5. QED  BY <3>3, <3>4 DEF VersionsNamed
  <2>6. \A k : k # i => VersionsIn(k)' = VersionsIn(k)
    BY <2>3, <2>4 DEF VersionsIn
  <2>7. VersionsIn(i)' = VersionsIn(i) \cup {v}
    BY <2>3, <2>4 DEF VersionsIn
  <2>8. SessionsOpen'
    BY <1>0, <1>2, <1>3, <1>4 DEF RowsInv, SessionsOpen, Open, At
  <2>9. OwnSession'
    BY <1>0, <1>3, <1>4 DEF RowsInv, OwnSession, Open, At
  <2>10. SumsCover'
    <3> SUFFICES ASSUME NEW c \in Backups, Open(c)'
                 PROVE  Cardinality(Own(c)') <= sums'[c].files + sums'[c].count
      BY DEF SumsCover, Covered
    <3>1. CASE c = b
      <4>1. Own(c)' = Own(b) \cup {v} /\ Own(b) = VersionsIn(i)
        <5>1. job'[c].sid = i
          BY <1>4, <3>1
        <5>2. Own(c)' = VersionsIn(i)'
          BY <5>1 DEF Own, VersionsIn
        <5>3. Own(b) = VersionsIn(i)
          BY <1>0 DEF Own
        <5>4. QED  BY <2>7, <5>2, <5>3
      <4>2. IsFiniteSet(Own(b)) /\ Cardinality(Own(b)) \in Nat
        BY <4>1, VersionsFinite DEF RowsInv
      <4>3. Cardinality(Own(b)) <= sums[b].files + sums[b].count
        BY <1>3 DEF RowsInv, SumsCover, Covered
      <4>4. sums[b].files \in Nat /\ sums[b].count \in Nat
        BY DEF BooksTyped, SumsTyped, Sums
      <4> DEFINE n == Cardinality(Own(b))
                 m == Cardinality(Own(c)')
      <4>5. m = n \/ m = n + 1
        BY <4>1, <4>2, FS_AddElement
      <4> HIDE DEF n, m
      <4>6. m <= sums'[b].files + sums'[b].count
        BY <1>5, <4>2, <4>3, <4>4, <4>5 DEF n
      <4>7. QED  BY <3>1, <4>6 DEF m
    <3>2. CASE c # b
      <4>1. Open(c) /\ job'[c] = job[c]
        BY <3>2 DEF Open, At
      <4>2. job[c].sid # i
        BY <1>0, <1>3, <3>2, <4>1 DEF RowsInv, OwnSession
      <4>3. Own(c)' = VersionsIn(job[c].sid)'
        BY <4>1 DEF Own, VersionsIn
      <4>4. Own(c)' = Own(c)
        BY <2>3, <2>4, <4>1, <4>2 DEF Own, VersionsIn
      <4>5. QED  BY <3>2, <4>1, <4>4 DEF RowsInv, SumsCover, Covered
    <3>3. QED  BY <3>1, <3>2
  <2>11. \A c \in Backups : NothingCounted(c)'
    BY DEF RowsInv, NothingCounted
  <2>12. RowCounts'
    <3> SUFFICES ASSUME NEW k \in DOMAIN session, session[k] # "running"
                 PROVE  Cardinality(VersionsIn(k)') <= rows[k].files
      BY <1>2 DEF RowCounts
    <3>1. k # i
      BY <2>1
    <3>2. VersionsIn(k)' = VersionsIn(k)
      BY <2>6, <3>1
    <3>3. QED  BY <3>2 DEF RowsInv, RowCounts
  <2>13. QED  BY <1>2, <2>5, <2>8, <2>9, <2>10, <2>11, <2>12 DEF RowsInv
<1>8. (lastVersion' = v /\ sessionOf' = Put(sessionOf, v, i)) \/ UNCHANGED <<lastVersion, sessionOf>>
  <2>1. lastVersion' = v \/ lastVersion' = lastVersion
    BY <1>0 DEF Record, RecordVersion, InsertFileVersion
  <2>2. sessionOf' = IF lastVersion' = lastVersion THEN sessionOf ELSE Put(sessionOf, lastVersion', i)
    BY <1>0 DEF Record
  <2>3. QED  BY <2>1, <2>2
<1>9. QED  BY <1>6, <1>7, <1>8

LEMMA RowsStep ==
  ASSUME TypeInv, BooksTyped, RowsInv, NEW b \in Backups, SessionStep(b)
  PROVE  RowsInv'
<1>1. NothingCounted(b)'
  BY NothingCountedStep
<1>2. \A c \in Backups : c # b => job'[c] = job[c] /\ sums'[c] = sums[c]
  BY JobsOfOthers, BooksTypedStep DEF OthersKeep
<1>3. CASE Begin(b)
  BY <1>1, <1>2, <1>3, BeginRows
<1>4. CASE End(b)
  BY <1>1, <1>2, <1>4, EndRows
<1>5. CASE Record(b)
  BY <1>1, <1>2, <1>5, RecordRows
<1>6. CASE ~ Begin(b) /\ ~ End(b) /\ ~ Record(b)
  <2>1. UNCHANGED <<session, lastVersion, rows, sessionOf>>
    BY <1>6, StoreRests
  <2>2. CASE Die(b)
    <3>1. ~ Open(b)'
      BY <2>2, Outside, IdleFacts DEF Open, At
    <3>2. QED  BY <1>1, <1>2, <2>1, <3>1, RowsRest
  <2>3. CASE ~ Die(b)
    <3>1. /\ sums'[b].files \in Nat /\ sums'[b].count \in Nat
          /\ sums[b].files + sums[b].count <= sums'[b].files + sums'[b].count
      BY <1>6, <2>3, SumsGrow
    <3>2. Open(b)' => Open(b) /\ job'[b].sid = job[b].sid
      BY <1>6, SidStays
    <3>3. QED  BY <1>1, <1>2, <2>1, <3>1, <3>2, RowsRest
  <2>4. QED  BY <2>2, <2>3
<1>7. QED  BY <1>3, <1>4, <1>5, <1>6

-----------------------------------------------------------------------------
(* Part 7: quotas, while the sources rest. *)

ScanRests(b) ==
  Open(b) => \A f \in File :
               job[b].scan[f] # None => f \in DOMAIN source /\ job[b].scan[f] = Stat(f)
Cap(t) == IF Quota[t] > 0 THEN Quota[t] ELSE 0
Due(b, t)   == IF Holds(b, t) THEN Scanned(b).size ELSE 0
Early(b, t) == IF Holds(b, t) THEN sums[b].fresh ELSE 0
Charged(b) ==
  /\ \A t \in Target : Quota[t] # None => load[b].written[t] + Due(b, t) <= Cap(t)
  /\ \A t \in Target : load[b].put[t] <= load[b].written[t] + Early(b, t) + load[b].left[t]
  /\ At(b, "copying") => sums[b].length <= Scanned(b).size
  /\ At(b, "version") => sums[b].fresh <= Scanned(b).size

QuotaInv == \A b \in Backups : ScanRests(b) /\ Charged(b)

LEMMA CapOK ==
  ASSUME NEW t \in Target, Quota[t] # None
  PROVE  Quota[t] \in Int /\ Cap(t) \in Nat
BY SessionAssumption DEF Cap

LEMMA SourceStays ==
  ASSUME NEW b \in Backups, SessionStep(b)
  PROVE  source' = source
<1>1. BackupStep(b)
  BY StepIsBackup
<1>2. QED
  BY <1>1 DEF BackupStep, BackupWork, BackupFault, BackupCrash, StartBackup, FinishSession,
     OpenRoot, LoadTracked, InsertTracked, LoadLatest, NextFile, RootDone, HashFile, InsertBlock,
     BumpRef, StartCopy, FinishCopy, RecordVersion, StatementFails, RootFails, HashFails, CopyFails,
     fileVars

(* A step that lists nothing keeps the scan, or ends it. *)
LEMMA ScanStays ==
  ASSUME TypeInv, NEW b \in Backups, SessionStep(b), \A r \in Root : ~ ListRoot(b, r)
  PROVE  \/ job'[b].scan = job[b].scan /\ (Open(b)' => Open(b))
         \/ job'[b].scan = [f \in File |-> None]
<1>1. job[b] \in Job
  BY DEF TypeInv, TypeOK, EngineTypeOK
<1>2. CASE Begin(b)
  BY <1>2, Outside
<1>3. CASE End(b) \/ Die(b)
  BY <1>3, Outside, IdleFacts
<1>4. CASE EndRoot(b)
  <2>1. job'[b] = BetweenRoots(job[b], FALSE)
    BY <1>4, Outside
  <2>2. QED  BY <2>1 DEF BetweenRoots, Idle
<1>5. CASE GiveUp(b)
  <2>1. ASSUME NEW j \in Job, job'[b] = BetweenRoots(j, TRUE)
        PROVE  job'[b].scan = [f \in File |-> None]
    BY <2>1 DEF BetweenRoots, Idle
  <2>2. QED  BY <1>5, <2>1, Outside, IdleFacts
<1>6. ASSUME job'[b].scan = job[b].scan, ~ Begin(b)
      PROVE  job'[b].scan = job[b].scan /\ (Open(b)' => Open(b))
  BY <1>6, SidStays
<1>7. CASE Uncounted(b)
  <2>1. ~ Begin(b)
    BY <1>7, Outside, BeforeLoop, GoesOn DEF Uncounted, At
  <2>2. CASE LoadTracked(b) \/ LoadLatest(b)
    BY <1>6, <2>1, <2>2, BeforeLoop DEF SameRoot
  <2>3. CASE \E f \in File : InsertTracked(b, f)
    <3>1. CASE job'[b] = BetweenRoots(job[b], TRUE)
      BY <3>1 DEF BetweenRoots, Idle
    <3>2. QED  BY <1>6, <2>1, <2>3, <3>1, BeforeLoop DEF SameRoot
  <2>4. CASE InsertBlock(b) \/ BumpRef(b)
    <3>1. PICK pc \in {"bump", "copy", "copying", "version"} : job'[b] = [job[b] EXCEPT !.pc = pc]
      BY <2>4, GoesOn
    <3>2. job'[b].scan = job[b].scan
      BY <1>1, <3>1, GotoFacts
    <3>3. QED  BY <1>6, <2>1, <3>2
  <2>5. QED  BY <1>7, <2>2, <2>3, <2>4 DEF Uncounted
<1>8. CASE BeginCopy(b) \/ EndCopy(b)
  <2>1. PICK pc \in {"bump", "copy", "copying", "version"} : job'[b] = [job[b] EXCEPT !.pc = pc]
    BY <1>8, GoesOn
  <2>2. job'[b].scan = job[b].scan
    BY <1>1, <2>1, GotoFacts
  <2>3. QED  BY <1>6, <1>8, <2>2, Outside, GoesOn DEF At
<1>9. CASE \E f \in File : Compare(b, f)
  <2>1. job'[b].scan = job[b].scan /\ At(b, "file")
    BY <1>9, TurnBegins DEF Compare, SameRoot
  <2>2. QED  BY <1>6, <2>1, Outside DEF At
<1>10. CASE TurnEnds(b) \/ TurnGivesBack(b) \/ TurnSettles(b)
  <2>1. job'[b].scan = job[b].scan
    BY <1>1, <1>10, EndsTurn, TurnFacts
  <2>2. QED  BY <1>6, <1>10, <2>1, EndsWhere, Outside DEF At
<1>11. CASE HashNew(b)
  BY <1>6, <1>11, TakesTarget, Outside DEF At, SameRoot
<1>12. QED
  BY <1>2, <1>3, <1>4, <1>5, <1>7, <1>8, <1>9, <1>10, <1>11, BookSplit

LEMMA ScanRestsStep ==
  ASSUME TypeInv, NEW b \in Backups, ScanRests(b), SessionStep(b)
  PROVE  ScanRests(b)'
<1>1. source' = source
  BY SourceStays
<1>2. \A f : Stat(f)' = Stat(f)
  BY <1>1 DEF Stat
<1>3. ASSUME NEW r \in Root, ListRoot(b, r)
      PROVE  ScanRests(b)'
  <2> DEFINE scan == [f \in File |-> IF f \in DOMAIN source /\ RootOf[f] = r THEN Stat(f) ELSE None]
  <2>1. job'[b].scan = scan
    BY <1>3, Outside
  <2>2. \A f \in File : scan[f] # None => f \in DOMAIN source /\ scan[f] = Stat(f)
    OBVIOUS
  <2> HIDE DEF scan
  <2>3. QED  BY <1>1, <1>2, <2>1, <2>2 DEF ScanRests
<1>4. CASE job'[b].scan = job[b].scan /\ (Open(b)' => Open(b))
  BY <1>1, <1>2, <1>4 DEF ScanRests
<1>5. CASE job'[b].scan = [f \in File |-> None]
  BY <1>5 DEF ScanRests
<1>6. QED  BY <1>3, <1>4, <1>5, ScanStays

(* The file of a turn is the one that was listed. *)
LEMMA ScannedIsStat ==
  ASSUME TypeInv, NEW b \in Backups, ScanRests(b), job[b].pc \in Holding
  PROVE  Scanned(b) = Stat(job[b].file) /\ Scanned(b).size = SizeOf[source[job[b].file].hash]
<1>1. job[b].file \in File /\ Scanned(b) \in StatRecord /\ Open(b)
  BY HasPath DEF Open, At, Holding
<1>2. Scanned(b) # None
  BY <1>1, SessionAssumption
<1>3. Scanned(b) = Stat(job[b].file)
  BY <1>1, <1>2 DEF ScanRests, Scanned
<1>4. QED  BY <1>3 DEF Stat

LEMMA RoomOK ==
  ASSUME LoadTyped, NEW b \in Backups, NEW free, NEW size \in Nat, NEW t \in Target,
         Selects(b, free, size, t), Quota[t] # None, load[b].written[t] <= Cap(t)
  PROVE  load[b].written[t] + size <= Cap(t)
<1>1. Quota[t] \in Int /\ load[b].written[t] \in Nat
  BY CapOK DEF LoadTyped, Load
<1>2. Available(b, free, t) >= size
  BY DEF Selects, Candidates
<1>3. Rest0(Quota[t], load[b].written[t]) >= size
  BY <1>2 DEF Available
<1>4. QED  BY <1>1, <1>3 DEF Rest0, Cap

LEMMA LoadNats ==
  ASSUME LoadTyped, SumsTyped, NEW b \in Backups, NEW t \in Target
  PROVE  /\ load[b].written[t] \in Nat /\ load[b].put[t] \in Nat /\ load[b].left[t] \in Nat
         /\ sums[b].fresh \in Nat /\ sums[b].length \in Nat
BY DEF LoadTyped, Load, SumsTyped, Sums

(* Between turns nothing is due. *)
LEMMA NothingDue ==
  ASSUME NEW b \in Backups, job'[b].pc \notin Holding,
         \A t \in Target :
           /\ Quota[t] # None => load'[b].written[t] <= Cap(t)
           /\ load'[b].put[t] <= load'[b].written[t] + load'[b].left[t]
           /\ load'[b].written[t] \in Nat
  PROVE  Charged(b)'
<1>1. \A t \in Target : Due(b, t)' = 0 /\ Early(b, t)' = 0
  BY DEF Due, Early, Holds
<1>2. ~ At(b, "copying")' /\ ~ At(b, "version")'
  BY DEF At, Holding
<1>3. ASSUME NEW t \in Target
      PROVE  /\ load'[b].written[t] + Due(b, t)' = load'[b].written[t]
             /\ load'[b].written[t] + Early(b, t)' = load'[b].written[t]
  BY <1>1
<1>4. QED  BY <1>2, <1>3 DEF Charged, Cap

LEMMA ChargedHash ==
  ASSUME TypeInv, LoadTyped, SumsTyped, SumsTyped', Acquired, NEW b \in Backups, Charged(b), HashNew(b)
  PROVE  Charged(b)'
<1> DEFINE u == job'[b].path.target
<1>1. /\ At(b, "hash") /\ job'[b].pc = "insert" /\ u \in Target
      /\ Scanned(b)' = Scanned(b)
  BY TakesTarget DEF SameRoot, Scanned
<1>2. PICK free \in FreeSpace : Selects(b, free, Scanned(b).size, u)
  BY DEF HashNew
<1>3. Acquire(b, u)
  BY DEF HashNew
<1>4. /\ load'[b].put = load[b].put /\ load'[b].written = load[b].written
      /\ load'[b].left = load[b].left
  <2> HIDE DEF u
  <2>1. job[b].pc \notin Holding
    BY <1>1 DEF At, Holding
  <2>2. QED  BY <1>1, <1>3, <2>1, AcquireOK
<1>5. \A t \in Target : Holds(b, t)' <=> t = u
  BY <1>1 DEF Holds, Holding
<1>6. \A t \in Target : ~ Holds(b, t)
  BY <1>1 DEF Holds, At, Holding
<1>7. Scanned(b).size \in Nat
  BY <1>1 DEF TypeInv, JobShape, WellFormed, WithFile, At, Scanned, StatRecord
<1>8. ~ At(b, "copying")' /\ ~ At(b, "version")'
  BY <1>1 DEF At
<1> HIDE DEF u
<1>9. ASSUME NEW t \in Target
      PROVE  /\ Quota[t] # None => load'[b].written[t] + Due(b, t)' <= Cap(t)
             /\ load'[b].put[t] <= load'[b].written[t] + Early(b, t)' + load'[b].left[t]
  <2>1. /\ load[b].written[t] \in Nat /\ load[b].put[t] \in Nat /\ load[b].left[t] \in Nat
        /\ sums'[b].fresh \in Nat
    BY LoadNats DEF SumsTyped, Sums
  <2>2. Due(b, t)' = IF t = u THEN Scanned(b).size ELSE 0
    BY <1>1, <1>5 DEF Due
  <2>3. Early(b, t)' \in Nat
    BY <2>1 DEF Early
  <2>4. Quota[t] # None => load[b].written[t] <= Cap(t)
    <3>1. Due(b, t) = 0
      BY <1>6 DEF Due
    <3>2. QED  BY <2>1, <3>1 DEF Charged
  <2>5. load[b].put[t] <= load[b].written[t] + load[b].left[t]
    <3>1. Early(b, t) = 0
      BY <1>6 DEF Early
    <3>2. load[b].put[t] <= load[b].written[t] + Early(b, t) + load[b].left[t]
      BY DEF Charged
    <3>3. QED  BY <2>1, <3>1, <3>2
  <2>6. Quota[t] # None /\ t = u => load[b].written[t] + Scanned(b).size <= Cap(t)
    BY <1>2, <1>7, <2>4, RoomOK
  <2>7. Quota[t] # None => load'[b].written[t] + Due(b, t)' <= Cap(t)
    BY <1>4, <2>1, <2>2, <2>4, <2>6
  <2>8. load'[b].put[t] <= load'[b].written[t] + Early(b, t)' + load'[b].left[t]
    BY <1>4, <2>1, <2>3, <2>5
  <2>9. QED  BY <2>7, <2>8
<1>10. QED  BY <1>8, <1>9 DEF Charged, Cap

LEMMA ChargedCopy ==
  ASSUME TypeInv, LoadTyped, SumsTyped, NEW b \in Backups, Charged(b), Balanced(b), EndCopy(b)
  PROVE  Charged(b)'
<1>1. At(b, "copying") /\ job'[b].pc = "version"
  BY GoesOn
<1>2. /\ job'[b].path = job[b].path /\ Scanned(b)' = Scanned(b)
  <2>1. job[b] \in Job
    BY DEF TypeInv, TypeOK, EngineTypeOK
  <2>2. PICK pc \in {"bump", "copy", "copying", "version"} : job'[b] = [job[b] EXCEPT !.pc = pc]
    BY GoesOn
  <2>3. job'[b].path = job[b].path /\ job'[b].scan = job[b].scan /\ job'[b].file = job[b].file
    BY <2>1, <2>2, GotoFacts
  <2>4. QED  BY <2>3 DEF Scanned
<1>3. \A t \in Target : Holds(b, t)' <=> Holds(b, t)
  BY <1>1, <1>2 DEF Holds, At, Holding
<1>4. sums[b].fresh = 0
  BY <1>1 DEF Balanced, At
<1>5. sums'[b].fresh = sums[b].length
  BY EndCopySums
<1>6. /\ load'[b].written = load[b].written /\ load'[b].left = load[b].left
      /\ \A t \in Target :
           load'[b].put[t] = load[b].put[t] + IF Holds(b, t) THEN sums[b].length ELSE 0
  BY EndCopyLoad
<1>7. ASSUME NEW t \in Target
      PROVE  /\ Quota[t] # None => load'[b].written[t] + Due(b, t)' <= Cap(t)
             /\ load'[b].put[t] <= load'[b].written[t] + Early(b, t)' + load'[b].left[t]
  <2>1. Due(b, t)' = Due(b, t)
    BY <1>2, <1>3 DEF Due
  <2>2. Early(b, t)' = (IF Holds(b, t) THEN sums[b].length ELSE 0) /\ Early(b, t) = 0
    BY <1>3, <1>4, <1>5 DEF Early
  <2>3. load[b].put[t] <= load[b].written[t] + load[b].left[t]
    <3>1. load[b].put[t] <= load[b].written[t] + Early(b, t) + load[b].left[t]
      BY DEF Charged
    <3>2. QED  BY <2>2, <3>1, LoadNats
  <2>4. Quota[t] # None => load'[b].written[t] + Due(b, t)' <= Cap(t)
    BY <1>6, <2>1 DEF Charged
  <2>5. load'[b].put[t] <= load'[b].written[t] + Early(b, t)' + load'[b].left[t]
    BY <1>6, <2>2, <2>3, LoadNats
  <2>6. QED  BY <2>4, <2>5
<1>8. sums'[b].fresh <= Scanned(b)'.size /\ ~ At(b, "copying")'
  BY <1>1, <1>2, <1>5 DEF Charged, At
<1>9. QED  BY <1>7, <1>8 DEF Charged, Cap

LEMMA ChargedEnds ==
  ASSUME TypeInv, LoadTyped, SumsTyped, Acquired, NEW b \in Backups, Charged(b), Balanced(b),
         UpsertFails(b) \/ TurnSettles(b)
  PROVE  Charged(b)'
<1>1. job[b] \in Job /\ (TurnGivesBack(b) \/ TurnSettles(b))
  BY DEF TypeInv, TypeOK, EngineTypeOK, TurnGivesBack
<1>2. job[b].pc \in Holding /\ job'[b].pc = "file"
  BY <1>1, EndsWhere, EndsTurn, TurnFacts DEF At, Holding
<1>3. Scanned(b).size \in Nat
  BY <1>2, HasPath DEF StatRecord
<1>4. PICK n \in Nat : Release(b, n) /\ n <= Scanned(b).size /\ sums[b].fresh <= n
  <2>1. CASE UpsertFails(b)
    <3>1. Release(b, 0)
      BY <2>1 DEF UpsertFails, GiveBack
    <3>2. sums[b].fresh = 0
      BY <2>1, EndsWhere DEF Balanced, At, TurnGivesBack
    <3>3. 0 <= Scanned(b).size /\ sums[b].fresh <= 0
      BY <1>3, <3>2
    <3>4. QED  BY <3>1, <3>3
  <2>2. CASE TurnSettles(b)
    <3> DEFINE size == Scanned(b).size
    <3>1. Release(b, size)
      BY <2>2 DEF TurnSettles, Record, RecordFails, Settle
    <3>2. size \in Nat /\ size <= size /\ sums[b].fresh <= size
      BY <1>3, <2>2, EndsWhere DEF Charged
    <3> HIDE DEF size
    <3>3. \E n \in Nat : Release(b, n) /\ n <= size /\ sums[b].fresh <= n
      BY <3>1, <3>2
    <3>4. QED  BY <3>3 DEF size
  <2>3. QED  BY <2>1, <2>2
<1>5. /\ load'[b].put = load[b].put /\ load'[b].left = load[b].left
      /\ \A t \in Target :
           load'[b].written[t] = load[b].written[t] + IF Holds(b, t) THEN n ELSE 0
  BY <1>2, <1>4, ReleaseOK
<1>6. ASSUME NEW t \in Target
      PROVE  /\ Quota[t] # None => load'[b].written[t] <= Cap(t)
             /\ load'[b].put[t] <= load'[b].written[t] + load'[b].left[t]
             /\ load'[b].written[t] \in Nat
  <2>1. /\ load[b].written[t] \in Nat /\ load[b].put[t] \in Nat /\ load[b].left[t] \in Nat
        /\ sums[b].fresh \in Nat
    BY LoadNats
  <2>2. Due(b, t) = (IF Holds(b, t) THEN Scanned(b).size ELSE 0)
    BY DEF Due
  <2>3. Early(b, t) = IF Holds(b, t) THEN sums[b].fresh ELSE 0
    BY DEF Early
  <2>4. Quota[t] # None => load[b].written[t] + Due(b, t) <= Cap(t) /\ Cap(t) \in Nat
    BY CapOK DEF Charged
  <2>5. load[b].put[t] <= load[b].written[t] + Early(b, t) + load[b].left[t]
    BY DEF Charged
  <2>6. load'[b].written[t] = load[b].written[t] + IF Holds(b, t) THEN n ELSE 0
    BY <1>5
  <2>7. Quota[t] # None => load'[b].written[t] <= Cap(t)
    BY <1>3, <1>4, <2>1, <2>2, <2>4, <2>6
  <2>8. /\ load'[b].put[t] <= load'[b].written[t] + load'[b].left[t]
        /\ load'[b].written[t] \in Nat
    BY <1>4, <1>5, <2>1, <2>3, <2>5, <2>6
  <2>9. QED  BY <2>7, <2>8
<1>7. job'[b].pc \notin Holding
  BY <1>2 DEF Holding
<1>8. QED  BY <1>6, <1>7, NothingDue

(* A copy that fails is charged with nothing: what it wrote is left. *)
LEMMA ChargedFails ==
  ASSUME TypeInv, LoadTyped, SumsTyped, Acquired, NEW b \in Backups, Charged(b), Balanced(b),
         CopyError(b)
  PROVE  Charged(b)'
<1>1. job[b] \in Job /\ TurnGivesBack(b)
  BY DEF TypeInv, TypeOK, EngineTypeOK, TurnGivesBack
<1>2. job[b].pc \in Holding /\ job'[b].pc = "file"
  BY <1>1, EndsWhere, EndsTurn, TurnFacts DEF At, Holding
<1>3. Scanned(b).size \in Nat
  BY <1>2, HasPath DEF StatRecord
<1>4. load'[b].written = load[b].written
  BY CopyErrorLoad
<1>5. PICK n \in Nat : \A t \in Target :
        /\ load'[b].put[t] = load[b].put[t] + IF Holds(b, t) THEN n ELSE 0
        /\ load'[b].left[t] = load[b].left[t] + IF Holds(b, t) THEN n ELSE 0
  BY CopyErrorLoad
<1>6. sums[b].fresh = 0
  BY <1>1, EndsWhere DEF Balanced, At
<1>7. ASSUME NEW t \in Target
      PROVE  /\ Quota[t] # None => load'[b].written[t] <= Cap(t)
             /\ load'[b].put[t] <= load'[b].written[t] + load'[b].left[t]
             /\ load'[b].written[t] \in Nat
  <2>1. /\ load[b].written[t] \in Nat /\ load[b].put[t] \in Nat /\ load[b].left[t] \in Nat
    BY LoadNats
  <2>2. Due(b, t) \in Nat /\ Early(b, t) = 0
    BY <1>3, <1>6 DEF Due, Early
  <2>3. Quota[t] # None => load[b].written[t] + Due(b, t) <= Cap(t) /\ Cap(t) \in Nat
    BY CapOK DEF Charged
  <2>4. load[b].put[t] <= load[b].written[t] + Early(b, t) + load[b].left[t]
    BY DEF Charged
  <2>5. Quota[t] # None => load'[b].written[t] <= Cap(t)
    BY <1>4, <2>1, <2>2, <2>3
  <2>6. load'[b].put[t] <= load'[b].written[t] + load'[b].left[t]
    <3>1. CASE Holds(b, t)
      BY <1>4, <1>5, <2>1, <2>2, <2>4, <3>1
    <3>2. CASE ~ Holds(b, t)
      BY <1>4, <1>5, <2>1, <2>2, <2>4, <3>2
    <3>3. QED  BY <3>1, <3>2
  <2>7. QED  BY <1>4, <2>1, <2>5, <2>6
<1>8. job'[b].pc \notin Holding
  BY <1>2 DEF Holding
<1>9. QED  BY <1>7, <1>8, NothingDue

(* What is left changes no charge; when a copy begins it will be as long   *)
(* as the file was listed.                                                 *)
LEMMA ChargedRests ==
  ASSUME TypeInv, LoadTyped, SumsTyped, NEW b \in Backups, ScanRests(b), Charged(b), Balanced(b),
         LoadRests(b)
  PROVE  Charged(b)'
<1>1. /\ load' = load
      /\ job[b].pc \in Holding <=> job'[b].pc \in Holding
      /\ job[b].pc \in Holding =>
           job'[b].path = job[b].path /\ SameRoot(b) /\ job'[b].file = job[b].file
  BY RestingLoad
<1>2. sums'[b].fresh = sums[b].fresh
  <2>1. CASE EndRoot(b)
    BY <2>1, EndRootSums
  <2>2. CASE BeginCopy(b)
    BY <2>2, BeginCopySums
  <2>3. QED  BY <2>1, <2>2, SumsRest DEF LoadRests
<1>3. job[b].pc \in Holding => Scanned(b)' = Scanned(b)
  BY <1>1 DEF Scanned, SameRoot
<1>4. \A t \in Target : Due(b, t)' = Due(b, t) /\ Early(b, t)' = Early(b, t)
  BY <1>1, <1>2, <1>3 DEF Due, Early, Holds
<1>5. CASE BeginCopy(b)
  <2>1. job[b].pc \in Holding /\ job'[b].pc = "copying"
    BY <1>5, GoesOn DEF At, Holding
  <2>2. sums'[b].length = Scanned(b)'.size
    BY <1>3, <1>5, <2>1, BeginCopySums, ScannedIsStat
  <2>3. Scanned(b)'.size \in Nat
    BY <1>3, <2>1, HasPath DEF StatRecord
  <2>4. sums'[b].length <= Scanned(b)'.size /\ ~ At(b, "version")'
    BY <2>1, <2>2, <2>3 DEF At
  <2>5. QED  BY <1>1, <1>4, <2>4 DEF Charged, Cap
<1>6. CASE ~ BeginCopy(b)
  <2>1. CASE job[b].pc \notin Holding
    BY <1>1, <1>4, <2>1 DEF Charged, Cap, At, Holding
  <2>2. CASE InsertBlock(b)
    BY <1>1, <1>4, <2>2, GoesOn DEF Charged, Cap, At
  <2>3. CASE BumpRef(b)
    <3>1. job[b].pc = "bump" /\ job'[b].pc = "version"
      BY <2>3, GoesOn DEF At
    <3>2. sums'[b].fresh = 0
      BY <1>2, <3>1 DEF Balanced, At
    <3>3. Scanned(b)'.size \in Nat
      BY <1>3, <3>1, HasPath DEF StatRecord, Holding
    <3>4. sums'[b].fresh <= Scanned(b)'.size /\ ~ At(b, "copying")'
      BY <3>1, <3>2, <3>3 DEF At
    <3>5. QED  BY <1>1, <1>4, <3>4 DEF Charged, Cap
  <2>4. InsertBlock(b) \/ BumpRef(b) \/ job[b].pc \notin Holding
    <3>1. CASE End(b) \/ (\E r \in Root : ListRoot(b, r)) \/ EndRoot(b) \/ GiveUp(b)
      BY <3>1, Outside DEF At, Holding
    <3>2. CASE TurnEnds(b)
      BY <3>2, EndsWhere DEF At, Holding
    <3>3. CASE \E f \in File : Compare(b, f)
      BY <3>3, TurnBegins DEF Compare, At, Holding
    <3>4. CASE Uncounted(b)
      BY <3>4, BeforeLoop DEF Uncounted, At, Holding
    <3>5. QED  BY <1>6, <3>1, <3>2, <3>3, <3>4 DEF LoadRests
  <2>5. QED  BY <2>1, <2>2, <2>3, <2>4
<1>7. QED  BY <1>5, <1>6

LEMMA ChargedStep ==
  ASSUME TypeInv, LoadTyped, BooksTyped, BytesInv, Acquired, NEW b \in Backups,
         ScanRests(b), Charged(b), SessionStep(b)
  PROVE  Charged(b)'
<1>1. SumsTyped /\ SumsTyped' /\ Balanced(b)
  BY BooksTypedStep DEF BooksTyped, BytesInv
<1>2. CASE Begin(b) \/ Die(b)
  <2>1. load'[b] = NoLoad
    BY <1>2, LoadMoves DEF Begin, Die
  <2>2. job'[b].pc \notin Holding
    BY <1>2, Outside, IdleFacts DEF Holding
  <2>3. \A t \in Target : load'[b].written[t] = 0 /\ load'[b].put[t] = 0 /\ load'[b].left[t] = 0
    BY <2>1 DEF NoLoad, Nowhere
  <2>4. \A t \in Target : Quota[t] # None => 0 <= Cap(t)
    BY CapOK
  <2>5. QED  BY <2>2, <2>3, <2>4, NothingDue
<1>3. QED
  BY <1>1, <1>2, LoadSplit, ChargedHash, ChargedCopy, ChargedEnds, ChargedFails, ChargedRests
     DEF TurnGivesBack

-----------------------------------------------------------------------------
(* Part 8: the theorems. *)

(* The inductive invariant of the books, but for the quotas. *)
BooksInv ==
  /\ TypeInv
  /\ LoadTyped /\ Acquired
  /\ BooksTyped
  /\ BytesInv
  /\ CountInv
  /\ RowsInv

LEMMA BooksInit == SessionInit => BooksInv
<1> SUFFICES ASSUME SessionInit PROVE BooksInv
  OBVIOUS
<1>1. TypeInv
  BY InitTypes DEF SessionInit
<1>2. /\ \A b \in Backups : job[b] = Idle /\ load[b] = NoLoad
      /\ \A b \in Backups : sums[b] = NoSums /\ tracker[b] = NoTracker
      /\ rows = << >> /\ sessionOf = << >> /\ session = << >> /\ lastVersion = 0
  BY DEF SessionInit, Init, EngineInit, StoreInit
<1>3. LoadTyped /\ Acquired
  BY <1>2, NoLoadOK, IdleFacts DEF SessionInit, LoadTyped, Acquired, Holds, Holding
<1>4. BooksTyped
  BY NothingYet DEF SessionInit, BooksTyped, SumsTyped, TrackerTyped
<1>5. BytesInv
  BY <1>2, NothingYet DEF BytesInv, Balanced
<1>6. CountInv
  BY <1>2, IdleFacts DEF CountInv, Counted, At, InLoop, Turning, Holding
<1>7. RowsInv
  <2>1. \A b \in Backups : ~ Open(b)
    BY <1>2, IdleFacts DEF Open, At
  <2>2. DOMAIN session = {} /\ DOMAIN sessionOf = {}
    BY <1>2
  <2>3. rows \in Seq(Row) /\ Len(rows) = Len(session)
    BY <1>2
  <2>4. SessionsOpen /\ OwnSession /\ SumsCover
    BY <2>1 DEF SessionsOpen, OwnSession, SumsCover, Covered
  <2>5. VersionsNamed /\ RowCounts
    BY <2>2 DEF VersionsNamed, RowCounts
  <2>6. \A b \in Backups : NothingCounted(b)
    BY <1>2, NothingYet DEF NothingCounted
  <2>7. QED  BY <2>3, <2>4, <2>5, <2>6 DEF RowsInv
<1>8. QED  BY <1>1, <1>3, <1>4, <1>5, <1>6, <1>7 DEF BooksInv

(* What nobody who is not a backup touches. *)
LEMMA ElsewhereRests ==
  ASSUME Elsewhere \/ UNCHANGED sessionVars
  PROVE  UNCHANGED <<job, load, sums, tracker, rows, sessionOf, session, lastVersion>>
<1>1. UNCHANGED <<job, books>>
  BY DEF Elsewhere, sessionVars, vars
<1>2. ASSUME NEW g \in Gcs, GcStep(g)
      PROVE  UNCHANGED <<session, lastVersion>>
  BY <1>2 DEF GcStep, GcWork, StartGc, GcVersion, GcVersionFails, GcRemove, GcRemoveFails,
     GcAborts, GcTracked, VerifierCrash, Decrement, DecStep, DecFails, storeVars, storeButDec
<1>3. ASSUME NEW c \in Checks, CheckStep(c)
      PROVE  UNCHANGED <<session, lastVersion>>
  BY <1>3 DEF CheckStep, CheckWork, StartCheck, ExamineBlock, CheckAborts, AllExamined,
     CleanBlock, CheckDone, VerifierCrash, Decrement, DecStep, DecFails, storeVars, storeButDec
<1>4. UNCHANGED <<session, lastVersion>>
  BY <1>2, <1>3 DEF Elsewhere, SourceStep, Rest, sessionVars, vars, storeVars
<1>5. QED  BY <1>1, <1>4 DEF books

LEMMA BooksOfOthers ==
  ASSUME BooksInv, NEW b \in Backups, SessionStep(b)
  PROVE  \A c \in Backups : c # b =>
           /\ job'[c] = job[c] /\ load'[c] = load[c]
           /\ sums'[c] = sums[c] /\ tracker'[c] = tracker[c]
BY JobsOfOthers, AcquiredStep, BooksTypedStep DEF BooksInv, BooksTyped, OthersKeep

LEMMA BooksNext == BooksInv /\ [SessionNext]_sessionVars => BooksInv'
<1> SUFFICES ASSUME BooksInv, [SessionNext]_sessionVars PROVE BooksInv'
  OBVIOUS
<1>1. TypeInv'
  BY NextIsVault, NextTypes DEF BooksInv
<1>2. ASSUME NEW b \in Backups, SessionStep(b)
      PROVE  BooksInv'
  <2>1. \A c \in Backups : c # b =>
           /\ job'[c] = job[c] /\ load'[c] = load[c]
           /\ sums'[c] = sums[c] /\ tracker'[c] = tracker[c]
    BY <1>2, BooksOfOthers
  <2>2. LoadTyped' /\ Acquired'
    BY <1>2, AcquiredStep DEF BooksInv, BooksTyped
  <2>3. BooksTyped'
    BY <1>2, BooksTypedStep DEF BooksInv
  <2>4. BytesInv'
    <3>1. Balanced(b)'
      BY <1>2, BalancedStep DEF BooksInv
    <3>2. ASSUME NEW c \in Backups, c # b
          PROVE  Balanced(c)'
      BY <2>1, <3>2 DEF BooksInv, BytesInv, Balanced, At
    <3>3. QED  BY <3>1, <3>2 DEF BytesInv
  <2>5. CountInv'
    <3>1. Counted(b)'
      BY <1>2, CountedStep DEF BooksInv
    <3>2. ASSUME NEW c \in Backups, c # b
          PROVE  Counted(c)'
      BY <2>1, <3>2 DEF BooksInv, CountInv, Counted, At, Listed
    <3>3. QED  BY <3>1, <3>2 DEF CountInv
  <2>6. RowsInv'
    BY <1>2, RowsStep DEF BooksInv
  <2>7. QED  BY <1>1, <2>2, <2>3, <2>4, <2>5, <2>6 DEF BooksInv
<1>3. CASE Elsewhere \/ UNCHANGED sessionVars
  <2>1. UNCHANGED <<job, load, sums, tracker, rows, sessionOf, session, lastVersion>>
    BY <1>3, ElsewhereRests
  <2>2. LoadTyped' /\ Acquired'
    BY <2>1 DEF BooksInv, LoadTyped, Acquired, Holds
  <2>3. BooksTyped' /\ BytesInv' /\ CountInv'
    BY <2>1 DEF BooksInv, BooksTyped, SumsTyped, TrackerTyped, BytesInv, Balanced, CountInv,
       Counted, At
  <2>4. RowsInv'
    BY <2>1 DEF BooksInv, RowsInv, SessionsOpen, OwnSession, VersionsNamed, SumsCover, Covered, Own,
       NothingCounted, RowCounts, VersionsIn, Open, At
  <2>5. QED  BY <1>1, <2>2, <2>3, <2>4 DEF BooksInv
<1>4. QED  BY <1>2, <1>3 DEF SessionNext

LEMMA BooksAlways == SessionSpec => []BooksInv
BY BooksInit, BooksNext, PTL DEF SessionSpec

(* The state of a session, the books and the rows keep their types.        *)
THEOREM BooksTypeCorrect == SessionSpec => []SessionTypeOK
<1>1. BooksInv => SessionTypeOK
  <2> SUFFICES ASSUME BooksInv PROVE SessionTypeOK
    OBVIOUS
  <2>1. lastVersion \in Nat /\ Len(session) \in Nat
    BY SessionTypes DEF BooksInv
  <2>2. \A n \in Nat : \A k \in 1 .. n : k \in Nat
    OBVIOUS
  <2>3. RowsTyped
    BY <2>1, <2>2 DEF BooksInv, RowsInv, VersionsNamed, RowsTyped
  <2>4. QED
    BY <2>3 DEF BooksInv, TypeInv, LoadTyped, BooksTyped, SumsTyped, TrackerTyped, RowsTyped,
       SessionTypeOK
<1>2. QED  BY <1>1, BooksAlways, PTL

(* Every way out of a turn of the loop releases the target that            *)
(* select_target gave it, and once, whatever fails in between (engine.rs). *)
THEOREM TargetsReleased == SessionSpec => []Acquired
<1>1. BooksInv => Acquired
  BY DEF BooksInv
<1>2. QED  BY <1>1, BooksAlways, PTL

(* The window's written bytes are those that run() adds up for its         *)
(* session's row, through every failure (engine.rs, progress.rs).          *)
THEOREM ShownIsBooked == SessionSpec => []BytesAgree
<1>1. BooksInv => BytesAgree
  BY DEF BooksInv, BytesInv, Balanced, BytesAgree
<1>2. QED  BY <1>1, BooksAlways, PTL

(* The loop of backup_root counts every listed file, by each of its ways   *)
(* on to the next one (engine.rs, progress.rs).                            *)
THEOREM LoopCountsFiles == SessionSpec => []EveryFileDone
<1>1. BooksInv => EveryFileDone
  <2> SUFFICES ASSUME BooksInv, NEW b \in Backups, job[b].pc \in InLoop
               PROVE  tracker[b].done + Cardinality(job[b].todo) + (IF At(b, "file") THEN 0 ELSE 1)
                        = tracker[b].base + tracker[b].total
    BY DEF EveryFileDone
  <2>1. Counted(b) /\ tracker[b].done \in Nat /\ Cardinality(job[b].todo) \in Nat
    BY TodoFinite DEF BooksInv, CountInv, BooksTyped, TrackerTyped, Tracker
  <2>2. CASE At(b, "file")
    BY <2>1, <2>2 DEF Counted
  <2>3. CASE ~ At(b, "file")
    BY <2>1, <2>3 DEF Counted, Turning, At
  <2>4. QED  BY <2>2, <2>3
<1>2. QED  BY <1>1, BooksAlways, PTL

(* The row of a session that has ended counts all the versions that name   *)
(* it, though other sessions record theirs meanwhile (engine.rs).          *)
THEOREM RowsCoverVersions == SessionSpec => []RowCounts
<1>1. BooksInv => RowCounts
  BY DEF BooksInv, RowsInv
<1>2. QED  BY <1>1, BooksAlways, PTL

LEMMA QuotaInit == SessionInit => QuotaInv
<1> SUFFICES ASSUME SessionInit, NEW b \in Backups PROVE ScanRests(b) /\ Charged(b)
  BY DEF QuotaInv
<1>1. job[b] = Idle /\ load[b] = NoLoad
  BY DEF SessionInit, Init, EngineInit
<1>2. \A t \in Target : load[b].written[t] = 0 /\ load[b].put[t] = 0 /\ load[b].left[t] = 0
  BY <1>1 DEF NoLoad, Nowhere
<1>3. \A t \in Target : Due(b, t) = 0 /\ Early(b, t) = 0
  BY <1>1, IdleFacts DEF Due, Early, Holds, Holding
<1>4. \A t \in Target : Quota[t] # None => 0 <= Cap(t)
  BY CapOK
<1>5. ScanRests(b)
  BY <1>1, IdleFacts DEF ScanRests, Open, At
<1>6. QED  BY <1>1, <1>2, <1>3, <1>4, <1>5, IdleFacts DEF Charged, At

(* While the sources rest, what was listed is what is there. *)
LEMMA QuotaNext ==
  ASSUME "live" \notin Faults
  PROVE  BooksInv /\ QuotaInv /\ [SessionNext]_sessionVars => QuotaInv'
<1> SUFFICES ASSUME BooksInv, QuotaInv, [SessionNext]_sessionVars, NEW c \in Backups
             PROVE  ScanRests(c)' /\ Charged(c)'
  BY DEF QuotaInv
<1>1. ScanRests(c) /\ Charged(c)
  BY DEF QuotaInv
<1>2. ASSUME job'[c] = job[c], load'[c] = load[c], sums'[c] = sums[c]
      PROVE  Charged(c)' /\ (source' = source => ScanRests(c)')
  BY <1>1, <1>2 DEF Charged, Due, Early, Holds, Scanned, At, Cap, ScanRests, Open, Stat
<1>3. ASSUME NEW b \in Backups, SessionStep(b)
      PROVE  ScanRests(c)' /\ Charged(c)'
  <2>1. CASE b = c
    BY <1>1, <1>3, <2>1, ScanRestsStep, ChargedStep DEF BooksInv
  <2>2. CASE b # c
    BY <1>2, <1>3, <2>2, BooksOfOthers, SourceStays
  <2>3. QED  BY <2>1, <2>2
<1>4. CASE Elsewhere \/ UNCHANGED sessionVars
  <2>1. job' = job /\ load' = load /\ sums' = sums
    BY <1>4, ElsewhereRests
  <2>2. source' = source \/ At(c, "idle")
    <3>1. ASSUME NEW g \in Gcs, GcStep(g)
          PROVE  source' = source
      BY <3>1 DEF GcStep, GcWork, StartGc, GcVersion, GcVersionFails, GcRemove, GcRemoveFails,
         GcAborts, GcTracked, VerifierCrash, Decrement, fileVars
    <3>2. ASSUME NEW k \in Checks, CheckStep(k)
          PROVE  source' = source
      BY <3>2 DEF CheckStep, CheckWork, StartCheck, ExamineBlock, CheckAborts, AllExamined,
         CleanBlock, CheckDone, VerifierCrash, Decrement, fileVars
    <3>3. CASE SourceStep
      BY <3>3 DEF SourceStep
    <3>4. CASE Rest \/ UNCHANGED sessionVars
      BY <3>4 DEF Rest, sessionVars, vars, fileVars
    <3>5. QED  BY <1>4, <3>1, <3>2, <3>3, <3>4 DEF Elsewhere
  <2>3. Charged(c)' /\ (source' = source => ScanRests(c)')
    BY <1>2, <2>1
  <2>4. At(c, "idle") => ScanRests(c)'
    BY <2>1 DEF ScanRests, Open, At
  <2>5. QED  BY <2>2, <2>3, <2>4
<1>5. QED  BY <1>3, <1>4 DEF SessionNext

(* While the sources rest, a run writes to a target no more than its quota *)
(* and what its failed copies left there: select_target has charged every  *)
(* other file before with at least what was written of it, and asks for    *)
(* room for the next (balancer.rs, engine.rs).                             *)
THEOREM QuotaIsKept ==
  ASSUME "live" \notin Faults
  PROVE  SessionSpec => []QuotaKept
<1>1. BooksInv /\ QuotaInv => QuotaKept
  <2> SUFFICES ASSUME BooksInv, QuotaInv, NEW b \in Backups, NEW t \in Target, Quota[t] # None
               PROVE  load[b].put[t] <= Cap(t) + load[b].left[t]
    BY DEF QuotaKept, Cap
  <2>1. /\ load[b].written[t] \in Nat /\ load[b].put[t] \in Nat /\ load[b].left[t] \in Nat
        /\ Cap(t) \in Nat /\ sums[b].fresh \in Nat
    BY LoadNats, CapOK DEF BooksInv, BooksTyped
  <2>2. /\ load[b].written[t] + Due(b, t) <= Cap(t)
        /\ load[b].put[t] <= load[b].written[t] + Early(b, t) + load[b].left[t]
    BY DEF QuotaInv, Charged
  <2>3. CASE ~ Holds(b, t)
    BY <2>1, <2>2, <2>3 DEF Due, Early
  <2>4. CASE Holds(b, t)
    <3>1. Scanned(b).size \in Nat
      BY <2>4, HasPath DEF Holds, BooksInv, StatRecord
    <3>2. sums[b].fresh <= Scanned(b).size
      <4>1. CASE At(b, "version")
        BY <4>1 DEF QuotaInv, Charged
      <4>2. CASE ~ At(b, "version")
        BY <3>1, <4>2 DEF BooksInv, BytesInv, Balanced
      <4>3. QED  BY <4>1, <4>2
    <3>3. Due(b, t) = Scanned(b).size /\ Early(b, t) = sums[b].fresh
      BY <2>4 DEF Due, Early
    <3>4. QED  BY <2>1, <2>2, <3>1, <3>2, <3>3
  <2>5. QED  BY <2>3, <2>4
<1>2. SessionInit => QuotaInv
  BY QuotaInit
<1>3. BooksInv /\ QuotaInv /\ [SessionNext]_sessionVars => QuotaInv'
  BY QuotaNext
<1>4. QED  BY <1>1, <1>2, <1>3, BooksAlways, PTL DEF SessionSpec

(* Where no copy can fail a run leaves nothing at a target, ... *)
NothingLeft == \A b \in Backups, t \in Target : load[b].left[t] = 0

LEMMA LeavesNothing ==
  ASSUME Faults \cap {"source", "disk", "live"} = {}
  PROVE  BooksInv /\ QuotaInv /\ NothingLeft /\ [SessionNext]_sessionVars => NothingLeft'
<1> SUFFICES ASSUME BooksInv, QuotaInv, NothingLeft, [SessionNext]_sessionVars,
                    NEW c \in Backups, NEW t \in Target
             PROVE  load'[c].left[t] = 0
  BY DEF NothingLeft
<1>1. load[c].left[t] = 0
  BY DEF NothingLeft
<1>2. ASSUME NEW b \in Backups, SessionStep(b)
      PROVE  load'[c].left[t] = 0
  <2>1. CASE b # c
    BY <1>1, <1>2, <2>1, BooksOfOthers
  <2>2. CASE b = c
    <3>1. ~ CopyError(c)
      <4> SUFFICES ASSUME CopyError(c) PROVE FALSE
        OBVIOUS
      <4>1. At(c, "copy") /\ job[c].file \notin DOMAIN source
        BY DEF CopyError, CopyFails
      <4>2. ScanRests(c) /\ Open(c) /\ job[c].pc \in Holding /\ Scanned(c) # None
        <5>1. job[c].pc \in Holding /\ Open(c)
          BY <4>1 DEF At, Holding, Open
        <5>2. Scanned(c) # None
          BY <5>1, HasPath, SessionAssumption DEF BooksInv
        <5>3. QED  BY <5>1, <5>2 DEF QuotaInv
      <4>3. job[c].file \in File
        BY <4>2, HasPath DEF BooksInv
      <4>4. QED  BY <4>1, <4>2, <4>3 DEF ScanRests, Scanned
    <3>2. CASE Begin(c) \/ Die(c)
      <4>1. load'[c] = NoLoad
        BY <3>2, LoadMoves DEF Begin, Die, BooksInv
      <4>2. QED  BY <4>1 DEF NoLoad, Nowhere
    <3>3. CASE HashNew(c)
      <4> DEFINE u == job'[c].path.target
      <4>1. Acquire(c, u) /\ job[c].pc \notin Holding /\ u \in Target
        BY <3>3, TakesTarget DEF HashNew, Holding, At, BooksInv
      <4> HIDE DEF u
      <4>2. load'[c].left = load[c].left
        BY <4>1, AcquireOK DEF BooksInv
      <4>3. QED  BY <1>1, <4>2
    <3>4. CASE EndCopy(c)
      BY <1>1, <3>4, EndCopyLoad DEF BooksInv, BooksTyped
    <3>5. CASE UpsertFails(c) \/ TurnSettles(c)
      <4>1. job[c].pc \in Holding
        BY <3>5, EndsWhere DEF At, Holding, TurnGivesBack
      <4>2. Scanned(c).size \in Nat
        BY <4>1, HasPath DEF BooksInv, StatRecord
      <4>3. PICK n \in Nat : Release(c, n)
        <5>1. CASE UpsertFails(c)
          BY <5>1 DEF UpsertFails, GiveBack
        <5>2. CASE TurnSettles(c)
          BY <4>2, <5>2 DEF TurnSettles, Record, RecordFails, Settle
        <5>3. QED  BY <3>5, <5>1, <5>2
      <4>4. load'[c].left = load[c].left
        BY <4>1, <4>3, ReleaseOK DEF BooksInv
      <4>5. QED  BY <1>1, <4>4
    <3>6. CASE LoadRests(c)
      BY <1>1, <3>6, RestingLoad DEF BooksInv
    <3>7. QED
      BY <1>2, <2>2, <3>1, <3>2, <3>3, <3>4, <3>5, <3>6, LoadSplit DEF TurnGivesBack
  <2>3. QED  BY <2>1, <2>2
<1>3. CASE Elsewhere \/ UNCHANGED sessionVars
  BY <1>1, <1>3, ElsewhereRests
<1>4. QED  BY <1>2, <1>3 DEF SessionNext

(* ... so that the quota is the limit of what a run writes (balancer.rs).  *)
THEOREM QuotaIsLimit ==
  ASSUME Faults \cap {"source", "disk", "live"} = {}
  PROVE  SessionSpec =>
           [](\A b \in Backups, t \in Target :
                Quota[t] # None => load[b].put[t] <= IF Quota[t] > 0 THEN Quota[t] ELSE 0)
<1> DEFINE Limit == \A b \in Backups, t \in Target :
                      Quota[t] # None => load[b].put[t] <= IF Quota[t] > 0 THEN Quota[t] ELSE 0
<1>1. BooksInv /\ QuotaKept /\ NothingLeft => Limit
  <2> SUFFICES ASSUME BooksInv, QuotaKept, NothingLeft,
                      NEW b \in Backups, NEW t \in Target, Quota[t] # None
               PROVE  load[b].put[t] <= Cap(t)
    BY DEF Cap
  <2>1. load[b].put[t] <= Cap(t) + load[b].left[t] /\ load[b].left[t] = 0 /\ Cap(t) \in Nat
    BY CapOK DEF QuotaKept, NothingLeft, Cap
  <2>2. QED  BY <2>1
<1>2. SessionInit => QuotaInv /\ NothingLeft
  <2>1. SessionInit => NothingLeft
    BY DEF SessionInit, NoLoad, Nowhere, NothingLeft
  <2>2. QED  BY <2>1, QuotaInit
<1>3. BooksInv /\ QuotaInv /\ NothingLeft /\ [SessionNext]_sessionVars => QuotaInv' /\ NothingLeft'
  BY QuotaNext, LeavesNothing
<1>4. SessionSpec => []QuotaKept
  BY QuotaIsKept
<1> HIDE DEF Limit
<1>5. SessionSpec => []Limit
  BY <1>1, <1>2, <1>3, <1>4, BooksAlways, PTL DEF SessionSpec
<1>6. QED  BY <1>5 DEF Limit
=============================================================================
