# Formal models of TimeMachine (timemachine-rust)

TimeMachine is a backup program: it walks *backup roots* (local directories or
directories served by another TimeMachine over TCP), stores every distinct
content once as a *block file* below one of several *targets*, and keeps the
metadata in one SQLite database. Commands and a desktop window start backups,
garbage collections and checks as asynchronous tasks.

This directory holds TLA+ models of that program, the TLC configurations that
check them, and TLAPS proofs. Paths below are relative to the repository.

## 1. Inventory

| Part | State | Operations | Correct when |
|---|---|---|---|
| Metadata store: `src/store/sqlite.rs`, `migrations/001_init.sql` | the tables `backup_root`, `backup_target`, `tracked_file`, `content_block`, `file_version`, `backup_session` | one method per statement or pair of statements; no method opens a transaction | a row of `content_block` leads to its bytes while a version names it; `ref_count` covers the versions; ids are never reused |
| Backup engine: `src/engine.rs` | locals of `run` and `backup_root`: listing, ids, latest versions, the loop's file, counts of files and bytes | session, listing, tracking, comparison, hash, target, upsert, copy, version | a version it recorded can be restored; a backup that completed has a version of every file; a file that fails holds up nothing else; its counts agree with what it did; it ends |
| Differ, hasher: `src/differ.rs`, `src/hasher.rs` | none | `check_changed`; `compute_hash` | a change is noticed |
| Copier: `src/copier.rs` | block files below the targets | `build_rel_path`, `copy_file` | no two copies share a path |
| Balancer: `src/balancer.rs` | writes under way and bytes charged to each target, in this run | `select_target`, `acquire`, `release` | what is acquired is released once; a run puts no more on a target than its quota, but for what its failed copies leave |
| Verifier: `src/verifier.rs` | the rows it loaded before it began | `check_data` (check), `delete_by_root` (gc) | it removes no file that a row names; gc of the last root leaves nothing |
| Network: `src/network/` | one TCP stream of frames, the client's mutex, the server's task of the connection | `list_files`, `hash_file`, `copy_file_to`, `ping`; `handle_connection`, `resolve_path` | each reply is taken by the call it answers; a copy that is Ok is the whole file |
| Window: `src/gui.rs`, `src/progress.rs` | lists, `backup_running`, message channel, tasks, `ProgressTracker`, the two messages shown | frames, buttons, `process_messages`, tasks | one backup at a time; its end comes to the screen; its message and its state agree; counts are its own |
| Commands: `src/main.rs`, `src/cli.rs` | none | one process per command | commands do not harm each other |
| Configuration, errors, types: `src/config.rs`, `src/error.rs`, `src/model.rs`, `src/lib.rs` | none | parsing | - |

How they interact. A backup calls the store, a file source (local or remote),
the balancer and the copier, one `await` after the other; gc and check call the
store and the file system. Several processes (commands) and tasks (window) run
at once on one database and the same targets, and *nothing in the code keeps two
of them apart*: no lock, no transaction, no generation. The window's thread and
its tasks share the progress tracker and one mpsc channel.

What is hard in it: the interleaving of statements of several processes on
`content_block`; file operations before and after the statement that justifies
them; failures and deaths between two steps, after which nothing recovers; a
wire protocol without request ids; a window that hears of its tasks by messages
only. `PROJECT.json` lists each hazard at its line, with the properties for it
or the reason there is none.

## 2. Modules

    Store ── Files ─┬─ Engine ───┐         Archive (abstract vault)
                    └─ Verifier ─┴─ Vault ─┬─ MCVault
                                           ├─ VaultProofs ──┬─ VaultSteps ─┬─ RestoreProofs
                                           │                │              └─ RefCountProofs
                                           └─ Session ─┬────┴─ SessionProofs
                                                       └─ MCSession
    Source (abstract) ── Remote ─┬─ MCRemote         Window ─┬─ MCWindow
                                 └─ RemoteProofs             └─ WindowProofs

**Store** (`sqlite.rs`, `001_init.sql`). Tables as sets and functions. Each SQL
statement is an operator and commits on its own: `upsert_content_block` is
`InsertOrIgnore` and then `AddRef`; `decrement_block_ref` is a call with a
program counter (`dec`) through `DecUpdate`, `DecSelect`, `DecDelete`. UNIQUE,
PRIMARY KEY and foreign keys (sqlx turns them on) are guards: where the guard is
false, the statement is refused and the caller's error path is taken.
AUTOINCREMENT counters are kept apart from the rows.

**Files** (`copier.rs`, local file sources). Source files `[hash, mtime]` that a
user edits and removes, and block files `[content, whole]`. A copy is two steps,
creation and completion, so others run, and the process dies, in between.
`BuildPath` is `build_rel_path`: hash and milliseconds.

**Engine** (`engine.rs`). One action per await of `run`/`backup_root`; `job[b]`
holds the locals. `StatementFails`, `RootFails`, `HashFails`, `CopyFails`,
`BackupCrash` are its error paths (`continue`, `?`) and the death of the process.

**Verifier** (`verifier.rs`). `gc[g]` and `chk[c]` hold the plan that was loaded
at the start. Each statement and each `remove_file` is a step.

**Vault** composes them: any set of backups, collections and checks, side by
side. It states the properties and the inductive invariant `IInv`.
**Archive** is the abstract specification of a vault, three variables and three
actions: keep a version under a number never used before, complete versions,
forget one version, no other version ever suffering. `Vault` implements it
under `kept <- version`, `good <- {v : Restorable(v)}`, `last <- lastVersion`.

**Session** (`balancer.rs`, the counts of `engine.rs`, `progress.rs`) extends the
vault by the books of a backup: the balancer's `TargetStats`, the counts of
`run` and `backup_root`, the tracker, the rows of `backup_session`. Each of its
actions is an action of `Engine` *and* what that place of the code does to the
books, so that a session is a behaviour of the vault. Where `Engine` lets any
target be chosen, `HashNew` takes the one that `select_target` selects. What the
code does there, and the model with it: the space factor of a score is a number
divided by itself, so that a score only tells apart the writes under way, and the
first target with room wins; a target is charged with the *listed* size when
the turn ends well, and with nothing when it fails, whatever it left behind;
deduplicated files are charged too; the charge starts at 0 with every run; free
space is 0 except on Windows, so that there a target without a quota takes only
empty files.

**Remote** (`network/`). Client and server's task on one connection, two bounded
queues of frames. The kinds of frames are what the client's parsing tells apart
(`hash` passes for a `header` because only `ok` is looked at; while it copies,
every non-empty frame is data). The field `of` of a frame and `torn` are history
for the properties. `Resolve` is `resolve_path` with `Path::join` on either
platform. A file has one length, in frames, or several: then somebody writes to
it while it is sent, and each read finds more of it or its end, as long as it is
just then (`Reaches`, `Stops`).
**Source** is the abstract specification that `Remote` implements: the trait
`FileSource` as a backup sees it, without frames or server. A file is asked for
once; a call fails or returns the file's own; nothing is held of a file but by a
copy that was asked for; and nothing at all is promised once a copy gave up half
way (`broken <- torn`).

**Window** (`gui.rs`, `progress.rs`). A frame is `App::ui`: it begins
(`BeginFrame`), takes in every message that is there (`process_messages`, one
action per message), and is drawn (`Draw`), with at most one button pressed in
it. `info` and `error` say whose text `info_msg` and `error_msg` hold: every kind
of message writes into them, so that the text about a backup may be replaced
before any frame shows it. `screen` is the tracker's state as the last frame
showed it; a frame that starts a backup shows "running", since the buttons are
drawn before the progress. Tasks go up to the message they send; the rows of
`backup_root` and `backup_target` may repeat; the tracker's calls are as in
`progress.rs`. `run()` of the engine is seen from the tracker here: roots, files,
end.

**VaultProofs**, **RestoreProofs**, **RefCountProofs**, **SessionProofs**,
**RemoteProofs**, **WindowProofs**: theorems. **VaultSteps**: what a single step of
the vault leaves alone, for the proofs about it. **MC\***: constants for TLC.

## 3. Runs

| Run | Question | Result |
|---|---|---|
| `sound` | Can every recorded version be restored, when one backup runs at a time, copies succeed and sources rest meanwhile, with a collection and a check beside it? And has a backup that completed, before anybody collected or checked, a version of every file? | `AllRestorable`, `CompletedIsBackedUp` hold |
| `faults` | Whatever fails, dies or changes: is what is restorable kept until it is deleted? | `TypeOK`, `RestorableStays`, `ArchiveSpec` hold |
| `concurrent` | Two backups, two collections, a check: who may use which path? | `IInv`, `RemovalIsOrphan` hold |
| `refcount` | Does `ref_count` ever fall below the versions, with failing statements and dying processes? | `RefCountCovers` holds for one backup and one collection; proved for these and for any number of backups without a collection |
| `ends` | Does every command end, whatever statement fails, with a file whose copy fails before another of its content? | `RunsEnd` holds |
| `session` | Do the books of a backup agree, whatever fails: targets acquired and released, the quota, every file counted, bytes shown and booked, the row's count and the versions? | `SessionTypeOK`, `Acquired`, `QuotaKept`, `EveryFileDone`, `BytesAgree`, `RowCounts` hold |
| `wire` | Do client and server stay in step, are copies whole, is the remote source a source, does the backup end? | `TypeOK`, `IInv`, `InStep`, `OwnAnswersInStep`, `CopiesAreWhole`, `ListedIsFound`, `SourceSpec`, `RemoteEnds` hold |
| `window` | One backup, a tracker that agrees with the button and with the messages, own counts, an end that comes to the screen? | `TypeOK`, `OneBackup`, `TrackerAgrees`, `TellsTheSame`, `CompletedCounts`, `BackupIsTold` hold |
| `ghost` | `AllRestorable` with copies that fail | violated (finding 1) |
| `leftover` | Does a collection of the only root leave nothing? | `AllDataDeleted` violated (finding 2) |
| `desync` | Own answers after the client failed to write? | violated (finding 3) |
| `unixpath` | Are listed paths found on Unix? | violated (finding 4) |

Findings.
1. When a copy fails, `engine.rs:241-246` goes on and leaves the committed
   `content_block` row. The next file of that content is "not new", is not
   copied, and its version is recorded: it can never be restored.
2. `gc` "deletes all the data of the given root" (`cli.rs:33`), but it finds
   blocks by the root's versions alone (`verifier.rs:122`). What a failed copy left
   behind, the row of finding 1 with a count of 1 and perhaps a part of its file,
   belongs to no version: the collection of the only root ends Ok, the row is
   still there, and no later collection meets it.
3. After a failed create or write, `copy_file_to` leaves the rest of the answer
   on the stream that the source keeps (`client.rs:158-171`). Later calls fail
   on it, and `hash_file` may then return the hash of another file.
4. `scan_directory` lists absolute paths and `resolve_path` joins them to the
   root once more (`server.rs:119`): on Unix no file of a remote source with an
   absolute root can be hashed or copied.

`AllRestorable` is also not promised with two backups at once, with live
sources, or after a crash: the model shows all of these, for the reason of
finding 1 or because bytes are stored under a hash computed earlier. What does
hold in all of these is `RestorableStays`.

`CompletedIsBackedUp` is as weak as the code makes it: the version it promises
is one that size and mtime do not tell from the file, as `differ.rs:17` does not
(the model has such writes, and the mutant `UnchangedEither` shows what a
laxer comparison would lose), and it needs that no file fails, since a session
is completed when its *roots* did not fail (`engine.rs:88`). It is claimed only
until the first collection or check is started: these delete versions.

`QuotaKept` counts every byte that a run writes to a target (`put`), those of
copies that fail half way included. The code charges a failed copy with nothing
(`engine.rs:241-246`), so a run *can* write more to a target than its quota, and
does so in the run's states; the property says by how much: by what its failed
copies left there (`left`), and by nothing else. `QuotaIsLimit` adds that without
failing reads and writes the quota is the limit. Both speak of one run with sources
at rest: `session_bytes` starts anew with each run, against what "配额限制 (bytes)"
(a limit in bytes) in `cli.rs:53` might lead one to expect, and a file that grows
between listing and copy is charged with its old size.

`BackupIsTold` is about the state that `render_progress` shows, not about the
text "备份完成": a check's result, an added root or an error taken in for the same
frame replaces that text unseen (`gui.rs:206`, `211`, `221-225`), and `Tell`,
`Added`, `Verified`, `Erred` do so in the model. What holds of the texts is
`TellsTheSame`: one that is about a backup is about the last one, and says what
the tracker's state says.

### Bounds, and why they are enough

*Vault.* One or two files and two contents: two contents are what it takes for a
file to change and for two files to differ, two files (or two sessions of one)
for a block to be shared. Two roots in `sound` and `refcount` so that a
collection of one root meets blocks of the other. `MaxSessions` 2 elsewhere: a second
backup sees what the first left behind. `MaxRuns` 1 per process: the interesting
repetitions are those of two processes, which `concurrent` has (two collections
of one root with the same plan). `ends` has two files of one content and one
session: the second file is done after the first one failed, and finds its row. `MaxEdits` 1: a file changes, disappears, or
appears again after it was tracked. One target: a target is only a part of a
path. Symmetry over contents, files with their roots, backups and collections
in runs without liveness properties only; no action tells these apart.

*Session.* Two roots of one file each: the counts of a second root meet those of
the first, and a block is shared. Contents of size 1 and 2; a target with a
quota of 2, which the second file may no longer fit, and one with none on a disk
that is full or has room for one file, so that every outcome of `select_target`
occurs. Every fault; a user edits before the run. More backups, files
and targets are what the proofs are for: each of the six is proved.
*Remote.* Files of 0 and 2 frames, and one of 1 or 3 that grows and shrinks:
empty, more than a queue holds with its header, and an end that may come at
frame 2, 3 or 4. `Cap` 2: both sides block on full queues.
*Window.* Two roots so that the counters of a second root meet those of the
first; two clicks: a button pressed while the first task runs. The lists are empty, or
hold one row each, or two roots, and clicks may add to them.

### Fairness and deadlock

A started command is a task that its runtime keeps polling, so `Vault!FairSpec`
has weak fairness of each process's steps (not of starting one, of edits or of
crashes; a failure is one way its next step may turn out). `Remote!FairSpec`
lets both sides run on; connections break with an error that the other side
sees, and a peer that falls silent for ever without a reset is not in the model:
the code has no timeout, so nothing would end then. `Window!FairSpec` runs tasks,
and draws the window *only when the code asks for a frame* (`NeedRepaint`): that
is what makes `BackupIsTold` worth checking. Reloads and adds need a user who
touches the window, hence nothing is claimed of them. A frame that began takes in
what is there and is drawn (egui does not stop half way); the frame after a click
is asked for by egui itself, and `NeedRepaint` is then true anyway.

Deadlock is checked everywhere but in `wire`: after the client failed to write a
file, client and server may wait for each other for ever (no call has a
timeout). `RemoteEnds` says that this is the only way. `Rest` and `Ended` are
the regular ends: nobody runs a command, the connection is closed. The window can
always draw another frame.

## 4. Proofs

For every set of files, contents, targets, processes, faults and every bound.
From the assumptions named in the modules (`StoreAssumption`, `FilesAssumption`,
`EngineAssumption`, `VerifierAssumption`, `SessionAssumption`,
`RemoteAssumption`, `WindowAssumption`), which only type the constants
(`SessionAssumption` has files and targets finite, too), and `NoneIsNothing`: the
`None` of an `Option` is not one of its values. Further hypotheses stand in the
theorems.

**VaultProofs.**
`TypeCorrect`: `TypeOK` and `JobShape` (a backup has the locals that its place in
`backup_root` needs; without it a type is not inductive).
`Inductive`: `IInv`. The point is that the code protects a file not by a lock
but by never using a path twice. `RemovalIsOrphan` is not inductive alone; it
needs: every path in use was built before now (`PathsBuilt`), so a new path is
fresh (`FreshPaths`) until its row is inserted; two copies never share a path
(`OneWriter`); a row's path carries its own hash (`RowsNameTheirHash`), so that a
collection that deleted the row of the hash of its path leaves no row with that
path (`RemovesOrphans`), though another process may have inserted the hash anew
meanwhile, with another path.
`NoLiveFileRemoved` (`RemovalIsOrphan`), `RestorableForGood` (`RestorableStays`:
in addition, a row that a version names is never deleted, by the foreign key)
and `VaultIsArchive` (`ArchiveSpec`: step by step, with `IdsAscend`) follow.

**RestoreProofs.**
`VersionsRestorable` (`AllRestorable`). It needs that backups run one at a time
(`OneAtATime`, the rest of the behaviour is free), that no copy fails or dies and
that sources rest, which are the conditions without which TLC refutes it; statements
may fail anywhere, and any number of collections and checks run beside it. The
invariant `RestoreInv`: a row without its bytes is one whose copy is under way
(`RowsBacked`), by a backup that has yet to write the content it hashed
(`HashedIsCopied`). A version is recorded only behind that copy, or when the row
was there already; then, as no other backup runs, the row has its bytes.
`CompletedHasAll` (`CompletedIsBackedUp`), for any number of backups side by side.
Nothing may fail but a root that is offline (its session is then not completed) and a
process that dies. The invariant `BackInv` follows each running backup through its
root as long as nobody collected or checked (`Quiet`): its listing is what the
sources have (`ListingTrue`), its ids are those of the database (`Numbered`, which
needs that a path has one id, `TrackedOnce`), what it found as the latest version
is still the latest or was replaced by as good a one of another backup
(`Compared`), its path carries the hash of the file (`HashTrue`), and all files of
roots and turns that are over are `Done` (`Covers`). That `Done` is kept while
others record versions (`Grows`) is what makes it hold of several backups.

**RefCountProofs.**
`CountsCover` (`RefCountCovers`), under `OneCollector`: finitely many backups, no
check, and either no collection or one beside one backup; any faults. `RefInv` is an
account of references: the count of a row is at least its versions, plus the
backups that raised it and have yet to record (`Owing`), plus the collections that
deleted a version and have yet to lower it (`Taking`). It needs that the rows a
collection planned to delete are still there, each once (`PlanKept`), since a second
collection with the same plan would lower the count twice for one version; a check
lowers it for none. A collection beside two backups can drop a row between the
upsert's two statements of one of them, while the other inserts it anew; so the
counted row is known to be there only without a collection (`RowOwed`).

**SessionProofs.**
`SessionIsVault`: every behaviour with books is one of the vault, so the theorems
above hold of it. The books have an inductive invariant `BooksInv` of their own,
beside that of the vault's types: `Acquired`, from the place of each job
(`Holding`); `BytesInv`, which says where `fresh` may be other than 0, without
which `BytesAgree` breaks at the first way out of a turn; `CountInv`, which
relates the counts of a root to its listing all along the loop (Cardinality of
`todo`), and `RowsInv`, which relates the versions of every session, a running
one included, to the row and the counts still in memory of *its own* backup:
sessions of other backups record theirs meanwhile. `TargetsReleased`,
`LoopCountsFiles`, `ShownIsBooked`, `RowsCoverVersions` and `BooksTypeCorrect`
follow.
`QuotaIsKept` needs more: that sources at rest have the listed size when they
are copied (`ScanRests`), that the charge together with the size that the turn under
way was selected for stays within the quota (`Due`), and that what was put
exceeds what was charged by no more than the bytes of the turn under way
(`Early`) and those of failed copies (all in `Charged`): the charge comes when the
copy is already done, or never. It assumes `"live" \notin Faults`, without which
it is false. `QuotaIsLimit`: where in addition no read and no write fails nothing is
left (`NothingLeft`), since a listed file is still there when it is copied, and so
the quota bounds all that a run writes.

**RemoteProofs.**
`Inductive`: `IInv`, whose core `LockStep` says what may be on its way given how
far the client is: nothing (`Calm`), its request alone (`Pending`), at most one
frame about its file (`Single`), or a refusal or the next frames of the file in
order, up to where the server is (`Streamed`, `WrittenInOrder`), each of them one
that some length of the file allows (`IsFrame`), the end only as the last.
`StaysInStep`, `HashesAreOwn`, `OkMeansWhole` follow from it, and
`RemoteIsSource` (`SourceSpec`), step by step: what passes inside a call is a
stutter, and with the end of each call `IInv` says what it returns. It assumes
that `None` is no sequence, as TLC's model value is not;
`FoundOnWindows` shows `ListedIsFound` for Windows with an absolute root.

**WindowProofs.**
`WindowInductive`: `WindowInv`, for any lists of rows, clicks and files. The window
knows of its tasks only by messages, so `BackupOnce` says where the one backup may
be while `backup_running` is set: a task, or the task or the message that reports its
end, and only one of these. Tasks form a set and are told apart by `FreeId`
(`TasksApart`, by the pigeonhole principle over the finite set). `TrackerExact`:
the tracker says "running" exactly while a task is in `run()`; `CountsOwn`: what it
counted since `start` is what that task handled, from the reset on. `RowsFit` is
what the types need: rows are put into the list that they were loaded for. `Outcome`
follows the end of a backup: the task tells the tracker first, and as no other backup
can start until the window has heard of it, the message on its way still says what
the tracker says when it is taken in; until then neither text is about a backup,
since the start cleared both. From it `WindowTypeCorrect` (`TypeOK`),
`NeverTwoBackups` (`OneBackup`), `TrackerNeverStale` (`TrackerAgrees`),
`MessageAgrees` (`TellsTheSame`) and `CountIsOwn` (`CompletedCounts`).

So every invariant and action property of a passing run is proved, each inductive
invariant having been checked by TLC first. Only model-checked: all liveness
(`RunsEnd`, `RemoteEnds`, `BackupIsTold`), which the prover cannot do, and what the
four runs refute. The hypotheses that a run realises by its constants (`sound`:
no faults, one backup) are those of its theorem or stronger ones.

## 5. Modelling assumptions

- Equal hashes mean equal contents (blake3 or md5, as configured).
- Two calls of `build_rel_path` never fall into one millisecond. The proofs
  show how much rests on it: with the mutant `BuildPathTimeless`,
  `RemovalIsOrphan` fails.
- A listing is one step; a source file's bytes are those at the start of its
  copy. A block file that is not complete has length 0 (its length differs from
  the row's unless the content is empty).
- `backup_root` and `backup_target` do not change during a run, but in `Window`.
- A death is that of a process: what it wrote stays. A power failure, after
  which writes may be missing, is not in the model.
- A disk's free space may change from file to file, within `Space`.
- The contents of a file never parse as a JSON reply.
- A file that the server sends may change its length, among `Lengths`, and each
  read sees the length of that moment; which bytes a frame holds is not told.

## 6. Not modelled

`list`, `init`, `add-root`, `add-target` on the command line (single statements;
the window's tasks for the same are in `Window`); configuration and argument
parsing; the hash functions; `snapshot` of the balancer, which only feeds the
log; start and end times of sessions; fonts, layout, texts, current names and
the log of the window; the accept loop of the server, of which one connection
is modelled. Pure data or I/O, except what the plan names.

## 7. Plan

Done, in this order: Store, Files, Engine, Verifier, Vault with Archive and its
proofs; Remote and its proofs; Window; Session and its proofs; files that change
while they are sent; Source and the proof that Remote implements it; the proofs of
`AllRestorable`, `CompletedIsBackedUp` and `RefCountCovers` under their conditions;
the proofs of Window.

Next:
1. The theorems of RestoreProofs and RefCountProofs for `Session`, through
   `SessionIsVault`, and one set of step lemmas for both (`VaultSteps`).
2. `RefCountCovers` and `CompletedIsBackedUp` each under the weakest conditions:
   which failures of statements the second survives.
3. **Names**: the cut of a file name at a byte (`gui.rs:377`) as an operator
   over character widths, against "never inside a character".
4. The window's "complete" after failed roots (`gui.rs:217`): Window's `EndRun`
   related to the status of the session.
