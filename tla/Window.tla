-------------------------------- MODULE Window --------------------------------
(***************************************************************************)
(* The window (TmApp, gui.rs) and the ProgressTracker (progress.rs) that   *)
(* it shares with a running backup.  The window's thread starts tasks on a *)
(* runtime and never waits for one; each reports by one message on an mpsc *)
(* channel.  A frame takes in all the messages that are there and is drawn *)
(* then, with what the user does in it (App::ui).                          *)
(***************************************************************************)
EXTENDS Naturals, Sequences, FiniteSets

CONSTANTS
  Roots,      \* what a user can add to the list of roots
  Targets,    \* ... and to that of targets
  Stored,     \* what the lists may hold when the window opens
  MaxFiles,   \* bound: files of one root
  MaxClicks   \* bound: how often a button is pressed

List == {"roots", "targets"}
Item == Roots \cup Targets
ItemsOf(l) == IF l = "roots" THEN Roots ELSE Targets
IsLists(d) == DOMAIN d = List /\ \A l \in List : d[l] \in Seq(ItemsOf(l))

ASSUME WindowAssumption ==
  /\ \A d \in Stored : IsLists(d)
  /\ MaxFiles \in Nat /\ MaxClicks \in Nat

VARIABLES
  db,        \* the rows of backup_root and backup_target, by list
  shown,     \* self.roots and self.targets
  running,   \* self.backup_running
  info,      \* whose message info_msg holds
  error,     \* whose message error_msg holds
  frame,     \* what App::ui is doing
  screen,    \* the state of the backup that the last frame showed
  channel,   \* the messages on their way to the window
  tasks,     \* the tasks of the runtime
  clicks,    \* how many buttons were pressed
  progress   \* the ProgressTracker

vars == <<db, shown, running, info, error, frame, screen, channel, tasks, clicks, progress>>

Message ==
  [kind : {"loaded"}, list : List, rows : Seq(Item)]
    \cup [kind : {"added"}, list : List]
    \cup [kind : {"finished", "verified"}, ok : BOOLEAN]
    \cup [kind : {"error"}]

(* A task, up to the message that it sends last. *)
Reload == [id : Nat, kind : {"reload"}, list : List]
Add    == [id : Nat, kind : {"add"}, list : List, item : Item]
Verify == [id : Nat, kind : {"verify"}]
Backup == [id      : Nat,
           kind    : {"backup"},
           at      : {"begin", "root", "files", "finish", "report"},
           roots   : Nat,       \* roots still to back up
           left    : Nat,       \* files of the root still to do
           handled : Nat,       \* history: files done by this backup
           ok      : BOOLEAN]   \* run() returned Ok
Send   == [id : Nat, kind : {"send"}, msg : Message]
Task   == Reload \cup Add \cup Verify \cup Backup \cup Send

BackupState == [is : {"idle", "running", "failed"}] \cup [is : {"completed"}, files : Nat]
Progress == [state : BackupState, total : Nat, processed : Nat]

TypeOK ==
  /\ IsLists(db) /\ IsLists(shown)
  /\ running \in BOOLEAN
  /\ info \in {"none", "backup", "other"}
  /\ error \in {"none", "backup", "other"}
  /\ frame \in {"none", "begun"}
  /\ screen \in {"none", "idle", "running", "completed", "failed"}
  /\ channel \in Seq(Message)
  /\ tasks \subseteq Task
  /\ clicks \in 0 .. MaxClicks
  /\ progress \in Progress

-----------------------------------------------------------------------------
(* ProgressTracker *)

Start == progress' = [state |-> [is |-> "running"], total |-> 0, processed |-> 0]
SetTotalFiles(n) == progress' = [progress EXCEPT !.total = n]
FileDone == progress' = [progress EXCEPT !.processed = @ + 1]
Complete(n) == progress' = [progress EXCEPT !.state = [is |-> "completed", files |-> n]]
Fail == progress' = [progress EXCEPT !.state = [is |-> "failed"]]
IsRunning == progress.state.is = "running"

-----------------------------------------------------------------------------
(* The store: rows that are enabled, in the order of their numbers.  The   *)
(* same path may be added again: there is no UNIQUE.                       *)

LoadRows(l) == db[l]
InsertRow(l, i) == db' = [db EXCEPT ![l] = Append(@, i)]

-----------------------------------------------------------------------------
(* The window's thread *)

(* TmApp::new loads both lists. *)
Init ==
  /\ db \in Stored
  /\ shown = [l \in List |-> << >>]
  /\ running = FALSE
  /\ info = "none" /\ error = "none"
  /\ frame = "none" /\ screen = "none"
  /\ channel = << >>
  /\ tasks = {[id |-> 1, kind |-> "reload", list |-> "roots"],
              [id |-> 2, kind |-> "reload", list |-> "targets"]}
  /\ clicks = 0
  /\ progress = [state |-> [is |-> "idle"], total |-> 0, processed |-> 0]

(* An id that no living task has. *)
FreeId == CHOOSE n \in 1 .. Cardinality(tasks) + 1 : \A t \in tasks : t.id # n
Spawn(t) == tasks' = tasks \cup {t}

(* A frame begins: one is drawn when the user touches the window, ... *)
BeginFrame ==
  /\ frame = "none"
  /\ frame' = "begun"
  /\ UNCHANGED <<db, shown, running, info, error, screen, channel, tasks, clicks, progress>>

(* Mutant: it asks only while the tracker says so. *)
NeedRepaintByTracker == IsRunning

(* ... and the window asks for the next one only while a backup runs.      *)
NeedRepaint == running \/ IsRunning

(* The messages are taken in and the frame is drawn, the progress last,    *)
(* which shows state s.                                                    *)
Draw(s) ==
  /\ frame = "begun"
  /\ channel = << >>
  /\ frame' = "none"
  /\ screen' = s

DrawOnly ==
  /\ Draw(progress.state.is)
  /\ UNCHANGED <<db, shown, running, info, error, channel, tasks, clicks, progress>>

(* A button is pressed in the frame. *)
Click(s) ==
  /\ Draw(s)
  /\ clicks < MaxClicks
  /\ clicks' = clicks + 1

AddItem(l, i) ==
  /\ Click(progress.state.is)
  /\ Spawn([id |-> FreeId, kind |-> "add", list |-> l, item |-> i])
  /\ UNCHANGED <<db, shown, running, info, error, channel, progress>>

(* Mutant: the button stays enabled while a backup runs. *)
StartBackupAgain ==
  /\ Click("running")
  /\ shown["roots"] # << >> /\ shown["targets"] # << >>
  /\ running' = TRUE
  /\ info' = "none" /\ error' = "none"
  /\ Start
  /\ Spawn([id |-> FreeId, kind |-> "backup", at |-> "begin",
            roots |-> 0, left |-> 0, handled |-> 0, ok |-> FALSE])
  /\ UNCHANGED <<db, shown, channel>>

(* Mutant: the messages of the last backup stay. *)
StartBackupBeside ==
  /\ Click("running")
  /\ ~ running
  /\ shown["roots"] # << >> /\ shown["targets"] # << >>
  /\ running' = TRUE
  /\ Start
  /\ Spawn([id |-> FreeId, kind |-> "backup", at |-> "begin",
            roots |-> 0, left |-> 0, handled |-> 0, ok |-> FALSE])
  /\ UNCHANGED <<db, shown, info, error, channel>>

StartBackup ==
  /\ Click("running")
  /\ ~ running
  /\ shown["roots"] # << >> /\ shown["targets"] # << >>
  /\ running' = TRUE
  /\ info' = "none" /\ error' = "none"
  /\ Start
  /\ Spawn([id |-> FreeId, kind |-> "backup", at |-> "begin",
            roots |-> 0, left |-> 0, handled |-> 0, ok |-> FALSE])
  /\ UNCHANGED <<db, shown, channel>>

StartVerify ==
  /\ Click(progress.state.is)
  /\ shown["targets"] # << >>
  /\ Spawn([id |-> FreeId, kind |-> "verify"])
  /\ UNCHANGED <<db, shown, running, info, error, channel, progress>>

(* process_messages: what each message does to the window. *)
Loaded(m) ==
  /\ m.kind = "loaded"
  /\ shown' = [shown EXCEPT ![m.list] = m.rows]
  /\ UNCHANGED <<running, info, error, tasks>>
Added(m) ==
  /\ m.kind = "added"
  /\ info' = "other"
  /\ Spawn([id |-> FreeId, kind |-> "reload", list |-> m.list])
  /\ UNCHANGED <<shown, running, error>>

(* A good result takes the place of info_msg, a bad one that of error_msg, *)
(* and the other of the two stays what it was.                             *)
Tell(ok, whose) ==
  /\ info' = IF ok THEN whose ELSE info
  /\ error' = IF ok THEN error ELSE whose

Finished(m) ==
  /\ m.kind = "finished"
  /\ running' = FALSE
  /\ Tell(m.ok, "backup")
  /\ UNCHANGED <<shown, tasks>>

(* Mutant: any result that arrives ends the backup. *)
VerifiedEndsBackup(m) ==
  /\ m.kind = "verified"
  /\ running' = FALSE
  /\ Tell(m.ok, "other")
  /\ UNCHANGED <<shown, tasks>>

Verified(m) ==
  /\ m.kind = "verified"
  /\ Tell(m.ok, "other")
  /\ UNCHANGED <<shown, running, tasks>>

Erred(m) ==
  /\ m.kind = "error"
  /\ Tell(FALSE, "other")
  /\ UNCHANGED <<shown, running, tasks>>

ProcessMessage ==
  /\ frame = "begun"
  /\ channel # << >>
  /\ channel' = Tail(channel)
  /\ LET m == Head(channel)
     IN Loaded(m) \/ Added(m) \/ Finished(m) \/ Verified(m) \/ Erred(m)
  /\ UNCHANGED <<db, frame, screen, clicks, progress>>

-----------------------------------------------------------------------------
(* The tasks *)

Replace(t, u) == tasks' = (tasks \ {t}) \cup {u}
Reports(t, m) == Replace(t, [id |-> t.id, kind |-> "send", msg |-> m])
Error == [kind |-> "error"]
windowVars == <<shown, running, info, error, frame, screen, channel, clicks>>

RunReload(t) ==
  /\ t.kind = "reload"
  /\ \/ Reports(t, [kind |-> "loaded", list |-> t.list, rows |-> LoadRows(t.list)])
     \/ Reports(t, Error)
  /\ UNCHANGED <<db, progress, windowVars>>

RunAdd(t) ==
  /\ t.kind = "add"
  /\ \/ /\ InsertRow(t.list, t.item)
        /\ Reports(t, [kind |-> "added", list |-> t.list])
     \/ Reports(t, Error) /\ UNCHANGED db
  /\ UNCHANGED <<progress, windowVars>>

RunVerify(t) ==
  /\ t.kind = "verify"
  /\ \E ok \in BOOLEAN : Reports(t, [kind |-> "verified", ok |-> ok])
  /\ UNCHANGED <<db, progress, windowVars>>

BackupAt(t, at) == t.kind = "backup" /\ t.at = at

(* BackupEngine::run: the session begins and the counters start anew; or   *)
(* the database fails before that.                                         *)
BeginRun(t) ==
  /\ BackupAt(t, "begin")
  /\ \/ /\ LoadRows("targets") # << >>
        /\ Start
        /\ Replace(t, [t EXCEPT !.at = "root", !.roots = Len(LoadRows("roots"))])
     \/ /\ Replace(t, [t EXCEPT !.at = "report"])
        /\ UNCHANGED progress
  /\ UNCHANGED <<db, windowVars>>

(* backup_root: the root is listed; or it fails, before or after that.     *)
NextRoot(t) ==
  /\ BackupAt(t, "root")
  /\ t.roots > 0
  /\ LET rest == [t EXCEPT !.roots = @ - 1]
     IN \/ \E n \in 0 .. MaxFiles :
             /\ SetTotalFiles(n)
             /\ Replace(t, rest) \/ Replace(t, [rest EXCEPT !.at = "files", !.left = n])
        \/ Replace(t, rest) /\ UNCHANGED progress
  /\ UNCHANGED <<db, windowVars>>

(* Mutant: one file too many. *)
NextFileOneMore(t) ==
  /\ BackupAt(t, "files")
  /\ \/ /\ FileDone
        /\ Replace(t, [t EXCEPT !.left = @ - 1, !.handled = @ + 1])
     \/ /\ t.left = 0
        /\ Replace(t, [t EXCEPT !.at = "root"])
        /\ UNCHANGED progress
  /\ UNCHANGED <<db, windowVars>>

NextFile(t) ==
  /\ BackupAt(t, "files")
  /\ \/ /\ t.left > 0
        /\ FileDone
        /\ Replace(t, [t EXCEPT !.left = @ - 1, !.handled = @ + 1])
     \/ /\ t.left = 0
        /\ Replace(t, [t EXCEPT !.at = "root"])
        /\ UNCHANGED progress
  /\ UNCHANGED <<db, windowVars>>

(* finish_session; run() is Ok whether the roots failed or not. *)
EndRun(t) ==
  /\ BackupAt(t, "root")
  /\ t.roots = 0
  /\ \E ok \in BOOLEAN : Replace(t, [t EXCEPT !.at = "report", !.ok = ok])
  /\ UNCHANGED <<db, progress, windowVars>>

(* Mutant: the tracker is not told of an error. *)
ReportRunUntracked(t) ==
  /\ BackupAt(t, "report")
  /\ IF t.ok THEN Complete(progress.processed) ELSE UNCHANGED progress
  /\ Reports(t, [kind |-> "finished", ok |-> t.ok])
  /\ UNCHANGED <<db, windowVars>>

(* The task tells the tracker first and the window then. *)
ReportRun(t) ==
  /\ BackupAt(t, "report")
  /\ IF t.ok THEN Complete(progress.processed) ELSE Fail
  /\ Reports(t, [kind |-> "finished", ok |-> t.ok])
  /\ UNCHANGED <<db, windowVars>>

SendMessage(t) ==
  /\ t.kind = "send"
  /\ channel' = Append(channel, t.msg)
  /\ tasks' = tasks \ {t}
  /\ UNCHANGED <<db, shown, running, info, error, frame, screen, clicks, progress>>

TaskStep(t) ==
  \/ RunReload(t)
  \/ RunAdd(t)
  \/ RunVerify(t)
  \/ BeginRun(t)
  \/ NextRoot(t)
  \/ NextFile(t)
  \/ EndRun(t)
  \/ ReportRun(t)
  \/ SendMessage(t)

-----------------------------------------------------------------------------
Next ==
  \/ BeginFrame
  \/ DrawOnly
  \/ \E l \in List : \E i \in ItemsOf(l) : AddItem(l, i)
  \/ StartBackup
  \/ StartVerify
  \/ ProcessMessage
  \/ \E t \in tasks : TaskStep(t)

Spec == Init /\ [][Next]_vars

(* The runtime runs its tasks, a frame that the window asked for begins,   *)
(* and one that began is drawn.                                            *)
FairSpec ==
  /\ Spec
  /\ WF_vars(NeedRepaint /\ BeginFrame)
  /\ WF_vars(ProcessMessage \/ DrawOnly)
  /\ \A n \in 1 .. 2 + 2 * MaxClicks : WF_vars(\E t \in tasks : t.id = n /\ TaskStep(t))

-----------------------------------------------------------------------------
IsBackup(t) == t.kind = "backup" \/ (t.kind = "send" /\ t.msg.kind = "finished")
Reported == {i \in DOMAIN channel : channel[i].kind = "finished"}

(* While backup_running is set there is one backup, under way or reported  *)
(* but not yet heard of, and otherwise there is none: the button that it   *)
(* enables can never start a second one (gui.rs).                          *)
OneBackup ==
  Cardinality({t \in tasks : IsBackup(t)}) + Cardinality(Reported)
    = IF running THEN 1 ELSE 0

(* The tracker never says "running" once the window has heard of the end,  *)
(* and it says so while the backup's task is in run() (gui.rs).            *)
TrackerAgrees ==
  /\ IsRunning => running
  /\ (\E t \in tasks : t.kind = "backup") => IsRunning

(* The files that a completed backup reports are those that it handled, in *)
(* all of its roots, and none of a backup before it (progress.rs).         *)
CompletedCounts ==
  [][\A t \in tasks : ReportRun(t) /\ t.ok => progress'.state.files = t.handled]_vars

(* What the window says of the last backup, by a message, is what the      *)
(* tracker says of it by its state (gui.rs, progress.rs).                  *)
TellsTheSame ==
  /\ info = "backup" => progress.state.is = "completed" /\ error # "backup"
  /\ error = "backup" => progress.state.is = "failed" /\ info # "backup"

(* The end of a backup comes to the screen, with the button free again,    *)
(* though nobody touches the window: by the state that the frame shows.    *)
(* The message need not be seen, since any other that was taken in for the *)
(* same frame replaces it (gui.rs).                                        *)
BackupIsTold == running ~> ~ running /\ screen \in {"completed", "failed"}
=============================================================================
