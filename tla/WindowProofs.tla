----------------------------- MODULE WindowProofs -----------------------------
(***************************************************************************)
(* Theorems about Window: its types, that one backup runs at a time, that  *)
(* the tracker agrees with the button and with the messages, and that a    *)
(* completed backup reports the files it handled, for any lists, number of *)
(* clicks and of files.                                                    *)
(***************************************************************************)
EXTENDS Window, FiniteSetTheorems, SequenceTheorems, TLAPS

(* Whose message is shown, and what a frame shows of the tracker. *)
Whose == {"none", "backup", "other"}
Shows == {"idle", "running", "completed", "failed"}

(* A row goes into the list that it was chosen for, and a list is reported *)
(* as itself.                                                              *)
Fits(m) == m.kind = "loaded" => m.rows \in Seq(ItemsOf(m.list))
RowsFit ==
  /\ \A t \in tasks : t.kind = "add" => t.item \in ItemsOf(t.list)
  /\ \A t \in tasks : t.kind = "send" => Fits(t.msg)
  /\ \A i \in DOMAIN channel : Fits(channel[i])

(* Tasks are told apart by their ids. *)
TasksApart ==
  /\ IsFiniteSet(tasks)
  /\ \A t, u \in tasks : t.id = u.id => t = u

(* OneBackup, said without numbers: the one backup is a task or a message. *)
NoTask == \A t \in tasks : ~ IsBackup(t)
BackupOnce ==
  /\ ~ running => NoTask /\ Reported = {}
  /\ running =>
       \/ Reported = {} /\ \E t \in tasks : IsBackup(t) /\ \A u \in tasks : IsBackup(u) => u = t
       \/ NoTask /\ \E i \in Reported : Reported = {i}

(* The tracker says "running" while a task is in run(). *)
TrackerExact == IsRunning <=> \E t \in tasks : t.kind = "backup"

(* The tracker counts the files of the backup that runs. *)
Own(t) ==
  /\ t.at = "begin" => t.handled = 0 /\ ~ t.ok
  /\ t.at \in {"root", "files"} \/ (t.at = "report" /\ t.ok) => progress.processed = t.handled
CountsOwn == \A t \in tasks : t.kind = "backup" => Own(t)

(* A backup that ended, and is not heard of yet, ended as the tracker says *)
(* it did, and while one is under way neither message is about a backup.   *)
Ended(m) == progress.state.is = IF m.ok THEN "completed" ELSE "failed"
Outcome ==
  /\ running => info # "backup" /\ error # "backup"
  /\ \A t \in tasks : t.kind = "send" /\ t.msg.kind = "finished" => Ended(t.msg)
  /\ \A i \in Reported : Ended(channel[i])
  /\ TellsTheSame

WindowInv ==
  /\ TypeOK
  /\ RowsFit
  /\ TasksApart
  /\ BackupOnce
  /\ TrackerExact
  /\ CountsOwn
  /\ Outcome

-----------------------------------------------------------------------------
(* Tasks and messages. *)

LEMMA KindOf ==
  ASSUME NEW t \in Task
  PROVE  /\ t.id \in Nat
         /\ t.kind = "reload" => t \in Reload
         /\ t.kind = "add" => t \in Add
         /\ t.kind = "verify" => t \in Verify
         /\ t.kind = "backup" => t \in Backup
         /\ t.kind = "send" => t \in Send
BY DEF Task, Reload, Add, Verify, Backup, Send

LEMMA MessageOf ==
  ASSUME NEW m \in Message
  PROVE  /\ m.kind = "loaded" => m.list \in List /\ m.rows \in Seq(Item)
         /\ m.kind = "added" => m.list \in List
         /\ m.kind = "finished" => m.ok \in BOOLEAN
BY DEF Message

LEMMA ItemsAre == \A l \in List : ItemsOf(l) \subseteq Item
BY DEF List, ItemsOf, Item

(* Some number up to one more than there are tasks is free. *)
LEMMA FreeIdIsFree ==
  ASSUME IsFiniteSet(tasks)
  PROVE  FreeId \in Nat /\ \A t \in tasks : t.id # FreeId
<1> DEFINE n == Cardinality(tasks) + 1
           S == 1 .. n
<1>1. n \in Nat /\ Cardinality(tasks) \in Nat /\ Cardinality(tasks) < n
  BY FS_CardinalityType
<1>2. IsFiniteSet(S) /\ Cardinality(S) = n
  <2>1. 1 \in Int /\ n \in Int /\ ~ 1 > n
    BY <1>1
  <2>2. IsFiniteSet(1 .. n) /\ Cardinality(1 .. n) = n - 1 + 1
    BY <2>1, FS_Interval
  <2>3. QED  BY <1>1, <2>2
<1> HIDE DEF n, S
<1>3. \E k \in S : \A t \in tasks : t.id # k
  <2> SUFFICES ASSUME \A k \in S : \E t \in tasks : t.id = k PROVE FALSE
    OBVIOUS
  <2> DEFINE f == [k \in S |-> CHOOSE t \in tasks : t.id = k]
  <2>1. f \in [S -> tasks] /\ \A k \in S : f[k].id = k
    OBVIOUS
  <2> HIDE DEF f
  <2>2. \E x, y \in S : x # y /\ f[x] = f[y]
    BY <1>1, <1>2, <2>1, FS_PigeonHole
  <2>3. QED  BY <2>1, <2>2
<1>4. FreeId \in S /\ \A t \in tasks : t.id # FreeId
  BY <1>3 DEF FreeId, S, n
<1>5. QED  BY <1>1, <1>4 DEF S

LEMMA SpawnApart ==
  ASSUME TasksApart, NEW u, u.id = FreeId, Spawn(u)
  PROVE  TasksApart'
<1>1. IsFiniteSet(tasks)'
  BY FS_AddElement DEF TasksApart, Spawn
<1>2. QED  BY <1>1, FreeIdIsFree DEF TasksApart, Spawn

LEMMA ReplaceApart ==
  ASSUME TasksApart, NEW t \in tasks, NEW u, u.id = t.id, Replace(t, u)
  PROVE  TasksApart'
<1>1. IsFiniteSet(tasks \ {t})
  BY FS_RemoveElement DEF TasksApart
<1>2. IsFiniteSet(tasks)'
  BY <1>1, FS_AddElement DEF Replace
<1>3. QED  BY <1>2 DEF TasksApart, Replace

LEMMA DropApart ==
  ASSUME TasksApart, NEW t, tasks' = tasks \ {t}
  PROVE  TasksApart'
BY FS_RemoveElement DEF TasksApart

(* A step of a task that does not send replaces it by another, which is    *)
(* the backup if it was.                                                   *)
LEMMA TaskMoves ==
  ASSUME TypeOK, RowsFit, NEW t \in tasks, TaskStep(t), ~ SendMessage(t)
  PROVE  /\ UNCHANGED windowVars
         /\ \E u \in Task :
              /\ Replace(t, u)
              /\ u.id = t.id
              /\ u.kind \in {"backup", "send"}
              /\ IsBackup(u) <=> t.kind = "backup"
              /\ t.kind # "send"
              /\ u.kind = "backup" => t.kind = "backup"
              /\ u.kind = "send" => Fits(u.msg)
<1>1. t \in Task /\ t.id \in Nat
  BY KindOf DEF TypeOK
<1>2. UNCHANGED windowVars
  BY DEF TaskStep, RunReload, RunAdd, RunVerify, BeginRun, NextRoot, NextFile, EndRun, ReportRun
<1>3. ASSUME NEW m \in Message, Reports(t, m), Fits(m), m.kind # "finished", t.kind # "backup",
             t.kind # "send"
      PROVE  \E u \in Task :
              /\ Replace(t, u) /\ u.id = t.id /\ u.kind \in {"backup", "send"}
              /\ IsBackup(u) <=> t.kind = "backup"
              /\ t.kind # "send"
              /\ u.kind = "backup" => t.kind = "backup"
              /\ u.kind = "send" => Fits(u.msg)
  <2> DEFINE u == [id |-> t.id, kind |-> "send", msg |-> m]
  <2>1. u \in Task /\ u.id = t.id /\ u.kind = "send" /\ u.msg = m
    BY <1>1 DEF Task, Send
  <2> HIDE DEF u
  <2>2. Replace(t, u)
    BY <1>3 DEF Reports, u
  <2>3. QED  BY <1>3, <2>1, <2>2 DEF IsBackup
<1>4. Error \in Message /\ Fits(Error) /\ Error.kind = "error"
  BY DEF Error, Message, Fits
<1>5. CASE RunReload(t)
  <2> DEFINE m == [kind |-> "loaded", list |-> t.list, rows |-> LoadRows(t.list)]
  <2>1. t.list \in List /\ t.kind = "reload"
    BY <1>1, <1>5, KindOf DEF RunReload, Reload
  <2>2. db[t.list] \in Seq(ItemsOf(t.list)) /\ db[t.list] \in Seq(Item)
    BY <2>1, ItemsAre, SeqMonotonic DEF TypeOK, IsLists
  <2>3. m \in Message /\ Fits(m) /\ m.kind = "loaded"
    BY <2>1, <2>2 DEF Message, Fits, LoadRows
  <2> HIDE DEF m
  <2>4. Reports(t, m) \/ Reports(t, Error)
    BY <1>5 DEF RunReload, m
  <2>5. QED  BY <1>2, <1>3, <1>4, <2>1, <2>3, <2>4
<1>6. CASE RunAdd(t)
  <2> DEFINE m == [kind |-> "added", list |-> t.list]
  <2>1. t.list \in List /\ t.kind = "add"
    BY <1>1, <1>6, KindOf DEF RunAdd, Add
  <2>2. m \in Message /\ Fits(m) /\ m.kind = "added"
    BY <2>1 DEF Message, Fits
  <2> HIDE DEF m
  <2>3. Reports(t, m) \/ Reports(t, Error)
    BY <1>6 DEF RunAdd, m
  <2>4. QED  BY <1>2, <1>3, <1>4, <2>1, <2>2, <2>3
<1>7. CASE RunVerify(t)
  <2>1. PICK ok \in BOOLEAN : Reports(t, [kind |-> "verified", ok |-> ok])
    BY <1>7 DEF RunVerify
  <2> DEFINE m == [kind |-> "verified", ok |-> ok]
  <2>2. m \in Message /\ Fits(m) /\ m.kind = "verified"
    BY DEF Message, Fits
  <2> HIDE DEF m
  <2>3. Reports(t, m)
    BY <2>1 DEF m
  <2>4. QED  BY <1>2, <1>3, <1>7, <2>2, <2>3 DEF RunVerify
<1>8. CASE BeginRun(t) \/ NextRoot(t) \/ NextFile(t) \/ EndRun(t)
  <2>1. t \in Backup /\ t.kind = "backup"
    BY <1>1, <1>8, KindOf DEF BeginRun, NextRoot, NextFile, EndRun, BackupAt
  <2>2. \E u \in Backup : Replace(t, u) /\ u.id = t.id /\ u.kind = "backup"
    <3>1. CASE BeginRun(t)
      <4>1. Len(db["roots"]) \in Nat
        BY LenProperties DEF TypeOK, IsLists, List
      <4> DEFINE u == [t EXCEPT !.at = "root", !.roots = Len(db["roots"])]
                 v == [t EXCEPT !.at = "report"]
      <4>2. u \in Backup /\ u.id = t.id /\ u.kind = "backup"
        BY <2>1, <4>1 DEF Backup
      <4>3. v \in Backup /\ v.id = t.id /\ v.kind = "backup"
        BY <2>1 DEF Backup
      <4>4. Replace(t, u) \/ Replace(t, v)
        BY <3>1 DEF BeginRun, LoadRows
      <4> HIDE DEF u, v
      <4>5. QED  BY <4>2, <4>3, <4>4
    <3>2. CASE NextRoot(t)
      <4> DEFINE rest == [t EXCEPT !.roots = @ - 1]
      <4>0. t.roots - 1 \in Nat
        <5>1. t.roots \in Nat
          BY <2>1 DEF Backup
        <5>2. t.roots > 0
          BY <3>2 DEF NextRoot
        <5>3. QED  BY <5>1, <5>2
      <4>1. rest \in Backup /\ rest.id = t.id /\ rest.kind = "backup"
        BY <2>1, <4>0 DEF Backup
      <4>2. \A n \in 0 .. MaxFiles :
              LET u == [rest EXCEPT !.at = "files", !.left = n]
              IN u \in Backup /\ u.id = t.id /\ u.kind = "backup"
        <5> SUFFICES ASSUME NEW n \in 0 .. MaxFiles
                     PROVE  LET u == [rest EXCEPT !.at = "files", !.left = n]
                            IN u \in Backup /\ u.id = t.id /\ u.kind = "backup"
          OBVIOUS
        <5>1. n \in Nat
          BY WindowAssumption
        <5> HIDE DEF rest
        <5>2. QED  BY <4>1, <5>1 DEF Backup
      <4>3. \/ Replace(t, rest)
            \/ \E n \in 0 .. MaxFiles : Replace(t, [rest EXCEPT !.at = "files", !.left = n])
        BY <3>2 DEF NextRoot
      <4> HIDE DEF rest
      <4>4. QED  BY <4>1, <4>2, <4>3
    <3>3. CASE NextFile(t)
      <4> DEFINE u == [t EXCEPT !.left = @ - 1, !.handled = @ + 1]
                 v == [t EXCEPT !.at = "root"]
      <4>1. t.left > 0 => u \in Backup /\ u.id = t.id /\ u.kind = "backup"
        <5> SUFFICES ASSUME t.left > 0 PROVE u \in Backup /\ u.id = t.id /\ u.kind = "backup"
          OBVIOUS
        <5>1. t.left - 1 \in Nat /\ t.handled + 1 \in Nat
          BY <2>1 DEF Backup
        <5>2. QED  BY <2>1, <5>1 DEF Backup
      <4>2. v \in Backup /\ v.id = t.id /\ v.kind = "backup"
        BY <2>1 DEF Backup
      <4>3. (t.left > 0 /\ Replace(t, u)) \/ Replace(t, v)
        BY <3>3 DEF NextFile
      <4> HIDE DEF u, v
      <4>4. QED  BY <4>1, <4>2, <4>3
    <3>4. CASE EndRun(t)
      <4>1. PICK ok \in BOOLEAN : Replace(t, [t EXCEPT !.at = "report", !.ok = ok])
        BY <3>4 DEF EndRun
      <4> DEFINE u == [t EXCEPT !.at = "report", !.ok = ok]
      <4>2. u \in Backup /\ u.id = t.id /\ u.kind = "backup"
        BY <2>1 DEF Backup
      <4> HIDE DEF u
      <4>3. Replace(t, u)
        BY <4>1 DEF u
      <4>4. QED  BY <4>2, <4>3
    <3>5. QED  BY <1>8, <3>1, <3>2, <3>3, <3>4
  <2>3. QED  BY <1>2, <2>1, <2>2 DEF IsBackup, Task
<1>9. CASE ReportRun(t)
  <2>1. t \in Backup /\ t.kind = "backup" /\ t.ok \in BOOLEAN
    BY <1>1, <1>9, KindOf DEF ReportRun, BackupAt, Backup
  <2> DEFINE m == [kind |-> "finished", ok |-> t.ok]
             u == [id |-> t.id, kind |-> "send", msg |-> m]
  <2>2. m \in Message /\ Fits(m) /\ m.kind = "finished"
    BY <2>1 DEF Message, Fits
  <2> HIDE DEF m
  <2>3. u \in Task /\ u.id = t.id /\ u.kind = "send" /\ u.msg = m
    BY <1>1, <2>2 DEF Task, Send
  <2> HIDE DEF u
  <2>4. Replace(t, u)
    BY <1>9 DEF ReportRun, Reports, u, m
  <2>5. QED  BY <1>2, <2>1, <2>2, <2>3, <2>4 DEF IsBackup
<1>10. QED  BY <1>5, <1>6, <1>7, <1>8, <1>9 DEF TaskStep

-----------------------------------------------------------------------------
(* Types. *)

LEMMA PutRows ==
  ASSUME NEW d, IsLists(d), NEW l \in List, NEW rows \in Seq(ItemsOf(l))
  PROVE  IsLists([d EXCEPT ![l] = rows])
BY DEF IsLists

LEMMA TrackerTypes ==
  ASSUME progress \in Progress
  PROVE  /\ Start => progress' \in Progress
         /\ \A n \in Nat : SetTotalFiles(n) => progress' \in Progress
         /\ FileDone => progress' \in Progress
         /\ \A n \in Nat : Complete(n) => progress' \in Progress
         /\ Fail => progress' \in Progress
BY DEF Start, SetTotalFiles, FileDone, Complete, Fail, Progress, BackupState

LEMMA WorkTypes ==
  ASSUME TypeOK, RowsFit, TasksApart, NEW t \in tasks, TaskStep(t), ~ SendMessage(t)
  PROVE  TypeOK' /\ RowsFit' /\ TasksApart'
<1>1. PICK u \in Task : /\ Replace(t, u) /\ u.id = t.id /\ u.kind \in {"backup", "send"}
                        /\ u.kind = "send" => Fits(u.msg)
  BY TaskMoves
<1>2. UNCHANGED windowVars
  BY TaskMoves
<1>3. TasksApart'
  BY <1>1, ReplaceApart
<1>4. RowsFit'
  BY <1>1, <1>2 DEF RowsFit, Replace, windowVars, Fits
<1>5. IsLists(db)'
  <2>1. CASE RunAdd(t) /\ db' # db
    <3>1. t.list \in List /\ t.item \in ItemsOf(t.list)
      BY <2>1, KindOf DEF RunAdd, RowsFit, TypeOK, Add
    <3>2. db[t.list] \in Seq(ItemsOf(t.list))
      BY <3>1 DEF TypeOK, IsLists
    <3>3. Append(db[t.list], t.item) \in Seq(ItemsOf(t.list))
      BY <3>1, <3>2, AppendProperties
    <3>4. db' = [db EXCEPT ![t.list] = Append(db[t.list], t.item)]
      BY <2>1 DEF RunAdd, InsertRow
    <3>5. QED  BY <3>1, <3>3, <3>4, PutRows DEF TypeOK
  <2>2. CASE db' = db
    BY <2>2 DEF TypeOK
  <2>3. ~ RunAdd(t) => db' = db
    BY DEF TaskStep, RunReload, RunVerify, BeginRun, NextRoot, NextFile, EndRun, ReportRun
  <2>4. QED  BY <2>1, <2>2, <2>3
<1>6. progress' \in Progress
  <2>1. progress.processed \in Nat /\ progress \in Progress
    BY DEF TypeOK, Progress
  <2>2. \A n \in 0 .. MaxFiles : n \in Nat
    BY WindowAssumption
  <2>3. BeginRun(t) \/ NextRoot(t) \/ NextFile(t) \/ ReportRun(t) => progress' \in Progress
    BY <2>1, <2>2, TrackerTypes DEF BeginRun, NextRoot, NextFile, ReportRun
  <2>4. QED
    BY <2>1, <2>3 DEF TaskStep, RunReload, RunAdd, RunVerify, EndRun
<1>7. tasks' \subseteq Task
  BY <1>1 DEF TypeOK, Replace
<1>8. QED  BY <1>2, <1>3, <1>4, <1>5, <1>6, <1>7 DEF TypeOK, windowVars

LEMMA SendTypes ==
  ASSUME TypeOK, RowsFit, TasksApart, NEW t \in tasks, SendMessage(t)
  PROVE  TypeOK' /\ RowsFit' /\ TasksApart'
<1>1. t.msg \in Message /\ Fits(t.msg)
  BY KindOf DEF SendMessage, RowsFit, TypeOK, Send
<1>2. channel' \in Seq(Message) /\ DOMAIN channel' = 1 .. Len(channel) + 1
      /\ channel'[Len(channel) + 1] = t.msg
      /\ \A i \in 1 .. Len(channel) : channel'[i] = channel[i]
  BY <1>1, AppendProperties, LenProperties DEF SendMessage, TypeOK
<1>3. DOMAIN channel = 1 .. Len(channel) /\ Len(channel) \in Nat
  BY LenProperties DEF TypeOK
<1>4. TasksApart'
  BY DropApart DEF SendMessage
<1>5. RowsFit'
  <2>1. \A i \in DOMAIN channel' : i \in DOMAIN channel \/ i = Len(channel) + 1
    BY <1>2, <1>3
  <2>2. \A i \in DOMAIN channel' : Fits(channel'[i])
    BY <1>1, <1>2, <1>3, <2>1 DEF RowsFit
  <2>3. QED  BY <2>2 DEF RowsFit, SendMessage, Fits
<1>6. QED  BY <1>2, <1>4, <1>5 DEF TypeOK, SendMessage

LEMMA HeadOfChannel ==
  ASSUME TypeOK, channel # << >>, channel' = Tail(channel)
  PROVE  /\ Head(channel) \in Message /\ channel' \in Seq(Message)
         /\ 1 \in DOMAIN channel /\ channel[1] = Head(channel)
         /\ \A i \in DOMAIN channel' :
              i \in Nat \ {0} /\ i + 1 \in DOMAIN channel /\ channel'[i] = channel[i + 1]
         /\ \A i \in DOMAIN channel : i \in Nat /\ (i = 1 \/ i - 1 \in DOMAIN channel')
<1>1. /\ Head(channel) \in Message /\ Tail(channel) \in Seq(Message)
      /\ Len(Tail(channel)) = Len(channel) - 1
      /\ \A i \in 1 .. Len(Tail(channel)) : Tail(channel)[i] = channel[i + 1]
  BY HeadTailProperties DEF TypeOK
<1>2. Len(channel) \in Nat \ {0} /\ DOMAIN channel = 1 .. Len(channel)
  BY EmptySeq, LenProperties DEF TypeOK
<1>3. DOMAIN channel' = 1 .. Len(channel) - 1
  BY <1>1, LenProperties
<1>4. channel[1] = Head(channel)
  BY DEF Head
<1>5. QED  BY <1>1, <1>2, <1>3, <1>4

LEMMA ProcessTypes ==
  ASSUME TypeOK, RowsFit, TasksApart, ProcessMessage
  PROVE  TypeOK' /\ RowsFit' /\ TasksApart'
<1> DEFINE m == Head(channel)
<1>1. channel # << >> /\ channel' = Tail(channel)
  BY DEF ProcessMessage
<1>2. m \in Message /\ Fits(m) /\ channel' \in Seq(Message) /\ \A i \in DOMAIN channel' : Fits(channel'[i])
  BY <1>1, HeadOfChannel DEF RowsFit
<1> HIDE DEF m
<1>3. Loaded(m) \/ Added(m) \/ Finished(m) \/ Verified(m) \/ Erred(m)
  BY DEF ProcessMessage, m
<1>4. IsLists(shown)'
  <2>1. CASE Loaded(m)
    <3>1. m.list \in List /\ m.rows \in Seq(ItemsOf(m.list))
      BY <1>2, <2>1, MessageOf DEF Loaded, Fits
    <3>2. QED  BY <2>1, <3>1, PutRows DEF Loaded, TypeOK
  <2>2. CASE ~ Loaded(m)
    BY <1>3, <2>2 DEF Added, Finished, Verified, Erred, TypeOK
  <2>3. QED  BY <1>3, <2>1, <2>2
<1>5. running' \in BOOLEAN /\ info' \in Whose /\ error' \in Whose
  BY <1>3 DEF Loaded, Added, Finished, Verified, Erred, Tell, TypeOK, Whose
<1>6. tasks' \subseteq Task /\ TasksApart' /\ \A t \in tasks' : t \in tasks \/ t.kind = "reload"
  <2>1. CASE Added(m)
    <3> DEFINE u == [id |-> FreeId, kind |-> "reload", list |-> m.list]
    <3>1. m.list \in List /\ FreeId \in Nat
      BY <1>2, <2>1, MessageOf, FreeIdIsFree DEF Added, TasksApart
    <3>2. u \in Task /\ u.id = FreeId /\ u.kind = "reload"
      BY <3>1 DEF Task, Reload
    <3> HIDE DEF u
    <3>3. Spawn(u)
      BY <2>1 DEF Added, u
    <3>4. QED  BY <3>2, <3>3, SpawnApart DEF Spawn, TypeOK
  <2>2. CASE tasks' = tasks
    BY <2>2 DEF TasksApart, TypeOK
  <2>3. QED  BY <1>3, <2>1, <2>2 DEF Loaded, Finished, Verified, Erred
<1>7. RowsFit'
  BY <1>2, <1>6 DEF RowsFit, Fits
<1>8. QED  BY <1>2, <1>4, <1>5, <1>6, <1>7 DEF TypeOK, ProcessMessage, Whose

(* A message starts at most a reload. *)
LEMMA ProcessLeaves ==
  ASSUME ProcessMessage
  PROVE  /\ progress' = progress
         /\ tasks \subseteq tasks'
         /\ \A t \in tasks' : t \in tasks \/ t.kind = "reload"
<1> DEFINE m == Head(channel)
<1>1. Loaded(m) \/ Added(m) \/ Finished(m) \/ Verified(m) \/ Erred(m)
  BY DEF ProcessMessage
<1> HIDE DEF m
<1>2. CASE Added(m)
  <2> DEFINE u == [id |-> FreeId, kind |-> "reload", list |-> m.list]
  <2>1. u.kind = "reload"
    OBVIOUS
  <2> HIDE DEF u
  <2>2. tasks' = tasks \cup {u}
    BY <1>2 DEF Added, Spawn, u
  <2>3. QED  BY <2>1, <2>2 DEF ProcessMessage
<1>3. CASE tasks' = tasks
  BY <1>3 DEF ProcessMessage
<1>4. QED  BY <1>1, <1>2, <1>3 DEF Loaded, Finished, Verified, Erred

(* What a click starts. *)
LEMMA ClickTypes ==
  ASSUME TypeOK, RowsFit, TasksApart, NEW s \in Shows, Click(s), NEW u \in Task, Spawn(u), u.id = FreeId,
         u.kind # "send", u.kind = "add" => u.item \in ItemsOf(u.list),
         running' \in BOOLEAN, info' \in Whose, error' \in Whose, progress' \in Progress,
         UNCHANGED <<db, shown, channel>>
  PROVE  TypeOK' /\ RowsFit' /\ TasksApart'
<1>1. TasksApart'
  BY SpawnApart
<1>2. RowsFit'
  BY DEF RowsFit, Spawn, Fits
<1>3. clicks' \in 0 .. MaxClicks /\ frame' = "none" /\ screen' = s
  BY WindowAssumption DEF Click, Draw, TypeOK
<1>4. QED  BY <1>1, <1>2, <1>3 DEF TypeOK, Spawn, Whose, Shows

LEMMA WindowTypes ==
  ASSUME TypeOK, RowsFit, TasksApart, [Next]_vars
  PROVE  TypeOK' /\ RowsFit' /\ TasksApart'
<1>1. FreeId \in Nat
  BY FreeIdIsFree DEF TasksApart
<1>0. /\ progress.state.is \in Shows /\ progress \in Progress
      /\ running \in BOOLEAN /\ info \in Whose /\ error \in Whose
  BY DEF TypeOK, Progress, BackupState, Shows, Whose
<1>2. ASSUME NEW l \in List, NEW i \in ItemsOf(l), AddItem(l, i)
      PROVE  TypeOK' /\ RowsFit' /\ TasksApart'
  <2> DEFINE u == [id |-> FreeId, kind |-> "add", list |-> l, item |-> i]
  <2>1. u \in Task /\ u.id = FreeId /\ u.kind = "add" /\ u.item = i /\ u.list = l
    BY <1>1, ItemsAre DEF Task, Add
  <2> HIDE DEF u
  <2>2. PICK s : s = progress.state.is
    OBVIOUS
  <2>3. Spawn(u) /\ Click(s) /\ UNCHANGED <<db, shown, running, info, error, channel, progress>>
    BY <1>2, <2>2 DEF AddItem, u
  <2>4. QED  BY <1>0, <2>1, <2>2, <2>3, ClickTypes
<1>3. ASSUME StartBackup
      PROVE  TypeOK' /\ RowsFit' /\ TasksApart'
  <2> DEFINE u == [id |-> FreeId, kind |-> "backup", at |-> "begin",
                   roots |-> 0, left |-> 0, handled |-> 0, ok |-> FALSE]
  <2>1. u \in Task /\ u.id = FreeId /\ u.kind = "backup"
    BY <1>1 DEF Task, Backup
  <2> HIDE DEF u
  <2>2. Spawn(u) /\ Click("running") /\ UNCHANGED <<db, shown, channel>> /\ Start
        /\ running' = TRUE /\ info' \in Whose /\ error' \in Whose
    BY <1>3 DEF StartBackup, u, Whose
  <2>3. progress' \in Progress /\ "running" \in Shows
    BY <2>2, TrackerTypes DEF TypeOK, Shows
  <2>4. QED  BY <2>1, <2>2, <2>3, ClickTypes
<1>4. ASSUME StartVerify
      PROVE  TypeOK' /\ RowsFit' /\ TasksApart'
  <2> DEFINE u == [id |-> FreeId, kind |-> "verify"]
  <2>1. u \in Task /\ u.id = FreeId /\ u.kind = "verify"
    BY <1>1 DEF Task, Verify
  <2> HIDE DEF u
  <2>2. PICK s : s = progress.state.is
    OBVIOUS
  <2>3. Spawn(u) /\ Click(s) /\ UNCHANGED <<db, shown, running, info, error, channel, progress>>
    BY <1>4, <2>2 DEF StartVerify, u
  <2>4. QED  BY <1>0, <2>1, <2>2, <2>3, ClickTypes
<1>5. CASE UNCHANGED vars
  BY <1>5 DEF vars, TypeOK, RowsFit, TasksApart, Fits
<1>6. CASE BeginFrame \/ DrawOnly
  BY <1>6, <1>0 DEF BeginFrame, DrawOnly, Draw, TypeOK, RowsFit, TasksApart, Fits, Shows
<1>7. QED
  BY <1>2, <1>3, <1>4, <1>5, <1>6, WorkTypes, SendTypes, ProcessTypes DEF Next

-----------------------------------------------------------------------------
(* One backup. *)

LEMMA WorkOnce ==
  ASSUME TypeOK, RowsFit, BackupOnce, NEW t \in tasks, TaskStep(t), ~ SendMessage(t)
  PROVE  BackupOnce'
<1>1. PICK u \in Task : Replace(t, u) /\ (IsBackup(u) <=> t.kind = "backup") /\ t.kind # "send"
  BY TaskMoves
<1>2. UNCHANGED <<running, channel>>
  BY TaskMoves DEF windowVars
<1>3. Reported' = Reported
  BY <1>2 DEF Reported
<1>4. IsBackup(t) <=> t.kind = "backup"
  BY <1>1 DEF IsBackup
<1>5. NoTask => NoTask'
  BY <1>1, <1>4 DEF NoTask, Replace
<1>6. (\E s \in tasks : IsBackup(s) /\ \A r \in tasks : IsBackup(r) => r = s)
        => \E s \in tasks' : IsBackup(s) /\ \A r \in tasks' : IsBackup(r) => r = s
  <2> SUFFICES ASSUME NEW s \in tasks, IsBackup(s), \A r \in tasks : IsBackup(r) => r = s
               PROVE  \E z \in tasks' : IsBackup(z) /\ \A r \in tasks' : IsBackup(r) => r = z
    OBVIOUS
  <2>1. CASE s = t
    <3>1. u \in tasks' /\ IsBackup(u) /\ \A r \in tasks' : IsBackup(r) => r = u
      BY <1>1, <1>4, <2>1 DEF Replace
    <3>2. QED  BY <3>1
  <2>2. CASE s # t
    <3>1. s \in tasks' /\ \A r \in tasks' : IsBackup(r) => r = s
      BY <1>1, <1>4, <2>2 DEF Replace
    <3>2. QED  BY <3>1
  <2>3. QED  BY <2>1, <2>2
<1>7. \A s : IsBackup(s)' = IsBackup(s)
  BY DEF IsBackup
<1>8. QED  BY <1>2, <1>3, <1>5, <1>6, <1>7 DEF BackupOnce

LEMMA SendOnce ==
  ASSUME TypeOK, BackupOnce, NEW t \in tasks, SendMessage(t)
  PROVE  BackupOnce'
<1> DEFINE n == Len(channel) + 1
<1>1. t.msg \in Message /\ t.kind = "send"
  BY KindOf DEF SendMessage, TypeOK, Send
<1>2. /\ DOMAIN channel = 1 .. Len(channel) /\ Len(channel) \in Nat
      /\ DOMAIN channel' = 1 .. n
      /\ channel'[n] = t.msg /\ \A i \in 1 .. Len(channel) : channel'[i] = channel[i]
  BY <1>1, AppendProperties, LenProperties DEF SendMessage, TypeOK
<1>3. tasks' = tasks \ {t} /\ running' = running
  BY DEF SendMessage
<1>4. CASE t.msg.kind = "finished"
  <2>1. IsBackup(t)
    BY <1>1, <1>4 DEF IsBackup
  <2>2. running /\ Reported = {} /\ \A u \in tasks : IsBackup(u) => u = t
    BY <2>1 DEF BackupOnce, NoTask
  <2>3. Reported' = {n}
    BY <1>2, <1>4, <2>2 DEF Reported
  <2>4. NoTask'
    BY <1>3, <2>2 DEF NoTask, IsBackup
  <2>5. QED  BY <1>3, <2>2, <2>3, <2>4 DEF BackupOnce
<1>5. CASE t.msg.kind # "finished"
  <2>1. ~ IsBackup(t)
    BY <1>1, <1>5 DEF IsBackup
  <2>2. Reported' = Reported
    BY <1>2, <1>5 DEF Reported
  <2>3. QED  BY <1>3, <2>1, <2>2 DEF BackupOnce, NoTask, IsBackup
<1>6. QED  BY <1>4, <1>5

LEMMA ProcessOnce ==
  ASSUME TypeOK, BackupOnce, ProcessMessage
  PROVE  BackupOnce'
<1> DEFINE m == Head(channel)
<1>1. /\ channel # << >> /\ channel' = Tail(channel)
      /\ Loaded(m) \/ Added(m) \/ Finished(m) \/ Verified(m) \/ Erred(m)
  BY DEF ProcessMessage
<1>2. /\ 1 \in DOMAIN channel /\ channel[1] = m
      /\ \A i \in DOMAIN channel' :
           i \in Nat \ {0} /\ i + 1 \in DOMAIN channel /\ channel'[i] = channel[i + 1]
      /\ \A i \in DOMAIN channel : i \in Nat /\ (i = 1 \/ i - 1 \in DOMAIN channel')
  BY <1>1, HeadOfChannel
<1> HIDE DEF m
<1>3. \A i \in Reported' : i \in Nat \ {0} /\ i + 1 \in Reported
  BY <1>2 DEF Reported
<1>4. \A i \in Reported : i \in Nat /\ (i = 1 \/ i - 1 \in Reported')
  <2> SUFFICES ASSUME NEW i \in Reported, i # 1 PROVE i \in Nat /\ i - 1 \in Reported'
    BY <1>2 DEF Reported
  <2>1. i \in Nat /\ i - 1 \in DOMAIN channel' /\ i - 1 + 1 = i
    BY <1>2 DEF Reported
  <2>2. channel'[i - 1] = channel[i]
    BY <1>2, <2>1
  <2>3. QED  BY <2>1, <2>2 DEF Reported
<1>5. CASE Finished(m)
  <2>1. 1 \in Reported
    BY <1>2, <1>5 DEF Finished, Reported
  <2>2. running /\ NoTask /\ Reported = {1}
    BY <2>1 DEF BackupOnce
  <2>3. Reported' = {}
    BY <1>3, <2>2
  <2>4. running' = FALSE /\ tasks' = tasks
    BY <1>5 DEF Finished
  <2>5. QED  BY <2>2, <2>3, <2>4 DEF BackupOnce, NoTask, IsBackup
<1>6. CASE Loaded(m) \/ Added(m) \/ Verified(m) \/ Erred(m)
  <2>1. 1 \notin Reported /\ running' = running
    BY <1>2, <1>6 DEF Loaded, Added, Verified, Erred, Reported
  <2>2. Reported = {} => Reported' = {}
    BY <1>3
  <2>3. (\E i \in Reported : Reported = {i}) => \E i \in Reported' : Reported' = {i}
    <3> SUFFICES ASSUME NEW i \in Reported, Reported = {i}
                 PROVE  i - 1 \in Reported' /\ \A k \in Reported' : k = i - 1
      OBVIOUS
    <3>1. i \in Nat /\ i - 1 \in Reported'
      BY <1>4, <2>1
    <3>2. \A k \in Reported' : k \in Nat /\ k + 1 = i
      BY <1>3
    <3>3. QED  BY <3>1, <3>2
  <2>4. tasks \subseteq tasks' /\ \A s \in tasks' : s \in tasks \/ ~ IsBackup(s)
    <3>1. CASE Added(m)
      <4> DEFINE u == [id |-> FreeId, kind |-> "reload", list |-> m.list]
      <4>1. u.kind = "reload"
        OBVIOUS
      <4> HIDE DEF u
      <4>2. tasks' = tasks \cup {u}
        BY <3>1 DEF Added, Spawn, u
      <4>3. QED  BY <4>1, <4>2 DEF IsBackup
    <3>2. CASE tasks' = tasks
      BY <3>2
    <3>3. QED  BY <1>6, <3>1, <3>2 DEF Loaded, Verified, Erred
  <2>5. NoTask => NoTask'
    BY <2>4 DEF NoTask, IsBackup
  <2>6. QED  BY <2>1, <2>2, <2>3, <2>4, <2>5 DEF BackupOnce, IsBackup
<1>7. QED  BY <1>1, <1>5, <1>6

(* A click that is not for a backup leaves it as it is. *)
LEMMA ClickOnce ==
  ASSUME BackupOnce, NEW u, Spawn(u), ~ IsBackup(u), UNCHANGED <<running, channel>>
  PROVE  BackupOnce'
<1>1. Reported' = Reported
  BY DEF Reported
<1>2. NoTask => NoTask'
  BY DEF NoTask, Spawn, IsBackup
<1>3. QED  BY <1>1, <1>2 DEF BackupOnce, Spawn, IsBackup

(* The button is enabled only while there is none. *)
LEMMA StartOnce ==
  ASSUME BackupOnce, StartBackup
  PROVE  BackupOnce'
<1> DEFINE u == [id |-> FreeId, kind |-> "backup", at |-> "begin",
                 roots |-> 0, left |-> 0, handled |-> 0, ok |-> FALSE]
<1>1. u.kind = "backup"
  OBVIOUS
<1> HIDE DEF u
<1>2. tasks' = tasks \cup {u} /\ ~ running /\ running' = TRUE /\ channel' = channel
  BY DEF StartBackup, Spawn, u
<1>3. NoTask /\ Reported' = {}
  BY <1>2 DEF BackupOnce, Reported
<1>4. u \in tasks' /\ IsBackup(u) /\ \A s \in tasks' : IsBackup(s) => s = u
  BY <1>1, <1>2, <1>3 DEF NoTask, IsBackup
<1>5. QED  BY <1>2, <1>3, <1>4 DEF BackupOnce, IsBackup

-----------------------------------------------------------------------------
(* The tracker. *)

LEMMA OneTask ==
  ASSUME BackupOnce, NEW t \in tasks, t.kind = "backup", NEW u \in tasks, u.kind = "backup"
  PROVE  t = u
BY DEF BackupOnce, NoTask, IsBackup

(* While it is in run() a backup keeps the tracker running and counts its  *)
(* own files.                                                              *)
LEMMA RunCounts ==
  ASSUME TypeOK, IsRunning, NEW t \in tasks, Own(t),
         BeginRun(t) \/ NextRoot(t) \/ NextFile(t) \/ EndRun(t)
  PROVE  IsRunning' /\ \E u : Replace(t, u) /\ u.kind = "backup" /\ Own(u)'
<1>1. t \in Backup /\ t.kind = "backup" /\ progress \in Progress
  BY KindOf DEF TypeOK, BeginRun, NextRoot, NextFile, EndRun, BackupAt
<1>2. CASE BeginRun(t)
  <2>0. t.handled = 0 /\ ~ t.ok /\ t.at = "begin"
    BY <1>2 DEF BeginRun, BackupAt, Own
  <2> DEFINE u == [t EXCEPT !.at = "root", !.roots = Len(LoadRows("roots"))]
             v == [t EXCEPT !.at = "report"]
  <2>1. /\ u.kind = "backup" /\ u.at = "root" /\ u.handled = 0
        /\ v.kind = "backup" /\ v.at = "report" /\ ~ v.ok
    BY <1>1, <2>0 DEF Backup
  <2>2. \/ Start /\ Replace(t, u)
        \/ Replace(t, v) /\ progress' = progress
    BY <1>2 DEF BeginRun
  <2> HIDE DEF u, v
  <2>3. CASE Start /\ Replace(t, u)
    BY <2>1, <2>3 DEF Start, IsRunning, Own
  <2>4. CASE Replace(t, v) /\ progress' = progress
    BY <2>1, <2>4 DEF IsRunning, Own
  <2>5. QED  BY <2>2, <2>3, <2>4
<1>3. CASE NextRoot(t)
  <2>0. t.at = "root" /\ progress.processed = t.handled
    BY <1>3 DEF NextRoot, BackupAt, Own
  <2> DEFINE rest == [t EXCEPT !.roots = @ - 1]
  <2>1. /\ rest.kind = "backup" /\ rest.at = "root" /\ rest.handled = t.handled
        /\ \A n : LET u == [rest EXCEPT !.at = "files", !.left = n]
                  IN u.kind = "backup" /\ u.at = "files" /\ u.handled = t.handled
    BY <1>1, <2>0 DEF Backup
  <2>2. \/ Replace(t, rest)
        \/ \E n : Replace(t, [rest EXCEPT !.at = "files", !.left = n])
    BY <1>3 DEF NextRoot
  <2>3. IsRunning' /\ progress'.processed = progress.processed
    BY <1>1, <1>3 DEF NextRoot, SetTotalFiles, IsRunning, Progress
  <2> HIDE DEF rest
  <2>4. QED  BY <2>0, <2>1, <2>2, <2>3 DEF Own
<1>4. CASE NextFile(t)
  <2>0. t.at = "files" /\ progress.processed = t.handled
    BY <1>4 DEF NextFile, BackupAt, Own
  <2> DEFINE u == [t EXCEPT !.left = @ - 1, !.handled = @ + 1]
             v == [t EXCEPT !.at = "root"]
  <2>1. /\ u.kind = "backup" /\ u.at = "files" /\ u.handled = t.handled + 1
        /\ v.kind = "backup" /\ v.at = "root" /\ v.handled = t.handled
    BY <1>1, <2>0 DEF Backup
  <2>2. \/ FileDone /\ Replace(t, u)
        \/ Replace(t, v) /\ progress' = progress
    BY <1>4 DEF NextFile
  <2>3. FileDone => IsRunning' /\ progress'.processed = progress.processed + 1
    BY <1>1 DEF FileDone, IsRunning, Progress
  <2> HIDE DEF u, v
  <2>4. CASE FileDone /\ Replace(t, u)
    BY <2>0, <2>1, <2>3, <2>4 DEF Own
  <2>5. CASE Replace(t, v) /\ progress' = progress
    BY <2>0, <2>1, <2>5 DEF Own, IsRunning
  <2>6. QED  BY <2>2, <2>4, <2>5
<1>5. CASE EndRun(t)
  <2>0. t.at = "root" /\ progress.processed = t.handled /\ progress' = progress
    BY <1>5 DEF EndRun, BackupAt, Own
  <2>1. PICK ok : Replace(t, [t EXCEPT !.at = "report", !.ok = ok])
    BY <1>5 DEF EndRun
  <2> DEFINE u == [t EXCEPT !.at = "report", !.ok = ok]
  <2>2. u.kind = "backup" /\ u.at = "report" /\ u.handled = t.handled
    BY <1>1 DEF Backup
  <2> HIDE DEF u
  <2>3. Replace(t, u)
    BY <2>1 DEF u
  <2>4. QED  BY <2>0, <2>2, <2>3 DEF Own, IsRunning
<1>6. QED  BY <1>2, <1>3, <1>4, <1>5

(* A step that is not about a backup's task. *)
LEMMA TrackerRests ==
  ASSUME TrackerExact, CountsOwn, progress' = progress,
         \A t \in tasks : t.kind = "backup" => t \in tasks',
         \A t \in tasks' : t.kind = "backup" => t \in tasks
  PROVE  TrackerExact' /\ CountsOwn'
BY DEF TrackerExact, CountsOwn, IsRunning, Own

LEMMA WorkTracked ==
  ASSUME TypeOK, RowsFit, BackupOnce, TrackerExact, CountsOwn, NEW t \in tasks, TaskStep(t)
  PROVE  TrackerExact' /\ CountsOwn'
<1>1. CASE BeginRun(t) \/ NextRoot(t) \/ NextFile(t) \/ EndRun(t)
  <2>1. t.kind = "backup"
    BY <1>1 DEF BeginRun, NextRoot, NextFile, EndRun, BackupAt
  <2>2. IsRunning /\ Own(t)
    BY <2>1 DEF TrackerExact, CountsOwn
  <2>3. IsRunning'
    BY <1>1, <2>2, RunCounts
  <2>4. PICK u : Replace(t, u) /\ u.kind = "backup" /\ Own(u)'
    BY <1>1, <2>2, RunCounts
  <2>5. \A s \in tasks' : s.kind = "backup" => s = u
    BY <2>1, <2>4, OneTask DEF Replace
  <2>6. u \in tasks'
    BY <2>4 DEF Replace
  <2>7. QED  BY <2>3, <2>4, <2>5, <2>6 DEF TrackerExact, CountsOwn
<1>2. CASE ReportRun(t)
  <2>1. t.kind = "backup"
    BY <1>2 DEF ReportRun, BackupAt
  <2> DEFINE u == [id |-> t.id, kind |-> "send", msg |-> [kind |-> "finished", ok |-> t.ok]]
  <2>2. u.kind = "send"
    OBVIOUS
  <2> HIDE DEF u
  <2>3. Replace(t, u)
    BY <1>2 DEF ReportRun, Reports, u
  <2>4. \A s \in tasks' : s.kind # "backup"
    BY <2>1, <2>2, <2>3, OneTask DEF Replace
  <2>5. ~ IsRunning'
    BY <1>2 DEF ReportRun, Complete, Fail, IsRunning, TypeOK, Progress
  <2>6. QED  BY <2>4, <2>5 DEF TrackerExact, CountsOwn
<1>3. CASE RunReload(t) \/ RunAdd(t) \/ RunVerify(t)
  <2>1. t.kind # "backup" /\ progress' = progress /\ ~ SendMessage(t)
    BY <1>3 DEF RunReload, RunAdd, RunVerify, SendMessage
  <2>2. PICK u : Replace(t, u) /\ (u.kind = "backup" => t.kind = "backup")
    BY <2>1, TaskMoves
  <2>3. QED  BY <2>1, <2>2, TrackerRests DEF Replace
<1>4. CASE SendMessage(t)
  BY <1>4, TrackerRests DEF SendMessage
<1>5. QED  BY <1>1, <1>2, <1>3, <1>4 DEF TaskStep

LEMMA StartTracked ==
  ASSUME TypeOK, BackupOnce, StartBackup
  PROVE  TrackerExact' /\ CountsOwn'
<1> DEFINE u == [id |-> FreeId, kind |-> "backup", at |-> "begin",
                 roots |-> 0, left |-> 0, handled |-> 0, ok |-> FALSE]
<1>1. u.kind = "backup" /\ u.at = "begin" /\ u.handled = 0 /\ ~ u.ok
  OBVIOUS
<1> HIDE DEF u
<1>2. tasks' = tasks \cup {u} /\ \A s \in tasks : s.kind # "backup"
  BY DEF StartBackup, Spawn, u, BackupOnce, NoTask, IsBackup
<1>3. IsRunning'
  BY DEF StartBackup, Start, IsRunning
<1>4. QED  BY <1>1, <1>2, <1>3 DEF TrackerExact, CountsOwn, Own

-----------------------------------------------------------------------------
(* What the window says. *)

(* A step that leaves the tracker, the channel and what the window says    *)
(* alone, and starts at most a task that has nothing to send yet.          *)
LEMMA OutcomeRests ==
  ASSUME Outcome, UNCHANGED <<running, info, error, channel, progress>>,
         \A t \in tasks' : t \in tasks \/ t.kind # "send"
  PROVE  Outcome'
BY DEF Outcome, Ended, Reported, TellsTheSame

(* A step that the one backup takes, after which the tracker runs or says  *)
(* how it ended: nothing was said of a backup, nor was it on its way.      *)
LEMMA OutcomeRuns ==
  ASSUME BackupOnce, Outcome, NEW t \in tasks, t.kind = "backup", NEW u, Replace(t, u),
         UNCHANGED <<running, info, error, channel>>,
         u.kind = "send" /\ u.msg.kind = "finished" => Ended(u.msg)'
  PROVE  Outcome'
<1>1. running /\ Reported = {} /\ \A s \in tasks : IsBackup(s) => s = t
  BY DEF BackupOnce, NoTask, IsBackup
<1>2. \A s \in tasks' : s.kind = "send" /\ s.msg.kind = "finished" => s = u
  BY <1>1 DEF Replace, IsBackup
<1>3. Reported' = {}
  BY <1>1 DEF Reported
<1>4. TellsTheSame' /\ (running' => info' # "backup" /\ error' # "backup")
  BY <1>1 DEF Outcome, TellsTheSame
<1>5. QED  BY <1>2, <1>3, <1>4 DEF Outcome

LEMMA WorkTold ==
  ASSUME TypeOK, RowsFit, BackupOnce, TrackerExact, CountsOwn, Outcome,
         NEW t \in tasks, TaskStep(t), ~ SendMessage(t)
  PROVE  Outcome'
<1>1. UNCHANGED <<running, info, error, channel>>
  BY TaskMoves DEF windowVars
<1>2. CASE ReportRun(t)
  <2> DEFINE m == [kind |-> "finished", ok |-> t.ok]
             u == [id |-> t.id, kind |-> "send", msg |-> m]
  <2>1. t.kind = "backup" /\ t.ok \in BOOLEAN
    BY <1>2, KindOf DEF ReportRun, BackupAt, TypeOK, Backup
  <2>2. Replace(t, u) /\ u.msg = m /\ m.ok = t.ok
    BY <1>2 DEF ReportRun, Reports
  <2>3. progress'.state.is = IF t.ok THEN "completed" ELSE "failed"
    BY <1>2, <2>1 DEF ReportRun, Complete, Fail, TypeOK, Progress
  <2> HIDE DEF u, m
  <2>4. Ended(u.msg)'
    BY <2>2, <2>3 DEF Ended
  <2>5. QED  BY <1>1, <2>1, <2>2, <2>4, OutcomeRuns
<1>3. CASE t.kind = "backup" /\ ~ ReportRun(t)
  <2>1. BeginRun(t) \/ NextRoot(t) \/ NextFile(t) \/ EndRun(t)
    BY <1>3 DEF TaskStep, RunReload, RunAdd, RunVerify, SendMessage
  <2>2. IsRunning /\ Own(t)
    BY <1>3 DEF TrackerExact, CountsOwn
  <2>3. PICK u : Replace(t, u) /\ u.kind = "backup"
    BY <2>1, <2>2, RunCounts
  <2>4. QED  BY <1>1, <1>3, <2>3, OutcomeRuns
<1>4. CASE t.kind # "backup"
  <2>1. PICK u \in Task : Replace(t, u) /\ ~ IsBackup(u)
    BY <1>4, TaskMoves
  <2>2. progress' = progress
    BY <1>4 DEF TaskStep, RunReload, RunAdd, RunVerify, BeginRun, NextRoot, NextFile, EndRun,
                ReportRun, SendMessage, BackupAt
  <2>3. QED  BY <1>1, <2>1, <2>2 DEF Outcome, Ended, Reported, TellsTheSame, Replace, IsBackup
<1>5. QED  BY <1>2, <1>3, <1>4

LEMMA SendTold ==
  ASSUME TypeOK, Outcome, NEW t \in tasks, SendMessage(t)
  PROVE  Outcome'
<1> DEFINE n == Len(channel) + 1
<1>1. t.msg \in Message /\ t.kind = "send"
  BY KindOf DEF SendMessage, TypeOK, Send
<1>2. /\ DOMAIN channel = 1 .. Len(channel) /\ Len(channel) \in Nat
      /\ DOMAIN channel' = 1 .. n
      /\ channel'[n] = t.msg /\ \A i \in 1 .. Len(channel) : channel'[i] = channel[i]
  BY <1>1, AppendProperties, LenProperties DEF SendMessage, TypeOK
<1>3. tasks' = tasks \ {t} /\ UNCHANGED <<running, info, error, progress>>
  BY DEF SendMessage
<1>4. \A i \in Reported' : \/ i \in Reported /\ channel'[i] = channel[i]
                           \/ channel'[i] = t.msg /\ t.msg.kind = "finished"
  <2> SUFFICES ASSUME NEW i \in Reported'
               PROVE  \/ i \in Reported /\ channel'[i] = channel[i]
                      \/ channel'[i] = t.msg /\ t.msg.kind = "finished"
    OBVIOUS
  <2>1. i \in 1 .. n /\ channel'[i].kind = "finished"
    BY <1>2 DEF Reported
  <2>2. CASE i = n
    BY <1>2, <2>1, <2>2
  <2>3. CASE i # n
    <3>1. i \in 1 .. Len(channel)
      BY <1>2, <2>1, <2>3
    <3>2. QED  BY <1>2, <2>1, <3>1 DEF Reported
  <2>4. QED  BY <2>2, <2>3
<1>5. \A i \in Reported' : \/ Ended(channel[i]) /\ channel'[i] = channel[i]
                           \/ Ended(t.msg) /\ channel'[i] = t.msg
  BY <1>1, <1>4 DEF Outcome
<1>6. \A i \in Reported' : (progress.state.is = IF channel'[i].ok THEN "completed" ELSE "failed")
  BY <1>5 DEF Ended
<1>7. QED  BY <1>3, <1>6 DEF Outcome, Ended, TellsTheSame

LEMMA ProcessTold ==
  ASSUME TypeOK, BackupOnce, Outcome, ProcessMessage
  PROVE  Outcome'
<1> DEFINE m == Head(channel)
<1>1. /\ channel # << >> /\ channel' = Tail(channel) /\ progress' = progress
      /\ Loaded(m) \/ Added(m) \/ Finished(m) \/ Verified(m) \/ Erred(m)
  BY DEF ProcessMessage
<1>2. /\ 1 \in DOMAIN channel /\ channel[1] = m
      /\ \A i \in DOMAIN channel' : i + 1 \in DOMAIN channel /\ channel'[i] = channel[i + 1]
  BY <1>1, HeadOfChannel
<1> HIDE DEF m
<1>3. \A i \in Reported' : i + 1 \in Reported /\ channel'[i] = channel[i + 1]
  BY <1>2 DEF Reported
<1>4. \A t \in tasks' : t \in tasks \/ t.kind = "reload"
  BY ProcessLeaves
<1>5. /\ \A t \in tasks' : t.kind = "send" /\ t.msg.kind = "finished" => Ended(t.msg)'
      /\ \A i \in Reported' : Ended(channel'[i])
  BY <1>1, <1>3, <1>4 DEF Outcome, Ended
<1>6. \A i \in Reported' : (Ended(channel[i]))'
  BY <1>1, <1>5 DEF Ended
<1>7. TellsTheSame' /\ (running' => info' # "backup" /\ error' # "backup")
  <2>1. CASE Finished(m)
    <3>1. 1 \in Reported
      BY <1>2, <2>1 DEF Finished, Reported
    <3>2. running /\ Ended(m)
      BY <1>2, <3>1 DEF BackupOnce, Outcome
    <3>3. info # "backup" /\ error # "backup" /\ running' = FALSE
      BY <2>1, <3>2 DEF Outcome, Finished
    <3>4. QED  BY <1>1, <2>1, <3>2, <3>3 DEF Finished, Tell, Ended, TellsTheSame
  <2>2. CASE Loaded(m) \/ Added(m) \/ Verified(m) \/ Erred(m)
    BY <1>1, <2>2 DEF Loaded, Added, Verified, Erred, Tell, Outcome, TellsTheSame
  <2>3. QED  BY <1>1, <2>1, <2>2
<1>8. QED  BY <1>5, <1>6, <1>7 DEF Outcome

LEMMA StartTold ==
  ASSUME BackupOnce, StartBackup
  PROVE  Outcome'
<1> DEFINE u == [id |-> FreeId, kind |-> "backup", at |-> "begin",
                 roots |-> 0, left |-> 0, handled |-> 0, ok |-> FALSE]
<1>1. u.kind = "backup"
  OBVIOUS
<1> HIDE DEF u
<1>2. /\ tasks' = tasks \cup {u} /\ ~ running /\ channel' = channel
      /\ info' = "none" /\ error' = "none"
  BY DEF StartBackup, Spawn, u
<1>3. NoTask /\ Reported' = {}
  BY <1>2 DEF BackupOnce, Reported
<1>4. \A t \in tasks' : ~ (t.kind = "send" /\ t.msg.kind = "finished")
  BY <1>1, <1>2, <1>3 DEF NoTask, IsBackup
<1>5. QED  BY <1>2, <1>3, <1>4 DEF Outcome, TellsTheSame

-----------------------------------------------------------------------------
LEMMA WindowStep ==
  ASSUME WindowInv, [Next]_vars
  PROVE  WindowInv'
<1> USE DEF WindowInv
<1>1. TypeOK' /\ RowsFit' /\ TasksApart'
  BY WindowTypes
<1> SUFFICES BackupOnce' /\ TrackerExact' /\ CountsOwn' /\ Outcome'
  BY <1>1
<1>2. ASSUME NEW t \in tasks, TaskStep(t)
      PROVE  BackupOnce' /\ TrackerExact' /\ CountsOwn' /\ Outcome'
  BY <1>2, WorkOnce, SendOnce, WorkTracked, WorkTold, SendTold
<1>3. CASE StartBackup
  BY <1>3, StartOnce, StartTracked, StartTold
<1>4. CASE ProcessMessage
  <2>1. progress' = progress /\ tasks \subseteq tasks' /\ \A t \in tasks' : t \in tasks \/ t.kind = "reload"
    BY <1>4, ProcessLeaves
  <2>2. TrackerExact' /\ CountsOwn'
    BY <2>1, TrackerRests
  <2>3. QED  BY <1>4, <2>2, ProcessOnce, ProcessTold
<1>5. ASSUME NEW u, Spawn(u), u.kind \in {"add", "verify"}, UNCHANGED <<running, info, error, channel, progress>>
      PROVE  BackupOnce' /\ TrackerExact' /\ CountsOwn' /\ Outcome'
  <2>1. BackupOnce'
    BY <1>5, ClickOnce DEF IsBackup
  <2>2. TrackerExact' /\ CountsOwn'
    BY <1>5, TrackerRests DEF Spawn
  <2>3. Outcome'
    BY <1>5, OutcomeRests DEF Spawn
  <2>4. QED  BY <2>1, <2>2, <2>3
<1>6. ASSUME NEW l \in List, NEW i \in ItemsOf(l), AddItem(l, i)
      PROVE  BackupOnce' /\ TrackerExact' /\ CountsOwn' /\ Outcome'
  <2> DEFINE u == [id |-> FreeId, kind |-> "add", list |-> l, item |-> i]
  <2>1. u.kind = "add"
    OBVIOUS
  <2> HIDE DEF u
  <2>2. Spawn(u) /\ UNCHANGED <<running, info, error, channel, progress>>
    BY <1>6 DEF AddItem, u
  <2>3. QED  BY <1>5, <2>1, <2>2
<1>7. CASE StartVerify
  <2> DEFINE u == [id |-> FreeId, kind |-> "verify"]
  <2>1. u.kind = "verify"
    OBVIOUS
  <2> HIDE DEF u
  <2>2. Spawn(u) /\ UNCHANGED <<running, info, error, channel, progress>>
    BY <1>7 DEF StartVerify, u
  <2>3. QED  BY <1>5, <2>1, <2>2
<1>8. CASE UNCHANGED vars
  BY <1>8 DEF vars, BackupOnce, NoTask, Reported, IsBackup, TrackerExact, IsRunning, CountsOwn, Own, Outcome,
                 Ended, TellsTheSame
<1>9. CASE BeginFrame \/ DrawOnly
  BY <1>9 DEF BeginFrame, DrawOnly, Draw, BackupOnce, NoTask, Reported, IsBackup, TrackerExact,
              IsRunning, CountsOwn, Own, Outcome, Ended, TellsTheSame
<1>10. QED  BY <1>2, <1>3, <1>4, <1>6, <1>7, <1>8, <1>9 DEF Next

LEMMA WindowInit == Init => WindowInv
<1> SUFFICES ASSUME Init PROVE WindowInv
  OBVIOUS
<1> DEFINE r == [id |-> 1, kind |-> "reload", list |-> "roots"]
           t == [id |-> 2, kind |-> "reload", list |-> "targets"]
<1>1. /\ r \in Task /\ r.id = 1 /\ r.kind = "reload"
      /\ t \in Task /\ t.id = 2 /\ t.kind = "reload"
  BY DEF Task, Reload, List
<1>2. tasks = {r, t}
  BY DEF Init
<1> HIDE DEF r, t
<1>3. IsLists(shown) /\ IsLists(db) /\ channel \in Seq(Message) /\ channel = << >>
  BY WindowAssumption, EmptySeq DEF Init, IsLists
<1>4. progress \in Progress /\ progress.state.is = "idle"
  BY DEF Init, Progress, BackupState
<1>5. IsFiniteSet(tasks)
  <2>1. IsFiniteSet({r} \cup {t})
    BY FS_Singleton, FS_AddElement
  <2>2. {r} \cup {t} = tasks
    BY <1>2
  <2>3. QED  BY <2>1, <2>2
<1>6. TypeOK
  <2>1. tasks \subseteq Task /\ clicks \in 0 .. MaxClicks
    BY <1>1, <1>2, WindowAssumption DEF Init
  <2>2. /\ running \in BOOLEAN /\ info = "none" /\ error = "none"
        /\ frame = "none" /\ screen = "none"
    BY DEF Init
  <2>3. QED  BY <1>3, <1>4, <2>1, <2>2 DEF TypeOK
<1>7. DOMAIN channel = {}
  BY <1>3
<1>8. RowsFit /\ TasksApart /\ CountsOwn
  BY <1>1, <1>2, <1>5, <1>7 DEF RowsFit, TasksApart, CountsOwn
<1>9. BackupOnce /\ TrackerExact
  BY <1>1, <1>2, <1>4, <1>7 DEF Init, BackupOnce, NoTask, IsBackup, Reported, TrackerExact, IsRunning
<1>10. Outcome
  BY <1>1, <1>2, <1>7 DEF Init, Outcome, Reported, TellsTheSame
<1>11. QED  BY <1>6, <1>8, <1>9, <1>10 DEF WindowInv

-----------------------------------------------------------------------------
(* The theorems. *)

(* The window's inductive invariant: rows go where they belong, tasks have *)
(* ids of their own, the one backup is a task or a message, and the        *)
(* tracker runs and counts for it alone.                                   *)
THEOREM WindowInductive == Spec => []WindowInv
BY WindowInit, WindowStep, PTL DEF Spec

(* Every list, message, task and counter of the window has its type.       *)
THEOREM WindowTypeCorrect == Spec => []TypeOK
<1>1. WindowInv => TypeOK
  BY DEF WindowInv
<1>2. QED  BY <1>1, WindowInductive, PTL

(* The button never starts a backup beside another, though a running one   *)
(* is known to the window only by backup_running and by the message that   *)
(* its task sends last (start_backup, process_messages).                   *)
THEOREM NeverTwoBackups == Spec => []OneBackup
<1>1. WindowInv => OneBackup
  <2> SUFFICES ASSUME WindowInv PROVE OneBackup
    OBVIOUS
  <2> DEFINE T == {t \in tasks : IsBackup(t)}
  <2>1. CASE ~ running
    <3>1. T = {} /\ Reported = {}
      BY <2>1 DEF WindowInv, BackupOnce, NoTask
    <3>2. QED  BY <2>1, <3>1, FS_EmptySet DEF OneBackup
  <2>2. CASE running /\ NoTask /\ \E i \in Reported : Reported = {i}
    <3>1. T = {} /\ Cardinality(Reported) = 1
      BY <2>2, FS_Singleton DEF NoTask
    <3>2. QED  BY <2>2, <3>1, FS_EmptySet DEF OneBackup
  <2>3. CASE running /\ Reported = {} /\ \E t \in tasks : IsBackup(t) /\ \A u \in tasks : IsBackup(u) => u = t
    <3>1. \E t : T = {t}
      BY <2>3
    <3>2. Cardinality(T) = 1 /\ Cardinality(Reported) = 0
      BY <2>3, <3>1, FS_Singleton, FS_EmptySet
    <3>3. QED  BY <2>3, <3>2 DEF OneBackup
  <2>4. QED  BY <2>1, <2>2, <2>3 DEF WindowInv, BackupOnce, TypeOK
<1>2. QED  BY <1>1, WindowInductive, PTL

(* The progress bar and the button agree: the tracker says "running" only  *)
(* while backup_running is set, and as long as the task is in run().       *)
THEOREM TrackerNeverStale == Spec => []TrackerAgrees
<1>1. WindowInv => TrackerAgrees
  BY DEF WindowInv, TrackerExact, TrackerAgrees, BackupOnce, NoTask, IsBackup
<1>2. QED  BY <1>1, WindowInductive, PTL

(* The message that the window shows of its last backup and the state that *)
(* the tracker shows of it agree: a start clears both messages, and the    *)
(* task tells the tracker first how it ended (start_backup).               *)
THEOREM MessageAgrees == Spec => []TellsTheSame
<1>1. WindowInv => TellsTheSame
  BY DEF WindowInv, Outcome
<1>2. QED  BY <1>1, WindowInductive, PTL

(* What CompletedCounts says of a step. *)
ReportsOwn == \A t \in tasks : ReportRun(t) /\ t.ok => progress'.state.files = t.handled

(* A completed backup reports the files that it handled in all its roots:  *)
(* run() sets the counters anew, and no other backup counts meanwhile.     *)
THEOREM CountIsOwn == Spec => CompletedCounts
<1>1. WindowInv /\ [Next]_vars => [ReportsOwn]_vars
  <2> SUFFICES ASSUME WindowInv, NEW t \in tasks, ReportRun(t), t.ok
               PROVE  progress'.state.files = t.handled
    BY DEF ReportsOwn
  <2>1. progress.processed = t.handled
    BY DEF WindowInv, CountsOwn, Own, ReportRun, BackupAt
  <2>2. progress'.state = [is |-> "completed", files |-> progress.processed]
    BY DEF ReportRun, Complete, WindowInv, TypeOK, Progress
  <2>3. QED  BY <2>1, <2>2
<1>2. Spec => [][ReportsOwn]_vars
  BY <1>1, WindowInductive, PTL DEF Spec
<1>3. QED  BY <1>2 DEF CompletedCounts, ReportsOwn
=============================================================================
