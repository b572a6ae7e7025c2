------------------------------- MODULE Remote -------------------------------
(***************************************************************************)
(* A remote source: RemoteSource (network/client.rs), on which a backup    *)
(* calls list_files once and then, file by file, hash_file and perhaps     *)
(* copy_file_to, and the task of the server that serves its connection     *)
(* (handle_connection, network/server.rs).  Between them is one TCP        *)
(* stream of frames (network/mod.rs).                                      *)
(*                                                                         *)
(* A reply does not say which request it answers: the two sides have to    *)
(* stay in step.  The field of of a frame records that here, for the       *)
(* properties, as does torn; no guard looks at them, and a client tells    *)
(* kinds apart only as far as parsing does.                                *)
(***************************************************************************)
EXTENDS Naturals, Sequences

CONSTANTS
  File,      \* the files below the server's root
  Lengths,   \* how many data frames a file may take; one, or several if
             \* somebody writes to it meanwhile
  Faults,    \* what may go wrong, a subset of FaultKind
  Platform,  \* where the server runs
  Absolute,  \* whether the server's root is an absolute path
  Cap,       \* bound: frames that one direction holds before a write waits
  None       \* no value

(* disk: the client cannot write a file; source: the server cannot read    *)
(* one; net: the connection breaks; crash: a side dies.                    *)
FaultKind == {"disk", "source", "net", "crash"}

ASSUME RemoteAssumption ==
  /\ Lengths \in [File -> SUBSET Nat] /\ \A f \in File : Lengths[f] # {}
  /\ Faults \subseteq FaultKind
  /\ Platform \in {"unix", "windows"}
  /\ Absolute \in BOOLEAN
  /\ Cap \in Nat \ {0}
  /\ None \notin File

VARIABLES
  toServer,  \* the requests on their way
  toClient,  \* the replies on their way
  cli,       \* the backup and its RemoteSource
  srv,       \* the server's task
  copied,    \* what copy_file_to returned Ok for: file -> frames written
  torn       \* history: a copy gave up and left frames unread

vars == <<toServer, toClient, cli, srv, copied, torn>>

ClientPC == {"off", "connected", "listing", "listed", "ready", "hashing",
             "hashed", "opening", "copying", "over"}
Waiting == {"listing", "hashing", "opening", "copying"}
ServerPC == {"none", "read", "stream", "gone"}

Steps   == {"root"} \cup File
Wire    == [absolute : BOOLEAN, steps : Seq(Steps)]
Request == [cmd : {"list", "hash", "read", "quit"}, path : Wire \cup {None}]
Reply   == [kind : {"list", "hash", "header", "error", "missing", "data", "end"},
            of   : File \cup {None},   \* the file it is about
            part : Nat]                \* of a data frame: which chunk

Client == [pc      : ClientPC,
           todo    : SUBSET File,
           file    : File \cup {None},   \* the file of the call
           of      : File \cup {None},   \* the file whose hash it got
           written : Seq(Reply)]         \* the frames written so far
Server == [pc : ServerPC, file : File \cup {None}, next : Nat]

(* The i-th read of a file finds more of it, or its end, as long as it is  *)
(* just then.                                                              *)
Reaches(f, i) == \E n \in Lengths[f] : i <= n
Stops(f, i)   == \E n \in Lengths[f] : i > n

(* Types, and the files that a call and an answer are about. *)
TypeOK ==
  /\ toServer \in Seq(Request) /\ Len(toServer) <= Cap
  /\ toClient \in Seq(Reply) /\ Len(toClient) <= Cap
  /\ cli \in Client
  /\ srv \in Server
  /\ copied \in [File -> Seq(Reply) \cup {None}]
  /\ torn \in BOOLEAN
  /\ cli.pc \in {"hashing", "hashed", "opening", "copying"} => cli.file \in File
  /\ srv.pc = "stream" =>
       srv.file \in File /\ srv.next > 0 /\ (srv.next = 1 \/ Reaches(srv.file, srv.next - 1))

Init ==
  /\ toServer = << >> /\ toClient = << >>
  /\ cli = [pc |-> "off", todo |-> {}, file |-> None, of |-> None, written |-> << >>]
  /\ srv = [pc |-> "none", file |-> None, next |-> 0]
  /\ copied = [f \in File |-> None]
  /\ torn = FALSE

-----------------------------------------------------------------------------
(* Paths *)

RootPath == [absolute |-> Absolute, steps |-> <<"root">>]
(* What scan_directory lists: the root joined with the file's path in it.  *)
PathOf(f) == [RootPath EXCEPT !.steps = Append(@, f)]

(* Mutant: the leading separator is trimmed on Windows as well. *)
ResolveTrimmed(p) == [RootPath EXCEPT !.steps = @ \o p.steps]

(* resolve_path: a path is joined to the root; an absolute one loses its   *)
(* leading '/', after which only a Windows path is still absolute, and     *)
(* Path::join takes an absolute path as it is.                             *)
Resolve(p) ==
  IF p.absolute /\ Platform = "windows" THEN p
  ELSE [RootPath EXCEPT !.steps = @ \o p.steps]

Opened(p) == {f \in File : PathOf(f) = Resolve(p)}

-----------------------------------------------------------------------------
(* The client *)

ClientAt(pc) == cli.pc = pc
ServerGone == srv.pc = "gone"

Ask(cmd, path) ==
  /\ Len(toServer) < Cap
  /\ toServer' = Append(toServer, [cmd |-> cmd, path |-> path])

Back == [cli EXCEPT !.pc = IF @ = "listing" THEN "over" ELSE "ready",
                    !.of = None, !.written = << >>]

(* RemoteSource::connect; the server's accept spawns the task. *)
Connect ==
  /\ ClientAt("off")
  /\ cli' = [cli EXCEPT !.pc = "connected"]
  /\ srv' = [srv EXCEPT !.pc = "read"]
  /\ UNCHANGED <<toServer, toClient, copied, torn>>

CallList ==
  /\ ClientAt("connected")
  /\ Ask("list", None)
  /\ cli' = [cli EXCEPT !.pc = "listing"]
  /\ UNCHANGED <<toClient, srv, copied, torn>>

(* ping lists the files and quits; a backup goes on with what changed. *)
Quit ==
  /\ ClientAt("listed")
  /\ Ask("quit", None)
  /\ cli' = [cli EXCEPT !.pc = "over"]
  /\ UNCHANGED <<toClient, srv, copied, torn>>
Begin ==
  /\ ClientAt("listed")
  /\ \E changed \in SUBSET File :
       cli' = [cli EXCEPT !.pc = "ready", !.todo = changed]
  /\ UNCHANGED <<toServer, toClient, srv, copied, torn>>

CallHash(f) ==
  /\ ClientAt("ready")
  /\ f \in cli.todo
  /\ Ask("hash", PathOf(f))
  /\ cli' = [cli EXCEPT !.pc = "hashing", !.todo = @ \ {f}, !.file = f]
  /\ UNCHANGED <<toClient, srv, copied, torn>>

(* The content is known: nothing is copied. *)
SkipCopy ==
  /\ ClientAt("hashed")
  /\ cli' = Back
  /\ UNCHANGED <<toServer, toClient, srv, copied, torn>>

CallCopy ==
  /\ ClientAt("hashed")
  /\ Ask("read", PathOf(cli.file))
  /\ cli' = [cli EXCEPT !.pc = "opening"]
  /\ UNCHANGED <<toClient, srv, copied, torn>>

(* read_frame; what the client makes of the frame follows. *)
Take(kinds) ==
  /\ toClient # << >>
  /\ Head(toClient).kind \in kinds
  /\ toClient' = Tail(toClient)
  /\ UNCHANGED <<toServer, srv>>

ReceiveList ==
  /\ ClientAt("listing")
  /\ Take({"list"})
  /\ cli' = [cli EXCEPT !.pc = "listed"]
  /\ UNCHANGED <<copied, torn>>

ReceiveHash ==
  /\ ClientAt("hashing")
  /\ Take({"hash"})
  /\ cli' = [cli EXCEPT !.pc = "hashed", !.of = Head(toClient).of]
  /\ UNCHANGED <<copied, torn>>

(* Any reply with ok set will do for a header. *)
ReceiveHeader ==
  /\ ClientAt("opening")
  /\ Take({"header", "hash"})
  /\ cli' = [cli EXCEPT !.pc = "copying"]
  /\ UNCHANGED <<copied, torn>>

(* Any frame that is not empty is written. *)
ReceiveData ==
  /\ ClientAt("copying")
  /\ Take({"list", "hash", "header", "error", "missing", "data"})
  /\ cli' = [cli EXCEPT !.written = Append(@, Head(toClient))]
  /\ UNCHANGED <<copied, torn>>

(* The empty frame ends the copy; a wrong length is only logged. *)
ReceiveEnd ==
  /\ ClientAt("copying")
  /\ Take({"end"})
  /\ copied' = [copied EXCEPT ![cli.file] = cli.written]
  /\ cli' = Back
  /\ UNCHANGED torn

(* Mutant: a file that is refused is asked for again. *)
ReceiveOtherRetry ==
  /\ \/ ClientAt("listing") /\ Take({"hash", "header", "error", "missing", "data", "end"})
     \/ ClientAt("hashing") /\ Take({"list", "header", "error", "missing", "data", "end"})
     \/ ClientAt("opening") /\ Take({"list", "error", "missing", "data", "end"})
  /\ cli' = [Back EXCEPT !.todo = IF ClientAt("listing") THEN @ ELSE @ \cup {cli.file}]
  /\ UNCHANGED <<copied, torn>>

(* A refusal, or a frame that is no reply to the call: the call fails.     *)
ReceiveOther ==
  /\ \/ ClientAt("listing") /\ Take({"hash", "header", "error", "missing", "data", "end"})
     \/ ClientAt("hashing") /\ Take({"list", "header", "error", "missing", "data", "end"})
     \/ ClientAt("opening") /\ Take({"list", "error", "missing", "data", "end"})
  /\ cli' = Back
  /\ UNCHANGED <<copied, torn>>

(* The file cannot be created, or a frame cannot be written to it: the     *)
(* call fails and leaves the rest of the answer unread.  Or the last flush *)
(* fails, when all of it has been read.                                    *)
DiskFails ==
  /\ "disk" \in Faults
  /\ \/ /\ \/ ClientAt("opening") /\ Take({"header", "hash"})
           \/ ClientAt("copying") /\ Take({"list", "hash", "header", "error", "missing", "data"})
        /\ torn' = TRUE
     \/ /\ ClientAt("copying") /\ Take({"end"})
        /\ UNCHANGED torn
  /\ cli' = Back
  /\ UNCHANGED copied

(* Mutant: a call that takes too long is given up. *)
CallFailsImpatient ==
  /\ \/ cli.pc \in Waiting
     \/ ServerGone /\ ClientAt("hashed")
  /\ cli' = Back
  /\ UNCHANGED <<toServer, toClient, srv, copied, torn>>

(* The other side has gone: reads end with an error once the buffer is     *)
(* empty, and so do writes.  The source is not connected again.            *)
CallFails ==
  /\ ServerGone
  /\ \/ cli.pc \in Waiting /\ toClient = << >>
     \/ ClientAt("hashed")
  /\ cli' = Back
  /\ UNCHANGED <<toServer, toClient, srv, copied, torn>>
HashCallFails(f) ==
  /\ ServerGone
  /\ ClientAt("ready")
  /\ f \in cli.todo
  /\ cli' = [cli EXCEPT !.todo = @ \ {f}]
  /\ UNCHANGED <<toServer, toClient, srv, copied, torn>>

(* The backup of the root ends: the stream is closed. *)
Hang ==
  /\ \/ ClientAt("ready") /\ cli.todo = {}
     \/ ServerGone /\ cli.pc \in {"connected", "listed"}
  /\ cli' = [cli EXCEPT !.pc = "over"]
  /\ UNCHANGED <<toServer, toClient, srv, copied, torn>>

-----------------------------------------------------------------------------
(* The server's task: handle_connection *)

Asked(cmd) == srv.pc = "read" /\ toServer # << >> /\ Head(toServer).cmd = cmd

Answer(kind, f, n) ==
  /\ Len(toClient) < Cap
  /\ toClient' = Append(toClient, [kind |-> kind, of |-> f, part |-> n])

ServeList ==
  /\ Asked("list")
  /\ Answer("list", None, 0)
  /\ toServer' = Tail(toServer)
  /\ UNCHANGED <<cli, srv, copied, torn>>

(* compute_hash; a file that cannot be opened or read is refused. *)
ServeHash ==
  /\ Asked("hash")
  /\ \/ \E f \in Opened(Head(toServer).path) : Answer("hash", f, 0)
     \/ Opened(Head(toServer).path) = {} /\ Answer("missing", None, 0)
     \/ "source" \in Faults /\ Answer("error", None, 0)
  /\ toServer' = Tail(toServer)
  /\ UNCHANGED <<cli, srv, copied, torn>>

ServeRead ==
  /\ Asked("read")
  /\ \/ \E f \in Opened(Head(toServer).path) :
          /\ Answer("header", f, 0)
          /\ srv' = [pc |-> "stream", file |-> f, next |-> 1]
     \/ /\ \/ Opened(Head(toServer).path) = {} /\ Answer("missing", None, 0)
           \/ "source" \in Faults /\ Answer("error", None, 0)
        /\ UNCHANGED srv
  /\ toServer' = Tail(toServer)
  /\ UNCHANGED <<cli, copied, torn>>

(* Mutant: one read too many. *)
StreamChunkOneMore ==
  /\ srv.pc = "stream"
  /\ srv.next = 1 \/ Reaches(srv.file, srv.next - 1)
  /\ Answer("data", srv.file, srv.next)
  /\ srv' = [srv EXCEPT !.next = @ + 1]
  /\ UNCHANGED <<toServer, cli, copied, torn>>

StreamChunk ==
  /\ srv.pc = "stream"
  /\ Reaches(srv.file, srv.next)
  /\ Answer("data", srv.file, srv.next)
  /\ srv' = [srv EXCEPT !.next = @ + 1]
  /\ UNCHANGED <<toServer, cli, copied, torn>>

(* Mutant: a read that fails is taken for the end of the file. *)
StreamEndEarly ==
  /\ srv.pc = "stream"
  /\ Stops(srv.file, srv.next) \/ "source" \in Faults
  /\ Answer("end", srv.file, 0)
  /\ srv' = [pc |-> "read", file |-> None, next |-> 0]
  /\ UNCHANGED <<toServer, cli, copied, torn>>

StreamEnd ==
  /\ srv.pc = "stream"
  /\ Stops(srv.file, srv.next)
  /\ Answer("end", srv.file, 0)
  /\ srv' = [pc |-> "read", file |-> None, next |-> 0]
  /\ UNCHANGED <<toServer, cli, copied, torn>>

(* The task ends: quit, or the end of the stream, or a write into a closed *)
(* one.                                                                    *)
ServerEnds ==
  /\ \/ Asked("quit")
     \/ ClientAt("over") /\ srv.pc \in {"read", "stream"}
  /\ srv' = [pc |-> "gone", file |-> None, next |-> 0]
  /\ UNCHANGED <<toServer, toClient, cli, copied, torn>>

(* A listing or a read of a file fails, and `?` ends the task; or it dies. *)
ServerFails ==
  /\ \/ "source" \in Faults /\ (Asked("list") \/ Asked("read") \/ srv.pc = "stream")
     \/ "crash" \in Faults /\ srv.pc \in {"read", "stream"}
  /\ srv' = [pc |-> "gone", file |-> None, next |-> 0]
  /\ UNCHANGED <<toServer, toClient, cli, copied, torn>>

ClientDies ==
  /\ "crash" \in Faults
  /\ cli.pc \notin {"off", "over"}
  /\ cli' = [cli EXCEPT !.pc = "over"]
  /\ UNCHANGED <<toServer, toClient, srv, copied, torn>>

(* The connection breaks: what was under way is lost. *)
Break ==
  /\ "net" \in Faults
  /\ srv.pc \in {"read", "stream"}
  /\ srv' = [pc |-> "gone", file |-> None, next |-> 0]
  /\ toServer' = << >> /\ toClient' = << >>
  /\ UNCHANGED <<cli, copied, torn>>

-----------------------------------------------------------------------------
Ended == ClientAt("over") /\ srv.pc \in {"none", "gone"} /\ UNCHANGED vars

ClientWork ==
  \/ CallList
  \/ Quit
  \/ Begin
  \/ \E f \in File : CallHash(f) \/ HashCallFails(f)
  \/ SkipCopy
  \/ CallCopy
  \/ ReceiveList
  \/ ReceiveHash
  \/ ReceiveHeader
  \/ ReceiveData
  \/ ReceiveEnd
  \/ ReceiveOther
  \/ DiskFails
  \/ CallFails
  \/ Hang
ServerWork ==
  \/ ServeList
  \/ ServeHash
  \/ ServeRead
  \/ StreamChunk
  \/ StreamEnd
  \/ ServerEnds

Failure == ServerFails \/ ClientDies \/ Break

Next == Connect \/ ClientWork \/ ServerWork \/ Failure \/ Ended

Spec == Init /\ [][Next]_vars

(* Both sides are tasks of a runtime, and nothing has to fail.  A side     *)
(* whose peer has died learns of it: a peer that falls silent without a    *)
(* reset is not in the model.                                              *)
FairSpec == Spec /\ WF_vars(ClientWork) /\ WF_vars(ServerWork)

-----------------------------------------------------------------------------
(* Between two calls nothing is on its way and the server awaits a         *)
(* request, whatever refusals and failures of the server came before.  It  *)
(* is so until the client fails to write a file (network/client.rs).       *)
InStep ==
  ~ torn /\ ~ ServerGone /\ cli.pc \in {"connected", "listed", "ready", "hashed"}
    => toServer = << >> /\ toClient = << >> /\ srv.pc = "read"

(* The hash that hash_file returns is that of the file it was asked for    *)
(* (network/mod.rs).  It is so until the client fails to write a file.     *)
OwnAnswers == ClientAt("hashed") => cli.of = cli.file
OwnAnswersInStep == ~ torn => OwnAnswers

(* When copy_file_to returns Ok it has written the file's content, all of  *)
(* it and in order, and nothing else (network/mod.rs), or of a file that   *)
(* grew or shrank meanwhile as much as it had at the last read.  It is so  *)
(* until the client fails to write a file.                                 *)
Data(f, i) == [kind |-> "data", of |-> f, part |-> i]
Whole(f, content) ==
  LET n == Len(content)
  IN /\ content = [i \in 1 .. n |-> Data(f, i)]
     /\ \E k, m \in Lengths[f] : k <= n /\ n <= m
CopiesAreWhole ==
  ~ torn => \A f \in File : copied[f] # None => Whole(f, copied[f])

(* Every path that list_files returned names a file on the server, too:    *)
(* the engine uses a source without asking where it is (network/mod.rs).   *)
ListedIsFound == \A i \in DOMAIN toClient : toClient[i].kind # "missing"

(* A remote source is a source, until the client fails to write a file:    *)
(* the frames, the server and what fails on the way stay behind the trait  *)
(* (network/mod.rs).                                                       *)
Op ==
  CASE cli.pc \in {"off", "connected", "listing", "listed"} -> "list"
    [] ClientAt("hashing") -> "hash"
    [] ClientAt("hashed") -> "hashed"
    [] cli.pc \in {"opening", "copying"} -> "copy"
    [] OTHER -> "none"
Own(yes) == IF yes THEN "own" ELSE "other"
Got == IF ClientAt("hashed") THEN Own(cli.of = cli.file) ELSE "none"
Held == [f \in File |-> IF copied[f] = None THEN "none" ELSE Own(Whole(f, copied[f]))]
Promise == INSTANCE Source WITH
  op <- Op, file <- cli.file, left <- cli.todo,
  answer <- Got, held <- Held, broken <- torn
SourceSpec == Promise!Spec

(* A backup from a remote source ends, and so does the server's task,      *)
(* whatever breaks, unless the client failed to write a file: after that   *)
(* each side may wait for ever for the other to read.                      *)
RemoteEnds ==
  ClientAt("connected") ~> torn \/ (ClientAt("over") /\ ServerGone)

-----------------------------------------------------------------------------
(* The inductive invariant behind them: what may be on its way, given how  *)
(* far the client is.                                                      *)

(* Nobody is asked for anything. *)
CalmPC == {"off", "connected", "listed", "ready", "hashed"}

(* What the i-th frame of the answer to a read of f may be. *)
IsFrame(r, f, i) ==
  \/ i = 1 /\ r = [kind |-> "header", of |-> f, part |-> 0]
  \/ i > 1 /\ Reaches(f, i - 1) /\ r = Data(f, i - 1)
  \/ i > 1 /\ Stops(f, i - 1) /\ r = [kind |-> "end", of |-> f, part |-> 0]

(* How many frames of it the client has taken. *)
Taken == IF ClientAt("copying") THEN 1 + Len(cli.written) ELSE 0

Connected == ClientAt("off") <=> srv.pc = "none"

(* A request names a file as the listing did. *)
RequestsNameFiles ==
  \A i \in DOMAIN toServer :
    toServer[i].cmd \in {"hash", "read"} => \E f \in File : toServer[i].path = PathOf(f)

(* A request on its way is the call's own, and the only thing on its way.  *)
Pending ==
  ~ ServerGone /\ ~ ClientAt("over") /\ toServer # << >> =>
    /\ Len(toServer) = 1
    /\ \/ ClientAt("listing") /\ toServer[1].cmd = "list"
       \/ ClientAt("hashing") /\ toServer[1] = [cmd |-> "hash", path |-> PathOf(cli.file)]
       \/ ClientAt("opening") /\ toServer[1] = [cmd |-> "read", path |-> PathOf(cli.file)]
    /\ toClient = << >>
    /\ srv.pc = "read"

Calm ==
  cli.pc \in CalmPC =>
    /\ toClient = << >>
    /\ ~ ServerGone => toServer = << >> /\ srv.pc # "stream"

(* An answer of one frame is about the file that was asked for. *)
Single ==
  cli.pc \in {"listing", "hashing"} =>
    /\ Len(toClient) <= 1
    /\ srv.pc # "stream"
    /\ \A i \in DOMAIN toClient :
         toClient[i].kind = "hash" => toClient[i].of = cli.file

(* A read is refused, or its answer comes frame by frame from the server,  *)
(* which is as far as the client and the frames on their way.              *)
Refused ==
  /\ ClientAt("opening")
  /\ Len(toClient) = 1
  /\ toClient[1].kind \in {"error", "missing"}
  /\ srv.pc # "stream"
InSequence ==
  /\ \A i \in DOMAIN toClient :
       /\ IsFrame(toClient[i], cli.file, Taken + i)
       /\ toClient[i].kind = "end" => i = Len(toClient) /\ srv.pc # "stream"
  /\ srv.pc = "stream" => /\ srv.file = cli.file
                          /\ srv.next = Taken + Len(toClient)
Streamed == cli.pc \in {"opening", "copying"} => Refused \/ InSequence

WrittenInOrder ==
  /\ cli.pc \notin {"copying", "over"} => cli.written = << >>
  /\ ClientAt("copying") =>
       \A i \in DOMAIN cli.written : cli.written[i] = Data(cli.file, i) /\ Reaches(cli.file, i)

LockStep ==
  ~ torn => Pending /\ Calm /\ Single /\ Streamed /\ WrittenInOrder

IInv ==
  /\ TypeOK
  /\ Connected
  /\ RequestsNameFiles
  /\ LockStep
  /\ OwnAnswersInStep
  /\ CopiesAreWhole
=============================================================================
