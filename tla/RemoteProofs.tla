---------------------------- MODULE RemoteProofs ----------------------------
(***************************************************************************)
(* Theorems about Remote for every set of files, every length of their     *)
(* contents, every capacity of the stream and every set of faults.         *)
(***************************************************************************)
EXTENDS Remote, SequenceTheorems, TLAPS

-----------------------------------------------------------------------------
(* Part 1: sequences and paths. *)

LEMMA AppendFacts ==
  ASSUME NEW S, NEW s \in Seq(S), NEW e \in S, NEW t, t = Append(s, e)
  PROVE  /\ t \in Seq(S) /\ t # << >>
         /\ Len(t) = Len(s) + 1
         /\ \A i \in DOMAIN t : IF i <= Len(s) THEN i \in DOMAIN s /\ t[i] = s[i]
                                ELSE i = Len(s) + 1 /\ t[i] = e
BY AppendProperties, LenProperties

LEMMA TailFacts ==
  ASSUME NEW S, NEW s \in Seq(S), s # << >>, NEW t, t = Tail(s)
  PROVE  /\ t \in Seq(S)
         /\ Len(s) \in Nat \ {0} /\ Len(t) = Len(s) - 1
         /\ Head(s) = s[1] /\ 1 \in DOMAIN s /\ s[1] \in S
         /\ \A i \in DOMAIN t : i \in 1 .. Len(s) - 1 /\ i + 1 \in DOMAIN s /\ t[i] = s[i + 1]
<1>1. Len(s) \in Nat \ {0} /\ DOMAIN s = 1 .. Len(s)
  BY EmptySeq, LenProperties
<1>2. t \in Seq(S) /\ Len(t) = Len(s) - 1 /\ \A i \in 1 .. Len(t) : t[i] = s[i + 1]
  BY HeadTailProperties
<1>3. DOMAIN t = 1 .. Len(s) - 1
  BY <1>1, <1>2, LenProperties
<1>4. Head(s) = s[1] /\ s[1] \in S
  BY <1>1, ElementOfSeq
<1>5. QED  BY <1>1, <1>2, <1>3, <1>4

(* What the listing calls a file: the root and the file in it. *)
LEMMA PathOfIs ==
  ASSUME NEW f \in File
  PROVE  /\ PathOf(f) \in Wire
         /\ PathOf(f).absolute = Absolute
         /\ PathOf(f).steps \in Seq(Steps)
         /\ Len(PathOf(f).steps) = 2 /\ PathOf(f).steps[2] = f
<1> DEFINE s == Append(<<"root">>, f)
<1>1. <<"root">> \in Seq(Steps) /\ f \in Steps /\ Len(<<"root">>) = 1
  BY DEF Steps
<1>2. s \in Seq(Steps) /\ Len(s) = 2 /\ s[2] = f
  BY <1>1, AppendProperties
<1>3. PathOf(f) = [absolute |-> Absolute, steps |-> s]
  BY DEF PathOf, RootPath
<1> HIDE DEF s
<1>4. QED  BY <1>2, <1>3, RemoteAssumption DEF Wire

(* A path from the listing opens the file it was listed for, or none. *)
LEMMA OpenedIs ==
  ASSUME NEW f \in File, NEW g \in File, g \in Opened(PathOf(f))
  PROVE  g = f
<1>1. CASE Resolve(PathOf(f)) = PathOf(f)
  <2>1. PathOf(g).steps[2] = PathOf(f).steps[2]
    BY <1>1 DEF Opened
  <2>2. QED  BY <2>1, PathOfIs
<1>2. CASE Resolve(PathOf(f)) # PathOf(f)
  <2>1. /\ RootPath.steps \in Seq(Steps) /\ Len(RootPath.steps) = 1
        /\ PathOf(f).steps \in Seq(Steps) /\ Len(PathOf(f).steps) = 2
        /\ Len(PathOf(g).steps) = 2
    BY PathOfIs DEF RootPath, Steps
  <2>2. Len(RootPath.steps \o PathOf(f).steps) = 1 + 2
    <3>1. Len(RootPath.steps \o PathOf(f).steps) = Len(RootPath.steps) + Len(PathOf(f).steps)
      BY <2>1, ConcatProperties, Zenon
    <3>2. QED  BY <2>1, <3>1, Zenon
  <2>3. Resolve(PathOf(f)).steps = RootPath.steps \o PathOf(f).steps
    BY <1>2 DEF Resolve, RootPath
  <2>4. PathOf(g).steps = RootPath.steps \o PathOf(f).steps
    BY <2>3 DEF Opened
  <2>5. 2 = 1 + 2
    BY <2>1, <2>2, <2>4, Zenon
  <2>6. QED  BY <2>5
<1>3. QED  BY <1>1, <1>2

(* On Windows, below an absolute root, it does open it. *)
LEMMA OpenedOnWindows ==
  ASSUME Platform = "windows", Absolute, NEW f \in File
  PROVE  f \in Opened(PathOf(f))
<1>1. Resolve(PathOf(f)) = PathOf(f)
  BY PathOfIs DEF Resolve
<1>2. QED  BY <1>1 DEF Opened

-----------------------------------------------------------------------------
(* Part 2: types, and requests that name a file as the listing did. *)

LEMMA BackOK ==
  ASSUME TypeOK
  PROVE  Back \in Client /\ Back.pc \in {"over", "ready"}
BY EmptySeq DEF TypeOK, Back, Client, ClientPC

LEMMA AskOK ==
  ASSUME TypeOK, RequestsNameFiles, NEW cmd, NEW path, Ask(cmd, path),
         \/ cmd \in {"list", "quit"} /\ path = None
         \/ cmd \in {"hash", "read"} /\ \E f \in File : path = PathOf(f)
  PROVE  /\ toServer' \in Seq(Request) /\ Len(toServer') <= Cap
         /\ RequestsNameFiles'
<1> DEFINE r == [cmd |-> cmd, path |-> path]
<1>1. r \in Request
  BY PathOfIs DEF Request
<1> HIDE DEF r
<1>2. toServer' = Append(toServer, r) /\ toServer \in Seq(Request) /\ Len(toServer) < Cap
  BY DEF Ask, TypeOK, r
<1>3. Len(toServer') = Len(toServer) + 1 /\ toServer' \in Seq(Request)
  BY <1>1, <1>2, AppendFacts
<1>4. ASSUME NEW i \in DOMAIN toServer'
      PROVE  (i \in DOMAIN toServer /\ toServer'[i] = toServer[i]) \/ toServer'[i] = r
  BY <1>1, <1>2, AppendFacts
<1>5. RequestsNameFiles'
  <2> SUFFICES ASSUME NEW i \in DOMAIN toServer', toServer'[i].cmd \in {"hash", "read"}
               PROVE  \E f \in File : toServer'[i].path = PathOf(f)
    BY DEF RequestsNameFiles, PathOf, RootPath
  <2>1. QED  BY <1>4 DEF RequestsNameFiles, r
<1>6. QED  BY <1>2, <1>3, <1>5, RemoteAssumption, LenProperties

LEMMA NextRequestOK ==
  ASSUME TypeOK, RequestsNameFiles, toServer # << >>, toServer' = Tail(toServer)
  PROVE  /\ toServer' \in Seq(Request) /\ Len(toServer') <= Cap
         /\ RequestsNameFiles'
         /\ Head(toServer).cmd \in {"hash", "read"} =>
              \E f \in File : Head(toServer).path = PathOf(f)
<1>1. toServer \in Seq(Request) /\ Len(toServer) <= Cap /\ Cap \in Nat
  BY RemoteAssumption DEF TypeOK
<1>2. /\ toServer' \in Seq(Request) /\ Len(toServer') = Len(toServer) - 1
      /\ Len(toServer) \in Nat /\ Head(toServer) = toServer[1] /\ 1 \in DOMAIN toServer
      /\ \A i \in DOMAIN toServer' : i + 1 \in DOMAIN toServer /\ toServer'[i] = toServer[i + 1]
  BY <1>1, TailFacts
<1>3. RequestsNameFiles'
  <2> SUFFICES ASSUME NEW i \in DOMAIN toServer', toServer'[i].cmd \in {"hash", "read"}
               PROVE  \E f \in File : toServer'[i].path = PathOf(f)
    BY DEF RequestsNameFiles, PathOf, RootPath
  <2>1. QED  BY <1>2 DEF RequestsNameFiles
<1>4. QED  BY <1>1, <1>2, <1>3 DEF RequestsNameFiles

LEMMA AnswerOK ==
  ASSUME TypeOK, NEW r \in Reply, Len(toClient) < Cap, toClient' = Append(toClient, r)
  PROVE  toClient' \in Seq(Reply) /\ Len(toClient') <= Cap
<1>1. toClient \in Seq(Reply) /\ Cap \in Nat
  BY RemoteAssumption DEF TypeOK
<1>2. toClient' \in Seq(Reply) /\ Len(toClient') = Len(toClient) + 1 /\ Len(toClient) \in Nat
  BY <1>1, AppendFacts, LenProperties
<1>3. QED  BY <1>1, <1>2

LEMMA TakeOK ==
  ASSUME TypeOK, NEW kinds, Take(kinds)
  PROVE  /\ toClient' \in Seq(Reply) /\ Len(toClient') <= Cap
         /\ Head(toClient) \in Reply /\ Head(toClient).kind \in kinds
<1>1. toClient \in Seq(Reply) /\ Cap \in Nat /\ Len(toClient) <= Cap
  BY RemoteAssumption DEF TypeOK
<1>2. /\ toClient' \in Seq(Reply) /\ Len(toClient') = Len(toClient) - 1
      /\ Len(toClient) \in Nat /\ Head(toClient) \in Reply
  BY <1>1, TailFacts DEF Take
<1>3. QED  BY <1>1, <1>2 DEF Take

Typed == TypeOK /\ Connected /\ RequestsNameFiles

(* A step of the client that leaves the requests and the server alone. *)
LEMMA ClientTypes ==
  ASSUME Typed, UNCHANGED <<toServer, srv>>,
         toClient' \in Seq(Reply), Len(toClient') <= Cap,
         cli' \in Client, cli.pc # "off", cli'.pc # "off",
         cli'.pc \in {"hashing", "hashed", "opening", "copying"} => cli'.file \in File,
         copied' \in [File -> Seq(Reply) \cup {None}], torn' \in BOOLEAN
  PROVE  Typed'
<1>1. RequestsNameFiles'
  BY DEF Typed, RequestsNameFiles, PathOf, RootPath
<1>2. Connected'
  BY DEF Typed, Connected, ClientAt
<1>3. TypeOK'
  BY DEF Typed, TypeOK
<1>4. QED  BY <1>1, <1>2, <1>3 DEF Typed

(* A request goes out with what the client notes of it. *)
LEMMA AskTypes ==
  ASSUME Typed, NEW cmd, NEW path, Ask(cmd, path),
         \/ cmd \in {"list", "quit"} /\ path = None
         \/ cmd \in {"hash", "read"} /\ \E f \in File : path = PathOf(f),
         UNCHANGED <<toClient, srv, copied, torn>>,
         cli' \in Client, cli.pc # "off", cli'.pc # "off",
         cli'.pc \in {"hashing", "hashed", "opening", "copying"} => cli'.file \in File
  PROVE  Typed'
<1>1. toServer' \in Seq(Request) /\ Len(toServer') <= Cap /\ RequestsNameFiles'
  BY AskOK DEF Typed
<1>2. Connected'
  BY DEF Typed, Connected, ClientAt
<1>3. TypeOK'
  BY <1>1 DEF Typed, TypeOK
<1>4. QED  BY <1>1, <1>2, <1>3 DEF Typed

LEMMA CallTypes ==
  ASSUME Typed, CallList \/ Quit \/ CallCopy \/ \E f \in File : CallHash(f)
  PROVE  Typed'
<1>1. TypeOK
  BY DEF Typed
<1>2. CASE CallList
  <2>1. cli' \in Client /\ cli.pc # "off" /\ cli'.pc = "listing"
    BY <1>1, <1>2 DEF CallList, TypeOK, Client, ClientPC, ClientAt
  <2>2. QED  BY <1>2, <2>1, AskTypes DEF CallList
<1>3. CASE Quit
  <2>1. cli' \in Client /\ cli.pc # "off" /\ cli'.pc = "over"
    BY <1>1, <1>3 DEF Quit, TypeOK, Client, ClientPC, ClientAt
  <2>2. QED  BY <1>3, <2>1, AskTypes DEF Quit
<1>4. CASE CallCopy
  <2>1. cli' \in Client /\ cli.pc # "off" /\ cli'.pc = "opening" /\ cli'.file = cli.file
    BY <1>1, <1>4 DEF CallCopy, TypeOK, Client, ClientPC, ClientAt
  <2>2. cli.file \in File
    BY <1>1, <1>4 DEF CallCopy, ClientAt, TypeOK
  <2>3. QED  BY <1>4, <2>1, <2>2, AskTypes DEF CallCopy
<1>5. ASSUME NEW f \in File, CallHash(f)
      PROVE  Typed'
  <2>1. cli' \in Client /\ cli.pc # "off" /\ cli'.pc = "hashing" /\ cli'.file = f
    BY <1>1, <1>5 DEF CallHash, TypeOK, Client, ClientPC, ClientAt
  <2>2. QED  BY <1>5, <2>1, AskTypes DEF CallHash
<1>6. QED  BY <1>2, <1>3, <1>4, <1>5

LEMMA ReceiveTypes ==
  ASSUME Typed,
         \/ ReceiveList \/ ReceiveHash \/ ReceiveHeader \/ ReceiveData \/ ReceiveEnd
         \/ ReceiveOther \/ DiskFails
  PROVE  Typed'
<1>1. TypeOK /\ Back \in Client /\ Back.pc \in {"over", "ready"}
  BY BackOK DEF Typed
<1>2. \E kinds : Take(kinds)
  BY DEF ReceiveList, ReceiveHash, ReceiveHeader, ReceiveData, ReceiveEnd, ReceiveOther, DiskFails
<1>3. /\ toClient' \in Seq(Reply) /\ Len(toClient') <= Cap /\ Head(toClient) \in Reply
      /\ UNCHANGED <<toServer, srv>>
  BY <1>1, <1>2, TakeOK DEF Take
<1>4. Append(cli.written, Head(toClient)) \in Seq(Reply)
  BY <1>1, <1>3, AppendProperties DEF TypeOK, Client
<1>5. /\ cli' \in Client /\ cli.pc # "off" /\ cli'.pc # "off"
      /\ cli'.pc \in {"hashing", "hashed", "opening", "copying"} => cli'.file \in File
  <2>1. CASE ReceiveList
    BY <1>1, <2>1 DEF ReceiveList, TypeOK, Client, ClientPC, ClientAt
  <2>2. CASE ReceiveHash
    BY <1>1, <1>3, <2>2 DEF ReceiveHash, TypeOK, Client, ClientPC, ClientAt, Reply
  <2>3. CASE ReceiveHeader
    BY <1>1, <2>3 DEF ReceiveHeader, TypeOK, Client, ClientPC, ClientAt
  <2>4. CASE ReceiveData
    BY <1>1, <1>4, <2>4 DEF ReceiveData, TypeOK, Client, ClientPC, ClientAt
  <2>5. CASE ReceiveEnd \/ ReceiveOther \/ DiskFails
    BY <1>1, <2>5 DEF ReceiveEnd, ReceiveOther, DiskFails, ClientAt
  <2>6. QED  BY <2>1, <2>2, <2>3, <2>4, <2>5
<1>6. copied' \in [File -> Seq(Reply) \cup {None}] /\ torn' \in BOOLEAN
  <2>1. CASE ReceiveEnd
    BY <1>1, <2>1 DEF ReceiveEnd, TypeOK, Client
  <2>2. CASE ~ ReceiveEnd
    BY <1>1, <2>2 DEF ReceiveList, ReceiveHash, ReceiveHeader, ReceiveData, ReceiveOther,
                      DiskFails, TypeOK
  <2>3. QED  BY <2>1, <2>2
<1>7. QED  BY <1>3, <1>5, <1>6, ClientTypes

(* Steps of the client that neither ask nor take. *)
LEMMA SilentTypes ==
  ASSUME Typed,
         \/ Begin \/ SkipCopy \/ CallFails \/ (\E f \in File : HashCallFails(f))
         \/ Hang \/ ClientDies
  PROVE  Typed'
<1>1. TypeOK /\ Back \in Client /\ Back.pc \in {"over", "ready"}
  BY BackOK DEF Typed
<1>2. /\ UNCHANGED <<toServer, srv, toClient, copied, torn>>
      /\ toClient \in Seq(Reply) /\ Len(toClient) <= Cap
      /\ copied \in [File -> Seq(Reply) \cup {None}] /\ torn \in BOOLEAN
  BY <1>1 DEF Begin, SkipCopy, CallFails, HashCallFails, Hang, ClientDies, TypeOK
<1>3. cli.pc # "off" /\ cli' \in Client /\ cli'.pc \in {"ready", "over"}
  <2>1. CASE Begin
    BY <1>1, <2>1 DEF Begin, TypeOK, Client, ClientPC, ClientAt
  <2>2. CASE SkipCopy \/ CallFails
    BY <1>1, <2>2 DEF SkipCopy, CallFails, Waiting, ClientAt
  <2>3. ASSUME NEW f \in File, HashCallFails(f)
        PROVE  cli.pc # "off" /\ cli' \in Client /\ cli'.pc = "ready"
    BY <1>1, <2>3 DEF HashCallFails, TypeOK, Client, ClientPC, ClientAt
  <2>4. CASE Hang \/ ClientDies
    <3>1. cli' = [cli EXCEPT !.pc = "over"] /\ cli.pc # "off"
      BY <2>4 DEF Hang, ClientDies, ClientAt
    <3>2. QED  BY <1>1, <3>1 DEF TypeOK, Client, ClientPC
  <2>5. QED  BY <2>1, <2>2, <2>3, <2>4
<1>4. QED  BY <1>2, <1>3, ClientTypes

(* Steps of the server. *)
LEMMA ServerTypes ==
  ASSUME Typed, UNCHANGED <<cli, copied, torn>>,
         \/ UNCHANGED toServer
         \/ toServer # << >> /\ toServer' = Tail(toServer)
         \/ toServer' = << >>,
         toClient' \in Seq(Reply), Len(toClient') <= Cap,
         srv' \in Server, srv.pc # "none", srv'.pc # "none",
         srv'.pc = "stream" =>
           srv'.file \in File /\ srv'.next > 0 /\ (srv'.next = 1 \/ Reaches(srv'.file, srv'.next - 1))
  PROVE  Typed'
<1>1. TypeOK /\ RequestsNameFiles /\ Cap \in Nat
  BY RemoteAssumption DEF Typed
<1>2. toServer' \in Seq(Request) /\ Len(toServer') <= Cap /\ RequestsNameFiles'
  <2>1. CASE UNCHANGED toServer
    BY <1>1, <2>1 DEF TypeOK, RequestsNameFiles, PathOf, RootPath
  <2>2. CASE toServer # << >> /\ toServer' = Tail(toServer)
    BY <1>1, <2>2, NextRequestOK
  <2>3. CASE toServer' = << >>
    BY <1>1, <2>3, EmptySeq DEF RequestsNameFiles
  <2>4. QED  BY <2>1, <2>2, <2>3
<1>3. Connected'
  BY DEF Typed, Connected, ClientAt
<1>4. TypeOK'
  BY <1>1, <1>2 DEF TypeOK, Reaches
<1>5. QED  BY <1>2, <1>3, <1>4 DEF Typed

LEMMA ServeTypes ==
  ASSUME Typed,
         \/ ServeList \/ ServeHash \/ ServeRead \/ StreamChunk \/ StreamEnd
         \/ ServerEnds \/ ServerFails \/ Break
  PROVE  Typed'
<1>1. TypeOK
  BY DEF Typed
<1>2. ASSUME NEW kind \in {"list", "hash", "header", "error", "missing", "data", "end"},
             NEW f \in File \cup {None}, NEW n \in Nat, Answer(kind, f, n)
      PROVE  toClient' \in Seq(Reply) /\ Len(toClient') <= Cap
  <2> DEFINE r == [kind |-> kind, of |-> f, part |-> n]
  <2>1. r \in Reply
    BY DEF Reply
  <2>2. QED  BY <1>1, <1>2, <2>1, AnswerOK DEF Answer
<1>3. CASE ServeList
  <2>1. toClient' \in Seq(Reply) /\ Len(toClient') <= Cap
    BY <1>2, <1>3 DEF ServeList
  <2>2. QED  BY <1>1, <1>3, <2>1, ServerTypes DEF ServeList, Asked, TypeOK
<1>4. CASE ServeHash
  <2>1. toClient' \in Seq(Reply) /\ Len(toClient') <= Cap
    BY <1>2, <1>4 DEF ServeHash, Opened
  <2>2. QED  BY <1>1, <1>4, <2>1, ServerTypes DEF ServeHash, Asked, TypeOK
<1>5. CASE ServeRead
  <2>1. toClient' \in Seq(Reply) /\ Len(toClient') <= Cap
    BY <1>2, <1>5 DEF ServeRead, Opened
  <2>2. /\ srv' \in Server /\ srv.pc = "read" /\ srv'.pc # "none"
        /\ srv'.pc = "stream" => srv'.file \in File /\ srv'.next = 1
    BY <1>1, <1>5 DEF ServeRead, Opened, Asked, TypeOK, Server, ServerPC
  <2>3. QED  BY <1>5, <2>1, <2>2, ServerTypes DEF ServeRead, Asked
<1>6. CASE StreamChunk
  <2>1. srv \in Server /\ srv.file \in File /\ srv.next \in Nat
    BY <1>1, <1>6 DEF StreamChunk, TypeOK, Server
  <2>2. toClient' \in Seq(Reply) /\ Len(toClient') <= Cap
    BY <1>2, <1>6, <2>1 DEF StreamChunk
  <2>3. /\ srv' \in Server /\ srv'.pc = "stream"
        /\ srv'.file = srv.file /\ srv'.next = srv.next + 1
    BY <1>6, <2>1 DEF StreamChunk, Server
  <2>4. srv'.next > 0 /\ srv'.next - 1 = srv.next
    BY <2>1, <2>3
  <2>5. Reaches(srv'.file, srv'.next - 1)
    BY <1>6, <2>3, <2>4 DEF StreamChunk
  <2>6. QED  BY <1>6, <2>1, <2>2, <2>3, <2>4, <2>5, ServerTypes DEF StreamChunk
<1>7. CASE StreamEnd
  <2>1. srv.file \in File
    BY <1>1, <1>7 DEF StreamEnd, TypeOK
  <2>2. toClient' \in Seq(Reply) /\ Len(toClient') <= Cap
    BY <1>2, <1>7, <2>1 DEF StreamEnd
  <2>3. srv' \in Server /\ srv'.pc = "read"
    BY <1>7 DEF StreamEnd, Server, ServerPC
  <2>4. QED  BY <1>7, <2>2, <2>3, ServerTypes DEF StreamEnd
<1>8. CASE ServerEnds \/ ServerFails
  <2>1. srv' \in Server /\ srv'.pc = "gone" /\ srv.pc # "none"
    BY <1>8 DEF ServerEnds, ServerFails, Asked, Server, ServerPC
  <2>2. UNCHANGED <<cli, copied, torn, toServer, toClient>>
    BY <1>8 DEF ServerEnds, ServerFails
  <2>3. QED  BY <1>1, <2>1, <2>2, ServerTypes DEF TypeOK
<1>9. CASE Break
  <2>1. srv' \in Server /\ srv'.pc = "gone" /\ srv.pc # "none"
    BY <1>9 DEF Break, Server, ServerPC
  <2>2. toClient' \in Seq(Reply) /\ Len(toClient') <= Cap
    BY <1>9, EmptySeq, RemoteAssumption DEF Break
  <2>3. QED  BY <1>9, <2>1, <2>2, ServerTypes DEF Break
<1>10. QED  BY <1>3, <1>4, <1>5, <1>6, <1>7, <1>8, <1>9

LEMMA ConnectTypes ==
  ASSUME Typed, Connect
  PROVE  Typed'
<1>1. /\ cli' \in Client /\ cli'.pc = "connected"
      /\ srv' \in Server /\ srv'.pc = "read"
  BY DEF Typed, TypeOK, Connect, Client, ClientPC, Server, ServerPC
<1>2. TypeOK' /\ Connected'
  BY <1>1 DEF Typed, TypeOK, Connect, Connected, ClientAt
<1>3. RequestsNameFiles'
  BY DEF Typed, Connect, RequestsNameFiles, PathOf, RootPath
<1>4. QED  BY <1>2, <1>3 DEF Typed

LEMMA NextTypes == Typed /\ [Next]_vars => Typed'
<1> SUFFICES ASSUME Typed, [Next]_vars
             PROVE  Typed'
  OBVIOUS
<1>1. CASE UNCHANGED vars
  BY <1>1 DEF vars, Typed, TypeOK, Connected, RequestsNameFiles, ClientAt, PathOf, RootPath
<1>2. CASE Connect
  BY <1>2, ConnectTypes
<1>3. CASE ClientWork
  BY <1>3, CallTypes, ReceiveTypes, SilentTypes DEF ClientWork
<1>4. CASE ServerWork
  BY <1>4, ServeTypes DEF ServerWork
<1>5. CASE Failure
  BY <1>5, ServeTypes, SilentTypes DEF Failure
<1>6. QED  BY <1>1, <1>2, <1>3, <1>4, <1>5 DEF Next, Ended

LEMMA InitTypes == Init => Typed
<1> SUFFICES ASSUME Init
             PROVE  Typed
  OBVIOUS
<1>1. cli \in Client /\ srv \in Server
  BY EmptySeq DEF Init, Client, ClientPC, Server, ServerPC
<1>2. toServer \in Seq(Request) /\ Len(toServer) <= Cap
  BY RemoteAssumption, EmptySeq DEF Init
<1>3. toClient \in Seq(Reply) /\ Len(toClient) <= Cap
  BY RemoteAssumption, EmptySeq DEF Init
<1>4. TypeOK
  BY <1>1, <1>2, <1>3 DEF Init, TypeOK
<1>5. QED  BY <1>4 DEF Init, Typed, Connected, RequestsNameFiles, ClientAt

(* Every state is well typed, the client and the server's task begin       *)
(* together, and every request on its way names a file as the listing did  *)
(* (network/client.rs, network/server.rs).                                 *)
THEOREM TypeCorrect == Spec => [](TypeOK /\ Connected /\ RequestsNameFiles)
<1>1. Spec => []Typed
  BY InitTypes, NextTypes, PTL DEF Spec
<1>2. Typed => TypeOK /\ Connected /\ RequestsNameFiles
  BY DEF Typed
<1>3. QED  BY <1>1, <1>2, PTL

-----------------------------------------------------------------------------
(* Part 3: client and server in step.  In step means the whole of LockStep *)
(* and what it is for.                                                     *)

InLock == Pending /\ Calm /\ Single /\ Streamed /\ WrittenInOrder /\ OwnAnswers

(* The state that a step leaves behind has one of three simple shapes, or  *)
(* an answer is under way.                                                 *)

(* Nothing is under way. *)
LEMMA CalmLock ==
  ASSUME toClient' = << >>, cli'.pc \in {"connected", "listed", "ready", "hashed"},
         ServerGone' \/ (toServer' = << >> /\ srv'.pc # "stream"),
         cli'.written = << >>, cli'.pc = "hashed" => cli'.of = cli'.file
  PROVE  InLock'
<1>1. Pending' /\ Calm' /\ Single' /\ Streamed' /\ OwnAnswers'
  BY DEF Pending, Calm, Single, Streamed, OwnAnswers, ClientAt
<1>2. WrittenInOrder'
  BY DEF WrittenInOrder, ClientAt
<1>3. QED  BY <1>1, <1>2 DEF InLock

(* The client has hung up. *)
LEMMA OverLock ==
  ASSUME cli'.pc = "over"
  PROVE  InLock'
BY DEF InLock, Pending, Calm, CalmPC, Single, Streamed, WrittenInOrder, OwnAnswers, ClientAt

(* A request is all that is under way, or its server has gone. *)
LEMMA AskedLock ==
  ASSUME Typed', toClient' = << >>, cli'.written = << >>, srv'.pc \in {"read", "gone"},
         \/ /\ cli'.pc = "listing"
            /\ ServerGone' \/ (Len(toServer') = 1 /\ toServer'[1].cmd = "list")
         \/ /\ cli'.pc = "hashing"
            /\ \/ ServerGone'
               \/ /\ Len(toServer') = 1
                  /\ toServer'[1] = [cmd |-> "hash", path |-> PathOf(cli'.file)]
         \/ /\ cli'.pc = "opening"
            /\ \/ ServerGone'
               \/ /\ Len(toServer') = 1
                  /\ toServer'[1] = [cmd |-> "read", path |-> PathOf(cli'.file)]
  PROVE  InLock'
<1>1. Pending'
  BY DEF Pending, ServerGone, ClientAt, PathOf, RootPath
<1>2. Calm' /\ OwnAnswers'
  BY DEF Calm, CalmPC, OwnAnswers, ClientAt
<1>3. Single'
  BY EmptySeq DEF Single
<1>4. Streamed'
  <2> SUFFICES ASSUME cli'.pc = "opening"
               PROVE  InSequence'
    BY DEF Streamed, ClientAt
  <2>1. DOMAIN toClient' = {} /\ srv'.pc # "stream"
    BY EmptySeq
  <2>2. QED  BY <2>1 DEF InSequence
<1>5. WrittenInOrder'
  BY DEF WrittenInOrder, ClientAt
<1>6. QED  BY <1>1, <1>2, <1>3, <1>4, <1>5 DEF InLock

(* A calm client: what it knows. *)
LEMMA WhenCalm ==
  ASSUME Typed, InLock, cli.pc \in CalmPC, cli.pc # "off"
  PROVE  /\ toClient = << >> /\ cli.written = << >>
         /\ srv.pc \in {"read", "gone"}
         /\ ~ ServerGone => toServer = << >>
BY DEF Typed, TypeOK, Connected, Server, ServerPC, InLock, Calm, CalmPC, WrittenInOrder,
       ClientAt, ServerGone

LEMMA CallLock ==
  ASSUME Typed, Typed', InLock, CallList \/ Quit \/ CallCopy \/ \E f \in File : CallHash(f)
  PROVE  InLock'
<1> DEFINE Noted(pc, cmd, path) ==
      /\ cli'.pc = pc /\ cli'.written = cli.written
      /\ ServerGone' \/ (Len(toServer') = 1 /\ toServer'[1] = [cmd |-> cmd, path |-> path])
<1>1. ASSUME NEW cmd, NEW path, Ask(cmd, path), ~ ServerGone, cli.pc \in CalmPC, cli.pc # "off"
      PROVE  Len(toServer') = 1 /\ toServer'[1] = [cmd |-> cmd, path |-> path]
  BY <1>1, WhenCalm DEF Ask
<1>2. CASE CallList
  <2>1. Noted("listing", "list", None)
    BY <1>1, <1>2 DEF CallList, ClientAt, CalmPC, Typed, TypeOK, Client, ServerGone
  <2>2. QED  BY <1>2, <2>1, WhenCalm, AskedLock DEF CallList, ClientAt, CalmPC
<1>3. CASE Quit
  BY <1>3, OverLock DEF Quit, ClientAt, Typed, TypeOK, Client
<1>4. CASE CallCopy
  <2>1. Noted("opening", "read", PathOf(cli.file)) /\ cli'.file = cli.file
    BY <1>1, <1>4 DEF CallCopy, ClientAt, CalmPC, Typed, TypeOK, Client, ServerGone
  <2>2. QED  BY <1>4, <2>1, WhenCalm, AskedLock DEF CallCopy, ClientAt, CalmPC
<1>5. ASSUME NEW f \in File, CallHash(f)
      PROVE  InLock'
  <2>1. Noted("hashing", "hash", PathOf(f)) /\ cli'.file = f
    BY <1>1, <1>5 DEF CallHash, ClientAt, CalmPC, Typed, TypeOK, Client, ServerGone
  <2>2. QED  BY <1>5, <2>1, WhenCalm, AskedLock DEF CallHash, ClientAt, CalmPC
<1>6. QED  BY <1>2, <1>3, <1>4, <1>5

LEMMA BackIs ==
  ASSUME Typed
  PROVE  /\ Back.pc = (IF ClientAt("listing") THEN "over" ELSE "ready")
         /\ Back.written = << >>
BY DEF Typed, TypeOK, Client, Back, ClientAt

(* Connecting, and the steps of the client that neither ask nor take. *)
LEMMA SilentLock ==
  ASSUME Typed, Typed', InLock,
         \/ Connect \/ Begin \/ SkipCopy \/ CallFails \/ (\E f \in File : HashCallFails(f))
         \/ Hang \/ ClientDies
  PROVE  InLock'
<1>1. CASE Connect
  <2>1. /\ cli.pc = "off" /\ cli'.pc = "connected" /\ cli'.written = << >>
        /\ toClient' = << >> /\ toServer' = << >> /\ srv'.pc = "read"
    BY <1>1 DEF Connect, ClientAt, Typed, TypeOK, Client, Connected, Server, InLock, Calm,
                CalmPC, WrittenInOrder, ServerGone
  <2>2. QED  BY <2>1, CalmLock
<1>2. CASE Begin \/ SkipCopy \/ \E f \in File : HashCallFails(f)
  <2>1. cli.pc \in CalmPC /\ cli.pc # "off" /\ UNCHANGED <<toServer, toClient, srv>>
    BY <1>2 DEF Begin, SkipCopy, HashCallFails, ClientAt, CalmPC
  <2>2. CASE Begin
    <3>1. cli'.pc = "ready" /\ cli'.written = cli.written
      BY <2>2 DEF Begin, Typed, TypeOK, Client
    <3>2. QED  BY <2>1, <3>1, WhenCalm, CalmLock DEF ServerGone
  <2>3. CASE SkipCopy
    <3>1. cli'.pc = "ready" /\ cli'.written = << >>
      BY <2>3, BackIs DEF SkipCopy, ClientAt
    <3>2. QED  BY <2>1, <3>1, WhenCalm, CalmLock DEF ServerGone
  <2>4. ASSUME NEW f \in File, HashCallFails(f)
        PROVE  InLock'
    <3>1. cli'.pc = "ready" /\ cli'.written = cli.written
      BY <2>4 DEF HashCallFails, ClientAt, Typed, TypeOK, Client
    <3>2. QED  BY <2>1, <3>1, WhenCalm, CalmLock DEF ServerGone
  <2>5. QED  BY <1>2, <2>2, <2>3, <2>4
<1>3. CASE CallFails
  <2>1. UNCHANGED <<toServer, toClient, srv>> /\ ServerGone /\ toClient = << >>
    BY <1>3 DEF CallFails, InLock, Calm, CalmPC, ClientAt
  <2>2. cli'.pc \in {"ready", "over"} /\ cli'.written = << >>
    BY <1>3, BackIs DEF CallFails
  <2>3. QED  BY <2>1, <2>2, CalmLock, OverLock DEF ServerGone
<1>4. CASE Hang \/ ClientDies
  <2>1. cli'.pc = "over"
    BY <1>4 DEF Hang, ClientDies, Typed, TypeOK, Client
  <2>2. QED  BY <2>1, OverLock
<1>5. QED  BY <1>1, <1>2, <1>3, <1>4

-----------------------------------------------------------------------------
(* Answers.  Where a client waits and a frame has come. *)

LEMMA TakeIs ==
  ASSUME Typed, NEW kinds, Take(kinds)
  PROVE  /\ UNCHANGED <<toServer, srv>>
         /\ Len(toClient) \in Nat \ {0} /\ Len(toClient') = Len(toClient) - 1
         /\ toClient[1] = Head(toClient) /\ toClient[1].kind \in kinds /\ 1 \in DOMAIN toClient
         /\ \A i \in DOMAIN toClient' :
              /\ i \in Nat \ {0} /\ i + 1 \in DOMAIN toClient
              /\ toClient'[i] = toClient[i + 1]
         /\ Len(toClient) = 1 => toClient' = << >>
<1>1. toClient \in Seq(Reply) /\ toClient # << >> /\ toClient' = Tail(toClient)
  BY DEF Typed, TypeOK, Take
<1>2. /\ toClient' \in Seq(Reply) /\ Len(toClient) \in Nat \ {0}
      /\ Len(toClient') = Len(toClient) - 1
      /\ Head(toClient) = toClient[1] /\ 1 \in DOMAIN toClient
      /\ \A i \in DOMAIN toClient' :
           i \in 1 .. Len(toClient) - 1 /\ i + 1 \in DOMAIN toClient /\ toClient'[i] = toClient[i + 1]
  BY <1>1, TailFacts
<1>3. Len(toClient) = 1 => toClient' = << >>
  BY <1>2, EmptySeq
<1>4. QED  BY <1>1, <1>2, <1>3 DEF Take

(* The frame that was under way was no request's, and the server is not    *)
(* busy with one. *)
LEMMA Answered ==
  ASSUME Typed, InLock, NEW kinds, Take(kinds), cli.pc \in Waiting
  PROVE  ~ ServerGone => toServer = << >>
BY DEF InLock, Pending, Take, Waiting, ClientAt

(* The frames of a read, one by one. *)
LEMMA FrameIs ==
  ASSUME NEW f, NEW i \in Nat, NEW r, IsFrame(r, f, i + 1)
  PROVE  /\ r.kind = "header" <=> i = 0
         /\ r.kind \in {"header", "data", "end"}
         /\ r.kind = "data" => Reaches(f, i) /\ r = Data(f, i)
         /\ r.kind = "end" => Stops(f, i)
<1>1. i + 1 - 1 = i /\ (i + 1 = 1 <=> i = 0) /\ (i + 1 > 1 <=> i # 0)
  OBVIOUS
<1> DEFINE j == i + 1
<1> HIDE DEF j
<1>2. IsFrame(r, f, j) /\ j - 1 = i /\ (j = 1 <=> i = 0) /\ (j > 1 <=> i # 0)
  BY <1>1 DEF j
<1>3. QED  BY <1>2 DEF IsFrame, Data

(* The converse, for a frame that is not the first. *)
LEMMA LaterFrame ==
  ASSUME NEW f, NEW i \in Nat \ {0}, NEW r,
         \/ Reaches(f, i) /\ r = Data(f, i)
         \/ Stops(f, i) /\ r = [kind |-> "end", of |-> f, part |-> 0]
  PROVE  IsFrame(r, f, i + 1)
<1> DEFINE j == i + 1
<1>1. j > 1 /\ j - 1 = i
  OBVIOUS
<1> HIDE DEF j
<1>2. IsFrame(r, f, j)
  BY <1>1 DEF IsFrame
<1>3. QED  BY <1>2 DEF j

(* A call that expects one frame has got it. *)
LEMMA SingleLock ==
  ASSUME Typed, InLock, NEW kinds, Take(kinds), cli.pc \in {"listing", "hashing"},
         \/ cli'.pc \in {"listed", "ready"} /\ cli'.written = << >>
         \/ cli'.pc = "hashed" /\ cli'.written = << >> /\ cli'.of = cli'.file
         \/ cli'.pc = "over"
  PROVE  InLock'
<1>1. Len(toClient) <= 1 /\ srv.pc # "stream"
  BY DEF InLock, Single
<1>2. toClient' = << >> /\ UNCHANGED <<toServer, srv>>
  BY <1>1, TakeIs
<1>3. ServerGone' \/ (toServer' = << >> /\ srv'.pc # "stream")
  BY <1>1, <1>2, Answered DEF Waiting, ServerGone
<1>4. QED  BY <1>2, <1>3, CalmLock, OverLock

(* What a client that awaits or takes the frames of a file knows of the    *)
(* next one, unless it is a refusal. *)
LEMMA NextFrame ==
  ASSUME Typed, InLock, NEW kinds, Take(kinds), cli.pc \in {"opening", "copying"}, ~ Refused
  PROVE  /\ cli.file \in File
         /\ Taken \in Nat /\ (ClientAt("opening") => Taken = 0)
         /\ ClientAt("copying") => Taken = 1 + Len(cli.written) /\ Len(cli.written) \in Nat
         /\ IsFrame(Head(toClient), cli.file, Taken + 1)
         /\ Head(toClient).kind = "end" => Len(toClient) = 1 /\ srv.pc # "stream"
         /\ \A i \in DOMAIN toClient' :
              /\ IsFrame(toClient'[i], cli.file, Taken + 1 + i)
              /\ toClient'[i].kind = "end" => i = Len(toClient') /\ srv.pc # "stream"
         /\ srv.pc = "stream" => srv.file = cli.file /\ srv.next = Taken + Len(toClient)
<1>1. InSequence
  BY DEF InLock, Streamed
<1>2. cli.file \in File /\ cli.written \in Seq(Reply)
  BY DEF Typed, TypeOK, Client
<1>3. Len(cli.written) \in Nat
  BY <1>2, LenProperties
<1>4. /\ Taken \in Nat /\ (ClientAt("opening") => Taken = 0)
      /\ ClientAt("copying") => Taken = 1 + Len(cli.written)
  BY <1>3 DEF Taken, ClientAt
<1>5. /\ IsFrame(Head(toClient), cli.file, Taken + 1)
      /\ Head(toClient).kind = "end" => Len(toClient) = 1 /\ srv.pc # "stream"
  BY <1>1, TakeIs DEF InSequence
<1>6. ASSUME NEW i \in DOMAIN toClient'
      PROVE  /\ IsFrame(toClient'[i], cli.file, Taken + 1 + i)
             /\ toClient'[i].kind = "end" => i = Len(toClient') /\ srv.pc # "stream"
  <2>1. /\ i \in Nat /\ i + 1 \in DOMAIN toClient
        /\ toClient'[i] = toClient[i + 1]
        /\ Len(toClient) \in Nat /\ Len(toClient') = Len(toClient) - 1
    BY <1>6, TakeIs
  <2>2. /\ IsFrame(toClient[i + 1], cli.file, Taken + (i + 1))
        /\ toClient[i + 1].kind = "end" => i + 1 = Len(toClient) /\ srv.pc # "stream"
    BY <1>1, <2>1 DEF InSequence
  <2>3. Taken + (i + 1) = Taken + 1 + i
    BY <1>4, <2>1
  <2>4. QED  BY <2>1, <2>2, <2>3
<1>7. QED  BY <1>1, <1>2, <1>3, <1>4, <1>5, <1>6 DEF InSequence

(* The client has taken one more frame of the answer and goes on. *)
LEMMA GoOnLock ==
  ASSUME Typed, Typed', InLock, NEW kinds, Take(kinds),
         cli.pc \in {"opening", "copying"}, ~ Refused,
         cli'.pc = "copying", cli'.file = cli.file, Len(cli'.written) = Taken,
         \A i \in DOMAIN cli'.written :
           cli'.written[i] = Data(cli.file, i) /\ Reaches(cli.file, i)
  PROVE  InLock'
<1>1. Pending'
  <2>1. ~ ServerGone' => toServer' = << >>
    BY Answered, TakeIs DEF Waiting, ServerGone
  <2>2. QED  BY <2>1 DEF Pending
<1>2. Calm' /\ Single' /\ OwnAnswers'
  BY DEF Calm, CalmPC, Single, OwnAnswers, ClientAt
<1>3. WrittenInOrder'
  BY DEF WrittenInOrder, ClientAt, Data, Reaches
<1>4. Streamed'
  <2>1. Taken' = 1 + Taken
    BY DEF Taken, ClientAt
  <2>2. /\ Taken \in Nat /\ Taken' = Taken + 1
        /\ Len(toClient') = Len(toClient) - 1 /\ Len(toClient) \in Nat
        /\ UNCHANGED srv
    BY <2>1, NextFrame, TakeIs
  <2>3. srv'.pc = "stream" => srv'.file = cli'.file /\ srv'.next = Taken' + Len(toClient')
    BY <2>2, NextFrame
  <2>4. \A i \in DOMAIN toClient' :
          /\ IsFrame(toClient'[i], cli'.file, Taken' + i)
          /\ toClient'[i].kind = "end" => i = Len(toClient') /\ srv'.pc # "stream"
    BY <2>2, NextFrame
  <2>5. InSequence'
    BY <2>3, <2>4 DEF InSequence, IsFrame, Data, Reaches, Stops
  <2>6. QED  BY <2>5 DEF Streamed
<1>5. QED  BY <1>1, <1>2, <1>3, <1>4 DEF InLock

(* The end of an answer: it was read to its last frame, and what was       *)
(* written is the file's content.                                          *)
LEMMA EndLock ==
  ASSUME Typed, InLock, Take({"end"}), ClientAt("copying"), cli' = Back
  PROVE  InLock' /\ Whole(cli.file, cli.written)
<1> DEFINE n == Len(cli.written)
<1>1. cli.pc \in {"opening", "copying"} /\ ~ Refused /\ cli.pc \in Waiting
  BY DEF ClientAt, Refused, Waiting
<1>2. Head(toClient).kind = "end"
  BY TakeIs
<1>3. /\ cli.file \in File /\ n \in Nat /\ Taken = 1 + n
      /\ IsFrame(Head(toClient), cli.file, Taken + 1)
      /\ Len(toClient) = 1 /\ srv.pc # "stream"
  BY <1>1, <1>2, NextFrame
<1>4. toClient' = << >> /\ UNCHANGED <<toServer, srv>>
  BY <1>3, TakeIs
<1>5. InLock'
  <2>1. cli'.pc = "ready" /\ cli'.written = << >>
    BY BackIs DEF ClientAt
  <2>2. ServerGone' \/ toServer' = << >>
    BY <1>1, <1>4, Answered DEF ServerGone
  <2>3. QED  BY <1>3, <1>4, <2>1, <2>2, CalmLock
<1>6. cli.written \in Seq(Reply)
  BY DEF Typed, TypeOK, Client
<1>7. /\ cli.written \in [1 .. n -> Reply]
      /\ \A i \in 1 .. n : cli.written[i] = Data(cli.file, i) /\ Reaches(cli.file, i)
  BY <1>6, LenProperties DEF InLock, WrittenInOrder
<1>8. cli.written = [i \in 1 .. n |-> Data(cli.file, i)]
  BY <1>7
<1>9. \E k \in Lengths[cli.file] : k <= n
  <2>1. Stops(cli.file, Taken)
    BY <1>2, <1>3, FrameIs
  <2>2. Lengths[cli.file] \subseteq Nat
    BY <1>3, RemoteAssumption
  <2>3. QED  BY <1>3, <2>1, <2>2 DEF Stops
<1>10. \E m \in Lengths[cli.file] : n <= m
  <2>1. CASE n = 0
    <3>1. Lengths[cli.file] \subseteq Nat /\ Lengths[cli.file] # {}
      BY <1>3, RemoteAssumption
    <3>2. PICK m : m \in Lengths[cli.file]
      BY <3>1, Zenon
    <3>3. m \in Nat
      BY <3>1, <3>2
    <3>4. n <= m
      BY <2>1, <3>3
    <3>5. QED  BY <3>2, <3>4
  <2>2. CASE n # 0
    <3>1. n \in 1 .. n
      BY <1>3, <2>2
    <3>2. QED  BY <1>7, <3>1 DEF Reaches
  <2>3. QED  BY <2>1, <2>2
<1>11. QED  BY <1>5, <1>8, <1>9, <1>10 DEF Whole

LEMMA ReceiveLock ==
  ASSUME Typed, Typed', InLock, ~ torn',
         \/ ReceiveList \/ ReceiveHash \/ ReceiveHeader \/ ReceiveData \/ ReceiveEnd
         \/ ReceiveOther \/ DiskFails
  PROVE  InLock'
<1>1. CASE ReceiveList
  <2>1. cli.pc = "listing" /\ cli'.pc = "listed" /\ cli'.written = << >>
    BY <1>1 DEF ReceiveList, ClientAt, Typed, TypeOK, Client, InLock, WrittenInOrder
  <2>2. QED  BY <1>1, <2>1, SingleLock DEF ReceiveList
<1>2. CASE ReceiveHash
  <2>1. /\ cli.pc = "hashing" /\ cli'.pc = "hashed" /\ cli'.written = << >>
        /\ cli'.file = cli.file /\ cli'.of = Head(toClient).of
    BY <1>2 DEF ReceiveHash, ClientAt, Typed, TypeOK, Client, InLock, WrittenInOrder
  <2>2. Head(toClient).of = cli.file
    BY <1>2, <2>1, TakeIs DEF ReceiveHash, InLock, Single
  <2>3. QED  BY <1>2, <2>1, <2>2, SingleLock DEF ReceiveHash
<1>3. CASE ReceiveHeader
  <2>1. Take({"header", "hash"}) /\ cli.pc = "opening" /\ cli.written = << >>
    BY <1>3 DEF ReceiveHeader, ClientAt, InLock, WrittenInOrder
  <2>2. ~ Refused
    BY <2>1, TakeIs DEF Refused
  <2>3. cli'.pc = "copying" /\ cli'.file = cli.file /\ cli'.written = << >>
    BY <1>3, <2>1 DEF ReceiveHeader, Typed, TypeOK, Client
  <2>4. Len(cli'.written) = Taken
    BY <2>1, <2>3, EmptySeq DEF Taken, ClientAt
  <2>5. QED  BY <2>1, <2>2, <2>3, <2>4, GoOnLock
<1>4. CASE ReceiveData
  <2> DEFINE kinds == {"list", "hash", "header", "error", "missing", "data"}
  <2>1. Take(kinds) /\ cli.pc = "copying" /\ ~ Refused
    BY <1>4 DEF ReceiveData, ClientAt, Refused
  <2>2. /\ cli'.pc = "copying" /\ cli'.file = cli.file
        /\ cli'.written = Append(cli.written, Head(toClient))
    BY <1>4, <2>1 DEF ReceiveData, Typed, TypeOK, Client
  <2>3. cli.written \in Seq(Reply) /\ Head(toClient) \in Reply
    BY <2>1, TakeOK DEF Typed, TypeOK, Client
  <2>4. /\ Len(cli'.written) = Len(cli.written) + 1
        /\ \A i \in DOMAIN cli'.written :
             IF i <= Len(cli.written)
             THEN i \in DOMAIN cli.written /\ cli'.written[i] = cli.written[i]
             ELSE i = Len(cli.written) + 1 /\ cli'.written[i] = Head(toClient)
    BY <2>2, <2>3, AppendFacts
  <2>5. /\ Taken = 1 + Len(cli.written) /\ Len(cli.written) \in Nat
        /\ IsFrame(Head(toClient), cli.file, Taken + 1)
    BY <2>1, NextFrame DEF ClientAt
  <2>6. LET j == Len(cli.written) + 1
        IN  Head(toClient) = Data(cli.file, j) /\ Reaches(cli.file, j)
    <3>1. Taken \in Nat \ {0} /\ Taken = Len(cli.written) + 1
      BY <2>5
    <3>2. Head(toClient).kind # "end"
      BY <2>1 DEF Take
    <3>3. Head(toClient) = Data(cli.file, Taken) /\ Reaches(cli.file, Taken)
      BY <2>5, <3>1, <3>2, FrameIs
    <3>4. QED  BY <3>1, <3>3
  <2>7. \A i \in DOMAIN cli.written :
          cli.written[i] = Data(cli.file, i) /\ Reaches(cli.file, i)
    BY <2>1 DEF InLock, WrittenInOrder, ClientAt
  <2>8. Len(cli'.written) = Taken
    BY <2>4, <2>5
  <2>9. \A i \in DOMAIN cli'.written :
          cli'.written[i] = Data(cli.file, i) /\ Reaches(cli.file, i)
    BY <2>4, <2>6, <2>7
  <2>10. QED  BY <2>1, <2>2, <2>8, <2>9, GoOnLock
<1>5. CASE ReceiveEnd
  BY <1>5, EndLock DEF ReceiveEnd
<1>6. CASE DiskFails
  BY <1>6, EndLock DEF DiskFails
<1>7. CASE ReceiveOther
  <2>1. cli' = Back
    BY <1>7 DEF ReceiveOther
  <2>2. CASE \E kinds : Take(kinds) /\ cli.pc \in {"listing", "hashing"}
    BY <2>1, <2>2, BackIs, SingleLock DEF ClientAt
  <2>3. CASE ClientAt("opening") /\ Take({"list", "error", "missing", "data", "end"})
    <3>1. cli.pc \in {"opening", "copying"} /\ cli.pc \in Waiting
      BY <2>3 DEF ClientAt, Waiting
    <3>2. Refused
      <4> SUFFICES ASSUME ~ Refused
                   PROVE  FALSE
        OBVIOUS
      <4>1. IsFrame(Head(toClient), cli.file, 1)
        BY <2>3, <3>1, NextFrame
      <4>2. Head(toClient).kind = "header"
        BY <4>1, FrameIs
      <4>3. QED  BY <2>3, <4>2 DEF Take
    <3>3. toClient' = << >> /\ UNCHANGED <<toServer, srv>> /\ srv.pc # "stream"
      BY <2>3, <3>2, TakeIs DEF Refused
    <3>4. ServerGone' \/ toServer' = << >>
      BY <2>3, <3>1, <3>3, Answered DEF ServerGone
    <3>5. cli'.pc = "ready" /\ cli'.written = << >>
      BY <2>1, <2>3, BackIs DEF ClientAt
    <3>6. QED  BY <3>3, <3>4, <3>5, CalmLock
  <2>4. QED  BY <1>7, <2>2, <2>3 DEF ReceiveOther, ClientAt
<1>8. QED  BY <1>1, <1>2, <1>3, <1>4, <1>5, <1>6, <1>7

-----------------------------------------------------------------------------
(* The server. *)

LEMMA AnswerIs ==
  ASSUME Typed, NEW kind, NEW f, NEW n, Answer(kind, f, n),
         [kind |-> kind, of |-> f, part |-> n] \in Reply
  PROVE  /\ Len(toClient) \in Nat /\ Len(toClient') = Len(toClient) + 1
         /\ \A i \in DOMAIN toClient' :
              /\ i \in Nat
              /\ IF i <= Len(toClient)
                 THEN i \in DOMAIN toClient /\ toClient'[i] = toClient[i]
                 ELSE i = Len(toClient) + 1
                      /\ toClient'[i] = [kind |-> kind, of |-> f, part |-> n]
         /\ toClient'[Len(toClient) + 1] = [kind |-> kind, of |-> f, part |-> n]
<1> DEFINE r == [kind |-> kind, of |-> f, part |-> n]
<1>1. r \in Reply /\ toClient \in Seq(Reply) /\ toClient' = Append(toClient, r)
  BY DEF Typed, TypeOK, Answer
<1> HIDE DEF r
<1>2. /\ toClient' \in Seq(Reply) /\ Len(toClient) \in Nat
      /\ Len(toClient') = Len(toClient) + 1
      /\ toClient'[Len(toClient) + 1] = r
      /\ \A i \in DOMAIN toClient' :
           IF i <= Len(toClient) THEN i \in DOMAIN toClient /\ toClient'[i] = toClient[i]
           ELSE i = Len(toClient) + 1 /\ toClient'[i] = r
  BY <1>1, AppendFacts, AppendProperties, LenProperties
<1>3. \A i \in DOMAIN toClient' : i \in Nat
  BY <1>2, LenProperties
<1>4. QED  BY <1>2, <1>3 DEF r

(* A request that the server takes is the client's, and all there is. *)
LEMMA RequestIs ==
  ASSUME Typed, InLock, srv.pc = "read", toServer # << >>, cli.pc # "over",
         toServer' = Tail(toServer)
  PROVE  /\ toServer' = << >> /\ toClient = << >>
         /\ \/ cli.pc = "listing" /\ Head(toServer).cmd = "list"
            \/ cli.pc = "hashing" /\ Head(toServer) = [cmd |-> "hash", path |-> PathOf(cli.file)]
            \/ cli.pc = "opening" /\ Head(toServer) = [cmd |-> "read", path |-> PathOf(cli.file)]
<1>1. Pending /\ ~ ServerGone /\ ~ ClientAt("over")
  BY DEF InLock, ServerGone, ClientAt
<1>2. toServer \in Seq(Request)
  BY DEF Typed, TypeOK
<1>3. toServer' \in Seq(Request) /\ Len(toServer') = Len(toServer) - 1 /\ Head(toServer) = toServer[1]
  BY <1>2, TailFacts
<1>4. Len(toServer) = 1
  BY <1>1 DEF Pending
<1>5. toServer' = << >>
  BY <1>3, <1>4, EmptySeq
<1>6. QED  BY <1>1, <1>3, <1>5 DEF Pending, ClientAt

(* A call of one frame is answered. *)
LEMMA SingleAnswerLock ==
  ASSUME Typed, Typed', InLock, UNCHANGED <<cli, srv>>, srv.pc = "read",
         toServer' = << >>, toClient = << >>, cli.pc \in {"listing", "hashing"},
         NEW r \in Reply, toClient' = Append(toClient, r),
         r.kind = "hash" => r.of = cli.file
  PROVE  InLock'
<1>1. Len(toClient') = 1 /\ \A i \in DOMAIN toClient' : toClient'[i] = r
  BY AppendFacts, EmptySeq DEF Typed, TypeOK
<1>2. Pending' /\ Calm' /\ Streamed' /\ OwnAnswers' /\ WrittenInOrder'
  BY DEF Pending, Calm, CalmPC, Streamed, OwnAnswers, WrittenInOrder, ClientAt, InLock
<1>3. Single'
  BY <1>1 DEF Single
<1>4. QED  BY <1>2, <1>3 DEF InLock

(* A read is answered, frame by frame or with a refusal. *)
LEMMA StreamLock ==
  ASSUME Typed, Typed', InLock, UNCHANGED cli, cli.pc \in {"opening", "copying"},
         ServerGone' \/ toServer' = << >>,
         Refused' \/ InSequence'
  PROVE  InLock'
<1>1. Pending'
  BY DEF Pending
<1>2. Calm' /\ Single' /\ OwnAnswers'
  BY DEF Calm, CalmPC, Single, OwnAnswers, ClientAt
<1>3. WrittenInOrder'
  BY DEF InLock, WrittenInOrder, ClientAt, Data, Reaches
<1>4. Streamed'
  BY DEF Streamed
<1>5. QED  BY <1>1, <1>2, <1>3, <1>4 DEF InLock

LEMMA ServeOneLock ==
  ASSUME Typed, Typed', InLock, ServeList \/ ServeHash
  PROVE  InLock'
<1>1. UNCHANGED <<cli, srv>> /\ srv.pc = "read" /\ toServer # << >> /\ toServer' = Tail(toServer)
  BY DEF ServeList, ServeHash, Asked
<1>2. CASE cli.pc = "over"
  BY <1>1, <1>2, OverLock
<1>3. CASE cli.pc # "over"
  <2>1. toServer' = << >> /\ toClient = << >>
    BY <1>1, <1>3, RequestIs
  <2>2. CASE ServeList
    <3>1. cli.pc = "listing"
      BY <1>1, <1>3, <2>2, RequestIs DEF ServeList, Asked
    <3> DEFINE r == [kind |-> "list", of |-> None, part |-> 0]
    <3>2. r \in Reply /\ toClient' = Append(toClient, r) /\ r.kind # "hash"
      BY <2>2 DEF ServeList, Answer, Reply
    <3> HIDE DEF r
    <3>3. QED  BY <1>1, <2>1, <3>1, <3>2, SingleAnswerLock
  <2>3. CASE ServeHash
    <3>1. cli.pc = "hashing" /\ Head(toServer).path = PathOf(cli.file)
      BY <1>1, <1>3, <2>3, RequestIs DEF ServeHash, Asked
    <3>2. cli.file \in File
      BY <3>1 DEF Typed, TypeOK
    <3>3. PICK kind \in {"hash", "missing", "error"}, f \in File \cup {None} :
            Answer(kind, f, 0) /\ (kind = "hash" => f = cli.file)
      BY <2>3, <3>1, <3>2, OpenedIs DEF ServeHash, Opened
    <3> DEFINE r == [kind |-> kind, of |-> f, part |-> 0]
    <3>4. r \in Reply /\ toClient' = Append(toClient, r) /\ (r.kind = "hash" => r.of = cli.file)
      BY <3>3 DEF Answer, Reply
    <3> HIDE DEF r
    <3>5. QED  BY <1>1, <2>1, <3>1, <3>4, SingleAnswerLock
  <2>4. QED  BY <2>2, <2>3
<1>4. QED  BY <1>2, <1>3

LEMMA ServeReadLock ==
  ASSUME Typed, Typed', InLock, ServeRead
  PROVE  InLock'
<1>1. UNCHANGED cli /\ srv.pc = "read" /\ toServer # << >> /\ toServer' = Tail(toServer)
  BY DEF ServeRead, Asked
<1>2. CASE cli.pc = "over"
  BY <1>1, <1>2, OverLock
<1>3. CASE cli.pc # "over"
  <2>1. /\ toServer' = << >> /\ toClient = << >> /\ cli.pc = "opening"
        /\ Head(toServer).path = PathOf(cli.file)
    BY <1>1, <1>3, RequestIs DEF ServeRead, Asked
  <2>2. cli.file \in File /\ Taken' = 0 /\ Len(toClient) = 0
    BY <1>1, <2>1, EmptySeq DEF Typed, TypeOK, Taken, ClientAt
  <2>3. ASSUME NEW f \in Opened(Head(toServer).path), Answer("header", f, 0),
               srv' = [pc |-> "stream", file |-> f, next |-> 1]
        PROVE  InSequence'
    <3>1. f = cli.file
      BY <2>1, <2>2, <2>3, OpenedIs DEF Opened
    <3>2. [kind |-> "header", of |-> f, part |-> 0] \in Reply
      BY <2>2, <3>1 DEF Reply
    <3>3. Len(toClient') = 1 /\ \A i \in DOMAIN toClient' :
             i = 1 /\ toClient'[i] = [kind |-> "header", of |-> f, part |-> 0]
      BY <2>2, <2>3, <3>2, AnswerIs, LenProperties DEF Typed, TypeOK
    <3>4. \A i \in DOMAIN toClient' :
            IsFrame(toClient'[i], cli.file, Taken' + i) /\ toClient'[i].kind # "end"
      BY <2>2, <3>1, <3>3 DEF IsFrame
    <3>5. UNCHANGED cli /\ srv'.file = cli.file /\ srv'.next = Taken' + Len(toClient')
      BY <1>1, <2>2, <2>3, <3>1, <3>3
    <3>6. QED  BY <3>4, <3>5 DEF InSequence, IsFrame, Data, Reaches, Stops
  <2>4. ASSUME NEW kind \in {"missing", "error"}, Answer(kind, None, 0), UNCHANGED srv
        PROVE  Refused'
    <3>1. [kind |-> kind, of |-> None, part |-> 0] \in Reply
      BY DEF Reply
    <3>2. Len(toClient') = 1 /\ toClient'[1].kind = kind
      BY <2>2, <2>4, <3>1, AnswerIs
    <3>3. QED  BY <1>1, <2>1, <2>4, <3>2 DEF Refused, ClientAt
  <2>5. QED  BY <1>1, <2>1, <2>3, <2>4, StreamLock DEF ServeRead
<1>4. QED  BY <1>2, <1>3

(* The server is about to send the next frame of a file. *)
LEMMA SendLock ==
  ASSUME Typed, Typed', InLock, srv.pc = "stream", UNCHANGED <<cli, toServer>>,
         NEW kind, NEW n, Answer(kind, srv.file, n),
         [kind |-> kind, of |-> srv.file, part |-> n] \in Reply,
         IsFrame([kind |-> kind, of |-> srv.file, part |-> n], srv.file, srv.next + 1),
         \/ kind # "end" /\ srv' = [srv EXCEPT !.next = @ + 1]
         \/ srv'.pc # "stream"
  PROVE  InLock'
<1>1. CASE cli.pc \in {"opening", "copying"}
  <2>1. InSequence
    BY <1>1 DEF InLock, Streamed, Refused
  <2>2. srv.file = cli.file /\ srv.next = Taken + Len(toClient)
    BY <2>1 DEF InSequence
  <2>3. cli.written \in Seq(Reply)
    BY DEF Typed, TypeOK, Client
  <2>4. Taken' = Taken /\ Taken \in Nat
    BY <2>3, LenProperties DEF Taken, ClientAt
  <2>5. Len(toClient) \in Nat /\ Len(toClient') = Len(toClient) + 1
    BY AnswerIs
  <2>6. ASSUME NEW i \in DOMAIN toClient'
        PROVE  /\ IsFrame(toClient'[i], cli.file, Taken + i)
               /\ toClient'[i].kind = "end" => i = Len(toClient') /\ srv'.pc # "stream"
    <3>1. CASE i <= Len(toClient)
      BY <2>1, <3>1, AnswerIs DEF InSequence
    <3>2. CASE ~ (i <= Len(toClient))
      <4>1. i = Len(toClient) + 1 /\ toClient'[i] = [kind |-> kind, of |-> srv.file, part |-> n]
        BY <3>2, AnswerIs
      <4>2. srv.next + 1 = Taken + i
        BY <2>2, <2>4, <2>5, <4>1
      <4>3. IsFrame(toClient'[i], cli.file, Taken + i)
        BY <2>2, <4>1, <4>2
      <4>4. kind = "end" => srv'.pc # "stream"
        OBVIOUS
      <4>5. QED  BY <2>5, <4>1, <4>3, <4>4
    <3>3. QED  BY <3>1, <3>2
  <2>7. Taken' = Taken /\ UNCHANGED cli
    BY <2>4
  <2>8. srv'.pc = "stream" => srv'.file = cli'.file /\ srv'.next = Taken' + Len(toClient')
    <3>1. CASE srv' = [srv EXCEPT !.next = @ + 1]
      <4>1. srv'.file = srv.file /\ srv'.next = srv.next + 1
        BY <3>1 DEF Typed, TypeOK, Server
      <4>2. QED  BY <2>2, <2>4, <2>5, <2>7, <4>1
    <3>2. QED  BY <3>1
  <2>9. InSequence'
    BY <2>6, <2>7, <2>8 DEF InSequence, IsFrame, Data, Reaches, Stops
  <2>10. toServer' = << >>
    BY <1>1 DEF InLock, Pending, ServerGone, ClientAt
  <2>11. QED  BY <1>1, <2>9, <2>10, StreamLock
<1>2. CASE cli.pc = "over"
  BY <1>2, OverLock
<1>3. CASE cli.pc \notin {"opening", "copying", "over"}
  <2>1. cli.pc \in CalmPC \cup {"listing", "hashing"}
    BY <1>3 DEF CalmPC, Typed, TypeOK, Client, ClientPC
  <2>2. QED  BY <2>1 DEF InLock, Calm, Single, ServerGone
<1>4. QED  BY <1>1, <1>2, <1>3

LEMMA StreamingLock ==
  ASSUME Typed, Typed', InLock, StreamChunk \/ StreamEnd
  PROVE  InLock'
<1>1. /\ srv.pc = "stream" /\ srv.file \in File
      /\ srv.next \in Nat \ {0} /\ UNCHANGED <<cli, toServer>>
  BY DEF StreamChunk, StreamEnd, Typed, TypeOK, Server
<1>2. CASE StreamChunk
  <2>1. [kind |-> "data", of |-> srv.file, part |-> srv.next] \in Reply
    BY <1>1 DEF Reply
  <2>2. IsFrame([kind |-> "data", of |-> srv.file, part |-> srv.next], srv.file, srv.next + 1)
    BY <1>1, <1>2, LaterFrame DEF StreamChunk, Data
  <2>3. QED  BY <1>1, <1>2, <2>1, <2>2, SendLock DEF StreamChunk
<1>3. CASE StreamEnd
  <2>1. [kind |-> "end", of |-> srv.file, part |-> 0] \in Reply
    BY <1>1 DEF Reply
  <2>2. IsFrame([kind |-> "end", of |-> srv.file, part |-> 0], srv.file, srv.next + 1)
    BY <1>1, <1>3, LaterFrame DEF StreamEnd
  <2>3. QED  BY <1>1, <1>3, <2>1, <2>2, SendLock DEF StreamEnd
<1>4. QED  BY <1>2, <1>3

(* The server's task is no more: what it sent may still arrive. *)
LEMMA GoneLock ==
  ASSUME Typed, InLock, ServerEnds \/ ServerFails \/ Break
  PROVE  InLock'
<1>1. srv'.pc = "gone" /\ UNCHANGED cli /\ (toClient' = toClient \/ toClient' = << >>)
  BY DEF ServerEnds, ServerFails, Break
<1>2. Pending' /\ Calm' /\ OwnAnswers' /\ WrittenInOrder'
  BY <1>1 DEF InLock, Pending, Calm, OwnAnswers, WrittenInOrder, ServerGone, ClientAt,
                 Data, Reaches
<1>3. Single'
  BY <1>1, EmptySeq DEF InLock, Single
<1>4. Streamed'
  <2> SUFFICES ASSUME cli.pc \in {"opening", "copying"}
               PROVE  Refused' \/ InSequence'
    BY <1>1 DEF Streamed
  <2>1. Taken' = Taken
    BY <1>1 DEF Taken, ClientAt
  <2>2. CASE toClient' = toClient
    BY <1>1, <2>1, <2>2 DEF InLock, Streamed, Refused, InSequence, ClientAt, IsFrame, Data,
                            Reaches, Stops
  <2>3. CASE toClient' = << >>
    BY <1>1, <2>3, EmptySeq DEF InSequence
  <2>4. QED  BY <1>1, <2>2, <2>3
<1>5. QED  BY <1>2, <1>3, <1>4 DEF InLock

-----------------------------------------------------------------------------
(* Every step. *)

LEMMA NextLock ==
  ASSUME Typed, Typed', InLock, [Next]_vars, ~ torn'
  PROVE  InLock'
<1>1. CASE UNCHANGED vars
  BY <1>1 DEF vars, InLock, Pending, Calm, Single, Streamed, Refused, InSequence, Taken,
              WrittenInOrder, OwnAnswers, ServerGone, ClientAt, IsFrame, Data, Reaches,
              Stops, PathOf, RootPath
<1>2. CASE Connect
  BY <1>2, SilentLock
<1>3. CASE ClientWork
  BY <1>3, CallLock, ReceiveLock, SilentLock DEF ClientWork
<1>4. CASE ServerWork
  BY <1>4, ServeOneLock, ServeReadLock, StreamingLock, GoneLock DEF ServerWork
<1>5. CASE Failure
  BY <1>5, GoneLock, SilentLock DEF Failure
<1>6. QED  BY <1>1, <1>2, <1>3, <1>4, <1>5 DEF Next, Ended

LEMMA TornStays ==
  ASSUME Typed, [Next]_vars, torn
  PROVE  torn'
<1>1. CASE ClientWork
  BY <1>1 DEF ClientWork, CallList, Quit, Begin, CallHash, HashCallFails, SkipCopy, CallCopy,
              ReceiveList, ReceiveHash, ReceiveHeader, ReceiveData, ReceiveEnd, ReceiveOther,
              DiskFails, CallFails, Hang
<1>2. CASE ServerWork
  BY <1>2 DEF ServerWork, ServeList, ServeHash, ServeRead, StreamChunk, StreamEnd, ServerEnds
<1>3. CASE Failure
  BY <1>3 DEF Failure, ServerFails, ClientDies, Break
<1>4. CASE Connect \/ UNCHANGED vars
  BY <1>4 DEF Connect, vars
<1>5. QED  BY <1>1, <1>2, <1>3, <1>4 DEF Next, Ended

LEMMA CopiedChanges ==
  ASSUME Typed, [Next]_vars
  PROVE  UNCHANGED copied \/ ReceiveEnd
<1>1. CASE ClientWork
  BY <1>1 DEF ClientWork, CallList, Quit, Begin, CallHash, HashCallFails, SkipCopy, CallCopy,
              ReceiveList, ReceiveHash, ReceiveHeader, ReceiveData, ReceiveOther,
              DiskFails, CallFails, Hang
<1>2. CASE ServerWork
  BY <1>2 DEF ServerWork, ServeList, ServeHash, ServeRead, StreamChunk, StreamEnd, ServerEnds
<1>3. CASE Failure
  BY <1>3 DEF Failure, ServerFails, ClientDies, Break
<1>4. CASE Connect \/ UNCHANGED vars
  BY <1>4 DEF Connect, vars
<1>5. QED  BY <1>1, <1>2, <1>3, <1>4 DEF Next, Ended

LEMMA NextCopies ==
  ASSUME Typed, InLock, [Next]_vars, ~ torn, CopiesAreWhole
  PROVE  CopiesAreWhole'
<1>1. CASE UNCHANGED copied
  BY <1>1 DEF CopiesAreWhole
<1>2. CASE ReceiveEnd
  <2>1. Whole(cli.file, cli.written)
    BY <1>2, EndLock DEF ReceiveEnd
  <2>2. copied' = [copied EXCEPT ![cli.file] = cli.written] /\ copied \in [File -> Seq(Reply) \cup {None}]
    BY <1>2 DEF ReceiveEnd, Typed, TypeOK
  <2>3. \A f \in File : copied[f] # None => Whole(f, copied[f])
    BY DEF CopiesAreWhole
  <2>4. \A f \in File : copied'[f] # None => Whole(f, copied'[f])
    BY <2>1, <2>2, <2>3
  <2>5. QED  BY <2>4 DEF CopiesAreWhole, Whole, Data
<1>3. QED  BY <1>1, <1>2, CopiedChanges

LEMMA UnfoldInv == IInv <=> Typed /\ (~ torn => InLock) /\ CopiesAreWhole
BY DEF IInv, Typed, LockStep, OwnAnswersInStep, InLock

LEMMA InitInv == Init => IInv
<1> SUFFICES ASSUME Init
             PROVE  IInv
  OBVIOUS
<1>1. Typed /\ CopiesAreWhole
  BY InitTypes DEF Init, CopiesAreWhole
<1>2. InLock
  BY DEF Init, InLock, Pending, Calm, Single, Streamed, WrittenInOrder, OwnAnswers, ClientAt
<1>3. QED  BY <1>1, <1>2, UnfoldInv

LEMMA NextInv == IInv /\ [Next]_vars => IInv'
<1> SUFFICES ASSUME IInv, [Next]_vars
             PROVE  IInv'
  OBVIOUS
<1>1. Typed /\ Typed' /\ CopiesAreWhole /\ (~ torn => InLock)
  BY UnfoldInv, NextTypes
<1>2. ~ torn' => ~ torn
  BY <1>1, TornStays
<1>3. ~ torn' => InLock'
  BY <1>1, <1>2, NextLock
<1>4. CopiesAreWhole'
  <2>1. CASE torn'
    BY <2>1 DEF CopiesAreWhole
  <2>2. CASE ~ torn'
    BY <1>1, <1>2, <2>2, NextCopies
  <2>3. QED  BY <2>1, <2>2
<1>5. QED
  BY <1>1, <1>3, <1>4 DEF IInv, Typed, LockStep, OwnAnswersInStep, InLock

(* At every moment the request on its way is the call's own, and the       *)
(* frames on their way are the rest of its answer, in order, until the     *)
(* client fails to write a file (network/client.rs, network/server.rs).    *)
THEOREM Inductive == Spec => []IInv
<1>1. QED  BY InitInv, NextInv, PTL DEF Spec

(* Between two calls nothing is on its way and the server awaits a         *)
(* request, until the client fails to write a file (network/client.rs).    *)
THEOREM StaysInStep == Spec => []InStep
<1>1. IInv => InStep
  BY DEF IInv, TypeOK, Server, ServerPC, Connected, LockStep, Calm, CalmPC, InStep, ServerGone,
         ClientAt
<1>2. QED  BY <1>1, Inductive, PTL

(* The hash that hash_file returns is that of the file it was asked for,   *)
(* until the client fails to write a file (network/client.rs).             *)
THEOREM HashesAreOwn == Spec => []OwnAnswersInStep
<1>1. IInv => OwnAnswersInStep
  BY DEF IInv
<1>2. QED  BY <1>1, Inductive, PTL

(* A copy that returned Ok wrote the whole file in order and nothing else, *)
(* until the client fails to write a file, wherever the server failed, a   *)
(* side died or the connection broke (network/client.rs).                  *)
THEOREM OkMeansWhole == Spec => []CopiesAreWhole
<1>1. IInv => CopiesAreWhole
  BY DEF IInv
<1>2. QED  BY <1>1, Inductive, PTL

-----------------------------------------------------------------------------
(* Part 4: where the paths of the listing are found. *)

LEMMA NeverMissing ==
  ASSUME Platform = "windows", Absolute, Typed, ListedIsFound, [Next]_vars
  PROVE  ListedIsFound'
<1>1. ASSUME NEW kind \in {"list", "hash", "header", "error", "data", "end"},
             NEW f \in File \cup {None}, NEW n \in Nat, Answer(kind, f, n)
      PROVE  ListedIsFound'
  <2>1. [kind |-> kind, of |-> f, part |-> n] \in Reply
    BY DEF Reply
  <2>2. \A i \in DOMAIN toClient' :
          \/ i \in DOMAIN toClient /\ toClient'[i] = toClient[i]
          \/ toClient'[i] = [kind |-> kind, of |-> f, part |-> n]
    BY <1>1, <2>1, AnswerIs
  <2>3. QED  BY <2>2 DEF ListedIsFound
<1>2. ASSUME NEW kinds, Take(kinds)
      PROVE  ListedIsFound'
  BY <1>2, TakeIs DEF ListedIsFound
<1>3. ASSUME UNCHANGED toClient
      PROVE  ListedIsFound'
  BY <1>3 DEF ListedIsFound
<1>4. CASE ClientWork
  BY <1>2, <1>3, <1>4 DEF ClientWork, CallList, Quit, Begin, CallHash, HashCallFails, SkipCopy,
     CallCopy, Ask, ReceiveList, ReceiveHash, ReceiveHeader, ReceiveData, ReceiveEnd,
     ReceiveOther, DiskFails, CallFails, Hang
<1>5. CASE ServeHash \/ ServeRead
  <2>1. \E f \in File : Head(toServer).path = PathOf(f)
    <3>1. toServer # << >> /\ toServer' = Tail(toServer) /\ Head(toServer).cmd \in {"hash", "read"}
      BY <1>5 DEF ServeHash, ServeRead, Asked
    <3>2. QED  BY <3>1, NextRequestOK DEF Typed
  <2>2. Opened(Head(toServer).path) # {}
    BY <2>1, OpenedOnWindows
  <2>3. QED  BY <1>1, <1>5, <2>2 DEF ServeHash, ServeRead, Opened
<1>6. CASE StreamChunk \/ StreamEnd
  <2>1. srv.file \in File /\ srv.next \in Nat
    BY <1>6 DEF StreamChunk, StreamEnd, Typed, TypeOK, Server
  <2>2. QED  BY <1>1, <1>6, <2>1 DEF StreamChunk, StreamEnd
<1>7. CASE ServeList \/ ServerEnds
  BY <1>1, <1>3, <1>7 DEF ServeList, ServerEnds
<1>8. CASE Failure
  <2>1. UNCHANGED toClient \/ toClient' = << >>
    BY <1>8 DEF Failure, ServerFails, ClientDies, Break
  <2>2. QED  BY <1>3, <2>1 DEF ListedIsFound
<1>9. CASE Connect \/ UNCHANGED vars
  BY <1>3, <1>9 DEF Connect, vars
<1>10. QED  BY <1>4, <1>5, <1>6, <1>7, <1>8, <1>9 DEF Next, Ended, ServerWork

(* On Windows, when the server's root is an absolute path, no path that it *)
(* listed is refused as missing (resolve_path, network/server.rs).         *)
THEOREM FoundOnWindows ==
  ASSUME Platform = "windows", Absolute
  PROVE  Spec => []ListedIsFound
<1>1. Init => ListedIsFound
  BY DEF Init, ListedIsFound
<1>2. Typed /\ ListedIsFound /\ [Next]_vars => ListedIsFound'
  BY NeverMissing
<1>3. Spec => []Typed
  BY InitTypes, NextTypes, PTL DEF Spec
<1>4. QED  BY <1>1, <1>2, <1>3, PTL DEF Spec

-----------------------------------------------------------------------------
(* Part 5: a remote source is a source. *)

LEMMA PromiseInit == Init => Promise!Init
BY DEF Init, Promise!Init, Op, Got, Held, ClientAt

(* Copies that did not change are held as before. *)
LEMMA HeldStays == UNCHANGED copied => UNCHANGED Held
BY DEF Held, Own, Whole, Data

(* Inside a call, and between two, nothing is seen of the steps. *)
LEMMA PromiseStutter ==
  ASSUME Typed, ~ torn, UNCHANGED <<copied, torn>>,
         Op' = Op, Op # "hashed", cli'.file = cli.file, cli'.todo = cli.todo
  PROVE  UNCHANGED Promise!vars
<1>1. Got = "none" /\ Got' = "none"
  BY DEF Got, Op, ClientAt
<1>2. UNCHANGED Held
  BY HeldStays
<1>3. QED  BY <1>1, <1>2 DEF Promise!vars

LEMMA PromiseFail ==
  ASSUME Typed, UNCHANGED copied, Op # "none", Op' = "none",
         cli'.file = cli.file, cli'.todo = cli.todo,
         torn' => torn \/ Op = "copy"
  PROVE  Promise!Next
<1>1. Got' = "none"
  BY DEF Got, Op, ClientAt
<1>2. UNCHANGED Held
  BY HeldStays
<1>3. Promise!Fail
  BY <1>1, <1>2 DEF Promise!Fail
<1>4. QED  BY <1>3 DEF Promise!Next

(* What Op says of where the client is. *)
LEMMA OpIs ==
  /\ cli.pc \in {"off", "connected", "listing", "listed"} => Op = "list"
  /\ cli.pc = "hashing" => Op = "hash"
  /\ cli.pc = "hashed" => Op = "hashed"
  /\ cli.pc \in {"opening", "copying"} => Op = "copy"
  /\ cli.pc \in {"ready", "over"} => Op = "none"
BY DEF Op, ClientAt

LEMMA OpIsNext ==
  /\ cli'.pc \in {"off", "connected", "listing", "listed"} => Op' = "list"
  /\ cli'.pc = "hashing" => Op' = "hash"
  /\ cli'.pc = "hashed" => Op' = "hashed"
  /\ cli'.pc \in {"opening", "copying"} => Op' = "copy"
  /\ cli'.pc \in {"ready", "over"} => Op' = "none"
BY DEF Op, ClientAt

LEMMA BackKeeps ==
  ASSUME Typed
  PROVE  Back.file = cli.file /\ Back.todo = cli.todo
BY DEF Typed, TypeOK, Client, Back

(* The calls. *)
LEMMA PromiseCall ==
  ASSUME Typed, ~ torn,
         \/ CallList \/ Quit \/ Begin \/ SkipCopy \/ CallCopy
         \/ \E f \in File : CallHash(f) \/ HashCallFails(f)
  PROVE  Promise!Next \/ UNCHANGED Promise!vars
<1>1. UNCHANGED <<copied, torn>> /\ UNCHANGED Held
  BY HeldStays DEF CallList, Quit, Begin, SkipCopy, CallCopy, CallHash, HashCallFails
<1>2. CASE CallList
  <2>1. cli.pc = "connected" /\ cli'.pc = "listing" /\ cli'.file = cli.file /\ cli'.todo = cli.todo
    BY <1>2 DEF CallList, ClientAt, Typed, TypeOK, Client
  <2>2. QED  BY <1>1, <2>1, OpIs, OpIsNext, PromiseStutter
<1>3. CASE Quit
  <2>1. cli.pc = "listed" /\ cli'.pc = "over" /\ cli'.file = cli.file /\ cli'.todo = cli.todo
    BY <1>3 DEF Quit, ClientAt, Typed, TypeOK, Client
  <2>2. QED  BY <1>1, <2>1, OpIs, OpIsNext, PromiseFail
<1>4. CASE Begin
  <2>1. cli.pc = "listed" /\ cli'.pc = "ready" /\ cli'.file = cli.file /\ cli'.todo \subseteq File
    BY <1>4 DEF Begin, ClientAt, Typed, TypeOK, Client
  <2>2. Got = "none" /\ Got' = "none"
    BY <2>1 DEF Got, ClientAt
  <2>3. Promise!Listed
    BY <1>1, <2>1, <2>2, OpIs, OpIsNext DEF Promise!Listed
  <2>4. QED  BY <2>3 DEF Promise!Next
<1>5. CASE SkipCopy
  <2>1. cli.pc = "hashed" /\ cli'.pc = "ready" /\ cli'.file = cli.file /\ cli'.todo = cli.todo
    BY <1>5, BackIs, BackKeeps DEF SkipCopy, ClientAt
  <2>2. QED  BY <1>1, <2>1, OpIs, OpIsNext, PromiseFail
<1>6. CASE CallCopy
  <2>1. cli.pc = "hashed" /\ cli'.pc = "opening" /\ cli'.file = cli.file /\ cli'.todo = cli.todo
    BY <1>6 DEF CallCopy, ClientAt, Typed, TypeOK, Client
  <2>2. Got' = "none"
    BY <2>1 DEF Got, ClientAt
  <2>3. Promise!Copy
    BY <1>1, <2>1, <2>2, OpIs, OpIsNext DEF Promise!Copy
  <2>4. QED  BY <2>3 DEF Promise!Next
<1>7. ASSUME NEW f \in File, CallHash(f)
      PROVE  Promise!Next
  <2>1. /\ cli.pc = "ready" /\ cli'.pc = "hashing" /\ cli'.file = f
        /\ f \in cli.todo /\ cli'.todo = cli.todo \ {f}
    BY <1>7 DEF CallHash, ClientAt, Typed, TypeOK, Client
  <2>2. Got = "none" /\ Got' = "none"
    BY <2>1 DEF Got, ClientAt
  <2>3. Promise!Hash(f)
    BY <1>1, <2>1, <2>2, OpIs, OpIsNext DEF Promise!Hash
  <2>4. QED  BY <2>3 DEF Promise!Next
<1>8. ASSUME NEW f \in File, HashCallFails(f)
      PROVE  Promise!Next
  <2>1. /\ cli.pc = "ready" /\ cli'.pc = "ready" /\ cli'.file = cli.file
        /\ f \in cli.todo /\ cli'.todo = cli.todo \ {f}
    BY <1>8 DEF HashCallFails, ClientAt, Typed, TypeOK, Client
  <2>2. Got = "none" /\ Got' = "none"
    BY <2>1 DEF Got, ClientAt
  <2>3. Promise!Refuse(f)
    BY <1>1, <2>1, <2>2, OpIs, OpIsNext DEF Promise!Refuse
  <2>4. QED  BY <2>3 DEF Promise!Next
<1>9. QED  BY <1>2, <1>3, <1>4, <1>5, <1>6, <1>7, <1>8

(* The answers. *)
LEMMA PromiseReturn ==
  ASSUME None \notin Seq(Reply), Typed, InLock, ~ torn, OwnAnswersInStep',
         \/ ReceiveList \/ ReceiveHash \/ ReceiveHeader \/ ReceiveData \/ ReceiveEnd
         \/ ReceiveOther \/ DiskFails
  PROVE  Promise!Next \/ UNCHANGED Promise!vars
<1>1. Back.file = cli.file /\ Back.todo = cli.todo /\ Back.pc \in {"over", "ready"}
  BY BackKeeps, BackOK DEF Typed
<1>2. CASE ReceiveList \/ ReceiveHeader \/ ReceiveData
  <2>1. /\ \/ cli.pc = "listing" /\ cli'.pc = "listed"
           \/ cli.pc \in {"opening", "copying"} /\ cli'.pc = "copying"
        /\ cli'.file = cli.file /\ cli'.todo = cli.todo
    BY <1>2 DEF ReceiveList, ReceiveHeader, ReceiveData, ClientAt, Typed, TypeOK, Client
  <2>2. UNCHANGED <<copied, torn>>
    BY <1>2 DEF ReceiveList, ReceiveHeader, ReceiveData
  <2>3. QED  BY <2>1, <2>2, OpIs, OpIsNext, PromiseStutter
<1>3. CASE ReceiveHash
  <2>1. cli.pc = "hashing" /\ cli'.pc = "hashed" /\ cli'.file = cli.file /\ cli'.todo = cli.todo
    BY <1>3 DEF ReceiveHash, ClientAt, Typed, TypeOK, Client
  <2>2. UNCHANGED <<copied, torn>> /\ UNCHANGED Held
    BY <1>3, HeldStays DEF ReceiveHash
  <2>3. Got' = "own"
    BY <2>1, <2>2 DEF Got, Own, OwnAnswersInStep, OwnAnswers, ClientAt
  <2>4. Promise!Hashed
    BY <2>1, <2>2, <2>3, OpIs, OpIsNext DEF Promise!Hashed
  <2>5. QED  BY <2>4 DEF Promise!Next
<1>4. CASE ReceiveEnd
  <2>1. cli.pc = "copying" /\ cli'.pc = "ready" /\ cli'.file = cli.file /\ cli'.todo = cli.todo
    BY <1>1, <1>4, BackIs DEF ReceiveEnd, ClientAt
  <2>2. copied' = [copied EXCEPT ![cli.file] = cli.written] /\ UNCHANGED torn
    BY <1>4 DEF ReceiveEnd
  <2>3. copied \in [File -> Seq(Reply) \cup {None}] /\ cli.file \in File /\ cli.written \in Seq(Reply)
    BY <2>1 DEF Typed, TypeOK, Client
  <2>4. Whole(cli.file, cli.written)
    BY <1>4, EndLock DEF ReceiveEnd
  <2>5. cli.written # None
    BY <2>3
  <2>6. Held' = [Held EXCEPT ![cli.file] = "own"]
    BY <2>2, <2>3, <2>4, <2>5 DEF Held, Own, Whole, Data
  <2>7. Got = "none" /\ Got' = "none"
    BY <2>1 DEF Got, ClientAt
  <2>8. Promise!Copied
    BY <2>1, <2>2, <2>6, <2>7, OpIs, OpIsNext DEF Promise!Copied
  <2>9. QED  BY <2>8 DEF Promise!Next
<1>5. CASE ReceiveOther \/ DiskFails
  <2>1. /\ cli.pc \in Waiting /\ cli' = Back /\ UNCHANGED copied
        /\ torn' => torn \/ cli.pc \in {"opening", "copying"}
    BY <1>5 DEF ReceiveOther, DiskFails, Waiting, ClientAt
  <2>2. Op # "none" /\ Op' = "none"
    BY <1>1, <2>1, OpIs, OpIsNext DEF Waiting
  <2>3. QED  BY <1>1, <2>1, <2>2, OpIs, PromiseFail
<1>6. QED  BY <1>2, <1>3, <1>4, <1>5

(* The rest: failures, the ends of both sides, and the server's work. *)
LEMMA PromiseElse ==
  ASSUME Typed, ~ torn,
         Connect \/ CallFails \/ Hang \/ ServerWork \/ Failure
  PROVE  Promise!Next \/ UNCHANGED Promise!vars
<1>1. CASE Connect
  <2>1. /\ cli.pc = "off" /\ cli'.pc = "connected" /\ cli'.file = cli.file /\ cli'.todo = cli.todo
        /\ UNCHANGED <<copied, torn>>
    BY <1>1 DEF Connect, ClientAt, Typed, TypeOK, Client
  <2>2. QED  BY <2>1, OpIs, OpIsNext, PromiseStutter
<1>2. CASE CallFails
  <2>1. /\ cli.pc \in Waiting \cup {"hashed"} /\ UNCHANGED <<copied, torn>>
        /\ cli'.pc \in {"over", "ready"} /\ cli'.file = cli.file /\ cli'.todo = cli.todo
    BY <1>2, BackKeeps, BackOK DEF CallFails, ClientAt, Typed
  <2>2. Op # "none" /\ Op' = "none"
    BY <2>1, OpIs, OpIsNext DEF Waiting
  <2>3. QED  BY <2>1, <2>2, PromiseFail
<1>3. CASE Hang \/ ClientDies
  <2>1. /\ cli.pc # "over" /\ UNCHANGED <<copied, torn>>
        /\ cli'.pc = "over" /\ cli'.file = cli.file /\ cli'.todo = cli.todo
    BY <1>3 DEF Hang, ClientDies, ClientAt, Typed, TypeOK, Client
  <2>2. Op' = "none"
    BY <2>1, OpIsNext
  <2>3. CASE Op = "none"
    BY <2>1, <2>2, <2>3, PromiseStutter
  <2>4. CASE Op # "none"
    BY <2>1, <2>2, <2>4, PromiseFail
  <2>5. QED  BY <2>3, <2>4
<1>4. CASE ServerWork \/ ServerFails \/ Break
  <2>1. UNCHANGED <<cli, copied, torn>>
    BY <1>4 DEF ServerWork, ServeList, ServeHash, ServeRead, StreamChunk, StreamEnd, ServerEnds,
                ServerFails, Break
  <2>2. QED
    BY <2>1, HeldStays DEF Promise!vars, Op, Got, ClientAt
<1>5. QED  BY <1>1, <1>2, <1>3, <1>4 DEF Failure

LEMMA PromiseNext ==
  ASSUME None \notin Seq(Reply), IInv, IInv', [Next]_vars
  PROVE  [Promise!Next]_(Promise!vars)
<1>1. Typed /\ (~ torn => InLock) /\ OwnAnswersInStep'
  BY UnfoldInv DEF IInv
<1>2. CASE torn
  <2>1. torn'
    BY <1>1, <1>2, TornStays
  <2>2. Promise!Unreliable
    BY <1>2, <2>1 DEF Promise!Unreliable
  <2>3. QED  BY <2>2 DEF Promise!Next
<1>3. CASE ~ torn /\ UNCHANGED vars
  BY <1>3, HeldStays DEF vars, Promise!vars, Op, Got, ClientAt
<1>4. CASE ~ torn /\ Next /\ ~ UNCHANGED vars
  BY <1>1, <1>4, PromiseCall, PromiseReturn, PromiseElse DEF Next, ClientWork, Ended
<1>5. QED  BY <1>2, <1>3, <1>4

(* A remote source keeps what a source promises, whatever fails, until the *)
(* client fails to write a file (network/mod.rs, network/client.rs).  That *)
(* None is no sequence keeps the copy of an empty file from being none.    *)
THEOREM RemoteIsSource ==
  ASSUME None \notin Seq(Reply)
  PROVE  Spec => SourceSpec
<1>1. Init => Promise!Init
  BY PromiseInit
<1>2. IInv /\ IInv' /\ [Next]_vars => [Promise!Next]_(Promise!vars)
  BY PromiseNext
<1>3. QED  BY <1>1, <1>2, Inductive, PTL DEF Spec, SourceSpec, Promise!Spec
=============================================================================
