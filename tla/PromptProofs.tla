------------------------------ MODULE PromptProofs ------------------------------
(***************************************************************************)
(* Proofs about Checkpoint: what doGET brings the guest; and that, when    *)
(* nothing is killed, no virsh command fails, no answer is late and the    *)
(* guest waits for the save it asked for, checkpoint() returns with a      *)
(* snapshot and a backup of that moment, no snapshot is taken of a program *)
(* that is running, restore() gives the program back its own files, and    *)
(* both calls are to the program what module SaveRestore says.             *)
(***************************************************************************)
EXTENDS BackupProofs

USE ConstAssumption, MsgType DEF ConstAssumption, HeaderKind

-------------------------------------------------------------------------------
(* What doGET brings *)

\* doGET is doSET the other way round: unless nothing but whole files is on its
\* way and the server is not sending, what is in flight down, and what the
\* server still has to send, gives the guest every file the server has.
Fetching == vm.sock \in Conn /\ vm.pc \in {"get", "name", "body"}
Turned(r) == [r EXCEPT !.up = r.down]
Sender(sf, td) == [pc |-> "set", file |-> sf, todo |-> td, cur |-> NoFile]
Unfinished(p, r) == p # "send" /\ \A k \in DOMAIN r.down : r.down[k].kind # "EOF"
BringInv ==
  Fetching => \/ Unfinished(Pos(vm.sock), conn[vm.sock])
              \/ Store(Sender(sfile, todo), Turned(conn[vm.sock]), vm.pc, vm.file, vm.cur)

LEMMA TurnedType ==
  ASSUME NEW r \in ConnState
  PROVE  Turned(r) \in ConnState /\ Turned(r).up = r.down
  BY DEF Turned, ConnState

LEMMA SenderIs ==
  ASSUME NEW sf, NEW td
  PROVE  /\ Sender(sf, td).pc = "set" /\ Sender(sf, td).file = sf /\ Sender(sf, td).todo = td
  BY DEF Sender

\* The guest's conversation stands still, and so do the server's files.
LEMMA BringStays ==
  ASSUME BringInv, UNCHANGED <<vm.sock, vm.pc, vm.file, vm.cur>>,
         Fetching => /\ conn'[vm.sock].down = conn[vm.sock].down
                     /\ Pos(vm.sock)' = Pos(vm.sock)
                     /\ UNCHANGED <<sfile, todo>> \/ Unfinished(Pos(vm.sock), conn[vm.sock])
  PROVE  BringInv'
<1> SUFFICES ASSUME Fetching'
             PROVE  \/ Unfinished(Pos(vm.sock)', conn'[vm.sock])
                    \/ Store(Sender(sfile', todo'), Turned(conn'[vm.sock]), vm.pc, vm.file, vm.cur)
  BY DEF BringInv
<1>1. Fetching
  BY DEF Fetching
<1>2. CASE Unfinished(Pos(vm.sock), conn[vm.sock])
  BY <1>1, <1>2 DEF Unfinished
<1>3. CASE /\ Store(Sender(sfile, todo), Turned(conn[vm.sock]), vm.pc, vm.file, vm.cur)
           /\ UNCHANGED <<sfile, todo>>
  <2>1. \A r, t : t.up = r.up =>
          (Store(Sender(sfile, todo), r, vm.pc, vm.file, vm.cur)
             => Store(Sender(sfile, todo), t, vm.pc, vm.file, vm.cur))
    BY DEF Store
  <2>2. Turned(conn'[vm.sock]).up = Turned(conn[vm.sock]).up
    BY <1>1 DEF Turned
  <2> QED BY <2>1, <2>2, <1>3
<1> QED BY <1>1, <1>2, <1>3 DEF BringInv

\* recvFile of the client, a message at a time.
LEMMA BringTakes ==
  ASSUME BackupInv, BringInv, RecvSET \/ RecvName \/ RecvBody
  PROVE  BringInv'
<1>. DEFINE old == conn[vm.sock]
            g == Sender(sfile, todo)
            t == Turned(Taken)
<1>1. /\ vm.sock \in Conn /\ old.down # <<>> /\ UNCHANGED <<snap, pending, fd, host, saved>>
      /\ Fetching /\ old \in ConnState
  BY Mine DEF RecvSET, RecvName, RecvBody, Receive, Sock, Fetching
<1>2. /\ Taken \in ConnState /\ Taken.srv = old.srv /\ Taken.down = Tail(old.down)
  BY <1>1, TakeType DEF Taken, Sock, ConnState
<1>3. /\ Turned(old) \in ConnState /\ Turned(old).up = old.down /\ t.up = Tail(Turned(old).up)
      /\ g.file = sfile
  BY <1>1, <1>2, TurnedType, SenderIs
<1>4. UNCHANGED <<sfile, todo, spc, client>>
  BY <1>1 DEF host
<1>5. /\ old.down[1] = Head(old.down) /\ 1 \in DOMAIN old.down /\ old.down \in Seq(Msg)
      /\ \A k \in DOMAIN Taken.down : k + 1 \in DOMAIN old.down /\ Taken.down[k] = old.down[k + 1]
  <2>. DEFINE q == old.down
              u == Taken.down
  <2>1. q \in Seq(Msg) /\ u = Tail(q) /\ q # <<>>
    BY <1>1, <1>2 DEF ConnState
  <2> HIDE DEF q, u
  <2>2. q[1] = Head(q) /\ 1 \in DOMAIN q
    BY <2>1, TailPlaces
  <2>3. \A k \in DOMAIN u : k + 1 \in DOMAIN q /\ u[k] = q[k + 1]
    BY <2>1, TailPlaces
  <2> QED BY <2>1, <2>2, <2>3 DEF q, u
<1>6. \A p : Unfinished(p, old) => Unfinished(p, Taken)
  BY <1>5 DEF Unfinished
<1> HIDE DEF g, t
<1>7. ASSUME NEW pc \in {"get", "name", "body"}, NEW file, NEW cu,
             vm'.pc = pc, vm'.sock = vm.sock, vm'.file = file, vm'.cur = cu,
             conn' = [conn EXCEPT ![vm.sock] = Taken],
             Store(g, Turned(old), vm.pc, vm.file, vm.cur) => Store(g, t, pc, file, cu)
      PROVE  BringInv'
  <2>1. conn'[vm.sock] = Taken
    BY <1>1, <1>7, Known
  <2>2. Pos(vm.sock)' = Pos(vm.sock)
    BY <1>1, <1>2, <1>4, <1>7, <2>1 DEF Pos, Served
  <2> QED BY <1>1, <1>4, <1>6, <1>7, <2>1, <2>2 DEF BringInv, g, t
<1>8. CASE RecvSET
  <2>1. Receive(Hdr("SET"), [vm EXCEPT !.pc = "name"]) /\ vm.pc = "get"
    BY <1>8 DEF RecvSET
  <2>2. Head(old.down) = Hdr("SET") /\ Hdr("SET").kind = "SET" /\ \A f : Hdr("SET") # Name(f)
    BY <2>1 DEF Receive, Sock, Hdr, Name
  <2>3. /\ vm'.pc = "name" /\ vm'.sock = vm.sock /\ vm'.file = vm.file /\ vm'.cur = vm.cur
        /\ conn' = [conn EXCEPT ![vm.sock] = Taken]
    BY <2>1, <1>1, Known DEF Receive, GuestRecord
  <2>4. Store(g, Turned(old), "get", vm.file, vm.cur) => Store(g, t, "name", vm.file, vm.cur)
    BY <2>2, <1>1, <1>3, StoreTake
  <2> QED BY <2>1, <2>3, <2>4, <1>7
<1>9. CASE RecvName
  <2>1. PICK f \in Files :
          Receive(Name(f), [vm EXCEPT !.pc = "body", !.cur = f, !.file[f] = Torn])
    BY <1>9 DEF RecvName
  <2>. DEFINE v == [vm EXCEPT !.pc = "body", !.cur = f, !.file[f] = Torn]
              file == [vm.file EXCEPT ![f] = Torn]
  <2>2. v.sock = vm.sock /\ v.pc = "body"
    BY Known DEF GuestRecord
  <2>3. v.cur = f
    BY Known DEF GuestRecord
  <2>4. v.file = file
    BY Known DEF GuestRecord
  <2> HIDE DEF v
  <2>5. vm' = v /\ conn' = [conn EXCEPT ![vm.sock] = Taken] /\ Head(old.down) = Name(f)
        /\ vm.pc = "name"
    BY <2>1, <2>2, <1>1, <1>9, Known DEF Receive, Sock, v, RecvName
  <2>6. Name(f).kind = "name" /\ \A e : Name(e).file = e
    BY DEF Name
  <2>7. \A e \in Files : e # f => file[e] = vm.file[e]
    BY Known DEF GuestRecord
  <2> HIDE DEF file
  <2>8. ASSUME Store(g, Turned(old), "name", vm.file, vm.cur) PROVE Store(g, t, "body", file, f)
    <3>1. f \in Present(g.file)
      BY <2>5, <2>6, <2>8, <1>3, <1>5 DEF Store
    <3>2. \A e \in Present(g.file) :
            vm.file[e] = g.file[e] \/ Head(old.down) = Name(e) \/ ("name" = "body" /\ vm.cur = e)
              => file[e] = g.file[e] \/ ("body" = "body" /\ f = e)
      BY <2>5, <2>6, <2>7 DEF Present
    <3> QED BY <3>1, <3>2, <2>5, <2>8, <1>1, <1>3, StoreTake
  <2> QED BY <2>2, <2>3, <2>4, <2>5, <2>8, <1>7
<1>10. CASE RecvBody
  <2>1. PICK b \in Content :
          Receive(Body(b), [vm EXCEPT !.pc = "get", !.cur = NoFile, !.file[vm.cur] = b])
    BY <1>10 DEF RecvBody
  <2>. DEFINE v == [vm EXCEPT !.pc = "get", !.cur = NoFile, !.file[vm.cur] = b]
              file == [vm.file EXCEPT ![vm.cur] = b]
  <2>2. v.sock = vm.sock /\ v.pc = "get"
    BY Known DEF GuestRecord
  <2>3. v.cur = NoFile
    BY Known DEF GuestRecord
  <2>4. v.file = file
    BY Known DEF GuestRecord
  <2> HIDE DEF v
  <2>5. vm' = v /\ conn' = [conn EXCEPT ![vm.sock] = Taken] /\ Head(old.down) = Body(b)
        /\ vm.pc = "body"
    BY <2>1, <2>2, <1>1, <1>10, Known DEF Receive, Sock, v, RecvBody
  <2>6. Body(b).kind = "body" /\ \A e : Body(b) # Name(e)
    BY DEF Body, Name
  <2>7. /\ \A e \in Files : e # vm.cur => file[e] = vm.file[e]
        /\ vm.cur \in Files => file[vm.cur] = b
    BY Known DEF GuestRecord
  <2> HIDE DEF file
  <2>8. ASSUME Store(g, Turned(old), "body", vm.file, vm.cur) PROVE Store(g, t, "get", file, NoFile)
    <3>1. vm.cur \in Present(g.file) /\ Body(b) = Body(g.file[vm.cur])
      BY <2>5, <2>8, <1>1, <1>3, <1>5 DEF Store
    <3>2. b = g.file[vm.cur]
      BY <3>1 DEF Body
    <3>3. \A e \in Present(g.file) :
            vm.file[e] = g.file[e] \/ Head(old.down) = Name(e) \/ ("body" = "body" /\ vm.cur = e)
              => file[e] = g.file[e] \/ ("get" = "body" /\ NoFile = e)
      BY <3>1, <3>2, <2>5, <2>6, <2>7 DEF Present
    <3> QED BY <3>3, <2>5, <2>6, <2>8, <1>1, <1>3, StoreTake
  <2> QED BY <2>2, <2>3, <2>4, <2>5, <2>8, <1>7
<1> QED BY <1>8, <1>9, <1>10

\* What the guest does besides.
LEMMA BringGuest ==
  ASSUME BackupInv, BringInv,
         GuestStep \/ CallCheckpoint \/ CallRestore \/ CallRefused \/ Train \/ Launch \/ Kill \/ Type
  PROVE  BringInv'
<1>1. CASE RecvSET \/ RecvName \/ RecvBody
  BY <1>1, BringTakes
<1>2. CASE WaitTimeout \/ Type
  <2>1. UNCHANGED <<vm.sock, vm.pc, vm.file, vm.cur, conn, sfile, todo, spc, client, fd>>
    BY <1>2, Known DEF WaitTimeout, Type, guest, host, GuestRecord
  <2>2. \A c \in Conn : Pos(c)' = Pos(c)
    BY <2>1 DEF Pos, Served
  <2> QED BY <2>1, <2>2, BringStays DEF Fetching
<1>3. CASE SendGET
  <2>1. vm.pc = "GET" /\ vm.sock \in Conn \cup {Stale}
    BY <1>3, Known DEF SendGET
  <2>2. CASE vm.sock = Stale \/ conn[vm.sock].srv = "rst"
    <3>1. vm' = Halted(vm)
      BY <1>3, <2>2 DEF SendGET, Send, Sock
    <3> QED BY <3>1, Known DEF Halted, GuestRecord, BringInv, Fetching
  <2>3. CASE vm.sock \in Conn /\ conn[vm.sock].srv # "rst"
    <3>. DEFINE ms == <<Hdr("GET")>>
                old == conn[vm.sock]
                g == [vm EXCEPT !.pc = "get"]
                r == Up(old, ms)
    <3>1. ms \in Seq(Msg) /\ Send(ms, g) /\ g.sock = vm.sock
      BY <1>3, OneMsg, Known DEF SendGET, GuestRecord
    <3>2. old.down = <<>> /\ Pos(vm.sock) # "send"
      BY <2>1, <2>3, Mine DEF Talk
    <3>3. r = Up(old, ms)
      OBVIOUS
    <3> HIDE DEF r, ms, g
    <3>4. /\ vm' = g /\ UNCHANGED <<saved, snap, pending, fd, host>>
          /\ conn' = [conn EXCEPT ![vm.sock] = IF g.sock = NoConn THEN CliClose(r) ELSE r]
          /\ r.down = old.down /\ (r.srv = "open" <=> old.srv = "open")
      BY <3>1, <3>3, <2>3, Writes
    <3>5. conn'[vm.sock] = r /\ vm'.sock = vm.sock /\ r.down = <<>>
      BY <3>1, <3>2, <3>4, <2>3, Known
    <3>6. Pos(vm.sock)' = Pos(vm.sock)
      BY <3>4, <3>5, <2>3 DEF Pos, Served, host
    <3>7. Unfinished(Pos(vm.sock)', conn'[vm.sock])
      BY <3>2, <3>5, <3>6 DEF Unfinished
    <3> QED BY <3>5, <3>7 DEF BringInv
  <2> QED BY <2>1, <2>2, <2>3
<1>4. CASE StartGET \/ StartRES \/ CallCheckpoint \/ CallRestore
  <2>1. \A pc, files : Connect(pc, files) => vm'.pc = pc
    BY Known DEF Connect, GuestRecord
  <2>2. vm'.pc \notin {"get", "name", "body"}
    BY <1>4, <2>1 DEF StartGET, StartRES, CallCheckpoint, CallRestore
  <2> QED BY <2>2 DEF BringInv, Fetching
<1>5. CASE SendCKP \/ SendRES \/ SendName \/ SendBody \/ SendEOF
  <2>1. \A ms, g : Send(ms, g) => vm' = g \/ vm' = Halted(vm)
    BY DEF Send
  <2>2. Halted(vm).pc = "dead"
    BY Known DEF Halted, GuestRecord
  <2>3. ASSUME NEW f PROVE [vm EXCEPT !.pc = "setBody", !.cur = f, !.todo = @ \ {f}].pc = "setBody"
    BY Known DEF GuestRecord
  <2>4. /\ [vm EXCEPT !.pc = "set", !.cur = NoFile].pc = "set"
        /\ [vm EXCEPT !.pc = "end"].pc = "end"
        /\ [vm EXCEPT !.pc = "ckp"].pc = "ckp"
        /\ [vm EXCEPT !.pc = "run", !.sock = NoConn].pc = "run"
    BY Known DEF GuestRecord
  <2>5. vm'.pc \notin {"get", "name", "body"}
    BY <1>5, <2>1, <2>2, <2>3, <2>4 DEF SendCKP, SendRES, SendName, SendBody, SendEOF
  <2> QED BY <2>5 DEF BringInv, Fetching
<1>6. CASE \/ Refused \/ RecvCKN \/ RecvCKY \/ CkpTimeout \/ PingDone \/ RecvEOF \/ RecvEND
           \/ ReadReset \/ CallRefused \/ Train \/ Launch \/ Kill
  <2>1. vm'.pc \notin {"get", "name", "body"}
    BY <1>6, Known DEF Refused, CallRefused, RecvCKN, RecvCKY, CkpTimeout, PingDone, RecvEOF, RecvEND,
       ReadReset, Train, Launch, Kill, Receive, Halted, Started, GuestRecord
  <2> QED BY <2>1 DEF BringInv, Fetching
<1> QED BY <1>1, <1>2, <1>3, <1>4, <1>5, <1>6 DEF GuestStep

\* Nothing is in flight down to a guest that another is served before.
LEMMA NothingYet ==
  ASSUME BackupInv, Fetching, Active, vm.sock # Served
  PROVE  Unfinished(Pos(vm.sock), conn[vm.sock]) /\ conn[vm.sock].down = <<>>
<1>1. ~HeardOut
  BY Acts
<1>2. conn[vm.sock].down = <<>>
  BY <1>1, Known DEF OthersInv, Fetching
<1>3. Pos(vm.sock) # "send"
  BY DEF Pos
<1> QED BY <1>2, <1>3 DEF Unfinished

\* The server turns to nobody, or to the next of those that wait.
LEMMA BringLoop ==
  ASSUME BackupInv, BringInv,
         Select \/ StdinTurn \/ CinLine \/ CinWord \/ Accept \/ Restart \/ Serve
  PROVE  BringInv'
<1>1. client = Stdin /\ spc \notin Serving
  BY Known DEF BookInv, Place, Serving, Select, StdinTurn, CinLine, CinWord, Accept, Restart,
               Serve, Turn
<1>2. /\ UNCHANGED <<vm, conn, sfile, todo>> /\ spc' # "send"
      /\ (spc' # "header" => client' = Stdin)
  BY <1>1 DEF Serving, Select, StdinTurn, CinLine, CinWord, Accept, Restart, Serve, Turn,
              DoneWith, guest, host
<1>3. \A c \in Conn : Pos(c)' = Pos(c)
  <2>1. Served = NoConn
    BY <1>1 DEF Served
  <2>2. Served' = NoConn \/ spc' = "header"
    BY <1>2 DEF Served
  <2> QED BY <2>1, <2>2, <1>2, Known DEF Pos
<1> QED BY <1>2, <1>3, BringStays DEF Fetching

\* The guest that fetches is served, and the server is at sendFile or about to be.
LEMMA FetchServed ==
  ASSUME BackupInv, Fetching, client # Stdin, spc # "astray", vm.sock = Served
  PROVE  /\ spc \in {"send", "header"} /\ Pos(Served) = spc
         /\ spc = "send" => conn[Served].up = <<>>
         /\ spc = "header" => conn[Served].up \in {<<>>, <<Hdr("GET")>>}
         /\ conn[Served].up = <<Hdr("GET")>> => conn[Served].down = <<>>
         /\ conn[Served].cli = "open" /\ conn[Served] \in ConnState /\ Served \in Conn
<1>1. /\ Talk(vm.pc, conn[Served], spc) /\ Pos(Served) = spc /\ spc # "gone"
      /\ conn[Served].cli = "open" /\ conn[Served] \in ConnState /\ Served \in Conn
  BY ServedTalk, Known DEF BookInv, TypeOK, ServerPC
<1>2. <<Hdr("GET")>> # <<>>
  OBVIOUS
<1> QED BY <1>1, <1>2 DEF Talk, Fetching

\* serveClient is at work on somebody else's connection.
LEMMA BringOther ==
  ASSUME BackupInv, BringInv, Active, vm' = vm, Fetching => vm.sock # Served,
         \A c \in Conn : c # Served => conn'[c] = conn[c],
         Served' \in {Served, NoConn}
  PROVE  BringInv'
<1>1. ASSUME Fetching PROVE /\ conn'[vm.sock] = conn[vm.sock] /\ Pos(vm.sock)' = Pos(vm.sock)
                            /\ Unfinished(Pos(vm.sock), conn[vm.sock])
  <2>1. vm.sock \in Conn /\ vm.sock # Served /\ vm.sock # NoConn
    BY <1>1, Known DEF Fetching
  <2>2. conn'[vm.sock] = conn[vm.sock] /\ Served' # vm.sock
    BY <2>1
  <2> QED BY <2>1, <2>2, <1>1, NothingYet DEF Pos
<1> QED BY <1>1, BringStays

\* sendFile of the server.
LEMMA BringSends ==
  ASSUME BackupInv, BringInv, ServeGET \/ SendFile \/ SendFilesEnd
  PROVE  BringInv'
<1>. DEFINE old == conn[Served]
<1>1. client # Stdin /\ vm' = vm /\ UNCHANGED <<fd, client, sfile>>
  BY Known DEF BookInv, Place, Serving, ServeGET, SendFile, SendFilesEnd, At, Continue, guest
<1>2. Active
  BY <1>1 DEF Active, ServeGET, SendFile, SendFilesEnd, At
<1>3. Served' = Served /\ \A c \in Conn : c # Served => conn'[c] = conn[c]
  BY <1>1, Known DEF ServeGET, SendFile, SendFilesEnd, Continue, Served
<1>4. CASE ~(Fetching /\ vm.sock = Served)
  BY <1>1, <1>2, <1>3, <1>4, BringOther
<1>5. CASE Fetching /\ vm.sock = Served
  <2>1. /\ Pos(Served) = spc /\ spc \in {"send", "header"} /\ Served \in Conn /\ old \in ConnState
        /\ old.up = <<Hdr("GET")>> => old.down = <<>>
        /\ spc = "header" => old.up \in {<<>>, <<Hdr("GET")>>}
        /\ old.cli = "open"
    BY <1>1, <1>2, <1>5, FetchServed DEF Active
  <2>2. todo \subseteq Present(sfile) /\ sfile \in [Files -> Content]
    BY Known DEF FetchInv, BookInv, TypeOK
  <2>3. Fetching' /\ vm'.pc = vm.pc /\ vm'.file = vm.file /\ vm'.cur = vm.cur
    BY <1>1, <1>5 DEF Fetching
  <2>4. ASSUME Store(Sender(sfile, todo'), Turned(conn'[Served]), vm.pc, vm.file, vm.cur)
        PROVE  BringInv'
    BY <2>4, <1>1, <1>5 DEF BringInv
  <2>5. CASE ServeGET
    <3>1. /\ old.down = <<>> /\ todo' = Present(sfile) /\ conn'[Served] = Read /\ vm.pc = "get"
          /\ old.up # <<>>
      <4>1. old.up # <<>> /\ spc = "header"
        BY <2>5 DEF ServeGET, At
      <4>2. Talk(vm.pc, old, "header") /\ old.up = <<Hdr("GET")>>
        BY <4>1, <2>1, <1>1, <1>5, ServedTalk, Known
      <4>3. vm.pc = "get"
        BY <4>1, <4>2, <1>5 DEF Talk, Fetching
      <4> QED BY <4>1, <4>2, <4>3, <2>1, <2>5, Known DEF ServeGET, Continue
    <3>2. Read.down = <<>> /\ Read \in ConnState
      BY <3>1, <2>1, TakeType DEF Read, ConnState
    <3>3. Turned(Read).up = <<>>
      BY <3>2, TurnedType
    <3>. DEFINE g == Sender(sfile, Present(sfile))
    <3>4. g.pc = "set" /\ g.file = sfile /\ g.todo = Present(sfile)
      BY SenderIs
    <3> HIDE DEF g
    <3>5. Store(g, Turned(Read), "get", vm.file, vm.cur)
      BY <3>3, <3>4 DEF Store
    <3> QED BY <3>1, <3>5, <2>4 DEF g
  <2>6. CASE SendFile \/ SendFilesEnd
    <3>1. spc = "send"
      BY <2>6 DEF SendFile, SendFilesEnd
    <3>2. Talk(vm.pc, old, "send") /\ \A k \in DOMAIN old.down : old.down[k].kind \in FileKind \cup {"EOF"}
      BY <3>1, <1>1, <1>5, ServedTalk, Known DEF Talk, Only, Fetching
    <3>3. \A k \in DOMAIN old.down : old.down[k].kind # "EOF"
      <4>1. Fetch(vm.file, old, "send", sfile, todo)
        BY <3>1, <2>1, <1>5, Known DEF FetchInv, Fetching
      <4> QED BY <4>1 DEF Fetch
    <3>4. Only(old.down, FileKind)
      BY <3>2, <3>3 DEF Only, FileKind
    <3>5. /\ old.up = <<>>
          /\ Expects(ReadsAt(vm.pc), old.down) = "header"
      BY <3>1, <3>2, <1>5 DEF Talk, Fetching
    <3>6. /\ vm.pc = "body" => old.down # <<>>
          /\ old.down # <<>> => old.down[Len(old.down)].kind # "name"
      BY <3>5 DEF Expects, After, ReadsAt
    <3>7. Store(Sender(sfile, todo), Turned(old), vm.pc, vm.file, vm.cur)
      BY <3>1, <2>1, <1>5 DEF BringInv, Unfinished
    <3>. DEFINE r0 == Turned(old)
                p0 == vm.pc
    <3>8. /\ r0 \in ConnState /\ r0.up = old.down
          /\ \A td : Sender(sfile, td).file = sfile /\ Sender(sfile, td).todo = td /\ Sender(sfile, td).pc = "set"
      BY <2>1, TurnedType, SenderIs
    <3> HIDE DEF r0, p0
    <3>9. ASSUME NEW ms \in Seq(Msg), NEW p, Continue(p, Down(old, ms))
          PROVE  Turned(conn'[Served]).up = r0.up \o ms
      <4>1. Down(old, ms).down = old.down \o ms /\ Down(old, ms) \in ConnState
        BY <2>1, <3>9, DownWords
      <4>2. conn'[Served] = Down(old, ms)
        BY <3>9, <2>1, Known DEF Continue
      <4> QED BY <4>1, <4>2, <3>8, TurnedType
    <3>10. CASE SendFile
      <4>1. PICK f \in todo :
              /\ Continue("send", Down(conn[Served], <<Hdr("SET"), Name(f), Body(sfile[f])>>))
              /\ todo' = todo \ {f}
        BY <3>10 DEF SendFile
      <4>2. f \in Files /\ f \in Present(sfile) /\ sfile[f] \in Content
        BY <2>2 DEF Present
      <4>. DEFINE m1 == <<Hdr("SET"), Name(f)>>
                  m2 == <<Body(sfile[f])>>
                  ms == <<Hdr("SET"), Name(f), Body(sfile[f])>>
                  mid == [old EXCEPT !.up = old.down \o m1]
                  g0 == Sender(sfile, todo)
                  g1 == [pc |-> "setBody", file |-> sfile, todo |-> todo \ {f}, cur |-> f]
                  g2 == Sender(sfile, todo \ {f})
      <4>3. /\ Hdr("SET") \in Msg /\ Name(f) \in Msg /\ Body(sfile[f]) \in Msg
            /\ Hdr("SET").kind = "SET" /\ Name(f).kind = "name" /\ Name(f).file = f
            /\ Body(sfile[f]).kind = "body"
        BY <4>2, MsgType DEF Hdr, Name, Body, HeaderKind
      <4>4. /\ m1 \in Seq(Msg) /\ DOMAIN m1 = {1, 2} /\ Len(m1) = 2 /\ m1[1] = Hdr("SET")
            /\ m1[2] = Name(f) /\ m1 # <<>>
        BY <4>3
      <4>5. /\ m2 \in Seq(Msg) /\ DOMAIN m2 = {1} /\ Len(m2) = 1 /\ m2[1] = Body(sfile[f]) /\ m2 # <<>>
        BY <4>3
      <4>6. ms \in Seq(Msg) /\ ms = m1 \o m2
        BY <4>3
      <4>7. /\ g1.pc = "setBody" /\ g1.file = sfile /\ g1.todo = todo \ {f} /\ g1.cur = f
            /\ g0.file = sfile /\ g0.todo = todo /\ g2.file = sfile /\ g2.todo = todo \ {f}
            /\ g0.pc = "set" /\ g2.pc = "set"
        BY <3>8
      <4>8. Turned(conn'[Served]).up = r0.up \o ms
        BY <4>1, <4>6, <3>9
      <4>9. mid \in ConnState /\ mid.up = old.down \o m1
        <5>1. old.down \in Seq(Msg)
          BY <2>1 DEF ConnState
        <5>2. old.down \o m1 \in Seq(Msg)
          BY <5>1, <4>4, ConcatProperties
        <5> HIDE DEF m1
        <5> QED BY <5>2, <2>1 DEF ConnState
      <4> HIDE DEF m1, m2, ms, mid, g0, g1, g2
      <4>11. Store(g1, mid, p0, vm.file, vm.cur)
        <5>1. Store(g0, r0, p0, vm.file, vm.cur) /\ Only(r0.up, FileKind)
          BY <3>4, <3>7, <3>8 DEF g0, r0, p0
        <5>2. mid.up = r0.up \o m1
          BY <4>9, <3>8
        <5>3. \A k \in DOMAIN m1 : /\ m1[k].kind = "name" => m1[k].file \in Present(g0.file) /\ k = Len(m1)
                                   /\ m1[k].kind = "EOF" => k = Len(m1)
          BY <4>2, <4>3, <4>4, <4>7
        <5>4. /\ g1.todo \subseteq g0.todo
              /\ \A e \in g0.todo \ g1.todo : \E k \in DOMAIN m1 : m1[k] = Name(e)
              /\ m1[Len(m1)] = Name(g1.cur)
          BY <4>4, <4>7
        <5>5. /\ r0.up # <<>> => r0.up[Len(r0.up)].kind # "name"
              /\ p0 = "body" => r0.up # <<>>
          BY <3>6, <3>8 DEF p0
        <5>6. r0 \in ConnState /\ g1.file = g0.file /\ g1.pc # "end"
          BY <3>8, <4>7
        <5> QED BY <5>1, <5>2, <5>3, <5>4, <5>5, <5>6, <4>4, StoreSays
      <4>12. Store(g2, Turned(conn'[Served]), p0, vm.file, vm.cur)
        <5>. DEFINE t == Turned(conn'[Served])
        <5>1. t.up = mid.up \o m2
          <6>. DEFINE q == old.down
          <6>1. q \in Seq(Msg) /\ m1 \in Seq(Msg) /\ m2 \in Seq(Msg)
            BY <2>1, <4>4, <4>5 DEF ConnState
          <6> HIDE DEF q
          <6>2. (q \o m1) \o m2 = q \o (m1 \o m2)
            BY <6>1, ConcatAssociative
          <6> QED BY <6>2, <4>6, <4>8, <4>9, <3>8 DEF q
        <5> HIDE DEF t
        <5>2. mid.up # <<>> /\ mid.up[Len(mid.up)] = Name(f)
          <6>. DEFINE q == old.down
                      u == mid.up
          <6>1. q \in Seq(Msg) /\ m1 \in Seq(Msg) /\ u = q \o m1
            BY <2>1, <4>4, <4>9 DEF ConnState
          <6> HIDE DEF q, u
          <6>2. Len(q) \in Nat /\ Len(u) = Len(q) + Len(m1) /\ DOMAIN u = 1 .. Len(u)
            BY <6>1, ConcatPlaces
          <6>3. \A k \in DOMAIN m1 : Len(q) + k \in DOMAIN u /\ u[Len(q) + k] = m1[k]
            BY <6>1, ConcatPlaces
          <6>4. Len(q) + 2 \in DOMAIN u /\ u[Len(q) + 2] = Name(f)
            BY <6>3, <4>4
          <6>5. u # <<>> /\ Len(u) = Len(q) + 2
            BY <6>2, <6>4, <4>4
          <6> QED BY <6>4, <6>5 DEF u
        <5>3. Only(mid.up, FileKind)
          <6>1. old.down \in Seq(Msg)
            BY <2>1 DEF ConnState
          <6>2. Only(m1, FileKind)
            BY <4>3, <4>4 DEF Only, FileKind
          <6> QED BY <6>1, <6>2, <3>4, <4>4, <4>9, OnlyConcat
        <5>4. \A k \in DOMAIN m2 : m2[k].kind # "name" /\ m2[k].kind # "EOF"
          BY <4>3, <4>5
        <5>5. mid.up[Len(mid.up)].kind = "name" => m2[1] = Body(g1.file[mid.up[Len(mid.up)].file])
          BY <5>2, <4>3, <4>5, <4>7
        <5>6. g2.file = g1.file /\ g2.todo \subseteq g1.todo /\ g1.todo \ g2.todo = {}
              /\ g2.pc # "setBody" /\ g2.pc # "end"
          BY <4>7
        <5>7. Store(g2, t, p0, vm.file, vm.cur)
          BY <5>1, <5>2, <5>3, <5>4, <5>5, <5>6, <4>5, <4>9, <4>11, StoreSays
        <5> QED BY <5>7 DEF t
      <4> QED BY <4>1, <4>12, <2>4 DEF g2, p0
    <3>11. CASE SendFilesEnd
      <4>1. Continue("header", Down(old, <<Hdr("EOF")>>)) /\ todo = {} /\ todo' = todo
        BY <3>11 DEF SendFilesEnd
      <4>. DEFINE ms == <<Hdr("EOF")>>
                  g == Sender(sfile, todo)
                  t == Turned(conn'[Served])
      <4>2. Hdr("EOF") \in Msg /\ Hdr("EOF").kind = "EOF"
        BY MsgType DEF Hdr, HeaderKind
      <4>3. ms \in Seq(Msg) /\ DOMAIN ms = {1} /\ ms[1] = Hdr("EOF") /\ Len(ms) = 1 /\ ms # <<>>
        BY <4>2
      <4>4. t.up = r0.up \o ms
        BY <4>1, <4>3, <3>9
      <4>5. g.file = sfile /\ g.todo = todo /\ g.pc = "set"
        BY <3>8
      <4>6. Store(g, r0, p0, vm.file, vm.cur) /\ Only(r0.up, FileKind)
        BY <3>4, <3>7, <3>8 DEF r0, p0
      <4> HIDE DEF ms, g, t
      <4>7. /\ r0.up # <<>> => r0.up[Len(r0.up)].kind # "name"
            /\ p0 = "body" => r0.up # <<>>
        BY <3>6, <3>8 DEF p0
      <4>8. \A k \in DOMAIN ms : /\ ms[k].kind = "name" => ms[k].file \in Present(g.file) /\ k = Len(ms)
                                 /\ ms[k].kind = "EOF" => k = Len(ms)
        BY <4>2, <4>3
      <4>9. r0 \in ConnState /\ g.pc # "setBody" /\ g.pc # "end"
        BY <3>8, <4>5
      <4>10. Store(g, t, p0, vm.file, vm.cur)
        BY <4>3, <4>4, <4>6, <4>7, <4>8, <4>9, StoreSays
      <4> QED BY <4>1, <4>10, <2>4 DEF g, t, p0
    <3> QED BY <2>6, <3>10, <3>11
  <2> QED BY <2>5, <2>6
<1> QED BY <1>4, <1>5

\* The other steps of serveClient: the guest that fetches is not the one served.
LEMMA BringServes ==
  ASSUME BackupInv, BringInv,
         \/ ServeSET \/ ServeCKP \/ ServeRES \/ ServeEOF \/ ServeEND \/ ServeName \/ ServeBody
         \/ DeleteSnapshot \/ CreateSnapshot \/ AnswerCKY
  PROVE  BringInv'
<1>1. client # Stdin /\ vm' = vm
  BY Known DEF BookInv, Place, Serving, ServeSET, ServeCKP, ServeRES, ServeEOF, ServeEND,
     ServeName, ServeBody, DeleteSnapshot, CreateSnapshot, AnswerCKY, At, guest
<1>2. Active
  BY <1>1 DEF Active, ServeSET, ServeCKP, ServeRES, ServeEOF, ServeEND,
     ServeName, ServeBody, DeleteSnapshot, CreateSnapshot, AnswerCKY, At
<1>3. Fetching => vm.sock # Served
  <2>1. SUFFICES ASSUME Fetching, vm.sock = Served PROVE FALSE
    OBVIOUS
  <2>2. /\ spc = "header" /\ conn[Served].up = <<Hdr("GET")>>
    BY <1>1, <1>2, <2>1, FetchServed DEF ServeSET, ServeCKP, ServeRES, ServeEOF, ServeEND,
       ServeName, ServeBody, DeleteSnapshot, CreateSnapshot, AnswerCKY, At, Active
  <2>3. Head(conn[Served].up) = Hdr("GET") /\ \A h : Hdr(h).kind = h
    BY <2>2 DEF Hdr
  <2> QED BY <2>2, <2>3 DEF ServeSET, ServeCKP, ServeRES, ServeEOF, ServeEND,
       ServeName, ServeBody, DeleteSnapshot, CreateSnapshot, AnswerCKY, At
<1>4. Served' \in {Served, NoConn}
  BY <1>1 DEF ServeSET, ServeCKP, ServeRES, ServeEOF, ServeEND, ServeName, ServeBody,
     DeleteSnapshot, CreateSnapshot, AnswerCKY, Continue, Finish, Served
<1>5. \A c \in Conn : c # Served => conn'[c] = conn[c]
  BY <1>1, Known, ServedConn DEF ServeSET, ServeCKP, ServeRES, ServeEOF, ServeEND, ServeName, ServeBody,
     DeleteSnapshot, CreateSnapshot, AnswerCKY, Continue, Finish
<1> QED BY <1>1, <1>2, <1>3, <1>4, <1>5, BringOther

LEMMA BringReverts ==
  ASSUME BackupInv, BringInv, RevertSnapshot
  PROVE  BringInv'
<1>1. client # Stdin /\ Active /\ spc = "revert"
  BY Known DEF BookInv, Place, Serving, RevertSnapshot, Active
<1>2. PICK ok \in BOOLEAN :
       /\ ok => snap # NoSnap
       /\ vm' = IF ok THEN snap ELSE vm
       /\ Finish(IF ok /\ vm.sock \in Conn
                 THEN [conn EXCEPT ![vm.sock] = CliLost(@)]
                 ELSE conn, conn[Served])
  <2>1. PICK ok \in {snap # NoSnap} \cup (IF VirshFails THEN {FALSE} ELSE {}) :
          /\ vm' = IF ok THEN snap ELSE vm
          /\ Finish(IF ok /\ vm.sock \in Conn
                    THEN [conn EXCEPT ![vm.sock] = CliLost(@)]
                    ELSE conn, conn[Served])
    BY DEF RevertSnapshot
  <2>2. ok \in BOOLEAN /\ (ok => snap # NoSnap)
    OBVIOUS
  <2> QED BY <2>1, <2>2
<1>3. CASE ok
  <2>1. vm'.sock \notin Conn
    BY <1>2, <1>3, Known DEF BookInv, SnapSock
  <2> QED BY <2>1 DEF BringInv, Fetching
<1>4. CASE ~ok
  <2>1. vm' = vm /\ Finish(conn, conn[Served])
    BY <1>2, <1>4
  <2>2. \A c \in Conn : c # Served => conn'[c] = conn[c]
    BY <2>1, <1>1, Known, ServedConn DEF Finish
  <2>3. Served' = NoConn
    BY <2>1 DEF Finish, Served
  <2>4. Fetching => vm.sock # Served
    BY <1>1, FetchServed
  <2> QED BY <2>1, <2>2, <2>3, <2>4, <1>1, BringOther
<1> QED BY <1>3, <1>4

\* serveClient waits out of place, or reads there: what it had sent still arrives.
LEMMA BringAstray ==
  ASSUME BackupInv, BringInv, ReadTimeout \/ Misread
  PROVE  BringInv'
<1>1. /\ client # Stdin /\ spc' = "astray" /\ spc \in {"header", "name", "body", "astray"}
      /\ UNCHANGED <<vm, fd, client, sfile, todo>>
      /\ Served \in Conn /\ Served' = Served /\ conn[Served] \in ConnState
  <2>1. /\ client # Stdin /\ spc' = "astray" /\ spc \in {"header", "name", "body", "astray"}
        /\ UNCHANGED <<vm, fd, client, sfile, todo>>
    BY Known DEF BookInv, Place, Serving, ReadTimeout, Misread, Continue, guest
  <2> QED BY <2>1, ServedConn, Known DEF Served
<1>2. \A c \in Conn : conn'[c].down = conn[c].down /\ conn'[c].srv = conn[c].srv
  <2>1. PICK r \in {conn[Served], Read} : conn' = [conn EXCEPT ![Served] = r]
    BY DEF ReadTimeout, Misread, Continue
  <2>2. r.down = conn[Served].down /\ r.srv = conn[Served].srv
    BY <1>1, <2>1 DEF Read, ConnState
  <2> QED BY <2>1, <2>2, <1>1, Known
<1>3. ASSUME NEW c \in Conn
      PROVE  (c = Served => Pos(c)' = "gone") /\ (c # Served => Pos(c)' = Pos(c))
  <2>1. conn'[c].srv = conn[c].srv
    BY <1>2
  <2> QED BY <2>1, <1>1 DEF Pos
<1> SUFFICES ASSUME Fetching
             PROVE  \/ Unfinished(Pos(vm.sock)', conn'[vm.sock])
                    \/ Store(Sender(sfile, todo), Turned(conn'[vm.sock]), vm.pc, vm.file, vm.cur)
  BY <1>1 DEF BringInv, Fetching
<1>4. vm.sock \in Conn
  BY DEF Fetching
<1>5. CASE Unfinished(Pos(vm.sock), conn[vm.sock])
  <2>1. Pos(vm.sock)' = "gone" \/ Pos(vm.sock)' = Pos(vm.sock)
    BY <1>1, <1>3, <1>4
  <2> QED BY <2>1, <1>2, <1>4, <1>5 DEF Unfinished
<1>6. CASE Store(Sender(sfile, todo), Turned(conn[vm.sock]), vm.pc, vm.file, vm.cur)
  <2>1. \A r, t : t.up = r.up =>
          (Store(Sender(sfile, todo), r, vm.pc, vm.file, vm.cur)
             => Store(Sender(sfile, todo), t, vm.pc, vm.file, vm.cur))
    BY DEF Store
  <2>2. Turned(conn'[vm.sock]).up = Turned(conn[vm.sock]).up
    BY <1>2, <1>4 DEF Turned
  <2> QED BY <2>1, <2>2, <1>6
<1> QED BY <1>5, <1>6 DEF BringInv

\* The server is gone: what it had sent still arrives.
LEMMA BringGone ==
  ASSUME BackupInv, BringInv, Gone
  PROVE  BringInv'
<1>1. /\ vm' = vm /\ sfile' = sfile /\ todo' = {}
      /\ \A c \in Conn : conn'[c] = IF conn[c].srv # "open" THEN conn[c]
                                    ELSE IF Accepted(c) THEN SrvClose(conn[c])
                                    ELSE SrvReset(conn[c])
  BY DEF Gone, guest
<1>2. \A r \in ConnState : /\ SrvClose(r).srv # "open" /\ SrvReset(r).srv # "open"
                           /\ r.cli = "open" => SrvClose(r).down = r.down /\ SrvReset(r).down = r.down
  BY EndsApart DEF SrvClose, SrvReset, Settled, ConnState
<1> SUFFICES ASSUME Fetching
             PROVE  \/ Unfinished(Pos(vm.sock)', conn'[vm.sock])
                    \/ Store(Sender(sfile', todo'), Turned(conn'[vm.sock]), vm.pc, vm.file, vm.cur)
  BY <1>1 DEF BringInv, Fetching
<1>. DEFINE old == conn[vm.sock]
<1>3. /\ vm.sock \in Conn /\ old \in ConnState /\ old.cli = "open"
      /\ Pos(vm.sock)' # "send" /\ conn'[vm.sock].down = old.down
  <2>1. vm.sock \in Conn /\ old \in ConnState /\ old.cli = "open"
    BY Mine DEF Fetching
  <2> QED BY <2>1, <1>1, <1>2 DEF Pos
<1>4. CASE \A k \in DOMAIN old.down : old.down[k].kind # "EOF"
  BY <1>3, <1>4 DEF Unfinished
<1>5. CASE ~(\A k \in DOMAIN old.down : old.down[k].kind # "EOF")
  <2>1. Pos(vm.sock) # "send"
    BY <1>3, <1>5, Known DEF FetchInv, Fetch, Fetching
  <2>2. todo = {}
    <3>1. SUFFICES ASSUME spc = "send" PROVE FALSE
      BY Known DEF FetchInv
    <3>2. client # Stdin /\ Active
      BY <3>1, Known DEF BookInv, Place, Serving, Active
    <3>3. vm.sock # Served
      BY <2>1, <3>1, <3>2, FetchServed
    <3> QED BY <3>2, <3>3, <1>5, NothingYet DEF Unfinished
  <2>3. Store(Sender(sfile, todo), Turned(old), vm.pc, vm.file, vm.cur)
    BY <1>5 DEF BringInv, Unfinished
  <2>4. \A r, t : t.up = r.up =>
          (Store(Sender(sfile, todo), r, vm.pc, vm.file, vm.cur)
             => Store(Sender(sfile, todo), t, vm.pc, vm.file, vm.cur))
    BY DEF Store
  <2>5. Turned(conn'[vm.sock]).up = Turned(old).up
    BY <1>3 DEF Turned
  <2>6. Store(Sender(sfile, todo), Turned(conn'[vm.sock]), vm.pc, vm.file, vm.cur)
    BY <2>3, <2>4, <2>5
  <2> QED BY <2>2, <2>6, <1>1
<1> QED BY <1>4, <1>5

LEMMA BringInit == Init => BringInv
<1>1. Fresh.sock = NoConn
  BY DEF Fresh
<1> QED BY <1>1 DEF Init, BringInv, Fetching

LEMMA BringStep == ASSUME BackupInv, BringInv, [Next]_vars PROVE BringInv'
<1>1. CASE UNCHANGED vars
  <2>1. UNCHANGED <<vm, conn, sfile, todo, spc, client, fd>>
    BY <1>1 DEF vars, guest, host
  <2>2. \A c \in Conn : Pos(c)' = Pos(c)
    BY <2>1 DEF Pos, Served
  <2> QED BY <2>1, <2>2, BringStays DEF Fetching
<1>2. CASE GuestStep \/ CallCheckpoint \/ CallRestore \/ CallRefused \/ Train \/ Launch \/ Kill \/ Type
  BY <1>2, BringGuest
<1>3. CASE Select \/ StdinTurn \/ CinLine \/ CinWord \/ Accept \/ Restart \/ Serve
  BY <1>3, BringLoop
<1>4. CASE \/ ServeGET \/ SendFile \/ SendFilesEnd \/ ServeSET \/ ServeCKP \/ ServeRES \/ ServeEOF
           \/ ServeEND \/ ServeName \/ ServeBody \/ DeleteSnapshot \/ CreateSnapshot \/ AnswerCKY
  BY <1>4, BringSends, BringServes
<1>5. CASE RevertSnapshot \/ Abort \/ Unsupported \/ Crash
  BY <1>5, BringReverts, BringGone DEF Abort, Unsupported, Crash
<1>6. CASE ReadTimeout \/ Misread
  BY <1>6, BringAstray
<1> QED BY <1>1, <1>2, <1>3, <1>4, <1>5, <1>6 DEF Next, ServerStep

LEMMA BringAlways == Spec => [](BackupInv /\ BringInv)
<1>1. BackupInv /\ BringInv /\ [Next]_vars => BackupInv' /\ BringInv'
  BY BackupStep, BringStep
<1> QED BY BackupInit, BringInit, <1>1, PTL DEF Spec

\* All that the guest fetched has arrived when it reads EOF.
LEMMA AllBrought ==
  ASSUME BackupInv, BringInv, RecvEOF
  PROVE  \A f \in Present(sfile) : vm.file[f] = sfile[f]
<1>. DEFINE old == conn[vm.sock]
<1>1. Fetching /\ vm.pc = "get" /\ old.down # <<>> /\ Head(old.down) = Hdr("EOF")
  BY DEF RecvEOF, Sock, Fetching
<1>2. old \in ConnState /\ Hdr("EOF").kind = "EOF" /\ \A f : Hdr("EOF") # Name(f)
  BY <1>1, Mine DEF Fetching, Hdr, Name
<1>3. old.down[1] = Hdr("EOF") /\ 1 \in DOMAIN old.down
  <2>. DEFINE q == old.down
  <2>1. q \in Seq(Msg) /\ q # <<>> /\ Head(q) = Hdr("EOF")
    BY <1>1, <1>2 DEF ConnState
  <2> HIDE DEF q
  <2>2. Head(q) = q[1] /\ 1 \in DOMAIN q
    BY <2>1, TailPlaces
  <2> QED BY <2>1, <2>2 DEF q
<1>4. Fetch(vm.file, old, Pos(vm.sock), sfile, todo)
  BY <1>1, Known DEF FetchInv, Fetching
<1>5. Pos(vm.sock) # "send" /\ Len(old.down) = 1 /\ DOMAIN old.down = {1}
  <2>1. Pos(vm.sock) # "send" /\ Len(old.down) = 1
    BY <1>2, <1>3, <1>4 DEF Fetch
  <2> QED BY <2>1, <1>2, LenProperties DEF ConnState
<1>6. todo = {}
  <2>1. SUFFICES ASSUME spc = "send" PROVE FALSE
    BY Known DEF FetchInv
  <2>2. client # Stdin /\ Active
    BY <2>1, Known DEF BookInv, Place, Serving, Active
  <2>3. vm.sock # Served
    BY <1>1, <1>5, <2>1, <2>2, FetchServed
  <2> QED BY <2>2, <2>3, <1>1, NothingYet
<1>. DEFINE g == Sender(sfile, todo)
            r == Turned(old)
<1>7. Store(g, r, "get", vm.file, vm.cur)
  BY <1>1, <1>2, <1>3 DEF BringInv, Unfinished
<1>8. r.up = old.down /\ g.file = sfile /\ g.todo = {}
  BY <1>2, <1>6, TurnedType, SenderIs
<1> HIDE DEF g, r
<1> QED BY <1>2, <1>3, <1>5, <1>7, <1>8 DEF Store

\* When doGET (CPClient.cpp) returns, the guest has every file the server has,
\* with the content the server's file has at that moment: no file that was sent
\* is dropped, mixed up or overtaken by what another connection stores, even if
\* the server crashed when it had sent the last one.
GetBringsAll ==
  [][RecvEOF => \A f \in Present(sfile) : vm'.file[f] = sfile[f]]_vars

THEOREM FetchKept == Spec => GetBringsAll
<1>1. BackupInv /\ BringInv /\ RecvEOF => \A f \in Present(sfile) : vm'.file[f] = sfile[f]
  <2> SUFFICES ASSUME BackupInv, BringInv, RecvEOF
               PROVE  \A f \in Present(sfile) : vm'.file[f] = sfile[f]
    OBVIOUS
  <2>1. vm'.file = vm.file
    BY Known DEF RecvEOF, GuestRecord
  <2> QED BY <2>1, AllBrought
<1> QED BY <1>1, BringAlways, PTL DEF GetBringsAll


-------------------------------------------------------------------------------
(* A checkpoint and a restore with nothing in their way *)

\* Answers come in time, virsh works, the program waits for the restore it asked
\* for, and neither the program nor the server is killed.
Prompt == ~Slow /\ Waits /\ ~VirshFails /\ MaxKills = 0 /\ MaxCrashes = 0

\* Nobody resets a connection, and no end of one is lost.
Tidy(r) == r.cli \in {"free", "open", "shut"} /\ r.srv \in {"free", "open", "shut"}
Undisturbed == spc \notin {"down", "astray"} /\ (\A c \in Conn : Tidy(conn[c])) /\ Harmless

\* A guest that comes out of the snapshot times out and goes on; checkpointed is
\* set from then on.
Unhurried ==
  /\ vm.sock = Stale => vm.pc \in {"ckp", "ping"}
  /\ vm.pc = "ping" => vm.sock = Stale
  /\ vm.pc \notin {"dead", "run", "CKP", "ckp", "ping"} => vm.chk
  /\ vm.pc = "dead" => ~vm.chk

\* The guest is in conversation r with the server at p: the server closes it only
\* behind its answer, and ends what it sends with EOF.
Answering(pc, r, p) ==
  /\ pc \in {"ckp", "end"} => IF p = "gone" THEN \E m \in Msg : r.down = <<m>> ELSE r.down = <<>>
  /\ pc \notin {"ckp", "end"} => p # "gone"
  /\ pc \in {"get", "name", "body"} /\ p = "header" /\ r.up = <<>> =>
       \E k \in DOMAIN r.down : r.down[k].kind = "EOF"
Answers == vm.sock \in Conn => Answering(vm.pc, conn[vm.sock], Pos(vm.sock))

\* A restore finds the program where it asked for it.
Waiting ==
  /\ RevertComing => vm.pc = "run" /\ vm.chk
  /\ spc = "revert" => conn[Served].up = <<>>

Calm == Undisturbed /\ Unhurried /\ Answers /\ Waiting

\* The steps that are out of the question.
Harm ==
  \/ Kill \/ Refused \/ CallRefused \/ ReadReset \/ WaitTimeout
  \/ ReadTimeout \/ Misread \/ Unsupported \/ Abort \/ Crash \/ Restart
LEMMA NotPrompt ==
  ASSUME Prompt, BackupInv, Calm
  PROVE  ~Harm
<1>1. ~Kill /\ ~Crash
  <2>1. kills \in Nat /\ crashes \in Nat
    BY Known DEF TypeOK
  <2> QED BY <2>1 DEF Kill, Crash, Prompt
<1>2. ~Refused /\ ~CallRefused /\ ~Restart /\ ~Misread /\ ~Unsupported
  BY DEF Refused, CallRefused, Restart, Misread, Unsupported, Calm, Undisturbed
<1>3. ~ReadReset
  BY DEF ReadReset, Sock, Calm, Undisturbed, Tidy
<1>4. ~WaitTimeout
  BY DEF WaitTimeout, Prompt, Calm, Unhurried
<1>5. ~Abort
  <2>1. SUFFICES ASSUME Abort PROVE FALSE
    OBVIOUS
  <2>2. client # Stdin /\ conn[Served].cli = "rst"
    BY <2>1, Known DEF Abort, BookInv, Place, Serving
  <2>3. Served \in Conn
    BY <2>2, ServedConn, Known
  <2> QED BY <2>2, <2>3 DEF Calm, Undisturbed, Tidy
<1>6. ~ReadTimeout
  <2>1. SUFFICES ASSUME ReadTimeout PROVE FALSE
    OBVIOUS
  <2>2. client # Stdin /\ conn[Served].cli = "lost"
    BY <2>1, Known DEF ReadTimeout, Prompt, BookInv, Place, Serving
  <2>3. Served \in Conn
    BY <2>2, ServedConn, Known
  <2> QED BY <2>2, <2>3 DEF Calm, Undisturbed, Tidy
<1> QED BY <1>1, <1>2, <1>3, <1>4, <1>5, <1>6 DEF Harm

\* A guest in a conversation has not asked for a restore that is still to come.
LEMMA NotComing ==
  ASSUME BackupInv, Calm, vm.pc # "run" \/ ~vm.chk \/ vm.sock # NoConn
  PROVE  /\ ~RevertComing /\ spc # "revert"
         /\ \A c \in Conn : ~IsRES(c)
  BY Known DEF Calm, Waiting, RevertComing, IsRES

\* The server is busy with nobody but the guest that is there, unless it hears a
\* farewell.
LEMMA ServedMine ==
  ASSUME BackupInv, Calm, client # Stdin
  PROVE  /\ spc \notin {"header", "revert"} => vm.sock = Served
         /\ spc = "header" /\ vm.sock # Served =>
              conn[Served].up \in {<<>>, <<Hdr("END")>>, <<Hdr("RES")>>}
<1>1. Served \in Conn /\ conn[Served].srv = "open" /\ spc # "astray"
  BY ServedTalk, Known DEF Calm, Undisturbed
<1>2. vm.sock # Served => Served \in Others
  BY <1>1 DEF Others
<1> QED BY <1>1, <1>2 DEF Calm, Undisturbed, Harmless

\* The guest goes on without asking for a restore.
LEMMA CalmGoes ==
  ASSUME BackupInv, Calm, Goes, UNCHANGED <<fd, spc, client>>, Harmless',
         vm.sock \in Conn => /\ Tidy(conn'[vm.sock])
                             /\ conn'[vm.sock].srv = "open" => NoRES(conn'[vm.sock]),
         vm.pc = "run" /\ vm.chk => vm'.pc = "run" /\ vm'.chk
  PROVE  Undisturbed' /\ Waiting'
<1>1. Undisturbed'
  BY DEF Goes, Calm, Undisturbed
<1>2. RevertComing' => RevertComing
  <2>1. ASSUME NEW c \in Conn, conn'[c].srv = "open", conn'[c].up = <<Hdr("RES")>>
        PROVE  conn'[c] = conn[c]
    <3>1. ~NoRES(conn'[c])
      BY <2>1 DEF NoRES, Hdr
    <3> QED BY <3>1, <2>1 DEF Goes
  <2> QED BY <2>1 DEF RevertComing
<1>3. spc' = "revert" => conn'[Served'].up = <<>>
  <2>1. SUFFICES ASSUME spc = "revert" PROVE conn'[Served].up = <<>> /\ Served' = Served
    OBVIOUS
  <2>2. vm.sock = NoConn /\ Served \in Conn
    BY <2>1, NotComing, ServedConn, Known DEF BookInv, Place, Serving
  <2>3. conn'[Served] = conn[Served] /\ Served' = Served
    BY <2>2, Known DEF Goes, Served
  <2> QED BY <2>1, <2>3 DEF Calm, Waiting
<1>4. RevertComing => vm.pc = "run" /\ vm.chk
  BY DEF Calm, Waiting
<1> QED BY <1>1, <1>2, <1>3, <1>4 DEF Waiting

LEMMA CalmConnects ==
  ASSUME Prompt, BackupInv, Calm, StartGET \/ StartRES \/ CallCheckpoint \/ CallRestore
  PROVE  Calm'
<1>1. PICK pc \in {"GET", "RES", "CKP", "set"}, files \in SUBSET Files :
        /\ Connect(pc, files)
        /\ pc \in {"GET", "RES", "set"} => vm.chk
        /\ ~RevertComing /\ vm.sock = NoConn
  <2>1. Present(vm.file) \in SUBSET Files /\ {} \in SUBSET Files
    BY DEF Present
  <2>2. vm.pc \in {"toGET", "toRES"} => vm.chk
    BY DEF Calm, Unhurried
  <2>3. vm.pc \in {"toGET", "toRES"} \/ (vm.pc = "run" /\ ~vm.chk) => ~RevertComing
    BY NotComing
  <2>4. CASE StartGET
    BY <2>1, <2>2, <2>3, <2>4, Known DEF StartGET
  <2>5. CASE StartRES
    BY <2>1, <2>2, <2>3, <2>5, Known DEF StartRES
  <2>6. CASE CallCheckpoint
    BY <2>1, <2>3, <2>6, Known DEF CallCheckpoint
  <2>7. CASE CallRestore
    BY <2>1, <2>7, Known DEF CallRestore, Prompt
  <2> QED BY <2>4, <2>5, <2>6, <2>7
<1>2. PICK c \in Conn :
        /\ conn[c] = FreeConn /\ conn' = [conn EXCEPT ![c] = NewConn]
        /\ vm' = [vm EXCEPT !.pc = pc, !.sock = c, !.watch = TRUE, !.todo = files]
  BY <1>1 DEF Connect
<1>3. /\ vm'.pc = pc /\ vm'.sock = c
      /\ UNCHANGED <<fd, spc, client>> /\ Served' = Served
  BY <1>1, <1>2, Known DEF Connect, GuestRecord, host, Served
<1>4. vm'.chk = vm.chk
  BY <1>2, Known DEF GuestRecord
<1>5. conn'[c] = NewConn /\ \A d \in Conn : d # c => conn'[d] = conn[d]
  BY <1>2, Known
<1>6. Served # c
  <2>1. conn[c].srv # "open"
    BY <1>2 DEF FreeConn
  <2> QED BY <2>1, ServedTalk, Known DEF Served, Calm, Undisturbed
<1>7. /\ NewConn.up = <<>> /\ NewConn.down = <<>> /\ NewConn.srv = "open" /\ Tidy(NewConn)
      /\ <<>> # <<Hdr("RES")>>
  BY DEF NewConn, Tidy
<1>8. Undisturbed'
  <2>1. Others' \subseteq Others
    BY <1>1, <1>3, <1>5, Known DEF Others
  <2>2. \A d \in Others' : d # c /\ conn'[d] = conn[d]
    BY <1>3, <1>5 DEF Others
  <2>3. Harmless'
    BY <2>1, <2>2, <1>3 DEF Calm, Undisturbed, Harmless
  <2> QED BY <2>3, <1>3, <1>5, <1>7 DEF Calm, Undisturbed
<1>9. Unhurried'
  BY <1>1, <1>3, <1>4, Known DEF Unhurried
<1>10. Answers'
  <2>1. Pos(c)' = "header"
    BY <1>3, <1>5, <1>6, <1>7 DEF Pos
  <2> QED BY <2>1, <1>3, <1>5 DEF Answers, Answering
<1>11. Waiting'
  BY <1>1, <1>3, <1>5, <1>7 DEF Waiting, RevertComing
<1> QED BY <1>8, <1>9, <1>10, <1>11 DEF Calm

\* The guest speaks and stays in its conversation.
LEMMA CalmSends ==
  ASSUME Prompt, BackupInv, Calm, BackupInv',
         SendCKP \/ SendGET \/ SendName \/ SendBody \/ SendEOF
  PROVE  Calm'
<1>. DEFINE old == conn[vm.sock]
<1>1. /\ vm.sock \in Conn /\ old.srv = "open" /\ old \in ConnState /\ old.cli = "open"
      /\ Pos(vm.sock) # "gone" /\ Talk(vm.pc, old, Pos(vm.sock))
  <2>1. vm.pc \in {"CKP", "GET", "set", "setBody"}
    BY DEF SendCKP, SendGET, SendName, SendBody, SendEOF
  <2>2. vm.sock \in Conn
    BY <2>1, Known DEF Calm, Unhurried
  <2>3. Pos(vm.sock) # "gone"
    BY <2>1, <2>2 DEF Calm, Answers, Answering
  <2> QED BY <2>2, <2>3, Mine
<1>. DEFINE Did(ms, g) ==
       /\ Send(ms, g) /\ g.sock = vm.sock /\ g.chk = vm.chk /\ ms \in Seq(Msg)
       /\ \/ vm.pc = "CKP" /\ g.pc = "ckp"
          \/ vm.pc = "GET" /\ g.pc = "get" /\ ms # <<>>
          \/ vm.pc \in {"set", "setBody"} /\ g.pc \in {"set", "setBody", "end"} /\ vm.chk
<1>2. PICK ms, g : Did(ms, g)
  <2>1. vm.pc \in {"set", "setBody"} => vm.chk
    BY DEF Calm, Unhurried
  <2>2. CASE SendCKP
    <3>1. Did(<<Hdr("CKP")>>, [vm EXCEPT !.pc = "ckp"])
      BY <2>2, Known, OneMsg DEF SendCKP, GuestRecord
    <3> QED BY <3>1
  <2>3. CASE SendGET
    <3>1. Did(<<Hdr("GET")>>, [vm EXCEPT !.pc = "get"])
      BY <2>3, Known, OneMsg DEF SendGET, GuestRecord
    <3> QED BY <3>1
  <2>4. CASE SendName
    <3>1. PICK f \in vm.todo :
            Send(<<Hdr("SET"), Name(f)>>, [vm EXCEPT !.pc = "setBody", !.cur = f, !.todo = @ \ {f}])
      BY <2>4 DEF SendName
    <3>2. f \in Files
      BY Known DEF GuestRecord
    <3>. DEFINE ms == <<Hdr("SET"), Name(f)>>
                g == [vm EXCEPT !.pc = "setBody", !.cur = f, !.todo = @ \ {f}]
    <3>3. ms \in Seq(Msg)
      BY <3>2
    <3>4. g.sock = vm.sock /\ g.pc = "setBody"
      BY Known DEF GuestRecord
    <3>5. g.chk = vm.chk
      BY Known DEF GuestRecord
    <3> HIDE DEF ms, g
    <3>6. Did(ms, g)
      BY <3>1, <3>3, <3>4, <3>5, <2>1, <2>4 DEF SendName, ms, g
    <3> QED BY <3>6
  <2>5. CASE SendBody
    <3>. DEFINE ms == <<Body(vm.file[vm.cur])>>
                g == [vm EXCEPT !.pc = "set", !.cur = NoFile]
    <3>1. Send(ms, g) /\ vm.pc = "setBody"
      BY <2>5 DEF SendBody
    <3>2. vm.cur \in Files
      BY <3>1, Known DEF Guest, GuestRecord
    <3>3. ms \in Seq(Msg)
      BY <3>2, Known, OneMsg DEF GuestRecord
    <3>4. g.sock = vm.sock /\ g.pc = "set"
      BY Known DEF GuestRecord
    <3>5. g.chk = vm.chk
      BY Known DEF GuestRecord
    <3> HIDE DEF ms, g
    <3>6. Did(ms, g)
      BY <3>1, <3>3, <3>4, <3>5, <2>1
    <3> QED BY <3>6
  <2>6. CASE SendEOF
    <3>1. Did(<<Hdr("EOF")>>, [vm EXCEPT !.pc = "end"])
      BY <2>1, <2>6, Known, OneMsg DEF SendEOF, GuestRecord
    <3> QED BY <3>1
  <2> QED BY <2>2, <2>3, <2>4, <2>5, <2>6
<1>. DEFINE r == Up(old, ms)
<1>3. r = Up(old, ms) /\ g.sock # NoConn /\ g.sock = vm.sock /\ ms \in Seq(Msg) /\ Send(ms, g)
  BY <1>1, <1>2, Known
<1> HIDE DEF r
<1>4. /\ vm' = g /\ UNCHANGED <<pending, fd, host>> /\ conn' = [conn EXCEPT ![vm.sock] = r]
      /\ r.down = old.down /\ r.srv = "open" /\ r.up = old.up \o ms /\ r \in ConnState
  BY <1>1, <1>3, Writes
<1>5. conn'[vm.sock] = r /\ Goes /\ UNCHANGED <<spc, client>> /\ Served' = Served
      /\ vm'.sock = vm.sock
  BY <1>1, <1>3, <1>4, Known DEF Goes, host, Served
<1>6. r.cli = "open"
  BY <1>1, <1>3, EndsApart
<1>7. NoRES(r)
  BY <1>1, <1>5, <1>6 DEF BackupInv, FrameInv, BookInv, Farewell, NoRES
<1>8. Harmless'
  BY <1>4, <1>5, OthersStay DEF Calm, Undisturbed
<1>9. vm.pc # "run"
  BY <1>2
<1>10. Undisturbed' /\ Waiting'
  BY <1>4, <1>5, <1>6, <1>7, <1>8, <1>9, CalmGoes DEF Tidy
<1>11. Unhurried'
  <2>1. vm'.chk = vm.chk
    BY <1>2, <1>4
  <2>2. vm'.pc \in {"ckp", "get", "set", "setBody", "end"} /\ (vm'.pc # "ckp" => vm.chk)
    BY <1>2, <1>4 DEF Calm, Unhurried
  <2>3. vm'.sock # Stale
    BY <1>1, <1>5, Known
  <2> QED BY <2>1, <2>2, <2>3 DEF Unhurried
<1>12. Answers'
  <2>1. Pos(vm.sock)' = Pos(vm.sock)
    BY <1>1, <1>4, <1>5 DEF Pos
  <2>2. vm'.pc = "get" => r.up # <<>>
    <3>1. SUFFICES ASSUME vm'.pc = "get" PROVE r.up # <<>>
      OBVIOUS
    <3>2. old.up = <<>> /\ ms # <<>> /\ ms \in Seq(Msg)
      BY <3>1, <1>1, <1>2, <1>4 DEF Talk
    <3> QED BY <3>2, <1>4, ConcatEmptySeq
  <2>3. r.down = <<>>
    BY <1>1, <1>2, <1>4 DEF Talk
  <2>4. vm'.pc \in {"ckp", "get", "set", "setBody", "end"}
    BY <1>2, <1>4
  <2>5. Answering(vm'.pc, r, Pos(vm.sock))
    BY <1>1, <2>2, <2>3, <2>4 DEF Answering
  <2> QED BY <2>1, <2>5, <1>5 DEF Answers
<1> QED BY <1>10, <1>11, <1>12 DEF Calm

\* One message and no more.
LEMMA LastOne ==
  ASSUME NEW m, NEW q, q = <<m>>
  PROVE  Head(q) = m /\ Tail(q) = <<>> /\ q # <<>>
  BY EmptySeq

\* The guest takes an answer that is the last, and closes the connection: both
\* ends are done with it.
LEMMA CalmLeaves ==
  ASSUME Prompt, BackupInv, Calm, RecvCKN \/ RecvCKY \/ RecvEND
  PROVE  /\ Calm' /\ vm.sock \in Conn
         /\ \E m \in Msg : /\ conn[vm.sock].down = <<m>>
                           /\ m = Hdr(IF RecvCKN THEN "CKN" ELSE IF RecvCKY THEN "CKY" ELSE "END")
<1>. DEFINE old == conn[vm.sock]
            m == Hdr(IF RecvCKN THEN "CKN" ELSE IF RecvCKY THEN "CKY" ELSE "END")
<1>1. /\ vm.sock \in Conn /\ old.down # <<>> /\ Head(old.down) = m /\ vm.pc \in {"ckp", "end"}
      /\ vm'.sock = NoConn /\ conn' = [conn EXCEPT ![vm.sock] = CliClose(Taken)]
      /\ UNCHANGED <<pending, fd, host>>
  <2>1. [vm EXCEPT !.pc = "run", !.sock = NoConn].sock = NoConn
    BY Known DEF GuestRecord
  <2>2. [vm EXCEPT !.pc = "toGET", !.chk = TRUE, !.sock = NoConn].sock = NoConn
    BY Known DEF GuestRecord
  <2>3. [vm EXCEPT !.pc = "toRES", !.sock = NoConn].sock = NoConn
    BY Known DEF GuestRecord
  <2>4. Hdr("CKN") # Hdr("CKY") /\ Hdr("CKN") # Hdr("END") /\ Hdr("CKY") # Hdr("END")
    BY DEF Hdr
  <2>5. CASE RecvCKN
    BY <2>1, <2>5 DEF RecvCKN, Receive, Sock
  <2>6. CASE RecvCKY
    <3>1. ~RecvCKN
      BY <2>4, <2>6 DEF RecvCKN, RecvCKY, Receive
    <3> QED BY <3>1, <2>2, <2>6 DEF RecvCKY, Receive, Sock
  <2>7. CASE RecvEND
    <3>1. ~RecvCKN /\ ~RecvCKY
      BY <2>4, <2>7 DEF RecvCKN, RecvCKY, RecvEND, Receive
    <3> QED BY <3>1, <2>3, <2>7 DEF RecvEND, Receive, Sock
  <2> QED BY <2>5, <2>6, <2>7
<1>2. old \in ConnState /\ old.cli = "open"
  BY <1>1, Mine
<1>3. Pos(vm.sock) = "gone" /\ \E n \in Msg : old.down = <<n>>
  BY <1>1 DEF Calm, Answers, Answering
<1>4. m \in Msg /\ old.down = <<m>> /\ Tail(old.down) = <<>>
  <2>1. PICK n \in Msg : old.down = <<n>>
    BY <1>3
  <2>2. Head(old.down) = n /\ Tail(old.down) = <<>>
    BY <2>1, LastOne
  <2> QED BY <2>1, <2>2, <1>1
<1>5. old.srv # "open"
  <2>1. spc # "gone" /\ spc # "astray"
    BY Known DEF TypeOK, ServerPC, Calm, Undisturbed
  <2> QED BY <2>1, <1>3 DEF Pos
<1> HIDE DEF m
<1>6. CliClose(Taken) = FreeConn
  BY <1>2, <1>4, <1>5 DEF CliClose, Taken, Sock, Settled, ConnState
<1>7. conn'[vm.sock] = FreeConn /\ Goes /\ UNCHANGED <<spc, client>> /\ Served' = Served
  BY <1>1, <1>6, Known DEF Goes, host, Served
<1>8. FreeConn.srv # "open" /\ Tidy(FreeConn)
  BY DEF FreeConn, Tidy
<1>9. Harmless'
  <2>1. \A c \in Conn : c # vm.sock => conn'[c] = conn[c]
    BY <1>7 DEF Goes
  <2>2. \A c \in Others' : c \in Others /\ conn'[c] = conn[c]
    BY <2>1, <1>7, <1>8 DEF Others
  <2> QED BY <2>2, <1>7 DEF Calm, Undisturbed, Harmless
<1>10. Undisturbed' /\ Waiting'
  BY <1>1, <1>7, <1>8, <1>9, CalmGoes
<1>11. Unhurried'
  <2>1. CASE RecvCKN
    <3>1. vm'.pc = "run"
      BY <2>1, Known DEF RecvCKN, Receive, GuestRecord
    <3> QED BY <3>1, <1>1, Known DEF Unhurried
  <2>2. CASE RecvCKY
    <3>1. vm'.pc = "toGET" /\ vm'.chk
      BY <2>2, Known DEF RecvCKY, Receive, GuestRecord
    <3> QED BY <3>1, <1>1, Known DEF Unhurried
  <2>3. CASE RecvEND
    <3>1. vm.chk
      BY <2>3 DEF RecvEND, Calm, Unhurried
    <3>2. vm'.pc = "toRES" /\ vm'.chk = vm.chk
      BY <2>3, Known DEF RecvEND, Receive, GuestRecord
    <3> QED BY <3>1, <3>2, <1>1, Known DEF Unhurried
  <2> QED BY <2>1, <2>2, <2>3
<1>12. Answers'
  BY <1>1, Known DEF Answers
<1> QED BY <1>1, <1>4, <1>10, <1>11, <1>12 DEF Calm, m

\* recvFile of the client.
LEMMA CalmTakes ==
  ASSUME Prompt, BackupInv, Calm, RecvSET \/ RecvName \/ RecvBody
  PROVE  Calm'
<1>. DEFINE old == conn[vm.sock]
<1>1. /\ vm.sock \in Conn /\ old.down # <<>> /\ vm.pc \in {"get", "name", "body"}
      /\ UNCHANGED <<pending, fd, host>> /\ old \in ConnState /\ old.cli = "open" /\ NoRES(old)
      /\ Head(old.down).kind # "EOF"
  <2>1. \A f, v : Hdr("SET").kind # "EOF" /\ Name(f).kind # "EOF" /\ Body(v).kind # "EOF"
    BY DEF Hdr, Name, Body
  <2> QED BY <2>1, Mine DEF RecvSET, RecvName, RecvBody, Receive, Sock
<1>2. Pos(vm.sock) # "gone" /\ old.srv = "open"
  BY <1>1, Mine DEF Calm, Answers, Answering
<1>3. /\ Taken.srv = "open" /\ Taken.cli = "open" /\ Taken.up = old.up /\ Taken.down = Tail(old.down)
  BY <1>1, <1>2, TakeType DEF Taken, Sock, ConnState
<1>4. /\ vm'.sock = vm.sock /\ conn' = [conn EXCEPT ![vm.sock] = Taken]
      /\ vm'.pc \in {"get", "name", "body"} /\ vm'.chk = vm.chk
  <2>1. CASE RecvSET
    BY <2>1, <1>1, Known DEF RecvSET, Receive, GuestRecord
  <2>2. CASE RecvName
    <3>1. PICK f \in Files :
            Receive(Name(f), [vm EXCEPT !.pc = "body", !.cur = f, !.file[f] = Torn])
      BY <2>2 DEF RecvName
    <3>. DEFINE g == [vm EXCEPT !.pc = "body", !.cur = f, !.file[f] = Torn]
    <3>2. g.sock = vm.sock
      BY Known DEF GuestRecord
    <3>3. g.pc = "body"
      BY Known DEF GuestRecord
    <3>4. g.chk = vm.chk
      BY Known DEF GuestRecord
    <3> HIDE DEF g
    <3> QED BY <3>1, <3>2, <3>3, <3>4, <1>1, Known DEF Receive, g
  <2>3. CASE RecvBody
    <3>1. PICK b \in Content :
            Receive(Body(b), [vm EXCEPT !.pc = "get", !.cur = NoFile, !.file[vm.cur] = b])
      BY <2>3 DEF RecvBody
    <3>. DEFINE g == [vm EXCEPT !.pc = "get", !.cur = NoFile, !.file[vm.cur] = b]
    <3>2. g.sock = vm.sock
      BY Known DEF GuestRecord
    <3>3. g.pc = "get"
      BY Known DEF GuestRecord
    <3>4. g.chk = vm.chk
      BY Known DEF GuestRecord
    <3> HIDE DEF g
    <3> QED BY <3>1, <3>2, <3>3, <3>4, <1>1, Known DEF Receive, g
  <2> QED BY <2>1, <2>2, <2>3
<1>5. conn'[vm.sock] = Taken /\ Goes /\ UNCHANGED <<spc, client>> /\ Served' = Served
  BY <1>1, <1>4, Known DEF Goes, host, Served
<1>6. Harmless'
  BY <1>1, <1>4, <1>5, OthersStay DEF Calm, Undisturbed
<1>7. Undisturbed' /\ Waiting'
  <2>1. NoRES(Taken) /\ Tidy(Taken)
    BY <1>1, <1>3 DEF NoRES, Tidy
  <2> QED BY <2>1, <1>1, <1>5, <1>6, CalmGoes
<1>8. Unhurried'
  <2>1. vm.chk
    BY <1>1 DEF Calm, Unhurried
  <2> QED BY <2>1, <1>1, <1>4, Known DEF Unhurried
<1>9. Answers'
  <2>1. Pos(vm.sock)' = Pos(vm.sock)
    BY <1>2, <1>3, <1>4, <1>5 DEF Pos
  <2>2. ASSUME Pos(vm.sock) = "header", Taken.up = <<>>
        PROVE  \E k \in DOMAIN Taken.down : Taken.down[k].kind = "EOF"
    <3>. DEFINE q == old.down
                t == Taken.down
    <3>1. q \in Seq(Msg) /\ t = Tail(q) /\ q # <<>>
      BY <1>1, <1>3 DEF ConnState
    <3>2. PICK k \in DOMAIN q : q[k].kind = "EOF"
      BY <2>2, <1>1, <1>3 DEF Calm, Answers, Answering
    <3> HIDE DEF q, t
    <3>3. Head(q) = q[1]
      BY <3>1, TailPlaces
    <3>4. k = 1 \/ (k - 1 \in DOMAIN t /\ t[k - 1] = q[k])
      BY <3>1, TailPlaces
    <3> QED BY <3>2, <3>3, <3>4, <1>1 DEF q, t
  <2>3. Answering(vm'.pc, Taken, Pos(vm.sock))
    BY <2>2, <1>2, <1>4 DEF Answering
  <2> QED BY <2>1, <2>3, <1>4, <1>5 DEF Answers
<1> QED BY <1>7, <1>8, <1>9 DEF Calm

\* Nothing is behind EOF.
LEMMA EOFLast ==
  ASSUME BackupInv, vm.sock \in Conn, vm.pc = "get", conn[vm.sock].down # <<>>,
         Head(conn[vm.sock].down) = Hdr("EOF")
  PROVE  Tail(conn[vm.sock].down) = <<>>
<1>. DEFINE q == conn[vm.sock].down
            n == Len(q)
<1>1. q \in Seq(Msg) /\ q # <<>> /\ Head(q) = Hdr("EOF") /\ Hdr("EOF").kind = "EOF"
  BY Mine DEF ConnState, Hdr
<1>2. \A k \in DOMAIN q : q[k].kind = "EOF" => k = n
  BY Known DEF FetchInv, Fetch
<1> HIDE DEF q
<1>3. Head(q) = q[1] /\ 1 \in DOMAIN q
  BY <1>1, TailPlaces
<1>4. Tail(q) = <<>> <=> n = 1
  BY <1>1, TailPlaces
<1> QED BY <1>1, <1>2, <1>3, <1>4 DEF q

\* The guest says a last word, and goes on as the program that holds what the
\* server holds.
LEMMA CalmEnds ==
  ASSUME Prompt, BackupInv, Calm, BackupInv', RecvEOF \/ SendRES
  PROVE  Calm'
<1>. DEFINE old == conn[vm.sock]
<1>1. /\ vm.sock \in Conn /\ old.srv = "open" /\ old \in ConnState /\ old.cli = "open"
      /\ vm.pc \in {"get", "RES"} /\ vm.chk /\ NoRES(old)
  <2>1. vm.pc \in {"get", "RES"}
    BY DEF RecvEOF, SendRES
  <2>2. vm.sock \in Conn
    BY <2>1, Known DEF Calm, Unhurried
  <2>3. Pos(vm.sock) # "gone" /\ vm.chk
    BY <2>1, <2>2 DEF Calm, Unhurried, Answers, Answering
  <2> QED BY <2>1, <2>2, <2>3, Mine
<1>. DEFINE h == Hdr(IF RecvEOF THEN "END" ELSE "RES")
            x == IF RecvEOF THEN Taken ELSE old
            r == Up(x, <<h>>)
<1>2. h \in Msg /\ <<h>> \in Seq(Msg)
  BY OneMsg
<1>3. x \in ConnState /\ x.down = <<>> /\ x.srv = "open" /\ x.cli = "open" /\ x.up = old.up
  <2>1. CASE RecvEOF
    <3>1. vm.pc = "get" /\ old.down # <<>> /\ Head(old.down) = Hdr("EOF")
      BY <2>1 DEF RecvEOF, Sock
    <3>2. Tail(old.down) = <<>>
      BY <3>1, <1>1, EOFLast
    <3> QED BY <3>1, <3>2, <2>1, <1>1, TakeType DEF Taken, Sock, ConnState
  <2>2. CASE ~RecvEOF
    <3>1. vm.pc = "RES"
      BY <2>2 DEF SendRES
    <3> QED BY <3>1, <2>2, <1>1, Mine DEF Talk
  <2> QED BY <2>1, <2>2
<1>4. /\ vm'.pc = "run" /\ vm'.sock = NoConn /\ vm'.chk = vm.chk
      /\ UNCHANGED <<pending, fd, host>>
      /\ conn' = [conn EXCEPT ![vm.sock] = CliClose(r)]
  <2>. DEFINE g == [vm EXCEPT !.pc = "run", !.sock = NoConn]
  <2>1. g.pc = "run" /\ g.sock = NoConn /\ g.chk = vm.chk
    BY Known DEF GuestRecord
  <2> HIDE DEF g
  <2>2. CASE RecvEOF
    <3>1. vm' = g /\ conn' = [conn EXCEPT ![vm.sock] = CliClose(Up(Taken, <<Hdr("END")>>))]
          /\ UNCHANGED <<pending, fd, host>>
      BY <2>2 DEF RecvEOF, g
    <3> QED BY <3>1, <2>1, <2>2
  <2>3. CASE ~RecvEOF
    <3>1. Send(<<Hdr("RES")>>, g)
      BY <2>3 DEF SendRES, g
    <3>2. vm' = g /\ conn' = [conn EXCEPT ![vm.sock] = CliClose(Up(old, <<Hdr("RES")>>))]
          /\ UNCHANGED <<pending, fd, host>>
      BY <3>1, <2>1, <1>1, Known DEF Send, Sock
    <3> QED BY <3>2, <2>1, <2>3
  <2> QED BY <2>2, <2>3
<1> HIDE DEF h, x
<1>5. r \in ConnState /\ r.down = <<>> /\ r.srv = "open" /\ r.cli = "open" /\ r.up = x.up \o <<h>>
  BY <1>2, <1>3, UpWords, ConnType, EndsApart
<1> HIDE DEF r
<1>6. Tidy(CliClose(r))
  BY <1>5 DEF CliClose, Settled, FreeConn, Tidy, ConnState
<1>7. Goes /\ UNCHANGED <<spc, client>> /\ Served' = Served
  BY <1>4, Known DEF Goes, host, Served
<1>8. Undisturbed'
  <2>1. Harmless'
    BY <1>1, <1>4 DEF BackupInv, Backup, OthersInv, Owner
  <2> QED BY <2>1, <1>1, <1>4, <1>6, <1>7, Known DEF Calm, Undisturbed
<1>9. Unhurried'
  BY <1>1, <1>4, Known DEF Unhurried
<1>10. Answers'
  BY <1>4, Known DEF Answers
<1>11. Waiting'
  <2>1. spc # "revert"
    BY <1>1, NotComing
  <2> QED BY <2>1, <1>1, <1>4, <1>7 DEF Waiting
<1> QED BY <1>8, <1>9, <1>10, <1>11 DEF Calm

\* Timeouts, the program, the user.
LEMMA CalmQuiet ==
  ASSUME Prompt, BackupInv, Calm, CkpTimeout \/ PingDone \/ Train \/ Launch \/ Type
  PROVE  Calm'
<1>1. /\ UNCHANGED <<conn, pending, fd, spc, client>> /\ Served' = Served
      /\ (vm'.sock = vm.sock \/ {vm.sock, vm'.sock} \cap Conn = {})
  <2>1. UNCHANGED <<conn, pending, fd, spc, client>>
    <3>1. PingDone => vm.sock = Stale
      BY DEF PingDone, Calm, Unhurried
    <3> QED BY <3>1 DEF CkpTimeout, PingDone, Train, Launch, Type, host
  <2>2. CASE CkpTimeout \/ Train
    <3>1. vm'.sock = vm.sock
      BY <2>2, Known DEF CkpTimeout, Train, GuestRecord
    <3> QED BY <3>1, <2>1 DEF Served
  <2>3. CASE PingDone
    <3>1. vm.sock = Stale
      BY <2>3 DEF PingDone, Calm, Unhurried
    <3>2. vm'.sock = NoConn
      BY <2>3, Known DEF PingDone, GuestRecord
    <3> QED BY <3>1, <3>2, <2>1, Known DEF Served
  <2>4. CASE Launch
    <3>1. vm'.sock = NoConn /\ vm.sock = NoConn
      BY <2>4, Known DEF Launch, Started, Halted, GuestRecord
    <3> QED BY <3>1, <2>1 DEF Served
  <2>5. CASE Type
    <3>1. vm' = vm
      BY <2>5 DEF Type, guest
    <3> QED BY <3>1, <2>1 DEF Served
  <2> QED BY <2>2, <2>3, <2>4, <2>5
<1>2. \A c \in Conn : Pos(c)' = Pos(c)
  BY <1>1 DEF Pos
<1>3. Undisturbed'
  <2>1. Others' = Others
    BY <1>1 DEF Others
  <2> QED BY <2>1, <1>1 DEF Calm, Undisturbed, Harmless
<1>4. vm' = vm => Unhurried' /\ Answers' /\ Waiting'
  BY <1>1, <1>2 DEF Calm, Unhurried, Answers, Waiting, RevertComing
<1>5. CASE CkpTimeout
  <2>1. vm.sock = Stale
    BY <1>5 DEF CkpTimeout, Prompt
  <2>2. vm'.pc = "ping" /\ vm'.sock = vm.sock /\ vm.pc = "ckp"
    BY <1>5, Known DEF CkpTimeout, GuestRecord
  <2>3. Unhurried'
    BY <2>1, <2>2 DEF Unhurried
  <2>4. Waiting'
    BY <1>1, <2>2, NotComing DEF Waiting, RevertComing
  <2> QED BY <2>1, <2>2, <2>3, <2>4, <1>3, Known DEF Calm, Answers
<1>6. CASE PingDone
  <2>1. vm'.pc = "toGET" /\ vm'.sock = NoConn /\ vm.pc = "ping" /\ vm'.chk
    BY <1>6, Known DEF PingDone, GuestRecord
  <2>2. Unhurried'
    BY <2>1, Known DEF Unhurried
  <2>3. Waiting'
    BY <1>1, <2>1, NotComing DEF Waiting, RevertComing
  <2> QED BY <2>1, <2>2, <2>3, <1>3, Known DEF Calm, Answers
<1>7. CASE Train
  <2>1. vm'.pc = "run" /\ vm'.sock = NoConn /\ vm.pc = "run" /\ vm'.chk = vm.chk
    BY <1>7, Known DEF Train, GuestRecord
  <2>2. Unhurried'
    BY <2>1, Known DEF Unhurried
  <2>3. Waiting'
    BY <1>1, <2>1 DEF Waiting, RevertComing, Calm
  <2> QED BY <2>1, <2>2, <2>3, <1>3, Known DEF Calm, Answers
<1>8. CASE Launch
  <2>1. vm'.pc = "run" /\ vm'.sock = NoConn /\ vm.pc = "dead"
    BY <1>8, Known DEF Launch, Started, Halted, GuestRecord
  <2>2. Unhurried'
    BY <2>1, Known DEF Unhurried
  <2>3. Waiting'
    BY <1>1, <2>1, NotComing DEF Waiting, RevertComing
  <2> QED BY <2>1, <2>2, <2>3, <1>3, Known DEF Calm, Answers
<1>9. CASE Type
  BY <1>3, <1>4, <1>9 DEF Type, guest, Calm
<1> QED BY <1>5, <1>6, <1>7, <1>8, <1>9

\* The server's loop.
LEMMA CalmLoop ==
  ASSUME Prompt, BackupInv, Calm,
         Select \/ StdinTurn \/ CinLine \/ CinWord \/ Accept \/ Serve
  PROVE  Calm'
<1>1. client = Stdin /\ spc \notin Serving
  BY Known DEF BookInv, Place, Serving, Select, StdinTurn, CinLine, CinWord, Accept,
               Serve, Turn
<1>2. /\ UNCHANGED <<vm, conn>> /\ spc' \notin {"down", "astray", "revert"}
      /\ (spc' # "header" => client' = Stdin)
  BY <1>1 DEF Serving, Select, StdinTurn, CinLine, CinWord, Accept, Serve, Turn,
              DoneWith, guest, host
<1>3. /\ Served = NoConn /\ (Served' = NoConn \/ spc' = "header")
      /\ \A c \in Conn : Pos(c)' = Pos(c)
  <2>1. Served = NoConn
    BY <1>1 DEF Served
  <2>2. Served' = NoConn \/ spc' = "header"
    BY <1>2 DEF Served
  <2> QED BY <2>1, <2>2, <1>2, Known DEF Pos
<1>4. Undisturbed'
  <2>1. Others' = Others
    BY <1>2 DEF Others
  <2> QED BY <2>1, <1>2, <1>3, Known DEF Calm, Undisturbed, Harmless, Others
<1>5. Unhurried' /\ Answers'
  BY <1>2, <1>3 DEF Calm, Unhurried, Answers
<1>6. Waiting'
  BY <1>2 DEF Calm, Waiting, RevertComing
<1> QED BY <1>4, <1>5, <1>6 DEF Calm

\* serveClient goes on with the guest that is there.
LEMMA CalmContinues ==
  ASSUME BackupInv, Calm, BackupInv', client # Stdin, vm.sock = Served, vm' = vm,
         NEW pc \in Serving \ {"revert", "astray"}, NEW r \in ConnState, Continue(pc, r),
         r.cli = "open", r.srv = "open", Answering(vm.pc, r, pc)
  PROVE  Calm'
<1>1. /\ Served \in Conn /\ Served' = Served /\ conn'[Served] = r
      /\ \A c \in Conn : c # Served => conn'[c] = conn[c]
      /\ spc' = pc /\ spc' \notin {"down", "astray", "revert"}
  BY ServedConn, Known DEF Continue, Served, Serving
<1>2. Undisturbed'
  <2>1. HeardOut'
    BY <1>1 DEF HeardOut
  <2>2. Silent'
    BY <2>1 DEF BackupInv, Backup, OthersInv
  <2>3. Harmless'
    BY <2>2 DEF Silent, Harmless
  <2> QED BY <2>3, <1>1 DEF Calm, Undisturbed, Tidy
<1>3. Unhurried'
  BY DEF Calm, Unhurried
<1>4. Answers'
  BY <1>1 DEF Answers, Pos
<1>5. Waiting'
  <2>1. vm.sock # NoConn
    BY <1>1, Known
  <2>2. \A c \in Conn : ~IsRES(c)
    BY <2>1, NotComing
  <2>3. NoRES(r)
    BY <1>1 DEF BackupInv, FrameInv, BookInv, Farewell, NoRES
  <2>4. r.up # <<Hdr("RES")>>
    BY <2>3 DEF NoRES, Hdr
  <2>5. ~RevertComing'
    BY <2>2, <2>4, <1>1 DEF RevertComing, IsRES
  <2> QED BY <2>5, <1>1 DEF Waiting
<1> QED BY <1>2, <1>3, <1>4, <1>5 DEF Calm

\* serveClient answers the guest that is there, and is done with it.
LEMMA CalmFinishes ==
  ASSUME BackupInv, Calm, BackupInv', client # Stdin, vm.sock = Served, vm' = vm,
         vm.pc \in {"ckp", "end"}, NEW m \in Msg, NEW r \in ConnState, Finish(conn, r),
         r.cli = "open", r.up = <<>>, r.down = <<m>>
  PROVE  Calm'
<1>1. /\ Served \in Conn /\ Served' = NoConn
      /\ conn'[Served] = SrvClose(r)
      /\ \A c \in Conn : c # Served => conn'[c] = conn[c]
      /\ spc' \in {"scan", "select"}
  BY ServedConn, Known DEF Finish, Served, DoneWith
<1>2. /\ SrvClose(r).cli = "open" /\ SrvClose(r).srv = "shut" /\ SrvClose(r).down = <<m>>
  BY DEF SrvClose, Settled, ConnState
<1>3. Undisturbed'
  <2>1. HeardOut'
    BY <1>1, <1>2 DEF HeardOut
  <2>2. Silent'
    BY <2>1 DEF BackupInv, Backup, OthersInv
  <2>3. Harmless'
    BY <2>2 DEF Silent, Harmless
  <2> QED BY <2>3, <1>1, <1>2 DEF Calm, Undisturbed, Tidy
<1>4. Unhurried'
  BY DEF Calm, Unhurried
<1>5. Answers'
  BY <1>1, <1>2 DEF Answers, Pos, Answering
<1>6. Waiting'
  <2>1. vm.sock # NoConn
    BY <1>1, Known
  <2>2. \A c \in Conn : ~IsRES(c)
    BY <2>1, NotComing
  <2>3. ~RevertComing'
    BY <2>2, <1>1, <1>2 DEF RevertComing, IsRES
  <2> QED BY <2>3, <1>1 DEF Waiting
<1> QED BY <1>3, <1>4, <1>5, <1>6 DEF Calm

\* The server hears a farewell: the end of a conversation, or a request to restore.
LEMMA CalmFarewell ==
  ASSUME Prompt, BackupInv, Calm, ServeEND \/ ServeRES
  PROVE  Calm'
<1>. DEFINE old == conn[Served]
<1>1. /\ client # Stdin /\ spc = "header" /\ vm' = vm /\ old.up # <<>>
      /\ Head(old.up) \in {Hdr("END"), Hdr("RES")}
  BY Known DEF BookInv, Place, Serving, ServeEND, ServeRES, At, guest
<1>2. /\ Served \in Conn /\ old \in ConnState /\ old.srv = "open"
      /\ \A h : Hdr(h).kind = h
  BY <1>1, ServedTalk, Known DEF Hdr
<1>3. vm.sock # Served
  <2>1. SUFFICES ASSUME vm.sock = Served PROVE FALSE
    OBVIOUS
  <2>. DEFINE k == Head(old.up).kind
  <2>2. /\ Talk(vm.pc, old, "header") /\ vm.pc \in GuestPC \ {"run", "toGET", "toRES", "dead"}
        /\ k \in {"END", "RES"} /\ k = Head(old.up).kind
    BY <2>1, <1>1, <1>2, ServedTalk, Known
  <2> HIDE DEF k
  <2>3. k \notin {"END", "RES"}
    BY <2>2, <1>1, <1>2, TalkHeads
  <2> QED BY <2>2, <2>3
<1>4. PICK m : old.up = <<m>> /\ m \in {Hdr("END"), Hdr("RES")}
  BY <1>1, <1>3, ServedMine
<1>5. Head(old.up) = m /\ Tail(old.up) = <<>>
  BY <1>4, LastOne
<1>6. Read.up = <<>> /\ Read.srv = "open" /\ Read.cli = old.cli /\ Read \in ConnState
  BY <1>1, <1>2, <1>5, TakeType DEF Read, ConnState
<1>7. Tidy(old)
  BY <1>2 DEF Calm, Undisturbed
<1>8. CASE Finish(conn, Read)
  <2>1. /\ Served' = NoConn /\ conn'[Served] = SrvClose(Read)
        /\ \A c \in Conn : c # Served => conn'[c] = conn[c]
        /\ spc' \in {"scan", "select"}
    BY <1>2, <1>8, Known DEF Finish, Served, DoneWith
  <2>2. SrvClose(Read).srv # "open" /\ Tidy(SrvClose(Read))
    BY <1>6, <1>7 DEF SrvClose, Settled, FreeConn, Tidy, ConnState
  <2>3. Undisturbed'
    <3>1. \A c \in Others' : c \in Others /\ c # Served /\ conn'[c] = conn[c] /\ Served' # c
      BY <1>1, <2>1, <2>2, Known DEF Others
    <3> QED BY <3>1, <2>1, <2>2 DEF Calm, Undisturbed, Harmless
  <2>4. Unhurried'
    BY <1>1 DEF Calm, Unhurried
  <2>5. Answers'
    <3>1. ASSUME vm.sock \in Conn PROVE Pos(vm.sock)' = Pos(vm.sock) /\ conn'[vm.sock] = conn[vm.sock]
      BY <3>1, <1>1, <1>3, <2>1 DEF Pos
    <3> QED BY <3>1, <1>1 DEF Calm, Answers
  <2>6. Waiting'
    <3>1. RevertComing' => RevertComing
      BY <2>1, <2>2 DEF RevertComing
    <3> QED BY <3>1, <1>1, <2>1 DEF Calm, Waiting
  <2> QED BY <2>3, <2>4, <2>5, <2>6 DEF Calm
<1>9. CASE m = Hdr("RES") /\ Continue("revert", Read)
  <2>1. /\ Served' = Served /\ conn'[Served] = Read
        /\ \A c \in Conn : c # Served => conn'[c] = conn[c]
        /\ spc' = "revert"
    BY <1>2, <1>9, Known DEF Continue, Served
  <2>2. RevertComing
    BY <1>2, <1>4, <1>9 DEF RevertComing
  <2>3. vm.pc = "run" /\ vm.chk /\ vm.sock = NoConn
    BY <2>2, Known DEF Calm, Waiting
  <2>4. Undisturbed'
    <3>1. \A c \in Others' : c \in Others /\ c \in Conn
      BY <1>1, <1>2, <1>6, <2>1 DEF Others
    <3>2. Harmless'
      BY <3>1, <1>6, <2>1 DEF Calm, Undisturbed, Harmless
    <3>3. Tidy(Read)
      BY <1>6, <1>7 DEF Tidy
    <3> QED BY <3>2, <3>3, <2>1 DEF Calm, Undisturbed
  <2>5. Unhurried'
    BY <1>1 DEF Calm, Unhurried
  <2>6. Answers'
    BY <1>1, <2>3, Known DEF Answers
  <2>7. Waiting'
    BY <1>1, <1>6, <2>1, <2>3 DEF Waiting
  <2> QED BY <2>4, <2>5, <2>6, <2>7 DEF Calm
<1>10. Finish(conn, Read) \/ (m = Hdr("RES") /\ Continue("revert", Read))
  BY <1>1, <1>5 DEF ServeEND, ServeRES, At
<1> QED BY <1>8, <1>9, <1>10

\* Everything else serveClient does it does for the guest that is there.
ServeStep ==
  \/ ServeGET \/ ServeSET \/ ServeCKP \/ ServeEOF \/ ServeName \/ ServeBody \/ SendFile
  \/ SendFilesEnd \/ DeleteSnapshot \/ CreateSnapshot \/ AnswerCKY

LEMMA ServesGuest ==
  ASSUME BackupInv, Calm, ServeStep
  PROVE  /\ client # Stdin /\ vm.sock = Served /\ vm' = vm /\ Served \in Conn
         /\ conn[Served] \in ConnState /\ conn[Served].cli = "open" /\ conn[Served].srv = "open"
         /\ Talk(vm.pc, conn[Served], spc) /\ Answering(vm.pc, conn[Served], spc)
         /\ spc # "gone" /\ vm.pc \in GuestPC \ {"run", "toGET", "toRES", "dead"}
<1>. DEFINE old == conn[Served]
<1>1. client # Stdin /\ vm' = vm
  BY Known DEF BookInv, Place, Serving, ServeStep, ServeGET, ServeSET, ServeCKP, ServeEOF, ServeName,
     ServeBody, SendFile, SendFilesEnd, DeleteSnapshot, CreateSnapshot, AnswerCKY, At, guest
<1>2. spc = "header" => old.up # <<>> /\ Head(old.up).kind \notin {"END", "RES"}
  <2>1. \A h : Hdr(h).kind = h
    BY DEF Hdr
  <2> QED BY <2>1 DEF ServeStep, ServeGET, ServeSET, ServeCKP, ServeEOF, ServeName,
     ServeBody, SendFile, SendFilesEnd, DeleteSnapshot, CreateSnapshot, AnswerCKY, At
<1>3. spc # "revert"
  BY DEF ServeStep, ServeGET, ServeSET, ServeCKP, ServeEOF, ServeName,
     ServeBody, SendFile, SendFilesEnd, DeleteSnapshot, CreateSnapshot, AnswerCKY, At
<1>4. vm.sock = Served
  <2>1. SUFFICES ASSUME vm.sock # Served PROVE FALSE
    OBVIOUS
  <2>2. spc = "header" /\ old.up \in {<<Hdr("END")>>, <<Hdr("RES")>>}
    BY <2>1, <1>1, <1>2, <1>3, ServedMine
  <2>3. PICK m \in {Hdr("END"), Hdr("RES")} : old.up = <<m>>
    BY <2>2
  <2>4. Head(old.up) = m
    BY <2>3, LastOne
  <2> QED BY <2>2, <2>4, <1>2 DEF Hdr
<1>5. /\ Served \in Conn /\ old \in ConnState /\ old.srv = "open" /\ old.cli = "open"
      /\ Pos(Served) = spc /\ Talk(vm.pc, old, spc)
      /\ vm.pc \in GuestPC \ {"run", "toGET", "toRES", "dead"}
  BY <1>1, <1>4, ServedTalk, Known DEF Calm, Undisturbed
<1>6. Answering(vm.pc, old, spc)
  BY <1>4, <1>5 DEF Calm, Answers
<1>7. spc # "gone"
  BY <1>5, Known DEF BookInv, TypeOK, ServerPC
<1> QED BY <1>1, <1>4, <1>5, <1>6, <1>7

LEMMA CalmServes ==
  ASSUME Prompt, BackupInv, Calm, BackupInv', ServeStep
  PROVE  Calm'
<1>. DEFINE old == conn[Served]
            pc == vm.pc
<1>1. /\ client # Stdin /\ vm.sock = Served /\ vm' = vm /\ Served \in Conn
      /\ old \in ConnState /\ old.cli = "open" /\ old.srv = "open"
      /\ Talk(pc, old, spc) /\ Answering(pc, old, spc)
      /\ spc # "gone" /\ pc \in GuestPC \ {"run", "toGET", "toRES", "dead"}
  BY ServesGuest
<1>2. conn = [conn EXCEPT ![Served] = old]
  BY Known
<1>3. ASSUME old.up # <<>>
      PROVE  /\ Read \in ConnState /\ Read.cli = "open" /\ Read.srv = "open"
             /\ Read.down = old.down /\ Read.up = Tail(old.up)
  BY <1>1, <1>3, TakeType DEF Read, ConnState
<1>4. ASSUME NEW p \in Serving \ {"revert", "astray"}, NEW r \in ConnState, Continue(p, r),
             r.cli = "open", r.srv = "open", Answering(pc, r, p)
      PROVE  Calm'
  BY <1>1, <1>4, CalmContinues
<1>5. ASSUME NEW m \in Msg, NEW r \in ConnState, r.cli = "open", r.up = <<>>, r.down = <<>>,
             Finish(conn, Down(r, <<m>>)), pc \in {"ckp", "end"}
      PROVE  Calm'
  <2>. DEFINE t == Down(r, <<m>>)
  <2>1. <<m>> \in Seq(Msg)
    BY OneMsg
  <2>2. /\ t \in ConnState /\ t.up = <<>> /\ t.cli = "open" /\ t.down = r.down \o <<m>>
    BY <2>1, <1>5, DownWords
  <2>3. t.down = <<m>>
    BY <2>1, <2>2, <1>5, ConcatEmptySeq
  <2>4. Finish(conn, t)
    BY <1>5
  <2> HIDE DEF t
  <2> QED BY <2>2, <2>3, <2>4, <1>1, <1>5, CalmFinishes
<1>. DEFINE k == Head(old.up).kind
<1>6. ASSUME spc = "header", old.up # <<>>
      PROVE  /\ k = "GET" => pc = "get" /\ old.up = <<Hdr("GET")>> /\ old.down = <<>>
             /\ k = "CKP" => pc \in {"ckp", "ping"} /\ old.up = <<Hdr("CKP")>>
             /\ k = "SET" => pc \in {"set", "setBody", "end"}
             /\ k = "EOF" => pc = "end"
  <2>1. Talk(pc, old, "header") /\ k = Head(old.up).kind
    BY <1>1, <1>6
  <2> HIDE DEF k, old, pc
  <2> QED BY <2>1, <1>1, <1>6, TalkHeads
<1>7. pc # "ping"
  BY <1>1, Known DEF Calm, Unhurried
<1>8. Hdr("GET").kind = "GET" /\ Hdr("CKP").kind = "CKP" /\ Hdr("SET").kind = "SET" /\ Hdr("EOF").kind = "EOF"
  BY DEF Hdr
<1>9. CASE ServeGET
  <2>1. spc = "header" /\ old.up # <<>> /\ Head(old.up) = Hdr("GET") /\ Continue("send", Read)
    BY <1>9 DEF ServeGET, At
  <2>2. pc = "get"
    BY <2>1, <1>6, <1>8
  <2>3. Answering(pc, Read, "send")
    BY <2>2 DEF Answering
  <2> QED BY <2>1, <2>3, <1>3, <1>4 DEF Serving
<1>10. CASE ServeSET \/ ServeName \/ ServeBody
  <2>. DEFINE To(p) == Continue(p, Read) /\ p \in {"name", "body", "header"}
  <2>1. PICK p : To(p) /\ old.up # <<>>
    <3>1. CASE ServeSET
      <4>1. To("name") /\ old.up # <<>>
        BY <3>1 DEF ServeSET, At
      <4> QED BY <4>1
    <3>2. CASE ServeName
      <4>1. To("body") /\ old.up # <<>>
        BY <3>2 DEF ServeName, At
      <4> QED BY <4>1
    <3>3. CASE ServeBody
      <4>1. To("header") /\ old.up # <<>>
        BY <3>3 DEF ServeBody, At
      <4> QED BY <4>1
    <3> QED BY <3>1, <3>2, <3>3, <1>10
  <2>2. pc \in {"set", "setBody", "end"}
    <3>1. CASE ServeSET
      <4>1. spc = "header" /\ Head(old.up) = Hdr("SET")
        BY <3>1 DEF ServeSET, At
      <4> QED BY <4>1, <2>1, <1>6, <1>8
    <3>2. CASE ServeName \/ ServeBody
      <4>1. spc \in {"name", "body"}
        BY <3>2 DEF ServeName, ServeBody, At
      <4> QED BY <4>1, <1>1 DEF Talk, GuestPC
    <3> QED BY <3>1, <3>2, <1>10
  <2>3. Answering(pc, Read, p)
    BY <2>1, <2>2, <1>1, <1>3 DEF Answering
  <2> QED BY <2>1, <2>3, <1>3, <1>4 DEF Serving
<1>11. CASE ServeCKP
  <2>1. spc = "header" /\ old.up # <<>> /\ Head(old.up) = Hdr("CKP")
    BY <1>11 DEF ServeCKP, At
  <2>2. pc = "ckp" /\ old.up = <<Hdr("CKP")>>
    BY <2>1, <1>6, <1>7, <1>8
  <2>3. Read.up = <<>> /\ Read.down = <<>>
    <3>1. Tail(old.up) = <<>>
      BY <2>2, LastOne
    <3>2. old.down = <<>>
      BY <2>2, <1>1 DEF Answering
    <3> QED BY <3>1, <3>2, <2>1, <1>3
  <2>4. CASE ckptReq
    <3>1. Continue("delete", Read)
      BY <2>4, <1>11 DEF ServeCKP
    <3>2. Answering(pc, Read, "delete")
      BY <2>2, <2>3 DEF Answering
    <3> QED BY <3>1, <3>2, <2>1, <1>3, <1>4 DEF Serving
  <2>5. CASE ~ckptReq
    <3>1. Finish(conn, Down(Read, <<Hdr("CKN")>>))
      BY <2>5, <1>11 DEF ServeCKP
    <3>2. Hdr("CKN") \in Msg
      OBVIOUS
    <3> QED BY <3>1, <3>2, <2>1, <2>2, <2>3, <1>3, <1>5
  <2> QED BY <2>4, <2>5
<1>12. CASE ServeEOF
  <2>1. /\ spc = "header" /\ old.up # <<>> /\ Head(old.up) = Hdr("EOF")
        /\ Finish(conn, Down(Read, <<Hdr("END")>>))
    BY <1>12 DEF ServeEOF, At
  <2>2. pc = "end"
    BY <2>1, <1>6, <1>8
  <2>3. old.down = <<>>
    BY <2>2, <1>1 DEF Answering
  <2>4. Tail(old.up) = <<>>
    <3>1. Store(vm, old, spc, sfile, cur)
      BY <2>2, <1>1, ServedTalk, Known DEF StoreInv, Calm, Undisturbed
    <3>. DEFINE q == old.up
                n == Len(q)
    <3>2. q \in Seq(Msg) /\ q # <<>> /\ Head(q) = Hdr("EOF")
      BY <2>1, <1>1 DEF ConnState
    <3>3. \A j \in DOMAIN q : q[j].kind = "EOF" => j = n
      BY <3>1 DEF Store
    <3> HIDE DEF q
    <3>4. Head(q) = q[1] /\ 1 \in DOMAIN q
      BY <3>2, TailPlaces
    <3>5. Tail(q) = <<>> <=> n = 1
      BY <3>2, TailPlaces
    <3> QED BY <3>2, <3>3, <3>4, <3>5, <1>8 DEF q
  <2>5. Hdr("END") \in Msg
    OBVIOUS
  <2> QED BY <2>1, <2>2, <2>3, <2>4, <2>5, <1>3, <1>5
<1>13. CASE SendFile \/ SendFilesEnd
  <2>1. spc = "send"
    BY <1>13 DEF SendFile, SendFilesEnd
  <2>2. pc \in {"get", "name", "body"} /\ old.up = <<>>
    BY <2>1, <1>1 DEF Talk, GuestPC
  <2>3. CASE SendFile
    <3>1. PICK f \in todo :
            Continue("send", Down(conn[Served], <<Hdr("SET"), Name(f), Body(sfile[f])>>))
      BY <2>3 DEF SendFile
    <3>2. f \in Files /\ sfile[f] \in Content
      BY Known DEF BookInv, TypeOK
    <3>. DEFINE ms == <<Hdr("SET"), Name(f), Body(sfile[f])>>
                r == Down(old, ms)
    <3>3. ms \in Seq(Msg)
      BY <3>2
    <3>4. Continue("send", r)
      BY <3>1
    <3> HIDE DEF ms
    <3>5. r \in ConnState /\ r.srv = "open" /\ r.cli = "open"
      BY <3>3, <1>1, DownWords
    <3> HIDE DEF r
    <3>6. Answering(pc, r, "send")
      BY <2>2 DEF Answering
    <3> QED BY <3>4, <3>5, <3>6, <1>4 DEF Serving
  <2>4. CASE SendFilesEnd
    <3>. DEFINE ms == <<Hdr("EOF")>>
                r == Down(old, ms)
    <3>1. ms \in Seq(Msg) /\ Continue("header", r)
      BY <2>4, OneMsg DEF SendFilesEnd
    <3>2. 1 \in DOMAIN ms /\ ms[1].kind = "EOF"
      BY <1>8
    <3> HIDE DEF ms
    <3>3. r \in ConnState /\ r.srv = "open" /\ r.cli = "open" /\ r.down = old.down \o ms
      BY <3>1, <1>1, DownWords
    <3> HIDE DEF r
    <3>4. \E j \in DOMAIN r.down : r.down[j].kind = "EOF"
      <4>. DEFINE q == old.down
      <4>1. q \in Seq(Msg) /\ ms \in Seq(Msg)
        BY <1>1, <3>1 DEF ConnState
      <4> HIDE DEF q
      <4>2. \A j \in DOMAIN ms : Len(q) + j \in DOMAIN (q \o ms) /\ (q \o ms)[Len(q) + j] = ms[j]
        BY <4>1, ConcatPlaces
      <4>3. Len(q) + 1 \in DOMAIN (q \o ms) /\ (q \o ms)[Len(q) + 1] = ms[1]
        BY <4>2, <3>2
      <4> QED BY <4>3, <3>2, <3>3 DEF q
    <3>5. Answering(pc, r, "header")
      BY <2>2, <3>4 DEF Answering
    <3> QED BY <3>1, <3>3, <3>5, <1>4 DEF Serving
  <2> QED BY <2>3, <2>4, <1>13
<1>14. CASE DeleteSnapshot \/ CreateSnapshot
  <2>1. PICK p \in {"create", "cky"} : Continue(p, old)
    <3>1. UNCHANGED <<conn, fd, client, ready>> /\ spc' \in {"create", "cky"}
      BY <1>14 DEF DeleteSnapshot, CreateSnapshot
    <3> QED BY <3>1, <1>2 DEF Continue
  <2>2. pc \in {"ckp", "ping"}
    BY <1>1, <1>14 DEF DeleteSnapshot, CreateSnapshot, Talk, GuestPC
  <2>3. Answering(pc, old, p)
    BY <2>2, <1>1, <1>7 DEF Answering
  <2> QED BY <2>1, <2>3, <1>1, <1>4 DEF Serving
<1>15. CASE AnswerCKY
  <2>1. spc = "cky" /\ Finish(conn, Down(old, <<Hdr("CKY")>>))
    BY <1>15 DEF AnswerCKY
  <2>2. pc = "ckp" /\ old.up = <<>>
    BY <2>1, <1>1, <1>7 DEF Talk, GuestPC
  <2>3. old.down = <<>> /\ Hdr("CKY") \in Msg
    BY <2>1, <2>2, <1>1 DEF Answering
  <2> QED BY <2>1, <2>2, <2>3, <1>1, <1>5
<1> QED BY <1>9, <1>10, <1>11, <1>12, <1>13, <1>14, <1>15 DEF ServeStep

\* Where a snapshot, once there is to be one, comes from and where it leads.
Checked ==
  \/ vm.chk \/ vm.sock = Stale \/ spc = "cky"
  \/ vm.pc = "ckp" /\ vm.sock \in Conn /\ conn[vm.sock].down = <<Hdr("CKY")>>
SnapshotInv ==
  /\ spc = "create" => snap = NoSnap
  /\ SnapshotInWait
  /\ Checked => ckpted /\ snap # NoSnap /\ Present(snap.file) \subseteq Present(vm.file)

\* The backup is the server's directory but while the next one comes in; what the
\* snapshot brings back has its place in it.
Sending   == {"set", "setBody", "end"}
Fetches   == {"ckp", "ping", "toGET", "GET", "get", "name", "body"}
BackedUp ==
  saved # NoSnap =>
    /\ vm.chk \/ vm.sock = Stale
    /\ Present(snap.file) \subseteq Present(saved)
    /\ vm.pc \notin Sending => sfile = saved
    /\ vm.pc \in Fetches => Present(vm.file) \subseteq Present(saved)

PromptInv == BackupInv /\ BringInv /\ Calm /\ SnapshotInv /\ BackedUp

\* The guest goes on: it keeps its files and is where it was in them.
LEMMA KeptGoes ==
  ASSUME SnapshotInv, BackedUp, UNCHANGED <<snap, spc, ckpted, sfile, saved>>,
         Checked' => Checked, Present(vm.file) \subseteq Present(vm'.file),
         saved # NoSnap =>
           /\ vm'.chk \/ vm'.sock = Stale
           /\ vm'.pc \notin Sending => vm.pc \notin Sending
           /\ vm'.pc \in Fetches => vm.pc \in Fetches /\ Present(vm'.file) \subseteq Present(saved)
  PROVE  SnapshotInv' /\ BackedUp'
<1>1. SnapshotInv'
  BY DEF SnapshotInv, SnapshotInWait
<1>2. BackedUp'
  BY DEF BackedUp
<1> QED BY <1>1, <1>2

\* The same when the files stay as they are.
LEMMA KeptStays ==
  ASSUME SnapshotInv, BackedUp, UNCHANGED <<snap, spc, ckpted, sfile, saved, vm.file>>,
         Checked' => Checked,
         saved # NoSnap =>
           /\ vm'.chk \/ vm'.sock = Stale
           /\ vm'.pc \notin Sending => vm.pc \notin Sending
           /\ vm'.pc \in Fetches => vm.pc \in Fetches
  PROVE  SnapshotInv' /\ BackedUp'
<1>1. saved # NoSnap /\ vm.pc \in Fetches => Present(vm.file) \subseteq Present(saved)
  BY DEF BackedUp
<1> QED BY <1>1, KeptGoes

\* What a guest that fetches finds in what is on its way to it.
LEMMA OnItsWay ==
  ASSUME PromptInv, Fetching, conn[vm.sock].down # <<>>
  PROVE  Store(Sender(sfile, todo), Turned(conn[vm.sock]), vm.pc, vm.file, vm.cur)
<1>. DEFINE old == conn[vm.sock]
<1>1. vm.sock \in Conn /\ vm.pc \in {"get", "name", "body"} /\ BackupInv /\ Calm /\ BringInv
  BY DEF PromptInv, Fetching
<1>2. Pos(vm.sock) # "gone" /\ Talk(vm.pc, old, Pos(vm.sock)) /\ Answering(vm.pc, old, Pos(vm.sock))
  BY <1>1, Mine DEF Calm, Answers, Answering
<1>3. Pos(vm.sock) = "send" \/ \E k \in DOMAIN old.down : old.down[k].kind = "EOF"
  <2>1. Pos(vm.sock) = "send" \/ (Pos(vm.sock) = "header" /\ old.up = <<>>)
    BY <1>1, <1>2 DEF Talk
  <2> QED BY <2>1, <1>1, <1>2 DEF Answering
<1>4. ~Unfinished(Pos(vm.sock), old)
  BY <1>3 DEF Unfinished
<1> QED BY <1>1, <1>4 DEF BringInv, Fetching

\* The guest fetches what belongs to the backup.
LEMMA KeptTakes ==
  ASSUME PromptInv, RecvSET \/ RecvName \/ RecvBody
  PROVE  SnapshotInv' /\ BackedUp'
<1>. DEFINE old == conn[vm.sock]
<1>1. /\ Fetching /\ old.down # <<>> /\ UNCHANGED <<snap, host, flags, saved>> /\ BackupInv
      /\ vm.sock \in Conn /\ vm.pc \in {"get", "name", "body"} /\ Calm /\ SnapshotInv /\ BackedUp
      /\ old \in ConnState
  <2>1. vm.sock \in Conn /\ vm.pc \in {"get", "name", "body"} /\ old.down # <<>>
        /\ UNCHANGED <<snap, host, flags, saved>>
    BY DEF RecvSET, RecvName, RecvBody, Receive, Sock
  <2>2. BackupInv
    BY DEF PromptInv
  <2> QED BY <2>1, <2>2, Mine DEF PromptInv, Fetching
<1>2. UNCHANGED <<spc, ckpted, sfile, todo>>
  BY <1>1 DEF host, flags
<1>3. vm.chk
  BY <1>1 DEF Calm, Unhurried
<1>4. saved # NoSnap => sfile = saved /\ Present(vm.file) \subseteq Present(saved)
  BY <1>1 DEF BackedUp, Sending, Fetches
<1>5. Store(Sender(sfile, todo), Turned(old), vm.pc, vm.file, vm.cur)
  BY <1>1, OnItsWay
<1>6. Turned(old).up = old.down /\ Sender(sfile, todo).file = sfile
  BY <1>1, TurnedType, SenderIs
<1>7. old.down[1] = Head(old.down) /\ 1 \in DOMAIN old.down
  <2>. DEFINE q == old.down
  <2>1. q \in Seq(Msg) /\ q # <<>>
    BY <1>1 DEF ConnState
  <2> HIDE DEF q
  <2>2. q[1] = Head(q) /\ 1 \in DOMAIN q
    BY <2>1, TailPlaces
  <2> QED BY <2>2 DEF q
<1>8. ASSUME vm'.pc \in {"get", "name", "body"}, vm'.sock = vm.sock, vm'.chk = vm.chk,
             \/ vm'.file = vm.file
             \/ \E f \in Present(sfile) :
                  /\ vm'.file[f] # Absent
                  /\ \A e \in Files : e # f => vm'.file[e] = vm.file[e]
      PROVE  SnapshotInv' /\ BackedUp'
  <2>1. Checked' => Checked
    BY <1>3 DEF Checked
  <2>2. Present(vm.file) \subseteq Present(vm'.file)
    BY <1>8 DEF Present
  <2>3. Present(vm'.file) \subseteq Present(vm.file) \cup Present(sfile)
    BY <1>8 DEF Present
  <2> QED BY <2>1, <2>2, <2>3, <1>1, <1>2, <1>3, <1>4, <1>8, KeptGoes DEF Fetches, Sending
<1>9. CASE RecvSET
  <2>1. vm'.pc = "name" /\ vm'.sock = vm.sock /\ vm'.file = vm.file
    BY <1>9, Known, <1>1 DEF RecvSET, Receive, GuestRecord
  <2>2. vm'.chk = vm.chk
    BY <1>9, Known, <1>1 DEF RecvSET, Receive, GuestRecord
  <2> QED BY <2>1, <2>2, <1>8
<1>10. CASE RecvName
  <2>1. PICK f \in Files :
          Receive(Name(f), [vm EXCEPT !.pc = "body", !.cur = f, !.file[f] = Torn])
    BY <1>10 DEF RecvName
  <2>. DEFINE g == [vm EXCEPT !.pc = "body", !.cur = f, !.file[f] = Torn]
  <2>2. g.sock = vm.sock
    BY Known, <1>1 DEF GuestRecord
  <2>3. g.pc = "body"
    BY Known, <1>1 DEF GuestRecord
  <2>4. g.chk = vm.chk
    BY Known, <1>1 DEF GuestRecord
  <2>5. g.file = [vm.file EXCEPT ![f] = Torn]
    BY Known, <1>1 DEF GuestRecord
  <2>6. vm' = g /\ Head(old.down) = Name(f)
    BY <2>1 DEF Receive, Sock
  <2> HIDE DEF g
  <2>7. g.file[f] = Torn /\ \A e \in Files : e # f => g.file[e] = vm.file[e]
    BY <2>5, Known, <1>1 DEF GuestRecord
  <2>8. Torn # Absent
    BY DEF Torn, Absent
  <2>9. f \in Present(sfile)
    <3>1. old.down[1].kind = "name" /\ old.down[1].file = f
      BY <2>6, <1>7 DEF Name
    <3> QED BY <3>1, <1>5, <1>6, <1>7 DEF Store
  <2> QED BY <2>2, <2>3, <2>4, <2>6, <2>7, <2>8, <2>9, <1>8
<1>11. CASE RecvBody
  <2>1. PICK b \in Content :
          Receive(Body(b), [vm EXCEPT !.pc = "get", !.cur = NoFile, !.file[vm.cur] = b])
    BY <1>11 DEF RecvBody
  <2>. DEFINE g == [vm EXCEPT !.pc = "get", !.cur = NoFile, !.file[vm.cur] = b]
  <2>2. g.sock = vm.sock
    BY Known, <1>1 DEF GuestRecord
  <2>3. g.pc = "get"
    BY Known, <1>1 DEF GuestRecord
  <2>4. g.chk = vm.chk
    BY Known, <1>1 DEF GuestRecord
  <2>5. g.file = [vm.file EXCEPT ![vm.cur] = b]
    BY Known, <1>1 DEF GuestRecord
  <2>6. vm' = g /\ Head(old.down) = Body(b) /\ vm.pc = "body"
    BY <2>1, <1>11 DEF Receive, Sock, RecvBody
  <2> HIDE DEF g
  <2>7. vm.cur \in Present(sfile)
    BY <2>6, <1>5, <1>6 DEF Store
  <2>8. vm.cur \in Files
    BY <2>7 DEF Present
  <2>9. g.file[vm.cur] = b /\ \A e \in Files : e # vm.cur => g.file[e] = vm.file[e]
    BY <2>5, <2>8, Known, <1>1 DEF GuestRecord
  <2>10. b # Absent
    <3>1. old.down[1].kind = "body" /\ old.down[1].ver = b
      BY <2>6, <1>7 DEF Body
    <3>2. Fetch(vm.file, old, Pos(vm.sock), sfile, todo)
      BY <1>1, Known DEF FetchInv
    <3> QED BY <3>1, <3>2, <1>7 DEF Fetch
  <2> QED BY <2>2, <2>3, <2>4, <2>6, <2>7, <2>9, <2>10, <1>8
<1> QED BY <1>9, <1>10, <1>11

\* The rest of what the guest does.
LEMMA KeptAsks ==
  ASSUME Prompt, PromptInv,
         StartGET \/ StartRES \/ CallCheckpoint \/ CallRestore \/ Train \/ Launch \/ Type
  PROVE  SnapshotInv' /\ BackedUp'
<1>1. BackupInv /\ Calm /\ SnapshotInv /\ BackedUp
  BY DEF PromptInv
<1>2. UNCHANGED <<snap, spc, ckpted, sfile, saved>>
  BY DEF StartGET, StartRES, CallCheckpoint, CallRestore, Train, Launch, Type, Connect,
         guest, host, flags
<1>3. saved # NoSnap => vm.chk \/ vm.sock = Stale
  BY <1>1 DEF BackedUp
<1>4. ASSUME NEW pc, NEW files, Connect(pc, files), vm.sock = NoConn, pc # "ckp",
             saved # NoSnap =>
               /\ pc \notin Sending => vm.pc \notin Sending
               /\ pc \in Fetches => vm.pc \in Fetches
      PROVE  SnapshotInv' /\ BackedUp'
  <2>1. vm'.pc = pc /\ vm'.sock # Stale /\ vm'.chk = vm.chk /\ vm'.file = vm.file
    <3>1. PICK c \in Conn :
            vm' = [vm EXCEPT !.pc = pc, !.sock = c, !.watch = TRUE, !.todo = files]
      BY <1>4 DEF Connect
    <3>. DEFINE g == [vm EXCEPT !.pc = pc, !.sock = c, !.watch = TRUE, !.todo = files]
    <3>2. g.pc = pc
      BY Known, <1>1 DEF GuestRecord
    <3>3. g.sock = c
      BY Known, <1>1 DEF GuestRecord
    <3>4. g.chk = vm.chk
      BY Known, <1>1 DEF GuestRecord
    <3>5. g.file = vm.file
      BY Known, <1>1 DEF GuestRecord
    <3>6. vm' = g
      BY <3>1
    <3> HIDE DEF g
    <3> QED BY <3>2, <3>3, <3>4, <3>5, <3>6, Known, <1>1
  <2>2. Checked' => Checked
    BY <2>1, <1>2, <1>4 DEF Checked
  <2>3. vm.sock # Stale
    BY <1>4, Known, <1>1
  <2> QED BY <2>1, <2>2, <2>3, <1>1, <1>2, <1>3, <1>4, KeptStays
<1>5. CASE StartGET
  BY <1>1, <1>4, <1>5, Known DEF StartGET, Sending, Fetches
<1>6. CASE StartRES
  BY <1>1, <1>4, <1>6, Known DEF StartRES, Sending, Fetches
<1>7. CASE CallCheckpoint
  <2>1. saved = NoSnap
    BY <1>1, <1>3, <1>7, Known DEF CallCheckpoint
  <2> QED BY <2>1, <1>1, <1>4, <1>7, Known DEF CallCheckpoint
<1>8. CASE CallRestore
  BY <1>1, <1>4, <1>8, Known DEF CallRestore, Sending, Fetches
<1>9. CASE Train
  <2>1. /\ vm.pc = "run" /\ vm.sock = NoConn /\ vm'.pc = "run" /\ vm'.sock = NoConn
        /\ vm'.chk = vm.chk /\ \A f \in Files : vm'.file[f] \in {vm.file[f], made'}
    BY <1>1, <1>9, Known DEF Train, GuestRecord
  <2>2. made' # Absent
    BY <1>1, <1>9, Known DEF Train, TypeOK, Absent
  <2>3. Present(vm.file) \subseteq Present(vm'.file)
    BY <2>1, <2>2 DEF Present
  <2>4. Checked' => Checked
    BY <2>1, <1>2 DEF Checked
  <2> QED BY <2>1, <2>3, <2>4, <1>1, <1>2, <1>3, Known, KeptGoes DEF Sending, Fetches
<1>10. CASE Launch
  <2>1. vm.pc = "dead" /\ vm.sock = NoConn /\ vm'.pc = "run" /\ vm'.sock = NoConn
    BY <1>1, <1>10, Known DEF Launch, Started, Halted, GuestRecord
  <2>2. ~vm'.chk /\ vm'.file = vm.file
    BY <1>1, <1>10, Known DEF Launch, Started, Halted, GuestRecord
  <2>3. saved = NoSnap
    BY <2>1, <1>1, <1>3, Known DEF Calm, Unhurried
  <2>4. Checked' => Checked
    BY <2>1, <2>2, <1>1, <1>2, Known DEF Checked
  <2> QED BY <2>1, <2>2, <2>3, <2>4, <1>1, <1>2, KeptStays
<1>11. CASE Type
  <2>1. vm' = vm /\ conn' = conn
    BY <1>11 DEF Type, guest
  <2>2. Checked' => Checked
    BY <2>1, <1>2 DEF Checked
  <2> QED BY <2>1, <2>2, <1>1, <1>2, <1>3, KeptStays
<1> QED BY <1>5, <1>6, <1>7, <1>8, <1>9, <1>10, <1>11

LEMMA KeptSends ==
  ASSUME Prompt, PromptInv,
         SendCKP \/ SendGET \/ SendName \/ SendBody \/ SendEOF \/ SendRES \/ RecvEOF
  PROVE  SnapshotInv' /\ BackedUp'
<1>. DEFINE old == conn[vm.sock]
<1>1. BackupInv /\ Calm /\ SnapshotInv /\ BackedUp
  BY DEF PromptInv
<1>2. /\ vm.sock \in Conn /\ old.srv = "open" /\ old \in ConnState /\ Talk(vm.pc, old, Pos(vm.sock))
  <2>1. vm.pc \in {"CKP", "GET", "set", "setBody", "RES", "get"}
    BY DEF SendCKP, SendGET, SendName, SendBody, SendEOF, SendRES, RecvEOF
  <2>2. vm.sock \in Conn
    BY <2>1, <1>1, Known DEF Calm, Unhurried
  <2>3. Pos(vm.sock) # "gone"
    BY <2>1, <2>2, <1>1 DEF Calm, Answers, Answering
  <2> QED BY <2>2, <2>3, <1>1, Mine
<1>3. UNCHANGED <<snap, spc, ckpted, sfile, saved>>
  BY DEF SendCKP, SendGET, SendName, SendBody, SendEOF, SendRES, RecvEOF, Send, host, flags
<1>4. saved # NoSnap => vm.chk
  BY <1>1, <1>2, Known DEF BackedUp
<1>5. ASSUME NEW ms, NEW g, Send(ms, g) PROVE vm' = g
  BY <1>2, <1>5, Known, <1>1 DEF Send, Sock
<1>6. ASSUME NEW g, vm' = g, g.chk = vm.chk, g.file = vm.file, g.sock \in {vm.sock, NoConn},
             g.pc = "ckp" => SendCKP,
             g.pc \notin Sending => vm.pc \notin Sending,
             g.pc \in Fetches => vm.pc \in Fetches \cup {"CKP"}
      PROVE  SnapshotInv' /\ BackedUp'
  <2>1. g.sock # Stale
    BY <1>2, <1>6, Known, <1>1
  <2>2. vm.pc = "CKP" => saved = NoSnap
    BY <1>1, <1>4, Known DEF OthersInv
  <2>3. Checked' => Checked
    <3>1. CASE SendCKP
      <4>1. Send(<<Hdr("CKP")>>, g) /\ vm.pc = "CKP"
        <5>1. Send(<<Hdr("CKP")>>, [vm EXCEPT !.pc = "ckp"]) /\ vm.pc = "CKP"
          BY <3>1 DEF SendCKP
        <5>2. vm' = [vm EXCEPT !.pc = "ckp"]
          BY <5>1, <1>5
        <5> QED BY <5>1, <5>2, <1>6
      <4>2. <<Hdr("CKP")>> \in Seq(Msg)
        BY OneMsg
      <4>3. old.down = <<>>
        BY <4>1, <1>2 DEF Talk
      <4>4. g.sock = vm.sock
        <5>1. [vm EXCEPT !.pc = "ckp"].sock = vm.sock
          BY Known, <1>1 DEF GuestRecord
        <5>2. vm' = [vm EXCEPT !.pc = "ckp"]
          BY <3>1, <1>5 DEF SendCKP
        <5> QED BY <5>1, <5>2, <1>6
      <4>5. conn'[vm.sock] = Up(old, <<Hdr("CKP")>>)
        BY <4>1, <4>4, <1>2, Known, <1>1 DEF Send, Sock
      <4>6. conn'[vm.sock].down = <<>>
        <5>1. Up(old, <<Hdr("CKP")>>).down = old.down
          BY <4>2, <1>2, UpWords
        <5> QED BY <5>1, <4>3, <4>5
      <4>7. <<>> # <<Hdr("CKY")>>
        OBVIOUS
      <4> QED BY <4>4, <4>6, <4>7, <2>1, <1>3, <1>6 DEF Checked
    <3>2. CASE ~SendCKP
      BY <3>2, <2>1, <1>3, <1>6 DEF Checked
    <3> QED BY <3>1, <3>2
  <2> QED BY <2>2, <2>3, <1>1, <1>3, <1>4, <1>6, KeptStays
<1>. DEFINE Did(g) ==
       /\ vm' = g /\ g.chk = vm.chk /\ g.file = vm.file /\ g.sock \in {vm.sock, NoConn}
       /\ (g.pc = "ckp" => SendCKP) /\ (g.pc \notin Sending => vm.pc \notin Sending)
       /\ (g.pc \in Fetches => vm.pc \in Fetches \cup {"CKP"})
<1>7. \E g : Did(g)
  <2>1. CASE SendCKP \/ SendGET
    <3>1. PICK pc \in {"ckp", "get"} : /\ vm' = [vm EXCEPT !.pc = pc] /\ (pc = "ckp" => SendCKP)
                                       /\ vm.pc \in {"CKP", "GET"}
      BY <2>1, <1>5 DEF SendCKP, SendGET
    <3>. DEFINE g == [vm EXCEPT !.pc = pc]
    <3>2. g.pc = pc /\ g.sock = vm.sock
      BY Known, <1>1 DEF GuestRecord
    <3>3. g.chk = vm.chk /\ g.file = vm.file
      BY Known, <1>1 DEF GuestRecord
    <3> HIDE DEF g
    <3>4. Did(g)
      BY <3>1, <3>2, <3>3 DEF g, Sending, Fetches
    <3> QED BY <3>4
  <2>2. CASE SendName
    <3>1. PICK f \in vm.todo : vm' = [vm EXCEPT !.pc = "setBody", !.cur = f, !.todo = @ \ {f}]
      BY <2>2, <1>5 DEF SendName
    <3>. DEFINE g == [vm EXCEPT !.pc = "setBody", !.cur = f, !.todo = @ \ {f}]
    <3>2. g.pc = "setBody" /\ g.sock = vm.sock
      BY Known, <1>1 DEF GuestRecord
    <3>3. g.chk = vm.chk /\ g.file = vm.file
      BY Known, <1>1 DEF GuestRecord
    <3> HIDE DEF g
    <3>4. Did(g)
      BY <3>1, <3>2, <3>3 DEF g, Sending, Fetches
    <3> QED BY <3>4
  <2>3. CASE SendBody
    <3>1. vm' = [vm EXCEPT !.pc = "set", !.cur = NoFile]
      BY <2>3, <1>5 DEF SendBody
    <3>. DEFINE g == [vm EXCEPT !.pc = "set", !.cur = NoFile]
    <3>2. g.pc = "set" /\ g.sock = vm.sock
      BY Known, <1>1 DEF GuestRecord
    <3>3. g.chk = vm.chk /\ g.file = vm.file
      BY Known, <1>1 DEF GuestRecord
    <3> HIDE DEF g
    <3>4. Did(g)
      BY <3>1, <3>2, <3>3 DEF g, Sending, Fetches
    <3> QED BY <3>4
  <2>4. CASE SendEOF
    <3>1. vm' = [vm EXCEPT !.pc = "end"]
      BY <2>4, <1>5 DEF SendEOF
    <3>. DEFINE g == [vm EXCEPT !.pc = "end"]
    <3>2. g.pc = "end" /\ g.sock = vm.sock
      BY Known, <1>1 DEF GuestRecord
    <3>3. g.chk = vm.chk /\ g.file = vm.file
      BY Known, <1>1 DEF GuestRecord
    <3> HIDE DEF g
    <3>4. Did(g)
      BY <3>1, <3>2, <3>3 DEF g, Sending, Fetches
    <3> QED BY <3>4
  <2>5. CASE SendRES \/ RecvEOF
    <3>1. vm' = [vm EXCEPT !.pc = "run", !.sock = NoConn] /\ vm.pc \in {"RES", "get"}
      BY <2>5, <1>5 DEF SendRES, RecvEOF
    <3>. DEFINE g == [vm EXCEPT !.pc = "run", !.sock = NoConn]
    <3>2. g.pc = "run" /\ g.sock = NoConn
      BY Known, <1>1 DEF GuestRecord
    <3>3. g.chk = vm.chk /\ g.file = vm.file
      BY Known, <1>1 DEF GuestRecord
    <3> HIDE DEF g
    <3>4. Did(g)
      BY <3>1, <3>2, <3>3 DEF g, Sending, Fetches
    <3> QED BY <3>4
  <2> QED BY <2>1, <2>2, <2>3, <2>4, <2>5
<1>8. PICK g : Did(g)
  BY <1>7
<1> QED BY <1>6, <1>8

LEMMA KeptLeaves ==
  ASSUME Prompt, PromptInv, RecvCKN \/ RecvCKY \/ RecvEND \/ CkpTimeout \/ PingDone
  PROVE  SnapshotInv' /\ BackedUp'
<1>1. BackupInv /\ Calm /\ SnapshotInv /\ BackedUp
  BY DEF PromptInv
<1>2. UNCHANGED <<snap, spc, ckpted, sfile>>
  BY DEF RecvCKN, RecvCKY, RecvEND, CkpTimeout, PingDone, Receive, host, flags
<1>3. saved # NoSnap => vm.chk \/ vm.sock = Stale
  BY <1>1 DEF BackedUp
<1>4. vm.pc \in {"ckp", "ping"} => ~vm.chk
  BY <1>1, Known DEF OthersInv
<1>5. CASE RecvCKN
  <2>1. saved = NoSnap /\ saved' = saved /\ ~vm.chk
    <3>1. vm.pc = "ckp" /\ vm.sock \in Conn /\ saved' = saved
      BY <1>5 DEF RecvCKN, Receive
    <3> QED BY <3>1, <1>1, <1>3, <1>4, Known
  <2>2. vm'.pc = "run" /\ vm'.sock = NoConn
    BY <1>1, <1>5, Known DEF RecvCKN, Receive, GuestRecord
  <2>3. vm'.chk = vm.chk /\ vm'.file = vm.file
    BY <1>1, <1>5, Known DEF RecvCKN, Receive, GuestRecord
  <2>4. Checked' => Checked
    BY <2>1, <2>2, <2>3, <1>1, <1>2, Known DEF Checked
  <2> QED BY <2>1, <2>3, <2>4, <1>1, <1>2, KeptStays
<1>6. CASE RecvCKY
  <2>1. PICK m \in Msg : vm.sock \in Conn /\ conn[vm.sock].down = <<m>>
    BY <1>1, <1>6, CalmLeaves
  <2>2. vm.pc = "ckp" /\ saved' = saved /\ Head(conn[vm.sock].down) = Hdr("CKY")
    BY <1>6 DEF RecvCKY, Receive, Sock
  <2>3. Head(conn[vm.sock].down) = m
    BY <2>1, LastOne
  <2>4. Checked
    BY <2>1, <2>2, <2>3 DEF Checked
  <2>5. vm'.pc = "toGET" /\ vm'.chk
    BY <1>1, <1>6, Known DEF RecvCKY, Receive, GuestRecord
  <2>6. vm'.file = vm.file
    BY <1>1, <1>6, Known DEF RecvCKY, Receive, GuestRecord
  <2> QED BY <2>2, <2>4, <2>5, <2>6, <1>1, <1>2, KeptStays DEF Sending, Fetches
<1>7. CASE RecvEND
  <2>1. vm.pc = "end" /\ saved' = vm.file /\ vm.sock \in Conn /\ conn[vm.sock].down # <<>>
    BY <1>7 DEF RecvEND, Receive, Sock
  <2>2. vm'.pc = "toRES" /\ vm'.sock = NoConn
    BY <1>1, <1>7, Known DEF RecvEND, Receive, GuestRecord
  <2>3. vm'.chk = vm.chk /\ vm'.file = vm.file
    BY <1>1, <1>7, Known DEF RecvEND, Receive, GuestRecord
  <2>4. vm.chk /\ Checked
    BY <2>1, <1>1 DEF Calm, Unhurried, Checked
  <2>5. sfile = vm.file
    BY <2>1, <1>1, Known DEF StoreInv
  <2>6. SnapshotInv'
    BY <2>3, <2>4, <1>1, <1>2 DEF SnapshotInv, SnapshotInWait
  <2>7. Present(snap.file) \subseteq Present(vm.file)
    BY <2>4, <1>1 DEF SnapshotInv
  <2>8. BackedUp'
    BY <2>1, <2>2, <2>3, <2>4, <2>5, <2>7, <1>2 DEF BackedUp, Fetches
  <2> QED BY <2>6, <2>8
<1>8. CASE CkpTimeout
  <2>1. vm.sock = Stale /\ saved' = saved /\ vm.pc = "ckp"
    BY <1>8 DEF CkpTimeout, Prompt
  <2>2. vm'.pc = "ping" /\ vm'.sock = vm.sock
    BY <1>1, <1>8, Known DEF CkpTimeout, GuestRecord
  <2>3. vm'.file = vm.file
    BY <1>1, <1>8, Known DEF CkpTimeout, GuestRecord
  <2>4. Checked
    BY <2>1 DEF Checked
  <2> QED BY <2>1, <2>2, <2>3, <2>4, <1>1, <1>2, KeptStays DEF Sending, Fetches
<1>9. CASE PingDone
  <2>1. vm.sock = Stale /\ saved' = saved /\ vm.pc = "ping"
    BY <1>1, <1>9 DEF PingDone, Calm, Unhurried
  <2>2. vm'.pc = "toGET" /\ vm'.chk
    BY <1>1, <1>9, Known DEF PingDone, GuestRecord
  <2>3. vm'.file = vm.file
    BY <1>1, <1>9, Known DEF PingDone, GuestRecord
  <2>4. Checked
    BY <2>1 DEF Checked
  <2> QED BY <2>1, <2>2, <2>3, <2>4, <1>1, <1>2, KeptStays DEF Sending, Fetches
<1> QED BY <1>5, <1>6, <1>7, <1>8, <1>9

\* The server's loop, and the farewells.
LEMMA KeptLoop ==
  ASSUME Prompt, PromptInv,
         Select \/ StdinTurn \/ CinLine \/ CinWord \/ Accept \/ Serve \/ ServeEND \/ ServeRES
  PROVE  SnapshotInv' /\ BackedUp'
<1>1. BackupInv /\ Calm /\ SnapshotInv /\ BackedUp
  BY DEF PromptInv
<1>2. UNCHANGED <<vm, snap, ckpted, sfile, saved>>
  BY DEF Select, StdinTurn, CinLine, CinWord, Accept, Serve, ServeEND, ServeRES, guest, host, flags
<1>3. spc' \notin {"create", "cky"}
  BY DEF Select, StdinTurn, CinLine, CinWord, Accept, Serve, ServeEND, ServeRES,
         DoneWith, Continue, Finish, host
<1>4. vm.sock \in Conn => conn'[vm.sock] = conn[vm.sock]
  <2>1. CASE Select \/ StdinTurn \/ CinLine \/ CinWord \/ Accept \/ Serve
    BY <2>1 DEF Select, StdinTurn, CinLine, CinWord, Accept, Serve, host
  <2>2. CASE ServeEND \/ ServeRES
    <3>1. client # Stdin
      BY <2>2, <1>1, Known DEF BookInv, Place, Serving, ServeEND, ServeRES, At
    <3>2. Served \in Conn
      BY <3>1, <1>1, ServedConn, Known
    <3>3. \A c \in Conn : c # Served => conn'[c] = conn[c]
      BY <2>2, <3>2, <1>1, Known DEF ServeEND, ServeRES, Finish, Continue
    <3>4. spc = "header" /\ conn[Served].up # <<>> /\ Head(conn[Served].up) \in {Hdr("END"), Hdr("RES")}
      BY <2>2 DEF ServeEND, ServeRES, At
    <3>5. vm.sock # Served
      <4>1. SUFFICES ASSUME vm.sock = Served PROVE FALSE
        OBVIOUS
      <4>. DEFINE k == Head(conn[Served].up).kind
      <4>2. /\ Talk(vm.pc, conn[Served], "header") /\ conn[Served] \in ConnState
            /\ vm.pc \in GuestPC \ {"run", "toGET", "toRES", "dead"}
            /\ k = Head(conn[Served].up).kind
        BY <4>1, <3>1, <3>4, <1>1, ServedTalk, Known
      <4>3. k \in {"END", "RES"}
        BY <3>4 DEF Hdr
      <4> HIDE DEF k
      <4>4. k \notin {"END", "RES"}
        BY <4>2, <3>4, TalkHeads
      <4> QED BY <4>3, <4>4
    <3> QED BY <3>3, <3>5
  <2> QED BY <2>1, <2>2
<1>5. Checked' => Checked
  BY <1>2, <1>3, <1>4 DEF Checked
<1>6. SnapshotInv'
  BY <1>1, <1>2, <1>3, <1>5 DEF SnapshotInv, SnapshotInWait
<1>7. BackedUp'
  BY <1>1, <1>2 DEF BackedUp
<1> QED BY <1>6, <1>7

\* What the server does for the guest that is there: the snapshot is made while
\* the guest waits for CKY, and CKY is the answer only then.
LEMMA KeptServes ==
  ASSUME Prompt, PromptInv, ServeStep
  PROVE  SnapshotInv' /\ BackedUp'
<1>. DEFINE old == conn[Served]
<1>1. BackupInv /\ Calm /\ SnapshotInv /\ BackedUp
  BY DEF PromptInv
<1>2. /\ client # Stdin /\ vm.sock = Served /\ vm' = vm /\ Served \in Conn
      /\ old \in ConnState /\ old.cli = "open" /\ old.srv = "open"
      /\ Talk(vm.pc, old, spc) /\ Answering(vm.pc, old, spc)
      /\ spc # "gone" /\ vm.pc \in GuestPC \ {"run", "toGET", "toRES", "dead"}
  BY <1>1, ServesGuest
<1>3. vm.sock # Stale /\ vm.pc # "ping"
  BY <1>1, <1>2, Known DEF Calm, Unhurried
<1>4. saved # NoSnap => vm.chk
  BY <1>1, <1>3 DEF BackedUp
<1>5. vm.pc = "ckp" => ~vm.chk /\ saved = NoSnap
  BY <1>1, <1>4, Known DEF OthersInv
<1>6. saved' = saved
  BY DEF ServeStep, ServeGET, ServeSET, ServeCKP, ServeEOF, ServeName,
     ServeBody, SendFile, SendFilesEnd, DeleteSnapshot, CreateSnapshot, AnswerCKY, guest
<1>7. CASE DeleteSnapshot
  <2>1. spc = "delete" /\ snap' = NoSnap /\ spc' = "create" /\ conn' = conn
    BY <1>7 DEF DeleteSnapshot, Prompt
  <2>2. vm.pc = "ckp" /\ old.down = <<>>
    BY <2>1, <1>2, <1>3 DEF Talk, Answering, GuestPC
  <2>3. <<>> # <<Hdr("CKY")>>
    OBVIOUS
  <2>4. ~Checked'
    BY <2>1, <2>2, <2>3, <1>2, <1>3, <1>5 DEF Checked
  <2> QED BY <2>1, <2>2, <2>4, <1>5, <1>6 DEF SnapshotInv, SnapshotInWait, BackedUp
<1>8. CASE CreateSnapshot
  <2>1. spc = "create" /\ snap = NoSnap
    BY <1>1, <1>8 DEF CreateSnapshot, SnapshotInv
  <2>2. snap' = Captured(vm) /\ ckpted' /\ spc' = "cky"
    BY <2>1, <1>8 DEF CreateSnapshot, Prompt
  <2>3. vm.pc = "ckp"
    BY <2>1, <1>2, <1>3 DEF Talk, GuestPC
  <2>4. /\ Captured(vm).pc = vm.pc /\ Captured(vm).file = vm.file
    BY <1>1, Known DEF Captured, GuestRecord
  <2>5. Captured(vm).chk = vm.chk
    BY <1>1, Known DEF Captured, GuestRecord
  <2>6. Captured(vm) # NoSnap
    BY <1>1, Known, GuestType, NoSnapAssumption
  <2>7. SnapshotInv'
    BY <2>2, <2>3, <2>4, <2>5, <2>6, <1>2, <1>5 DEF SnapshotInv, SnapshotInWait
  <2> QED BY <2>3, <2>7, <1>5, <1>6 DEF BackedUp
<1>9. CASE \/ ServeGET \/ ServeSET \/ ServeCKP \/ ServeEOF \/ ServeName \/ ServeBody \/ SendFile
           \/ SendFilesEnd \/ AnswerCKY
  <2>1. UNCHANGED <<snap, ckpted>>
    BY <1>9 DEF ServeGET, ServeSET, ServeCKP, ServeEOF, ServeName, ServeBody, SendFile,
       SendFilesEnd, AnswerCKY, flags
  <2>2. spc' \notin {"create", "cky"}
    BY <1>9 DEF ServeGET, ServeSET, ServeCKP, ServeEOF, ServeName, ServeBody, SendFile,
       SendFilesEnd, AnswerCKY, DoneWith, Continue, Finish
  <2>3. vm.pc \notin Sending => sfile' = sfile
    <3>1. CASE ServeName \/ ServeBody
      <4>1. spc \in {"name", "body"}
        BY <3>1 DEF ServeName, ServeBody, At
      <4>2. vm.pc \in Sending
        BY <4>1, <1>2 DEF Talk, GuestPC, Sending
      <4> QED BY <4>2
    <3>2. CASE ~(ServeName \/ ServeBody)
      BY <3>2, <1>9 DEF ServeGET, ServeSET, ServeCKP, ServeEOF, SendFile, SendFilesEnd, AnswerCKY
    <3> QED BY <3>1, <3>2
  <2>4. ASSUME vm.pc = "ckp", conn'[vm.sock].down = <<Hdr("CKY")>> PROVE Checked
    <3>1. \/ spc = "header" /\ old.up = <<Hdr("CKP")>>
          \/ spc \in {"delete", "create", "cky"}
      BY <2>4, <1>2 DEF Talk
    <3>2. CASE AnswerCKY
      BY <3>2 DEF AnswerCKY, Checked
    <3>3. CASE ~AnswerCKY
      <4>1. ServeCKP
        <5>1. spc = "header" /\ Head(old.up) = Hdr("CKP")
          <6>1. spc \notin {"delete", "create", "cky"}
            BY <3>3, <1>9 DEF ServeGET, ServeSET, ServeCKP, ServeEOF, ServeName, ServeBody, SendFile,
               SendFilesEnd, At
          <6> QED BY <6>1, <3>1, LastOne
        <5>2. Hdr("CKP") # Hdr("GET") /\ Hdr("CKP") # Hdr("SET") /\ Hdr("CKP") # Hdr("EOF")
          BY DEF Hdr
        <5> QED BY <5>1, <5>2, <3>3, <1>9 DEF ServeGET, ServeSET, ServeEOF, ServeName, ServeBody,
               SendFile, SendFilesEnd, At
      <4>2. old.up # <<>> /\ old.down = <<>>
        BY <4>1, <2>4, <1>2 DEF ServeCKP, At, Answering
      <4>3. Read \in ConnState /\ Read.down = <<>> /\ Read.cli = "open"
        BY <4>2, <1>2, TakeType DEF Read, ConnState
      <4>4. CASE ckptReq
        <5>1. conn'[vm.sock] = Read
          BY <4>1, <4>4, <1>1, <1>2, Known DEF ServeCKP, Continue
        <5>2. <<>> # <<Hdr("CKY")>>
          OBVIOUS
        <5> QED BY <5>1, <5>2, <4>3, <2>4
      <4>5. CASE ~ckptReq
        <5>. DEFINE r == Down(Read, <<Hdr("CKN")>>)
        <5>1. conn'[vm.sock] = SrvClose(r)
          BY <4>1, <4>5, <1>1, <1>2, Known DEF ServeCKP, Finish
        <5>2. <<Hdr("CKN")>> \in Seq(Msg)
          BY OneMsg
        <5>3. r \in ConnState /\ r.cli = "open" /\ r.down = Read.down \o <<Hdr("CKN")>>
          BY <5>2, <4>3, DownWords
        <5>4. r.down = <<Hdr("CKN")>>
          BY <5>2, <5>3, <4>3, ConcatEmptySeq
        <5> HIDE DEF r
        <5>5. SrvClose(r).down = r.down
          BY <5>3 DEF SrvClose, Settled, ConnState
        <5>6. <<Hdr("CKN")>> # <<Hdr("CKY")>>
          BY DEF Hdr
        <5> QED BY <5>1, <5>4, <5>5, <5>6, <2>4
      <4> QED BY <4>4, <4>5
    <3> QED BY <3>2, <3>3
  <2>5. Checked' => Checked
    BY <2>2, <2>4, <1>2 DEF Checked
  <2>6. SnapshotInv'
    BY <2>1, <2>2, <2>5, <1>1, <1>2 DEF SnapshotInv, SnapshotInWait
  <2>7. BackedUp'
    BY <2>1, <2>3, <1>1, <1>2, <1>6 DEF BackedUp
  <2> QED BY <2>6, <2>7
<1> QED BY <1>7, <1>8, <1>9 DEF ServeStep

\* The revert: the program resumes at its call of checkpoint(), with its backup
\* on the server.
LEMMA PromptReverts ==
  ASSUME Prompt, PromptInv, RevertSnapshot
  PROVE  Calm' /\ SnapshotInv' /\ BackedUp'
<1>. DEFINE old == conn[Served]
<1>1. BackupInv /\ Calm /\ SnapshotInv /\ BackedUp
  BY DEF PromptInv
<1>2. spc = "revert" /\ client # Stdin /\ Active
  BY <1>1, Known DEF BookInv, Place, Serving, RevertSnapshot, Active
<1>3. /\ Served \in Conn /\ old \in ConnState /\ old.srv = "open" /\ old.up = <<>>
      /\ \A c \in Conn : IsRES(c) => c = Served
  BY <1>1, <1>2, Acts DEF Calm, Waiting
<1>4. vm.pc = "run" /\ vm.chk /\ vm.sock = NoConn
  BY <1>1, <1>2, Known DEF Calm, Waiting, RevertComing
<1>5. ckpted /\ snap # NoSnap /\ snap.pc = "ckp" /\ ~snap.chk
  BY <1>1, <1>4 DEF SnapshotInv, SnapshotInWait, Checked
<1>6. snap \in Guest /\ snap.sock = Stale
  <2>1. snap \in Guest /\ snap.sock \notin Conn
    BY <1>1, <1>5, Known DEF BookInv, TypeOK, SnapSock
  <2> QED BY <2>1, <1>5 DEF Guest, GuestRecord
<1>7. vm' = snap /\ Finish(conn, old) /\ UNCHANGED <<saved, snap, sfile, flags>>
  BY <1>1, <1>4, <1>5, Known DEF RevertSnapshot, Prompt
<1>8. /\ Served' = NoConn /\ conn'[Served] = SrvClose(old)
      /\ \A c \in Conn : c # Served => conn'[c] = conn[c]
      /\ spc' \in {"scan", "select"}
  BY <1>3, <1>7, Known, <1>1 DEF Finish, Served, DoneWith
<1>9. SrvClose(old).srv # "open" /\ Tidy(SrvClose(old))
  <2>1. Tidy(old)
    BY <1>1, <1>3 DEF Calm, Undisturbed
  <2> QED BY <2>1, <1>3 DEF SrvClose, Settled, FreeConn, Tidy, ConnState
<1>10. Undisturbed'
  <2>1. \A c \in Others' : c \in Others /\ c # Served /\ conn'[c] = conn[c] /\ Served' # c
    BY <1>4, <1>8, <1>9, Known, <1>1 DEF Others
  <2> QED BY <2>1, <1>1, <1>8, <1>9 DEF Calm, Undisturbed, Harmless
<1>11. Unhurried'
  BY <1>5, <1>6, <1>7 DEF Unhurried
<1>12. Answers'
  BY <1>6, <1>7, Known, <1>1 DEF Answers
<1>13. Waiting'
  <2>1. ~RevertComing'
    BY <1>3, <1>8, <1>9 DEF RevertComing, IsRES
  <2> QED BY <2>1, <1>8 DEF Waiting
<1>14. SnapshotInv'
  BY <1>5, <1>7, <1>8 DEF SnapshotInv, SnapshotInWait, flags
<1>15. BackedUp'
  BY <1>1, <1>4, <1>5, <1>6, <1>7 DEF BackedUp, Sending
<1> QED BY <1>10, <1>11, <1>12, <1>13, <1>14, <1>15 DEF Calm

LEMMA PromptInit == Init => PromptInv
<1> SUFFICES ASSUME Init PROVE PromptInv
  OBVIOUS
<1>1. BackupInv /\ BringInv
  BY BackupInit, BringInit
<1>2. /\ vm = Fresh /\ vm.pc = "dead" /\ ~vm.chk /\ vm.sock = NoConn
      /\ spc = "select" /\ client = Stdin /\ ckpted = FALSE /\ saved = NoSnap
      /\ \A c \in Conn : conn[c] = FreeConn
  BY DEF Init, Fresh
<1>3. FreeConn.cli = "free" /\ FreeConn.srv = "free"
  BY DEF FreeConn
<1>4. Undisturbed
  BY <1>2, <1>3 DEF Undisturbed, Tidy, Harmless, Others
<1>5. Unhurried /\ Answers
  BY <1>2 DEF Unhurried, Answers
<1>6. Waiting
  BY <1>2, <1>3 DEF Waiting, RevertComing
<1>7. SnapshotInv /\ BackedUp
  BY <1>2 DEF SnapshotInv, SnapshotInWait, Checked, BackedUp
<1> QED BY <1>1, <1>4, <1>5, <1>6, <1>7 DEF PromptInv, Calm

LEMMA PromptStep == ASSUME Prompt, PromptInv, [Next]_vars PROVE PromptInv'
<1>1. BackupInv /\ BringInv /\ Calm /\ SnapshotInv /\ BackedUp
  BY DEF PromptInv
<1>2. BackupInv' /\ BringInv'
  BY <1>1, BackupStep, BringStep
<1>3. ~Harm
  BY <1>1, NotPrompt
<1>4. CASE UNCHANGED vars
  <2>1. /\ UNCHANGED <<vm, conn, snap, spc, client, fd, ckpted, sfile, saved>>
    BY <1>4 DEF vars, guest, host, flags
  <2>2. (\A c \in Conn : Pos(c)' = Pos(c)) /\ Served' = Served /\ Others' = Others
    BY <2>1 DEF Pos, Served, Others
  <2>3. Calm'
    BY <2>1, <2>2, <1>1 DEF Calm, Undisturbed, Harmless, Unhurried, Answers, Waiting, RevertComing
  <2>4. Checked' => Checked
    BY <2>1 DEF Checked
  <2>5. SnapshotInv'
    BY <2>1, <2>4, <1>1 DEF SnapshotInv, SnapshotInWait
  <2>6. BackedUp'
    BY <2>1, <1>1 DEF BackedUp
  <2> QED BY <2>3, <2>5, <2>6, <1>2 DEF PromptInv
<1>5. CASE \/ StartGET \/ StartRES \/ CallCheckpoint \/ CallRestore \/ Train \/ Launch \/ Type
  <2>1. Calm'
    BY <1>1, <1>5, CalmConnects, CalmQuiet
  <2> QED BY <2>1, <1>2, <1>5, KeptAsks DEF PromptInv
<1>6. CASE SendCKP \/ SendGET \/ SendName \/ SendBody \/ SendEOF \/ SendRES \/ RecvEOF
  <2>1. Calm'
    BY <1>1, <1>2, <1>6, CalmSends, CalmEnds
  <2> QED BY <2>1, <1>2, <1>6, KeptSends DEF PromptInv
<1>7. CASE RecvCKN \/ RecvCKY \/ RecvEND \/ CkpTimeout \/ PingDone
  <2>1. Calm'
    BY <1>1, <1>7, CalmLeaves, CalmQuiet
  <2> QED BY <2>1, <1>2, <1>7, KeptLeaves DEF PromptInv
<1>8. CASE RecvSET \/ RecvName \/ RecvBody
  <2>1. Calm'
    BY <1>1, <1>8, CalmTakes
  <2> QED BY <2>1, <1>2, <1>8, KeptTakes DEF PromptInv
<1>9. CASE Select \/ StdinTurn \/ CinLine \/ CinWord \/ Accept \/ Serve \/ ServeEND \/ ServeRES
  <2>1. Calm'
    BY <1>1, <1>9, CalmLoop, CalmFarewell
  <2> QED BY <2>1, <1>2, <1>9, KeptLoop DEF PromptInv
<1>10. CASE ServeStep
  <2>1. Calm'
    BY <1>1, <1>2, <1>10, CalmServes
  <2> QED BY <2>1, <1>2, <1>10, KeptServes DEF PromptInv
<1>11. CASE RevertSnapshot
  BY <1>2, <1>11, PromptReverts DEF PromptInv
<1> QED BY <1>3, <1>4, <1>5, <1>6, <1>7, <1>8, <1>9, <1>10, <1>11
        DEF Next, GuestStep, ServerStep, ServeStep, Harm

LEMMA PromptAlways == ASSUME Prompt PROVE Spec => []PromptInv
<1>1. PromptInv /\ [Next]_vars => PromptInv'
  BY PromptStep
<1> QED BY PromptInit, <1>1, PTL DEF Spec

\* Checkpointed, in the program (ProgIntel.cpp), means that the server is ready to
\* restore: set behind CKY or behind the timeout of a guest that a snapshot brought
\* back, it is never set by a guest whose checkpoint the server did not take.
THEOREM CheckpointedIsSo ==
  ASSUME ~Slow, Waits, ~VirshFails, MaxKills = 0, MaxCrashes = 0
  PROVE  Spec => []CheckedPoint
<1>1. PromptInv => CheckedPoint
  BY DEF PromptInv, SnapshotInv, Checked, CheckedPoint
<1> QED BY <1>1, PromptAlways, PTL DEF Prompt

\* handleCKP (CPServer.cpp) takes the snapshot of a guest that waits in doCKP with
\* checkpointed not yet set, so a revert resumes it there.
THEOREM SnapshotWaits ==
  ASSUME ~Slow, Waits, ~VirshFails, MaxKills = 0, MaxCrashes = 0
  PROVE  Spec => []SnapshotInWait
<1>1. PromptInv => SnapshotInWait
  BY DEF PromptInv, SnapshotInv
<1> QED BY <1>1, PromptAlways, PTL DEF Prompt

\* The guest comes out of doGET nowhere but behind EOF.
LEMMA OnlyEOF ==
  ASSUME Prompt, PromptInv, [Next]_vars, vm.pc = "get", vm'.pc = "run"
  PROVE  RecvEOF
<1>1. BackupInv /\ Calm
  BY DEF PromptInv
<1>2. ~Harm
  BY <1>1, NotPrompt
<1>3. vm' # vm
  OBVIOUS
<1>4. ~RevertSnapshot
  BY <1>1, NotComing DEF RevertSnapshot
<1>5. ~(RecvSET \/ RecvName \/ RecvBody)
  <2>1. RecvSET => vm'.pc = "name"
    BY <1>1, Known DEF RecvSET, Receive, GuestRecord
  <2>2. ~RecvName /\ ~RecvBody
    BY DEF RecvName, RecvBody
  <2> QED BY <2>1, <2>2
<1>6. vm' = vm \/ GuestStep \/ CallCheckpoint \/ CallRestore \/ Train \/ Launch
  <2>1. UNCHANGED vars => vm' = vm
    BY DEF vars, guest
  <2>2. Type => vm' = vm
    BY DEF Type, guest
  <2>3. ServerStep => vm' = vm
    BY <1>2, <1>4 DEF ServerStep, Select, StdinTurn, CinLine, CinWord, Accept, Serve, ServeGET,
       ServeSET, ServeCKP, ServeRES, ServeEOF, ServeEND, ServeName, ServeBody, SendFile,
       SendFilesEnd, DeleteSnapshot, CreateSnapshot, AnswerCKY, Harm, guest
  <2> QED BY <2>1, <2>2, <2>3, <1>2 DEF Next, Harm
<1> QED BY <1>2, <1>3, <1>5, <1>6 DEF Harm, GuestStep, StartGET, StartRES, SendCKP, SendGET, SendRES,
      SendName, SendBody, SendEOF, RecvCKN, RecvCKY, CkpTimeout, PingDone, RecvEND,
      CallCheckpoint, CallRestore, Train, Launch

\* doGET behind a revert ends with the files of the backup.
LEMMA EOFBrings ==
  ASSUME PromptInv, RecvEOF, saved # NoSnap
  PROVE  vm'.file = saved
<1>1. BackupInv /\ BringInv /\ BackedUp /\ vm.pc = "get"
  BY DEF PromptInv, RecvEOF
<1>2. \A f \in Present(sfile) : vm.file[f] = sfile[f]
  BY <1>1, AllBrought
<1>3. sfile = saved /\ Present(vm.file) \subseteq Present(saved)
  BY <1>1 DEF BackedUp, Sending, Fetches
<1>4. vm'.file = vm.file
  BY <1>1, Known DEF RecvEOF, GuestRecord
<1>5. sfile \in [Files -> Content] /\ vm.file \in [Files -> Content]
  BY <1>1, Known DEF BookInv, TypeOK, GuestRecord
<1>6. \A f \in Files : vm.file[f] = sfile[f]
  BY <1>2, <1>3 DEF Present
<1> QED BY <1>3, <1>4, <1>5, <1>6

\* restore() (ProgIntel.cpp) gives the program that comes out of the snapshot the
\* files it had when it asked for it, and no others: doGET ends with the backup
\* that doSET made, file by file.
THEOREM GetIsBackup ==
  ASSUME ~Slow, Waits, ~VirshFails, MaxKills = 0, MaxCrashes = 0
  PROVE  Spec => GetBringsBackup
<1>1. Prompt
  BY DEF Prompt
<1>2. ASSUME PromptInv, [Next]_vars, vm.pc = "get", vm'.pc = "run", saved # NoSnap
      PROVE  vm'.file = saved
  BY <1>1, <1>2, OnlyEOF, EOFBrings
<1>3. PromptInv /\ [Next]_vars
        => [vm.pc = "get" /\ vm'.pc = "run" /\ saved # NoSnap => vm'.file = saved]_vars
  BY <1>2
<1>4. Spec => []PromptInv
  BY <1>1, PromptAlways
<1> QED BY <1>3, <1>4, PTL DEF Spec, GetBringsBackup

-------------------------------------------------------------------------------
(* The calls as the program sees them *)

\* Before the first backup the server has no files, unless that is coming in.
Unsaved == saved = NoSnap /\ vm.pc \notin Sending => Present(sfile) = {}

\* The program inside its calls, but for what restore() does before the revert.
Within == Fetches \cup {"CKP"}

LEMMA Promised ==
  ASSUME PromptInv
  PROVE  /\ BackupInv /\ Calm /\ SnapshotInv /\ BackedUp
         /\ RevertComing => vm.pc = "run" /\ vm.chk /\ saved # NoSnap
         /\ saved \in [Files -> Content] \cup {NoSnap} /\ vm.file \in [Files -> Content]
         /\ vm.chk \in BOOLEAN /\ NoSnap \notin [Files -> Content]
         /\ vm.pc \in {"run", "dead", "CKP"} /\ saved # NoSnap => vm.chk
         /\ vm.pc = "dead" => ~vm.chk
         /\ vm.pc \in {"get", "name", "body", "set", "setBody", "end", "RES"} => vm.chk
<1>1. BackupInv /\ Calm /\ SnapshotInv /\ BackedUp
  BY DEF PromptInv
<1>2. RevertComing => vm.pc = "run" /\ vm.chk
  BY <1>1 DEF Calm, Waiting
<1>3. /\ saved \in [Files -> Content] \cup {NoSnap} /\ sfile \in [Files -> Content]
      /\ NoSnap \notin [Files -> Content]
  BY <1>1, Known, NoSnapAssumption DEF TypeOK
<1>4. vm.file \in [Files -> Content] /\ vm.chk \in BOOLEAN
  BY <1>1, Known DEF GuestRecord
<1>5. RevertComing => Restoring
  BY DEF RevertComing, Restoring, IsRES
<1>6. RevertComing => saved # NoSnap
  BY <1>1, <1>3, <1>5, Known DEF RestoreInv
<1>7. /\ vm.pc \in {"run", "dead", "CKP"} /\ saved # NoSnap => vm.chk
      /\ vm.pc = "dead" => ~vm.chk
      /\ vm.pc \in {"get", "name", "body", "set", "setBody", "end", "RES"} => vm.chk
  BY <1>1 DEF BackedUp, Calm, Unhurried
<1> QED BY <1>1, <1>2, <1>3, <1>4, <1>6, <1>7

\* The program sees nothing of a step that leaves it where it was.
LEMMA SeesNothing ==
  ASSUME UNCHANGED <<vm.pc, vm.chk, vm.file, saved>>, RevertComing' <=> RevertComing
  PROVE  UNCHANGED <<Where, Marked, Having>>
<1>1. Restores' <=> Restores
  BY DEF Restores
<1>2. Where' = Where
  BY <1>1 DEF Where
<1> QED BY <1>2 DEF Marked, Having

\* It does not see either what happens within checkpoint(), and within restore()
\* behind the revert.
LEMMA SeesCall ==
  ASSUME PromptInv, PromptInv', vm.pc \in Within, vm'.pc \in Within, saved' = saved,
         vm'.file = vm.file \/ saved # NoSnap
  PROVE  UNCHANGED <<Where, Marked, Having>>
<1>1. ~RevertComing /\ ~RevertComing'
  BY Promised DEF Within, Fetches, PromptInv, Calm, Waiting
<1>2. ~Restores /\ ~Restores'
  BY <1>1 DEF Restores, Within, Fetches
<1>3. Where' = Where /\ Where # "run"
  BY <1>2 DEF Where, Within, Fetches
<1>4. Having' = Having
  BY <1>1 DEF Having, Within, Fetches
<1> QED BY <1>3, <1>4 DEF Marked

\* Nor does it see its files being sent.
LEMMA SeesSending ==
  ASSUME PromptInv, PromptInv', vm.pc \in Sending, vm'.pc \in Sending, UNCHANGED <<vm.file, saved>>
  PROVE  UNCHANGED <<Where, Marked, Having>>
<1>1. ~RevertComing /\ ~RevertComing'
  BY Promised DEF Sending, PromptInv, Calm, Waiting
<1>2. Restores /\ Restores'
  BY DEF Restores, Sending
<1>3. Where' = Where /\ Where = "restore"
  BY <1>2 DEF Where, Sending
<1>4. Having' = Having
  BY <1>1 DEF Having, Sending
<1> QED BY <1>3, <1>4 DEF Marked

\* What the program sees of where it is.
LEMMA Running ==
  ASSUME PromptInv, vm.pc = "run", ~RevertComing
  PROVE  Where = "run" /\ Marked = vm.chk /\ Having = vm.file
<1>1. ~Restores
  BY DEF Restores
<1>2. Where = "run" /\ vm.chk \in BOOLEAN
  BY <1>1, Promised DEF Where
<1> QED BY <1>2 DEF Marked, Having

\* What the guest writes goes out.
LEMMA Sends ==
  ASSUME Prompt, PromptInv, NEW ms, NEW g, Send(ms, g), vm.pc \notin {"ckp", "ping"}, vm.sock # NoConn
  PROVE  vm' = g /\ saved' = saved /\ sfile' = sfile
<1>1. BackupInv /\ Calm
  BY DEF PromptInv
<1>2. vm.sock \in Conn /\ conn[vm.sock].srv # "rst"
  BY <1>1, Known DEF Calm, Unhurried, Undisturbed, Tidy
<1> QED BY <1>1, <1>2, Known DEF Send, Sock, host

\* What the guest does within its calls.
LEMMA GuestWithin ==
  ASSUME Prompt, PromptInv, Unsaved, PromptInv',
         \/ StartGET \/ SendCKP \/ SendGET \/ RecvCKY \/ CkpTimeout \/ PingDone
         \/ RecvSET \/ RecvName \/ RecvBody
  PROVE  /\ vm.pc \in Within /\ vm'.pc \in Within /\ UNCHANGED <<saved, sfile>>
         /\ vm'.file = vm.file \/ saved # NoSnap
<1>1. BackupInv /\ Calm
  BY DEF PromptInv
<1>2. CASE StartGET
  <2>1. vm.pc = "toGET" /\ Connect("GET", {})
    BY <1>2 DEF StartGET
  <2>2. PICK c \in Conn : vm' = [vm EXCEPT !.pc = "GET", !.sock = c, !.watch = TRUE, !.todo = {}]
    BY <2>1 DEF Connect
  <2>. DEFINE g == [vm EXCEPT !.pc = "GET", !.sock = c, !.watch = TRUE, !.todo = {}]
  <2>3. g.pc = "GET"
    BY <1>1, Known DEF GuestRecord
  <2>4. g.file = vm.file
    BY <1>1, Known DEF GuestRecord
  <2>5. vm' = g /\ UNCHANGED <<saved, sfile>>
    BY <2>1, <2>2 DEF Connect, host
  <2> HIDE DEF g
  <2> QED BY <2>1, <2>3, <2>4, <2>5 DEF Within, Fetches
<1>3. CASE SendCKP \/ SendGET
  <2>1. PICK pc \in {"ckp", "get"} :
          vm.pc \in {"CKP", "GET"} /\ \E ms : Send(ms, [vm EXCEPT !.pc = pc])
    BY <1>3 DEF SendCKP, SendGET
  <2>. DEFINE g == [vm EXCEPT !.pc = pc]
  <2>2. g.pc = pc /\ g.file = vm.file
    BY <1>1, Known DEF GuestRecord
  <2>3. vm.sock # NoConn
    BY <2>1, <1>1, Known
  <2>4. \E ms : Send(ms, g)
    BY <2>1
  <2> HIDE DEF g
  <2>5. vm' = g /\ UNCHANGED <<saved, sfile>>
    BY <2>1, <2>3, <2>4, Sends
  <2> QED BY <2>1, <2>2, <2>5 DEF Within, Fetches
<1>4. CASE RecvCKY \/ CkpTimeout \/ PingDone \/ RecvSET
  <2>1. UNCHANGED <<saved, sfile>> /\ vm.pc \in Within
    BY <1>4 DEF RecvCKY, CkpTimeout, PingDone, RecvSET, Receive, host, Within, Fetches
  <2>2. vm'.pc \in {"toGET", "ping", "name"}
    BY <1>1, <1>4, Known DEF RecvCKY, CkpTimeout, PingDone, RecvSET, Receive, GuestRecord
  <2>3. vm'.file = vm.file
    BY <1>1, <1>4, Known DEF RecvCKY, CkpTimeout, PingDone, RecvSET, Receive, GuestRecord
  <2> QED BY <2>1, <2>2, <2>3 DEF Within, Fetches
<1>5. CASE RecvName \/ RecvBody
  <2>. DEFINE old == conn[vm.sock]
  <2>1. /\ UNCHANGED <<saved, sfile>> /\ vm.pc \in {"name", "body"}
        /\ vm.sock \in Conn /\ old.down # <<>>
    BY <1>5 DEF RecvName, RecvBody, Receive, Sock, host
  <2>2. vm'.pc \in {"body", "get"}
    BY <1>1, <1>5, Known DEF RecvName, RecvBody, Receive, GuestRecord
  <2>3. Store(Sender(sfile, todo), Turned(old), vm.pc, vm.file, vm.cur)
    BY <2>1, OnItsWay DEF Fetching
  <2>4. old \in ConnState
    BY <2>1, <1>1, Mine
  <2>5. Turned(old).up = old.down /\ Sender(sfile, todo).file = sfile
    BY <2>4, TurnedType, SenderIs
  <2>6. old.down[1] = Head(old.down) /\ 1 \in DOMAIN old.down
    <3>. DEFINE q == old.down
    <3>1. q \in Seq(Msg) /\ q # <<>>
      BY <2>1, <2>4 DEF ConnState
    <3> HIDE DEF q
    <3>2. q[1] = Head(q) /\ 1 \in DOMAIN q
      BY <3>1, TailPlaces
    <3> QED BY <3>2 DEF q
  <2>7. Present(sfile) # {}
    <3>1. CASE RecvName
      <4>1. PICK f \in Files : Head(old.down) = Name(f)
        BY <3>1 DEF RecvName, Receive, Sock
      <4>2. old.down[1].kind = "name" /\ old.down[1].file = f
        BY <4>1, <2>6 DEF Name
      <4> QED BY <4>2, <2>3, <2>5, <2>6 DEF Store
    <3>2. CASE RecvBody
      <4>1. vm.pc = "body"
        BY <3>2 DEF RecvBody
      <4>2. vm.cur \in Present(sfile)
        BY <4>1, <2>3, <2>5 DEF Store
      <4> QED BY <4>2
    <3> QED BY <3>1, <3>2, <1>5
  <2>8. saved # NoSnap
    BY <2>1, <2>7 DEF Unsaved, Sending
  <2> QED BY <2>1, <2>2, <2>8 DEF Within, Fetches
<1> QED BY <1>2, <1>3, <1>4, <1>5

\* What the guest does while it sends its files.
LEMMA GuestSends ==
  ASSUME Prompt, PromptInv, SendName \/ SendBody \/ SendEOF
  PROVE  vm.pc \in Sending /\ vm'.pc \in Sending /\ UNCHANGED <<vm.file, saved, sfile>>
<1>1. BackupInv /\ Calm
  BY DEF PromptInv
<1>2. vm.pc \in {"set", "setBody"}
  BY DEF SendName, SendBody, SendEOF
<1>3. vm.sock # NoConn
  BY <1>1, <1>2, Known
<1>4. CASE SendName
  <2>1. PICK f \in vm.todo :
          \E ms : Send(ms, [vm EXCEPT !.pc = "setBody", !.cur = f, !.todo = @ \ {f}])
    BY <1>4 DEF SendName
  <2>. DEFINE g == [vm EXCEPT !.pc = "setBody", !.cur = f, !.todo = @ \ {f}]
  <2>2. g.pc = "setBody"
    BY <1>1, Known DEF GuestRecord
  <2>3. g.file = vm.file
    BY <1>1, Known DEF GuestRecord
  <2>4. \E ms : Send(ms, g)
    BY <2>1
  <2> HIDE DEF g
  <2> QED BY <2>2, <2>3, <2>4, <1>2, <1>3, Sends DEF Sending
<1>5. CASE SendBody \/ SendEOF
  <2>1. \/ \E ms : Send(ms, [vm EXCEPT !.pc = "set", !.cur = NoFile])
        \/ \E ms : Send(ms, [vm EXCEPT !.pc = "end"])
    BY <1>5 DEF SendBody, SendEOF
  <2>2. \/ vm' = [vm EXCEPT !.pc = "set", !.cur = NoFile]
        \/ vm' = [vm EXCEPT !.pc = "end"]
    BY <2>1, <1>2, <1>3, Sends
  <2>3. UNCHANGED <<saved, sfile>>
    BY <2>1, <1>2, <1>3, Sends
  <2>4. vm'.pc \in Sending
    BY <2>2, <1>1, Known DEF GuestRecord, Sending
  <2>5. vm'.file = vm.file
    BY <2>2, <1>1, Known DEF GuestRecord
  <2> QED BY <2>3, <2>4, <2>5, <1>2 DEF Sending
<1> QED BY <1>4, <1>5

\* The rest of what the guest does leaves the backup and the server's files alone.
LEMMA GuestElse ==
  ASSUME \/ StartRES \/ CallCheckpoint \/ CallRestore \/ SendRES \/ RecvCKN \/ RecvEOF
         \/ Train \/ Launch \/ Type
  PROVE  UNCHANGED <<saved, sfile>> /\ (Type \/ vm.pc \notin Sending)
  BY DEF StartRES, CallCheckpoint, CallRestore, SendRES, RecvCKN, RecvEOF, Train, Launch, Type,
         Connect, Send, Receive, guest, host, Sending

\* The server's steps but the revert change nothing for a program that runs, and its
\* files are written to only while the guest sends.
LEMMA ServerAlone ==
  ASSUME Prompt, PromptInv, PromptInv', ServerStep, ~RevertSnapshot
  PROVE  /\ vm' = vm /\ saved' = saved
         /\ sfile' = sfile \/ vm.pc \in Sending
         /\ RevertComing' <=> RevertComing
<1>1. BackupInv /\ Calm /\ SnapshotInv /\ ~Harm
  BY NotPrompt DEF PromptInv
<1>2. CASE Select \/ StdinTurn \/ CinLine \/ CinWord \/ Accept \/ Serve
  <2>1. /\ UNCHANGED <<vm, saved, sfile, conn>> /\ spc # "revert" /\ spc' # "revert"
    BY <1>2 DEF Select, StdinTurn, CinLine, CinWord, Accept, Serve, Turn, DoneWith, guest, host
  <2> QED BY <2>1 DEF RevertComing
<1>3. CASE ServeStep
  <2>1. /\ vm' = vm /\ Talk(vm.pc, conn[Served], spc)
        /\ vm.pc \in GuestPC \ {"run", "toGET", "toRES", "dead"}
    BY <1>1, <1>3, ServesGuest
  <2>2. saved' = saved
    BY <1>3 DEF ServeStep, ServeGET, ServeSET, ServeCKP, ServeEOF, ServeName,
       ServeBody, SendFile, SendFilesEnd, DeleteSnapshot, CreateSnapshot, AnswerCKY, guest
  <2>3. ~RevertComing /\ ~RevertComing'
    BY <2>1 DEF PromptInv, Calm, Waiting
  <2>4. sfile' = sfile \/ spc \in {"name", "body"}
    BY <1>3 DEF ServeStep, ServeGET, ServeSET, ServeCKP, ServeEOF, ServeName,
       ServeBody, SendFile, SendFilesEnd, DeleteSnapshot, CreateSnapshot, AnswerCKY, At
  <2>5. spc \in {"name", "body"} => vm.pc \in Sending
    BY <2>1 DEF Talk, GuestPC, Sending
  <2>6. RevertComing' <=> RevertComing
    BY <2>3
  <2> QED BY <2>1, <2>2, <2>4, <2>5, <2>6
<1>4. CASE ServeEND \/ ServeRES
  <2>. DEFINE old == conn[Served]
  <2>1. /\ client # Stdin /\ spc = "header" /\ old.up # <<>>
        /\ Head(old.up) \in {Hdr("END"), Hdr("RES")}
        /\ UNCHANGED <<vm, saved, sfile>>
    BY <1>1, <1>4, Known DEF BookInv, Place, Serving, ServeEND, ServeRES, At, guest, host
  <2>2. Active
    BY <2>1 DEF Active
  <2>3. Served \in Conn /\ old \in ConnState /\ old.srv = "open" /\ \A c \in Conn : IsRES(c) => c = Served
    BY <2>2, <1>1, Acts
  <2>4. vm.sock # Served
    <3>1. SUFFICES ASSUME vm.sock = Served PROVE FALSE
      OBVIOUS
    <3>. DEFINE k == Head(old.up).kind
    <3>2. /\ Talk(vm.pc, old, "header") /\ old \in ConnState
          /\ vm.pc \in GuestPC \ {"run", "toGET", "toRES", "dead"}
          /\ k = Head(old.up).kind
      BY <3>1, <2>1, <1>1, ServedTalk, Known
    <3>3. k \in {"END", "RES"}
      BY <2>1 DEF Hdr
    <3> HIDE DEF k
    <3>4. k \notin {"END", "RES"}
      BY <3>2, <2>1, TalkHeads
    <3> QED BY <3>3, <3>4
  <2>5. old.up \in {<<Hdr("END")>>, <<Hdr("RES")>>}
    BY <2>1, <2>4, <1>1, ServedMine
  <2>6. Hdr("END") # Hdr("RES")
    BY DEF Hdr
  <2>7. CASE ServeEND
    <3>1. Head(old.up) = Hdr("END") /\ Finish(conn, Read)
      BY <2>7 DEF ServeEND, At
    <3>2. old.up # <<Hdr("RES")>>
      BY <3>1, <2>6, LastOne
    <3>3. ~RevertComing
      BY <3>2, <2>1, <2>3 DEF RevertComing, IsRES
    <3>4. conn'[Served] = SrvClose(Read) /\ \A c \in Conn : c # Served => conn'[c] = conn[c]
      BY <3>1, <2>3, <1>1, Known DEF Finish
    <3>5. Read \in ConnState /\ SrvClose(Read).srv # "open"
      BY <2>1, <2>3, TakeType DEF Read, SrvClose, Settled, FreeConn, ConnState
    <3>6. spc' # "revert"
      BY <3>1 DEF Finish, DoneWith
    <3>7. ~RevertComing'
      BY <3>3, <3>4, <3>5, <3>6 DEF RevertComing
    <3> QED BY <2>1, <3>3, <3>7
  <2>8. CASE ServeRES
    <3>1. Head(old.up) = Hdr("RES")
      BY <2>8 DEF ServeRES, At
    <3>2. old.up = <<Hdr("RES")>>
      BY <3>1, <2>5, <2>6, LastOne
    <3>3. RevertComing
      BY <3>2, <2>3 DEF RevertComing
    <3>4. ckpted
      BY <3>3, <1>1 DEF Calm, Waiting, SnapshotInv, Checked
    <3>5. spc' = "revert"
      BY <3>4, <2>8 DEF ServeRES, Continue
    <3> QED BY <2>1, <3>3, <3>5 DEF RevertComing
  <2> QED BY <2>7, <2>8, <1>4
<1> QED BY <1>1, <1>2, <1>3, <1>4 DEF ServerStep, ServeStep, Harm

LEMMA UnsavedStep ==
  ASSUME Prompt, PromptInv, PromptInv', Unsaved, [Next]_vars
  PROVE  Unsaved'
<1>1. BackupInv /\ Calm /\ ~Harm
  BY NotPrompt DEF PromptInv
<1>2. ASSUME UNCHANGED <<saved, sfile>>, vm.pc \notin Sending PROVE Unsaved'
  BY <1>2 DEF Unsaved, Present
<1>3. CASE UNCHANGED vars
  BY <1>3 DEF vars, guest, host, Unsaved
<1>4. CASE \/ StartGET \/ SendCKP \/ SendGET \/ RecvCKY \/ CkpTimeout \/ PingDone
           \/ RecvSET \/ RecvName \/ RecvBody
  <2>1. vm.pc \in Within /\ UNCHANGED <<saved, sfile>>
    BY <1>4, GuestWithin
  <2> QED BY <2>1, <1>2 DEF Within, Fetches, Sending
<1>5. CASE SendName \/ SendBody \/ SendEOF
  BY <1>5, GuestSends DEF Unsaved
<1>6. CASE RecvEND
  <2>1. saved' = vm.file
    BY <1>6 DEF RecvEND
  <2> QED BY <2>1, Promised DEF Unsaved
<1>7. CASE \/ StartRES \/ CallCheckpoint \/ CallRestore \/ SendRES \/ RecvCKN \/ RecvEOF
           \/ Train \/ Launch \/ Type
  <2>1. CASE Type
    BY <2>1, GuestElse DEF Type, guest, Unsaved
  <2>2. CASE ~Type
    BY <2>2, <1>2, <1>7, GuestElse
  <2> QED BY <2>1, <2>2
<1>8. CASE RevertSnapshot
  <2>1. UNCHANGED <<saved, sfile>> /\ spc = "revert"
    BY <1>8 DEF RevertSnapshot
  <2>2. vm.pc = "run"
    BY <2>1, <1>1 DEF Calm, Waiting, RevertComing
  <2> QED BY <2>1, <2>2, <1>2 DEF Sending
<1>9. CASE ServerStep /\ ~RevertSnapshot
  <2>1. vm' = vm /\ saved' = saved /\ (sfile' = sfile \/ vm.pc \in Sending)
    BY <1>9, ServerAlone
  <2> QED BY <2>1 DEF Unsaved
<1> QED BY <1>1, <1>3, <1>4, <1>5, <1>6, <1>7, <1>8, <1>9 DEF Next, GuestStep, Harm

\* What a guest that closes has said is still to be read.
LEMMA ClosesBehind ==
  ASSUME NEW r \in ConnState, r.srv = "open"
  PROVE  CliClose(r).up = r.up /\ CliClose(r).srv = "open"
  BY DEF CliClose, Settled, ConnState

\* RES is on its way when doRES returns.
LEMMA RESGoesOut ==
  ASSUME Prompt, PromptInv, SendRES
  PROVE  /\ vm.pc = "RES" /\ RevertComing' /\ vm'.pc = "run" /\ UNCHANGED <<vm.file, saved>>
<1>. DEFINE old == conn[vm.sock]
            ms == <<Hdr("RES")>>
            r == Up(old, ms)
            g == [vm EXCEPT !.pc = "run", !.sock = NoConn]
<1>1. BackupInv /\ Calm /\ vm.pc = "RES" /\ Send(ms, g)
  BY DEF PromptInv, SendRES
<1>2. vm.sock \in Conn /\ Pos(vm.sock) # "gone"
  BY <1>1, Known DEF Calm, Unhurried, Answers, Answering
<1>3. old \in ConnState /\ old.srv = "open" /\ old.up = <<>>
  BY <1>1, <1>2, Mine DEF Talk
<1>4. g.pc = "run" /\ g.sock = NoConn
  BY <1>1, Known DEF GuestRecord
<1>5. g.file = vm.file
  BY <1>1, Known DEF GuestRecord
<1>6. ms \in Seq(Msg) /\ r = Up(old, ms)
  BY OneMsg
<1>7. r.up = ms
  BY <1>3, <1>6, UpWords
<1>. HIDE DEF r, g, ms
<1>8. /\ vm' = g /\ saved' = saved /\ r \in ConnState /\ r.srv = "open"
      /\ conn' = [conn EXCEPT ![vm.sock] = CliClose(r)]
  BY <1>1, <1>2, <1>3, <1>4, <1>6, Writes
<1>9. conn'[vm.sock] = CliClose(r)
  BY <1>1, <1>2, <1>8, Known
<1>10. CliClose(r).up = ms /\ CliClose(r).srv = "open"
  BY <1>7, <1>8, ClosesBehind
<1>11. RevertComing'
  BY <1>2, <1>9, <1>10 DEF RevertComing, ms
<1> QED BY <1>1, <1>4, <1>5, <1>8, <1>11

\* Behind the farewell of doGET nothing is asked of the server.
LEMMA EOFGoesOn ==
  ASSUME Prompt, PromptInv, RecvEOF
  PROVE  /\ vm.pc = "get" /\ vm.chk /\ ~RevertComing'
         /\ vm'.pc = "run" /\ vm'.chk /\ vm'.file = vm.file /\ saved' = saved
<1>. DEFINE old == conn[vm.sock]
            ms == <<Hdr("END")>>
            r == Up(Taken, ms)
<1>1. /\ BackupInv /\ Calm /\ vm.pc = "get" /\ vm.sock \in Conn /\ old.down # <<>>
      /\ conn' = [conn EXCEPT ![vm.sock] = CliClose(r)] /\ UNCHANGED <<saved, spc>>
  BY DEF PromptInv, RecvEOF, Sock, host
<1>2. vm.chk
  BY <1>1 DEF Calm, Unhurried
<1>3. /\ old \in ConnState /\ old.srv = "open" /\ old.up = <<>>
  <2>1. Pos(vm.sock) # "gone"
    BY <1>1 DEF Calm, Answers, Answering
  <2> QED BY <2>1, <1>1, Mine DEF Talk
<1>4. Taken \in ConnState /\ Taken.srv = "open" /\ Taken.up = <<>>
  BY <1>1, <1>3, TakeType DEF Taken, Sock, ConnState
<1>5. ms \in Seq(Msg)
  BY OneMsg
<1>6. r.up = ms /\ r \in ConnState /\ r.srv = "open"
  <2>1. r.up = ms
    BY <1>4, <1>5, UpWords
  <2>2. r \in ConnState
    BY <1>4, <1>5, ConnType
  <2>3. r.srv = "open"
    BY <1>4, <1>5, EndsApart
  <2> QED BY <2>1, <2>2, <2>3
<1> HIDE DEF r
<1>7. conn'[vm.sock].up = ms /\ \A c \in Conn : c # vm.sock => conn'[c] = conn[c]
  <2>1. conn'[vm.sock] = CliClose(r)
    BY <1>1, Known
  <2> QED BY <2>1, <1>1, <1>6, Known, ClosesBehind
<1>8. ms # <<Hdr("RES")>>
  BY DEF Hdr
<1>9. ~RevertComing
  BY <1>1 DEF Calm, Waiting
<1>10. ~RevertComing'
  BY <1>1, <1>7, <1>8, <1>9 DEF RevertComing
<1>11. vm'.pc = "run" /\ vm'.chk = vm.chk
  BY <1>1, Known DEF RecvEOF, GuestRecord
<1>12. vm'.file = vm.file
  BY <1>1, Known DEF RecvEOF, GuestRecord
<1> QED BY <1>1, <1>2, <1>10, <1>11, <1>12

\* The steps that the program takes itself.
LEMMA OwnSteps ==
  ASSUME Prompt, PromptInv, PromptInv', CallCheckpoint \/ CallRestore \/ Train \/ Launch
  PROVE  [Calls!Next]_<<Where, Marked, Having>>
<1>1. BackupInv /\ Calm /\ saved' = saved
  BY DEF PromptInv, CallCheckpoint, CallRestore, Train, Launch, Connect
<1>2. CASE CallCheckpoint
  <2>1. vm.pc = "run" /\ ~vm.chk /\ saved = NoSnap /\ ~RevertComing /\ Connect("CKP", {})
    BY <1>2, Promised DEF CallCheckpoint
  <2>2. PICK c \in Conn : vm' = [vm EXCEPT !.pc = "CKP", !.sock = c, !.watch = TRUE, !.todo = {}]
    BY <2>1 DEF Connect
  <2>3. vm'.pc = "CKP"
    BY <2>2, <1>1, Known DEF GuestRecord
  <2>4. vm'.file = vm.file
    BY <2>2, <1>1, Known DEF GuestRecord
  <2>5. ~Restores'
    BY <2>3 DEF Restores, PromptInv, Calm, Waiting
  <2>6. Where' = "checkpoint" /\ Having' = vm.file
    BY <1>1, <2>1, <2>3, <2>4, <2>5 DEF Where, Having
  <2>7. Where = "run" /\ ~Marked /\ Having = vm.file
    BY <2>1, Running
  <2>8. Marked \in BOOLEAN /\ Marked' \in BOOLEAN /\ ~Marked'
    BY <2>6, <2>7 DEF Marked
  <2> QED BY <2>6, <2>7, <2>8 DEF Calls!Next, Calls!CallCheckpoint
<1>3. CASE CallRestore
  <2>1. vm.pc = "run" /\ vm.chk /\ ~RevertComing /\ Connect("set", Present(vm.file))
    BY <1>3 DEF CallRestore, Prompt
  <2>. DEFINE fs == Present(vm.file)
  <2>2. PICK c \in Conn : vm' = [vm EXCEPT !.pc = "set", !.sock = c, !.watch = TRUE, !.todo = fs]
    BY <2>1 DEF Connect
  <2> HIDE DEF fs
  <2>3. vm'.pc = "set"
    BY <2>2, <1>1, Known DEF GuestRecord
  <2>4. vm'.file = vm.file
    BY <2>2, <1>1, Known DEF GuestRecord
  <2>5. Restores' /\ ~RevertComing'
    BY <2>3 DEF Restores, PromptInv, Calm, Waiting
  <2>6. Where' = "restore" /\ Having' = vm.file
    BY <2>3, <2>4, <2>5 DEF Where, Having
  <2>7. Where = "run" /\ Marked /\ Having = vm.file
    BY <2>1, Running
  <2>8. Marked' = Marked
    BY <2>6, <2>7 DEF Marked
  <2> QED BY <2>6, <2>7, <2>8 DEF Calls!Next, Calls!CallRestore
<1>4. CASE Train
  <2>. DEFINE trained(changed) ==
         [vm EXCEPT !.file = [f \in Files |-> IF f \in changed THEN made' ELSE @[f]]]
  <2>1. vm.pc = "run" /\ UNCHANGED <<conn, spc>> /\ \E changed : vm' = trained(changed)
    BY <1>4 DEF Train, host
  <2>2. vm'.pc = "run"
    BY <2>1, <1>1, Known DEF GuestRecord
  <2>3. vm'.chk = vm.chk
    BY <2>1, <1>1, Known DEF GuestRecord
  <2>4. RevertComing' <=> RevertComing
    BY <2>1 DEF RevertComing
  <2>5. CASE RevertComing
    <3>1. saved # NoSnap /\ Restores /\ Restores' /\ RevertComing'
      BY <2>4, <2>5, Promised DEF Restores
    <3>2. Where = "restore" /\ Where' = "restore"
      BY <2>1, <2>2, <3>1 DEF Where
    <3>3. Having' = Having
      BY <1>1, <2>5, <3>1 DEF Having
    <3> QED BY <3>2, <3>3 DEF Marked
  <2>6. CASE ~RevertComing
    <3>1. ~RevertComing'
      BY <2>4, <2>6
    <3>2. Where = "run" /\ Marked = vm.chk /\ Having = vm.file
      BY <2>1, <2>6, Running
    <3>3. Where' = "run" /\ Marked' = vm.chk /\ Having' = vm'.file
      <4>1. ~Restores'
        BY <2>2, <3>1 DEF Restores
      <4>2. Where' = "run" /\ Having' = vm'.file
        BY <2>2, <3>1, <4>1 DEF Where, Having
      <4>3. vm.chk \in BOOLEAN
        BY Promised
      <4> QED BY <2>3, <4>2, <4>3 DEF Marked
    <3>4. vm'.file \in [Files -> Content]
      <4>1. vm' \in Guest
        BY DEF PromptInv, BackupInv, FrameInv, BookInv, TypeOK
      <4> QED BY <4>1 DEF Guest, GuestRecord
    <3> QED BY <3>2, <3>3, <3>4 DEF Calls!Next, Calls!Learn
  <2> QED BY <2>5, <2>6
<1>5. CASE Launch
  <2>1. vm.pc = "dead" /\ ~vm.chk /\ saved = NoSnap /\ vm' = Started(vm)
    BY <1>5, Promised DEF Launch
  <2>2. vm'.pc = "run" /\ ~vm'.chk
    BY <2>1, <1>1, Known DEF Started, Halted, GuestRecord
  <2>3. vm'.file = vm.file
    BY <2>1, <1>1, Known DEF Started, Halted, GuestRecord
  <2>4. ~RevertComing' /\ ~Restores'
    BY <2>2 DEF Restores, PromptInv, Calm, Waiting
  <2>5. Where = "off" /\ Where' = "run"
    BY <2>1, <2>2, <2>4 DEF Where
  <2>6. Having' = Having
    BY <1>1, <2>1, <2>3 DEF Having
  <2>7. Marked' = Marked
    BY <2>2, <2>5 DEF Marked
  <2> QED BY <2>5, <2>6, <2>7 DEF Calls!Next, Calls!Start
<1> QED BY <1>2, <1>3, <1>4, <1>5

\* The steps with which the library goes from one part of a call to the next, or
\* returns.
LEMMA CallSteps ==
  ASSUME Prompt, PromptInv, PromptInv', StartRES \/ RecvEND \/ SendRES \/ RecvCKN \/ RecvEOF
  PROVE  [Calls!Next]_<<Where, Marked, Having>>
<1>1. BackupInv /\ Calm
  BY DEF PromptInv
<1>2. CASE StartRES
  <2>1. vm.pc = "toRES" /\ saved' = saved /\ Connect("RES", {})
    BY <1>2 DEF StartRES, Connect
  <2>2. PICK c \in Conn : vm' = [vm EXCEPT !.pc = "RES", !.sock = c, !.watch = TRUE, !.todo = {}]
    BY <2>1 DEF Connect
  <2>3. vm'.pc = "RES"
    BY <2>2, <1>1, Known DEF GuestRecord
  <2>4. vm'.file = vm.file
    BY <2>2, <1>1, Known DEF GuestRecord
  <2>5. Restores /\ Restores'
    BY <2>1, <2>3 DEF Restores
  <2>6. Where = "restore" /\ Where' = "restore"
    BY <2>1, <2>3, <2>5 DEF Where
  <2>7. Having' = Having
    BY <2>1, <2>3, <2>4 DEF Having
  <2> QED BY <2>6, <2>7 DEF Marked
<1>3. CASE RecvEND
  <2>1. vm.pc = "end" /\ saved' = vm.file /\ saved' # NoSnap
    BY <1>3, Promised DEF RecvEND
  <2>2. vm'.pc = "toRES"
    BY <1>1, <1>3, Known DEF RecvEND, Receive, GuestRecord
  <2>3. Restores /\ Restores' /\ ~RevertComing
    BY <2>1, <2>2, Promised DEF Restores
  <2>4. Where = "restore" /\ Where' = "restore"
    BY <2>1, <2>2, <2>3 DEF Where
  <2>5. Having' = Having
    BY <2>1, <2>2, <2>3 DEF Having
  <2> QED BY <2>4, <2>5 DEF Marked
<1>4. CASE SendRES
  <2>1. vm.pc = "RES" /\ RevertComing' /\ vm'.pc = "run" /\ UNCHANGED <<vm.file, saved>>
    BY <1>4, RESGoesOut
  <2>2. Restores /\ Restores'
    BY <2>1 DEF Restores
  <2>3. Where = "restore" /\ Where' = "restore"
    BY <2>1, <2>2 DEF Where
  <2>4. Having' = Having
    BY <2>1 DEF Having
  <2> QED BY <2>3, <2>4 DEF Marked
<1>5. CASE RecvCKN
  <2>1. vm.pc = "ckp" /\ vm.sock # Stale /\ saved' = saved
    BY <1>1, <1>5, Known DEF RecvCKN, Receive
  <2>2. ~vm.chk /\ saved = NoSnap
    BY <2>1, <1>1, Known, Promised DEF OthersInv, BackedUp
  <2>3. vm'.pc = "run" /\ ~vm'.chk
    BY <2>2, <1>1, <1>5, Known DEF RecvCKN, Receive, GuestRecord
  <2>4. vm'.file = vm.file
    BY <1>1, <1>5, Known DEF RecvCKN, Receive, GuestRecord
  <2>5. ~Restores /\ ~Restores'
    BY <2>1, <2>3, Promised DEF Restores, PromptInv, Calm, Waiting
  <2>6. Where = "checkpoint" /\ Where' = "run"
    BY <2>1, <2>2, <2>3, <2>5 DEF Where
  <2>7. Having' = Having
    BY <2>1, <2>2, <2>4 DEF Having
  <2>8. Marked' \in BOOLEAN
    BY DEF Marked
  <2> QED BY <2>6, <2>7, <2>8 DEF Calls!Next, Calls!CheckpointReturns
<1>6. CASE RecvEOF
  <2>1. /\ vm.pc = "get" /\ vm.chk /\ ~RevertComing'
        /\ vm'.pc = "run" /\ vm'.chk /\ vm'.file = vm.file /\ saved' = saved
    BY <1>6, EOFGoesOn
  <2>2. ~Restores /\ ~Restores'
    BY <2>1, Promised DEF Restores
  <2>3. Where' = "run" /\ Marked' /\ Having' = vm'.file /\ Marked' \in BOOLEAN
    BY <2>1, <2>2 DEF Where, Marked, Having
  <2>4. CASE saved = NoSnap
    <3>1. Where = "checkpoint" /\ Having = vm.file
      BY <2>1, <2>2, <2>4 DEF Where, Having
    <3> QED BY <2>1, <2>3, <3>1 DEF Calls!Next, Calls!CheckpointReturns
  <2>5. CASE saved # NoSnap
    <3>1. Where = "restore" /\ Having = saved
      BY <2>1, <2>2, <2>5 DEF Where, Having
    <3>2. Marked' = Marked
      BY <2>3, <3>1 DEF Marked
    <3>3. vm'.file = saved
      BY <1>6, <2>5, EOFBrings
    <3> QED BY <2>3, <3>1, <3>2, <3>3 DEF Calls!Next, Calls!Resume
  <2> QED BY <2>4, <2>5
<1> QED BY <1>2, <1>3, <1>4, <1>5, <1>6

\* The revert: the program is still in its call of restore().
LEMMA RevertUnseen ==
  ASSUME Prompt, PromptInv, PromptInv', RevertSnapshot
  PROVE  UNCHANGED <<Where, Marked, Having>>
<1>1. spc = "revert" /\ saved' = saved
  BY DEF RevertSnapshot
<1>2. RevertComing /\ vm.pc = "run" /\ vm.chk /\ saved # NoSnap /\ SnapshotInv
  <2>1. RevertComing
    BY <1>1 DEF RevertComing
  <2> QED BY <2>1, Promised
<1>3. vm' = snap /\ snap.pc = "ckp"
  BY <1>2 DEF SnapshotInv, SnapshotInWait, Checked, RevertSnapshot, Prompt
<1>4. ~RevertComing' /\ ~Restores'
  BY <1>3 DEF Restores, PromptInv, Calm, Waiting
<1>5. Where = "restore" /\ Having = saved
  BY <1>2 DEF Where, Having, Restores
<1>6. Where' = "restore" /\ Having' = saved
  BY <1>1, <1>2, <1>3, <1>4 DEF Where, Having
<1> QED BY <1>5, <1>6 DEF Marked

LEMMA PromiseStep ==
  ASSUME Prompt, PromptInv, Unsaved, PromptInv', [Next]_vars
  PROVE  [Calls!Next]_<<Where, Marked, Having>>
<1>1. BackupInv /\ Calm /\ ~Harm
  BY NotPrompt DEF PromptInv
<1>2. CASE UNCHANGED vars \/ Type
  <2>1. UNCHANGED <<vm, saved, conn, spc>>
    BY <1>2 DEF vars, guest, host, Type
  <2>2. RevertComing' <=> RevertComing
    BY <2>1 DEF RevertComing
  <2> QED BY <2>1, <2>2, SeesNothing
<1>3. CASE \/ StartGET \/ SendCKP \/ SendGET \/ RecvCKY \/ CkpTimeout \/ PingDone
           \/ RecvSET \/ RecvName \/ RecvBody
  BY <1>3, GuestWithin, SeesCall
<1>4. CASE SendName \/ SendBody \/ SendEOF
  BY <1>4, GuestSends, SeesSending
<1>5. CASE CallCheckpoint \/ CallRestore \/ Train \/ Launch
  BY <1>5, OwnSteps
<1>6. CASE StartRES \/ RecvEND \/ SendRES \/ RecvCKN \/ RecvEOF
  BY <1>6, CallSteps
<1>7. CASE RevertSnapshot
  BY <1>7, RevertUnseen
<1>8. CASE ServerStep /\ ~RevertSnapshot
  <2>1. vm' = vm /\ saved' = saved /\ (RevertComing' <=> RevertComing)
    BY <1>8, ServerAlone
  <2> QED BY <2>1, SeesNothing
<1> QED BY <1>1, <1>2, <1>3, <1>4, <1>5, <1>6, <1>7, <1>8 DEF Next, GuestStep, Harm

LEMMA PromiseInit == Init => Unsaved /\ Calls!Init
<1> SUFFICES ASSUME Init PROVE Unsaved /\ Calls!Init
  OBVIOUS
<1>1. /\ vm = Fresh /\ spc = "select" /\ saved = NoSnap
      /\ sfile = [f \in Files |-> Absent] /\ \A c \in Conn : conn[c] = FreeConn
  BY DEF Init
<1>2. Fresh.pc = "dead" /\ Fresh.file = [f \in Files |-> Absent]
  BY DEF Fresh
<1>3. Unsaved
  BY <1>1 DEF Unsaved, Present
<1>4. Where = "off" /\ Having = [f \in Files |-> Absent]
  BY <1>1, <1>2 DEF Where, Having
<1>5. Marked = FALSE
  BY <1>4 DEF Marked
<1> QED BY <1>3, <1>4, <1>5 DEF Calls!Init

\* checkpoint() and restore() (ProgIntel.cpp) do for the program what their names
\* say: it resumes at its checkpoint, marked as such, with the model files it had
\* when it called restore(), although the call is three conversations with the
\* server and a revert of the whole machine in their midst.
THEOREM PromiseKept ==
  ASSUME ~Slow, Waits, ~VirshFails, MaxKills = 0, MaxCrashes = 0
  PROVE  Spec => KeepsPromise
<1>1. Prompt
  BY DEF Prompt
<1>2. Spec => []PromptInv
  BY <1>1, PromptAlways
<1>3. PromptInv /\ PromptInv' /\ Unsaved /\ [Next]_vars => Unsaved'
  BY <1>1, UnsavedStep
<1>4. Spec => []Unsaved
  BY <1>2, <1>3, PromiseInit, PTL DEF Spec
<1>5. PromptInv /\ PromptInv' /\ Unsaved /\ [Next]_vars => [Calls!Next]_(Calls!pvars)
  <2>1. PromptInv /\ PromptInv' /\ Unsaved /\ [Next]_vars => [Calls!Next]_<<Where, Marked, Having>>
    BY <1>1, PromiseStep
  <2> QED BY <2>1 DEF Calls!pvars
<1> QED BY <1>2, <1>4, <1>5, PromiseInit, PTL DEF Spec, KeepsPromise, Calls!Spec
================================================================================
