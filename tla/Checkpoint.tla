------------------------------ MODULE Checkpoint ------------------------------
(***************************************************************************)
(* The checkpoint/restore subsystem: a training program in a virtual       *)
(* machine (ProgIntel.cpp, CheckPoint/CPClient.cpp), the checkpoint server *)
(* on the host (CheckPoint/CPServer.cpp), the TCP connections between them *)
(* and the hypervisor that the server drives through virsh.                *)
(*                                                                         *)
(* The whole guest is the record vm, because a snapshot captures it and a  *)
(* revert replaces it, in the middle of whatever it was doing.  Messages   *)
(* are whole: that cpRead and cpWrite move them exactly is module CPIO.    *)
(* What is not left to it is the server's waiting in cpRead between two of *)
(* them, which its socket's timeout of 1 s ends badly (ReadTimeout).       *)
(* The content of a file is the version of the model it belongs to.        *)
(***************************************************************************)
EXTENDS Integers, Sequences, FiniteSets

CONSTANTS
  Files,          \* names of the model files
  Conn,           \* identities of TCP connections (reused once both ends closed)
  NoConn, NoFile, \* no connection, no file
  NoSnap,         \* no snapshot (and, in saved, no backup)
  Stale,          \* the socket of a restored guest: its connection is history
  QueueMax,       \* connections the listener queues (CP_LISTEN_MAX + 1 on Linux)
  Lines,          \* lines the user may type, as sequences of words
  Slow,           \* whether either side may take longer than the other's 1 s
  Waits,          \* whether the program makes no call until its restore is done
  VirshFails,     \* whether a virsh command may fail
  MaxVer,         \* bound: versions of the model the training produces
  MaxTyped,       \* bound: lines typed
  MaxKills,       \* bound: times the training process is killed
  MaxCrashes      \* bound: times the server is killed

ASSUME ConstAssumption ==
  /\ NoConn \notin Conn /\ Stale \notin Conn /\ NoConn # Stale
  /\ NoFile \notin Files
  /\ IsFiniteSet(Conn)
  /\ QueueMax \in Nat \ {0}
  /\ \A l \in Lines : l \in Seq(STRING)
  /\ {Slow, Waits, VirshFails} \subseteq BOOLEAN
  /\ {MaxVer, MaxTyped, MaxKills, MaxCrashes} \subseteq Nat

VARIABLES
  vm,        \* the guest: program, client library and its file directory
  snap,      \* the snapshot "snap" of the domain, or NoSnap
  conn,      \* the connections
  pending,   \* connections not yet served, in the order they were made
  fd,        \* the server's descriptor table: which connection each one is
  spc,       \* where the server is
  ready,     \* readSockSet, what is left of it in this round
  client,    \* clientFD of serveClient
  cur,       \* the file recvFile is writing
  todo,      \* the files sendFile has not sent yet
  sfile,     \* the server's file directory
  ckptReq, ckpted,
  tty,       \* lines the terminal holds for the server
  cin,       \* words the server's cin has read but not returned
  typed, kills, crashes, made,  \* counters behind the bounds
  saved      \* history: the files of the last backup the guest saw confirmed

guest  == <<vm, saved>>
host   == <<spc, ready, client, cur, todo, sfile>>
flags  == <<ckptReq, ckpted>>
user   == <<tty, cin, typed>>
count  == <<kills, crashes, made>>
vars   == <<guest, snap, conn, pending, fd, host, flags, user, count>>

-------------------------------------------------------------------------------
(* Data *)

Torn    == -1                         \* truncated and not yet written
Absent  == 0
Content == Torn .. MaxVer

HeaderKind == {"GET", "SET", "CKP", "RES", "EOF", "END", "CKN", "CKY"}
Hdr(h)   == [kind |-> h, file |-> NoFile, ver |-> Absent]
Name(f)  == [kind |-> "name", file |-> f, ver |-> Absent]
Body(v)  == [kind |-> "body", file |-> NoFile, ver |-> v]
Msg == [kind : HeaderKind \cup {"name", "body"}, file : Files \cup {NoFile},
        ver : Content]

\* One connection: what is in flight each way, and each end's state: open;
\* shut (closed in order); lost (the guest that had it was reverted away); rst
\* (the other end is going to get ECONNRESET).
FreeConn == [up |-> <<>>, down |-> <<>>, cli |-> "free", srv |-> "free"]
NewConn  == [up |-> <<>>, down |-> <<>>, cli |-> "open", srv |-> "open"]

Settled(r) == IF r.cli # "open" /\ r.srv # "open" THEN FreeConn ELSE r

\* A byte sent to a socket that nobody has any more is answered by a reset.
CliGone(r) == r.cli \in {"shut", "lost", "rst"}
Down(r, ms) == IF CliGone(r) THEN [r EXCEPT !.cli = "rst"]
                             ELSE [r EXCEPT !.down = @ \o ms]
Up(r, ms)   == IF r.srv = "open" THEN [r EXCEPT !.up = @ \o ms]
                                 ELSE [r EXCEPT !.srv = "rst"]

\* close(2): in order, unless there is something left unread.
CliClose(r) == Settled([r EXCEPT !.cli = IF r.down = <<>> THEN "shut" ELSE "rst"])
SrvClose(r) == Settled([r EXCEPT !.srv = IF r.up = <<>> THEN "shut" ELSE "rst"])

\* A guest that is reverted away says nothing; the kernel resets what the server
\* leaves behind unaccepted.
CliLost(r)  == Settled([r EXCEPT !.cli = "lost"])
SrvReset(r) == Settled([r EXCEPT !.srv = "rst"])

\* The server's descriptors: 0 is stdin, 1 stands for serverFD, which is
\* smaller than every accepted one.
Stdin  == 0
Listen == 1
Slot   == 2 .. (1 + Cardinality(Conn))
Served  == IF client = Stdin THEN NoConn ELSE fd[client]
Accepted(c) == \E s \in Slot : fd[s] = c
Backlog == {i \in DOMAIN pending : ~Accepted(pending[i])}    \* still queued

GuestPC == {"run", "CKP", "ckp", "ping", "toGET", "GET", "get", "name", "body",
            "set", "setBody", "end", "toRES", "RES", "dead"}
ServerPC == {"select", "scan", "cin", "header", "name", "body", "send",
             "astray", "delete", "create", "cky", "revert", "down"}

GuestRecord ==
  [pc : GuestPC, chk : BOOLEAN, sock : Conn \cup {NoConn, Stale},
   watch : BOOLEAN, cur : Files \cup {NoFile}, todo : SUBSET Files,
   file : [Files -> Content]]

\* clientFD is open exactly inside start(), a file exactly while one is sent or
\* received.
Guest == {g \in GuestRecord :
  /\ g.sock = NoConn <=> g.pc \in {"run", "toGET", "toRES", "dead"}
  /\ g.cur = NoFile <=> g.pc \notin {"body", "setBody"}}

ASSUME NoSnapAssumption == NoSnap \notin Guest /\ NoSnap \notin [Files -> Content]

\* A guest whose training process is not running; the process as it starts.
Halted(g)  == [g EXCEPT !.pc = "dead", !.chk = FALSE, !.sock = NoConn,
                        !.watch = FALSE, !.cur = NoFile, !.todo = {}]
Started(g) == [Halted(g) EXCEPT !.pc = "run"]

Fresh == [pc |-> "dead", chk |-> FALSE, sock |-> NoConn, watch |-> FALSE,
          cur |-> NoFile, todo |-> {}, file |-> [f \in Files |-> Absent]]

\* The snapshot may be the one the set-up instructions have the user create.
\* The server keeps its directory from one start to the next.
Init ==
  /\ vm = Fresh /\ snap \in {NoSnap, Fresh}
  /\ conn = [c \in Conn |-> FreeConn] /\ pending = <<>>
  /\ fd = [s \in Slot |-> NoConn]
  /\ spc = "select" /\ ready = {} /\ client = Stdin
  /\ cur = NoFile /\ todo = {}
  /\ sfile = [f \in Files |-> Absent]
  /\ ckptReq = FALSE /\ ckpted = FALSE
  /\ tty = <<>> /\ cin = <<>>
  /\ typed = 0 /\ kills = 0 /\ crashes = 0 /\ made = 0
  /\ saved = NoSnap

-------------------------------------------------------------------------------
(* The guest: PIContext::checkpoint and restore, and CPClient under them *)

Sock == conn[vm.sock]                  \* used only where vm.sock is in Conn
Quiet == vm.sock = Stale \/ (vm.sock \in Conn /\ Sock.down = <<>> /\ Sock.srv = "open")

\* restore() has been called and the server has yet to act on it.
RevertComing ==
  \/ spc = "revert"
  \/ \E c \in Conn : conn[c].srv = "open" /\ conn[c].up = <<Hdr("RES")>>

\* socket() and connect(): the listener's queue has room, the next step is pc.
Connect(pc, files) ==
  /\ spc # "down" /\ Cardinality(Backlog) < QueueMax
  /\ \E c \in Conn :
       /\ conn[c] = FreeConn
       /\ conn' = [conn EXCEPT ![c] = NewConn]
       /\ pending' = Append(pending, c)
       /\ vm' = [vm EXCEPT !.pc = pc, !.sock = c, !.watch = TRUE, !.todo = files]
  /\ UNCHANGED <<saved, snap, fd, host, flags, user, count>>

\* A server that is not there refuses the connection and assert(0) ends the
\* program.
Refused ==
  /\ vm.pc \in {"toGET", "toRES"} /\ spc = "down"
  /\ vm' = Halted(vm)
  /\ UNCHANGED <<saved, snap, conn, pending, fd, host, flags, user, count>>

Present(dir) == {f \in Files : dir[f] # Absent}

CallCheckpoint == vm.pc = "run" /\ ~vm.chk /\ Connect("CKP", {})
CallRestore    == vm.pc = "run" /\ vm.chk /\ ~(Waits /\ RevertComing)
                  /\ Connect("set", Present(vm.file))
\* The same when checkpoint() or restore() is called.
CallRefused ==
  /\ vm.pc = "run" /\ spc = "down"
  /\ vm' = Halted(vm)
  /\ UNCHANGED <<saved, snap, conn, pending, fd, host, flags, user, count>>

StartGET       == vm.pc = "toGET" /\ Connect("GET", {})
StartRES       == vm.pc = "toRES" /\ Connect("RES", {})

\* The guest writes messages ms to its socket and goes on as guest g: the whole
\* program is over when the server has reset the connection, or when the socket
\* is one a snapshot preserved.
Send(ms, g) ==
  /\ IF vm.sock = Stale \/ Sock.srv = "rst"
     THEN /\ vm' = Halted(vm)
          /\ conn' = IF vm.sock = Stale THEN conn
                     ELSE [conn EXCEPT ![vm.sock] = CliClose(@)]
     ELSE /\ vm' = g
          /\ conn' = [conn EXCEPT ![vm.sock] =
                        IF g.sock = NoConn THEN CliClose(Up(@, ms)) ELSE Up(@, ms)]
  /\ UNCHANGED <<saved, snap, pending, fd, host, flags, user, count>>

SendCKP == vm.pc = "CKP" /\ Send(<<Hdr("CKP")>>, [vm EXCEPT !.pc = "ckp"])
SendGET == vm.pc = "GET" /\ Send(<<Hdr("GET")>>, [vm EXCEPT !.pc = "get"])
SendRES ==                              \* doRES does not wait for anything
  /\ vm.pc = "RES"
  /\ Send(<<Hdr("RES")>>, [vm EXCEPT !.pc = "run", !.sock = NoConn])

\* Mutant: the header SET is left out.
SendNameHeadless ==
  /\ vm.pc = "set"
  /\ \E f \in vm.todo :
       Send(<<Name(f)>>, [vm EXCEPT !.pc = "setBody", !.cur = f, !.todo = @ \ {f}])

\* sendFile: one file after another, in the order of readdir, then EOF.
SendName ==
  /\ vm.pc = "set"
  /\ \E f \in vm.todo :
       Send(<<Hdr("SET"), Name(f)>>,
            [vm EXCEPT !.pc = "setBody", !.cur = f, !.todo = @ \ {f}])
SendBody ==
  /\ vm.pc = "setBody"
  /\ Send(<<Body(vm.file[vm.cur])>>, [vm EXCEPT !.pc = "set", !.cur = NoFile])
SendEOF ==
  /\ vm.pc = "set" /\ vm.todo = {}
  /\ Send(<<Hdr("EOF")>>, [vm EXCEPT !.pc = "end"])

\* The guest reads the next message m and goes on as guest g.
Taken == [Sock EXCEPT !.down = Tail(@)]
Receive(m, g) ==
  /\ vm.sock \in Conn /\ Sock.down # <<>> /\ m = Head(Sock.down)
  /\ vm' = g
  /\ conn' = [conn EXCEPT ![vm.sock] =
                IF g.sock = NoConn THEN CliClose(Taken) ELSE Taken]
  /\ UNCHANGED <<snap, pending, fd, host, flags, user, count>>

\* Mutant: the client does not tell CKN from CKY.
RecvCKNAsYes ==
  /\ vm.pc = "ckp" /\ vm.watch
  /\ Receive(Hdr("CKN"), [vm EXCEPT !.pc = "toGET", !.chk = TRUE, !.sock = NoConn])
  /\ UNCHANGED saved

RecvCKN ==
  /\ vm.pc = "ckp" /\ vm.watch
  /\ Receive(Hdr("CKN"), [vm EXCEPT !.pc = "run", !.sock = NoConn])
  /\ UNCHANGED saved
RecvCKY ==
  /\ vm.pc = "ckp" /\ vm.watch
  /\ Receive(Hdr("CKY"), [vm EXCEPT !.pc = "toGET", !.chk = TRUE, !.sock = NoConn])
  /\ UNCHANGED saved

\* doCKP's select times out after 1 s.  A restored guest gets here because its
\* connection is history; so does one whose server is slow.
CkpTimeout ==
  /\ vm.pc = "ckp" /\ Quiet /\ (Slow \/ vm.sock = Stale)
  /\ vm' = [vm EXCEPT !.pc = "ping"]
  /\ UNCHANGED <<saved, snap, conn, pending, fd, host, flags, user, count>>

\* Mutant: start() returns without closing its socket.
PingDoneOpen ==
  /\ vm.pc = "ping"
  /\ vm' = [vm EXCEPT !.pc = "toGET", !.chk = TRUE]
  /\ UNCHANGED <<saved, snap, conn, pending, fd, host, flags, user, count>>

\* Mutant: a guest that comes out of the snapshot does not fetch its files.
PingDoneEmptyHanded ==
  /\ vm.pc = "ping"
  /\ vm' = [vm EXCEPT !.pc = "run", !.chk = TRUE, !.sock = NoConn]
  /\ conn' = IF vm.sock = Stale THEN conn
             ELSE [conn EXCEPT ![vm.sock] = CliClose(@)]
  /\ UNCHANGED <<saved, snap, pending, fd, host, flags, user, count>>

\* system("ping ...") returns, start() closes the socket, checkpoint() goes on
\* as it does after CKY.
PingDone ==
  /\ vm.pc = "ping"
  /\ vm' = [vm EXCEPT !.pc = "toGET", !.chk = TRUE, !.sock = NoConn]
  /\ conn' = IF vm.sock = Stale THEN conn
             ELSE [conn EXCEPT ![vm.sock] = CliClose(@)]
  /\ UNCHANGED <<saved, snap, pending, fd, host, flags, user, count>>

\* doGET's and doSET's select times out, which empties readSockSet; the loop
\* goes round with the set as select left it.
WaitTimeout ==
  /\ vm.pc \in {"get", "end"} /\ vm.watch
  /\ Quiet /\ (Slow \/ vm.sock = Stale)
  /\ vm' = [vm EXCEPT !.watch = FALSE]
  /\ UNCHANGED <<saved, snap, conn, pending, fd, host, flags, user, count>>

RecvSET ==
  /\ vm.pc = "get" /\ vm.watch
  /\ Receive(Hdr("SET"), [vm EXCEPT !.pc = "name"])
  /\ UNCHANGED saved
RecvName ==                             \* open(..., O_TRUNC)
  /\ vm.pc = "name"
  /\ \E f \in Files :
       Receive(Name(f), [vm EXCEPT !.pc = "body", !.cur = f, !.file[f] = Torn])
  /\ UNCHANGED saved
RecvBody ==
  /\ vm.pc = "body"
  /\ \E v \in Content :
       Receive(Body(v), [vm EXCEPT !.pc = "get", !.cur = NoFile, !.file[vm.cur] = v])
  /\ UNCHANGED saved

\* Mutant: the client closes without answering END.
RecvEOFSilent ==
  /\ vm.pc = "get" /\ vm.watch
  /\ vm.sock \in Conn /\ Sock.down # <<>> /\ Head(Sock.down) = Hdr("EOF")
  /\ vm' = [vm EXCEPT !.pc = "run", !.sock = NoConn]
  /\ conn' = [conn EXCEPT ![vm.sock] = CliClose(Taken)]
  /\ UNCHANGED <<saved, snap, pending, fd, host, flags, user, count>>

\* EOF is answered by END and the socket closed.
RecvEOF ==
  /\ vm.pc = "get" /\ vm.watch
  /\ vm.sock \in Conn /\ Sock.down # <<>> /\ Head(Sock.down) = Hdr("EOF")
  /\ vm' = [vm EXCEPT !.pc = "run", !.sock = NoConn]
  /\ conn' = [conn EXCEPT ![vm.sock] = CliClose(Up(Taken, <<Hdr("END")>>))]
  /\ UNCHANGED <<saved, snap, pending, fd, host, flags, user, count>>

RecvEND ==
  /\ vm.pc = "end" /\ vm.watch
  /\ Receive(Hdr("END"), [vm EXCEPT !.pc = "toRES", !.sock = NoConn])
  /\ saved' = vm.file

\* read() fails on a connection the server reset: assert(0).
ReadReset ==
  /\ vm.pc \in {"ckp", "get", "end", "name", "body"}
  /\ vm.pc \in {"ckp", "get", "end"} => vm.watch
  /\ vm.sock \in Conn /\ Sock.down = <<>> /\ Sock.srv = "rst"
  /\ vm' = Halted(vm)
  /\ conn' = [conn EXCEPT ![vm.sock] = CliClose(@)]
  /\ UNCHANGED <<saved, snap, pending, fd, host, flags, user, count>>

\* The program itself: it trains and saves some of its model's files (it takes
\* none away), it is started, it ends.
Train ==
  /\ vm.pc = "run" /\ made < MaxVer
  /\ made' = made + 1
  /\ \E changed \in SUBSET Files \ {{}} :
       vm' = [vm EXCEPT !.file = [f \in Files |-> IF f \in changed THEN made' ELSE @[f]]]
  /\ UNCHANGED <<saved, snap, conn, pending, fd, host, flags, user, kills, crashes>>

Launch ==
  /\ vm.pc = "dead"
  /\ vm' = Started(vm)
  /\ UNCHANGED <<saved, snap, conn, pending, fd, host, flags, user, count>>

Kill ==
  /\ vm.pc # "dead" /\ kills < MaxKills
  /\ kills' = kills + 1
  /\ vm' = Halted(vm)
  /\ conn' = IF vm.sock \in Conn THEN [conn EXCEPT ![vm.sock] = CliClose(@)] ELSE conn
  /\ UNCHANGED <<saved, snap, pending, fd, host, flags, user, crashes, made>>

-------------------------------------------------------------------------------
(* The server: start(), the select loop *)

Type ==
  /\ typed < MaxTyped
  /\ \E l \in Lines : tty' = Append(tty, l)
  /\ typed' = typed + 1
  /\ UNCHANGED <<guest, snap, conn, pending, fd, host, flags, cin, count>>

Readable ==
  {i \in {Stdin} : tty # <<>>} \cup {i \in {Listen} : Backlog # {}} \cup
  {s \in Slot : fd[s] # NoConn /\ (conn[fd[s]].up # <<>> \/ conn[fd[s]].cli \in {"shut", "rst"})}

Select ==
  /\ spc = "select" /\ Readable # {}
  /\ ready' = Readable /\ spc' = "scan"
  /\ UNCHANGED <<guest, snap, conn, pending, fd, client, cur, todo, sfile, flags, user, count>>

\* Mutant: the loop breaks after the first descriptor.
DoneWithAll(i) == ready' = {} /\ spc' = "select"

\* The for loop over the descriptors, smallest first, is done with descriptor i.
DoneWith(i) ==
  /\ ready' = ready \ {i}
  /\ spc' = IF ready' = {} THEN "select" ELSE "scan"

Turn(i) == spc = "scan" /\ i \in ready /\ \A j \in ready : i <= j

StdinTurn ==
  /\ Turn(Stdin)
  /\ spc' = "cin"
  /\ UNCHANGED <<guest, snap, conn, pending, fd, ready, client, cur, todo, sfile,
                 flags, user, count>>

\* cin >> userIn: it takes the next word cin holds and, when there is none,
\* reads another line, waiting for it if need be.
CinLine ==
  /\ spc = "cin" /\ cin = <<>> /\ tty # <<>>
  /\ cin' = Head(tty) /\ tty' = Tail(tty)
  /\ UNCHANGED <<guest, snap, conn, pending, fd, host, flags, typed, count>>

\* Mutant: the word is read and forgotten.
CinWordDeaf ==
  /\ spc = "cin" /\ cin # <<>>
  /\ cin' = Tail(cin)
  /\ DoneWith(Stdin)
  /\ UNCHANGED <<guest, snap, conn, pending, fd, client, cur, todo, sfile, flags,
                 tty, typed, count>>

CinWord ==
  /\ spc = "cin" /\ cin # <<>>
  /\ cin' = Tail(cin)
  /\ ckptReq' = (ckptReq \/ Head(cin) = "checkpoint")
  /\ DoneWith(Stdin)
  /\ UNCHANGED <<guest, snap, conn, pending, fd, client, cur, todo, sfile, ckpted,
                 tty, typed, count>>

\* accept(): the oldest connection gets the lowest descriptor that is free.
Accept ==
  /\ Turn(Listen)
  /\ \E i \in Backlog, s \in Slot :
       /\ \A j \in Backlog : i <= j
       /\ fd[s] = NoConn /\ \A t \in Slot : fd[t] = NoConn => s <= t
       /\ fd' = [fd EXCEPT ![s] = pending[i]]
  /\ DoneWith(Listen)
  /\ UNCHANGED <<guest, snap, conn, pending, client, cur, todo, sfile, flags, user, count>>

Serve ==
  /\ \E s \in Slot :
       /\ Turn(s)
       /\ client' = s
       /\ \E i \in DOMAIN pending :
            /\ pending[i] = fd[s]
            /\ pending' = SubSeq(pending, 1, i - 1) \o SubSeq(pending, i + 1, Len(pending))
  /\ spc' = "header"
  /\ UNCHANGED <<guest, snap, conn, fd, ready, cur, todo, sfile, flags, user, count>>

-------------------------------------------------------------------------------
(* serveClient *)

\* The server reads the next message m of the client it serves.
At(pc, m) ==
  /\ spc = pc /\ conn[Served].up # <<>> /\ m = Head(conn[Served].up)
Read == [conn[Served] EXCEPT !.up = Tail(@)]

\* Mutant: FD_CLR and close are forgotten.
FinishLeaking(conns, r) ==
  /\ conn' = [conns EXCEPT ![Served] = SrvClose(r)]
  /\ client' = Stdin
  /\ DoneWith(client)
  /\ UNCHANGED fd

\* serveClient returns: shutdown, close, FD_CLR; r is what has become of the
\* connection by then.
Finish(conns, r) ==
  /\ conn' = [conns EXCEPT ![Served] = SrvClose(r)]
  /\ fd' = [fd EXCEPT ![client] = NoConn]
  /\ client' = Stdin
  /\ DoneWith(client)

Continue(pc, r) ==
  /\ conn' = [conn EXCEPT ![Served] = r]
  /\ spc' = pc
  /\ UNCHANGED <<fd, client, ready>>

\* Mutant: sendFile skips every entry.
ServeGETNothing ==
  /\ At("header", Hdr("GET"))
  /\ Continue("send", Read) /\ todo' = {}
  /\ UNCHANGED <<guest, snap, pending, cur, sfile, flags, user, count>>

ServeGET ==
  /\ At("header", Hdr("GET"))
  /\ Continue("send", Read) /\ todo' = Present(sfile)
  /\ UNCHANGED <<guest, snap, pending, cur, sfile, flags, user, count>>

ServeSET ==
  /\ At("header", Hdr("SET"))
  /\ Continue("name", Read)
  /\ UNCHANGED <<guest, snap, pending, cur, todo, sfile, flags, user, count>>

\* Mutants: ckpted is set too early; the client is answered too early.
ServeCKPEarly ==
  /\ At("header", Hdr("CKP"))
  /\ IF ckptReq THEN Continue("delete", Read) /\ ckpted' = TRUE
                ELSE Finish(conn, Down(Read, <<Hdr("CKN")>>)) /\ UNCHANGED ckpted
  /\ UNCHANGED <<guest, snap, pending, cur, todo, sfile, ckptReq, user, count>>

ServeCKPAnswerFirst ==
  /\ At("header", Hdr("CKP"))
  /\ IF ckptReq THEN Continue("delete", Down(Read, <<Hdr("CKY")>>))
                ELSE Finish(conn, Down(Read, <<Hdr("CKN")>>))
  /\ UNCHANGED <<guest, snap, pending, cur, todo, sfile, flags, user, count>>

ServeCKP ==
  /\ At("header", Hdr("CKP"))
  /\ IF ckptReq THEN Continue("delete", Read)
                ELSE Finish(conn, Down(Read, <<Hdr("CKN")>>))
  /\ UNCHANGED <<guest, snap, pending, cur, todo, sfile, flags, user, count>>

ServeRES ==
  /\ At("header", Hdr("RES"))
  /\ IF ckpted THEN Continue("revert", Read) ELSE Finish(conn, Read)
  /\ UNCHANGED <<guest, snap, pending, cur, todo, sfile, flags, user, count>>

\* Mutant: END is not sent.
ServeEOFSilent ==
  /\ At("header", Hdr("EOF"))
  /\ Finish(conn, Read)
  /\ UNCHANGED <<guest, snap, pending, cur, todo, sfile, flags, user, count>>

ServeEOF ==
  /\ At("header", Hdr("EOF"))
  /\ Finish(conn, Down(Read, <<Hdr("END")>>))
  /\ UNCHANGED <<guest, snap, pending, cur, todo, sfile, flags, user, count>>

ServeEND ==
  /\ At("header", Hdr("END"))
  /\ Finish(conn, Read)
  /\ UNCHANGED <<guest, snap, pending, cur, todo, sfile, flags, user, count>>

\* recvFile: the name opens and truncates the file, the body fills it.
ServeName ==
  /\ \E f \in Files :
       /\ At("name", Name(f))
       /\ cur' = f /\ sfile' = [sfile EXCEPT ![f] = Torn]
  /\ Continue("body", Read)
  /\ UNCHANGED <<guest, snap, pending, todo, flags, user, count>>

\* Mutant: the body is read and not written.
ServeBodyDropped ==
  /\ \E v \in Content : At("body", Body(v))
  /\ cur' = NoFile
  /\ Continue("header", Read)
  /\ UNCHANGED <<guest, snap, pending, todo, sfile, flags, user, count>>

ServeBody ==
  /\ \E v \in Content :
       At("body", Body(v)) /\ sfile' = [sfile EXCEPT ![cur] = v]
  /\ cur' = NoFile
  /\ Continue("header", Read)
  /\ UNCHANGED <<guest, snap, pending, todo, flags, user, count>>

\* cpRead waits, for the next header or the rest of a message, longer than the
\* socket's timeout: read() returns -1, which moves its pointer a byte back and
\* its count one up.  From there on what is read is in the wrong place, by one
\* byte or, what comes to the same, by as many as it timed out.  A guest that was
\* reverted away is waited for that long.
ReadTimeout ==
  /\ spc \in {"header", "name", "body"} /\ conn[Served].up = <<>>
  /\ \/ Slow /\ conn[Served].cli = "open"
     \/ conn[Served].cli = "lost"
  /\ Continue("astray", conn[Served])
  /\ UNCHANGED <<guest, snap, pending, cur, todo, sfile, flags, user, count>>

\* A body's last byte, EOF and END have too few bytes for a header that is out of
\* place: cpRead takes them and waits for more.
Misread ==
  /\ spc = "astray" /\ conn[Served].up # <<>>
  /\ Head(conn[Served].up) # Hdr("SET")
  /\ Continue("astray", Read)
  /\ UNCHANGED <<guest, snap, pending, cur, todo, sfile, flags, user, count>>

\* sendFile.
SendFile ==
  /\ spc = "send" /\ conn[Served].cli # "rst"
  /\ \E f \in todo :
       /\ Continue("send", Down(conn[Served], <<Hdr("SET"), Name(f), Body(sfile[f])>>))
       /\ todo' = todo \ {f}
  /\ UNCHANGED <<guest, snap, pending, cur, sfile, flags, user, count>>

SendFilesEnd ==
  /\ spc = "send" /\ conn[Served].cli # "rst" /\ todo = {}
  /\ Continue("header", Down(conn[Served], <<Hdr("EOF")>>))
  /\ UNCHANGED <<guest, snap, pending, cur, todo, sfile, flags, user, count>>

-------------------------------------------------------------------------------
(* handleCKP and handleRES: the hypervisor *)

\* checkSnapshot() and "virsh snapshot-delete".
DeleteSnapshot ==
  /\ spc = "delete"
  /\ snap' \in {NoSnap} \cup (IF VirshFails THEN {snap} ELSE {})
  /\ spc' = "create"
  /\ UNCHANGED <<guest, conn, pending, fd, ready, client, cur, todo, sfile, flags,
                 user, count>>

Captured(g) == IF g.sock = NoConn THEN g ELSE [g EXCEPT !.sock = Stale]

\* "virsh snapshot-create-as", whose result the server ignores; virsh refuses a
\* name that is taken.
CreateSnapshot ==
  /\ spc = "create"
  /\ IF snap = NoSnap
     THEN snap' \in {Captured(vm)} \cup (IF VirshFails THEN {NoSnap} ELSE {})
     ELSE UNCHANGED snap
  /\ ckptReq' = FALSE /\ ckpted' = TRUE
  /\ spc' = "cky"
  /\ UNCHANGED <<guest, conn, pending, fd, ready, client, cur, todo, sfile, user, count>>

AnswerCKY ==
  /\ spc = "cky"
  /\ Finish(conn, Down(conn[Served], <<Hdr("CKY")>>))
  /\ UNCHANGED <<guest, snap, pending, cur, todo, sfile, flags, user, count>>

\* "virsh snapshot-revert": the guest that was is gone, without a word to
\* whoever was connected to it.
RevertSnapshot ==
  /\ spc = "revert"
  /\ \E ok \in {snap # NoSnap} \cup (IF VirshFails THEN {FALSE} ELSE {}) :
       /\ vm' = IF ok THEN snap ELSE vm
       /\ Finish(IF ok /\ vm.sock \in Conn
                 THEN [conn EXCEPT ![vm.sock] = CliLost(@)]
                 ELSE conn, conn[Served])
  /\ UNCHANGED <<saved, snap, pending, cur, todo, sfile, flags, user, count>>

-------------------------------------------------------------------------------
(* The server's end and beginning *)

\* The server's process is gone, by assert(0) or killed: the kernel closes its
\* connections and resets those it had not accepted or not read to the end.
Gone ==
  /\ spc' = "down"
  /\ conn' = [c \in Conn |->
       IF conn[c].srv # "open" THEN conn[c]
       ELSE IF Accepted(c) THEN SrvClose(conn[c])
       ELSE SrvReset(conn[c])]
  /\ pending' = <<>> /\ fd' = [s \in Slot |-> NoConn]
  /\ ready' = {} /\ client' = Stdin /\ cur' = NoFile /\ todo' = {}
  /\ ckptReq' = FALSE /\ ckpted' = FALSE /\ cin' = <<>>
  /\ UNCHANGED <<guest, snap, sfile, tty, typed, kills, made>>

\* cpRead or cpWrite meets a connection the guest has reset.
Abort ==
  /\ \/ spc \in {"header", "name", "body", "astray"} /\ conn[Served].up = <<>>
     \/ spc = "send"
  /\ conn[Served].cli = "rst"
  /\ Gone /\ UNCHANGED crashes

\* "Unsupported Header": two letters of SET and a byte of what follows.
Unsupported ==
  /\ spc = "astray" /\ conn[Served].up # <<>>
  /\ Head(conn[Served].up) = Hdr("SET")
  /\ Gone /\ UNCHANGED crashes

Crash ==
  /\ spc # "down" /\ crashes < MaxCrashes
  /\ crashes' = crashes + 1
  /\ Gone

Restart ==
  /\ spc = "down"
  /\ spc' = "select"
  /\ UNCHANGED <<guest, snap, conn, pending, fd, ready, client, cur, todo, sfile,
                 flags, user, count>>

-------------------------------------------------------------------------------
GuestStep ==
  \/ StartGET \/ StartRES \/ Refused
  \/ SendCKP \/ SendGET \/ SendRES \/ SendName \/ SendBody \/ SendEOF
  \/ RecvCKN \/ RecvCKY \/ CkpTimeout \/ PingDone \/ WaitTimeout
  \/ RecvSET \/ RecvName \/ RecvBody \/ RecvEOF \/ RecvEND \/ ReadReset

ServerStep ==
  \/ Select \/ StdinTurn \/ CinLine \/ CinWord \/ Accept \/ Serve
  \/ ServeGET \/ ServeSET \/ ServeCKP \/ ServeRES \/ ServeEOF \/ ServeEND
  \/ ServeName \/ ServeBody \/ SendFile \/ SendFilesEnd
  \/ ReadTimeout \/ Misread \/ Unsupported
  \/ DeleteSnapshot \/ CreateSnapshot \/ AnswerCKY \/ RevertSnapshot
  \/ Abort

Next ==
  \/ GuestStep \/ CallCheckpoint \/ CallRestore \/ CallRefused
  \/ Train \/ Launch \/ Kill
  \/ ServerStep \/ Type \/ Crash \/ Restart

\* Both processes go on with what they are doing as long as they can (a timeout
\* of select included); nobody has to call, type, start, kill or restart.
Spec == Init /\ [][Next]_vars /\ WF_vars(GuestStep) /\ WF_vars(ServerStep)

-------------------------------------------------------------------------------
(* Properties *)

ConnState == [up : Seq(Msg), down : Seq(Msg),
              cli : {"free", "open", "shut", "lost", "rst"},
              srv : {"free", "open", "shut", "rst"}]

TypeOK ==
  /\ vm \in Guest /\ snap \in Guest \cup {NoSnap}
  /\ conn \in [Conn -> ConnState]
  /\ pending \in Seq(Conn)
  /\ fd \in [Slot -> Conn \cup {NoConn}]
  /\ spc \in ServerPC /\ ready \subseteq {Stdin, Listen} \cup Slot
  /\ client \in {Stdin} \cup Slot
  /\ cur \in Files \cup {NoFile} /\ todo \subseteq Files
  /\ sfile \in [Files -> Content]
  /\ ckptReq \in BOOLEAN /\ ckpted \in BOOLEAN
  /\ tty \in Seq(Lines) /\ cin \in Seq(STRING)
  /\ {typed, kills, crashes} \subseteq Nat /\ made \in 0 .. MaxVer
  /\ saved \in [Files -> Content] \cup {NoSnap}

\* Descriptors, connections and the guest's socket agree: every connection the
\* server has not closed is waiting or being served, no descriptor is shared,
\* leaked or left pointing at a closed connection.
Bookkeeping ==
  /\ \A c \in Conn : (conn[c].srv = "open") <=> (Served = c \/ \E i \in DOMAIN pending : pending[i] = c)
  /\ \A i, j \in DOMAIN pending : pending[i] = pending[j] => i = j
  /\ \A i \in DOMAIN pending : pending[i] # Served
  /\ \A s, t \in Slot : fd[s] = fd[t] /\ fd[s] # NoConn => s = t
  /\ \A s \in Slot : fd[s] # NoConn => conn[fd[s]].srv = "open"
  /\ client # Stdin => fd[client] # NoConn
  /\ \A c \in Conn : (conn[c].cli = "open") <=> (vm.sock = c)

Next1(q, kinds) == q # <<>> => Head(q).kind \in kinds

\* Neither end sends something other than what the protocol lets come next where
\* the other end is, however late either of them is: a server that reads in its
\* place meets the header, name or body it wants, and so does the guest.
InTurn ==
  /\ spc = "header" => Next1(conn[Served].up, {"GET", "SET", "CKP", "RES", "EOF", "END"})
  /\ spc = "name" => Next1(conn[Served].up, {"name"})
  /\ spc = "body" => Next1(conn[Served].up, {"body"})
  /\ vm.sock \in Conn =>
       /\ vm.pc = "ckp"  => Next1(Sock.down, {"CKN", "CKY"})
       /\ vm.pc = "get"  => Next1(Sock.down, {"SET", "EOF"})
       /\ vm.pc = "name" => Next1(Sock.down, {"name"})
       /\ vm.pc = "body" => Next1(Sock.down, {"body"})
       /\ vm.pc = "end"  => Next1(Sock.down, {"END"})

\* "Unsupported Header" is never printed, and nothing is read out of its place
\* (serveClient): as long as no guest is later than the server's 1 s.
NoUnsupportedHeader ==
  /\ InTurn
  /\ spc = "astray" => conn[Served].up = <<>>

\* Requests are served in the order the guest made them, whatever descriptors
\* their connections were given: a restore is never overtaken by what the guest
\* sends after it.  (A connection the guest lost before it said anything waits
\* for ever, and is passed.)
NoOvertaking ==
  [][\A i, j \in DOMAIN pending :
       /\ spc = "scan" /\ spc' = "header"
       /\ pending[i] = fd[client'] /\ j < i
       => conn[pending[j]].up = <<>>]_vars

\* While the server believes the system is checkpointed there is a snapshot to
\* revert to, except between deleting the old one and making the new one.
CkptedMeansSnapshot == ckpted => snap # NoSnap \/ spc = "create"

\* "Continue from checked point": a guest that has set checkpointed really has
\* a snapshot that the server is ready to restore.
CheckedPoint == vm.chk => ckpted

\* What the server snapshots is a guest that is waiting for the answer to CKP,
\* so that a revert resumes it at the call of checkpoint().
SnapshotInWait == ckpted /\ snap # NoSnap => snap.pc = "ckp" /\ ~snap.chk

\* The guest is reverted only when the server holds, whole, the last backup the
\* guest saw confirmed: no learning is lost with the state that is given up.
BackupBeforeRevert ==
  [][spc = "revert" /\ vm' # vm => sfile = saved]_vars

\* When doGET is done the guest has exactly the files of that backup.
GetBringsBackup ==
  [][vm.pc = "get" /\ vm'.pc = "run" /\ saved # NoSnap => vm'.file = saved]_vars

\* serveClient always comes back to the select loop.
ServerReturns == (spc = "header") ~> (spc = "select")

\* checkpoint() and restore() return to the program.
GuestReturns == (vm.pc \notin {"run", "dead"}) ~> (vm.pc = "run")

\* The calls as the program sees them.  From restore() to the end of the doGET
\* behind the revert it is in one call, although restore() returns when RES is
\* sent; from the moment they are backed up its files are those of the backup,
\* and what it learns before the revert, or the snapshot brings back, is not.
Restores ==
  vm.pc \in {"set", "setBody", "end", "toRES", "RES"} \/ RevertComing
Where ==
  IF vm.pc = "dead" THEN "off"
  ELSE IF Restores THEN "restore"
  ELSE IF vm.pc = "run" THEN "run"
  ELSE IF saved = NoSnap THEN "checkpoint" ELSE "restore"
Marked == Where = "restore" \/ (Where = "run" /\ vm.chk)
Having ==
  IF saved # NoSnap /\ (RevertComing \/ vm.pc \notin {"run", "set", "setBody", "end"})
  THEN saved ELSE vm.file

Calls == INSTANCE SaveRestore WITH
  Empty <- Absent, at <- Where, marked <- Marked, files <- Having

\* checkpoint() and restore() keep what they promise: the program resumes at its
\* checkpoint, marked as such, with the files it had when it called restore().
KeepsPromise == Calls!Spec

\* A "checkpoint" the user types is acted on.
UserHeard == (\E i \in DOMAIN tty : tty[i] = <<"checkpoint">>) ~> ckptReq

\* "Start receiving files": an answer to GET that has arrived is read.
AnswerRead ==
  (vm.pc = "get" /\ vm.sock \in Conn /\ Sock.down # <<>>) ~> (vm.pc # "get")

\* "Block until input arrives on one or more active sockets": the server waits
\* nowhere but in its select loop.
ServerListens == (spc = "header") ~> (spc \in {"select", "down"})
===============================================================================
