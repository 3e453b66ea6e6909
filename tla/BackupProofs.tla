------------------------------ MODULE BackupProofs ------------------------------
(***************************************************************************)
(* Proofs about Checkpoint: that the server serves requests in the order   *)
(* the guest made them, and that it reverts the guest only when it holds,  *)
(* whole, the last backup the guest saw confirmed, whatever is killed,     *)
(* crashes, times out or is reverted on the way.                           *)
(***************************************************************************)
EXTENDS CheckpointProofs

USE ConstAssumption, MsgType DEF ConstAssumption, HeaderKind

-------------------------------------------------------------------------------
(* What a step may do to the connections: four shapes of steps *)

\* The guest has no connection and makes one.
Connects ==
  \E c \in Conn :
    /\ conn[c] = FreeConn /\ conn' = [conn EXCEPT ![c] = NewConn]
    /\ pending' = Append(pending, c)
    /\ vm.sock = NoConn /\ vm'.sock = c

\* It goes on with the connection it has, closes it, or does neither.
Goes ==
  /\ pending' = pending
  /\ \A c \in Conn : c # vm.sock => conn'[c] = conn[c]
  /\ vm'.sock \in {vm.sock, NoConn}

LEMMA GuestShape ==
  ASSUME TypeOK,
         GuestStep \/ CallCheckpoint \/ CallRestore \/ CallRefused \/ Train \/ Launch \/ Kill \/ Type
  PROVE  UNCHANGED <<snap, fd, host, flags>> /\ (Connects \/ Goes)
<1>. /\ vm \in Guest /\ vm \in GuestRecord
     /\ vm.sock = NoConn <=> vm.pc \in {"run", "toGET", "toRES", "dead"}
     /\ Halted(vm).sock = NoConn /\ Started(vm).sock = NoConn
     /\ conn \in [Conn -> ConnState]
  BY DEF TypeOK, Guest, GuestRecord, Halted, Started
<1>0. UNCHANGED <<snap, fd, host, flags>>
  BY DEF GuestStep, CallCheckpoint, CallRestore, CallRefused, Train, Launch, Kill, Type,
         StartGET, StartRES, Refused, SendCKP, SendGET, SendRES, SendName, SendBody,
         SendEOF, RecvCKN, RecvCKY, CkpTimeout, PingDone, WaitTimeout, RecvSET,
         RecvName, RecvBody, RecvEOF, RecvEND, ReadReset, Connect, Send, Receive
<1>1. CASE StartGET \/ StartRES \/ CallCheckpoint \/ CallRestore
  <2>1. ASSUME NEW pc, NEW files, Connect(pc, files), vm.sock = NoConn PROVE Connects
    BY <2>1 DEF Connect, Connects, GuestRecord
  <2> QED BY <1>0, <1>1, <2>1 DEF StartGET, StartRES, CallCheckpoint, CallRestore
<1>2. CASE Refused \/ CallRefused \/ Launch \/ Train \/ CkpTimeout \/ WaitTimeout \/ Type
  BY <1>0, <1>2 DEF Refused, CallRefused, Launch, Train, CkpTimeout, WaitTimeout, Type, Goes, GuestRecord, guest
<1>3. CASE SendCKP \/ SendGET \/ SendRES \/ SendName \/ SendBody \/ SendEOF
  <2>1. ASSUME NEW ms, NEW g, Send(ms, g), g.sock \in {vm.sock, NoConn} PROVE Goes
    BY <2>1 DEF Send, Goes
  <2>2. SendCKP \/ SendGET \/ SendRES => Goes
    BY <2>1 DEF SendCKP, SendGET, SendRES, GuestRecord
  <2>3. SendName => Goes
    <3>1. ASSUME NEW f \in Files
          PROVE  [vm EXCEPT !.pc = "setBody", !.cur = f, !.todo = @ \ {f}].sock = vm.sock
      BY DEF GuestRecord
    <3> QED BY <3>1, <2>1 DEF SendName, GuestRecord
  <2>4. SendBody => Goes
    <3>1. [vm EXCEPT !.pc = "set", !.cur = NoFile].sock = vm.sock
      BY DEF GuestRecord
    <3> QED BY <3>1, <2>1 DEF SendBody
  <2>5. SendEOF => Goes
    <3>1. [vm EXCEPT !.pc = "end"].sock = vm.sock
      BY DEF GuestRecord
    <3> QED BY <3>1, <2>1 DEF SendEOF
  <2> QED BY <1>0, <1>3, <2>2, <2>3, <2>4, <2>5
<1>4. CASE RecvCKN \/ RecvCKY \/ RecvSET \/ RecvName \/ RecvBody \/ RecvEND
  <2>1. ASSUME NEW m, NEW g, Receive(m, g), g.sock \in {vm.sock, NoConn} PROVE Goes
    BY <2>1 DEF Receive, Goes
  <2>2. RecvCKN \/ RecvCKY \/ RecvSET \/ RecvEND => Goes
    BY <2>1 DEF RecvCKN, RecvCKY, RecvSET, RecvEND, GuestRecord
  <2>3. RecvName => Goes
    <3>1. ASSUME NEW f \in Files
          PROVE  [vm EXCEPT !.pc = "body", !.cur = f, !.file[f] = Torn].sock = vm.sock
      BY DEF GuestRecord
    <3> QED BY <3>1, <2>1 DEF RecvName
  <2>4. RecvBody => Goes
    <3>1. ASSUME NEW v \in Content
          PROVE  [vm EXCEPT !.pc = "get", !.cur = NoFile, !.file[vm.cur] = v].sock = vm.sock
      BY DEF GuestRecord
    <3> QED BY <3>1, <2>1 DEF RecvBody
  <2> QED BY <1>0, <1>4, <2>2, <2>3, <2>4
<1>5. CASE PingDone \/ ReadReset \/ Kill \/ RecvEOF
  BY <1>0, <1>5 DEF PingDone, ReadReset, Kill, RecvEOF, Goes, GuestRecord
<1> QED BY <1>1, <1>2, <1>3, <1>4, <1>5 DEF GuestStep

\* serveClient goes on, or comes back; nothing else of the server's loop moves.
Serves ==
  /\ client # Stdin /\ UNCHANGED <<pending, fd, client, ready, vm>>
  /\ spc' \in Serving
  /\ \A c \in Conn : c # Served => conn'[c] = conn[c]
Returns ==
  /\ client # Stdin /\ pending' = pending
  /\ fd' = [fd EXCEPT ![client] = NoConn] /\ client' = Stdin /\ DoneWith(client)
  /\ \A i \in DOMAIN pending : conn'[pending[i]].up = conn[pending[i]].up
  /\ vm'.sock = vm.sock \/ vm'.sock \notin Conn

LEMMA ServeShape ==
  ASSUME BookInv,
         \/ ServeGET \/ ServeSET \/ ServeCKP \/ ServeRES \/ ServeEOF \/ ServeEND
         \/ ServeName \/ ServeBody \/ SendFile \/ SendFilesEnd \/ AnswerCKY \/ RevertSnapshot
         \/ DeleteSnapshot \/ CreateSnapshot \/ ReadTimeout \/ Misread
  PROVE  Serves \/ Returns
<1>1. client # Stdin
  BY DEF BookInv, Place, Serving, ServeGET, ServeSET, ServeCKP, ServeRES, ServeEOF, ServeEND,
         ServeName, ServeBody, SendFile, SendFilesEnd, AnswerCKY, RevertSnapshot, At,
         DeleteSnapshot, CreateSnapshot, ReadTimeout, Misread
<1>2. /\ Served \in Conn /\ conn \in [Conn -> ConnState]
      /\ \A i \in DOMAIN pending : /\ pending[i] \in Conn /\ pending[i] # Served
                                   /\ conn[pending[i]].srv = "open"
  BY <1>1, ServedConn, ElementOfSeq, LenProperties DEF BookInv, TypeOK, Bookkeeping
<1>3. ASSUME NEW pc \in Serving, NEW r, Continue(pc, r), UNCHANGED <<guest, pending>> PROVE Serves
  BY <1>1, <1>2, <1>3 DEF Continue, Serves, guest
<1>4. ASSUME NEW r, Finish(conn, r), UNCHANGED <<guest, pending>> PROVE Returns
  BY <1>1, <1>2, <1>4 DEF Finish, Returns, guest
<1>5. CASE ServeGET \/ ServeSET \/ ServeName \/ ServeBody \/ SendFilesEnd
  BY <1>3, <1>5 DEF ServeGET, ServeSET, ServeName, ServeBody, SendFilesEnd, Serving
<1>6. CASE SendFile
  BY <1>3, <1>6 DEF SendFile, Serving
<1>11. CASE ReadTimeout \/ Misread
  BY <1>3, <1>11 DEF ReadTimeout, Misread, Serving
<1>7. CASE ServeCKP \/ ServeRES
  BY <1>3, <1>4, <1>7 DEF ServeCKP, ServeRES, Serving
<1>8. CASE ServeEOF \/ ServeEND \/ AnswerCKY
  BY <1>4, <1>8 DEF ServeEOF, ServeEND, AnswerCKY
<1>9. CASE DeleteSnapshot \/ CreateSnapshot
  BY <1>1, <1>9 DEF DeleteSnapshot, CreateSnapshot, Serves, Serving, guest
<1>10. CASE RevertSnapshot
  <2>1. PICK ok \in {snap # NoSnap} \cup (IF VirshFails THEN {FALSE} ELSE {}) :
          /\ vm' = IF ok THEN snap ELSE vm
          /\ Finish(IF ok /\ vm.sock \in Conn
                    THEN [conn EXCEPT ![vm.sock] = CliLost(@)]
                    ELSE conn, conn[Served])
    BY <1>10 DEF RevertSnapshot
  <2>2. pending' = pending
    BY <1>10 DEF RevertSnapshot
  <2>3. CASE ok /\ vm.sock \in Conn
    <3>1. vm' = snap /\ snap # NoSnap
      BY <2>1, <2>3
    <3>2. vm'.sock \notin Conn
      BY <3>1 DEF BookInv, SnapSock
    <3>3. \A r \in ConnState : r.srv = "open" => CliLost(r).up = r.up
      BY DEF CliLost, Settled, ConnState
    <3>4. Finish([conn EXCEPT ![vm.sock] = CliLost(@)], conn[Served])
      BY <2>1, <2>3
    <3>5. \A i \in DOMAIN pending : conn'[pending[i]].up = conn[pending[i]].up
      <4>1. \A i \in DOMAIN pending :
              conn'[pending[i]] = IF pending[i] = vm.sock THEN CliLost(conn[pending[i]])
                                  ELSE conn[pending[i]]
        BY <1>2, <3>4 DEF Finish
      <4> QED BY <4>1, <3>3, <1>2
    <3> QED BY <3>2, <3>4, <3>5, <2>2, <1>1 DEF Finish, Returns
  <2>4. CASE ~(ok /\ vm.sock \in Conn)
    <3>1. Finish(conn, conn[Served])
      BY <2>1, <2>4
    <3>2. vm'.sock = vm.sock \/ vm'.sock \notin Conn
      BY <2>1, <2>4 DEF BookInv, SnapSock
    <3> QED BY <3>1, <3>2, <2>2, <1>1, <1>2 DEF Finish, Returns
  <2> QED BY <2>3, <2>4
<1> QED BY <1>5, <1>6, <1>7, <1>8, <1>9, <1>10, <1>11

-------------------------------------------------------------------------------
(* The order in which requests are served *)

\* The guest speaks on the last of its connections, and they are accepted in the
\* order they were made.
Queue ==
  /\ \A i, j \in DOMAIN pending : i < j => pending[i] # vm.sock
  /\ \A i, j \in DOMAIN pending : i < j /\ Accepted(pending[j]) => Accepted(pending[i])

\* A round of the select loop: readSockSet holds open descriptors, the one that
\* is served first; until the listener has had its turn there is somebody to
\* accept, and whoever was accepted before and has said something is in it.
Round ==
  /\ ready \subseteq {Stdin, Listen} \cup {s \in Slot : fd[s] # NoConn}
  /\ spc \in {"select", "down"} => ready = {}
  /\ client # Stdin => client \in ready /\ \A k \in ready : client <= k
  /\ Listen \in ready =>
       /\ Backlog # {}
       /\ \A s \in Slot : fd[s] # NoConn /\ conn[fd[s]].up # <<>> => s \in ready

\* Of two accepted connections the older has its turn first, once it has said
\* something: it has the smaller descriptor, or its turn is still to come in this
\* round and the younger one's is not.
Turns ==
  \A i, j \in DOMAIN pending, s, t \in Slot :
    i < j /\ fd[s] = pending[i] /\ fd[t] = pending[j] /\ conn[pending[i]].up # <<>>
    => /\ t \in ready => s \in ready
       /\ s < t \/ (s \in ready /\ t \notin ready)

OrderInv == Queue /\ Round /\ Turns

LEMMA Places ==
  ASSUME BookInv
  PROVE  /\ Len(pending) \in Nat /\ DOMAIN pending = 1 .. Len(pending)
         /\ \A i \in DOMAIN pending : /\ i \in Int /\ pending[i] \in Conn /\ pending[i] # NoConn
                                      /\ pending[i] # Served /\ conn[pending[i]].srv = "open"
         /\ Stdin \in Int /\ Listen \in Int /\ Stdin # Listen
         /\ \A s \in Slot : s \in Int /\ s # Stdin /\ s # Listen /\ Listen < s /\ Stdin < s
  BY ElementOfSeq, LenProperties DEF BookInv, TypeOK, Bookkeeping, Slot, Stdin, Listen

LEMMA OrderConnects ==
  ASSUME BookInv, OrderInv, Connects, UNCHANGED <<fd, spc, ready, client>>
  PROVE  OrderInv'
<1>1. PICK c \in Conn :
        /\ conn[c] = FreeConn /\ conn' = [conn EXCEPT ![c] = NewConn]
        /\ pending' = Append(pending, c) /\ vm.sock = NoConn /\ vm'.sock = c
  BY DEF Connects
<1>. DEFINE n == Len(pending)
<1>2. n \in Nat /\ DOMAIN pending = 1 .. n
  BY Places
<1>3. /\ DOMAIN pending' = 1 .. (n + 1) /\ pending'[n + 1] = c
      /\ \A i \in 1 .. n : pending'[i] = pending[i]
  BY <1>1, AppendProperties DEF BookInv, TypeOK
<1>. HIDE DEF n
<1>4. conn[c].srv # "open" /\ \A d \in Conn : d # c => conn'[d] = conn[d]
  BY <1>1 DEF FreeConn, BookInv, TypeOK
<1>5. \A s \in Slot : fd[s] # c
  BY <1>1, <1>4 DEF BookInv, Bookkeeping
<1>6. \A i \in 1 .. n : pending[i] # c /\ pending[i] \in Conn /\ conn'[pending[i]] = conn[pending[i]]
  BY <1>2, <1>4, Places
<1>7. \A i \in DOMAIN pending' : i \in 1 .. n \/ i = n + 1
  BY <1>2, <1>3
<1>8. \A i, j \in DOMAIN pending' : i < j => i \in 1 .. n
  BY <1>2, <1>3
<1>9. \A d : Accepted(d)' <=> Accepted(d)
  BY DEF Accepted
<1>10. Queue'
  <2>1. \A i, j \in DOMAIN pending' : i < j => pending'[i] # vm'.sock
    BY <1>1, <1>3, <1>6, <1>8
  <2>2. ASSUME NEW i \in DOMAIN pending', NEW j \in DOMAIN pending', i < j, Accepted(pending'[j])
        PROVE  Accepted(pending'[i])
    <3>1. j \in 1 .. n
      BY <2>2, <1>3, <1>5, <1>7 DEF Accepted
    <3> QED BY <2>2, <3>1, <1>2, <1>3, <1>8 DEF OrderInv, Queue
  <2> QED BY <2>1, <2>2, <1>9 DEF Queue
<1>11. Round'
  <2>1. Backlog # {} => Backlog' # {}
    BY <1>2, <1>3, <1>7, <1>9 DEF Backlog
  <2>2. \A s \in Slot : fd[s] # NoConn => conn'[fd[s]] = conn[fd[s]]
    BY <1>4, <1>5 DEF BookInv, TypeOK
  <2> QED BY <2>1, <2>2 DEF OrderInv, Round
<1>12. Turns'
  <2>1. SUFFICES ASSUME NEW i \in DOMAIN pending', NEW j \in DOMAIN pending',
                        NEW s \in Slot, NEW t \in Slot,
                        i < j, fd[s] = pending'[i], fd[t] = pending'[j], conn'[pending'[i]].up # <<>>
                 PROVE  /\ t \in ready => s \in ready
                        /\ s < t \/ (s \in ready /\ t \notin ready)
    BY DEF Turns
  <2>2. i \in 1 .. n /\ j \in 1 .. n
    BY <2>1, <1>3, <1>5, <1>7, <1>8
  <2> QED BY <2>1, <2>2, <1>2, <1>3, <1>6 DEF OrderInv, Turns
<1> QED BY <1>10, <1>11, <1>12 DEF OrderInv

\* As long as somebody is to be accepted the guest has no accepted connection
\* that is still waiting.
LEMMA Unaccepted ==
  ASSUME BookInv, OrderInv, Listen \in ready, NEW s \in Slot, fd[s] = vm.sock
  PROVE  fd[s] = NoConn
<1> SUFFICES ASSUME fd[s] # NoConn PROVE FALSE
  OBVIOUS
<1>1. client = Stdin
  BY Places DEF OrderInv, Round, BookInv, TypeOK
<1>2. PICK k \in DOMAIN pending : pending[k] = fd[s]
  BY <1>1 DEF BookInv, TypeOK, Bookkeeping, Served
<1>3. PICK j \in DOMAIN pending : ~Accepted(pending[j])
  BY DEF OrderInv, Round, Backlog
<1>4. Accepted(pending[k])
  BY <1>2 DEF Accepted
<1>5. k < j
  <2>1. k # j /\ ~(j < k) /\ k \in Int /\ j \in Int
    BY <1>3, <1>4, Places DEF OrderInv, Queue
  <2> QED BY <2>1
<1> QED BY <1>2, <1>5 DEF OrderInv, Queue

LEMMA OrderGoes ==
  ASSUME BookInv, OrderInv, Goes, UNCHANGED <<fd, spc, ready, client>>
  PROVE  OrderInv'
<1>1. \A d : Accepted(d)' <=> Accepted(d)
  BY DEF Accepted
<1>2. Queue'
  BY <1>1, Places DEF Goes, OrderInv, Queue
<1>3. Round'
  <2>1. Backlog' = Backlog
    BY <1>1 DEF Goes, Backlog
  <2>2. Listen \in ready =>
          \A s \in Slot : fd[s] # NoConn => conn'[fd[s]] = conn[fd[s]]
    BY Unaccepted DEF Goes, BookInv, TypeOK
  <2> QED BY <2>1, <2>2 DEF OrderInv, Round
<1>4. \A i, j \in DOMAIN pending : i < j => conn'[pending[i]] = conn[pending[i]]
  BY Places DEF Goes, OrderInv, Queue
<1>5. Turns'
  BY <1>4 DEF Goes, OrderInv, Turns
<1> QED BY <1>2, <1>3, <1>5 DEF OrderInv

LEMMA OrderServes ==
  ASSUME BookInv, OrderInv, Serves
  PROVE  OrderInv'
<1>1. UNCHANGED <<pending, fd, client, ready, vm>> /\ client \in Slot /\ spc' \notin {"select", "down"}
  BY DEF Serves, Serving, BookInv, TypeOK
<1>2. Listen \notin ready
  BY <1>1, Places DEF Serves, OrderInv, Round
<1>3. \A i \in DOMAIN pending : conn'[pending[i]] = conn[pending[i]]
  BY Places DEF Serves
<1>4. \A d : Accepted(d)' <=> Accepted(d)
  BY <1>1 DEF Accepted
<1>5. Queue'
  BY <1>1, <1>4 DEF OrderInv, Queue
<1>6. Round'
  BY <1>1, <1>2 DEF OrderInv, Round
<1>7. Turns'
  BY <1>1, <1>3 DEF OrderInv, Turns
<1> QED BY <1>5, <1>6, <1>7 DEF OrderInv

LEMMA OrderReturns ==
  ASSUME BookInv, OrderInv, Returns
  PROVE  OrderInv'
<1>1. /\ client \in Slot /\ client # Stdin /\ Served = fd[client] /\ client \in ready
      /\ pending' = pending /\ client' = Stdin /\ ready' = ready \ {client}
      /\ spc' = IF ready' = {} THEN "select" ELSE "scan"
  BY ServedConn DEF Returns, DoneWith, OrderInv, Round
<1>2. \A s \in Slot : fd'[s] = IF s = client THEN NoConn ELSE fd[s]
  BY DEF Returns, BookInv, TypeOK
<1>3. \A i \in DOMAIN pending : Accepted(pending[i])' <=> Accepted(pending[i])
  BY <1>1, <1>2, Places DEF Accepted
<1>4. Queue'
  <2>1. \A i \in DOMAIN pending : pending[i] = vm'.sock => pending[i] = vm.sock
    BY Places DEF Returns
  <2> QED BY <2>1, <1>1, <1>3 DEF OrderInv, Queue
<1>5. Listen \notin ready'
  BY <1>1, Places DEF OrderInv, Round
<1>6. Round'
  BY <1>1, <1>2, <1>5 DEF OrderInv, Round
<1>7. Turns'
  <2>1. SUFFICES ASSUME NEW i \in DOMAIN pending, NEW j \in DOMAIN pending,
                        NEW s \in Slot, NEW t \in Slot,
                        i < j, fd'[s] = pending[i], fd'[t] = pending[j], conn'[pending[i]].up # <<>>
                 PROVE  /\ t \in ready' => s \in ready'
                        /\ s < t \/ (s \in ready' /\ t \notin ready')
    BY <1>1 DEF Turns
  <2>2. s # client /\ t # client /\ fd[s] = pending[i] /\ fd[t] = pending[j]
    BY <2>1, <1>2, Places
  <2>3. conn[pending[i]].up # <<>>
    BY <2>1 DEF Returns
  <2>4. /\ t \in ready => s \in ready
        /\ s < t \/ (s \in ready /\ t \notin ready)
    BY <2>1, <2>2, <2>3 DEF OrderInv, Turns
  <2> QED BY <2>2, <2>4, <1>1
<1> QED BY <1>4, <1>6, <1>7 DEF OrderInv

\* select() sees everybody who has something to say.
LEMMA OrderSelect ==
  ASSUME BookInv, OrderInv, Select
  PROVE  OrderInv'
<1>1. /\ UNCHANGED <<vm, conn, pending, fd, client>> /\ spc' = "scan"
      /\ ready' = Readable /\ spc = "select" /\ ready = {} /\ client = Stdin
  BY DEF Select, guest, OrderInv, Round, BookInv, Place, Serving
<1>2. \A d : Accepted(d)' <=> Accepted(d)
  BY <1>1 DEF Accepted
<1>3. Queue'
  BY <1>1, <1>2 DEF OrderInv, Queue
<1>4. \A s \in Slot : s \in ready' => fd[s] # NoConn
  BY <1>1, Places DEF Readable
<1>5. \A s \in Slot : fd[s] # NoConn /\ conn[fd[s]].up # <<>> => s \in ready'
  BY <1>1 DEF Readable
<1>6. Listen \in ready' => Backlog' # {}
  <2>1. Backlog' = Backlog
    BY <1>1, <1>2 DEF Backlog
  <2> QED BY <2>1, <1>1, Places DEF Readable
<1>7. Round'
  <2>1. ready' \subseteq {Stdin, Listen} \cup {s \in Slot : fd[s] # NoConn}
    BY <1>1 DEF Readable
  <2> QED BY <2>1, <1>1, <1>5, <1>6 DEF Round
<1>8. Turns'
  BY <1>1, <1>5, Places DEF OrderInv, Turns
<1> QED BY <1>3, <1>7, <1>8 DEF OrderInv

\* Steps of the loop that leave the connections and the descriptors alone.
LEMMA OrderIdle ==
  ASSUME BookInv, OrderInv,
         \/ StdinTurn \/ CinLine \/ CinWord \/ Restart
         \/ UNCHANGED <<vm, conn, pending, fd, client, spc, ready>>
  PROVE  OrderInv'
<1>1. /\ UNCHANGED <<vm, conn, pending, fd, client>>
      /\ ready' \in {ready, ready \ {Stdin}}
      /\ spc' \in {"select", "down"} => ready' = {}
      /\ client # Stdin => ready' = ready
  BY DEF StdinTurn, CinLine, CinWord, Restart, DoneWith, guest, host, OrderInv, Round, Turn,
         BookInv, Place, Serving
<1>2. \A d : Accepted(d)' <=> Accepted(d)
  BY <1>1 DEF Accepted
<1>3. Queue'
  BY <1>1, <1>2 DEF OrderInv, Queue
<1>4. /\ \A s \in Slot : s \in ready' <=> s \in ready
      /\ Listen \in ready' <=> Listen \in ready
  BY <1>1, Places
<1>5. Round'
  <2>1. Backlog' = Backlog
    BY <1>1, <1>2 DEF Backlog
  <2>2. ready' \subseteq {Stdin, Listen} \cup {s \in Slot : fd[s] # NoConn}
    BY <1>1 DEF OrderInv, Round
  <2> QED BY <2>1, <2>2, <1>1, <1>4 DEF OrderInv, Round
<1>6. Turns'
  BY <1>1, <1>4 DEF OrderInv, Turns
<1> QED BY <1>3, <1>5, <1>6 DEF OrderInv

\* accept() takes the oldest: the older ones that have said something are all in
\* readSockSet, and the new descriptor is not.
LEMMA OrderAccept ==
  ASSUME BookInv, OrderInv, Accept
  PROVE  OrderInv'
<1>1. PICK i \in Backlog, s \in Slot :
        /\ \A j \in Backlog : i <= j
        /\ fd[s] = NoConn /\ fd' = [fd EXCEPT ![s] = pending[i]]
  BY DEF Accept
<1>2. /\ UNCHANGED <<vm, conn, pending, client>> /\ Listen \in ready /\ spc = "scan"
      /\ ready' = ready \ {Listen} /\ spc' = IF ready' = {} THEN "select" ELSE "scan"
      /\ client = Stdin
  BY DEF Accept, Turn, DoneWith, guest, BookInv, Place, Serving
<1>3. \A t \in Slot : fd'[t] = IF t = s THEN pending[i] ELSE fd[t]
  BY <1>1 DEF BookInv, TypeOK
<1>4. i \in DOMAIN pending /\ ~Accepted(pending[i])
  BY DEF Backlog
<1>5. \A k \in DOMAIN pending : Accepted(pending[k])' <=> (Accepted(pending[k]) \/ k = i)
  <2>1. \A k \in DOMAIN pending : pending[k] = pending[i] <=> k = i
    BY <1>4 DEF BookInv, Bookkeeping
  <2>2. \A k \in DOMAIN pending : pending[k] # NoConn
    BY Places
  <2> QED BY <2>1, <2>2, <1>1, <1>2, <1>3, <1>4 DEF Accepted
<1>6. \A k \in DOMAIN pending : k < i => Accepted(pending[k])
  BY <1>1, <1>4, Places DEF Backlog
<1>7. Queue'
  <2>1. \A j, k \in DOMAIN pending : j < k /\ Accepted(pending[k])' => Accepted(pending[j])'
    BY <1>5, <1>6 DEF OrderInv, Queue
  <2> QED BY <2>1, <1>2 DEF OrderInv, Queue
<1>8. /\ \A t \in Slot : t \in ready' <=> t \in ready
      /\ Listen \notin ready' /\ s \notin ready
  BY <1>1, <1>2, Places DEF OrderInv, Round
<1>9. Round'
  <2>1. ready' \subseteq {Stdin, Listen} \cup {t \in Slot : fd'[t] # NoConn}
    BY <1>2, <1>3, <1>8 DEF OrderInv, Round
  <2> QED BY <2>1, <1>2, <1>8 DEF Round
<1>10. Turns'
  <2>1. SUFFICES ASSUME NEW j \in DOMAIN pending, NEW k \in DOMAIN pending,
                        NEW t \in Slot, NEW u \in Slot,
                        j < k, fd'[t] = pending[j], fd'[u] = pending[k], conn[pending[j]].up # <<>>
                 PROVE  /\ u \in ready => t \in ready
                        /\ t < u \/ (t \in ready /\ u \notin ready)
    BY <1>2, <1>8 DEF Turns
  <2>2. \A l \in DOMAIN pending : pending[l] = pending[i] => l = i
    BY <1>4 DEF BookInv, Bookkeeping
  <2>3. CASE u = s
    <3>1. k = i /\ t # s /\ fd[t] = pending[j]
      <4>1. k = i
        BY <2>1, <2>2, <2>3, <1>3
      <4>2. j # i
        BY <2>1, <4>1, Places
      <4> QED BY <4>1, <4>2, <2>1, <2>2, <1>3
    <3>2. t \in ready
      BY <3>1, <2>1, <1>2, Places DEF OrderInv, Round
    <3> QED BY <3>2, <2>3, <1>8
  <2>4. CASE u # s /\ t = s
    <3>1. j = i /\ fd[u] = pending[k]
      BY <2>1, <2>2, <2>4, <1>3
    <3>2. Accepted(pending[k])
      BY <3>1 DEF Accepted
    <3> QED BY <3>1, <3>2, <2>1, <1>4 DEF OrderInv, Queue
  <2>5. CASE u # s /\ t # s
    BY <2>1, <2>5, <1>3 DEF OrderInv, Turns
  <2> QED BY <2>3, <2>4, <2>5
<1> QED BY <1>7, <1>9, <1>10 DEF OrderInv

\* Taking one place out of a sequence leaves the others in order.
LEMMA WithoutOrder ==
  ASSUME NEW S, NEW q \in Seq(S), NEW i \in 1 .. Len(q), NEW p, p = Without(q, i)
  PROVE  /\ \A j \in DOMAIN p : \E k \in DOMAIN q : k # i /\ p[j] = q[k]
         /\ \A j, k \in DOMAIN p : j < k =>
              \E l, m \in DOMAIN q : l < m /\ l # i /\ m # i /\ p[j] = q[l] /\ p[k] = q[m]
<1>. DEFINE At1(j) == IF j < i THEN j ELSE j + 1
            n == Len(q)
<1>1. /\ DOMAIN q = 1 .. n /\ n \in Nat /\ DOMAIN p = 1 .. (n - 1) /\ i \in 1 .. n
      /\ \A j \in DOMAIN p : p[j] = IF j < i THEN q[j] ELSE q[j + 1]
  BY WithoutPlaces
<1>. HIDE DEF n
<1>0. n \in Int /\ i \in Int
  BY <1>1
<1>2. \A j \in 1 .. (n - 1) : At1(j) \in 1 .. n /\ At1(j) # i
  BY <1>1
<1>3. ASSUME NEW j \in 1 .. (n - 1), NEW k \in 1 .. (n - 1), j < k
      PROVE  At1(j) < At1(k)
  <2>1. j \in Int /\ k \in Int
    OBVIOUS
  <2> QED BY <2>1, <1>0, <1>3
<1>4. \A j \in 1 .. (n - 1) : p[j] = q[At1(j)]
  BY <1>1
<1>. HIDE DEF At1
<1>5. \A j \in DOMAIN p : \E k \in DOMAIN q : k # i /\ p[j] = q[k]
  BY <1>1, <1>2, <1>4
<1>6. \A j, k \in DOMAIN p : j < k =>
        \E l, m \in DOMAIN q : l < m /\ l # i /\ m # i /\ p[j] = q[l] /\ p[k] = q[m]
  <2>1. ASSUME NEW j \in DOMAIN p, NEW k \in DOMAIN p, j < k
        PROVE  \E l, m \in DOMAIN q : l < m /\ l # i /\ m # i /\ p[j] = q[l] /\ p[k] = q[m]
    <3>1. j \in 1 .. (n - 1) /\ k \in 1 .. (n - 1)
      BY <1>1
    <3>2. /\ At1(j) \in DOMAIN q /\ At1(k) \in DOMAIN q /\ At1(j) # i /\ At1(k) # i
          /\ At1(j) < At1(k) /\ p[j] = q[At1(j)] /\ p[k] = q[At1(k)]
      BY <3>1, <2>1, <1>1, <1>2, <1>3, <1>4
    <3> QED BY <3>2
  <2> QED BY <2>1
<1> QED BY <1>5, <1>6

LEMMA OrderServe ==
  ASSUME BookInv, OrderInv, Serve
  PROVE  OrderInv'
<1>1. PICK s \in Slot, i \in DOMAIN pending :
        /\ Turn(s) /\ client' = s /\ pending[i] = fd[s]
        /\ pending' = SubSeq(pending, 1, i - 1) \o SubSeq(pending, i + 1, Len(pending))
  BY DEF Serve
<1>2. /\ UNCHANGED <<vm, conn, fd, ready>> /\ spc' = "header" /\ s \in ready
      /\ \A k \in ready : s <= k
  BY <1>1 DEF Serve, Turn, guest
<1>3. /\ pending \in Seq(Conn) /\ pending' = Without(pending, i) /\ i \in 1 .. Len(pending)
  BY <1>1, Places DEF Without, BookInv, TypeOK
<1>4. /\ \A j \in DOMAIN pending' : \E k \in DOMAIN pending : k # i /\ pending'[j] = pending[k]
      /\ \A j, k \in DOMAIN pending' : j < k =>
           \E l, m \in DOMAIN pending : l < m /\ pending'[j] = pending[l] /\ pending'[k] = pending[m]
  BY <1>3, WithoutOrder
<1>5. \A d : Accepted(d)' <=> Accepted(d)
  BY <1>2 DEF Accepted
<1>6. Queue'
  <2>1. SUFFICES ASSUME NEW j \in DOMAIN pending', NEW k \in DOMAIN pending', j < k
                 PROVE  /\ pending'[j] # vm.sock
                        /\ Accepted(pending'[k]) => Accepted(pending'[j])
    BY <1>2, <1>5 DEF Queue
  <2> QED BY <2>1, <1>4 DEF OrderInv, Queue
<1>7. Round'
  <2>1. Listen \notin ready
    BY <1>2, Places
  <2> QED BY <2>1, <1>1, <1>2 DEF OrderInv, Round
<1>8. Turns'
  <2>1. SUFFICES ASSUME NEW j \in DOMAIN pending', NEW k \in DOMAIN pending',
                        NEW t \in Slot, NEW u \in Slot,
                        j < k, fd[t] = pending'[j], fd[u] = pending'[k], conn[pending'[j]].up # <<>>
                 PROVE  /\ u \in ready => t \in ready
                        /\ t < u \/ (t \in ready /\ u \notin ready)
    BY <1>2 DEF Turns
  <2>2. PICK l \in DOMAIN pending, m \in DOMAIN pending :
          l < m /\ pending'[j] = pending[l] /\ pending'[k] = pending[m]
    BY <2>1, <1>4
  <2> QED BY <2>1, <2>2 DEF OrderInv, Turns
<1> QED BY <1>6, <1>7, <1>8 DEF OrderInv

LEMMA OrderGone ==
  ASSUME Gone
  PROVE  OrderInv'
<1>1. DOMAIN pending' = {} /\ ready' = {} /\ client' = Stdin
  BY DEF Gone
<1> QED BY <1>1 DEF OrderInv, Queue, Round, Turns

LEMMA OrderStep ==
  ASSUME BookInv, OrderInv, [Next]_vars
  PROVE  OrderInv'
<1>1. CASE GuestStep \/ CallCheckpoint \/ CallRestore \/ CallRefused \/ Train \/ Launch \/ Kill \/ Type
  BY <1>1, GuestShape, OrderConnects, OrderGoes DEF BookInv, host
<1>2. CASE \/ ServeGET \/ ServeSET \/ ServeCKP \/ ServeRES \/ ServeEOF \/ ServeEND
           \/ ServeName \/ ServeBody \/ SendFile \/ SendFilesEnd \/ AnswerCKY \/ RevertSnapshot
           \/ DeleteSnapshot \/ CreateSnapshot \/ ReadTimeout \/ Misread
  BY <1>2, ServeShape, OrderServes, OrderReturns
<1>3. CASE UNCHANGED vars
  BY <1>3, OrderIdle DEF vars, guest, host
<1>4. CASE Abort \/ Unsupported \/ Crash
  BY <1>4, OrderGone DEF Abort, Unsupported, Crash
<1> QED BY <1>1, <1>2, <1>3, <1>4, OrderSelect, OrderIdle, OrderAccept, OrderServe
        DEF Next, ServerStep

LEMMA OrderInit == Init => OrderInv
  BY DEF Init, OrderInv, Queue, Round, Turns

LEMMA OrderAlways == Spec => []OrderInv
<1>1. BookInv /\ OrderInv /\ [Next]_vars => OrderInv'
  BY OrderStep
<1> QED BY OrderInit, BookAlways, <1>1, PTL DEF Spec

\* Who is served has nobody older behind it who has said something.
LEMMA ServeOldest ==
  ASSUME BookInv, OrderInv, Serve,
         NEW i \in DOMAIN pending, NEW j \in DOMAIN pending, pending[i] = fd[client'], j < i
  PROVE  conn[pending[j]].up = <<>>
<1> SUFFICES ASSUME conn[pending[j]].up # <<>> PROVE FALSE
  OBVIOUS
<1>1. client' \in Slot /\ client' \in ready /\ \A k \in ready : client' <= k
  BY DEF Serve, Turn
<1>2. Accepted(pending[i])
  BY <1>1 DEF Accepted
<1>3. PICK s \in Slot : fd[s] = pending[j]
  BY <1>2 DEF OrderInv, Queue, Accepted
<1>4. s \in ready /\ s < client'
  BY <1>1, <1>3 DEF OrderInv, Turns
<1> QED BY <1>1, <1>4, Places

\* Only serving a connection takes the server from its loop to a header.
LEMMA OnlyServe ==
  ASSUME BookInv, [Next]_vars, spc = "scan", spc' = "header"
  PROVE  Serve
<1>1. CASE GuestStep \/ CallCheckpoint \/ CallRestore \/ CallRefused \/ Train \/ Launch \/ Kill \/ Type
  BY <1>1, GuestShape DEF BookInv, host
<1>2. CASE \/ ServeGET \/ ServeSET \/ ServeCKP \/ ServeRES \/ ServeEOF \/ ServeEND
           \/ ServeName \/ ServeBody \/ SendFile \/ SendFilesEnd \/ AnswerCKY \/ RevertSnapshot
           \/ DeleteSnapshot \/ CreateSnapshot \/ ReadTimeout \/ Misread
  <2>1. client # Stdin
    BY <1>2, ServeShape DEF Serves, Returns
  <2> QED BY <2>1 DEF BookInv, Place, Serving
<1>3. CASE Select \/ StdinTurn \/ CinLine \/ CinWord \/ Accept \/ Restart
  BY <1>3 DEF Select, StdinTurn, CinLine, CinWord, Accept, Restart, DoneWith, host
<1>4. CASE Abort \/ Unsupported \/ Crash \/ UNCHANGED vars
  BY <1>4 DEF Abort, Unsupported, Crash, Gone, vars, host
<1> QED BY <1>1, <1>2, <1>3, <1>4 DEF Next, ServerStep

\* Whatever descriptors its connections were given, a restore is never overtaken
\* by what the guest, or the one launched after it, sends later: the loop of
\* CPServer::start over readSockSet (CPServer.cpp) with accept() before the clients.
THEOREM OrderKept == Spec => NoOvertaking
<1>1. BookInv /\ OrderInv /\ [Next]_vars =>
        (\A i, j \in DOMAIN pending :
           /\ spc = "scan" /\ spc' = "header"
           /\ pending[i] = fd[client'] /\ j < i
           => conn[pending[j]].up = <<>>)
  BY OnlyServe, ServeOldest
<1> QED BY <1>1, BookAlways, OrderAlways, PTL DEF Spec, NoOvertaking

-------------------------------------------------------------------------------
(* The invariant behind BackupBeforeRevert *)

\* The other connections the server has not closed: of a guest that closed them,
\* was killed or was reverted away.  Silent: none has a word left to say.
\* Harmless: none has more than a farewell.
Others   == {c \in Conn : conn[c].srv = "open" /\ c # vm.sock}
Silent   == \A c \in Others : conn[c].up = <<>> /\ (Served = c => spc \in {"header", "astray"})
Harmless == \A c \in Others : /\ conn[c].up \in {<<>>, <<Hdr("END")>>, <<Hdr("RES")>>}
                              /\ Served = c => spc \in {"header", "revert", "astray"}

\* The server has come to the guest's connection, or the guest has just heard END.
HeardOut == \/ vm.sock \in Conn /\ (Served = vm.sock \/ conn[vm.sock].srv # "open")
            \/ vm.pc \in {"toRES", "RES"}

\* Behind doGET: the guest has all the files the server has.
Owner == vm.pc \in {"set", "setBody", "end"} \/ (vm.pc = "run" /\ vm.chk)

\* Where a guest that comes out of a snapshot can be.
Restorable(g) ==
  /\ g.pc \in {"dead", "run", "CKP", "ckp", "ping", "toGET", "GET", "get"}
  /\ g.pc \in {"run", "CKP", "ckp", "ping"} => ~g.chk

OthersInv ==
  /\ HeardOut => Silent
  /\ Owner => Harmless
  /\ vm.sock = Stale => Restorable(vm)
  /\ vm.pc \in {"CKP", "ckp", "ping"} => ~vm.chk
  /\ snap # NoSnap => Restorable(snap)
  /\ vm.pc \in {"get", "name", "body"} /\ vm.sock \in Conn /\ ~HeardOut =>
       vm.pc = "get" /\ conn[vm.sock].down = <<>>
  /\ vm.pc = "end" /\ vm.sock \in Conn =>
       (conn[vm.sock].srv = "open" => conn[vm.sock].down = <<>>)

\* What doGET has still to bring to a guest that holds files: the server, at p,
\* has sent or still has to send (td) each of its files sf; nothing follows EOF.
Fetch(files, r, p, sf, td) ==
  /\ \A k \in DOMAIN r.down : /\ r.down[k].kind = "body" => r.down[k].ver # Absent
                              /\ r.down[k].kind = "EOF" => k = Len(r.down) /\ p # "send"
  /\ p = "send" \/ (\E k \in DOMAIN r.down : r.down[k].kind = "EOF") =>
       \A f \in Present(sf) : \/ files[f] # Absent
                              \/ \E k \in DOMAIN r.down : r.down[k] = Name(f)
                              \/ p = "send" /\ f \in td

FetchInv ==
  /\ vm.sock \in Conn /\ vm.pc \in {"get", "name", "body"} =>
       Fetch(vm.file, conn[vm.sock], Pos(vm.sock), sfile, todo)
  /\ todo \subseteq Present(sfile) /\ (spc # "send" => todo = {})
  /\ Owner \/ vm.pc \in {"toRES", "RES"} => Present(sfile) \subseteq Present(vm.file)

\* What doSET has still to bring to the server, at p and writing file cu of its
\* files sf, of what the guest g holds.
Store(g, r, p, sf, cu) ==
  /\ \A k \in DOMAIN r.up :
       /\ r.up[k].kind = "name" =>
            /\ r.up[k].file \in Present(g.file)
            /\ k < Len(r.up) => r.up[k + 1] = Body(g.file[r.up[k].file])
       /\ r.up[k].kind = "EOF" => k = Len(r.up)
  /\ g.todo \subseteq Present(g.file)
  /\ p = "body" => cu \in Present(g.file) /\ (r.up # <<>> => r.up[1] = Body(g.file[cu]))
  /\ \A f \in Present(g.file) : \/ f \in g.todo
                                \/ \E k \in DOMAIN r.up : r.up[k] = Name(f)
                                \/ p = "body" /\ cu = f
                                \/ sf[f] = g.file[f]
  /\ g.pc = "setBody" => IF r.up = <<>> THEN p = "body" /\ cu = g.cur
                                        ELSE r.up[Len(r.up)] = Name(g.cur)
  /\ g.pc = "end" => g.todo = {}

StoreInv ==
  /\ vm.sock \in Conn /\ vm.pc \in {"set", "setBody", "end"} /\ Pos(vm.sock) # "gone" =>
       Store(vm, conn[vm.sock], Pos(vm.sock), sfile, cur)
  /\ vm.sock \in Conn /\ vm.pc = "end" /\ conn[vm.sock].down # <<>> => sfile = vm.file

\* A request to restore: it comes alone, and nobody is, or will be, heard before it.
IsRES(c) == conn[c].srv = "open" /\ conn[c].up = <<Hdr("RES")>>
Restoring == vm.pc \in {"toRES", "RES"} \/ spc = "revert" \/ \E c \in Conn : IsRES(c)

RestoreInv ==
  /\ \A c \in Conn : conn[c].srv = "open" => NoRES(conn[c]) \/ IsRES(c)
  /\ \A j \in DOMAIN pending : IsRES(pending[j]) =>
       /\ \A i \in DOMAIN pending : i < j => conn[pending[i]].up = <<>>
       /\ client # Stdin => spc \in {"header", "astray"} /\ conn[Served].up = <<>>
  /\ Restoring => sfile = saved

\* A guest that is being answered, or is about to ask for the revert, has said
\* nothing that is not read, by a server that is out of place either.
OutOfWords ==
  vm.pc \in {"RES", "name", "body"} \/ (vm.pc = "get" /\ conn[vm.sock].down # <<>>)
AstrayInv ==
  spc = "astray" /\ vm.sock = Served /\ OutOfWords => conn[vm.sock].up = <<>>

Backup    == OthersInv /\ FetchInv /\ StoreInv /\ RestoreInv
BackupInv == FrameInv /\ OrderInv /\ AstrayInv /\ Backup

\* What the steps below start from.
LEMMA Known ==
  ASSUME BackupInv
  PROVE  /\ TypeOK /\ BookInv /\ FrameInv /\ OrderInv
         /\ OthersInv /\ FetchInv /\ StoreInv /\ RestoreInv /\ AstrayInv
         /\ vm \in Guest /\ vm \in GuestRecord
         /\ vm.sock = NoConn <=> vm.pc \in {"run", "toGET", "toRES", "dead"}
         /\ vm.sock \in Conn \cup {NoConn, Stale}
         /\ conn \in [Conn -> ConnState]
         /\ NoConn \notin Conn /\ Stale \notin Conn /\ NoConn # Stale
  BY DEF BackupInv, Backup, FrameInv, BookInv, TypeOK, Guest, GuestRecord

-------------------------------------------------------------------------------
(* The guest's steps *)

\* Steps that do not say RES leave the requests to restore as they were.
LEMMA RestoreStays ==
  ASSUME BackupInv, Goes, UNCHANGED <<fd, spc, client, sfile, saved>>,
         vm.sock \in Conn /\ conn'[vm.sock].srv = "open" => NoRES(conn'[vm.sock]),
         vm'.pc \in {"toRES", "RES"} => vm.pc \in {"toRES", "RES"}
  PROVE  RestoreInv'
<1>1. \A c \in Conn : c # vm.sock => conn'[c] = conn[c]
  BY DEF Goes
<1>2. Served' = Served /\ pending' = pending
  BY DEF Served, Goes
<1>3. \A c \in Conn : conn'[c].srv = "open" => NoRES(conn'[c]) \/ IsRES(c)'
  BY <1>1, Known DEF RestoreInv, IsRES
<1>4. ASSUME NEW c \in Conn, IsRES(c)' PROVE c # vm.sock /\ IsRES(c)
  <2>1. c # vm.sock
    <3>1. conn'[c].srv = "open" /\ conn'[c].up = <<Hdr("RES")>>
      BY <1>4 DEF IsRES
    <3>2. ~NoRES(conn'[c])
      BY <3>1 DEF NoRES, Hdr
    <3> QED BY <3>1, <3>2
  <2> QED BY <2>1, <1>1, <1>4 DEF IsRES
<1>5. ASSUME NEW j \in DOMAIN pending, IsRES(pending[j])'
      PROVE  /\ \A i \in DOMAIN pending : i < j => conn'[pending[i]].up = <<>>
             /\ client # Stdin => spc \in {"header", "astray"} /\ conn'[Served].up = <<>>
  <2>1. pending[j] \in Conn /\ pending[j] # vm.sock /\ IsRES(pending[j])
    <3>1. pending[j] \in Conn /\ conn'[pending[j]].srv = "open" /\ conn'[pending[j]].up = <<Hdr("RES")>>
      BY <1>2, <1>5, Places, Known DEF IsRES
    <3> QED BY <3>1, <1>4 DEF IsRES
  <2>2. \A i \in DOMAIN pending : i < j => pending[i] \in Conn /\ pending[i] # vm.sock
    BY Places, Known DEF OrderInv, Queue
  <2>3. Served # vm.sock \/ client = Stdin
    <3>1. SUFFICES ASSUME Served = vm.sock, client # Stdin PROVE FALSE
      OBVIOUS
    <3>2. HeardOut
      BY <3>1, ServedConn, Known DEF HeardOut
    <3>3. pending[j] \in Others /\ conn[pending[j]].up # <<>>
      BY <2>1 DEF Others, IsRES
    <3> QED BY <3>2, <3>3, Known DEF OthersInv, Silent
  <2>4. client # Stdin => Served \in Conn
    BY ServedConn, Known
  <2> QED BY <2>1, <2>2, <2>3, <2>4, <1>1, Known DEF RestoreInv
<1>6. Restoring' => Restoring
  BY <1>4 DEF Restoring
<1> QED BY <1>2, <1>3, <1>5, <1>6, Known DEF RestoreInv

\* The guest is gone from its conversation, and owns nothing.
LEMMA Leaving ==
  ASSUME BackupInv, Goes, UNCHANGED <<fd, host, saved, snap>>,
         vm'.sock = NoConn,
         vm'.pc \in {"dead", "toGET"} \/ (vm'.pc = "run" /\ ~vm'.chk),
         vm.sock \in Conn /\ conn'[vm.sock].srv = "open" => NoRES(conn'[vm.sock])
  PROVE  Backup'
<1>1. UNCHANGED <<spc, client, sfile, todo, cur>>
  BY DEF host
<1>2. ~HeardOut' /\ ~Owner'
  BY DEF HeardOut, Owner
<1>3. OthersInv'
  BY <1>2, Known DEF OthersInv
<1>4. FetchInv' /\ StoreInv'
  BY <1>1, <1>2, Known DEF FetchInv, StoreInv
<1>5. RestoreInv'
  BY <1>1, RestoreStays
<1> QED BY <1>3, <1>4, <1>5 DEF Backup

\* What the guest has of its connection, and how it may be closed.
LEMMA Mine ==
  ASSUME BackupInv, vm.sock \in Conn
  PROVE  /\ conn[vm.sock] \in ConnState /\ conn[vm.sock].cli = "open" /\ NoRES(conn[vm.sock])
         /\ Talk(vm.pc, conn[vm.sock], Pos(vm.sock))
         /\ vm.pc \notin {"run", "toGET", "toRES", "dead"}
         /\ Pos(vm.sock) # "gone" => conn[vm.sock].srv = "open"
<1>1. conn[vm.sock] \in ConnState /\ conn[vm.sock].cli = "open"
  BY Known DEF BookInv, Bookkeeping
<1>2. NoRES(conn[vm.sock])
  BY <1>1, Known DEF BookInv, Farewell, NoRES
<1> QED BY <1>1, <1>2, Known, Speaking

\* A server that is connected to the guest and not at its messages is astray.
LEMMA Listened ==
  ASSUME BackupInv, vm.sock \in Conn, conn[vm.sock].srv = "open", Pos(vm.sock) = "gone"
  PROVE  Served = vm.sock /\ spc = "astray"
  BY Known DEF Pos, BookInv, TypeOK, ServerPC

LEMMA Closing ==
  ASSUME NEW r \in ConnState
  PROVE  /\ CliClose(r).srv = "open" => CliClose(r).up = r.up
         /\ NoRES(r) => NoRES(CliClose(r))
<1>1. CliClose(r) = FreeConn \/ CliClose(r).up = r.up
  BY DEF CliClose, Settled, ConnState
<1>2. FreeConn.srv # "open" /\ NoRES(FreeConn)
  BY DEF FreeConn, NoRES
<1> QED BY <1>1, <1>2 DEF NoRES

\* The guest ends, is started, or gives up an answer.
LEMMA LeavingSteps ==
  ASSUME BackupInv,
         Refused \/ CallRefused \/ Kill \/ ReadReset \/ Launch \/ PingDone \/ RecvCKN \/ RecvCKY
  PROVE  Backup'
<1>1. Goes /\ UNCHANGED <<fd, host, snap>>
  <2>1. Goes \/ Connects
    BY GuestShape, Known DEF GuestStep, BookInv
  <2>2. pending' = pending /\ UNCHANGED <<fd, host, snap>>
    BY DEF Refused, CallRefused, Kill, ReadReset, Launch, PingDone, RecvCKN, RecvCKY, Receive
  <2>3. Connects => pending' # pending
    BY Known, AppendProperties DEF BookInv, TypeOK, Connects
  <2> QED BY <2>1, <2>2, <2>3
<1>2. saved' = saved
  BY DEF Refused, CallRefused, Kill, ReadReset, Launch, PingDone, RecvCKN, RecvCKY, Receive
<1>3. Halted(vm).sock = NoConn /\ Started(vm).sock = NoConn
      /\ Halted(vm).pc = "dead" /\ Started(vm).pc = "run" /\ ~Started(vm).chk
  BY Known DEF Halted, Started, GuestRecord
<1>4. vm'.sock = NoConn /\ (vm'.pc \in {"dead", "toGET"} \/ (vm'.pc = "run" /\ ~vm'.chk))
  <2>1. CASE Refused \/ CallRefused \/ Kill \/ ReadReset \/ Launch
    BY <2>1, <1>3 DEF Refused, CallRefused, Kill, ReadReset, Launch
  <2>2. CASE PingDone \/ RecvCKY
    BY <2>2, Known DEF PingDone, RecvCKY, Receive, GuestRecord
  <2>3. CASE RecvCKN
    <3>1. ~vm.chk
      BY <2>3, Known DEF RecvCKN, OthersInv
    <3> QED BY <3>1, <2>3, Known DEF RecvCKN, Receive, GuestRecord
  <2> QED BY <2>1, <2>2, <2>3
<1>5. ASSUME vm.sock \in Conn PROVE NoRES(conn'[vm.sock])
  <2>. DEFINE old == conn[vm.sock]
  <2>1. old \in ConnState /\ NoRES(old)
    BY <1>5, Mine
  <2>2. old.down # <<>> => Taken \in ConnState /\ Taken.up = old.up
    BY <2>1, TakeType DEF Taken, Sock, ConnState
  <2>3. \/ conn'[vm.sock] = old
        \/ conn'[vm.sock] = CliClose(old)
        \/ old.down # <<>> /\ conn'[vm.sock] = CliClose(Taken)
    BY <1>4, <1>5, Known DEF Refused, CallRefused, Kill, ReadReset, Launch, PingDone, RecvCKN, RecvCKY, Receive,
       Sock, Taken, GuestRecord
  <2>4. old.down # <<>> => NoRES(Taken)
    BY <2>1, <2>2 DEF NoRES
  <2> HIDE DEF old
  <2> QED BY <2>1, <2>2, <2>3, <2>4, Closing
<1> QED BY <1>1, <1>2, <1>4, <1>5, Leaving

\* A write to a connection that the server, or a snapshot, has done away with.
LEMMA SendingDies ==
  ASSUME BackupInv, NEW ms, NEW g, Send(ms, g), vm.sock \in Conn \cup {Stale},
         vm.sock = Stale \/ conn[vm.sock].srv = "rst"
  PROVE  Backup'
<1>1. vm' = Halted(vm) /\ UNCHANGED <<saved, snap, pending, fd, host>>
      /\ conn' = IF vm.sock = Stale THEN conn ELSE [conn EXCEPT ![vm.sock] = CliClose(@)]
  BY DEF Send, Sock
<1>2. vm'.sock = NoConn /\ vm'.pc = "dead"
  BY <1>1, Known DEF Halted, GuestRecord
<1>3. Goes
  BY <1>1, <1>2, Known DEF Goes
<1>4. vm.sock \in Conn => NoRES(conn'[vm.sock])
  BY <1>1, Mine, Closing, Known
<1> QED BY <1>1, <1>2, <1>3, <1>4, Leaving

\* The guest stays in its conversation: nothing changes for the others.
LEMMA OthersStay ==
  ASSUME Goes, UNCHANGED <<fd, spc, client>>, vm'.sock = vm.sock
  PROVE  Others' = Others /\ (Silent' <=> Silent) /\ (Harmless' <=> Harmless) /\ Served' = Served
<1>1. Others' = Others /\ \A c \in Others : conn'[c] = conn[c]
  BY DEF Others, Goes
<1>2. Served' = Served
  BY DEF Served
<1> QED BY <1>1, <1>2 DEF Silent, Harmless

LEMMA Staying ==
  ASSUME BackupInv, Goes, UNCHANGED <<fd, spc, client, snap>>, vm'.sock = vm.sock,
         vm.sock \in Conn => (conn'[vm.sock].srv = "open" <=> conn[vm.sock].srv = "open"),
         {vm.pc, vm'.pc} \cap {"toRES", "RES"} = {}, Owner' => Owner,
         vm.sock = Stale => Restorable(vm'),
         vm'.pc \in {"CKP", "ckp", "ping"} => ~vm'.chk,
         vm'.pc \in {"get", "name", "body"} /\ vm.sock \in Conn /\ ~HeardOut =>
           vm'.pc = "get" /\ conn'[vm.sock].down = <<>>,
         vm'.pc = "end" /\ vm.sock \in Conn =>
           (conn'[vm.sock].srv = "open" => conn'[vm.sock].down = <<>>)
  PROVE  OthersInv'
<1>1. (Silent' <=> Silent) /\ (Harmless' <=> Harmless) /\ Served' = Served
  BY OthersStay
<1>2. HeardOut' => HeardOut
  BY <1>1 DEF HeardOut
<1>3. vm.sock \in Conn => (HeardOut' <=> HeardOut)
  BY <1>1 DEF HeardOut
<1>4. vm'.pc \in {"get", "name", "body"} /\ vm.sock \in Conn /\ ~HeardOut' =>
        vm'.pc = "get" /\ conn'[vm.sock].down = <<>>
  BY <1>3
<1>5. HeardOut' => Silent'
  BY <1>1, <1>2, Known DEF OthersInv
<1>6. Owner' => Harmless'
  BY <1>1, Known DEF OthersInv
<1>7. vm'.sock = Stale => Restorable(vm')
  OBVIOUS
<1>8. snap' # NoSnap => Restorable(snap')
  BY Known DEF OthersInv
<1> QED BY <1>4, <1>5, <1>6, <1>7, <1>8 DEF OthersInv

\* Steps that leave alone all that the two ends say and hold.
LEMMA Unheard ==
  ASSUME BackupInv, UNCHANGED <<conn, pending, fd, host, saved, snap>>,
         \/ vm' = vm
         \/ /\ vm.pc \in {"ckp", "get", "end"} /\ vm'.sock = vm.sock /\ vm'.file = vm.file
            /\ vm'.chk = vm.chk /\ vm'.todo = vm.todo /\ vm'.cur = vm.cur
            /\ (vm'.pc = vm.pc \/ (vm.pc = "ckp" /\ vm'.pc = "ping"))
  PROVE  Backup'
<1>1. /\ Served' = Served /\ UNCHANGED <<spc, client, sfile, todo, cur>> /\ Goes
      /\ UNCHANGED <<vm.sock, vm.file, vm.chk>>
  BY DEF Served, host, Goes
<1>2. CASE vm' = vm
  <2>1. UNCHANGED <<Others, Owner>> /\ UNCHANGED <<Silent, Harmless, HeardOut, Restoring>>
    BY <1>1, <1>2 DEF Others, Silent, Harmless, HeardOut, Owner, Restoring, IsRES
  <2>2. OthersInv'
    BY <1>1, <1>2, <2>1, Known DEF OthersInv
  <2>3. FetchInv' /\ StoreInv'
    BY <1>1, <1>2, <2>1, Known DEF FetchInv, StoreInv, Pos
  <2>4. RestoreInv'
    BY <1>1, <1>2, <2>1, Known DEF RestoreInv, IsRES
  <2> QED BY <2>2, <2>3, <2>4 DEF Backup
<1>3. CASE vm.pc \in {"ckp", "get", "end"} /\ vm'.pc \in {"ckp", "ping", "get", "end"} /\ vm'.todo = vm.todo
           /\ (vm'.pc = vm.pc \/ (vm.pc = "ckp" /\ vm'.pc = "ping"))
  <2>1. (Owner' <=> Owner) /\ vm'.pc \notin {"toRES", "RES"} /\ \A c : Pos(c)' = Pos(c)
    BY <1>1, <1>3 DEF Owner, Pos
  <2>2. Restorable(vm) => Restorable(vm')
    BY <1>1, <1>3 DEF Restorable
  <2>3. OthersInv'
    BY <1>1, <1>3, <2>1, <2>2, Known, Staying DEF OthersInv
  <2>4. FetchInv'
    BY <1>1, <1>3, <2>1, Known DEF FetchInv
  <2>5. StoreInv'
    BY <1>1, <1>3, <2>1, Known DEF StoreInv, Store
  <2>6. RestoreInv'
    BY <1>1, <1>3, RestoreStays, Mine
  <2> QED BY <2>3, <2>4, <2>5, <2>6 DEF Backup
<1> QED BY <1>2, <1>3

\* What the program, the user and the timeouts do.
LEMMA QuietSteps ==
  ASSUME BackupInv, CkpTimeout \/ WaitTimeout \/ Type \/ Train
  PROVE  Backup'
<1>1. CASE CkpTimeout \/ WaitTimeout \/ Type
  <2>1. UNCHANGED <<conn, pending, fd, host, saved, snap>>
    BY <1>1 DEF CkpTimeout, WaitTimeout, Type, guest
  <2>2. CASE CkpTimeout
    BY <2>1, <2>2, Unheard, Known DEF CkpTimeout, GuestRecord
  <2>3. CASE WaitTimeout
    BY <2>1, <2>3, Unheard, Known DEF WaitTimeout, GuestRecord
  <2>4. CASE Type
    BY <2>1, <2>4, Unheard DEF Type, guest
  <2> QED BY <1>1, <2>2, <2>3, <2>4
<1>2. CASE Train
  <2>1. /\ vm.pc = "run" /\ vm.sock = NoConn /\ vm'.pc = "run" /\ vm'.sock = NoConn
        /\ vm'.chk = vm.chk
        /\ \E d \in SUBSET Files : vm'.file = [f \in Files |-> IF f \in d THEN made' ELSE vm.file[f]]
        /\ UNCHANGED <<conn, pending, fd, host, saved, snap>>
    <3>1. PICK d \in SUBSET Files :
            vm' = [vm EXCEPT !.file = [f \in Files |-> IF f \in d THEN made' ELSE @[f]]]
      BY <1>2, Zenon DEF Train
    <3>2. vm \in GuestRecord /\ vm.pc = "run" /\ vm.sock = NoConn
      BY <1>2, Known DEF Train
    <3>3. /\ vm'.pc = vm.pc /\ vm'.sock = vm.sock /\ vm'.chk = vm.chk
          /\ vm'.file = [f \in Files |-> IF f \in d THEN made' ELSE vm.file[f]]
      BY <3>1, <3>2 DEF GuestRecord
    <3>4. UNCHANGED <<conn, pending, fd, host, saved, snap>>
      BY <1>2, Zenon DEF Train
    <3> QED BY <3>2, <3>3, <3>4
  <2>2. UNCHANGED <<spc, client, sfile, todo, cur>>
    BY <2>1 DEF host
  <2>3. made' # Absent
    BY <1>2, Known DEF Train, TypeOK, Absent
  <2>4. Goes
    BY <2>1 DEF Goes
  <2>5. OthersInv'
    BY <2>1, <2>2, <2>4, Staying, Known DEF Owner
  <2>6. FetchInv'
    <3>1. Present(vm.file) \subseteq Present(vm'.file)
      BY <2>1, <2>3 DEF Present
    <3> QED BY <3>1, <2>1, <2>2, Known DEF FetchInv, Owner
  <2>7. StoreInv'
    BY <2>1, Known DEF StoreInv
  <2>8. RestoreInv'
    BY <2>1, <2>2, <2>4, RestoreStays, Known
  <2> QED BY <2>5, <2>6, <2>7, <2>8 DEF Backup
<1> QED BY <1>1, <1>2

\* A write to a connection that is still there.
LEMMA Writes ==
  ASSUME BackupInv, NEW ms \in Seq(Msg), NEW g, Send(ms, g), vm.sock \in Conn,
         conn[vm.sock].srv # "rst", NEW r, r = Up(conn[vm.sock], ms)
  PROVE  /\ vm' = g /\ UNCHANGED <<saved, snap, pending, fd, host>>
         /\ conn' = [conn EXCEPT ![vm.sock] = IF g.sock = NoConn THEN CliClose(r) ELSE r]
         /\ r \in ConnState /\ r.down = conn[vm.sock].down
         /\ r.srv = "open" <=> conn[vm.sock].srv = "open"
         /\ r.srv = "open" => r.up = conn[vm.sock].up \o ms
<1>1. conn[vm.sock] \in ConnState /\ vm.sock # Stale
  BY Mine, Known
<1>2. r \in ConnState
  BY <1>1, ConnType
<1>3. r.srv = "open" <=> conn[vm.sock].srv = "open"
  BY <1>1, EndsApart
<1> QED BY <1>1, <1>2, <1>3, UpWords DEF Send, Sock

\* The requests that bring nothing with them.
LEMMA AskingSteps ==
  ASSUME BackupInv, SendCKP \/ SendGET
  PROVE  Backup'
<1>. DEFINE old == conn[vm.sock]
<1>1. vm.sock \in Conn \cup {Stale}
  BY Known DEF SendCKP, SendGET
<1>2. CASE vm.sock = Stale \/ old.srv = "rst"
  BY <1>1, <1>2, SendingDies DEF SendCKP, SendGET
<1>3. CASE vm.sock \in Conn /\ old.srv # "rst"
  <2>1. PICK h \in {"CKP", "GET"} : /\ vm.pc = h
                                    /\ Send(<<Hdr(h)>>, [vm EXCEPT !.pc = IF h = "CKP" THEN "ckp" ELSE "get"])
    BY DEF SendCKP, SendGET
  <2>. DEFINE ms == <<Hdr(h)>>
              g == [vm EXCEPT !.pc = IF h = "CKP" THEN "ckp" ELSE "get"]
              r == Up(old, ms)
  <2>2. ms \in Seq(Msg) /\ \A i \in DOMAIN ms : ms[i].kind # "RES"
    BY <2>1, OneMsg, HeaderKinds
  <2>3. /\ g.pc = (IF h = "CKP" THEN "ckp" ELSE "get") /\ g.sock = vm.sock /\ g.file = vm.file
        /\ g.chk = vm.chk
    BY <2>1, Known DEF GuestRecord
  <2> HIDE DEF ms, g
  <2>4. /\ vm' = g /\ UNCHANGED <<saved, snap, pending, fd, host>>
        /\ conn' = [conn EXCEPT ![vm.sock] = r]
        /\ r \in ConnState /\ r.down = old.down /\ (r.srv = "open" <=> old.srv = "open")
    <3>1. Send(ms, g)
      BY <2>1 DEF ms, g
    <3> HIDE DEF r
    <3>2. r = Up(old, ms)
      BY DEF r
    <3>3. /\ vm' = g /\ UNCHANGED <<saved, snap, pending, fd, host>>
          /\ conn' = [conn EXCEPT ![vm.sock] = IF g.sock = NoConn THEN CliClose(r) ELSE r]
          /\ r \in ConnState /\ r.down = old.down /\ (r.srv = "open" <=> old.srv = "open")
      BY <3>1, <3>2, <2>2, <1>3, Writes
    <3> QED BY <3>3, <2>3, <1>3, Known
  <2>5. old.down = <<>> /\ old \in ConnState /\ NoRES(old)
    BY <1>3, <2>1, Mine DEF Talk
  <2>6. NoRES(r)
    BY <2>2, <2>5, UpNoRES
  <2> HIDE DEF r
  <2>7. UNCHANGED <<spc, client, sfile, todo, cur>> /\ Goes
    BY <2>3, <2>4 DEF host, Goes
  <2>8. vm'.pc \in {"ckp", "get"} /\ vm'.sock = vm.sock /\ vm'.chk = vm.chk /\ conn'[vm.sock] = r
        /\ (vm'.pc = "ckp" => vm.pc = "CKP") /\ vm.pc \in {"CKP", "GET"} /\ vm'.file = vm.file
    BY <1>3, <2>1, <2>3, <2>4, Known
  <2>9. OthersInv'
    <3>1. vm'.pc \in {"CKP", "ckp", "ping"} => ~vm'.chk
      BY <2>8, Known DEF OthersInv
    <3>2. ~Owner'
      BY <2>8 DEF Owner
    <3> QED BY <3>1, <3>2, <1>3, <2>4, <2>5, <2>7, <2>8, Staying, Known
  <2>10. FetchInv'
    <3>1. Pos(vm.sock)' = Pos(vm.sock)
      BY <2>4, <2>7, <2>8 DEF Pos, Served
    <3>2. Pos(vm.sock) # "send"
      BY <1>3, <2>8, Mine DEF Talk
    <3>3. r.down = <<>>
      BY <2>4, <2>5
    <3>4. Fetch(vm'.file, r, Pos(vm.sock), sfile, todo)
      BY <3>2, <3>3 DEF Fetch
    <3> QED BY <3>1, <3>4, <2>7, <2>8, Known DEF FetchInv, Owner
  <2>11. StoreInv'
    BY <2>8 DEF StoreInv
  <2>12. RestoreInv'
    BY <2>4, <2>6, <2>7, <2>8, RestoreStays
  <2> QED BY <2>9, <2>10, <2>11, <2>12 DEF Backup
<1> QED BY <1>1, <1>2, <1>3

\* The guest takes a message of the files it fetches.
LEMMA FetchTake ==
  ASSUME NEW r \in ConnState, r.down # <<>>, NEW files, NEW files2, NEW p, NEW sf, NEW td,
         Fetch(files, r, p, sf, td),
         \A f \in Files : files[f] # Absent \/ Head(r.down) = Name(f) => files2[f] # Absent,
         NEW t, t.down = Tail(r.down)
  PROVE  Fetch(files2, t, p, sf, td)
<1>1. /\ r.down \in Seq(Msg) /\ Tail(r.down) \in Seq(Msg) /\ Len(r.down) \in Nat /\ Len(r.down) # 0
      /\ Len(t.down) = Len(r.down) - 1 /\ DOMAIN r.down = 1 .. Len(r.down)
      /\ DOMAIN t.down = 1 .. Len(t.down)
      /\ \A k \in 1 .. Len(t.down) : t.down[k] = r.down[k + 1]
      /\ Head(r.down) = r.down[1]
  BY HeadTailProperties, LenProperties, EmptySeq DEF ConnState
<1>. DEFINE n == Len(r.down)
<1>2. ASSUME NEW k \in DOMAIN t.down PROVE k + 1 \in DOMAIN r.down /\ t.down[k] = r.down[k + 1]
  <2>1. k \in 1 .. (n - 1)
    BY <1>1
  <2>2. n \in Int /\ k \in Int
    BY <1>1, <2>1
  <2> HIDE DEF n
  <2>3. k + 1 \in 1 .. n
    BY <2>1, <2>2
  <2> QED BY <2>3, <1>1, <1>2 DEF n
<1>3. ASSUME NEW k \in DOMAIN r.down, k # 1 PROVE k - 1 \in DOMAIN t.down /\ t.down[k - 1] = r.down[k]
  <2>1. k \in 1 .. n
    BY <1>1
  <2>2. n \in Int /\ k \in Int
    BY <1>1, <2>1
  <2> HIDE DEF n
  <2>3. k - 1 \in 1 .. (n - 1) /\ (k - 1) + 1 = k
    BY <1>3, <2>1, <2>2
  <2> QED BY <2>3, <1>1 DEF n
<1>4. ASSUME NEW k \in DOMAIN t.down
      PROVE  /\ t.down[k].kind = "body" => t.down[k].ver # Absent
             /\ t.down[k].kind = "EOF" => k = Len(t.down) /\ p # "send"
  <2>1. k + 1 = n => k = n - 1
    BY <1>1, <1>2, LenProperties
  <2> QED BY <2>1, <1>1, <1>2, <1>4 DEF Fetch
<1>5. ASSUME p = "send" \/ (\E k \in DOMAIN t.down : t.down[k].kind = "EOF"),
             NEW f \in Present(sf)
      PROVE  \/ files2[f] # Absent
             \/ \E k \in DOMAIN t.down : t.down[k] = Name(f)
             \/ p = "send" /\ f \in td
  <2>1. p = "send" \/ (\E k \in DOMAIN r.down : r.down[k].kind = "EOF")
    BY <1>2, <1>5
  <2>2. f \in Files
    BY DEF Present
  <2>3. \/ files[f] # Absent
        \/ \E k \in DOMAIN r.down : r.down[k] = Name(f)
        \/ p = "send" /\ f \in td
    BY <2>1 DEF Fetch
  <2>4. ASSUME NEW k \in DOMAIN r.down, r.down[k] = Name(f)
        PROVE  files2[f] # Absent \/ \E j \in DOMAIN t.down : t.down[j] = Name(f)
    BY <1>1, <1>3, <2>2, <2>4
  <2> QED BY <2>2, <2>3, <2>4
<1> QED BY <1>4, <1>5 DEF Fetch

\* recvFile of the client, a message at a time.
LEMMA FetchingSteps ==
  ASSUME BackupInv, RecvSET \/ RecvName \/ RecvBody
  PROVE  Backup'
<1>. DEFINE old == conn[vm.sock]
<1>1. /\ vm.sock \in Conn /\ old.down # <<>> /\ UNCHANGED <<snap, pending, fd, host, saved>>
      /\ vm.pc \in {"get", "name", "body"}
  BY DEF RecvSET, RecvName, RecvBody, Receive, Sock
<1>2. old \in ConnState /\ NoRES(old) /\ old.srv = Taken.srv /\ old.up = Taken.up
      /\ Taken.down = Tail(old.down)
  BY <1>1, Mine, TakeType DEF Taken, Sock, ConnState
<1>3. HeardOut
  BY <1>1, Known DEF OthersInv
<1>4. Fetch(vm.file, old, Pos(vm.sock), sfile, todo)
  BY <1>1, Known DEF FetchInv
<1>5. /\ vm'.sock = vm.sock /\ vm'.chk = vm.chk /\ conn' = [conn EXCEPT ![vm.sock] = Taken]
      /\ vm'.pc \in {"get", "name", "body"}
      /\ \A f \in Files : vm.file[f] # Absent \/ Head(old.down) = Name(f) => vm'.file[f] # Absent
  <2>0. vm.sock # NoConn /\ vm.file \in [Files -> Content] /\ Torn # Absent
    BY <1>1, Known DEF GuestRecord, Torn, Absent
  <2>1. CASE RecvSET
    <3>1. Receive(Hdr("SET"), [vm EXCEPT !.pc = "name"])
      BY <2>1 DEF RecvSET
    <3>2. \A f \in Files : Head(old.down) # Name(f)
      BY <3>1 DEF Receive, Sock, Hdr, Name
    <3> QED BY <3>1, <3>2, <2>0, Known DEF Receive, GuestRecord
  <2>2. CASE RecvName
    <3>1. PICK f \in Files :
            Receive(Name(f), [vm EXCEPT !.pc = "body", !.cur = f, !.file[f] = Torn])
      BY <2>2 DEF RecvName
    <3>. DEFINE g == [vm EXCEPT !.pc = "body", !.cur = f, !.file[f] = Torn]
    <3>2. g.sock = vm.sock /\ g.chk = vm.chk
      BY Known DEF GuestRecord
    <3>3. g.pc = "body"
      BY Known DEF GuestRecord
    <3>4. g.file = [vm.file EXCEPT ![f] = Torn]
      BY Known DEF GuestRecord
    <3> HIDE DEF g
    <3>5. vm' = g /\ conn' = [conn EXCEPT ![vm.sock] = Taken] /\ Head(old.down) = Name(f)
      BY <3>1, <3>2, <2>0 DEF Receive, Sock, g
    <3>6. \A e \in Files : Name(e) = Name(f) => e = f
      BY DEF Name
    <3> QED BY <3>2, <3>3, <3>4, <3>5, <3>6, <2>0
  <2>3. CASE RecvBody
    <3>1. PICK v \in Content :
            Receive(Body(v), [vm EXCEPT !.pc = "get", !.cur = NoFile, !.file[vm.cur] = v])
      BY <2>3 DEF RecvBody
    <3>. DEFINE g == [vm EXCEPT !.pc = "get", !.cur = NoFile, !.file[vm.cur] = v]
    <3>2. g.sock = vm.sock /\ g.chk = vm.chk
      BY Known DEF GuestRecord
    <3>3. g.pc = "get"
      BY Known DEF GuestRecord
    <3>4. g.file = [vm.file EXCEPT ![vm.cur] = v]
      BY Known DEF GuestRecord
    <3> HIDE DEF g
    <3>5. vm' = g /\ conn' = [conn EXCEPT ![vm.sock] = Taken] /\ Head(old.down) = Body(v)
      BY <3>1, <3>2, <2>0 DEF Receive, Sock, g
    <3>6. v # Absent
      <4>1. 1 \in DOMAIN old.down /\ old.down[1] = Body(v)
        BY <1>1, <1>2, <3>5, HeadTailProperties, LenProperties, EmptySeq DEF ConnState
      <4>2. Body(v).kind = "body" /\ Body(v).ver = v
        BY DEF Body
      <4> QED BY <1>4, <4>1, <4>2 DEF Fetch
    <3>7. \A e \in Files : Body(v) # Name(e)
      BY DEF Body, Name
    <3> QED BY <3>2, <3>3, <3>4, <3>5, <3>6, <3>7, <2>0
  <2> QED BY <2>1, <2>2, <2>3
<1>6. UNCHANGED <<spc, client, sfile, todo, cur>> /\ Goes /\ conn'[vm.sock] = Taken
  BY <1>1, <1>5, Known DEF host, Goes
<1>7. Pos(vm.sock)' = Pos(vm.sock)
  BY <1>1, <1>2, <1>5, <1>6 DEF Pos, Served
<1>8. OthersInv'
  <2>1. ~Owner'
    BY <1>5 DEF Owner
  <2> QED BY <2>1, <1>1, <1>2, <1>3, <1>5, <1>6, Staying, Known
<1>9. FetchInv'
  <2>1. Fetch(vm'.file, Taken, Pos(vm.sock), sfile, todo)
    BY <1>1, <1>2, <1>4, <1>5, FetchTake
  <2> QED BY <2>1, <1>5, <1>6, <1>7, Known DEF FetchInv, Owner
<1>10. StoreInv'
  BY <1>5 DEF StoreInv
<1>11. RestoreInv'
  <2>1. NoRES(Taken)
    BY <1>2 DEF NoRES
  <2> QED BY <2>1, <1>1, <1>5, <1>6, RestoreStays
<1> QED BY <1>8, <1>9, <1>10, <1>11 DEF Backup

\* A new connection is nobody's but the guest's, and nothing is on it.
LEMMA ConnectingSteps ==
  ASSUME BackupInv, CallCheckpoint \/ CallRestore \/ StartGET \/ StartRES
  PROVE  Backup'
<1>1. PICK pc \in {"CKP", "set", "GET", "RES"}, files \in SUBSET Files :
        /\ Connect(pc, files)
        /\ vm.pc = (IF pc = "GET" THEN "toGET" ELSE IF pc = "RES" THEN "toRES" ELSE "run")
        /\ (pc = "CKP" => ~vm.chk) /\ (pc = "set" => vm.chk)
        /\ pc = "set" => files = Present(vm.file)
  BY DEF CallCheckpoint, CallRestore, StartGET, StartRES, Present
<1>2. PICK c \in Conn :
        /\ conn[c] = FreeConn /\ conn' = [conn EXCEPT ![c] = NewConn]
        /\ pending' = Append(pending, c)
        /\ vm' = [vm EXCEPT !.pc = pc, !.sock = c, !.watch = TRUE, !.todo = files]
  BY <1>1 DEF Connect
<1>3. UNCHANGED <<spc, client, sfile, todo, cur, fd, saved, snap>>
  BY <1>1 DEF Connect, host
<1>4. vm'.pc = pc /\ vm'.sock = c /\ vm'.chk = vm.chk /\ vm'.todo = files /\ vm'.file = vm.file
  BY <1>2, Known DEF GuestRecord
<1>5. vm.sock = NoConn
  BY <1>1, Known
<1>6. /\ \A d \in Conn : conn'[d] = IF d = c THEN NewConn ELSE conn[d]
      /\ conn[c].srv # "open" /\ NewConn.srv = "open" /\ NewConn.up = <<>> /\ NewConn.down = <<>>
  BY <1>2, Known DEF NewConn, FreeConn
<1>7. Served' = Served /\ Served # c
  BY <1>3, <1>6, Known DEF Served, BookInv, Bookkeeping
<1>8. Others' = Others /\ \A d \in Others : d # c /\ conn'[d] = conn[d]
  BY <1>4, <1>5, <1>6, Known DEF Others
<1>9. (Silent' <=> Silent) /\ (Harmless' <=> Harmless)
  BY <1>3, <1>7, <1>8 DEF Silent, Harmless
<1>10. HeardOut' => pc = "RES" /\ HeardOut
  BY <1>1, <1>4, <1>6, <1>7 DEF HeardOut
<1>11. Owner' => pc = "set" /\ Owner
  BY <1>1, <1>4 DEF Owner
<1>12. OthersInv'
  BY <1>1, <1>3, <1>4, <1>9, <1>10, <1>11, Known DEF OthersInv
<1>13. FetchInv'
  BY <1>1, <1>3, <1>4, <1>11, Known DEF FetchInv
<1>14. StoreInv'
  <2>1. Pos(c)' = "header"
    BY <1>6, <1>7 DEF Pos
  <2>2. pc = "set" => Store(vm', NewConn, "header", sfile, cur)
    BY <1>1, <1>4, <1>6 DEF Store
  <2> QED BY <2>1, <2>2, <1>3, <1>4, <1>6 DEF StoreInv
<1>15. RestoreInv'
  <2>1. \A d \in Conn : IsRES(d)' => d # c /\ IsRES(d)
    <3>1. \A d \in Conn : conn'[d].up = <<Hdr("RES")>> => d # c
      <4>1. <<>> # <<Hdr("RES")>>
        OBVIOUS
      <4> QED BY <1>6, <4>1
    <3>2. \A d \in Conn : d # c => conn'[d] = conn[d]
      BY <1>6
    <3> QED BY <3>1, <3>2 DEF IsRES
  <2>2. \A d \in Conn : conn'[d].srv = "open" => NoRES(conn'[d]) \/ IsRES(d)'
    BY <1>6, Known DEF RestoreInv, IsRES, NoRES
  <2>3. Restoring' => Restoring
    BY <2>1, <1>1, <1>3, <1>4 DEF Restoring
  <2>. DEFINE n == Len(pending)
  <2>4. /\ n \in Nat /\ DOMAIN pending = 1 .. n /\ DOMAIN pending' = 1 .. (n + 1)
        /\ pending'[n + 1] = c
        /\ \A i \in 1 .. n : pending'[i] = pending[i]
    BY <1>2, Known, AppendProperties, LenProperties DEF BookInv, TypeOK
  <2> HIDE DEF n
  <2>5. ASSUME NEW j \in DOMAIN pending', IsRES(pending[j])'
        PROVE  j \in DOMAIN pending /\ IsRES(pending[j])
               /\ \A i \in DOMAIN pending' : i < j => i \in DOMAIN pending /\ pending'[i] = pending[i]
    <3>1. j \in 1 .. (n + 1)
      BY <2>4
    <3>2. \A i \in 1 .. n : pending[i] \in Conn
      BY <2>4, Places, Known
    <3>3. pending'[j] \in Conn
      <4>1. CASE j = n + 1
        BY <4>1, <2>4
      <4>2. CASE j # n + 1
        <5>1. j \in 1 .. n
          BY <4>2, <3>1, <2>4
        <5> QED BY <5>1, <3>2, <2>4
      <4> QED BY <4>1, <4>2
    <3>. DEFINE d == pending'[j]
    <3>4. conn'[d].srv = "open" /\ conn'[d].up = <<Hdr("RES")>>
      BY <2>5 DEF IsRES
    <3>5. d # c
      <4>1. NewConn.up # <<Hdr("RES")>>
        BY DEF NewConn, Hdr
      <4> QED BY <4>1, <3>4, <1>6
    <3>6. j \in 1 .. n
      <4>1. j # n + 1
        BY <3>5, <2>4
      <4> QED BY <4>1, <3>1, <2>4
    <3>7. d = pending[j]
      BY <3>6, <2>4
    <3>8. IsRES(pending[j])
      BY <3>3, <3>4, <3>5, <3>7, <1>6 DEF IsRES
    <3>9. \A i \in 1 .. (n + 1) : i < j => i \in 1 .. n
      BY <3>6, <2>4
    <3> QED BY <3>6, <3>8, <3>9, <2>4
  <2>6. \A i \in DOMAIN pending : pending[i] \in Conn /\ pending[i] # c /\ conn'[pending[i]] = conn[pending[i]]
    BY <1>6, Places, Known
  <2>7. client # Stdin => Served \in Conn /\ conn'[Served] = conn[Served]
    BY <1>6, <1>7, ServedConn, Known
  <2>8. ASSUME NEW j \in DOMAIN pending', IsRES(pending[j])'
        PROVE  /\ \A i \in DOMAIN pending' : i < j => conn'[pending'[i]].up = <<>>
               /\ client # Stdin => spc \in {"header", "astray"} /\ conn'[Served].up = <<>>
    <3>1. j \in DOMAIN pending /\ IsRES(pending[j])
      BY <2>5, <2>8
    <3>2. \A i \in DOMAIN pending' : i < j => i \in DOMAIN pending /\ pending'[i] = pending[i]
      BY <2>5, <2>8
    <3>3. /\ \A i \in DOMAIN pending : i < j => conn[pending[i]].up = <<>>
          /\ client # Stdin => spc \in {"header", "astray"} /\ conn[Served].up = <<>>
      BY <3>1, Known DEF RestoreInv
    <3> QED BY <3>2, <3>3, <2>6, <2>7
  <2> QED BY <2>2, <2>3, <2>8, <1>3, <1>7, Known DEF RestoreInv
<1> QED BY <1>12, <1>13, <1>14, <1>15 DEF Backup

\* restore() asks for the revert when the server has heard everything else.
LEMMA RevertAsked ==
  ASSUME BackupInv, SendRES
  PROVE  Backup'
<1>. DEFINE s == vm.sock
            old == conn[s]
<1>1. s \in Conn \cup {Stale} /\ vm.pc = "RES"
  BY Known DEF SendRES
<1>2. CASE s = Stale \/ old.srv = "rst"
  BY <1>1, <1>2, SendingDies DEF SendRES
<1>3. CASE s \in Conn /\ old.srv # "rst"
  <2>. DEFINE ms == <<Hdr("RES")>>
              g == [vm EXCEPT !.pc = "run", !.sock = NoConn]
              r == Up(old, ms)
  <2>1. ms \in Seq(Msg) /\ Send(ms, g)
    BY OneMsg DEF SendRES
  <2>2. g.pc = "run" /\ g.sock = NoConn /\ g.file = vm.file /\ g.chk = vm.chk
    BY Known DEF GuestRecord
  <2> HIDE DEF g
  <2>3. old \in ConnState /\ (old.srv = "open" => Pos(s) \in {"header", "gone"} /\ old.up = <<>>)
    BY <1>1, <1>3, Mine, Listened, Known DEF Talk, AstrayInv, OutOfWords
  <2>4. /\ vm' = g /\ UNCHANGED <<saved, snap, pending, fd, host>>
        /\ conn' = [conn EXCEPT ![s] = CliClose(r)]
        /\ r \in ConnState /\ (r.srv = "open" <=> old.srv = "open")
        /\ r.srv = "open" => r.up = ms
    <3> HIDE DEF r, ms
    <3>1. r = Up(old, ms)
      BY DEF r
    <3>2. /\ vm' = g /\ UNCHANGED <<saved, snap, pending, fd, host>>
          /\ conn' = [conn EXCEPT ![s] = IF g.sock = NoConn THEN CliClose(r) ELSE r]
          /\ r \in ConnState /\ (r.srv = "open" <=> old.srv = "open")
      BY <3>1, <2>1, <1>3, Writes
    <3>3. r.srv = "open" => r.up = ms
      BY <3>1, <3>2, <2>1, <2>3, UpWords
    <3> QED BY <3>2, <3>3, <2>2
  <2> HIDE DEF r
  <2>5. UNCHANGED <<spc, client, sfile, todo, cur>> /\ Served' = Served
    BY <2>4 DEF host, Served
  <2>6. /\ conn'[s].srv = "open" => old.srv = "open" /\ conn'[s].up = <<Hdr("RES")>>
        /\ \A c \in Conn : c # s => conn'[c] = conn[c]
    <3>1. CliClose(r).srv = "open" => r.srv = "open" /\ CliClose(r).up = r.up
      BY <2>4, EndsApart, Closing
    <3> QED BY <3>1, <2>4, <1>3, Known DEF ms
  <2>7. Served = s => old.srv = "open" /\ spc \in {"header", "astray"}
    <3>1. Served = s => old.srv = "open"
      BY <1>3, Known DEF BookInv, Bookkeeping
    <3>2. CASE Pos(s) = "header"
      BY <3>1, <3>2, <1>3 DEF Pos
    <3>3. CASE Pos(s) = "gone"
      BY <3>1, <3>3, <1>3, Listened
    <3> QED BY <3>1, <3>2, <3>3, <2>3
  <2>8. Silent /\ Restoring
    BY <1>1, Known DEF OthersInv, HeardOut, Restoring
  <2>9. \A c \in Conn : c # s /\ conn[c].srv = "open" =>
          conn[c].up = <<>> /\ (Served = c => spc \in {"header", "astray"})
    BY <2>8 DEF Silent, Others
  <2>10. OthersInv'
    <3>1. ~HeardOut'
      BY <2>2, <2>4, Known DEF HeardOut
    <3>2. Harmless'
      BY <2>5, <2>6, <2>7, <2>9 DEF Harmless, Others
    <3> QED BY <3>1, <3>2, <2>2, <2>4, Known DEF OthersInv
  <2>11. FetchInv'
    BY <1>1, <2>2, <2>4, <2>5, Known DEF FetchInv
  <2>12. StoreInv'
    BY <2>2, <2>4, Known DEF StoreInv
  <2>13. RestoreInv'
    <3>1. \A c \in Conn : conn'[c].srv = "open" => NoRES(conn'[c]) \/ IsRES(c)'
      BY <2>6, <2>9 DEF IsRES, NoRES
    <3>2. ASSUME NEW j \in DOMAIN pending, IsRES(pending[j])'
          PROVE  /\ \A i \in DOMAIN pending : i < j => conn'[pending[i]].up = <<>>
                 /\ client # Stdin => spc \in {"header", "astray"} /\ conn'[Served].up = <<>>
      <4>1. pending[j] \in Conn /\ conn'[pending[j]].up = <<Hdr("RES")>> /\ conn'[pending[j]].srv = "open"
        BY <2>4, <3>2, Places, Known DEF IsRES
      <4>2. pending[j] = s
        <5>1. <<Hdr("RES")>> # <<>>
          OBVIOUS
        <5> QED BY <5>1, <4>1, <2>6, <2>9
      <4>3. \A i \in DOMAIN pending : i # j =>
              pending[i] \in Conn /\ pending[i] # s /\ conn[pending[i]].srv = "open"
        BY <4>2, Places, Known DEF BookInv, Bookkeeping
      <4>4. client # Stdin => Served \in Conn /\ Served # s /\ conn[Served].srv = "open"
        BY <4>2, Places, ServedConn, Known DEF BookInv, Bookkeeping
      <4>5. \A i \in DOMAIN pending : i < j => i # j
        BY Places, Known
      <4> QED BY <4>3, <4>4, <4>5, <2>6, <2>9
    <3> QED BY <3>1, <3>2, <2>4, <2>5, <2>8, Known DEF RestoreInv
  <2> QED BY <2>10, <2>11, <2>12, <2>13 DEF Backup
<1> QED BY <1>1, <1>2, <1>3

\* doGET is done: the guest holds every file of the server.
LEMMA FilesFetched ==
  ASSUME BackupInv, RecvEOF
  PROVE  Backup'
<1>. DEFINE s == vm.sock
            old == conn[s]
            r == Up(Taken, <<Hdr("END")>>)
<1>1. /\ s \in Conn /\ old.down # <<>> /\ Head(old.down) = Hdr("EOF") /\ vm.pc = "get"
      /\ vm'.pc = "run" /\ vm'.sock = NoConn /\ vm'.file = vm.file
      /\ conn' = [conn EXCEPT ![s] = CliClose(r)]
      /\ UNCHANGED <<saved, snap, pending, fd, host>>
  BY Known DEF RecvEOF, Sock, GuestRecord
<1>2. /\ old \in ConnState /\ NoRES(old) /\ Talk("get", old, Pos(s))
      /\ Pos(s) # "gone" => old.srv = "open"
  BY <1>1, Mine
<1>3. Taken \in ConnState /\ Taken.up = old.up /\ Taken.srv = old.srv
  BY <1>1, <1>2, TakeType DEF Taken, Sock, ConnState
<1>4. /\ r \in ConnState /\ (r.srv = "open" <=> old.srv = "open")
      /\ r.srv = "open" /\ old.up = <<>> => r.up = <<Hdr("END")>>
  BY <1>3, OneMsg, EndsApart, ConnType, UpWords
<1> HIDE DEF r
<1>5. Silent
  BY <1>1, Known DEF OthersInv
<1>6. Fetch(vm.file, old, Pos(s), sfile, todo)
  BY <1>1, Known DEF FetchInv
<1>7. DOMAIN old.down = {1} /\ old.down[1] = Hdr("EOF") /\ Pos(s) # "send"
  <2>1. old.down \in Seq(Msg) /\ 1 \in DOMAIN old.down /\ old.down[1] = Hdr("EOF")
    BY <1>1, <1>2, HeadTailProperties, LenProperties, EmptySeq DEF ConnState
  <2>2. Hdr("EOF").kind = "EOF"
    BY DEF Hdr
  <2>3. Len(old.down) = 1 /\ Pos(s) # "send"
    BY <2>1, <2>2, <1>6 DEF Fetch
  <2> QED BY <2>1, <2>3, LenProperties
<1>8. old.srv = "open" => Pos(s) \in {"header", "gone"} /\ old.up = <<>>
  BY <1>1, <1>2, <1>7, Listened, Known DEF Talk, AstrayInv, OutOfWords
<1>9. Present(sfile) \subseteq Present(vm.file)
  <2>1. Hdr("EOF").kind = "EOF" /\ \A f : Hdr("EOF") # Name(f)
    BY DEF Hdr, Name
  <2>2. \A f \in Present(sfile) : vm.file[f] # Absent
    BY <2>1, <1>6, <1>7 DEF Fetch
  <2> QED BY <2>2 DEF Present
<1>10. /\ conn'[s].srv = "open" => old.srv = "open" /\ conn'[s].up = <<Hdr("END")>>
       /\ \A c \in Conn : c # s => conn'[c] = conn[c]
  <2>1. CliClose(r).srv = "open" => r.srv = "open" /\ CliClose(r).up = r.up
    BY <1>4, EndsApart, Closing
  <2> QED BY <2>1, <1>1, <1>4, <1>8, Known
<1>11. UNCHANGED <<spc, client, sfile, todo, cur>> /\ Served' = Served /\ Goes
  BY <1>1, <1>10 DEF host, Served, Goes
<1>12. OthersInv'
  <2>1. ~HeardOut'
    BY <1>1, Known DEF HeardOut
  <2>2. Served = s => old.srv = "open" /\ spc \in {"header", "astray"}
    <3>1. Served = s => old.srv = "open"
      BY <1>1, Known DEF BookInv, Bookkeeping
    <3>2. CASE Pos(s) = "header"
      BY <3>1, <3>2, <1>1 DEF Pos
    <3>3. CASE Pos(s) = "gone"
      BY <3>1, <3>3, <1>1, Listened
    <3> QED BY <3>1, <3>2, <3>3, <1>8
  <2>3. Harmless'
    BY <2>2, <1>5, <1>8, <1>10, <1>11 DEF Harmless, Silent, Others
  <2> QED BY <2>1, <2>3, <1>1, Known DEF OthersInv
<1>13. FetchInv'
  BY <1>1, <1>9, <1>11, Known DEF FetchInv
<1>14. StoreInv'
  BY <1>1, Known DEF StoreInv
<1>15. RestoreInv'
  <2>1. conn'[s].srv = "open" => NoRES(conn'[s])
    BY <1>10 DEF NoRES, Hdr
  <2> QED BY <2>1, <1>1, <1>11, RestoreStays
<1> QED BY <1>12, <1>13, <1>14, <1>15 DEF Backup

\* doSET is done: the server holds the files of the guest, and nobody else is
\* going to write any.
LEMMA FilesStored ==
  ASSUME BackupInv, RecvEND
  PROVE  Backup'
<1>. DEFINE s == vm.sock
            old == conn[s]
<1>1. /\ s \in Conn /\ old.down # <<>> /\ vm.pc = "end" /\ vm'.pc = "toRES" /\ vm'.sock = NoConn
      /\ vm'.file = vm.file /\ conn' = [conn EXCEPT ![s] = CliClose(Taken)]
      /\ saved' = vm.file /\ UNCHANGED <<snap, pending, fd, host>>
  BY Known DEF RecvEND, Receive, Sock, GuestRecord
<1>2. old \in ConnState /\ old.srv # "open" /\ sfile = vm.file
  BY <1>1, Mine, Known DEF OthersInv, StoreInv
<1>3. Silent
  BY <1>1, <1>2, Known DEF OthersInv, HeardOut
<1>4. conn'[s].srv # "open" /\ \A c \in Conn : c # s => conn'[c] = conn[c]
  <2>1. Taken \in ConnState /\ Taken.srv = old.srv
    BY <1>1, <1>2, TakeType DEF Taken, Sock, ConnState
  <2> QED BY <2>1, <1>1, <1>2, EndsApart, Known
<1>5. UNCHANGED <<spc, client, sfile, todo, cur>> /\ Served' = Served
  BY <1>1 DEF host, Served
<1>6. \A c \in Conn : conn'[c].srv = "open" =>
        conn'[c].up = <<>> /\ (Served = c => spc \in {"header", "astray"})
  BY <1>3, <1>4 DEF Silent, Others
<1>7. OthersInv'
  <2>1. Silent' /\ ~Owner'
    BY <1>1, <1>5, <1>6 DEF Silent, Others, Owner
  <2> QED BY <2>1, <1>1, Known DEF OthersInv
<1>8. FetchInv'
  BY <1>1, <1>5, Known DEF FetchInv, Owner
<1>9. StoreInv'
  BY <1>1, Known DEF StoreInv
<1>10. RestoreInv'
  <2>1. \A c \in Conn : ~IsRES(c)'
    <3>1. <<>> # <<Hdr("RES")>>
      OBVIOUS
    <3> QED BY <3>1, <1>6 DEF IsRES
  <2>2. \A j \in DOMAIN pending : pending[j] \in Conn
    BY Places, Known
  <2>3. \A c \in Conn : conn'[c].srv = "open" => NoRES(conn'[c])
    BY <1>6 DEF NoRES
  <2> QED BY <2>1, <2>2, <2>3, <1>1, <1>2, <1>5 DEF RestoreInv
<1> QED BY <1>7, <1>8, <1>9, <1>10 DEF Backup

\* One sequence behind another.
LEMMA ConcatPlaces ==
  ASSUME NEW S, NEW q \in Seq(S), NEW ms \in Seq(S), NEW t, t = q \o ms
  PROVE  /\ Len(q) \in Nat /\ Len(ms) \in Nat /\ Len(t) = Len(q) + Len(ms)
         /\ DOMAIN q = 1 .. Len(q) /\ DOMAIN ms = 1 .. Len(ms) /\ DOMAIN t = 1 .. Len(t)
         /\ \A k \in DOMAIN q : k \in DOMAIN t /\ t[k] = q[k]
         /\ \A k \in DOMAIN ms : Len(q) + k \in DOMAIN t /\ t[Len(q) + k] = ms[k]
         /\ \A k \in DOMAIN t : k \in DOMAIN q \/ \E j \in DOMAIN ms : k = Len(q) + j
<1>. DEFINE n == Len(q)
            m == Len(ms)
<1>1. n \in Nat /\ m \in Nat /\ DOMAIN q = 1 .. n /\ DOMAIN ms = 1 .. m
  BY LenProperties
<1>2. /\ t \in Seq(S) /\ Len(t) = n + m
      /\ \A i \in 1 .. (n + m) : t[i] = IF i <= n THEN q[i] ELSE ms[i - n]
  BY ConcatProperties
<1>3. DOMAIN t = 1 .. (n + m)
  BY <1>2, LenProperties
<1> HIDE DEF n, m
<1>4. \A k \in 1 .. n : k \in 1 .. (n + m) /\ t[k] = q[k]
  BY <1>1, <1>2
<1>5. ASSUME NEW k \in 1 .. m PROVE n + k \in 1 .. (n + m) /\ t[n + k] = ms[k]
  <2>1. n + k \in 1 .. (n + m) /\ ~(n + k <= n) /\ (n + k) - n = k
    BY <1>1
  <2> QED BY <2>1, <1>2
<1>6. ASSUME NEW k \in 1 .. (n + m), k \notin 1 .. n PROVE k - n \in 1 .. m /\ k = n + (k - n)
  BY <1>1, <1>6
<1>7. \A k \in 1 .. (n + m) : k \in 1 .. n \/ \E j \in 1 .. m : k = n + j
  BY <1>6
<1> QED BY <1>1, <1>2, <1>3, <1>4, <1>5, <1>7 DEF n, m

\* The guest writes more of the files it stores, or that there is no more.
LEMMA StoreSays ==
  ASSUME NEW r \in ConnState, NEW ms \in Seq(Msg), ms # <<>>, NEW t, t.up = r.up \o ms,
         NEW g, NEW g2, NEW p, NEW sf, NEW cu,
         Store(g, r, p, sf, cu), g2.file = g.file, Only(r.up, FileKind),
         r.up # <<>> /\ r.up[Len(r.up)].kind = "name" =>
           ms[1] = Body(g.file[r.up[Len(r.up)].file]),
         p = "body" /\ r.up = <<>> => ms[1] = Body(g.file[cu]),
         \A k \in DOMAIN ms :
           /\ ms[k].kind = "name" => ms[k].file \in Present(g.file) /\ k = Len(ms)
           /\ ms[k].kind = "EOF" => k = Len(ms),
         g2.todo \subseteq g.todo,
         \A f \in g.todo \ g2.todo : \E k \in DOMAIN ms : ms[k] = Name(f),
         g2.pc = "setBody" => ms[Len(ms)] = Name(g2.cur),
         g2.pc = "end" => g2.todo = {}
  PROVE  Store(g2, t, p, sf, cu)
<1>. DEFINE q == r.up
            u == t.up
            n == Len(q)
            m == Len(ms)
<1>1. q \in Seq(Msg) /\ u = q \o ms
  BY DEF ConnState
<1> HIDE DEF q, u
<1>0. /\ Len(q) \in Nat /\ Len(ms) \in Nat /\ Len(u) = Len(q) + Len(ms)
      /\ DOMAIN q = 1 .. Len(q) /\ DOMAIN ms = 1 .. Len(ms) /\ DOMAIN u = 1 .. Len(u)
      /\ \A k \in DOMAIN q : k \in DOMAIN u /\ u[k] = q[k]
      /\ \A k \in DOMAIN ms : Len(q) + k \in DOMAIN u /\ u[Len(q) + k] = ms[k]
      /\ \A k \in DOMAIN u : k \in DOMAIN q \/ \E j \in DOMAIN ms : k = Len(q) + j
  <2>1. q \in Seq(Msg) /\ ms \in Seq(Msg) /\ u = q \o ms
    BY <1>1
  <2> HIDE DEF n, m
  <2>2. Len(q) \in Nat /\ Len(ms) \in Nat
    BY <2>1, ConcatPlaces
  <2>3. Len(u) = Len(q) + Len(ms)
    BY <2>1, ConcatPlaces
  <2>4. DOMAIN q = 1 .. Len(q) /\ DOMAIN ms = 1 .. Len(ms) /\ DOMAIN u = 1 .. Len(u)
    BY <2>1, ConcatPlaces
  <2>5. \A k \in DOMAIN q : k \in DOMAIN u /\ u[k] = q[k]
    BY <2>1, ConcatPlaces
  <2>6. \A k \in DOMAIN ms : Len(q) + k \in DOMAIN u /\ u[Len(q) + k] = ms[k]
    BY <2>1, ConcatPlaces
  <2>7. ASSUME NEW k \in DOMAIN u PROVE k \in DOMAIN q \/ \E j \in DOMAIN ms : k = Len(q) + j
    <3>1. k \in 1 .. (Len(q) + Len(ms))
      BY <2>3, <2>4
    <3>. DEFINE a == Len(q)
                b == Len(ms)
    <3>2. a \in Nat /\ b \in Nat /\ k \in 1 .. (a + b)
      BY <2>2, <3>1
    <3>3. DOMAIN q = 1 .. a /\ DOMAIN ms = 1 .. b
      BY <2>4
    <3> HIDE DEF a, b
    <3>4. k \in 1 .. a \/ (k - a \in 1 .. b /\ k = a + (k - a))
      BY <3>2
    <3>5. k \in 1 .. a \/ \E j \in 1 .. b : k = a + j
      BY <3>4
    <3> QED BY <3>3, <3>5 DEF a
  <2> QED BY <2>2, <2>3, <2>4, <2>5, <2>6, <2>7
<1>e. m # 0 /\ (n = 0 <=> q = <<>>)
  BY <1>1, EmptySeq
<1>d. n = Len(q) /\ m = Len(ms)
  OBVIOUS
<1> HIDE DEF n, m
<1>2. /\ n \in Nat /\ m \in Nat /\ Len(u) = n + m
      /\ DOMAIN q = 1 .. n /\ DOMAIN ms = 1 .. m /\ DOMAIN u = 1 .. (n + m)
      /\ \A k \in 1 .. n : k \in 1 .. (n + m) /\ u[k] = q[k]
      /\ \A k \in 1 .. m : n + k \in 1 .. (n + m) /\ u[n + k] = ms[k]
      /\ \A k \in 1 .. (n + m) : k \in 1 .. n \/ \E j \in 1 .. m : k = n + j
  <2>1. /\ n \in Nat /\ m \in Nat /\ Len(u) = n + m
        /\ DOMAIN q = 1 .. n /\ DOMAIN ms = 1 .. m
    BY <1>0, <1>d
  <2>2. DOMAIN u = 1 .. (n + m)
    BY <1>0, <2>1
  <2> QED BY <1>0, <1>d, <2>1, <2>2
<1>3. m # 0 /\ (n = 0 <=> q = <<>>)
  BY <1>e
<1>4. m \in 1 .. m /\ 1 \in 1 .. m /\ 1 \in 1 .. (n + m)
  BY <1>2, <1>3
<1>5. /\ \A k \in 1 .. n : /\ q[k].kind = "name" => /\ q[k].file \in Present(g.file)
                                                    /\ k < n => q[k + 1] = Body(g.file[q[k].file])
                           /\ q[k].kind # "EOF"
      /\ g.todo \subseteq Present(g.file)
      /\ p = "body" => cu \in Present(g.file) /\ (q # <<>> => q[1] = Body(g.file[cu]))
      /\ \A f \in Present(g.file) : \/ f \in g.todo
                                    \/ \E k \in 1 .. n : q[k] = Name(f)
                                    \/ p = "body" /\ cu = f
                                    \/ sf[f] = g.file[f]
  <2>1. \A k \in 1 .. n : q[k].kind # "EOF"
    BY <1>2 DEF Only, FileKind, q
  <2>2. \A k \in DOMAIN q : q[k].kind = "name" => /\ q[k].file \in Present(g.file)
                                                  /\ k < Len(q) => q[k + 1] = Body(g.file[q[k].file])
    BY DEF Store, q
  <2>3. /\ g.todo \subseteq Present(g.file)
        /\ p = "body" => cu \in Present(g.file) /\ (q # <<>> => q[1] = Body(g.file[cu]))
        /\ \A f \in Present(g.file) : \/ f \in g.todo
                                      \/ \E k \in DOMAIN q : q[k] = Name(f)
                                      \/ p = "body" /\ cu = f
                                      \/ sf[f] = g.file[f]
    BY DEF Store, q
  <2> QED BY <2>1, <2>2, <2>3, <1>2 DEF n
<1>6. /\ q # <<>> /\ q[n].kind = "name" => ms[1] = Body(g.file[q[n].file])
      /\ p = "body" /\ q = <<>> => ms[1] = Body(g.file[cu])
      /\ \A k \in 1 .. m :
           /\ ms[k].kind = "name" => ms[k].file \in Present(g.file) /\ k = m
           /\ ms[k].kind = "EOF" => k = m
      /\ \A f \in g.todo \ g2.todo : \E k \in 1 .. m : ms[k] = Name(f)
      /\ g2.pc = "setBody" => ms[m] = Name(g2.cur)
  BY <1>2 DEF q, n, m
<1>7. ASSUME NEW k \in 1 .. (n + m), u[k].kind = "name"
      PROVE  /\ u[k].file \in Present(g.file)
             /\ k < n + m => u[k + 1] = Body(g.file[u[k].file])
  <2>1. CASE k \in 1 .. n
    <3>1. u[k] = q[k]
      BY <2>1, <1>2
    <3>2. CASE k < n
      <4>1. k + 1 \in 1 .. n
        BY <2>1, <3>2, <1>2
      <4>2. q[k].kind = "name" /\ u[k + 1] = q[k + 1]
        BY <4>1, <3>1, <1>2, <1>7
      <4>3. q[k].file \in Present(g.file) /\ q[k + 1] = Body(g.file[q[k].file])
        BY <4>2, <3>2, <2>1, <1>5
      <4> QED BY <4>2, <4>3, <3>1
    <3>3. CASE ~(k < n)
      <4>1. k = n /\ n # 0
        BY <2>1, <3>3, <1>2
      <4>2. u[n + 1] = ms[1]
        BY <1>2, <1>4
      <4>3. q # <<>> /\ q[n].kind = "name" /\ u[n] = q[n]
        BY <4>1, <3>1, <1>3, <1>7
      <4>4. q[n].file \in Present(g.file)
        BY <4>1, <4>3, <2>1, <1>5
      <4>5. ms[1] = Body(g.file[q[n].file])
        BY <4>3, <1>6
      <4> QED BY <4>1, <4>2, <4>3, <4>4, <4>5
    <3> QED BY <3>2, <3>3
  <2>2. ASSUME NEW j \in 1 .. m, k = n + j
        PROVE  /\ u[k].file \in Present(g.file)
               /\ ~(k < n + m)
    <3>1. u[k] = ms[j]
      BY <2>2, <1>2
    <3>2. j = m /\ ms[j].file \in Present(g.file)
      BY <3>1, <1>6, <1>7
    <3> QED BY <3>1, <3>2, <2>2, <1>2
  <2> QED BY <2>1, <2>2, <1>2
<1>8. ASSUME NEW k \in 1 .. (n + m), u[k].kind = "EOF" PROVE k = n + m
  <2>1. k \notin 1 .. n
    BY <1>2, <1>5, <1>8
  <2>2. PICK j \in 1 .. m : k = n + j
    BY <2>1, <1>2
  <2>3. u[k] = ms[j]
    BY <2>2, <1>2
  <2> QED BY <2>2, <2>3, <1>6, <1>8
<1>9. p = "body" => cu \in Present(g.file) /\ u[1] = Body(g.file[cu])
  <2>1. CASE q = <<>>
    <3>1. u[n + 1] = ms[1] /\ n = 0
      BY <2>1, <1>2, <1>3, <1>4
    <3>2. u[1] = ms[1]
      BY <3>1
    <3> QED BY <3>2, <2>1, <1>5, <1>6
  <2>2. CASE q # <<>>
    <3>1. 1 \in 1 .. n
      BY <2>2, <1>2, <1>3
    <3> QED BY <3>1, <2>2, <1>2, <1>5
  <2> QED BY <2>1, <2>2
<1>10. ASSUME NEW f \in Present(g.file)
       PROVE  \/ f \in g2.todo
              \/ \E k \in 1 .. (n + m) : u[k] = Name(f)
              \/ p = "body" /\ cu = f
              \/ sf[f] = g.file[f]
  <2>1. ASSUME NEW k \in 1 .. n, q[k] = Name(f) PROVE \E j \in 1 .. (n + m) : u[j] = Name(f)
    BY <2>1, <1>2
  <2>2. ASSUME NEW k \in 1 .. m, ms[k] = Name(f) PROVE \E j \in 1 .. (n + m) : u[j] = Name(f)
    BY <2>2, <1>2
  <2> QED BY <2>1, <2>2, <1>5, <1>6
<1>11. u # <<>> /\ u[n + m] = ms[m]
  BY <1>1, <1>2, <1>3, <1>4, EmptySeq
<1>12. u = t.up /\ DOMAIN u = 1 .. Len(u) /\ Len(u) = n + m
  BY <1>2 DEF u
<1>13. g2.todo \subseteq Present(g2.file) /\ Present(g2.file) = Present(g.file)
  BY <1>5 DEF Present
<1> QED BY <1>6, <1>7, <1>8, <1>9, <1>10, <1>11, <1>12, <1>13 DEF Store

\* sendFile of the client, a message or two at a time.
LEMMA SendingSteps ==
  ASSUME BackupInv, SendName \/ SendBody \/ SendEOF
  PROVE  Backup'
<1>. DEFINE s == vm.sock
            old == conn[s]
<1>1. s \in Conn \cup {Stale} /\ vm.pc \in {"set", "setBody"}
  BY Known DEF SendName, SendBody, SendEOF
<1>2. CASE s = Stale \/ old.srv = "rst"
  BY <1>1, <1>2, SendingDies DEF SendName, SendBody, SendEOF
<1>3. CASE s \in Conn /\ old.srv # "rst"
  <2>1. /\ old \in ConnState /\ NoRES(old) /\ old.down = <<>>
        /\ Pos(s) # "gone" => old.srv = "open"
        /\ Pos(s) # "gone" =>
             /\ Pos(s) \in {"header", "name", "body"} /\ Only(old.up, FileKind)
             /\ Expects(ReadsAt(Pos(s)), old.up) = IF vm.pc = "setBody" THEN "body" ELSE "header"
    <3>1. CASE vm.pc = "set"
      BY <3>1, <1>3, Mine DEF Talk
    <3>2. CASE vm.pc = "setBody"
      BY <3>2, <1>3, Mine DEF Talk
    <3> QED BY <3>1, <3>2, <1>1
  <2>2. Pos(s) # "gone" => Store(vm, old, Pos(s), sfile, cur)
    BY <1>1, <1>3, Known DEF StoreInv
  <2>3. vm.pc = "set" /\ Pos(s) # "gone" =>
          /\ old.up # <<>> => old.up[Len(old.up)].kind # "name"
          /\ Pos(s) = "body" => old.up # <<>>
    BY <2>1 DEF Expects, After, ReadsAt
  <2>4. vm.pc = "setBody" /\ Pos(s) # "gone" =>
          IF old.up = <<>> THEN Pos(s) = "body" /\ cur = vm.cur
                           ELSE old.up[Len(old.up)] = Name(vm.cur)
    BY <2>2 DEF Store
  <2>5. PICK ms \in Seq(Msg), g \in GuestRecord :
          /\ Send(ms, g) /\ g.sock = s /\ g.chk = vm.chk /\ g.file = vm.file
          /\ g.pc \in {"set", "setBody", "end"}
          /\ \A i \in DOMAIN ms : ms[i].kind # "RES"
          /\ Pos(s) # "gone" => Store(g, Up(old, ms), Pos(s), sfile, cur)
    <3>0. ASSUME NEW ms \in Seq(Msg), Pos(s) # "gone"
          PROVE  Up(old, ms).up = old.up \o ms
      BY <3>0, <2>1, UpWords
    <3>1. CASE SendName
      <4>1. PICK f \in vm.todo :
              Send(<<Hdr("SET"), Name(f)>>,
                   [vm EXCEPT !.pc = "setBody", !.cur = f, !.todo = @ \ {f}])
        BY <3>1 DEF SendName
      <4>. DEFINE ms == <<Hdr("SET"), Name(f)>>
                  g  == [vm EXCEPT !.pc = "setBody", !.cur = f, !.todo = @ \ {f}]
      <4>2. f \in Files /\ vm.pc = "set"
        BY <3>1, Known DEF SendName, GuestRecord
      <4>3. g \in GuestRecord
        BY <4>2, Known DEF GuestRecord, GuestPC
      <4>4. g.sock = s /\ g.chk = vm.chk
        BY Known DEF GuestRecord
      <4>5. g.file = vm.file /\ g.pc = "setBody"
        BY Known DEF GuestRecord
      <4>6. g.cur = f /\ g.todo = vm.todo \ {f}
        BY Known DEF GuestRecord
      <4>7. ms \in Seq(Msg) /\ DOMAIN ms = {1, 2} /\ Len(ms) = 2 /\ ms[1] = Hdr("SET") /\ ms[2] = Name(f)
            /\ ms # <<>>
        <5>1. Hdr("SET") \in Msg /\ Name(f) \in Msg
          BY <4>2, MsgType
        <5> QED BY <5>1
      <4>8. Hdr("SET").kind = "SET" /\ Name(f).kind = "name" /\ Name(f).file = f
        BY DEF Hdr, Name
      <4>9. Send(ms, g)
        BY <4>1
      <4>10. ASSUME Pos(s) # "gone" PROVE Store(g, Up(old, ms), Pos(s), sfile, cur)
        <5>. DEFINE t == Up(old, ms)
        <5>1. t.up = old.up \o ms
          BY <4>7, <4>10, <3>0
        <5> HIDE DEF t, ms, g
        <5>2. Store(vm, old, Pos(s), sfile, cur) /\ Only(old.up, FileKind)
          BY <4>10, <2>1, <2>2
        <5>3. f \in Present(vm.file)
          BY <5>2 DEF Store
        <5>4. /\ old.up # <<>> => old.up[Len(old.up)].kind # "name"
              /\ Pos(s) = "body" => old.up # <<>>
          BY <4>2, <4>10, <2>3
        <5>5. \A k \in DOMAIN ms :
                /\ ms[k].kind = "name" => ms[k].file \in Present(vm.file) /\ k = Len(ms)
                /\ ms[k].kind = "EOF" => k = Len(ms)
          BY <4>7, <4>8, <5>3
        <5>6. \A e \in vm.todo \ g.todo : \E k \in DOMAIN ms : ms[k] = Name(e)
          BY <4>6, <4>7
        <5>7. g.todo \subseteq vm.todo /\ ms[Len(ms)] = Name(g.cur)
          BY <4>6, <4>7
        <5>8. Store(g, t, Pos(s), sfile, cur)
          BY <5>1, <5>2, <5>4, <5>5, <5>6, <5>7, <4>5, <4>7, <2>1, StoreSays
        <5> QED BY <5>8 DEF t
      <4>11. \A i \in DOMAIN ms : ms[i].kind # "RES"
        BY <4>7, <4>8
      <4> HIDE DEF g, ms
      <4> QED BY <4>3, <4>4, <4>5, <4>7, <4>9, <4>10, <4>11
    <3>2. CASE SendBody
      <4>. DEFINE ms == <<Body(vm.file[vm.cur])>>
                  g  == [vm EXCEPT !.pc = "set", !.cur = NoFile]
      <4>1. Send(ms, g) /\ vm.pc = "setBody"
        BY <3>2 DEF SendBody
      <4>2. vm.cur \in Files /\ vm.file[vm.cur] \in Content
        BY <4>1, Known DEF Guest, GuestRecord
      <4>3. g \in GuestRecord
        BY Known DEF GuestRecord, GuestPC
      <4>4. g.sock = s /\ g.chk = vm.chk
        BY Known DEF GuestRecord
      <4>5. g.file = vm.file /\ g.pc = "set" /\ g.todo = vm.todo
        BY Known DEF GuestRecord
      <4>6. ms \in Seq(Msg) /\ DOMAIN ms = {1} /\ Len(ms) = 1 /\ ms[1] = Body(vm.file[vm.cur]) /\ ms # <<>>
        <5>1. Body(vm.file[vm.cur]) \in Msg
          BY <4>2, MsgType
        <5> QED BY <5>1
      <4>7. Body(vm.file[vm.cur]).kind = "body" /\ Name(vm.cur).file = vm.cur
        BY DEF Body, Name
      <4>8. ASSUME Pos(s) # "gone" PROVE Store(g, Up(old, ms), Pos(s), sfile, cur)
        <5>. DEFINE t == Up(old, ms)
        <5>1. t.up = old.up \o ms
          BY <4>6, <4>8, <3>0
        <5> HIDE DEF t, ms, g
        <5>2. Store(vm, old, Pos(s), sfile, cur) /\ Only(old.up, FileKind)
          BY <4>8, <2>1, <2>2, <4>1
        <5>3. old.up # <<>> => ms[1] = Body(vm.file[old.up[Len(old.up)].file])
          BY <4>1, <4>6, <4>7, <4>8, <2>4
        <5>4. Pos(s) = "body" /\ old.up = <<>> => ms[1] = Body(vm.file[cur])
          BY <4>1, <4>6, <4>8, <2>4
        <5>5. \A k \in DOMAIN ms :
                /\ ms[k].kind = "name" => ms[k].file \in Present(vm.file) /\ k = Len(ms)
                /\ ms[k].kind = "EOF" => k = Len(ms)
          BY <4>6, <4>7
        <5>6. \A e \in vm.todo \ g.todo : \E k \in DOMAIN ms : ms[k] = Name(e)
          BY <4>5
        <5>7. g.todo \subseteq vm.todo /\ g.pc # "setBody" /\ g.pc # "end"
          BY <4>5
        <5>8. Store(g, t, Pos(s), sfile, cur)
          BY <5>1, <5>2, <5>3, <5>4, <5>5, <5>6, <5>7, <4>5, <4>6, <2>1, StoreSays
        <5> QED BY <5>8 DEF t
      <4>9. \A i \in DOMAIN ms : ms[i].kind # "RES"
        BY <4>6, <4>7
      <4> HIDE DEF g, ms
      <4> QED BY <4>1, <4>3, <4>4, <4>5, <4>6, <4>8, <4>9
    <3>3. CASE SendEOF
      <4>. DEFINE ms == <<Hdr("EOF")>>
                  g  == [vm EXCEPT !.pc = "end"]
      <4>1. Send(ms, g) /\ vm.pc = "set" /\ vm.todo = {}
        BY <3>3 DEF SendEOF
      <4>3. g \in GuestRecord
        BY Known DEF GuestRecord, GuestPC
      <4>4. g.sock = s /\ g.chk = vm.chk
        BY Known DEF GuestRecord
      <4>5. g.file = vm.file /\ g.pc = "end" /\ g.todo = vm.todo
        BY Known DEF GuestRecord
      <4>6. ms \in Seq(Msg) /\ DOMAIN ms = {1} /\ Len(ms) = 1 /\ ms[1] = Hdr("EOF") /\ ms # <<>>
        <5>1. Hdr("EOF") \in Msg
          BY MsgType
        <5> QED BY <5>1
      <4>7. Hdr("EOF").kind = "EOF"
        BY DEF Hdr
      <4>8. ASSUME Pos(s) # "gone" PROVE Store(g, Up(old, ms), Pos(s), sfile, cur)
        <5>. DEFINE t == Up(old, ms)
        <5>1. t.up = old.up \o ms
          BY <4>6, <4>8, <3>0
        <5> HIDE DEF t, ms, g
        <5>2. Store(vm, old, Pos(s), sfile, cur) /\ Only(old.up, FileKind)
          BY <4>8, <2>1, <2>2, <4>1
        <5>3. /\ old.up # <<>> => old.up[Len(old.up)].kind # "name"
              /\ Pos(s) = "body" => old.up # <<>>
          BY <4>1, <4>8, <2>3
        <5>5. \A k \in DOMAIN ms :
                /\ ms[k].kind = "name" => ms[k].file \in Present(vm.file) /\ k = Len(ms)
                /\ ms[k].kind = "EOF" => k = Len(ms)
          BY <4>6, <4>7
        <5>6. \A e \in vm.todo \ g.todo : \E k \in DOMAIN ms : ms[k] = Name(e)
          BY <4>5
        <5>7. g.todo \subseteq vm.todo /\ g.pc # "setBody" /\ g.todo = {}
          BY <4>1, <4>5
        <5>8. Store(g, t, Pos(s), sfile, cur)
          BY <5>1, <5>2, <5>3, <5>5, <5>6, <5>7, <4>5, <4>6, <2>1, StoreSays
        <5> QED BY <5>8 DEF t
      <4>9. \A i \in DOMAIN ms : ms[i].kind # "RES"
        BY <4>6, <4>7
      <4> HIDE DEF g, ms
      <4> QED BY <4>1, <4>3, <4>4, <4>5, <4>6, <4>8, <4>9
    <3> QED BY <3>1, <3>2, <3>3
  <2>. DEFINE r == Up(old, ms)
  <2>6. /\ vm' = g /\ UNCHANGED <<saved, snap, pending, fd, host>>
        /\ conn' = [conn EXCEPT ![s] = r]
        /\ r \in ConnState /\ r.down = old.down /\ (r.srv = "open" <=> old.srv = "open")
    <3> HIDE DEF r
    <3>1. r = Up(old, ms)
      BY DEF r
    <3>2. /\ vm' = g /\ UNCHANGED <<saved, snap, pending, fd, host>>
          /\ conn' = [conn EXCEPT ![s] = IF g.sock = NoConn THEN CliClose(r) ELSE r]
          /\ r \in ConnState /\ r.down = old.down /\ (r.srv = "open" <=> old.srv = "open")
      BY <3>1, <2>5, <1>3, Writes
    <3> QED BY <3>2, <2>5, <1>3, Known
  <2>7. NoRES(r)
    BY <2>1, <2>5, UpNoRES
  <2>8. Pos(s) # "gone" => Store(g, r, Pos(s), sfile, cur)
    BY <2>5
  <2> HIDE DEF r
  <2>9. /\ UNCHANGED <<spc, client, sfile, todo, cur>> /\ Goes
        /\ vm'.sock = s /\ vm'.chk = vm.chk /\ vm'.file = vm.file /\ conn'[s] = r
        /\ vm'.pc \in {"set", "setBody", "end"}
    BY <1>3, <2>5, <2>6, Known DEF host, Goes
  <2>10. Pos(s)' = Pos(s)
    BY <1>3, <2>6, <2>9 DEF Pos, Served
  <2>11. OthersInv'
    <3>1. Owner
      BY <1>1 DEF Owner
    <3> QED BY <3>1, <1>1, <1>3, <2>1, <2>6, <2>9, Staying, Known
  <2>12. FetchInv'
    BY <1>1, <2>9, Known DEF FetchInv, Owner
  <2>13. StoreInv'
    BY <2>1, <2>6, <2>8, <2>9, <2>10 DEF StoreInv
  <2>14. RestoreInv'
    BY <2>6, <2>7, <2>9, RestoreStays
  <2> QED BY <2>11, <2>12, <2>13, <2>14 DEF Backup
<1> QED BY <1>1, <1>2, <1>3

LEMMA GuestBackup ==
  ASSUME BackupInv,
         GuestStep \/ CallCheckpoint \/ CallRestore \/ CallRefused \/ Train \/ Launch \/ Kill \/ Type
  PROVE  Backup'
  BY LeavingSteps, QuietSteps, AskingSteps, FetchingSteps, ConnectingSteps, RevertAsked,
     FilesFetched, FilesStored, SendingSteps
     DEF GuestStep

-------------------------------------------------------------------------------
(* The server's steps *)

\* The loop of start(), nobody being served.
LEMMA LoopBackup ==
  ASSUME BackupInv,
         Select \/ StdinTurn \/ CinLine \/ CinWord \/ Accept \/ Restart
  PROVE  Backup'
<1>1. spc \notin Serving /\ client = Stdin
  BY Known DEF BookInv, Place, Serving, Select, StdinTurn, CinLine, CinWord, Accept, Restart, Turn
<1>2. /\ spc' \notin Serving /\ client' = Stdin
      /\ UNCHANGED <<vm, conn, pending, sfile, todo, cur, saved, snap>>
  BY <1>1 DEF Serving, Select, StdinTurn, CinLine, CinWord, Accept, Restart, Turn, DoneWith, guest, host
<1>3. Served = NoConn /\ Served' = NoConn /\ \A c \in Conn : c # NoConn
  BY <1>1, <1>2 DEF Served
<1>4. spc \notin {"send", "revert"} /\ spc' \notin {"send", "revert"}
  BY <1>1, <1>2 DEF Serving
<1>5. \A c \in Conn : Pos(c)' = Pos(c)
  BY <1>2, <1>3 DEF Pos
<1>6. Others' = Others /\ Others \subseteq Conn /\ (HeardOut' <=> HeardOut) /\ (Owner' <=> Owner)
      /\ (Restoring' <=> Restoring)
  BY <1>2, <1>3, <1>4 DEF Others, HeardOut, Owner, Restoring, IsRES
<1>7. (Silent => Silent') /\ (Harmless => Harmless')
  BY <1>2, <1>3, <1>6 DEF Silent, Harmless
<1>8. OthersInv'
  BY <1>2, <1>6, <1>7, Known DEF OthersInv
<1>9. FetchInv' /\ StoreInv'
  BY <1>2, <1>4, <1>5, <1>6, Known DEF FetchInv, StoreInv
<1>10. RestoreInv'
  BY <1>1, <1>2, <1>6, Known DEF RestoreInv, IsRES
<1> QED BY <1>8, <1>9, <1>10 DEF Backup

\* Whoever is served next, nobody older has anything to say.
LEMMA ServeBackup ==
  ASSUME BackupInv, Serve
  PROVE  Backup'
<1>1. PICK s \in Slot, i \in DOMAIN pending :
        /\ Turn(s) /\ client' = s /\ pending[i] = fd[s]
        /\ pending' = Without(pending, i)
  BY DEF Serve, Without
<1>2. /\ spc = "scan" /\ spc' = "header" /\ client = Stdin
      /\ UNCHANGED <<vm, snap, saved, conn, fd, cur, todo, sfile>>
  BY <1>1, Known DEF Serve, Turn, guest, BookInv, Place, Serving
<1>. DEFINE d == pending[i]
<1>3. Served = NoConn /\ Served' = d /\ d \in Conn /\ d # NoConn /\ s # Stdin
  BY <1>1, <1>2, Places, Known DEF Served
<1>4. ASSUME NEW c \in Conn, conn[c].srv = "open" PROVE \E j \in DOMAIN pending : pending[j] = c
  <2>1. Served # c
    BY <1>3, Known
  <2> QED BY <2>1, <1>4, Known DEF BookInv, Bookkeeping
<1>5. \A c \in Conn : Pos(c)' = Pos(c)
  BY <1>2, <1>3, Known DEF Pos
<1>6. Others' = Others /\ (Owner' <=> Owner) /\ (Restoring' <=> Restoring)
  BY <1>2 DEF Others, Owner, Restoring, IsRES
<1>7. HeardOut => HeardOut'
  BY <1>2, <1>3, Known DEF HeardOut
<1>8. \A j \in DOMAIN pending : j < i => conn[pending[j]].up = <<>>
  <2>1. pending[i] = fd[client']
    BY <1>1
  <2> QED BY <2>1, ServeOldest, Known
<1>9. ASSUME HeardOut' PROVE Silent'
  <2>1. ASSUME NEW c \in Others PROVE conn[c].up = <<>>
    <3>1. CASE HeardOut
      BY <3>1, <2>1, Known DEF OthersInv, Silent
    <3>2. CASE ~HeardOut
      <4>1. vm.sock = d
        BY <3>2, <1>2, <1>3, <1>9 DEF HeardOut
      <4>2. PICK j \in DOMAIN pending : pending[j] = c
        BY <2>1, <1>4 DEF Others
      <4>3. j < i
        <5>1. j # i /\ ~(i < j)
          BY <4>1, <4>2, <2>1, Known DEF OrderInv, Queue, Others
        <5>2. i \in Int /\ j \in Int
          BY Places, Known
        <5> QED BY <5>1, <5>2
      <4> QED BY <4>2, <4>3, <1>8
    <3> QED BY <3>1, <3>2
  <2> QED BY <2>1, <1>2, <1>6 DEF Silent
<1>10. Owner' => Harmless'
  <2>1. Owner => \A c \in Others : conn[c].up \in {<<>>, <<Hdr("END")>>, <<Hdr("RES")>>}
    BY Known DEF OthersInv, Harmless
  <2> QED BY <2>1, <1>2, <1>6 DEF Harmless
<1>11. OthersInv'
  <2>1. vm.pc \in {"get", "name", "body"} /\ vm.sock \in Conn /\ ~HeardOut' =>
          vm.pc = "get" /\ conn[vm.sock].down = <<>>
    BY <1>7, Known DEF OthersInv
  <2> QED BY <2>1, <1>2, <1>9, <1>10, Known DEF OthersInv
<1>12. FetchInv' /\ StoreInv'
  BY <1>2, <1>5, <1>6, Known DEF FetchInv, StoreInv
<1>13. RestoreInv'
  <2>0. pending \in Seq(Conn) /\ i \in 1 .. Len(pending)
    BY Known, Places DEF BookInv, TypeOK
  <2>1. /\ \A j \in DOMAIN pending' : \E k \in DOMAIN pending : k # i /\ pending'[j] = pending[k]
        /\ \A j, k \in DOMAIN pending' : j < k =>
             \E l, m \in DOMAIN pending : l < m /\ l # i /\ m # i /\ pending'[j] = pending[l]
                                                /\ pending'[k] = pending[m]
    BY <1>1, <2>0, WithoutOrder
  <2>2. \A c \in Conn : IsRES(c)' <=> IsRES(c)
    BY <1>2 DEF IsRES
  <2>3. ASSUME NEW j \in DOMAIN pending', IsRES(pending[j])'
        PROVE  /\ \A k \in DOMAIN pending' : k < j => conn[pending'[k]].up = <<>>
               /\ conn[d].up = <<>>
    <3>. DEFINE c == pending'[j]
    <3>1. c \in Conn /\ IsRES(c)
      <4>1. c \in Conn
        BY <2>1, Places, Known
      <4>2. conn[c].srv = "open" /\ conn[c].up = <<Hdr("RES")>>
        BY <2>3, <1>2 DEF IsRES
      <4> QED BY <4>1, <4>2 DEF IsRES
    <3>2. \A m \in DOMAIN pending : pending[m] = c =>
            \A l \in DOMAIN pending : l < m => conn[pending[l]].up = <<>>
      BY <3>1, Known DEF RestoreInv
    <3>3. \A k \in DOMAIN pending' : k < j => conn[pending'[k]].up = <<>>
      BY <3>2, <2>1
    <3>4. PICK m \in DOMAIN pending : m # i /\ pending[m] = c
      BY <2>1
    <3>5. conn[c].up # <<>>
      <4>1. <<Hdr("RES")>> # <<>>
        OBVIOUS
      <4> QED BY <4>1, <3>1 DEF IsRES
    <3>6. ~(m < i)
      BY <3>4, <3>5, <1>8
    <3>7. i < m
      <4>1. i \in Int /\ m \in Int
        BY Places, Known
      <4> QED BY <4>1, <3>4, <3>6
    <3>8. conn[d].up = <<>>
      BY <3>2, <3>4, <3>7
    <3> QED BY <3>3, <3>8
  <2> QED BY <2>2, <2>3, <1>2, <1>3, <1>6, Known DEF RestoreInv
<1> QED BY <1>11, <1>12, <1>13 DEF Backup

\* A server that does anything but wait for a header, in its place or not: everybody else is silent,
\* or will not be silent again before the guest is done with this one.
Active == client # Stdin /\ spc # "astray" /\ (spc # "header" \/ conn[Served].up # <<>>)

LEMMA Acts ==
  ASSUME BackupInv, Active
  PROVE  /\ Served \in Conn /\ conn[Served] \in ConnState /\ conn[Served].srv = "open"
         /\ Pos(Served) = spc /\ spc \in Serving
         /\ vm.sock = Served => Talk(vm.pc, conn[Served], spc) /\ HeardOut
         /\ vm.sock # Served => ~HeardOut
         /\ Owner /\ vm.sock # Served =>
              spc = "revert" \/ (spc = "header" /\ conn[Served].up \in {<<Hdr("END")>>, <<Hdr("RES")>>})
         /\ vm.pc \notin {"toRES", "RES"}
         /\ \A c \in Conn : IsRES(c) => c = Served
         /\ \A j \in DOMAIN pending : ~IsRES(pending[j]) /\ pending[j] # Served
<1>1. /\ Served \in Conn /\ conn[Served] \in ConnState /\ conn[Served].srv = "open"
      /\ Pos(Served) = spc /\ spc \in Serving
      /\ vm.sock = Served => Talk(vm.pc, conn[Served], spc)
  BY ServedTalk, Known DEF Active, BookInv, Place
<1>2. vm.sock = Served => HeardOut
  BY <1>1 DEF HeardOut
<1>3. ASSUME vm.sock # Served, HeardOut PROVE FALSE
  <2>1. Served \in Others
    BY <1>1, <1>3 DEF Others
  <2>2. conn[Served].up = <<>> /\ spc \in {"header", "astray"}
    BY <2>1, <1>3, Known DEF OthersInv, Silent
  <2> QED BY <2>2 DEF Active
<1>4. ASSUME Owner, vm.sock # Served
      PROVE  spc = "revert" \/ (spc = "header" /\ conn[Served].up \in {<<Hdr("END")>>, <<Hdr("RES")>>})
  <2>1. Served \in Others
    BY <1>1, <1>4 DEF Others
  <2>2. conn[Served].up \in {<<>>, <<Hdr("END")>>, <<Hdr("RES")>>} /\ spc \in {"header", "revert", "astray"}
    BY <2>1, <1>4, Known DEF OthersInv, Harmless
  <2> QED BY <2>2 DEF Active
<1>5. ASSUME vm.pc \in {"toRES", "RES"} PROVE FALSE
  <2>1. HeardOut
    BY <1>5 DEF HeardOut
  <2>2. vm.sock = Served /\ vm.pc = "RES"
    BY <2>1, <1>1, <1>3, <1>5, Known
  <2>3. spc # "gone"
    BY <1>1 DEF Serving
  <2>4. spc = "header" /\ conn[Served].up = <<>>
    BY <2>2, <2>3, <1>1 DEF Talk
  <2> QED BY <2>4 DEF Active
<1>6. ASSUME NEW j \in DOMAIN pending PROVE ~IsRES(pending[j]) /\ pending[j] # Served
  BY Places, Known DEF RestoreInv, Active
<1>7. ASSUME NEW c \in Conn, IsRES(c) PROVE c = Served
  <2>1. conn[c].srv = "open"
    BY <1>7 DEF IsRES
  <2>2. Served = c \/ \E i \in DOMAIN pending : pending[i] = c
    BY <2>1, Known DEF BookInv, Bookkeeping
  <2> QED BY <2>2, <1>6, <1>7
<1> QED BY <1>1, <1>2, <1>3, <1>4, <1>5, <1>6, <1>7

\* serveClient returns.
LEMMA Finishing ==
  ASSUME BackupInv, client # Stdin, NEW r \in ConnState, Finish(conn, r), spc \notin {"send", "astray"},
         UNCHANGED <<vm, saved, snap, pending, cur, todo, sfile>>,
         vm.sock = Served => vm.pc \in {"ckp", "ping", "end"} /\ (vm.pc = "end" => sfile = vm.file)
  PROVE  Backup'
<1>1. Served \in Conn /\ conn[Served].srv = "open"
  BY ServedTalk, Known
<1>. DEFINE a == Served
<1>2. /\ conn'[a].srv # "open" /\ \A c \in Conn : c # a => conn'[c] = conn[c]
      /\ client' = Stdin /\ spc' \in {"select", "scan"} /\ Served' = NoConn
  <2>1. SrvClose(r).srv # "open"
    BY EndsApart
  <2>2. client' = Stdin /\ spc' \in {"select", "scan"} /\ conn' = [conn EXCEPT ![Served] = SrvClose(r)]
    BY DEF Finish, DoneWith
  <2> QED BY <2>1, <2>2, <1>1, Known DEF Served
<1> HIDE DEF a
<1>3. a = Served /\ a # NoConn /\ a \in Conn /\ conn[a].srv = "open"
  BY <1>1, Known DEF a
<1>4. Others' = Others \ {a}
  BY <1>2 DEF Others
<1>5. (Silent => Silent') /\ (Harmless => Harmless')
  <2>1. \A c \in Others' : c \in Conn /\ c \in Others /\ c # NoConn /\ conn'[c] = conn[c]
    BY <1>2, <1>4, Known DEF Others
  <2> QED BY <2>1, <1>2 DEF Silent, Harmless
<1>6. vm.sock \in Conn => (HeardOut' <=> HeardOut)
  BY <1>2, <1>3, Known DEF HeardOut
<1>7. (HeardOut' => HeardOut) /\ (Owner' <=> Owner)
  BY <1>6 DEF HeardOut, Owner
<1>8. vm.sock = a => HeardOut
  BY <1>3 DEF HeardOut
<1>9. OthersInv'
  <2>1. vm.pc \in {"get", "name", "body"} /\ vm.sock \in Conn /\ ~HeardOut' =>
          vm.pc = "get" /\ conn'[vm.sock].down = <<>>
    BY <1>2, <1>6, <1>8, Known DEF OthersInv
  <2>2. vm.pc = "end" /\ vm.sock \in Conn =>
          (conn'[vm.sock].srv = "open" => conn'[vm.sock].down = <<>>)
    BY <1>2, Known DEF OthersInv
  <2> QED BY <2>1, <2>2, <1>5, <1>7, Known DEF OthersInv
<1>10. \A c \in Conn : IF c = a THEN Pos(c)' = "gone" ELSE Pos(c)' = Pos(c)
  <2>1. ASSUME NEW c \in Conn, c = a PROVE Pos(c)' = "gone"
    BY <2>1, <1>2 DEF Pos
  <2>2. ASSUME NEW c \in Conn, c # a PROVE Pos(c)' = Pos(c)
    <3>1. conn'[c] = conn[c] /\ Served # c /\ Served' # c
      BY <2>2, <1>2, <1>3, Known
    <3> QED BY <3>1 DEF Pos
  <2> QED BY <2>1, <2>2
<1>11. FetchInv'
  BY <1>2, <1>3, <1>7, <1>10, Known DEF FetchInv
<1>12. StoreInv'
  BY <1>2, <1>3, <1>10, Known DEF StoreInv
<1>13. RestoreInv'
  <2>1. \A c \in Conn : IsRES(c)' => c # a /\ IsRES(c)
    BY <1>2 DEF IsRES
  <2>2. \A c \in Conn : c # a => (IsRES(c)' <=> IsRES(c))
    BY <1>2 DEF IsRES
  <2>3. Restoring' => Restoring
    BY <1>2, <2>1 DEF Restoring
  <2>4. \A i \in DOMAIN pending : pending[i] \in Conn /\ pending[i] # a
    BY <1>3, Places, Known
  <2> QED BY <1>2, <2>1, <2>2, <2>3, <2>4, Known DEF RestoreInv
<1> QED BY <1>9, <1>11, <1>12, <1>13 DEF Backup

\* serveClient goes on.
LEMMA Continuing ==
  ASSUME BackupInv, Active, NEW pc \in Serving \ {"astray"}, NEW r \in ConnState, r.srv = "open",
         conn' = [conn EXCEPT ![Served] = r], spc' = pc,
         UNCHANGED <<vm, saved, pending, fd, client>>,
         snap' # NoSnap => Restorable(snap'),
         NoRES(r) \/ r.up = <<Hdr("RES")>>,
         pc = "revert" \/ ~NoRES(r) => IsRES(Served) /\ sfile' = sfile,
         Owner /\ vm.sock # Served => pc = "revert" /\ r.up = <<>> /\ UNCHANGED <<sfile, cur>>,
         Owner => Present(sfile') \subseteq Present(vm.file),
         todo' \subseteq Present(sfile') /\ (pc # "send" => todo' = {}),
         vm.sock = Served =>
           /\ vm.pc = "end" => r.down = <<>>
           /\ vm.pc \in {"get", "name", "body"} => Fetch(vm.file, r, pc, sfile', todo')
           /\ vm.pc \in {"set", "setBody", "end"} => Store(vm, r, pc, sfile', cur')
  PROVE  Backup'
<1>. DEFINE a == Served
<1>1. /\ a \in Conn /\ conn[a].srv = "open" /\ Served' = a /\ spc \in Serving \ {"astray"}
      /\ vm.sock = a => HeardOut
      /\ vm.sock # a => ~HeardOut
      /\ vm.pc \notin {"toRES", "RES"}
      /\ \A c \in Conn : IsRES(c) => c = a
      /\ \A j \in DOMAIN pending : ~IsRES(pending[j]) /\ pending[j] # a
  BY Acts DEF Served, Active
<1>2. conn'[a] = r /\ \A c \in Conn : c # a => conn'[c] = conn[c]
  BY <1>1, Known
<1>3. Others' = Others /\ (Owner' <=> Owner)
  BY <1>1, <1>2 DEF Others, Owner
<1>4. HeardOut' <=> HeardOut
  BY <1>1, <1>2 DEF HeardOut
<1>5. ASSUME HeardOut PROVE Silent'
  <2>1. a \notin Others
    BY <1>1, <1>5 DEF Others
  <2> QED BY <2>1, <1>1, <1>2, <1>3, <1>5, Known DEF Silent, OthersInv
<1>6. ASSUME Owner PROVE Harmless'
  <2>1. CASE vm.sock = a
    <3>1. a \notin Others
      BY <2>1 DEF Others
    <3> QED BY <3>1, <1>1, <1>2, <1>3, <1>6, Known DEF Harmless, OthersInv
  <2>2. CASE vm.sock # a
    BY <2>2, <1>1, <1>2, <1>3, <1>6, Known DEF Harmless, OthersInv
  <2> QED BY <2>1, <2>2
<1>7. OthersInv'
  <2>1. vm.pc \in {"get", "name", "body"} /\ vm.sock \in Conn /\ ~HeardOut' =>
          vm.pc = "get" /\ conn'[vm.sock].down = <<>>
    BY <1>1, <1>2, <1>4, Known DEF OthersInv
  <2>2. vm.pc = "end" /\ vm.sock \in Conn =>
          (conn'[vm.sock].srv = "open" => conn'[vm.sock].down = <<>>)
    BY <1>2, Known DEF OthersInv
  <2> QED BY <2>1, <2>2, <1>3, <1>4, <1>5, <1>6, Known DEF OthersInv
<1>8. Pos(a)' = pc /\ \A c \in Conn : c # a => Pos(c)' = Pos(c)
  BY <1>1, <1>2 DEF Pos
<1>9. FetchInv'
  <2>1. ASSUME vm.sock \in Conn, vm.pc \in {"get", "name", "body"}
        PROVE  Fetch(vm.file, conn'[vm.sock], Pos(vm.sock)', sfile', todo')
    <3>1. CASE vm.sock = a
      <4>1. Pos(vm.sock)' = pc /\ conn'[vm.sock] = r
        BY <3>1, <1>1, <1>2 DEF Pos
      <4> QED BY <4>1, <3>1, <2>1
    <3>2. CASE vm.sock # a
      <4>1. conn'[vm.sock].down = <<>>
        BY <3>2, <2>1, <1>1, <1>2, Known DEF OthersInv
      <4>2. Pos(vm.sock)' # "send"
        BY <3>2, <2>1, <1>1, <1>2 DEF Pos
      <4> QED BY <4>1, <4>2 DEF Fetch
    <3> QED BY <3>1, <3>2
  <2> QED BY <2>1, <1>1, <1>3 DEF FetchInv
<1>10. StoreInv'
  <2>1. ASSUME vm.sock \in Conn, vm.pc \in {"set", "setBody", "end"}, Pos(vm.sock)' # "gone"
        PROVE  Store(vm, conn'[vm.sock], Pos(vm.sock)', sfile', cur')
    <3>1. CASE vm.sock = a
      <4>1. Pos(vm.sock)' = pc /\ conn'[vm.sock] = r
        BY <3>1, <1>1, <1>2 DEF Pos
      <4> QED BY <4>1, <3>1, <2>1
    <3>2. CASE vm.sock # a
      <4>1. UNCHANGED <<sfile, cur>>
        BY <3>2, <2>1 DEF Owner
      <4> QED BY <4>1, <3>2, <2>1, <1>2, <1>8, Known DEF StoreInv
    <3> QED BY <3>1, <3>2
  <2>2. ASSUME vm.sock \in Conn, vm.pc = "end", conn'[vm.sock].down # <<>>
        PROVE  sfile' = vm.file
    <3>1. vm.sock # a
      BY <2>2, <1>2
    <3>2. UNCHANGED <<sfile, cur>>
      BY <3>1, <2>2 DEF Owner
    <3> QED BY <3>1, <3>2, <2>2, <1>2, Known DEF StoreInv
  <2> QED BY <2>1, <2>2 DEF StoreInv
<1>11. RestoreInv'
  <2>1. \A c \in Conn : c # a => ~IsRES(c)'
    BY <1>1, <1>2 DEF IsRES
  <2>2. \A c \in Conn : conn'[c].srv = "open" => NoRES(conn'[c]) \/ IsRES(c)'
    BY <1>2, Known DEF RestoreInv, IsRES
  <2>3. \A j \in DOMAIN pending : pending[j] \in Conn /\ pending[j] # a
    BY <1>1, Places, Known
  <2>4. ASSUME Restoring' PROVE sfile' = saved
    <3>1. IsRES(a)' => ~NoRES(r)
      BY <1>1, <1>2 DEF IsRES, NoRES, Hdr
    <3>2. pc = "revert" \/ ~NoRES(r)
      BY <2>1, <2>4, <3>1, <1>1 DEF Restoring
    <3>3. Restoring
      BY <3>2, <1>1 DEF Restoring
    <3> QED BY <3>2, <3>3, Known DEF RestoreInv
  <2> QED BY <2>1, <2>2, <2>3, <2>4 DEF RestoreInv
<1> QED BY <1>7, <1>9, <1>10, <1>11 DEF Backup

\* All that the guest stored has arrived when the server reads EOF.
LEMMA AllStored ==
  ASSUME BackupInv, client # Stdin, vm.sock = Served, vm.pc = "end",
         At("header", Hdr("EOF"))
  PROVE  sfile = vm.file
<1>. DEFINE old == conn[Served]
<1>1. /\ Served \in Conn /\ old \in ConnState /\ old.srv = "open" /\ Pos(Served) = "header"
      /\ old.up # <<>> /\ Head(old.up) = Hdr("EOF")
  BY ServedTalk, Known DEF At
<1>2. Store(vm, old, "header", sfile, cur)
  BY <1>1, Known DEF StoreInv
<1>3. DOMAIN old.up = {1} /\ old.up[1] = Hdr("EOF")
  <2>1. old.up \in Seq(Msg) /\ 1 \in DOMAIN old.up /\ old.up[1] = Hdr("EOF")
    BY <1>1, HeadTailProperties, LenProperties, EmptySeq DEF ConnState
  <2>2. Hdr("EOF").kind = "EOF"
    BY DEF Hdr
  <2>3. Len(old.up) = 1
    BY <2>1, <2>2, <1>2 DEF Store
  <2> QED BY <2>1, <2>3, LenProperties
<1>4. \A f \in Present(vm.file) : sfile[f] = vm.file[f]
  <2>1. \A f : Hdr("EOF") # Name(f)
    BY DEF Hdr, Name
  <2>2. vm.todo = {}
    BY <1>2 DEF Store
  <2> QED BY <2>1, <2>2, <1>2, <1>3 DEF Store
<1>5. Present(sfile) \subseteq Present(vm.file)
  BY Known DEF FetchInv, Owner
<1>6. sfile \in [Files -> Content] /\ vm.file \in [Files -> Content]
  BY Known DEF BookInv, TypeOK, GuestRecord
<1>7. \A f \in Files : sfile[f] = vm.file[f]
  BY <1>4, <1>5 DEF Present
<1> QED BY <1>6, <1>7

\* Steps with which serveClient returns.
LEMMA ReturnSteps ==
  ASSUME BackupInv,
         \/ ServeCKP /\ ~ckptReq
         \/ ServeRES /\ ~ckpted
         \/ ServeEOF \/ ServeEND \/ AnswerCKY
  PROVE  Backup'
<1>. DEFINE old == conn[Served]
<1>1. client # Stdin /\ spc \notin {"send", "astray"}
  BY Known DEF BookInv, Place, Serving, ServeCKP, ServeRES, ServeEOF, ServeEND, AnswerCKY, At
<1>2. /\ old \in ConnState
      /\ vm.sock = Served => /\ Talk(vm.pc, old, spc)
                             /\ vm.pc \in GuestPC \ {"run", "toGET", "toRES", "dead"}
  BY <1>1, ServedTalk, Known
<1>3. UNCHANGED <<vm, saved, snap, pending, cur, todo, sfile>>
  BY DEF ServeCKP, ServeRES, ServeEOF, ServeEND, AnswerCKY, guest
<1>4. CASE ServeEOF \/ (ServeCKP /\ ~ckptReq) \/ (ServeRES /\ ~ckpted) \/ ServeEND
  <2>1. PICK h \in {"EOF", "CKP", "RES", "END"} :
          /\ At("header", Hdr(h))
          /\ Finish(conn, Read) \/ \E m \in {Hdr("END"), Hdr("CKN")} : Finish(conn, Down(Read, <<m>>))
    <3>1. CASE ServeEOF
      BY <3>1 DEF ServeEOF
    <3>2. CASE ServeCKP /\ ~ckptReq
      BY <3>2 DEF ServeCKP
    <3>3. CASE (ServeRES /\ ~ckpted) \/ ServeEND
      BY <3>3 DEF ServeRES, ServeEND
    <3> QED BY <3>1, <3>2, <3>3, <1>4
  <2>2. /\ spc = "header" /\ old.up # <<>> /\ Head(old.up).kind = h /\ Read \in ConnState
    BY <2>1, <1>1, ReadFlow, HeaderKinds, Known
  <2>3. PICK r \in ConnState : Finish(conn, r)
    <3>1. \A m \in {Hdr("END"), Hdr("CKN")} : <<m>> \in Seq(Msg)
      BY OneMsg
    <3> QED BY <3>1, <2>1, <2>2, ConnType
  <2>4. ASSUME vm.sock = Served
        PROVE  vm.pc \in {"ckp", "ping", "end"} /\ (vm.pc = "end" => sfile = vm.file)
    <3>1. /\ h = "CKP" => vm.pc \in {"ckp", "ping"}
          /\ h = "EOF" => vm.pc = "end"
          /\ h \notin {"RES", "END"}
      BY <2>2, <2>4, <1>2, TalkHeads
    <3>2. vm.pc = "end" => h = "EOF"
      BY <3>1, <2>1
    <3>3. vm.pc = "end" => sfile = vm.file
      BY <3>2, <2>1, <2>4, <1>1, AllStored
    <3> QED BY <3>1, <3>3, <2>1
  <2> QED BY <2>3, <2>4, <1>1, <1>3, Finishing
<1>5. CASE AnswerCKY
  <2>1. spc = "cky" /\ Finish(conn, Down(old, <<Hdr("CKY")>>))
    BY <1>5 DEF AnswerCKY
  <2>2. Down(old, <<Hdr("CKY")>>) \in ConnState
    BY <1>2, OneMsg, ConnType
  <2>3. vm.sock = Served => vm.pc \in {"ckp", "ping"}
    BY <2>1, <1>2 DEF Talk, GuestPC
  <2> QED BY <2>1, <2>2, <2>3, <1>1, <1>3, Finishing
<1> QED BY <1>4, <1>5

\* The revert: whoever comes out of the snapshot owns nothing.
LEMMA RevertBackup ==
  ASSUME BackupInv, RevertSnapshot
  PROVE  Backup'
<1>. DEFINE a == Served
<1>1. Active /\ spc = "revert" /\ client # Stdin
  BY Known DEF RevertSnapshot, Active, BookInv, Place, Serving
<1>2. a \in Conn /\ conn[a] \in ConnState /\ vm.sock # a /\ conn \in [Conn -> ConnState]
  BY <1>1, Acts, Known DEF BookInv, Farewell, Bookkeeping
<1>3. PICK ok \in BOOLEAN :
       /\ ok => snap # NoSnap
       /\ vm' = IF ok THEN snap ELSE vm
       /\ Finish(IF ok /\ vm.sock \in Conn
                 THEN [conn EXCEPT ![vm.sock] = CliLost(@)]
                 ELSE conn, conn[Served])
  <2>1. PICK ok \in {snap # NoSnap} \cup (IF VirshFails THEN {FALSE} ELSE {}) :
          /\ vm' = IF ok THEN snap ELSE vm
          /\ Finish(IF ok /\ vm.sock \in Conn
                    THEN [conn EXCEPT ![vm.sock] = CliLost(@)]
                    ELSE conn, conn[Served])
    BY DEF RevertSnapshot
  <2>2. ok \in BOOLEAN /\ (ok => snap # NoSnap)
    OBVIOUS
  <2> QED BY <2>1, <2>2
<1>4. UNCHANGED <<saved, snap, pending, cur, todo, sfile>>
  BY DEF RevertSnapshot
<1>5. CASE ~ok
  <2>1. vm' = vm /\ Finish(conn, conn[Served])
    BY <1>3, <1>5
  <2> QED BY <2>1, <1>1, <1>2, <1>4, Finishing
<1>6. CASE ok
  <2>1. /\ vm' = snap /\ snap # NoSnap
        /\ Finish(IF vm.sock \in Conn THEN [conn EXCEPT ![vm.sock] = CliLost(@)] ELSE conn, conn[Served])
    BY <1>3, <1>6
  <2>2. Restorable(vm') /\ vm'.sock \notin Conn
    BY <2>1, Known DEF OthersInv, BookInv, SnapSock
  <2>3. ~HeardOut' /\ ~Owner' /\ vm'.pc \notin {"toRES", "RES", "set", "setBody", "end"}
    BY <2>2 DEF HeardOut, Owner, Restorable
  <2>4. /\ conn'[a].srv # "open"
        /\ \A c \in Conn : c # a => conn'[c] = IF c = vm.sock THEN CliLost(conn[c]) ELSE conn[c]
        /\ client' = Stdin /\ spc' \in {"select", "scan"} /\ Served' = NoConn
    <3>1. SrvClose(conn[a]).srv # "open"
      BY <1>2, EndsApart
    <3>2. client' = Stdin /\ spc' \in {"select", "scan"}
          /\ conn' = [IF vm.sock \in Conn THEN [conn EXCEPT ![vm.sock] = CliLost(@)] ELSE conn
                        EXCEPT ![Served] = SrvClose(conn[Served])]
      BY <2>1 DEF Finish, DoneWith
    <3> QED BY <3>1, <3>2, <1>2 DEF Served
  <2>5. vm.sock \in Conn => NoRES(CliLost(conn[vm.sock]))
    <3>1. ASSUME vm.sock \in Conn
          PROVE  CliLost(conn[vm.sock]) = FreeConn \/ CliLost(conn[vm.sock]).up = conn[vm.sock].up
      BY <3>1, Mine DEF CliLost, Settled, ConnState
    <3> QED BY <3>1, Mine DEF NoRES, FreeConn
  <2>6. OthersInv'
    BY <2>1, <2>2, <2>3, <1>4, Known DEF OthersInv, Restorable
  <2>7. FetchInv' /\ StoreInv'
    BY <2>2, <2>3, <2>4, <1>1, <1>4, Known DEF FetchInv, StoreInv
  <2>8. RestoreInv'
    <3>1. \A c \in Conn : ~IsRES(c)'
      <4>1. ASSUME NEW c \in Conn, IsRES(c)' PROVE FALSE
        <5>1. conn'[c].srv = "open" /\ conn'[c].up = <<Hdr("RES")>>
          BY <4>1 DEF IsRES
        <5>2. ~NoRES(conn'[c])
          BY <5>1 DEF NoRES, Hdr
        <5>3. c # a /\ c # vm.sock
          BY <5>1, <5>2, <2>4, <2>5
        <5>4. IsRES(c)
          BY <5>1, <5>3, <2>4 DEF IsRES
        <5> QED BY <5>3, <5>4, <1>1, Acts
      <4> QED BY <4>1
    <3>2. ASSUME NEW c \in Conn, conn'[c].srv = "open" PROVE NoRES(conn'[c])
      <4>1. c # a
        BY <3>2, <2>4
      <4>2. CASE c = vm.sock
        BY <4>1, <4>2, <2>4, <2>5
      <4>3. CASE c # vm.sock
        <5>1. conn'[c] = conn[c] /\ ~IsRES(c)
          BY <4>1, <4>3, <2>4, <1>1, Acts
        <5> QED BY <5>1, <3>2, Known DEF RestoreInv
      <4> QED BY <4>2, <4>3
    <3>3. \A j \in DOMAIN pending : pending[j] \in Conn
      BY Places, Known
    <3> QED BY <3>1, <3>2, <3>3, <2>3, <2>4, <1>4 DEF RestoreInv, Restoring
  <2> QED BY <2>6, <2>7, <2>8 DEF Backup
<1> QED BY <1>5, <1>6

\* The places of a sequence that has lost its first one.
LEMMA TailPlaces ==
  ASSUME NEW S, NEW q \in Seq(S), q # <<>>, NEW t, t = Tail(q)
  PROVE  /\ Len(q) \in Nat /\ Len(t) = Len(q) - 1 /\ Head(q) = q[1] /\ 1 \in DOMAIN q
         /\ DOMAIN q = 1 .. Len(q) /\ DOMAIN t = 1 .. Len(t)
         /\ t = <<>> <=> Len(q) = 1
         /\ \A k \in DOMAIN t : k + 1 \in DOMAIN q /\ t[k] = q[k + 1]
         /\ \A k \in DOMAIN q : k = 1 \/ (k - 1 \in DOMAIN t /\ t[k - 1] = q[k])
<1>. DEFINE n == Len(q)
<1>1. /\ n \in Nat /\ n # 0 /\ t \in Seq(S) /\ Len(t) = n - 1 /\ Head(q) = q[1]
      /\ DOMAIN q = 1 .. n /\ DOMAIN t = 1 .. Len(t)
      /\ \A k \in 1 .. Len(t) : t[k] = q[k + 1]
  BY HeadTailProperties, LenProperties, EmptySeq
<1>2. t = <<>> <=> Len(t) = 0
  BY <1>1, EmptySeq
<1> HIDE DEF n
<1>3. DOMAIN t = 1 .. (n - 1) /\ 1 \in 1 .. n
  BY <1>1
<1>4. \A k \in 1 .. (n - 1) : k + 1 \in 1 .. n
  BY <1>1
<1>5. \A k \in 1 .. n : k = 1 \/ (k - 1 \in 1 .. (n - 1) /\ (k - 1) + 1 = k)
  BY <1>1
<1>6. t = <<>> <=> n = 1
  BY <1>1, <1>2
<1> QED BY <1>1, <1>3, <1>4, <1>5, <1>6 DEF n

\* serveClient waits out of place, or reads there: nothing that is said gets to it.
LEMMA AstrayBackup ==
  ASSUME BackupInv, ReadTimeout \/ Misread
  PROVE  Backup'
<1>. DEFINE a == Served
            r == conn'[a]
<1>1. /\ client # Stdin /\ spc' = "astray" /\ spc \in {"header", "name", "body", "astray"}
      /\ UNCHANGED <<vm, saved, snap, pending, fd, client, sfile, todo, cur>>
      /\ conn[a].up # <<>> => spc = "astray" /\ r.up = Tail(conn[a].up)
      /\ conn[a].up = <<>> => r = conn[a]
      /\ a \in Conn /\ Served' = a /\ conn[a] \in ConnState
  <2>1. client # Stdin /\ spc' = "astray" /\ UNCHANGED <<fd, client>>
    BY Known DEF BookInv, Place, Serving, ReadTimeout, Misread, Continue
  <2>2. a \in Conn /\ Served' = a /\ conn[a] \in ConnState
    BY <2>1, ServedConn, Known DEF Served
  <2> QED BY <2>1, <2>2, Known DEF ReadTimeout, Misread, Continue, Read, guest, ConnState
<1>2. /\ \A c \in Conn : c # a => conn'[c] = conn[c]
      /\ r.srv = conn[a].srv /\ r.down = conn[a].down
  BY <1>1, Known DEF ReadTimeout, Misread, Continue, Read, ConnState
<1>. HIDE DEF a, r
<1>3. conn'[a] = r /\ Served = a /\ Served' = a
  BY <1>1 DEF a, r
<1>4. \A c \in Conn : IF c = a THEN Pos(c)' = "gone" ELSE Pos(c)' = Pos(c)
  BY <1>1, <1>2, <1>3 DEF Pos
<1>5. Others' = Others /\ (HeardOut' <=> HeardOut) /\ (Owner' <=> Owner)
  BY <1>1, <1>2, <1>3 DEF Others, HeardOut, Owner
<1>6. conn[a].up \in Seq(Msg) /\ \A h \in HeaderKind : Tail(<<Hdr(h)>>) = <<>>
  BY <1>1 DEF ConnState
<1>7. (Silent => Silent') /\ (Harmless => Harmless')
  BY <1>1, <1>2, <1>3, <1>5, <1>6 DEF Silent, Harmless, Others
<1>8. OthersInv'
  BY <1>1, <1>2, <1>3, <1>5, <1>7, Known DEF OthersInv
<1>9. FetchInv'
  <2>1. ASSUME vm.sock \in Conn, vm.pc \in {"get", "name", "body"}
        PROVE  Fetch(vm.file, conn'[vm.sock], Pos(vm.sock)', sfile, todo)
    <3>1. Fetch(vm.file, conn[vm.sock], Pos(vm.sock), sfile, todo)
      BY <2>1, Known DEF FetchInv
    <3>2. conn'[vm.sock].down = conn[vm.sock].down
      BY <2>1, <1>2, <1>3
    <3>3. Pos(vm.sock)' = "gone" \/ Pos(vm.sock)' = Pos(vm.sock)
      BY <2>1, <1>1, <1>4
    <3>4. Pos(vm.sock) # "send"
      BY <2>1, <1>1, <1>3 DEF Pos
    <3>5. CASE Pos(vm.sock)' = Pos(vm.sock)
      BY <3>1, <3>2, <3>5 DEF Fetch
    <3>6. CASE Pos(vm.sock)' = "gone"
      BY <3>1, <3>2, <3>4, <3>6 DEF Fetch
    <3> QED BY <3>3, <3>5, <3>6
  <2> QED BY <2>1, <1>1, <1>5, Known DEF FetchInv
<1>10. StoreInv'
  BY <1>1, <1>2, <1>3, <1>4, Known DEF StoreInv
<1>11. ASSUME NEW c \in Conn
       PROVE  /\ IsRES(c)' => IsRES(c)
              /\ conn'[c].srv = "open" => NoRES(conn'[c]) \/ IsRES(c)'
  <2>1. conn[c].srv = "open" => NoRES(conn[c]) \/ IsRES(c)
    BY Known DEF RestoreInv
  <2>2. CASE c # a \/ conn[a].up = <<>>
    <3>1. conn'[c] = conn[c]
      BY <2>2, <1>1, <1>2, <1>3
    <3> QED BY <3>1, <2>1 DEF IsRES
  <2>3. CASE c = a /\ conn[a].up # <<>>
    <3>1. r.up = Tail(conn[a].up)
      BY <2>3, <1>1
    <3>2. NoRES(conn[a]) => NoRES(r)
      BY <3>1, <2>3, <1>6, TailPlaces DEF NoRES
    <3>3. conn[a].up = <<Hdr("RES")>> => r.up = <<>> /\ NoRES(r)
      BY <3>1, <1>6 DEF NoRES
    <3>4. r.up = <<Hdr("RES")>> => ~NoRES(r)
      BY DEF NoRES, Hdr
    <3> QED BY <3>2, <3>3, <3>4, <2>1, <2>3, <1>2, <1>3 DEF IsRES
  <2> QED BY <2>2, <2>3
<1>12. Restoring' => Restoring
  BY <1>1, <1>11 DEF Restoring
<1>13. RestoreInv'
  <2>1. \A i \in DOMAIN pending : pending[i] \in Conn /\ pending[i] # a
    BY <1>3, Places, Known DEF BookInv, Bookkeeping
  <2> QED BY <2>1, <1>1, <1>2, <1>3, <1>11, <1>12, Known DEF RestoreInv
<1> QED BY <1>8, <1>9, <1>10, <1>13 DEF Backup

\* The server reads one message of the files it is sent.
LEMMA StoreTake ==
  ASSUME NEW r \in ConnState, r.up # <<>>, NEW t, t.up = Tail(r.up),
         NEW g, NEW p, NEW p2, NEW sf, NEW sf2, NEW cu, NEW cu2, Store(g, r, p, sf, cu),
         p2 = "body" => cu2 \in Present(g.file) /\ Head(r.up) = Name(cu2),
         Head(r.up).kind = "name" => p2 = "body",
         \A f \in Present(g.file) : sf[f] = g.file[f] \/ Head(r.up) = Name(f) \/ (p = "body" /\ cu = f)
           => sf2[f] = g.file[f] \/ (p2 = "body" /\ cu2 = f)
  PROVE  Store(g, t, p2, sf2, cu2)
<1>. DEFINE q == r.up
            u == t.up
            n == Len(q)
<1>1. q \in Seq(Msg) /\ u = Tail(q) /\ q # <<>>
  BY DEF ConnState
<1>0. Name(g.cur).kind = "name" /\ \A f : Name(f).kind = "name" /\ Name(f).file = f
  BY DEF Name
<1> HIDE DEF q, u
<1>2. /\ Len(q) \in Nat /\ Len(u) = Len(q) - 1 /\ Head(q) = q[1] /\ 1 \in DOMAIN q
      /\ DOMAIN q = 1 .. Len(q) /\ DOMAIN u = 1 .. Len(u)
      /\ u = <<>> <=> Len(q) = 1
      /\ \A k \in DOMAIN u : k + 1 \in DOMAIN q /\ u[k] = q[k + 1]
      /\ \A k \in DOMAIN q : k = 1 \/ (k - 1 \in DOMAIN u /\ u[k - 1] = q[k])
  <2>1. /\ Len(q) \in Nat /\ Len(u) = Len(q) - 1 /\ Head(q) = q[1] /\ 1 \in DOMAIN q
        /\ DOMAIN q = 1 .. Len(q) /\ DOMAIN u = 1 .. Len(u)
        /\ u = <<>> <=> Len(q) = 1
    BY <1>1, TailPlaces
  <2>2. \A k \in DOMAIN u : k + 1 \in DOMAIN q /\ u[k] = q[k + 1]
    BY <1>1, TailPlaces
  <2>3. ASSUME NEW k \in DOMAIN q PROVE k = 1 \/ (k - 1 \in DOMAIN u /\ u[k - 1] = q[k])
    BY <1>1, <2>3, TailPlaces
  <2> QED BY <2>1, <2>2, <2>3
<1>d. n = Len(q)
  OBVIOUS
<1> HIDE DEF n
<1>3. /\ n \in Nat /\ n # 0 /\ Len(u) = n - 1
      /\ DOMAIN q = 1 .. n /\ DOMAIN u = 1 .. (n - 1)
  BY <1>2, <1>d
<1>4. ASSUME NEW k \in DOMAIN u
      PROVE  /\ u[k].kind = "name" =>
                  /\ u[k].file \in Present(g.file)
                  /\ k < Len(u) => u[k + 1] = Body(g.file[u[k].file])
             /\ u[k].kind = "EOF" => k = Len(u)
  <2>1. k + 1 \in DOMAIN q /\ u[k] = q[k + 1] /\ k \in 1 .. (n - 1)
    BY <1>2, <1>3
  <2>2. /\ q[k + 1].kind = "name" =>
             /\ q[k + 1].file \in Present(g.file)
             /\ k + 1 < Len(q) => q[(k + 1) + 1] = Body(g.file[q[k + 1].file])
        /\ q[k + 1].kind = "EOF" => k + 1 = Len(q)
    BY <2>1 DEF Store, q
  <2>3. k < Len(u) => k + 1 < n /\ k + 1 \in DOMAIN u
    BY <2>1, <1>3
  <2>4. k < Len(u) => u[k + 1] = q[(k + 1) + 1]
    BY <2>3, <1>2
  <2>5. k + 1 = n => k = Len(u)
    BY <2>1, <1>3
  <2> QED BY <2>1, <2>2, <2>3, <2>4, <2>5, <1>d
<1>5. g.todo \subseteq Present(g.file)
  BY DEF Store
<1>6. p2 = "body" => cu2 \in Present(g.file) /\ (u # <<>> => u[1] = Body(g.file[cu2]))
  <2>1. ASSUME p2 = "body", u # <<>> PROVE u[1] = Body(g.file[cu2])
    <3>1. q[1] = Name(cu2)
      BY <2>1, <1>2 DEF q
    <3>2. 1 < n
      BY <2>1, <1>2, <1>3, <1>d
    <3>3. q[1 + 1] = Body(g.file[q[1].file])
      BY <3>1, <3>2, <1>0, <1>2, <1>d DEF Store, q
    <3>4. 1 \in DOMAIN u
      BY <3>2, <1>3
    <3>5. u[1] = q[1 + 1]
      BY <3>4, <1>2
    <3> QED BY <3>1, <3>3, <3>5, <1>0
  <2> QED BY <2>1
<1>7. ASSUME NEW f \in Present(g.file)
      PROVE  \/ f \in g.todo
             \/ \E k \in DOMAIN u : u[k] = Name(f)
             \/ p2 = "body" /\ cu2 = f
             \/ sf2[f] = g.file[f]
  <2>1. \/ f \in g.todo
        \/ \E k \in DOMAIN q : q[k] = Name(f)
        \/ p = "body" /\ cu = f
        \/ sf[f] = g.file[f]
    BY DEF Store, q
  <2>2. ASSUME NEW k \in DOMAIN q, q[k] = Name(f)
        PROVE  Head(q) = Name(f) \/ \E j \in DOMAIN u : u[j] = Name(f)
    BY <2>2, <1>2
  <2> QED BY <2>1, <2>2 DEF q
<1>8. g.pc = "setBody" => IF u = <<>> THEN p2 = "body" /\ cu2 = g.cur ELSE u[Len(u)] = Name(g.cur)
  <2>1. SUFFICES ASSUME g.pc = "setBody" PROVE IF u = <<>> THEN p2 = "body" /\ cu2 = g.cur ELSE u[Len(u)] = Name(g.cur)
    OBVIOUS
  <2>2. q[n] = Name(g.cur)
    BY <2>1, <1>1, <1>d DEF Store, q
  <2>3. CASE u = <<>>
    <3>1. Head(q) = Name(g.cur)
      BY <2>2, <2>3, <1>2, <1>d
    <3>2. p2 = "body" /\ Head(q) = Name(cu2)
      BY <3>1, <1>0 DEF q
    <3> QED BY <3>1, <3>2, <2>3, <1>0
  <2>4. CASE u # <<>>
    <3>1. n # 1
      BY <2>4, <1>2, <1>d
    <3>2. n - 1 \in DOMAIN u /\ (n - 1) + 1 = n
      BY <3>1, <1>3
    <3>3. u[n - 1] = q[n]
      BY <3>2, <1>2
    <3> QED BY <3>3, <2>2, <2>4, <1>3
  <2> QED BY <2>3, <2>4
<1>9. g.pc = "end" => g.todo = {}
  BY DEF Store
<1>10. u = t.up
  BY DEF u
<1> QED BY <1>4, <1>5, <1>6, <1>7, <1>8, <1>9, <1>10 DEF Store

\* The server writes one more of its files, or that there is no more.
LEMMA FetchSays ==
  ASSUME NEW r \in ConnState, NEW ms \in Seq(Msg), NEW t, t.down = r.down \o ms,
         NEW files, NEW p2, NEW sf, NEW td, NEW td2, Fetch(files, r, "send", sf, td),
         \A k \in DOMAIN ms : /\ ms[k].kind = "body" => ms[k].ver # Absent
                              /\ ms[k].kind = "EOF" => k = Len(ms) /\ p2 # "send",
         \A f \in td : (p2 = "send" /\ f \in td2) \/ \E k \in DOMAIN ms : ms[k] = Name(f)
  PROVE  Fetch(files, t, p2, sf, td2)
<1>. DEFINE q == r.down
            u == t.down
<1>1. q \in Seq(Msg) /\ u = q \o ms
  BY DEF ConnState
<1>2. /\ \A k \in DOMAIN q : /\ q[k].kind = "body" => q[k].ver # Absent
                             /\ q[k].kind # "EOF"
      /\ \A f \in Present(sf) : \/ files[f] # Absent
                                \/ \E k \in DOMAIN q : q[k] = Name(f)
                                \/ f \in td
  BY DEF Fetch
<1> HIDE DEF q, u
<1>3. /\ Len(u) = Len(q) + Len(ms)
      /\ \A k \in DOMAIN q : k \in DOMAIN u /\ u[k] = q[k]
      /\ \A k \in DOMAIN ms : Len(q) + k \in DOMAIN u /\ u[Len(q) + k] = ms[k]
  <2>1. Len(u) = Len(q) + Len(ms)
    BY <1>1, ConcatPlaces
  <2>2. \A k \in DOMAIN q : k \in DOMAIN u /\ u[k] = q[k]
    BY <1>1, ConcatPlaces
  <2>3. \A k \in DOMAIN ms : Len(q) + k \in DOMAIN u /\ u[Len(q) + k] = ms[k]
    BY <1>1, ConcatPlaces
  <2> QED BY <2>1, <2>2, <2>3
<1>4. ASSUME NEW k \in DOMAIN u PROVE k \in DOMAIN q \/ \E j \in DOMAIN ms : k = Len(q) + j
  <2>. DEFINE a == Len(q)
              b == Len(ms)
  <2>1. a \in Nat /\ b \in Nat
    BY <1>1, ConcatPlaces
  <2>2. DOMAIN q = 1 .. a /\ DOMAIN ms = 1 .. b /\ DOMAIN u = 1 .. Len(u)
    BY <1>1, ConcatPlaces
  <2>3. k \in 1 .. (a + b)
    BY <1>3, <1>4, <2>2
  <2> HIDE DEF a, b
  <2>4. k \in 1 .. a \/ (k - a \in 1 .. b /\ k = a + (k - a))
    BY <2>1, <2>3
  <2>5. k \in 1 .. a \/ \E j \in 1 .. b : k = a + j
    BY <2>4
  <2> QED BY <2>2, <2>5 DEF a
<1>5. ASSUME NEW k \in DOMAIN u
      PROVE  /\ u[k].kind = "body" => u[k].ver # Absent
             /\ u[k].kind = "EOF" => k = Len(u) /\ p2 # "send"
  <2>1. CASE k \in DOMAIN q
    BY <2>1, <1>2, <1>3
  <2>2. ASSUME NEW j \in DOMAIN ms, k = Len(q) + j
        PROVE  /\ u[k].kind = "body" => u[k].ver # Absent
               /\ u[k].kind = "EOF" => k = Len(u) /\ p2 # "send"
    <3>1. u[k] = ms[j]
      BY <2>2, <1>3
    <3>2. j = Len(ms) => k = Len(u)
      BY <2>2, <1>3
    <3> QED BY <3>1, <3>2
  <2> QED BY <2>1, <2>2, <1>4
<1>6. ASSUME NEW f \in Present(sf)
      PROVE  \/ files[f] # Absent
             \/ \E k \in DOMAIN u : u[k] = Name(f)
             \/ p2 = "send" /\ f \in td2
  <2>1. ASSUME NEW k \in DOMAIN q, q[k] = Name(f) PROVE \E j \in DOMAIN u : u[j] = Name(f)
    BY <2>1, <1>3
  <2>2. ASSUME NEW k \in DOMAIN ms, ms[k] = Name(f) PROVE \E j \in DOMAIN u : u[j] = Name(f)
    BY <2>2, <1>3
  <2> QED BY <2>1, <2>2, <1>2
<1>7. u = t.down
  BY DEF u
<1> QED BY <1>5, <1>6, <1>7 DEF Fetch

\* What the server may read when it goes on.
LEMMA Reading ==
  ASSUME BackupInv, NEW pc \in {"header", "name", "body"}, NEW m, At(pc, m)
  PROVE  /\ Active /\ client # Stdin /\ spc = pc
         /\ conn[Served] \in ConnState /\ conn[Served].up # <<>> /\ Head(conn[Served].up) = m
         /\ Read \in ConnState /\ Read = [conn[Served] EXCEPT !.up = Tail(@)]
         /\ Read.srv = "open" /\ Read.down = conn[Served].down /\ Read.up = Tail(conn[Served].up)
         /\ NoRES(Read)
         /\ m.kind = "RES" => IsRES(Served) /\ Read.up = <<>>
         /\ Owner /\ vm.sock # Served => m.kind \in {"END", "RES"}
         /\ vm.sock = Served => /\ Talk(vm.pc, conn[Served], pc)
                                /\ vm.pc \in GuestPC \ {"run", "toGET", "toRES", "dead"}
<1>. DEFINE old == conn[Served]
<1>1. client # Stdin
  BY Known DEF BookInv, Place, Serving, At
<1>2. /\ spc = pc /\ old \in ConnState /\ old.srv = "open" /\ old.up # <<>> /\ Head(old.up) = m
      /\ Read \in ConnState /\ Read = [old EXCEPT !.up = Tail(@)]
      /\ Read.srv = "open" /\ Read.down = old.down
      /\ Served \in Conn
  BY <1>1, ReadFlow, ServedTalk, Known DEF At
<1>3. Active
  BY <1>1, <1>2 DEF Active
<1>4. old.up \in Seq(Msg) /\ Read.up = Tail(old.up)
  BY <1>2 DEF ConnState
<1> HIDE DEF old
<1>5. /\ old.up[1] = m /\ 1 \in DOMAIN old.up
      /\ \A k \in DOMAIN Read.up : k + 1 \in DOMAIN old.up /\ Read.up[k] = old.up[k + 1]
  <2>1. old.up[1] = m /\ 1 \in DOMAIN old.up
    BY <1>2, <1>4, TailPlaces
  <2>2. \A k \in DOMAIN Read.up : k + 1 \in DOMAIN old.up /\ Read.up[k] = old.up[k + 1]
    BY <1>2, <1>4, TailPlaces
  <2> QED BY <2>1, <2>2
<1>6. NoRES(old) \/ (IsRES(Served) /\ old.up = <<Hdr("RES")>>)
  BY <1>2, Known DEF RestoreInv, IsRES, old
<1>7. old.up = <<Hdr("RES")>> => Read.up = <<>>
  BY <1>4
<1>8. NoRES(Read)
  BY <1>5, <1>6, <1>7 DEF NoRES
<1>9. m.kind = "RES" => IsRES(Served) /\ Read.up = <<>>
  BY <1>5, <1>6, <1>7 DEF NoRES
<1>10. ASSUME Owner, vm.sock # Served PROVE m.kind \in {"END", "RES"}
  <2>1. old.up \in {<<Hdr("END")>>, <<Hdr("RES")>>}
    BY <1>2, <1>3, <1>10, Acts DEF old
  <2> QED BY <2>1, <1>5 DEF Hdr
<1>11. vm.sock = Served => /\ Talk(vm.pc, old, pc)
                           /\ vm.pc \in GuestPC \ {"run", "toGET", "toRES", "dead"}
  BY <1>1, <1>2, ServedTalk, Known DEF old
<1>. USE DEF old
<1> QED BY <1>1, <1>2, <1>3, <1>4, <1>8, <1>9, <1>10, <1>11

\* serveClient reads a header and goes on.
LEMMA HeaderSteps ==
  ASSUME BackupInv,
         \/ ServeGET \/ ServeSET
         \/ ServeCKP /\ ckptReq
         \/ ServeRES /\ ckpted
  PROVE  Backup'
<1>. DEFINE old == conn[Served]
<1>1. PICK h \in {"GET", "SET", "CKP", "RES"}, pc \in {"send", "name", "delete", "revert"} :
        /\ At("header", Hdr(h)) /\ Continue(pc, Read)
        /\ h = "GET" => pc = "send" /\ todo' = Present(sfile)
        /\ h # "GET" => UNCHANGED todo
        /\ h = "SET" => pc = "name"
        /\ h = "CKP" => pc = "delete"
        /\ h = "RES" <=> pc = "revert"
        /\ UNCHANGED <<vm, saved, snap, cur, sfile, pending>>
  <2>1. CASE ServeGET
    BY <2>1 DEF ServeGET, guest
  <2>2. CASE ServeSET
    BY <2>2 DEF ServeSET, guest
  <2>3. CASE ServeCKP /\ ckptReq
    BY <2>3 DEF ServeCKP, guest
  <2>4. CASE ServeRES /\ ckpted
    BY <2>4 DEF ServeRES, guest
  <2> QED BY <2>1, <2>2, <2>3, <2>4
<1>2. /\ conn' = [conn EXCEPT ![Served] = Read] /\ spc' = pc
      /\ UNCHANGED <<vm, saved, snap, cur, sfile, pending, fd, client>>
  BY <1>1 DEF Continue
<1>3. Hdr(h).kind = h
  BY DEF Hdr
<1>4. /\ Active /\ client # Stdin /\ spc = "header"
      /\ old \in ConnState /\ old.up # <<>> /\ Head(old.up) = Hdr(h)
      /\ Read \in ConnState /\ Read.srv = "open" /\ Read.down = old.down /\ Read.up = Tail(old.up)
      /\ NoRES(Read)
      /\ h = "RES" => IsRES(Served) /\ Read.up = <<>>
      /\ Owner /\ vm.sock # Served => h \in {"END", "RES"}
      /\ vm.sock = Served => /\ Talk(vm.pc, old, "header")
                             /\ vm.pc \in GuestPC \ {"run", "toGET", "toRES", "dead"}
  BY <1>1, <1>3, Reading
<1>5. todo = {} /\ (Owner => Present(sfile) \subseteq Present(vm.file))
  BY <1>4, Known DEF FetchInv
<1>6. /\ snap' # NoSnap => Restorable(snap')
      /\ pc \in Serving \ {"astray"}
      /\ todo' \subseteq Present(sfile') /\ (pc # "send" => todo' = {})
  BY <1>1, <1>2, <1>5, Known DEF OthersInv, Serving
<1>7. ASSUME vm.sock = Served
      PROVE  /\ vm.pc = "end" => Read.down = <<>>
             /\ vm.pc \in {"get", "name", "body"} => Fetch(vm.file, Read, pc, sfile, todo')
             /\ vm.pc \in {"set", "setBody", "end"} => Store(vm, Read, pc, sfile, cur)
  <2>1. Talk(vm.pc, old, "header") /\ vm.pc \in GuestPC \ {"run", "toGET", "toRES", "dead"}
    BY <1>4, <1>7
  <2>2. h = Head(old.up).kind
    BY <1>3, <1>4
  <2>3. /\ h = "GET" => vm.pc = "get" /\ old.down = <<>>
        /\ h = "CKP" => vm.pc \in {"ckp", "ping"}
        /\ h = "SET" => vm.pc \in {"set", "setBody", "end"}
        /\ h \notin {"RES", "END"}
    BY <2>1, <2>2, <1>4, TalkHeads
  <2>4. CASE h = "GET"
    <3>1. Fetch(vm.file, Read, "send", sfile, Present(sfile))
      BY <2>3, <2>4, <1>4 DEF Fetch
    <3> QED BY <3>1, <2>3, <2>4, <1>1
  <2>5. CASE h = "CKP"
    BY <2>3, <2>5
  <2>6. CASE h = "SET"
    <3>1. Served \in Conn /\ old.srv = "open" /\ Pos(Served) = "header"
      BY <1>4, ServedTalk, Known
    <3>2. Store(vm, old, "header", sfile, cur)
      BY <3>1, <2>3, <2>6, <1>7, Known DEF StoreInv
    <3>3. \A f : Hdr("SET") # Name(f)
      BY DEF Hdr, Name
    <3>4. Store(vm, Read, "name", sfile, cur)
      BY <3>2, <3>3, <2>6, <1>3, <1>4, StoreTake
    <3>5. vm.pc = "end" => Read.down = <<>>
      BY <3>1, <1>4, <1>7, Known DEF OthersInv
    <3> QED BY <3>4, <3>5, <2>3, <2>6, <1>1
  <2> QED BY <2>3, <2>4, <2>5, <2>6
<1>8. NoRES(Read)
  BY <1>4
<1>9. pc = "revert" => IsRES(Served) /\ sfile' = sfile
  BY <1>1, <1>2, <1>4
<1>10. Owner /\ vm.sock # Served => pc = "revert" /\ Read.up = <<>> /\ UNCHANGED <<sfile, cur>>
  BY <1>1, <1>2, <1>4
<1>11. Owner => Present(sfile') \subseteq Present(vm.file)
  BY <1>2, <1>5
<1>12. vm.sock = Served =>
         /\ vm.pc = "end" => Read.down = <<>>
         /\ vm.pc \in {"get", "name", "body"} => Fetch(vm.file, Read, pc, sfile', todo')
         /\ vm.pc \in {"set", "setBody", "end"} => Store(vm, Read, pc, sfile', cur')
  BY <1>2, <1>7
<1> QED BY <1>2, <1>4, <1>6, <1>8, <1>9, <1>10, <1>11, <1>12, Continuing

\* recvFile of the server: what the guest stores, and nothing else, gets in.
LEMMA RecvFileSteps ==
  ASSUME BackupInv, ServeName \/ ServeBody
  PROVE  Backup'
<1>. DEFINE old == conn[Served]
<1>. DEFINE Did(p, m, pc) ==
              /\ At(p, m) /\ Continue(pc, Read)
              /\ \/ /\ p = "name" /\ pc = "body"
                    /\ \E f \in Files : m = Name(f) /\ cur' = f /\ sfile' = [sfile EXCEPT ![f] = Torn]
                 \/ /\ p = "body" /\ pc = "header" /\ cur' = NoFile
                    /\ \E v \in Content : m = Body(v) /\ sfile' = [sfile EXCEPT ![cur] = v]
              /\ UNCHANGED <<vm, saved, snap, pending, todo>>
<1>0. \E m : Did("name", m, "body") \/ Did("body", m, "header")
  <2>1. CASE ServeName
    <3>1. PICK f \in Files : At("name", Name(f)) /\ cur' = f /\ sfile' = [sfile EXCEPT ![f] = Torn]
      BY <2>1 DEF ServeName
    <3>2. Continue("body", Read) /\ UNCHANGED <<vm, saved, snap, pending, todo>>
      BY <2>1 DEF ServeName, guest
    <3>3. Did("name", Name(f), "body")
      BY <3>1, <3>2
    <3> QED BY <3>3
  <2>2. CASE ServeBody
    <3>1. PICK v \in Content : At("body", Body(v)) /\ sfile' = [sfile EXCEPT ![cur] = v]
      BY <2>2 DEF ServeBody
    <3>2. Continue("header", Read) /\ cur' = NoFile /\ UNCHANGED <<vm, saved, snap, pending, todo>>
      BY <2>2 DEF ServeBody, guest
    <3>3. Did("body", Body(v), "header")
      BY <3>1, <3>2
    <3> QED BY <3>3
  <2> QED BY <2>1, <2>2
<1>a. PICK m : Did("name", m, "body") \/ Did("body", m, "header")
  BY <1>0
<1>1. PICK p \in {"name", "body"}, pc \in {"header", "body"} : Did(p, m, pc)
  BY <1>a
<1>2. /\ conn' = [conn EXCEPT ![Served] = Read] /\ spc' = pc
      /\ UNCHANGED <<vm, saved, snap, pending, todo, fd, client>>
  BY <1>1 DEF Continue
<1>3. m.kind = p
  BY <1>1 DEF Name, Body
<1>4. /\ Active /\ client # Stdin /\ spc = p
      /\ old \in ConnState /\ old.up # <<>> /\ Head(old.up) = m
      /\ Read \in ConnState /\ Read.srv = "open" /\ Read.down = old.down /\ Read.up = Tail(old.up)
      /\ NoRES(Read)
      /\ ~(Owner /\ vm.sock # Served)
      /\ vm.sock = Served => /\ Talk(vm.pc, old, p)
                             /\ vm.pc \in GuestPC \ {"run", "toGET", "toRES", "dead"}
  BY <1>1, <1>3, Reading
<1>5. todo = {} /\ (Owner => Present(sfile) \subseteq Present(vm.file))
  BY <1>4, Known DEF FetchInv
<1>6. sfile \in [Files -> Content] /\ vm.file \in [Files -> Content] /\ cur \in Files \cup {NoFile}
  BY Known DEF BookInv, TypeOK, GuestRecord
<1>7. ASSUME vm.sock = Served
      PROVE  /\ vm.pc \in {"set", "setBody", "end"}
             /\ Store(vm, Read, pc, sfile', cur')
             /\ Present(sfile) \subseteq Present(vm.file) => Present(sfile') \subseteq Present(vm.file)
             /\ vm.pc = "end" => Read.down = <<>>
  <2>1. Talk(vm.pc, old, p) /\ vm.pc \in GuestPC \ {"run", "toGET", "toRES", "dead"}
    BY <1>4, <1>7
  <2>2. vm.pc \in {"set", "setBody", "end"}
    <3>1. vm.pc \notin {"CKP", "GET", "RES"} /\ vm.pc \notin {"ckp", "ping"}
          /\ vm.pc \notin {"get", "name", "body"}
      BY <2>1 DEF Talk
    <3> QED BY <3>1, <2>1 DEF GuestPC
  <2>3. Served \in Conn /\ old.srv = "open" /\ Pos(Served) = p
    BY <1>4, ServedTalk, Known
  <2>4. Store(vm, old, p, sfile, cur)
    BY <2>2, <2>3, <1>7, Known DEF StoreInv
  <2>5. old.up[1] = m /\ 1 \in DOMAIN old.up
    <3>1. old.up \in Seq(Msg)
      BY <1>4 DEF ConnState
    <3>. DEFINE q == old.up
    <3>2. q \in Seq(Msg) /\ q # <<>> /\ Head(q) = m
      BY <3>1, <1>4
    <3> HIDE DEF q
    <3>3. Head(q) = q[1] /\ 1 \in DOMAIN q
      BY <3>2, TailPlaces
    <3> QED BY <3>2, <3>3 DEF q
  <2>6. vm.pc = "end" => Read.down = <<>>
    BY <2>3, <1>4, <1>7, Known DEF OthersInv
  <2>7. CASE p = "name"
    <3>1. PICK f \in Files : m = Name(f) /\ cur' = f /\ sfile' = [sfile EXCEPT ![f] = Torn] /\ pc = "body"
      BY <2>7, <1>1
    <3>2. Name(f).kind = "name" /\ \A g : Name(g).file = g
      BY DEF Name
    <3>3. f \in Present(vm.file)
      BY <3>1, <3>2, <2>4, <2>5 DEF Store
    <3>4. \A g \in Files : g # f => sfile'[g] = sfile[g]
      BY <3>1, <1>6
    <3>5. \A g \in Present(vm.file) :
            sfile[g] = vm.file[g] \/ Head(old.up) = Name(g) \/ (p = "body" /\ cur = g)
              => sfile'[g] = vm.file[g] \/ (pc = "body" /\ cur' = g)
      BY <3>1, <3>2, <3>4, <2>7, <1>4 DEF Present
    <3>. DEFINE sf2 == sfile'
    <3>a. Store(vm, old, "name", sfile, cur) /\ f \in Present(vm.file) /\ Head(old.up) = Name(f)
      BY <3>1, <3>3, <2>4, <2>7, <1>4
    <3>b. \A g \in Present(vm.file) :
            sfile[g] = vm.file[g] \/ Head(old.up) = Name(g) \/ ("name" = "body" /\ cur = g)
              => sf2[g] = vm.file[g] \/ ("body" = "body" /\ f = g)
      BY <3>1, <3>5
    <3> HIDE DEF sf2
    <3>c. Store(vm, Read, "body", sf2, f)
      BY <3>a, <3>b, <1>4, StoreTake
    <3>6. Store(vm, Read, pc, sfile', cur')
      BY <3>1, <3>c DEF sf2
    <3>7. Present(sfile') \subseteq Present(sfile) \cup {f}
      BY <3>4 DEF Present
    <3> QED BY <3>3, <3>6, <3>7, <2>2, <2>6
  <2>8. CASE p = "body"
    <3>1. PICK v \in Content : m = Body(v) /\ sfile' = [sfile EXCEPT ![cur] = v] /\ pc = "header"
                               /\ cur' = NoFile
      BY <2>8, <1>1
    <3>2. cur \in Present(vm.file) /\ old.up[1] = Body(vm.file[cur])
      BY <2>4, <2>8, <1>4 DEF Store
    <3>3. v = vm.file[cur]
      BY <3>1, <3>2, <2>5 DEF Body
    <3>4. cur \in Files /\ sfile'[cur] = vm.file[cur] /\ \A g \in Files : g # cur => sfile'[g] = sfile[g]
      BY <3>1, <3>2, <3>3, <1>6 DEF Present
    <3>5. \A g : Head(old.up) # Name(g)
      BY <2>8, <1>3, <1>4 DEF Name
    <3>6. \A g \in Present(vm.file) :
            sfile[g] = vm.file[g] \/ Head(old.up) = Name(g) \/ (p = "body" /\ cur = g)
              => sfile'[g] = vm.file[g] \/ (pc = "body" /\ cur' = g)
      BY <3>4, <3>5 DEF Present
    <3>7. Head(old.up).kind # "name"
      BY <2>8, <1>3, <1>4
    <3>. DEFINE sf2 == sfile'
    <3>a. Store(vm, old, "body", sfile, cur)
      BY <2>4, <2>8
    <3>b. \A g \in Present(vm.file) :
            sfile[g] = vm.file[g] \/ Head(old.up) = Name(g) \/ ("body" = "body" /\ cur = g)
              => sf2[g] = vm.file[g] \/ ("header" = "body" /\ NoFile = g)
      BY <3>1, <3>6, <2>8
    <3> HIDE DEF sf2
    <3>c. Store(vm, Read, "header", sf2, NoFile)
      BY <3>a, <3>b, <3>7, <1>4, StoreTake
    <3>8. Store(vm, Read, pc, sfile', cur')
      BY <3>1, <3>c DEF sf2
    <3>9. Present(sfile') \subseteq Present(sfile) \cup {cur}
      BY <3>4 DEF Present
    <3> QED BY <3>2, <3>8, <3>9, <2>2, <2>6
  <2> QED BY <2>7, <2>8
<1>8. Owner => Present(sfile') \subseteq Present(vm.file)
  BY <1>4, <1>5, <1>7
<1>9. /\ snap' # NoSnap => Restorable(snap')
      /\ pc \in Serving \ {"astray"}
      /\ todo' \subseteq Present(sfile') /\ (pc # "send" => todo' = {})
  BY <1>2, <1>5, Known DEF OthersInv, Serving
<1>10. vm.sock = Served =>
         /\ vm.pc = "end" => Read.down = <<>>
         /\ vm.pc \in {"get", "name", "body"} => Fetch(vm.file, Read, pc, sfile', todo')
         /\ vm.pc \in {"set", "setBody", "end"} => Store(vm, Read, pc, sfile', cur')
  BY <1>7
<1>11. pc # "revert" /\ NoRES(Read)
  BY <1>4
<1>12. ~(Owner /\ vm.sock # Served)
  BY <1>4
<1> QED BY <1>2, <1>4, <1>8, <1>9, <1>10, <1>11, <1>12, Continuing

\* sendFile of the server: what it has said and has to say brings every file.
LEMMA SendFileSteps ==
  ASSUME BackupInv, SendFile \/ SendFilesEnd
  PROVE  Backup'
<1>. DEFINE old == conn[Served]
            Said(ms, pc) ==
              /\ spc = "send" /\ Continue(pc, Down(old, ms))
              /\ \/ pc = "send" /\ \E f \in todo : /\ todo' = todo \ {f}
                                                   /\ ms = <<Hdr("SET"), Name(f), Body(sfile[f])>>
                 \/ pc = "header" /\ todo = {} /\ todo' = todo /\ ms = <<Hdr("EOF")>>
              /\ UNCHANGED <<vm, saved, snap, cur, sfile, pending>>
<1>a. \E ms : Said(ms, "send") \/ Said(ms, "header")
  <2>1. CASE SendFile
    <3>1. PICK f \in todo :
            /\ Continue("send", Down(conn[Served], <<Hdr("SET"), Name(f), Body(sfile[f])>>))
            /\ todo' = todo \ {f}
      BY <2>1 DEF SendFile
    <3>2. Said(<<Hdr("SET"), Name(f), Body(sfile[f])>>, "send")
      BY <2>1, <3>1 DEF SendFile, guest
    <3> QED BY <3>2
  <2>2. CASE SendFilesEnd
    <3>1. Said(<<Hdr("EOF")>>, "header")
      BY <2>2 DEF SendFilesEnd, guest
    <3> QED BY <3>1
  <2> QED BY <2>1, <2>2
<1>b. PICK ms : Said(ms, "send") \/ Said(ms, "header")
  BY <1>a
<1>1. PICK pc \in {"send", "header"} : Said(ms, pc)
  BY <1>b
<1>2. /\ spc = "send" /\ conn' = [conn EXCEPT ![Served] = Down(old, ms)] /\ spc' = pc
      /\ UNCHANGED <<vm, saved, snap, cur, sfile, pending, fd, client>>
  BY <1>1 DEF Continue
<1>3. Active /\ Served \in Conn /\ old \in ConnState /\ old.srv = "open"
  <2>1. Active
    BY <1>2, Known DEF Active, BookInv, Place, Serving
  <2> QED BY <2>1, Acts
<1>4. /\ vm.sock = Served => Talk(vm.pc, old, "send") /\ old.cli = "open"
      /\ ~(Owner /\ vm.sock # Served)
      /\ Pos(Served) = "send"
  BY <1>2, <1>3, Acts, Known DEF BookInv, Bookkeeping
<1>5. todo \subseteq Present(sfile) /\ (Owner => Present(sfile) \subseteq Present(vm.file))
  BY Known DEF FetchInv
<1>6. sfile \in [Files -> Content] /\ Present(sfile) \subseteq Files
  BY Known DEF BookInv, TypeOK, Present
<1>7. /\ ms \in Seq(Msg)
      /\ \A k \in DOMAIN ms : /\ ms[k].kind = "body" => ms[k].ver # Absent
                              /\ ms[k].kind = "EOF" => k = Len(ms) /\ pc # "send"
      /\ \A f \in todo : (pc = "send" /\ f \in todo') \/ \E k \in DOMAIN ms : ms[k] = Name(f)
      /\ todo' \subseteq Present(sfile') /\ (pc # "send" => todo' = {})
  <2>1. CASE pc = "send"
    <3>1. PICK f \in todo : todo' = todo \ {f} /\ ms = <<Hdr("SET"), Name(f), Body(sfile[f])>>
      BY <2>1, <1>1
    <3>2. sfile[f] # Absent /\ sfile[f] \in Content /\ f \in Files
      BY <1>5, <1>6 DEF Present
    <3>3. /\ Hdr("SET") \in Msg /\ Name(f) \in Msg /\ Body(sfile[f]) \in Msg
          /\ Hdr("SET").kind = "SET" /\ Name(f).kind = "name" /\ Body(sfile[f]).kind = "body"
          /\ Body(sfile[f]).ver = sfile[f]
      BY <3>2, MsgType DEF Hdr, Name, Body, HeaderKind
    <3>4. /\ ms \in Seq(Msg) /\ DOMAIN ms = 1 .. 3
          /\ ms[1] = Hdr("SET") /\ ms[2] = Name(f) /\ ms[3] = Body(sfile[f])
      BY <3>1, <3>3
    <3>5. 1 .. 3 = {1, 2, 3}
      OBVIOUS
    <3>6. /\ \A k \in DOMAIN ms : /\ ms[k].kind = "body" => ms[k].ver # Absent
                                  /\ ms[k].kind # "EOF"
      BY <3>2, <3>3, <3>4, <3>5
    <3>7. \A g \in todo : g \in todo' \/ \E k \in DOMAIN ms : ms[k] = Name(g)
      BY <3>1, <3>4, <3>5
    <3>8. todo' \subseteq Present(sfile')
      BY <3>1, <1>2, <1>5
    <3> QED BY <3>4, <3>6, <3>7, <3>8, <2>1
  <2>2. CASE pc = "header"
    <3>1. ms = <<Hdr("EOF")>> /\ todo = {} /\ todo' = {}
      BY <2>2, <1>1
    <3>2. Hdr("EOF") \in Msg /\ Hdr("EOF").kind = "EOF"
      BY MsgType DEF Hdr, HeaderKind
    <3>3. ms \in Seq(Msg) /\ DOMAIN ms = {1} /\ ms[1] = Hdr("EOF") /\ Len(ms) = 1
      BY <3>1, <3>2
    <3> QED BY <3>1, <3>2, <3>3, <2>2
  <2> QED BY <2>1, <2>2
<1>. DEFINE r == Down(old, ms)
<1>8. /\ r \in ConnState /\ r.up = old.up /\ r.srv = "open"
      /\ vm.sock = Served => r.down = old.down \o ms
  BY <1>3, <1>4, <1>7, DownWords
<1> HIDE DEF r
<1>9. /\ NoRES(r) \/ r.up = <<Hdr("RES")>>
      /\ ~NoRES(r) => IsRES(Served)
  BY <1>3, <1>8, Known DEF RestoreInv, IsRES, NoRES
<1>10. ASSUME vm.sock = Served
       PROVE  vm.pc \in {"get", "name", "body"} /\ Fetch(vm.file, r, pc, sfile, todo')
  <2>1. vm.pc \notin {"CKP", "GET", "RES", "ckp", "ping", "set", "setBody", "end"}
    BY <1>4, <1>10 DEF Talk
  <2>2. vm.pc \in {"get", "name", "body"}
    BY <2>1, <1>3, <1>10, Known DEF GuestRecord, GuestPC
  <2>3. Fetch(vm.file, old, "send", sfile, todo)
    BY <2>2, <1>3, <1>4, <1>10, Known DEF FetchInv
  <2>. DEFINE td2 == todo'
  <2>4. \A f \in todo : (pc = "send" /\ f \in td2) \/ \E k \in DOMAIN ms : ms[k] = Name(f)
    BY <1>7
  <2> HIDE DEF td2
  <2>5. r.down = old.down \o ms
    BY <1>8, <1>10
  <2>6. Fetch(vm.file, r, pc, sfile, td2)
    BY <2>3, <2>4, <2>5, <1>3, <1>7, FetchSays
  <2> QED BY <2>2, <2>6 DEF td2
<1>11. conn' = [conn EXCEPT ![Served] = r]
  BY <1>2 DEF r
<1>12. /\ snap' # NoSnap => Restorable(snap')
       /\ pc \in Serving \ {"astray", "revert"}
       /\ Owner => Present(sfile') \subseteq Present(vm.file)
  BY <1>2, <1>5, Known DEF OthersInv, Serving
<1>13. vm.sock = Served =>
         /\ vm.pc = "end" => r.down = <<>>
         /\ vm.pc \in {"get", "name", "body"} => Fetch(vm.file, r, pc, sfile', todo')
         /\ vm.pc \in {"set", "setBody", "end"} => Store(vm, r, pc, sfile', cur')
  BY <1>2, <1>10
<1>14. pc = "revert" \/ ~NoRES(r) => IsRES(Served) /\ sfile' = sfile
  BY <1>2, <1>9, <1>12
<1>15. todo' \subseteq Present(sfile') /\ (pc # "send" => todo' = {})
  BY <1>7
<1> QED BY <1>2, <1>3, <1>4, <1>8, <1>9, <1>11, <1>12, <1>13, <1>14, <1>15, Continuing

\* virsh: the guest that a snapshot captures is one that can be restored.
LEMMA VirshBackup ==
  ASSUME BackupInv, DeleteSnapshot \/ CreateSnapshot
  PROVE  Backup'
<1>. DEFINE old == conn[Served]
            pc == IF spc = "delete" THEN "create" ELSE "cky"
<1>1. /\ spc \in {"delete", "create"} /\ spc' = pc
      /\ UNCHANGED <<vm, saved, conn, pending, fd, client, cur, todo, sfile>>
  BY DEF DeleteSnapshot, CreateSnapshot, guest
<1>2. Active /\ Served \in Conn /\ old \in ConnState /\ old.srv = "open" /\ pc \in Serving \ {"astray", "revert"}
  <2>1. Active
    BY <1>1, Known DEF Active, BookInv, Place, Serving
  <2> QED BY <2>1, Acts DEF Serving
<1>3. /\ vm.sock = Served => Talk(vm.pc, old, spc)
      /\ vm.sock # Served => ~HeardOut
      /\ ~(Owner /\ vm.sock # Served)
      /\ vm.pc \notin {"toRES", "RES"}
  BY <1>1, <1>2, Acts
<1>4. vm.sock = Served => vm.pc \in {"ckp", "ping"}
  <2>1. ASSUME vm.sock = Served PROVE vm.pc \in {"ckp", "ping"}
    <3>1. vm.pc \notin {"CKP", "GET", "RES", "get", "name", "body", "set", "setBody", "end"}
      BY <2>1, <1>1, <1>3 DEF Talk
    <3>2. vm.pc \notin {"run", "toGET", "toRES", "dead"}
      BY <2>1, <1>2, Known
    <3> QED BY <3>1, <3>2, Known DEF GuestRecord, GuestPC
  <2> QED BY <2>1
<1>5. Restorable(vm)
  <2>1. CASE vm.sock = Served
    BY <2>1, <1>4, Known DEF OthersInv, Restorable
  <2>2. CASE vm.sock # Served
    <3>1. CASE vm.sock = Stale
      BY <3>1, Known DEF OthersInv
    <3>2. CASE vm.sock # Stale
      <4>1. vm.pc \notin {"set", "setBody", "end"} /\ (vm.pc = "run" => ~vm.chk)
        BY <2>2, <1>3 DEF Owner
      <4>2. vm.pc \notin {"name", "body"}
        BY <2>2, <3>2, <1>3, Known DEF OthersInv
      <4> QED BY <4>1, <4>2, <1>3, Known DEF OthersInv, Restorable, GuestRecord, GuestPC
    <3> QED BY <3>1, <3>2
  <2> QED BY <2>1, <2>2
<1>6. snap' # NoSnap => Restorable(snap')
  <2>1. Captured(vm).pc = vm.pc /\ Captured(vm).chk = vm.chk
    BY Known DEF Captured, GuestRecord
  <2>2. snap' \in {NoSnap, snap, Captured(vm)}
    BY DEF DeleteSnapshot, CreateSnapshot
  <2>3. Restorable(Captured(vm))
    BY <1>5, <2>1 DEF Restorable
  <2> QED BY <2>2, <2>3, Known DEF OthersInv
<1>7. conn' = [conn EXCEPT ![Served] = old]
  BY <1>1, <1>2, Known
<1>8. /\ NoRES(old) \/ old.up = <<Hdr("RES")>>
      /\ pc = "revert" \/ ~NoRES(old) => IsRES(Served) /\ sfile' = sfile
  BY <1>1, <1>2, Known DEF RestoreInv, IsRES
<1>9. /\ Owner => Present(sfile') \subseteq Present(vm.file)
      /\ todo' \subseteq Present(sfile') /\ (pc # "send" => todo' = {})
  BY <1>1, Known DEF FetchInv
<1> HIDE DEF pc
<1> QED BY <1>1, <1>2, <1>3, <1>4, <1>6, <1>7, <1>8, <1>9, Continuing

\* The server is gone: nobody is left to be heard, what it had sent still arrives.
LEMMA GoneBackup ==
  ASSUME BackupInv, Gone
  PROVE  Backup'
<1>1. /\ UNCHANGED <<vm, saved, snap, sfile>>
      /\ spc' = "down" /\ client' = Stdin /\ pending' = <<>> /\ todo' = {}
      /\ \A c \in Conn : conn'[c] = IF conn[c].srv # "open" THEN conn[c]
                                    ELSE IF Accepted(c) THEN SrvClose(conn[c])
                                    ELSE SrvReset(conn[c])
  BY DEF Gone, guest
<1>2. \A r \in ConnState : /\ SrvClose(r).srv # "open" /\ SrvReset(r).srv # "open"
                           /\ r.cli = "open" => SrvClose(r).down = r.down /\ SrvReset(r).down = r.down
  BY EndsApart DEF SrvClose, SrvReset, Settled, ConnState
<1>3. \A c \in Conn : /\ conn'[c].srv # "open" /\ Pos(c)' = "gone" /\ ~IsRES(c)'
                      /\ conn[c].cli = "open" => conn'[c].down = conn[c].down
  BY <1>1, <1>2, Known DEF Pos, IsRES
<1>4. vm.sock \in Conn => conn'[vm.sock].down = conn[vm.sock].down
  BY <1>3, Known DEF BookInv, Bookkeeping
<1>5. OthersInv'
  <2>1. Silent' /\ Harmless'
    BY <1>3 DEF Silent, Harmless, Others
  <2>2. vm.sock \in Conn => HeardOut'
    BY <1>1, <1>3 DEF HeardOut
  <2> QED BY <2>1, <2>2, <1>1, <1>3, Known DEF OthersInv
<1>6. FetchInv'
  <2>1. ASSUME vm.sock \in Conn, vm.pc \in {"get", "name", "body"}
        PROVE  Fetch(vm.file, conn'[vm.sock], "gone", sfile, {})
    <3>1. Fetch(vm.file, conn[vm.sock], Pos(vm.sock), sfile, todo)
      BY <2>1, Known DEF FetchInv
    <3> QED BY <3>1, <2>1, <1>4 DEF Fetch
  <2>2. Owner' <=> Owner
    BY <1>1 DEF Owner
  <2>3. vm.sock \in Conn => Pos(vm.sock)' = "gone"
    BY <1>1, <1>3
  <2> QED BY <2>1, <2>2, <2>3, <1>1, Known DEF FetchInv
<1>7. StoreInv'
  BY <1>1, <1>3, <1>4, Known DEF StoreInv
<1>8. RestoreInv'
  <2>1. Restoring' => Restoring
    BY <1>1, <1>3 DEF Restoring
  <2>2. DOMAIN pending' = {}
    BY <1>1
  <2> QED BY <2>1, <2>2, <1>1, <1>3, Known DEF RestoreInv
<1> QED BY <1>5, <1>6, <1>7, <1>8 DEF Backup

LEMMA BackupInit == Init => BackupInv
<1> SUFFICES ASSUME Init PROVE BackupInv
  OBVIOUS
<1>1. /\ vm = Fresh /\ snap \in {NoSnap, Fresh} /\ spc = "select" /\ todo = {}
      /\ sfile = [f \in Files |-> Absent] /\ pending = <<>> /\ saved = NoSnap
      /\ \A c \in Conn : conn[c].srv = "free"
  BY DEF Init, FreeConn
<1>2. Fresh.pc = "dead" /\ Fresh.sock = NoConn /\ Restorable(Fresh)
  BY DEF Fresh, Restorable
<1>3. ~Owner /\ ~HeardOut
  BY <1>1, <1>2, NoSnapAssumption DEF Owner, HeardOut
<1>4. OthersInv
  BY <1>1, <1>2, <1>3 DEF OthersInv
<1>5. FetchInv /\ StoreInv
  BY <1>1, <1>2, <1>3 DEF FetchInv, StoreInv
<1>6. RestoreInv
  BY <1>1, <1>2 DEF RestoreInv, Restoring, IsRES
<1>7. AstrayInv
  BY DEF Init, AstrayInv
<1> QED BY <1>4, <1>5, <1>6, <1>7, FrameInit, OrderInit DEF BackupInv, Backup

\* Who is answered, or asks for the revert, keeps silent.
LEMMA AstrayStep ==
  ASSUME BackupInv, [Next]_vars
  PROVE  AstrayInv'
<1> SUFFICES ASSUME spc' = "astray", vm'.sock = Served', OutOfWords'
             PROVE  conn'[vm'.sock].up = <<>>
  BY DEF AstrayInv
<1>1. CASE UNCHANGED vars
  BY <1>1, Known DEF vars, guest, host, AstrayInv, OutOfWords, Served
<1>2. CASE GuestStep \/ CallCheckpoint \/ CallRestore \/ CallRefused \/ Train \/ Launch \/ Kill \/ Type
  <2>1. UNCHANGED <<fd, host>> /\ (Connects \/ Goes)
    BY <1>2, GuestShape, Known
  <2>2. /\ client # Stdin /\ Served' = Served /\ Served \in Conn /\ conn[Served].srv = "open"
        /\ spc = "astray"
    <3>1. UNCHANGED <<spc, client>>
      BY <2>1 DEF host
    <3>2. client # Stdin
      BY <3>1, Known DEF BookInv, Place, Serving
    <3> QED BY <2>1, <3>1, <3>2, ServedConn, Known DEF BookInv, Bookkeeping, Served
  <2>3. ~Connects
    BY <2>2 DEF Connects, FreeConn
  <2>4. vm.sock = Served /\ vm'.sock = vm.sock /\ vm.sock \in Conn
    BY <2>1, <2>2, <2>3, Known DEF Goes
  <2>5. vm.pc \notin {"run", "toGET", "toRES", "dead"} /\ Halted(vm).sock = NoConn
    BY <2>4, Known DEF Halted, GuestRecord
  <2>6. CASE conn'[vm.sock].up = conn[vm.sock].up /\ OutOfWords
    BY <2>2, <2>4, <2>6, Known DEF AstrayInv
  <2>7. CASE SendGET
    <3>. DEFINE g == [vm EXCEPT !.pc = "get"]
                ms == <<Hdr("GET")>>
    <3>1. vm.pc = "GET" /\ g.sock = vm.sock /\ Send(ms, g) /\ ms \in Seq(Msg)
      BY <2>7, OneMsg, Known DEF SendGET, GuestRecord
    <3>2. conn[vm.sock].down = <<>> /\ conn[vm.sock] \in ConnState
      BY <3>1, <2>4, Mine DEF Talk
    <3>. HIDE DEF g, ms
    <3>3. conn'[vm.sock] = Up(conn[vm.sock], ms)
      BY <3>1, <2>4, <2>5, Known DEF Send
    <3>4. conn'[vm.sock].down = <<>>
      BY <3>1, <3>2, <3>3, UpWords
    <3>5. vm'.pc \in {"dead", "get"}
      BY <2>7, Known DEF SendGET, Send, Halted, GuestRecord
    <3> QED BY <3>4, <3>5, <2>4 DEF OutOfWords
  <2>12. CASE SendCKP \/ SendRES \/ SendName \/ SendBody \/ SendEOF
    <3>1. vm'.pc \in {"dead", "ckp", "setBody", "set", "end"} \/ vm'.sock = NoConn
      BY <2>12, Known DEF SendCKP, SendRES, SendName, SendBody, SendEOF, Send, Halted, GuestRecord
    <3> QED BY <3>1, <2>4, Known DEF OutOfWords
  <2>8. CASE RecvCKN \/ RecvCKY \/ RecvSET \/ RecvName \/ RecvBody \/ RecvEND
    <3>1. CASE RecvCKN \/ RecvCKY \/ RecvEND
      BY <3>1, <2>4, Known DEF RecvCKN, RecvCKY, RecvEND, Receive, GuestRecord
    <3>2. CASE RecvSET \/ RecvName \/ RecvBody
      <4>1. PICK m, g : Receive(m, g)
        BY <3>2 DEF RecvSET, RecvName, RecvBody
      <4>2. vm.pc \in {"get", "name", "body"} /\ conn[vm.sock].down # <<>>
        BY <3>2, <4>1 DEF RecvSET, RecvName, RecvBody, Receive, Sock
      <4>3. conn'[vm.sock].up = conn[vm.sock].up
        BY <4>1, <2>4, Known DEF Receive, Sock, Taken, ConnState
      <4> QED BY <4>2, <4>3, <2>6 DEF OutOfWords
    <3> QED BY <2>8, <3>1, <3>2
  <2>9. CASE CkpTimeout \/ WaitTimeout \/ Type
    <3>1. conn' = conn
      BY <2>9 DEF CkpTimeout, WaitTimeout, Type
    <3>2. OutOfWords
      BY <3>1, <2>4, <2>9, Known DEF CkpTimeout, WaitTimeout, Type, OutOfWords, GuestRecord, guest
    <3> QED BY <3>1, <3>2, <2>6
  <2>10. CASE PingDone \/ ReadReset \/ Kill \/ RecvEOF
    BY <2>4, <2>5, <2>10, Known DEF PingDone, ReadReset, Kill, RecvEOF, GuestRecord
  <2>11. CASE \/ Refused \/ CallRefused \/ Launch \/ Train \/ StartGET \/ StartRES
              \/ CallCheckpoint \/ CallRestore
    BY <2>5, <2>11 DEF Refused, CallRefused, Launch, Train, StartGET, StartRES, CallCheckpoint, CallRestore
  <2> QED BY <1>2, <2>7, <2>8, <2>9, <2>10, <2>11, <2>12 DEF GuestStep
<1>3. CASE ReadTimeout \/ Misread
  <2>1. client # Stdin /\ vm' = vm /\ Served' = Served
    BY <1>3, Known DEF BookInv, Place, Serving, ReadTimeout, Misread, Continue, guest, Served
  <2>2. Served \in Conn
    BY <2>1, ServedConn, Known
  <2>3. CASE ReadTimeout
    BY <2>1, <2>2, <2>3, Known DEF ReadTimeout, Continue
  <2>4. CASE Misread
    <3>1. spc = "astray" /\ conn[Served].up # <<>> /\ conn'[Served].down = conn[Served].down
      BY <2>2, <2>4, Known DEF Misread, Continue, Read, ConnState
    <3>2. OutOfWords
      BY <2>1, <3>1 DEF OutOfWords
    <3> QED BY <2>1, <3>1, <3>2, Known DEF AstrayInv
  <2> QED BY <1>3, <2>3, <2>4
<1>4. CASE Next /\ ~(GuestStep \/ CallCheckpoint \/ CallRestore \/ CallRefused \/ Train \/ Launch
                       \/ Kill \/ Type \/ ReadTimeout \/ Misread)
  <2>1. CASE \/ Select \/ StdinTurn \/ CinLine \/ CinWord \/ Accept \/ Serve \/ Restart
             \/ DeleteSnapshot \/ CreateSnapshot
    BY <2>1 DEF Select, StdinTurn, CinLine, CinWord, Accept, Serve, Restart, Turn, DoneWith, host,
       DeleteSnapshot, CreateSnapshot
  <2>2. CASE ServeGET \/ ServeSET \/ ServeName \/ ServeBody \/ SendFile \/ SendFilesEnd
    BY <2>2 DEF ServeGET, ServeSET, ServeName, ServeBody, SendFile, SendFilesEnd, Continue
  <2>3. CASE ServeCKP \/ ServeRES \/ ServeEOF \/ ServeEND \/ AnswerCKY \/ RevertSnapshot
    BY <2>3 DEF ServeCKP, ServeRES, ServeEOF, ServeEND, AnswerCKY, RevertSnapshot, Continue, Finish,
       DoneWith
  <2>4. CASE Abort \/ Unsupported \/ Crash
    BY <2>4 DEF Abort, Unsupported, Crash, Gone
  <2> QED BY <1>4, <2>1, <2>2, <2>3, <2>4 DEF Next, ServerStep
<1> QED BY <1>1, <1>2, <1>3, <1>4

LEMMA BackupStep == ASSUME BackupInv, [Next]_vars PROVE BackupInv'
<1>1. FrameInv' /\ OrderInv' /\ AstrayInv'
  BY FrameStep, OrderStep, AstrayStep, Known
<1>2. Backup'
  <2>1. CASE UNCHANGED vars
    <3>1. UNCHANGED <<vm, saved, snap, conn, pending, fd, client, cur, todo, sfile, spc>>
      BY <2>1 DEF vars, guest, host
    <3>2. \A c \in Conn : Pos(c)' = Pos(c) /\ (IsRES(c)' <=> IsRES(c))
      BY <3>1 DEF Pos, IsRES, Served
    <3>3. /\ Served' = Served /\ Others' = Others
          /\ (HeardOut' <=> HeardOut) /\ (Owner' <=> Owner) /\ (Restoring' <=> Restoring)
      BY <3>1 DEF Served, Others, HeardOut, Owner, Restoring, IsRES
    <3>4. (Silent' <=> Silent) /\ (Harmless' <=> Harmless)
      BY <3>1, <3>3 DEF Silent, Harmless
    <3>5. OthersInv'
      BY <3>1, <3>3, <3>4, Known DEF OthersInv
    <3>6. FetchInv' /\ StoreInv'
      BY <3>1, <3>2, <3>3, Known DEF FetchInv, StoreInv
    <3>7. RestoreInv'
      BY <3>1, <3>2, <3>3, Known DEF RestoreInv, IsRES
    <3> QED BY <3>5, <3>6, <3>7 DEF Backup
  <2>2. CASE GuestStep \/ CallCheckpoint \/ CallRestore \/ CallRefused \/ Train \/ Launch \/ Kill \/ Type
    BY <2>2, GuestBackup
  <2>3. CASE \/ Select \/ StdinTurn \/ CinLine \/ CinWord \/ Accept \/ Restart \/ Serve
             \/ DeleteSnapshot \/ CreateSnapshot \/ RevertSnapshot
             \/ Abort \/ Unsupported \/ Crash
    BY <2>3, LoopBackup, ServeBackup, VirshBackup, RevertBackup, GoneBackup DEF Abort, Unsupported, Crash
  <2>4. CASE \/ ServeGET \/ ServeSET \/ ServeCKP \/ ServeRES \/ ServeEOF \/ ServeEND
             \/ ServeName \/ ServeBody \/ SendFile \/ SendFilesEnd \/ AnswerCKY
             \/ ReadTimeout \/ Misread
    BY <2>4, HeaderSteps, ReturnSteps, RecvFileSteps, SendFileSteps, AstrayBackup
  <2> QED BY <2>1, <2>2, <2>3, <2>4 DEF Next, ServerStep
<1> QED BY <1>1, <1>2 DEF BackupInv

LEMMA BackupAlways == Spec => []BackupInv
<1>1. BackupInv /\ [Next]_vars => BackupInv'
  BY BackupStep
<1> QED BY BackupInit, <1>1, PTL DEF Spec

\* The request to restore (doRES behind doSET, CPClient.cpp) comes alone, behind
\* a backup the server holds whole, and nothing that was said before or since
\* can change those files until handleRES (CPServer.cpp) reverts the guest:
\* whatever is killed, crashes, times out or is reverted on the way.
THEOREM BackupKept == Spec => BackupBeforeRevert
<1>1. BackupInv /\ spc = "revert" => sfile = saved
  BY Known DEF RestoreInv, Restoring
<1> QED BY <1>1, BackupAlways, PTL DEF Spec, BackupBeforeRevert

-------------------------------------------------------------------------------
(* A server that reads in its place *)

\* With guests that are not late, the connection serveClient waits on out of place
\* is one whose guest was reverted away, and it has heard all of it.
WaitedInVain ==
  spc = "astray" => conn[Served].cli = "lost" /\ conn[Served].up = <<>>

LEMMA WaitedStep ==
  ASSUME ~Slow, FrameInv, WaitedInVain, [Next]_vars
  PROVE  WaitedInVain'
<1>. /\ TypeOK /\ BookInv /\ conn \in [Conn -> ConnState]
     /\ \A c \in Conn : (conn[c].cli = "open") <=> (vm.sock = c)
  BY DEF FrameInv, BookInv, TypeOK, Bookkeeping
<1> SUFFICES ASSUME spc' = "astray"
             PROVE  conn'[Served'].cli = "lost" /\ conn'[Served'].up = <<>>
  BY DEF WaitedInVain
<1>1. CASE UNCHANGED vars
  BY <1>1 DEF vars, host, WaitedInVain, Served
<1>2. CASE GuestStep \/ CallCheckpoint \/ CallRestore \/ CallRefused \/ Train \/ Launch \/ Kill \/ Type
  <2>1. UNCHANGED <<fd, spc, client>> /\ (Connects \/ Goes)
    BY <1>2, GuestShape DEF host
  <2>2. /\ Served' = Served /\ Served \in Conn
        /\ conn[Served].cli = "lost" /\ conn[Served].up = <<>>
    BY <2>1, ServedConn DEF BookInv, Place, Serving, Served, WaitedInVain
  <2>3. conn'[Served] = conn[Served]
    BY <2>1, <2>2 DEF Connects, Goes, FreeConn
  <2> QED BY <2>2, <2>3
<1>3. CASE ReadTimeout
  <2>1. client # Stdin /\ Served' = Served /\ conn' = [conn EXCEPT ![Served] = conn[Served]]
    BY <1>3 DEF BookInv, Place, Serving, ReadTimeout, Continue, Served
  <2> QED BY <2>1, <1>3, ServedConn DEF ReadTimeout
<1>4. CASE Misread
  BY <1>4 DEF Misread, WaitedInVain
<1>5. CASE Next /\ ~(GuestStep \/ CallCheckpoint \/ CallRestore \/ CallRefused \/ Train \/ Launch
                       \/ Kill \/ Type \/ ReadTimeout \/ Misread)
  <2>1. CASE \/ Select \/ StdinTurn \/ CinLine \/ CinWord \/ Accept \/ Serve \/ Restart
             \/ DeleteSnapshot \/ CreateSnapshot
    BY <2>1 DEF Select, StdinTurn, CinLine, CinWord, Accept, Serve, Restart, Turn, DoneWith, host,
       DeleteSnapshot, CreateSnapshot
  <2>2. CASE ServeGET \/ ServeSET \/ ServeName \/ ServeBody \/ SendFile \/ SendFilesEnd
    BY <2>2 DEF ServeGET, ServeSET, ServeName, ServeBody, SendFile, SendFilesEnd, Continue
  <2>3. CASE ServeCKP \/ ServeRES \/ ServeEOF \/ ServeEND \/ AnswerCKY \/ RevertSnapshot
    BY <2>3 DEF ServeCKP, ServeRES, ServeEOF, ServeEND, AnswerCKY, RevertSnapshot, Continue, Finish,
       DoneWith
  <2>4. CASE Abort \/ Unsupported \/ Crash
    BY <2>4 DEF Abort, Unsupported, Crash, Gone
  <2> QED BY <1>5, <2>1, <2>2, <2>3, <2>4 DEF Next, ServerStep
<1> QED BY <1>1, <1>2, <1>3, <1>4, <1>5

\* serveClient (CPServer.cpp) prints "Unsupported Header" at no guest that is never
\* later than the 1 s its socket allows, whoever is killed and whatever a revert
\* cuts short: a timeout there is met by a connection that says nothing any more.
THEOREM NothingUnsupported ==
  ASSUME ~Slow
  PROVE  Spec => []NoUnsupportedHeader
<1>1. Init => WaitedInVain
  BY DEF Init, WaitedInVain
<1>2. FrameInv /\ WaitedInVain /\ [Next]_vars => WaitedInVain'
  BY WaitedStep
<1>3. BackupInv => FrameInv
  BY DEF BackupInv
<1>4. InTurn /\ WaitedInVain => NoUnsupportedHeader
  BY DEF WaitedInVain, NoUnsupportedHeader
<1>5. Spec => []InTurn
  BY ProtocolKept
<1> QED BY <1>1, <1>2, <1>3, <1>4, <1>5, BackupAlways, PTL DEF Spec

================================================================================
