--------------------------- MODULE CheckpointProofs ---------------------------
(***************************************************************************)
(* Proofs about Checkpoint, for any number of files, connections, queue    *)
(* places and versions, and whatever times out, fails, is killed or        *)
(* crashes: its types, its snapshot, and that the descriptors, the         *)
(* connections and the guest's socket agree, and neither end ever reads a  *)
(* message the protocol does not let come next.                            *)
(***************************************************************************)
EXTENDS Checkpoint, SequenceTheorems, TLAPS

USE ConstAssumption DEF ConstAssumption

-------------------------------------------------------------------------------
(* Messages and connections *)

LEMMA MsgType ==
  /\ \A h \in HeaderKind : Hdr(h) \in Msg
  /\ \A f \in Files : Name(f) \in Msg
  /\ \A v \in Content : Body(v) \in Msg
  BY DEF Hdr, Name, Body, Msg, Content, Torn, Absent

LEMMA TornType == Torn \in Content /\ Absent \in Content
  BY DEF Content, Torn, Absent

LEMMA NewConnType == FreeConn \in ConnState /\ NewConn \in ConnState
  BY EmptySeq DEF FreeConn, NewConn, ConnState

\* Whatever either end does to a connection leaves a connection.
LEMMA ConnType ==
  ASSUME NEW r \in ConnState
  PROVE  /\ Settled(r) \in ConnState
         /\ \A ms \in Seq(Msg) : Down(r, ms) \in ConnState /\ Up(r, ms) \in ConnState
         /\ CliClose(r) \in ConnState /\ SrvClose(r) \in ConnState
         /\ CliLost(r) \in ConnState /\ SrvReset(r) \in ConnState
<1>1. \A q \in ConnState : Settled(q) \in ConnState
  BY NewConnType DEF Settled
<1>2. \A ms \in Seq(Msg) : r.down \o ms \in Seq(Msg) /\ r.up \o ms \in Seq(Msg)
  BY ConcatProperties DEF ConnState
<1>3. \A ms \in Seq(Msg) : Down(r, ms) \in ConnState /\ Up(r, ms) \in ConnState
  BY <1>2 DEF Down, Up, CliGone, ConnState
<1>4. /\ [r EXCEPT !.cli = IF r.down = <<>> THEN "shut" ELSE "rst"] \in ConnState
      /\ [r EXCEPT !.srv = IF r.up = <<>> THEN "shut" ELSE "rst"] \in ConnState
      /\ [r EXCEPT !.cli = "lost"] \in ConnState /\ [r EXCEPT !.srv = "rst"] \in ConnState
  BY DEF ConnState
<1> QED BY <1>1, <1>3, <1>4 DEF CliClose, SrvClose, CliLost, SrvReset

\* Taking the message at the front leaves a connection.
LEMMA TakeType ==
  ASSUME NEW r \in ConnState
  PROVE  /\ r.up # <<>> => [r EXCEPT !.up = Tail(@)] \in ConnState
         /\ r.down # <<>> => [r EXCEPT !.down = Tail(@)] \in ConnState
<1>1. /\ r.up # <<>> => Tail(r.up) \in Seq(Msg)
      /\ r.down # <<>> => Tail(r.down) \in Seq(Msg)
  BY HeadTailProperties DEF ConnState
<1> QED BY <1>1 DEF ConnState

-------------------------------------------------------------------------------
(* The guest *)

LEMMA GuestType ==
  ASSUME NEW g \in Guest
  PROVE  Halted(g) \in Guest /\ Started(g) \in Guest /\ Captured(g) \in Guest
  BY DEF Halted, Started, Captured, Guest, GuestRecord, GuestPC

LEMMA ConnectType ==
  ASSUME TypeOK, NEW pc \in {"CKP", "set", "GET", "RES"}, NEW files \in SUBSET Files,
         vm.cur = NoFile, Connect(pc, files)
  PROVE  TypeOK'
<1>1. PICK c \in Conn :
        /\ conn' = [conn EXCEPT ![c] = NewConn]
        /\ pending' = Append(pending, c)
        /\ vm' = [vm EXCEPT !.pc = pc, !.sock = c, !.watch = TRUE, !.todo = files]
  BY DEF Connect
<1>2. vm' \in Guest
  BY <1>1 DEF TypeOK, Guest, GuestRecord, GuestPC
<1>3. conn' \in [Conn -> ConnState]
  BY <1>1, NewConnType DEF TypeOK
<1>4. pending' \in Seq(Conn)
  BY <1>1, AppendProperties DEF TypeOK
<1> QED BY <1>2, <1>3, <1>4 DEF Connect, TypeOK, host, flags, user, count

LEMMA SendType ==
  ASSUME TypeOK, NEW ms \in Seq(Msg), NEW g \in Guest, Send(ms, g)
  PROVE  TypeOK'
<1>1. vm' \in Guest
  BY GuestType DEF Send, TypeOK
<1>2. conn' \in [Conn -> ConnState]
  <2>1. \A c \in Conn : /\ CliClose(conn[c]) \in ConnState /\ Up(conn[c], ms) \in ConnState
                        /\ CliClose(Up(conn[c], ms)) \in ConnState
    BY ConnType DEF TypeOK
  <2> QED BY <2>1 DEF Send, TypeOK
<1> QED BY <1>1, <1>2 DEF Send, TypeOK, host, flags, user, count

LEMMA ReceiveType ==
  ASSUME TypeOK, NEW m, NEW g \in Guest, Receive(m, g), saved' \in [Files -> Content] \cup {NoSnap}
  PROVE  TypeOK'
<1>1. vm.sock \in Conn /\ Sock \in ConnState /\ Sock.down # <<>>
  BY DEF Receive, Sock, TypeOK
<1>2. Taken \in ConnState
  BY <1>1, TakeType DEF Taken
<1>3. CliClose(Taken) \in ConnState
  BY <1>2, ConnType
<1>4. conn' \in [Conn -> ConnState]
  BY <1>1, <1>2, <1>3 DEF Receive, TypeOK
<1> QED BY <1>4 DEF Receive, TypeOK, host, flags, user, count

\* What of TypeOK a step of the guest alone can disturb.
LEMMA GuestOnly ==
  ASSUME TypeOK, vm' \in Guest, conn' \in [Conn -> ConnState],
         saved' \in [Files -> Content] \cup {NoSnap},
         UNCHANGED <<snap, pending, fd, host, flags, user, kills, crashes, made>>
  PROVE  TypeOK'
  BY DEF TypeOK, host, flags, user

USE MsgType DEF HeaderKind

LEMMA OneMsg == \A m \in Msg : <<m>> \in Seq(Msg)
  OBVIOUS

LEMMA GuestStepType == ASSUME TypeOK, GuestStep PROVE TypeOK'
<1>. vm \in Guest /\ vm \in GuestRecord
  BY DEF TypeOK, Guest
<1>1. CASE StartGET
  BY <1>1, ConnectType DEF StartGET, Guest
<1>2. CASE StartRES
  BY <1>2, ConnectType DEF StartRES, Guest
<1>3. CASE Refused
  BY <1>3, GuestType DEF Refused, TypeOK, host, flags, user, count
<1>4. CASE SendCKP
  <2>1. [vm EXCEPT !.pc = "ckp"] \in Guest
    BY <1>4 DEF SendCKP, Guest, GuestRecord, GuestPC
  <2> QED BY <2>1, <1>4, SendType, OneMsg DEF SendCKP
<1>5. CASE SendGET
  <2>1. [vm EXCEPT !.pc = "get"] \in Guest
    BY <1>5 DEF SendGET, Guest, GuestRecord, GuestPC
  <2> QED BY <2>1, <1>5, SendType, OneMsg DEF SendGET
<1>6. CASE SendRES
  <2>1. [vm EXCEPT !.pc = "run", !.sock = NoConn] \in Guest
    BY <1>6 DEF SendRES, Guest, GuestRecord, GuestPC
  <2> QED BY <2>1, <1>6, SendType, OneMsg DEF SendRES
<1>7. CASE SendName
  <2>1. PICK f \in vm.todo :
          Send(<<Hdr("SET"), Name(f)>>,
               [vm EXCEPT !.pc = "setBody", !.cur = f, !.todo = @ \ {f}])
    BY <1>7 DEF SendName
  <2>2. f \in Files
    BY DEF GuestRecord
  <2>3. [vm EXCEPT !.pc = "setBody", !.cur = f, !.todo = @ \ {f}] \in Guest
    BY <1>7, <2>2 DEF SendName, Guest, GuestRecord, GuestPC
  <2>4. <<Hdr("SET"), Name(f)>> \in Seq(Msg)
    BY <2>2
  <2> QED BY <2>1, <2>3, <2>4, SendType
<1>8. CASE SendBody
  <2>1. vm.cur \in Files
    BY <1>8 DEF SendBody, Guest, GuestRecord
  <2>2. <<Body(vm.file[vm.cur])>> \in Seq(Msg)
    BY <2>1, OneMsg DEF GuestRecord
  <2>3. [vm EXCEPT !.pc = "set", !.cur = NoFile] \in Guest
    BY <1>8 DEF SendBody, Guest, GuestRecord, GuestPC
  <2> QED BY <2>2, <2>3, <1>8, SendType DEF SendBody
<1>9. CASE SendEOF
  <2>1. [vm EXCEPT !.pc = "end"] \in Guest
    BY <1>9 DEF SendEOF, Guest, GuestRecord, GuestPC
  <2> QED BY <2>1, <1>9, SendType, OneMsg DEF SendEOF
<1>. saved \in [Files -> Content] \cup {NoSnap}
  BY DEF TypeOK
<1>10. CASE RecvCKN
  <2>1. [vm EXCEPT !.pc = "run", !.sock = NoConn] \in Guest
    BY <1>10 DEF RecvCKN, Guest, GuestRecord, GuestPC
  <2> QED BY <2>1, <1>10, ReceiveType DEF RecvCKN
<1>11. CASE RecvCKY
  <2>1. [vm EXCEPT !.pc = "toGET", !.chk = TRUE, !.sock = NoConn] \in Guest
    BY <1>11 DEF RecvCKY, Guest, GuestRecord, GuestPC
  <2> QED BY <2>1, <1>11, ReceiveType DEF RecvCKY
<1>12. CASE CkpTimeout
  <2>1. vm' \in Guest
    BY <1>12 DEF CkpTimeout, Guest, GuestRecord, GuestPC
  <2> QED BY <2>1, <1>12 DEF CkpTimeout, TypeOK, host, flags, user, count
<1>13. CASE PingDone
  <2>1. vm' \in Guest
    BY <1>13 DEF PingDone, Guest, GuestRecord, GuestPC
  <2>2. conn' \in [Conn -> ConnState]
    BY <1>13, ConnType DEF PingDone, TypeOK
  <2> QED BY <2>1, <2>2, <1>13, GuestOnly DEF PingDone, count
<1>14. CASE WaitTimeout
  <2>1. vm' \in Guest
    BY <1>14 DEF WaitTimeout, Guest, GuestRecord, GuestPC
  <2> QED BY <2>1, <1>14 DEF WaitTimeout, TypeOK, host, flags, user, count
<1>15. CASE RecvSET
  <2>1. [vm EXCEPT !.pc = "name"] \in Guest
    BY <1>15 DEF RecvSET, Guest, GuestRecord, GuestPC
  <2> QED BY <2>1, <1>15, ReceiveType DEF RecvSET
<1>16. CASE RecvName
  <2>1. PICK f \in Files :
          Receive(Name(f), [vm EXCEPT !.pc = "body", !.cur = f, !.file[f] = Torn])
    BY <1>16 DEF RecvName
  <2>2. [vm EXCEPT !.pc = "body", !.cur = f, !.file[f] = Torn] \in Guest
    BY <1>16, TornType DEF RecvName, Guest, GuestRecord, GuestPC
  <2> QED BY <2>1, <2>2, <1>16, ReceiveType DEF RecvName
<1>17. CASE RecvBody
  <2>1. PICK v \in Content :
          Receive(Body(v), [vm EXCEPT !.pc = "get", !.cur = NoFile, !.file[vm.cur] = v])
    BY <1>17 DEF RecvBody
  <2>2. [vm EXCEPT !.pc = "get", !.cur = NoFile, !.file[vm.cur] = v] \in Guest
    BY <1>17 DEF RecvBody, Guest, GuestRecord, GuestPC
  <2> QED BY <2>1, <2>2, <1>17, ReceiveType DEF RecvBody
<1>18. CASE RecvEOF
  <2>1. vm' \in Guest
    BY <1>18 DEF RecvEOF, Guest, GuestRecord, GuestPC
  <2>2. Taken \in ConnState
    BY <1>18, TakeType DEF RecvEOF, Taken, Sock, TypeOK
  <2>3. CliClose(Up(Taken, <<Hdr("END")>>)) \in ConnState
    BY <2>2, ConnType, OneMsg
  <2>4. conn' \in [Conn -> ConnState]
    BY <2>3, <1>18 DEF RecvEOF, TypeOK
  <2> QED BY <2>1, <2>4, <1>18, GuestOnly DEF RecvEOF, count
<1>19. CASE RecvEND
  <2>1. [vm EXCEPT !.pc = "toRES", !.sock = NoConn] \in Guest
    BY <1>19 DEF RecvEND, Guest, GuestRecord, GuestPC
  <2>2. saved' \in [Files -> Content] \cup {NoSnap}
    BY <1>19 DEF RecvEND, GuestRecord
  <2> QED BY <2>1, <2>2, <1>19, ReceiveType DEF RecvEND
<1>20. CASE ReadReset
  <2>1. vm' \in Guest /\ conn' \in [Conn -> ConnState]
    BY <1>20, GuestType, ConnType DEF ReadReset, TypeOK
  <2> QED BY <2>1, <1>20, GuestOnly DEF ReadReset, count
<1> QED BY <1>1, <1>2, <1>3, <1>4, <1>5, <1>6, <1>7, <1>8, <1>9, <1>10, <1>11, <1>12,
           <1>13, <1>14, <1>15, <1>16, <1>17, <1>18, <1>19, <1>20 DEF GuestStep

-------------------------------------------------------------------------------
(* The server *)

LEMMA DoneWithType ==
  ASSUME TypeOK, NEW i, DoneWith(i)
  PROVE  ready' \subseteq {Stdin, Listen} \cup Slot /\ spc' \in ServerPC
  BY DEF DoneWith, TypeOK, ServerPC

LEMMA FinishType ==
  ASSUME TypeOK, NEW conns \in [Conn -> ConnState], NEW r,
         Served \in Conn => r \in ConnState, Finish(conns, r)
  PROVE  /\ conn' \in [Conn -> ConnState] /\ fd' \in [Slot -> Conn \cup {NoConn}]
         /\ client' \in {Stdin} \cup Slot
         /\ ready' \subseteq {Stdin, Listen} \cup Slot /\ spc' \in ServerPC
<1>1. Served \in Conn => SrvClose(r) \in ConnState
  BY ConnType
<1>2. conn' \in [Conn -> ConnState]
  BY <1>1 DEF Finish
<1>3. fd' \in [Slot -> Conn \cup {NoConn}] /\ client' \in {Stdin} \cup Slot
  BY DEF Finish, TypeOK
<1> QED BY <1>2, <1>3, DoneWithType DEF Finish

LEMMA ContinueType ==
  ASSUME TypeOK, NEW pc \in ServerPC, NEW r,
         Served \in Conn => r \in ConnState, Continue(pc, r)
  PROVE  /\ conn' \in [Conn -> ConnState] /\ fd' \in [Slot -> Conn \cup {NoConn}]
         /\ client' \in {Stdin} \cup Slot
         /\ ready' \subseteq {Stdin, Listen} \cup Slot /\ spc' \in ServerPC
  BY DEF Continue, TypeOK

\* What of TypeOK a step of serveClient can disturb.
LEMMA ServeOnly ==
  ASSUME TypeOK, conn' \in [Conn -> ConnState], fd' \in [Slot -> Conn \cup {NoConn}],
         client' \in {Stdin} \cup Slot,
         ready' \subseteq {Stdin, Listen} \cup Slot, spc' \in ServerPC,
         cur' \in Files \cup {NoFile}, todo' \subseteq Files,
         sfile' \in [Files -> Content],
         vm' \in Guest,
         UNCHANGED <<saved, snap, pending, flags, user, count>>
  PROVE  TypeOK'
  BY DEF TypeOK, flags, user, count

\* What the server has of a connection after it read, and answered, a message.
LEMMA ReadType ==
  ASSUME TypeOK, NEW pc, NEW m, At(pc, m)
  PROVE  /\ Served \in Conn => Read \in ConnState
         /\ \A ms \in Seq(Msg) : Served \in Conn => Down(Read, ms) \in ConnState
<1>1. Served \in Conn => Read \in ConnState
  BY TakeType DEF At, Read, TypeOK
<1> QED BY <1>1, ConnType

LEMMA ServeStepType ==
  ASSUME TypeOK,
         \/ ServeGET \/ ServeSET \/ ServeCKP \/ ServeRES \/ ServeEOF \/ ServeEND
         \/ ServeName \/ ServeBody \/ SendFile \/ SendFilesEnd
         \/ ReadTimeout \/ Misread \/ AnswerCKY \/ RevertSnapshot
  PROVE  TypeOK'
<1>. USE DEF ServerPC
<1>0. /\ cur \in Files \cup {NoFile} /\ todo \subseteq Files
      /\ sfile \in [Files -> Content] /\ vm \in Guest
      /\ conn \in [Conn -> ConnState]
  BY DEF TypeOK
<1>1. CASE ServeGET
  <2>1. todo' \subseteq Files
    BY <1>1 DEF ServeGET, Present
  <2> QED BY <2>1, <1>0, <1>1, ReadType, ContinueType, ServeOnly DEF ServeGET, guest
<1>2. CASE ServeSET
  BY <1>0, <1>2, ReadType, ContinueType, ServeOnly DEF ServeSET, guest
<1>3. CASE ServeCKP
  <2>1. Served \in Conn => Read \in ConnState /\ Down(Read, <<Hdr("CKN")>>) \in ConnState
    BY <1>3, ReadType, OneMsg DEF ServeCKP
  <2>2. CASE ckptReq
    BY <2>1, <2>2, <1>0, <1>3, ContinueType, ServeOnly DEF ServeCKP, guest
  <2>3. CASE ~ckptReq
    BY <2>1, <2>3, <1>0, <1>3, FinishType, ServeOnly DEF ServeCKP, guest
  <2> QED BY <2>2, <2>3
<1>4. CASE ServeRES
  <2>1. Served \in Conn => Read \in ConnState
    BY <1>4, ReadType DEF ServeRES
  <2>2. CASE ckpted
    BY <2>1, <2>2, <1>0, <1>4, ContinueType, ServeOnly DEF ServeRES, guest
  <2>3. CASE ~ckpted
    BY <2>1, <2>3, <1>0, <1>4, FinishType, ServeOnly DEF ServeRES, guest
  <2> QED BY <2>2, <2>3
<1>5. CASE ServeEOF
  <2>1. Served \in Conn => Down(Read, <<Hdr("END")>>) \in ConnState
    BY <1>5, ReadType, OneMsg DEF ServeEOF
  <2> QED BY <2>1, <1>0, <1>5, FinishType, ServeOnly DEF ServeEOF, guest
<1>6. CASE ServeEND
  BY <1>0, <1>6, ReadType, FinishType, ServeOnly DEF ServeEND, guest
<1>7. CASE ServeName
  <2>1. PICK f \in Files :
          At("name", Name(f)) /\ cur' = f /\ sfile' = [sfile EXCEPT ![f] = Torn]
    BY <1>7 DEF ServeName
  <2>2. sfile' \in [Files -> Content]
    BY <2>1, <1>0, TornType
  <2>3. Served \in Conn => Read \in ConnState
    BY <2>1, ReadType
  <2> QED BY <2>1, <2>2, <2>3, <1>0, <1>7, ContinueType, ServeOnly DEF ServeName, guest
<1>8. CASE ServeBody
  <2>1. PICK v \in Content : At("body", Body(v)) /\ sfile' = [sfile EXCEPT ![cur] = v]
    BY <1>8 DEF ServeBody
  <2>2. sfile' \in [Files -> Content]
    BY <2>1, <1>0
  <2>3. Served \in Conn => Read \in ConnState
    BY <2>1, ReadType
  <2> QED BY <2>2, <2>3, <1>0, <1>8, ContinueType, ServeOnly DEF ServeBody, guest
<1>9. CASE SendFile
  <2>1. PICK f \in todo :
          /\ Continue("send", Down(conn[Served], <<Hdr("SET"), Name(f), Body(sfile[f])>>))
          /\ todo' = todo \ {f}
    BY <1>9 DEF SendFile
  <2>2. Hdr("SET") \in Msg /\ Name(f) \in Msg /\ Body(sfile[f]) \in Msg
    BY <1>0
  <2>3. <<Hdr("SET"), Name(f), Body(sfile[f])>> \in Seq(Msg)
    BY <2>2
  <2>4. Served \in Conn =>
          Down(conn[Served], <<Hdr("SET"), Name(f), Body(sfile[f])>>) \in ConnState
    BY <2>3, <1>0, ConnType
  <2> QED BY <2>1, <2>4, <1>0, <1>9, ContinueType, ServeOnly DEF SendFile, guest
<1>10. CASE SendFilesEnd
  <2>1. Served \in Conn => Down(conn[Served], <<Hdr("EOF")>>) \in ConnState
    BY <1>0, ConnType, OneMsg
  <2> QED BY <2>1, <1>0, <1>10, ContinueType, ServeOnly DEF SendFilesEnd, guest
<1>11. CASE AnswerCKY
  <2>1. Served \in Conn => Down(conn[Served], <<Hdr("CKY")>>) \in ConnState
    BY <1>0, ConnType, OneMsg
  <2> QED BY <2>1, <1>0, <1>11, FinishType, ServeOnly DEF AnswerCKY, guest
<1>12. CASE RevertSnapshot
  <2>1. PICK ok \in {snap # NoSnap} \cup (IF VirshFails THEN {FALSE} ELSE {}) :
       /\ vm' = IF ok THEN snap ELSE vm
       /\ Finish(IF ok /\ vm.sock \in Conn
                 THEN [conn EXCEPT ![vm.sock] = CliLost(@)]
                 ELSE conn, conn[Served])
    BY <1>12 DEF RevertSnapshot
  <2>2. vm' \in Guest
    BY <2>1 DEF TypeOK
  <2>3. [conn EXCEPT ![vm.sock] = CliLost(@)] \in [Conn -> ConnState]
    BY <1>0, ConnType
  <2> QED BY <2>1, <2>2, <2>3, <1>0, <1>12, FinishType, ServeOnly DEF RevertSnapshot
<1>13. CASE ReadTimeout
  BY <1>0, <1>13, ContinueType, ServeOnly DEF ReadTimeout, guest
<1>14. CASE Misread
  <2>1. Served \in Conn => Read \in ConnState
    BY <1>14, TakeType DEF Misread, Read, TypeOK
  <2> QED BY <2>1, <1>0, <1>14, ContinueType, ServeOnly DEF Misread, guest
<1> QED BY <1>1, <1>2, <1>3, <1>4, <1>5, <1>6, <1>7, <1>8, <1>9, <1>10, <1>11, <1>12, <1>13, <1>14

LEMMA LoopStepType ==
  ASSUME TypeOK,
         \/ Select \/ StdinTurn \/ CinLine \/ CinWord \/ Accept \/ Serve
         \/ DeleteSnapshot \/ CreateSnapshot
  PROVE  TypeOK'
<1>. USE DEF ServerPC
<1>1. CASE Select
  <2>1. Readable \subseteq {Stdin, Listen} \cup Slot
    BY DEF Readable
  <2> QED BY <2>1, <1>1 DEF Select, TypeOK, guest, flags, user, count
<1>2. CASE StdinTurn
  BY <1>2 DEF StdinTurn, TypeOK, guest, flags, user, count
<1>3. CASE CinLine
  <2>1. tty \in Seq(Lines) /\ tty # <<>>
    BY <1>3 DEF CinLine, TypeOK
  <2>2. Head(tty) \in Lines /\ Tail(tty) \in Seq(Lines)
    BY <2>1, HeadTailProperties
  <2>3. cin' \in Seq(STRING) /\ tty' \in Seq(Lines)
    BY <2>2, <1>3 DEF CinLine
  <2> QED BY <2>3, <1>3 DEF CinLine, TypeOK, guest, host, flags, count
<1>4. CASE CinWord
  <2>1. cin \in Seq(STRING) /\ cin # <<>>
    BY <1>4 DEF CinWord, TypeOK
  <2>2. cin' \in Seq(STRING)
    BY <2>1, <1>4, HeadTailProperties DEF CinWord
  <2>3. ckptReq' \in BOOLEAN
    BY <1>4 DEF CinWord
  <2>4. ready' \subseteq {Stdin, Listen} \cup Slot /\ spc' \in ServerPC
    BY <1>4, DoneWithType DEF CinWord
  <2> QED BY <2>2, <2>3, <2>4, <1>4 DEF CinWord, TypeOK, guest, count
<1>5. CASE Accept
  <2>1. PICK i \in Backlog, s \in Slot : fd' = [fd EXCEPT ![s] = pending[i]]
    BY <1>5 DEF Accept
  <2>2. pending[i] \in Conn
    BY ElementOfSeq, LenProperties DEF Backlog, TypeOK
  <2>3. fd' \in [Slot -> Conn \cup {NoConn}]
    BY <2>1, <2>2 DEF TypeOK
  <2>4. ready' \subseteq {Stdin, Listen} \cup Slot /\ spc' \in ServerPC
    BY <1>5, DoneWithType DEF Accept
  <2> QED BY <2>3, <2>4, <1>5 DEF Accept, TypeOK, guest, flags, user, count
<1>6. CASE Serve
  <2>1. PICK s \in Slot : /\ client' = s
                         /\ \E i \in DOMAIN pending :
                              pending' = SubSeq(pending, 1, i - 1) \o SubSeq(pending, i + 1, Len(pending))
    BY <1>6 DEF Serve
  <2>2. PICK i \in DOMAIN pending :
          pending' = SubSeq(pending, 1, i - 1) \o SubSeq(pending, i + 1, Len(pending))
    BY <2>1
  <2>3. pending \in Seq(Conn) /\ Len(pending) \in Nat /\ DOMAIN pending = 1 .. Len(pending)
    BY LenProperties DEF TypeOK
  <2>4. i \in 1 .. Len(pending) /\ \A j \in 1 .. Len(pending) : pending[j] \in Conn
    BY <2>3, ElementOfSeq
  <2>5. /\ i - 1 \in Int /\ \A j \in 1 .. (i - 1) : pending[j] \in Conn
        /\ i + 1 \in Int /\ \A j \in (i + 1) .. Len(pending) : pending[j] \in Conn
    BY <2>3, <2>4
  <2>6. /\ SubSeq(pending, 1, i - 1) \in Seq(Conn)
        /\ SubSeq(pending, i + 1, Len(pending)) \in Seq(Conn)
    BY <2>3, <2>5, SubSeqProperties
  <2>7. pending' \in Seq(Conn)
    BY <2>2, <2>6, ConcatProperties
  <2> QED BY <2>1, <2>7, <1>6 DEF Serve, TypeOK, guest, flags, user, count
<1>7. CASE DeleteSnapshot
  BY <1>7 DEF DeleteSnapshot, TypeOK, guest, flags, user, count
<1>8. CASE CreateSnapshot
  <2>1. snap' \in Guest \cup {NoSnap}
    BY <1>8, GuestType DEF CreateSnapshot, TypeOK
  <2> QED BY <2>1, <1>8 DEF CreateSnapshot, TypeOK, guest, user, count
<1> QED BY <1>1, <1>2, <1>3, <1>4, <1>5, <1>6, <1>7, <1>8

LEMMA GoneType ==
  ASSUME TypeOK, Gone, crashes' \in Nat
  PROVE  TypeOK'
<1>1. conn' \in [Conn -> ConnState]
  BY ConnType DEF Gone, TypeOK
<1>2. pending' \in Seq(Conn) /\ cin' \in Seq(STRING)
  BY EmptySeq DEF Gone
<1>3. fd' \in [Slot -> Conn \cup {NoConn}]
  BY DEF Gone
<1> QED BY <1>1, <1>2, <1>3 DEF Gone, TypeOK, ServerPC, guest

LEMMA OtherStepType ==
  ASSUME TypeOK,
         \/ CallCheckpoint \/ CallRestore \/ CallRefused \/ Train \/ Launch \/ Kill
         \/ Type \/ Abort \/ Unsupported \/ Crash \/ Restart
  PROVE  TypeOK'
<1>. vm \in Guest /\ vm \in GuestRecord
  BY DEF TypeOK, Guest
<1>1. CASE CallCheckpoint
  BY <1>1, ConnectType DEF CallCheckpoint, Guest
<1>2. CASE CallRestore
  BY <1>2, ConnectType DEF CallRestore, Guest, Present
<1>3. CASE Train
  <2>1. made' \in 0 .. MaxVer /\ made' \in Content
    BY <1>3 DEF Train, TypeOK, Content, Torn
  <2>2. vm' \in Guest
    BY <2>1, <1>3 DEF Train, Guest, GuestRecord, GuestPC
  <2> QED BY <2>1, <2>2, <1>3 DEF Train, TypeOK, host, flags, user
<1>4. CASE Launch
  BY <1>4, GuestType DEF Launch, TypeOK, host, flags, user, count
<1>5. CASE Kill
  <2>1. conn' \in [Conn -> ConnState]
    BY <1>5, ConnType DEF Kill, TypeOK
  <2>2. kills' \in Nat
    BY <1>5 DEF Kill, TypeOK
  <2> QED BY <2>1, <2>2, <1>5, GuestType DEF Kill, TypeOK, host, flags, user
<1>6. CASE Type
  <2>1. PICK l \in Lines : tty' = Append(tty, l)
    BY <1>6 DEF Type
  <2>2. tty' \in Seq(Lines)
    BY <2>1, AppendProperties DEF TypeOK
  <2>3. typed' \in Nat
    BY <1>6 DEF Type, TypeOK
  <2> QED BY <2>2, <2>3, <1>6 DEF Type, TypeOK, guest, host, flags, count
<1>7. CASE Abort \/ Unsupported
  BY <1>7, GoneType DEF Abort, Unsupported, TypeOK
<1>8. CASE Crash
  <2>1. crashes' \in Nat
    BY <1>8 DEF Crash, TypeOK
  <2> QED BY <2>1, <1>8, GoneType DEF Crash
<1>9. CASE Restart
  BY <1>9 DEF Restart, TypeOK, ServerPC, guest, flags, user, count
<1>10. CASE CallRefused
  BY <1>10, GuestType DEF CallRefused, TypeOK, host, flags, user, count
<1> QED BY <1>1, <1>2, <1>3, <1>4, <1>5, <1>6, <1>7, <1>8, <1>9, <1>10

LEMMA TypeInit == Init => TypeOK
<1> SUFFICES ASSUME Init PROVE TypeOK
  OBVIOUS
<1>1. Fresh \in Guest
  BY TornType DEF Fresh, Guest, GuestRecord, GuestPC
<1>2. conn \in [Conn -> ConnState]
  BY NewConnType DEF Init
<1>3. pending \in Seq(Conn) /\ tty \in Seq(Lines) /\ cin \in Seq(STRING)
  BY EmptySeq DEF Init
<1>4. made \in 0 .. MaxVer
  BY DEF Init
<1>5. fd \in [Slot -> Conn \cup {NoConn}] /\ sfile \in [Files -> Content]
  BY TornType DEF Init
<1>6. {typed, kills, crashes} \subseteq Nat
  BY DEF Init
<1>7. vm \in Guest /\ snap \in Guest \cup {NoSnap}
  BY <1>1 DEF Init
<1> QED BY <1>2, <1>3, <1>4, <1>5, <1>6, <1>7 DEF Init, TypeOK, ServerPC

LEMMA TypeStep == ASSUME TypeOK, [Next]_vars PROVE TypeOK'
<1>1. CASE GuestStep
  BY <1>1, GuestStepType
<1>2. CASE ServerStep
  BY <1>2, ServeStepType, LoopStepType, OtherStepType DEF ServerStep
<1>3. CASE UNCHANGED vars
  BY <1>3 DEF vars, TypeOK, guest, host, flags, user, count
<1> QED BY <1>1, <1>2, <1>3, OtherStepType DEF Next

\* Every reachable state is well formed: in particular the guest's socket and
\* open file, in the running guest and in the snapshot, go with where it is in
\* CPClient.
THEOREM TypeCorrect == Spec => []TypeOK
<1>1. TypeOK /\ [Next]_vars => TypeOK'
  BY TypeStep
<1> QED BY TypeInit, <1>1, PTL DEF Spec

-------------------------------------------------------------------------------
(* ckpted and the snapshot *)

\* The guest's own steps, and the user's, do not reach the server's flags or the
\* snapshot; of the server's, few do.
LEMMA GuestFrame ==
  ASSUME GuestStep \/ CallCheckpoint \/ CallRestore \/ CallRefused \/ Train \/ Launch \/ Kill \/ Type
  PROVE  UNCHANGED <<snap, flags, host>>
  BY DEF GuestStep, CallCheckpoint, CallRestore, CallRefused, Train, Launch, Kill, Type,
         StartGET, StartRES, Refused, SendCKP, SendGET, SendRES, SendName, SendBody,
         SendEOF, RecvCKN, RecvCKY, CkpTimeout, PingDone, WaitTimeout, RecvSET,
         RecvName, RecvBody, RecvEOF, RecvEND, ReadReset, Connect, Send, Receive

LEMMA ServerFrame ==
  ASSUME \/ Select \/ StdinTurn \/ CinLine \/ Accept \/ Serve
         \/ ServeGET \/ ServeSET \/ ServeCKP \/ ServeRES \/ ServeEOF \/ ServeEND
         \/ ServeName \/ ServeBody \/ SendFile \/ SendFilesEnd
         \/ ReadTimeout \/ Misread \/ AnswerCKY \/ RevertSnapshot \/ Restart
  PROVE  UNCHANGED <<snap, flags>> /\ spc # "create"
  BY DEF Select, StdinTurn, CinLine, Accept, Serve, Turn, At, ServeGET, ServeSET,
         ServeCKP, ServeRES, ServeEOF, ServeEND, ServeName, ServeBody, SendFile,
         SendFilesEnd, ReadTimeout, Misread, AnswerCKY, RevertSnapshot, Restart

LEMMA SnapshotStep ==
  ASSUME ~VirshFails, TypeOK, CkptedMeansSnapshot, [Next]_vars
  PROVE  CkptedMeansSnapshot'
<1>. USE DEF CkptedMeansSnapshot
<1>1. CASE CreateSnapshot
  <2>1. Captured(vm) # NoSnap
    BY GuestType, NoSnapAssumption DEF TypeOK
  <2> QED BY <2>1, <1>1 DEF CreateSnapshot
<1>2. CASE DeleteSnapshot
  BY <1>2 DEF DeleteSnapshot
<1>3. CASE Abort \/ Unsupported \/ Crash
  BY <1>3 DEF Abort, Unsupported, Crash, Gone
<1>4. CASE CinWord
  BY <1>4 DEF CinWord
<1>5. CASE UNCHANGED <<snap, flags, host>>
  BY <1>5 DEF flags, host
<1>6. CASE UNCHANGED <<snap, flags>> /\ spc # "create"
  BY <1>6 DEF flags
<1>7. CASE UNCHANGED vars
  BY <1>7, <1>5 DEF vars
<1> QED BY <1>1, <1>2, <1>3, <1>4, <1>5, <1>6, <1>7, GuestFrame, ServerFrame
        DEF Next, ServerStep

\* As long as virsh does what it is asked, ckpted is "whether current system is
\* checkpointed or not" (CPServer.hpp:58): handleRES never reverts to nothing.
THEOREM SnapshotExists == ASSUME ~VirshFails PROVE Spec => []CkptedMeansSnapshot
<1>1. Init => CkptedMeansSnapshot
  BY DEF Init, CkptedMeansSnapshot
<1>2. TypeOK /\ CkptedMeansSnapshot /\ [Next]_vars => CkptedMeansSnapshot'
  BY SnapshotStep
<1> QED BY <1>1, <1>2, TypeCorrect, PTL DEF Spec

-------------------------------------------------------------------------------
(* What the ends of a connection do to each other *)

\* Closing one end says nothing about the other; writing opens and closes none.
LEMMA EndsApart ==
  ASSUME NEW r \in ConnState
  PROVE  /\ CliClose(r).cli # "open" /\ (CliClose(r).srv = "open" <=> r.srv = "open")
         /\ CliLost(r).cli # "open" /\ (CliLost(r).srv = "open" <=> r.srv = "open")
         /\ SrvClose(r).srv # "open" /\ (SrvClose(r).cli = "open" <=> r.cli = "open")
         /\ SrvReset(r).srv # "open" /\ (SrvReset(r).cli = "open" <=> r.cli = "open")
         /\ \A ms \in Seq(Msg) :
              /\ (Up(r, ms).cli = "open" <=> r.cli = "open")
              /\ (Up(r, ms).srv = "open" <=> r.srv = "open")
              /\ (Down(r, ms).cli = "open" <=> r.cli = "open")
              /\ (Down(r, ms).srv = "open" <=> r.srv = "open")
<1>1. \A ms \in Seq(Msg) : /\ Up(r, ms).cli = r.cli
                           /\ (Up(r, ms).srv = "open" <=> r.srv = "open")
                           /\ Down(r, ms).srv = r.srv
                           /\ (Down(r, ms).cli = "open" <=> r.cli = "open")
  BY DEF Up, Down, CliGone, ConnState
<1>2. CliClose(r).cli # "open" /\ (CliClose(r).srv = "open" <=> r.srv = "open")
  BY DEF CliClose, Settled, FreeConn, ConnState
<1>3. CliLost(r).cli # "open" /\ (CliLost(r).srv = "open" <=> r.srv = "open")
  BY DEF CliLost, Settled, FreeConn, ConnState
<1>4. SrvClose(r).srv # "open" /\ (SrvClose(r).cli = "open" <=> r.cli = "open")
  BY DEF SrvClose, Settled, FreeConn, ConnState
<1>5. SrvReset(r).srv # "open" /\ (SrvReset(r).cli = "open" <=> r.cli = "open")
  BY DEF SrvReset, Settled, FreeConn, ConnState
<1> QED BY <1>1, <1>2, <1>3, <1>4, <1>5

-------------------------------------------------------------------------------
(* The invariant behind Bookkeeping *)

Serving == {"header", "name", "body", "astray", "send", "delete", "create", "cky", "revert"}

\* clientFD of serveClient is one exactly while serveClient runs.
Place == client # Stdin <=> spc \in Serving

\* A snapshot has no connection of its own.
SnapSock == snap # NoSnap => snap.sock \notin Conn

\* RES is the last word of a connection: the guest that is reverted is never
\* the one the server is serving.
Farewell ==
  /\ \A c \in Conn : conn[c].cli = "open" =>
       \A i \in DOMAIN conn[c].up : conn[c].up[i].kind # "RES"
  /\ spc = "revert" => conn[Served].cli # "open"

BookInv == TypeOK /\ Place /\ SnapSock /\ Farewell /\ Bookkeeping

NoRES(r) == \A i \in DOMAIN r.up : r.up[i].kind # "RES"

LEMMA ServedConn ==
  ASSUME BookInv, client # Stdin
  PROVE  Served \in Conn /\ Served = fd[client] /\ client \in Slot
  BY DEF BookInv, TypeOK, Bookkeeping, Served

\* What a guest may do to the connection it has.
LEMMA GuestMoves ==
  ASSUME BookInv, vm.sock \in Conn, NEW r,
         conn' = [conn EXCEPT ![vm.sock] = r],
         r.srv = "open" <=> conn[vm.sock].srv = "open",
         r.cli = "open" <=> vm'.sock = vm.sock,
         vm'.sock \in {vm.sock, NoConn},
         r.cli = "open" => NoRES(r),
         UNCHANGED <<snap, pending, fd, spc, client>>
  PROVE  Place' /\ SnapSock' /\ Farewell' /\ Bookkeeping'
<1>1. /\ \A c \in Conn : conn'[c].srv = "open" <=> conn[c].srv = "open"
      /\ \A c \in Conn : conn'[c].cli = "open" <=> vm'.sock = c
  <2>1. \A c \in Conn : conn'[c] = IF c = vm.sock THEN r ELSE conn[c]
    BY DEF BookInv, TypeOK
  <2>2. \A c \in Conn : conn[c].cli = "open" <=> vm.sock = c
    BY DEF BookInv, Bookkeeping
  <2>3. \A c \in Conn : c # vm.sock => vm'.sock # c
    OBVIOUS
  <2>4. \A c \in Conn : conn'[c].srv = "open" <=> conn[c].srv = "open"
    BY <2>1
  <2>5. \A c \in Conn : conn'[c].cli = "open" <=> vm'.sock = c
    BY <2>1, <2>2, <2>3
  <2> QED BY <2>4, <2>5
<1>2. Served' = Served /\ (client # Stdin => Served \in Conn)
  BY ServedConn DEF Served
<1>3. Bookkeeping'
  BY <1>1, <1>2 DEF BookInv, TypeOK, Bookkeeping
<1>4. Farewell'
  <2>1. \A c \in Conn : conn'[c].cli = "open" => conn[c].cli = "open"
    BY <1>1 DEF BookInv, Bookkeeping
  <2>2. \A c \in Conn : conn'[c].cli = "open" =>
          \A i \in DOMAIN conn'[c].up : conn'[c].up[i].kind # "RES"
    BY <2>1 DEF BookInv, TypeOK, Farewell, NoRES
  <2>3. spc' = "revert" => conn'[Served'].cli # "open"
    BY <2>1, <1>2 DEF BookInv, Farewell, Place, Serving
  <2> QED BY <2>2, <2>3 DEF Farewell
<1>5. Place' /\ SnapSock'
  BY DEF BookInv, Place, SnapSock
<1> QED BY <1>3, <1>4, <1>5

\* Steps that touch neither end of any connection.
LEMMA NothingMoves ==
  ASSUME BookInv, UNCHANGED <<conn, snap, pending, fd, client>>, vm'.sock = vm.sock \/ (vm.sock \notin Conn /\ vm'.sock \notin Conn),
         spc' = spc \/ (spc' # "revert" /\ (spc' \in Serving <=> spc \in Serving))
  PROVE  Place' /\ SnapSock' /\ Farewell' /\ Bookkeeping'
<1>1. Served' = Served
  BY DEF Served
<1>2. Bookkeeping'
  BY <1>1 DEF BookInv, Bookkeeping
<1>3. Place' /\ SnapSock'
  BY DEF BookInv, Place, SnapSock
<1>4. Farewell'
  BY <1>1 DEF BookInv, Farewell
<1> QED BY <1>2, <1>3, <1>4

\* What of it is left to show of a step, TypeOK being known.
Book == Place /\ SnapSock /\ Farewell /\ Bookkeeping

\* socket() and connect() take a connection that neither end has.
LEMMA ConnectMoves ==
  ASSUME BookInv, vm.sock \notin Conn, NEW pc, NEW files, Connect(pc, files)
  PROVE  Book'
<1>1. PICK c \in Conn :
        /\ conn[c] = FreeConn
        /\ conn' = [conn EXCEPT ![c] = NewConn]
        /\ pending' = Append(pending, c)
        /\ vm' = [vm EXCEPT !.pc = pc, !.sock = c, !.watch = TRUE, !.todo = files]
  BY DEF Connect
<1>2. UNCHANGED <<snap, fd, spc, client>> /\ Served' = Served
  BY DEF Connect, host, Served
<1>3. vm'.sock = c /\ vm' # vm
  BY <1>1 DEF BookInv, TypeOK, Guest, GuestRecord
<1>4. /\ conn'[c].srv = "open" /\ conn'[c].cli = "open" /\ conn'[c].up = <<>>
      /\ conn[c].srv # "open"
      /\ \A d \in Conn : d # c => conn'[d] = conn[d]
  BY <1>1 DEF BookInv, TypeOK, NewConn, FreeConn
<1>5. Served # c /\ \A i \in DOMAIN pending : pending[i] # c
  BY <1>4, ServedConn DEF BookInv, Bookkeeping
<1>6. /\ DOMAIN pending = 1 .. Len(pending) /\ Len(pending) \in Nat
      /\ DOMAIN pending' = 1 .. (Len(pending) + 1)
      /\ pending'[Len(pending) + 1] = c
      /\ \A i \in DOMAIN pending : pending'[i] = pending[i] /\ pending[i] \in Conn
  BY <1>1, AppendProperties, LenProperties, ElementOfSeq DEF BookInv, TypeOK
<1>7. \A d \in Conn : (\E i \in DOMAIN pending' : pending'[i] = d)
                        <=> d = c \/ \E i \in DOMAIN pending : pending[i] = d
  BY <1>6
<1>8. Bookkeeping'
  <2>1. \A d \in Conn : (conn'[d].srv = "open")
                          <=> (Served' = d \/ \E i \in DOMAIN pending' : pending'[i] = d)
    BY <1>2, <1>4, <1>5, <1>7 DEF BookInv, Bookkeeping
  <2>2. \A i, j \in DOMAIN pending' : pending'[i] = pending'[j] => i = j
    BY <1>5, <1>6 DEF BookInv, Bookkeeping
  <2>3. \A i \in DOMAIN pending' : pending'[i] # Served'
    BY <1>2, <1>5, <1>6 DEF BookInv, Bookkeeping
  <2>4. \A s \in Slot : fd'[s] # NoConn => conn'[fd'[s]].srv = "open"
    BY <1>2, <1>4 DEF BookInv, TypeOK, Bookkeeping
  <2>5. \A d \in Conn : (conn'[d].cli = "open") <=> (vm'.sock = d)
    BY <1>3, <1>4 DEF BookInv, Bookkeeping
  <2> QED BY <1>2, <2>1, <2>2, <2>3, <2>4, <2>5 DEF BookInv, Bookkeeping
<1>9. Farewell'
  <2>1. \A d \in Conn : conn'[d].cli = "open" =>
          \A i \in DOMAIN conn'[d].up : conn'[d].up[i].kind # "RES"
    BY <1>4 DEF BookInv, Farewell
  <2>2. spc' = "revert" => conn'[Served'].cli # "open"
    <3>1. spc = "revert" => Served \in Conn
      BY ServedConn DEF BookInv, Place, Serving
    <3> QED BY <3>1, <1>2, <1>4, <1>5 DEF BookInv, Farewell
  <2> QED BY <2>1, <2>2 DEF Farewell
<1> QED BY <1>2, <1>8, <1>9 DEF BookInv, Book, Place, SnapSock

\* Messages other than RES do not break Farewell.
LEMMA UpNoRES ==
  ASSUME NEW r \in ConnState, NEW ms \in Seq(Msg), NoRES(r),
         \A i \in DOMAIN ms : ms[i].kind # "RES"
  PROVE  NoRES(Up(r, ms))
<1>1. r.up \in Seq(Msg)
  BY DEF ConnState
<1>2. \A i \in DOMAIN (r.up \o ms) : (r.up \o ms)[i].kind # "RES"
  BY <1>1, ConcatProperties, LenProperties DEF NoRES
<1> QED BY <1>2 DEF Up, NoRES, ConnState

\* A guest that writes keeps its connection, or closes it behind the message.
LEMMA SendMoves ==
  ASSUME BookInv, vm.sock \in Conn \cup {Stale}, NEW ms \in Seq(Msg), NEW g \in Guest, Send(ms, g),
         g.sock \in {vm.sock, NoConn},
         g.sock # NoConn => \A i \in DOMAIN ms : ms[i].kind # "RES"
  PROVE  Book'
<1>1. Halted(vm).sock = NoConn
  BY DEF Halted, BookInv, TypeOK, Guest, GuestRecord
<1>2. UNCHANGED <<snap, pending, fd, spc, client>>
  BY DEF Send, host
<1>3. CASE vm.sock = Stale
  <2>1. vm'.sock = NoConn /\ conn' = conn
    BY <1>1, <1>3 DEF Send
  <2> QED BY <2>1, <1>2, <1>3, NothingMoves DEF Book
<1>4. CASE vm.sock \in Conn /\ Sock.srv = "rst"
  <2>1. vm'.sock = NoConn /\ conn' = [conn EXCEPT ![vm.sock] = CliClose(conn[vm.sock])]
    BY <1>1, <1>4 DEF Send
  <2>2. conn[vm.sock] \in ConnState
    BY <1>4 DEF BookInv, TypeOK
  <2>3. /\ CliClose(conn[vm.sock]).cli # "open"
        /\ CliClose(conn[vm.sock]).srv = "open" <=> conn[vm.sock].srv = "open"
    BY <2>2, EndsApart
  <2> QED BY <2>1, <2>3, <1>2, <1>4, GuestMoves DEF Book
<1>5. CASE vm.sock \in Conn /\ Sock.srv # "rst"
  <2>. DEFINE u == Up(conn[vm.sock], ms)
  <2>1. conn[vm.sock] \in ConnState /\ conn[vm.sock].cli = "open"
    BY <1>5 DEF BookInv, TypeOK, Bookkeeping
  <2>2. /\ u \in ConnState /\ u.cli = "open"
        /\ u.srv = "open" <=> conn[vm.sock].srv = "open"
    BY <2>1, EndsApart, ConnType
  <2>3. CASE g.sock = NoConn
    <3>1. vm'.sock = NoConn /\ conn' = [conn EXCEPT ![vm.sock] = CliClose(u)]
      BY <1>5, <2>3 DEF Send
    <3>2. CliClose(u).cli # "open" /\ (CliClose(u).srv = "open" <=> u.srv = "open")
      BY <2>2, EndsApart
    <3> HIDE DEF u
    <3> QED BY <3>1, <3>2, <2>2, <1>2, <1>5, GuestMoves DEF Book
  <2>4. CASE g.sock # NoConn
    <3>1. vm'.sock = vm.sock /\ conn' = [conn EXCEPT ![vm.sock] = u]
      BY <1>5, <2>4 DEF Send
    <3>2. NoRES(conn[vm.sock])
      BY <2>1, <1>5 DEF BookInv, Farewell, NoRES
    <3>3. NoRES(u)
      BY <3>2, <2>1, <2>4, UpNoRES
    <3> HIDE DEF u
    <3> QED BY <3>1, <3>3, <2>2, <1>2, <1>5, GuestMoves DEF Book
  <2> QED BY <2>3, <2>4
<1> QED BY <1>3, <1>4, <1>5

\* A guest that reads keeps its connection, or closes it.
LEMMA ReceiveMoves ==
  ASSUME BookInv, NEW m, NEW g \in Guest, Receive(m, g), g.sock \in {vm.sock, NoConn}
  PROVE  Book'
<1>1. /\ vm.sock \in Conn /\ conn[vm.sock].down # <<>> /\ conn[vm.sock] \in ConnState
      /\ conn[vm.sock].cli = "open"
  BY DEF Receive, Sock, BookInv, TypeOK, Bookkeeping
<1>2. /\ Taken \in ConnState /\ Taken.cli = "open" /\ Taken.up = conn[vm.sock].up
      /\ Taken.srv = conn[vm.sock].srv
  BY <1>1, TakeType DEF Taken, Sock, ConnState
<1>3. CliClose(Taken).cli # "open" /\ (CliClose(Taken).srv = "open" <=> Taken.srv = "open")
  BY <1>2, EndsApart
<1>4. NoRES(Taken)
  BY <1>1, <1>2 DEF BookInv, Farewell, NoRES
<1>5. UNCHANGED <<snap, pending, fd, spc, client>> /\ vm'.sock = g.sock
  BY DEF Receive, host
<1>6. CASE g.sock = NoConn
  <2>1. conn' = [conn EXCEPT ![vm.sock] = CliClose(Taken)]
    BY <1>6 DEF Receive
  <2> QED BY <2>1, <1>1, <1>2, <1>3, <1>5, <1>6, GuestMoves DEF Book
<1>7. CASE g.sock = vm.sock
  <2>1. conn' = [conn EXCEPT ![vm.sock] = Taken]
    BY <1>1, <1>7 DEF Receive
  <2> QED BY <2>1, <1>1, <1>2, <1>4, <1>5, <1>7, GuestMoves DEF Book
<1> QED BY <1>6, <1>7

LEMMA HeaderKinds ==
  /\ \A h \in HeaderKind : Hdr(h).kind = h
  /\ \A f \in Files : Name(f).kind = "name"
  /\ \A v \in Content : Body(v).kind = "body"
  BY DEF Hdr, Name, Body

\* The guest's side.
LEMMA GuestBook ==
  ASSUME BookInv, GuestStep \/ CallCheckpoint \/ CallRestore \/ CallRefused \/ Train \/ Launch \/ Kill \/ Type
  PROVE  Book'
<1>. /\ vm \in Guest /\ vm \in GuestRecord /\ TypeOK
     /\ vm.sock \in Conn \cup {Stale} <=> vm.pc \notin {"run", "toGET", "toRES", "dead"}
     /\ vm.sock \notin Conn <=> vm.sock \in {NoConn, Stale}
  BY DEF BookInv, TypeOK, Guest, GuestRecord
<1>h. Halted(vm).sock = NoConn /\ Started(vm).sock = NoConn
  BY DEF Halted, Started, GuestRecord
<1>1. CASE StartGET \/ StartRES \/ CallCheckpoint \/ CallRestore
  BY <1>1, ConnectMoves DEF StartGET, StartRES, CallCheckpoint, CallRestore
<1>2. CASE Refused \/ CallRefused \/ Launch
  <2>1. vm.sock \notin Conn /\ vm'.sock \notin Conn
    BY <1>2, <1>h DEF Refused, CallRefused, Launch
  <2>2. UNCHANGED <<conn, snap, pending, fd, client, spc>>
    BY <1>2 DEF Refused, CallRefused, Launch, host
  <2> QED BY <2>1, <2>2, NothingMoves DEF Book
<1>3. CASE CkpTimeout \/ WaitTimeout \/ Train \/ Type
  <2>1. vm'.sock = vm.sock
    BY <1>3 DEF CkpTimeout, WaitTimeout, Train, Type, GuestRecord, guest
  <2>2. UNCHANGED <<conn, snap, pending, fd, client, spc>>
    BY <1>3 DEF CkpTimeout, WaitTimeout, Train, Type, host
  <2> QED BY <2>1, <2>2, NothingMoves DEF Book
<1>4. CASE SendCKP
  <2>. DEFINE g == [vm EXCEPT !.pc = "ckp"]
  <2>1. g \in Guest /\ g.sock = vm.sock /\ Send(<<Hdr("CKP")>>, g)
    BY <1>4 DEF SendCKP, Guest, GuestRecord, GuestPC
  <2>2. \A i \in DOMAIN <<Hdr("CKP")>> : <<Hdr("CKP")>>[i].kind # "RES"
    BY HeaderKinds
  <2>. HIDE DEF g
  <2> QED BY <2>1, <2>2, <1>4, SendMoves, OneMsg DEF SendCKP
<1>5. CASE SendGET
  <2>. DEFINE g == [vm EXCEPT !.pc = "get"]
  <2>1. g \in Guest /\ g.sock = vm.sock /\ Send(<<Hdr("GET")>>, g)
    BY <1>5 DEF SendGET, Guest, GuestRecord, GuestPC
  <2>2. \A i \in DOMAIN <<Hdr("GET")>> : <<Hdr("GET")>>[i].kind # "RES"
    BY HeaderKinds
  <2>. HIDE DEF g
  <2> QED BY <2>1, <2>2, <1>5, SendMoves, OneMsg DEF SendGET
<1>6. CASE SendRES
  <2>. DEFINE g == [vm EXCEPT !.pc = "run", !.sock = NoConn]
  <2>1. g \in Guest /\ g.sock = NoConn /\ Send(<<Hdr("RES")>>, g)
    BY <1>6 DEF SendRES, Guest, GuestRecord, GuestPC
  <2>. HIDE DEF g
  <2> QED BY <2>1, <1>6, SendMoves, OneMsg DEF SendRES
<1>7. CASE SendName
  <2>1. PICK f \in vm.todo :
          Send(<<Hdr("SET"), Name(f)>>,
               [vm EXCEPT !.pc = "setBody", !.cur = f, !.todo = @ \ {f}])
    BY <1>7 DEF SendName
  <2>. DEFINE g == [vm EXCEPT !.pc = "setBody", !.cur = f, !.todo = @ \ {f}]
              ms == <<Hdr("SET"), Name(f)>>
  <2>2. f \in Files
    BY DEF GuestRecord
  <2>3. g \in Guest /\ g.sock = vm.sock
    BY <1>7, <2>2 DEF SendName, Guest, GuestRecord, GuestPC
  <2>4. ms \in Seq(Msg) /\ \A i \in DOMAIN ms : ms[i].kind # "RES"
    BY <2>2, HeaderKinds
  <2>5. Send(ms, g)
    BY <2>1
  <2>. HIDE DEF g, ms
  <2> QED BY <2>3, <2>4, <2>5, <1>7, SendMoves DEF SendName
<1>8. CASE SendBody
  <2>. DEFINE g == [vm EXCEPT !.pc = "set", !.cur = NoFile]
              ms == <<Body(vm.file[vm.cur])>>
  <2>1. vm.cur \in Files
    BY <1>8 DEF SendBody, Guest, GuestRecord
  <2>2. vm.file[vm.cur] \in Content
    BY <2>1 DEF GuestRecord
  <2>3. ms \in Seq(Msg) /\ \A i \in DOMAIN ms : ms[i].kind # "RES"
    BY <2>2, HeaderKinds
  <2>4. g \in Guest /\ g.sock = vm.sock /\ Send(ms, g)
    BY <1>8 DEF SendBody, Guest, GuestRecord, GuestPC
  <2>. HIDE DEF g, ms
  <2> QED BY <2>3, <2>4, <1>8, SendMoves DEF SendBody
<1>9. CASE SendEOF
  <2>. DEFINE g == [vm EXCEPT !.pc = "end"]
  <2>1. g \in Guest /\ g.sock = vm.sock /\ Send(<<Hdr("EOF")>>, g)
    BY <1>9 DEF SendEOF, Guest, GuestRecord, GuestPC
  <2>2. \A i \in DOMAIN <<Hdr("EOF")>> : <<Hdr("EOF")>>[i].kind # "RES"
    BY HeaderKinds
  <2>. HIDE DEF g
  <2> QED BY <2>1, <2>2, <1>9, SendMoves, OneMsg DEF SendEOF
<1>10. CASE RecvCKN \/ RecvCKY \/ RecvEND
  <2>1. CASE RecvCKN
    <3>. DEFINE g == [vm EXCEPT !.pc = "run", !.sock = NoConn]
    <3>1. g \in Guest /\ g.sock = NoConn /\ Receive(Hdr("CKN"), g)
      BY <2>1 DEF RecvCKN, Guest, GuestRecord, GuestPC
    <3>. HIDE DEF g
    <3> QED BY <3>1, ReceiveMoves
  <2>2. CASE RecvCKY
    <3>. DEFINE g == [vm EXCEPT !.pc = "toGET", !.chk = TRUE, !.sock = NoConn]
    <3>1. g \in Guest /\ g.sock = NoConn /\ Receive(Hdr("CKY"), g)
      BY <2>2 DEF RecvCKY, Guest, GuestRecord, GuestPC
    <3>. HIDE DEF g
    <3> QED BY <3>1, ReceiveMoves
  <2>3. CASE RecvEND
    <3>. DEFINE g == [vm EXCEPT !.pc = "toRES", !.sock = NoConn]
    <3>1. g \in Guest /\ g.sock = NoConn /\ Receive(Hdr("END"), g)
      BY <2>3 DEF RecvEND, Guest, GuestRecord, GuestPC
    <3>. HIDE DEF g
    <3> QED BY <3>1, ReceiveMoves
  <2> QED BY <1>10, <2>1, <2>2, <2>3
<1>11. CASE RecvSET
  <2>. DEFINE g == [vm EXCEPT !.pc = "name"]
  <2>1. g \in Guest /\ g.sock = vm.sock /\ Receive(Hdr("SET"), g)
    BY <1>11 DEF RecvSET, Guest, GuestRecord, GuestPC
  <2>. HIDE DEF g
  <2> QED BY <2>1, ReceiveMoves
<1>12. CASE RecvName
  <2>1. PICK f \in Files :
          Receive(Name(f), [vm EXCEPT !.pc = "body", !.cur = f, !.file[f] = Torn])
    BY <1>12 DEF RecvName
  <2>. DEFINE g == [vm EXCEPT !.pc = "body", !.cur = f, !.file[f] = Torn]
  <2>2. g \in Guest /\ g.sock = vm.sock /\ Receive(Name(f), g)
    BY <1>12, <2>1, TornType DEF RecvName, Guest, GuestRecord, GuestPC
  <2>. HIDE DEF g
  <2> QED BY <2>2, ReceiveMoves
<1>13. CASE RecvBody
  <2>1. PICK v \in Content :
          Receive(Body(v), [vm EXCEPT !.pc = "get", !.cur = NoFile, !.file[vm.cur] = v])
    BY <1>13 DEF RecvBody
  <2>. DEFINE g == [vm EXCEPT !.pc = "get", !.cur = NoFile, !.file[vm.cur] = v]
  <2>2. g \in Guest /\ g.sock = vm.sock /\ Receive(Body(v), g)
    BY <1>13, <2>1 DEF RecvBody, Guest, GuestRecord, GuestPC
  <2>. HIDE DEF g
  <2> QED BY <2>2, ReceiveMoves
<1>. DEFINE old == conn[vm.sock]
<1>14. CASE PingDone \/ ReadReset \/ Kill
  <2>1. vm'.sock = NoConn
    BY <1>14, <1>h DEF PingDone, ReadReset, Kill, GuestRecord
  <2>2. UNCHANGED <<snap, pending, fd, client, spc>>
    BY <1>14 DEF PingDone, ReadReset, Kill, host
  <2>3. CASE vm.sock \in Conn
    <3>1. conn' = [conn EXCEPT ![vm.sock] = CliClose(old)]
      BY <1>14, <2>3 DEF PingDone, ReadReset, Kill
    <3>2. old \in ConnState
      BY <2>3 DEF TypeOK
    <3>3. CliClose(old).cli # "open" /\ (CliClose(old).srv = "open" <=> old.srv = "open")
      BY <3>2, EndsApart
    <3> QED BY <2>1, <2>2, <2>3, <3>1, <3>3, GuestMoves DEF Book
  <2>4. CASE vm.sock \notin Conn
    <3>1. conn' = conn
      BY <1>14, <2>4 DEF PingDone, ReadReset, Kill
    <3> QED BY <2>1, <2>2, <2>4, <3>1, NothingMoves DEF Book
  <2> QED BY <2>3, <2>4
<1>15. CASE RecvEOF
  <2>. DEFINE u == Up(Taken, <<Hdr("END")>>)
  <2>1. vm'.sock = NoConn /\ conn' = [conn EXCEPT ![vm.sock] = CliClose(u)] /\ vm.sock \in Conn
    BY <1>15 DEF RecvEOF, GuestRecord
  <2>2. UNCHANGED <<snap, pending, fd, client, spc>>
    BY <1>15 DEF RecvEOF, host
  <2>0. old \in ConnState /\ old.down # <<>> /\ Taken = [old EXCEPT !.down = Tail(@)]
    BY <1>15 DEF RecvEOF, Taken, Sock, TypeOK
  <2>. HIDE DEF old
  <2>3. Taken \in ConnState /\ (Taken.srv = old.srv)
    BY <2>0, TakeType DEF ConnState
  <2>4. u \in ConnState /\ (u.srv = "open" <=> Taken.srv = "open")
    BY <2>3, EndsApart, ConnType, OneMsg
  <2>. HIDE DEF u
  <2>5. CliClose(u).cli # "open" /\ (CliClose(u).srv = "open" <=> u.srv = "open")
    BY <2>4, EndsApart
  <2>. USE DEF old
  <2>6. CliClose(u).srv = "open" <=> old.srv = "open"
    BY <2>3, <2>4, <2>5
  <2> QED BY <2>1, <2>2, <2>5, <2>6, GuestMoves DEF Book
<1> QED BY <1>1, <1>2, <1>3, <1>4, <1>5, <1>6, <1>7, <1>8, <1>9, <1>10, <1>11, <1>12,
           <1>13, <1>14, <1>15 DEF GuestStep

\* Steps of serveClient that go on serving.
LEMMA ContinueBook ==
  ASSUME BookInv, client # Stdin, NEW pc \in Serving, NEW r \in ConnState, Continue(pc, r),
         r.cli = "open" <=> conn[Served].cli = "open",
         r.srv = "open" <=> conn[Served].srv = "open",
         r.cli = "open" => NoRES(r) /\ pc # "revert",
         UNCHANGED <<vm, snap, pending>>
  PROVE  Book'
<1>1. Served \in Conn /\ Served' = Served
  BY ServedConn DEF Continue, Served
<1>2. \A c \in Conn : conn'[c] = IF c = Served THEN r ELSE conn[c]
  BY <1>1 DEF Continue, BookInv, TypeOK
<1>3. \A c \in Conn : /\ conn'[c].cli = "open" <=> conn[c].cli = "open"
                      /\ conn'[c].srv = "open" <=> conn[c].srv = "open"
  BY <1>2
<1>4. UNCHANGED <<vm, snap, pending, fd, client>> /\ spc' = pc
  BY DEF Continue
<1>5. Bookkeeping'
  BY <1>1, <1>3, <1>4 DEF BookInv, TypeOK, Bookkeeping
<1>6. \A c \in Conn : conn'[c].cli = "open" =>
        \A i \in DOMAIN conn'[c].up : conn'[c].up[i].kind # "RES"
  BY <1>2 DEF BookInv, Farewell, NoRES
<1>7. Farewell'
  BY <1>1, <1>2, <1>4, <1>6 DEF Farewell
<1>8. Place' /\ SnapSock'
  BY <1>4 DEF BookInv, Place, SnapSock
<1> QED BY <1>5, <1>7, <1>8 DEF Book

\* Steps that end serveClient.
LEMMA FinishBook ==
  ASSUME BookInv, client # Stdin, NEW conns \in [Conn -> ConnState], NEW r \in ConnState,
         Finish(conns, r),
         \A c \in Conn : c # Served =>
           /\ conns[c].srv = "open" <=> conn[c].srv = "open"
           /\ conns[c].cli = "open" <=> vm'.sock = c
           /\ conns[c].cli = "open" => NoRES(conns[c]),
         r.cli = "open" <=> vm'.sock = Served,
         r.cli = "open" => NoRES(r),
         SnapSock',
         UNCHANGED pending
  PROVE  Book'
<1>1. Served \in Conn /\ Served = fd[client] /\ client \in Slot
  BY ServedConn
<1>2. client' = Stdin /\ Served' = NoConn /\ spc' \in {"select", "scan"}
  BY DEF Finish, DoneWith, Served
<1>3. \A c \in Conn : conn'[c] = IF c = Served THEN SrvClose(r) ELSE conns[c]
  BY <1>1 DEF Finish
<1>4. \A s \in Slot : fd'[s] = IF s = client THEN NoConn ELSE fd[s]
  BY <1>1 DEF Finish, BookInv, TypeOK
<1>5. SrvClose(r).srv # "open" /\ (SrvClose(r).cli = "open" <=> r.cli = "open")
  BY EndsApart
<1>6. NoRES(r) => NoRES(SrvClose(r))
  BY DEF SrvClose, Settled, FreeConn, NoRES, ConnState
<1>7. \A c \in Conn : conn'[c].cli = "open" <=> vm'.sock = c
  BY <1>3, <1>5
<1>8. \A c \in Conn : (conn'[c].srv = "open") <=> (conn[c].srv = "open" /\ c # Served)
  BY <1>3, <1>5
<1>9. Bookkeeping'
  <2>1. \A c \in Conn : (conn'[c].srv = "open")
                          <=> (Served' = c \/ \E i \in DOMAIN pending' : pending'[i] = c)
    BY <1>2, <1>8 DEF BookInv, Bookkeeping
  <2>2. \A i \in DOMAIN pending : pending[i] \in Conn
    BY LenProperties, ElementOfSeq DEF BookInv, TypeOK
  <2>3. \A i \in DOMAIN pending' : pending'[i] # Served'
    BY <1>2, <2>2
  <2>4. \A s, t \in Slot : fd'[s] = fd'[t] /\ fd'[s] # NoConn => s = t
    BY <1>4 DEF BookInv, Bookkeeping
  <2>5. \A s \in Slot : fd'[s] # NoConn => conn'[fd'[s]].srv = "open"
    <3>1. \A s \in Slot : fd'[s] # NoConn =>
            fd'[s] = fd[s] /\ fd[s] \in Conn /\ fd[s] # Served /\ conn[fd[s]].srv = "open"
      BY <1>1, <1>4 DEF BookInv, TypeOK, Bookkeeping
    <3> QED BY <3>1, <1>8
  <2> QED BY <2>1, <2>3, <2>4, <2>5, <1>2, <1>7 DEF BookInv, Bookkeeping
<1>10. Farewell'
  <2>1. \A c \in Conn : conn'[c].cli = "open" => NoRES(conn'[c])
    BY <1>3, <1>5, <1>6
  <2> QED BY <2>1, <1>2 DEF Farewell, NoRES
<1>11. Place'
  BY <1>2 DEF Place, Serving
<1> QED BY <1>9, <1>10, <1>11 DEF Book

\* The plain case: nothing else happens while serveClient returns.
LEMMA FinishServed ==
  ASSUME BookInv, client # Stdin, NEW r \in ConnState, Finish(conn, r),
         r.cli = "open" <=> conn[Served].cli = "open",
         r.cli = "open" => NoRES(r),
         UNCHANGED <<vm, snap, pending>>
  PROVE  Book'
<1>1. Served \in Conn /\ conn \in [Conn -> ConnState]
  BY ServedConn DEF BookInv, TypeOK
<1>2. \A c \in Conn : c # Served =>
           /\ conn[c].srv = "open" <=> conn[c].srv = "open"
           /\ conn[c].cli = "open" <=> vm'.sock = c
           /\ conn[c].cli = "open" => NoRES(conn[c])
  BY DEF BookInv, Bookkeeping, Farewell, NoRES
<1>3. r.cli = "open" <=> vm'.sock = Served
  BY <1>1 DEF BookInv, Bookkeeping
<1>4. SnapSock'
  BY DEF BookInv, SnapSock
<1> QED BY <1>1, <1>2, <1>3, <1>4, FinishBook

LEMMA ReadBook ==
  ASSUME BookInv, client # Stdin, NEW pc, NEW m, At(pc, m)
  PROVE  /\ Served \in Conn /\ Read \in ConnState
         /\ (Read.cli = "open" <=> conn[Served].cli = "open")
         /\ (Read.srv = "open" <=> conn[Served].srv = "open")
         /\ (Read.cli = "open" => NoRES(Read))
         /\ (Read.cli = "open" => m.kind # "RES")
<1>. DEFINE old == conn[Served]
<1>1. Served \in Conn /\ old \in ConnState /\ old.up # <<>> /\ m = Head(old.up)
  BY ServedConn DEF At, BookInv, TypeOK
<1>2. Read = [old EXCEPT !.up = Tail(@)]
  BY DEF Read
<1>3. old.cli = "open" => NoRES(old)
  BY <1>1 DEF BookInv, Farewell, NoRES
<1>. HIDE DEF old
<1>4. /\ old.up \in Seq(Msg) /\ Len(old.up) \in Nat \ {0}
      /\ DOMAIN old.up = 1 .. Len(old.up) /\ Head(old.up) = old.up[1]
      /\ Len(Tail(old.up)) = Len(old.up) - 1 /\ Tail(old.up) \in Seq(Msg)
      /\ \A i \in 1 .. Len(Tail(old.up)) : Tail(old.up)[i] = old.up[i + 1]
      /\ DOMAIN Tail(old.up) = 1 .. Len(Tail(old.up))
  <2>1. old.up \in Seq(Msg)
    BY <1>1 DEF ConnState
  <2>2. Tail(old.up) \in Seq(Msg)
    BY <2>1, <1>1, HeadTailProperties
  <2> QED BY <2>1, <2>2, <1>1, HeadTailProperties, LenProperties, EmptySeq
<1>5. /\ Read \in ConnState /\ Read.cli = old.cli /\ Read.srv = old.srv /\ Read.up = Tail(old.up)
  BY <1>1, <1>2, <1>4 DEF ConnState
<1>6. NoRES(old) => NoRES(Read) /\ m.kind # "RES"
  BY <1>1, <1>4, <1>5 DEF NoRES
<1>. USE DEF old
<1> QED BY <1>1, <1>3, <1>5, <1>6

\* Answering opens, closes and asks nothing.
LEMMA DownBook ==
  ASSUME NEW r \in ConnState, NEW ms \in Seq(Msg)
  PROVE  /\ Down(r, ms) \in ConnState
         /\ (Down(r, ms).cli = "open" <=> r.cli = "open")
         /\ (Down(r, ms).srv = "open" <=> r.srv = "open")
         /\ (NoRES(r) => NoRES(Down(r, ms)))
         /\ Down(r, ms).up = r.up
<1>1. Down(r, ms).up = r.up
  BY DEF Down, ConnState
<1> QED BY <1>1, EndsApart, ConnType DEF NoRES

\* serveClient.
LEMMA ServeBook ==
  ASSUME BookInv,
         \/ ServeGET \/ ServeSET \/ ServeCKP \/ ServeRES \/ ServeEOF \/ ServeEND
         \/ ServeName \/ ServeBody \/ SendFile \/ SendFilesEnd
         \/ ReadTimeout \/ Misread \/ AnswerCKY \/ RevertSnapshot
  PROVE  Book'
<1>0. /\ client # Stdin /\ Served \in Conn /\ conn \in [Conn -> ConnState]
      /\ conn[Served] \in ConnState
  <2>1. spc \in Serving
    BY DEF ServeGET, ServeSET, ServeCKP, ServeRES, ServeEOF, ServeEND, ServeName, ServeBody,
           SendFile, SendFilesEnd, ReadTimeout, Misread, AnswerCKY, RevertSnapshot, At, Serving
  <2>2. client # Stdin
    BY <2>1 DEF BookInv, Place
  <2> QED BY <2>2, ServedConn DEF BookInv, TypeOK
<1>k. Hdr("RES").kind = "RES"
  BY HeaderKinds
<1>n. conn[Served].cli = "open" => NoRES(conn[Served])
  BY <1>0 DEF BookInv, Farewell, NoRES
<1>1. CASE ServeGET
  <2>1. At("header", Hdr("GET")) /\ Continue("send", Read) /\ UNCHANGED <<vm, snap, pending>>
    BY <1>1 DEF ServeGET, guest
  <2> QED BY <2>1, <1>0, ReadBook, ContinueBook DEF Serving
<1>2. CASE ServeSET
  <2>1. At("header", Hdr("SET")) /\ Continue("name", Read) /\ UNCHANGED <<vm, snap, pending>>
    BY <1>2 DEF ServeSET, guest
  <2> QED BY <2>1, <1>0, ReadBook, ContinueBook DEF Serving
<1>3. CASE ServeCKP
  <2>1. At("header", Hdr("CKP")) /\ UNCHANGED <<vm, snap, pending>>
    BY <1>3 DEF ServeCKP, guest
  <2>2. CASE ckptReq
    <3>1. Continue("delete", Read)
      BY <1>3, <2>2 DEF ServeCKP
    <3> QED BY <3>1, <2>1, <1>0, ReadBook, ContinueBook DEF Serving
  <2>3. CASE ~ckptReq
    <3>. DEFINE r == Down(Read, <<Hdr("CKN")>>)
    <3>1. Finish(conn, r)
      BY <1>3, <2>3 DEF ServeCKP
    <3>2. r \in ConnState /\ (r.cli = "open" <=> Read.cli = "open") /\ (NoRES(Read) => NoRES(r))
      BY <2>1, <1>0, ReadBook, DownBook, OneMsg
    <3>. HIDE DEF r
    <3>3. (r.cli = "open" <=> conn[Served].cli = "open") /\ (r.cli = "open" => NoRES(r))
      BY <3>2, <2>1, <1>0, ReadBook
    <3> QED BY <3>1, <3>2, <3>3, <2>1, <1>0, FinishServed
  <2> QED BY <2>2, <2>3
<1>4. CASE ServeRES
  <2>1. At("header", Hdr("RES")) /\ UNCHANGED <<vm, snap, pending>>
    BY <1>4 DEF ServeRES, guest
  <2>2. CASE ckpted
    <3>1. Continue("revert", Read)
      BY <1>4, <2>2 DEF ServeRES
    <3> QED BY <3>1, <2>1, <1>k, <1>0, ReadBook, ContinueBook DEF Serving
  <2>3. CASE ~ckpted
    <3>1. Finish(conn, Read)
      BY <1>4, <2>3 DEF ServeRES
    <3> QED BY <3>1, <2>1, <1>0, ReadBook, FinishServed
  <2> QED BY <2>2, <2>3
<1>5. CASE ServeEOF
  <2>. DEFINE r == Down(Read, <<Hdr("END")>>)
  <2>1. At("header", Hdr("EOF")) /\ Finish(conn, r) /\ UNCHANGED <<vm, snap, pending>>
    BY <1>5 DEF ServeEOF, guest
  <2>2. r \in ConnState /\ (r.cli = "open" <=> Read.cli = "open") /\ (NoRES(Read) => NoRES(r))
    BY <2>1, <1>0, ReadBook, DownBook, OneMsg
  <2>. HIDE DEF r
  <2>3. (r.cli = "open" <=> conn[Served].cli = "open") /\ (r.cli = "open" => NoRES(r))
    BY <2>1, <2>2, <1>0, ReadBook
  <2> QED BY <2>1, <2>2, <2>3, <1>0, FinishServed
<1>6. CASE ServeEND
  <2>1. At("header", Hdr("END")) /\ Finish(conn, Read) /\ UNCHANGED <<vm, snap, pending>>
    BY <1>6 DEF ServeEND, guest
  <2> QED BY <2>1, <1>0, ReadBook, FinishServed
<1>7. CASE ServeName
  <2>1. PICK f \in Files : At("name", Name(f))
    BY <1>7 DEF ServeName
  <2>2. Continue("body", Read) /\ UNCHANGED <<vm, snap, pending>>
    BY <1>7 DEF ServeName, guest
  <2> QED BY <2>1, <2>2, <1>0, ReadBook, ContinueBook DEF Serving
<1>8. CASE ServeBody
  <2>1. PICK v \in Content : At("body", Body(v))
    BY <1>8 DEF ServeBody
  <2>2. Continue("header", Read) /\ UNCHANGED <<vm, snap, pending>>
    BY <1>8 DEF ServeBody, guest
  <2> QED BY <2>1, <2>2, <1>0, ReadBook, ContinueBook DEF Serving
<1>. DEFINE old == conn[Served]
<1>9. CASE SendFile
  <2>1. PICK f \in todo :
          Continue("send", Down(old, <<Hdr("SET"), Name(f), Body(sfile[f])>>))
    BY <1>9 DEF SendFile
  <2>. DEFINE ms == <<Hdr("SET"), Name(f), Body(sfile[f])>>
              r  == Down(old, ms)
  <2>2. f \in Files /\ sfile[f] \in Content
    BY DEF BookInv, TypeOK
  <2>3. ms \in Seq(Msg)
    BY <2>2
  <2>4. Continue("send", r) /\ UNCHANGED <<vm, snap, pending>>
    BY <2>1, <1>9 DEF SendFile, guest
  <2>. HIDE DEF ms
  <2>5. /\ r \in ConnState /\ (r.cli = "open" <=> old.cli = "open")
        /\ (r.srv = "open" <=> old.srv = "open") /\ (NoRES(old) => NoRES(r))
    BY <2>3, <1>0, DownBook
  <2>. HIDE DEF r
  <2>6. "send" \in Serving /\ "send" # "revert" /\ (r.cli = "open" => NoRES(r))
    BY <2>5, <1>n DEF Serving
  <2> QED BY <2>4, <2>5, <2>6, <1>0, ContinueBook
<1>10. CASE SendFilesEnd
  <2>. DEFINE r  == Down(old, <<Hdr("EOF")>>)
  <2>1. Continue("header", r) /\ UNCHANGED <<vm, snap, pending>>
    BY <1>10 DEF SendFilesEnd, guest
  <2>2. /\ r \in ConnState /\ (r.cli = "open" <=> old.cli = "open")
        /\ (r.srv = "open" <=> old.srv = "open") /\ (NoRES(old) => NoRES(r))
    BY <1>0, DownBook, OneMsg
  <2>. HIDE DEF r
  <2>3. "header" \in Serving /\ "header" # "revert" /\ (r.cli = "open" => NoRES(r))
    BY <2>2, <1>n DEF Serving
  <2> QED BY <2>1, <2>2, <2>3, <1>0, ContinueBook
<1>11. CASE AnswerCKY
  <2>. DEFINE r  == Down(old, <<Hdr("CKY")>>)
  <2>1. Finish(conn, r) /\ UNCHANGED <<vm, snap, pending>>
    BY <1>11 DEF AnswerCKY, guest
  <2>2. r \in ConnState /\ (r.cli = "open" <=> old.cli = "open") /\ (NoRES(old) => NoRES(r))
    BY <1>0, DownBook, OneMsg
  <2>. HIDE DEF r
  <2> QED BY <2>1, <2>2, <1>n, <1>0, FinishServed
<1>12. CASE RevertSnapshot
  <2>1. PICK ok \in {snap # NoSnap} \cup (IF VirshFails THEN {FALSE} ELSE {}) :
       /\ vm' = IF ok THEN snap ELSE vm
       /\ Finish(IF ok /\ vm.sock \in Conn
                 THEN [conn EXCEPT ![vm.sock] = CliLost(@)]
                 ELSE conn, conn[Served])
    BY <1>12 DEF RevertSnapshot
  <2>2. UNCHANGED <<snap, pending>> /\ conn[Served].cli # "open" /\ vm.sock # Served
    BY <1>12, <1>0 DEF RevertSnapshot, BookInv, Farewell, Bookkeeping
  <2>3. CASE ~ok
    <3>1. Finish(conn, conn[Served]) /\ vm' = vm
      BY <2>1, <2>3
    <3> QED BY <3>1, <2>2, <1>0, FinishServed
  <2>4. CASE ok
    <3>. DEFINE conns == IF vm.sock \in Conn THEN [conn EXCEPT ![vm.sock] = CliLost(@)] ELSE conn
    <3>1. snap # NoSnap /\ vm' = snap /\ vm'.sock \notin Conn
      BY <2>1, <2>4 DEF BookInv, SnapSock
    <3>2. Finish(conns, conn[Served])
      BY <2>1, <2>4
    <3>3. conns \in [Conn -> ConnState]
      BY <1>0, ConnType
    <3>4. \A c \in Conn : conn[c] \in ConnState
      BY <1>0
    <3>5. \A c \in Conn : /\ conns[c].srv = "open" <=> conn[c].srv = "open"
                          /\ conns[c].cli # "open"
      <4>1. \A c \in Conn : c = vm.sock => conns[c] = CliLost(conn[c])
        BY <1>0
      <4>2. \A c \in Conn : c # vm.sock => conns[c] = conn[c] /\ conn[c].cli # "open"
        BY <1>0 DEF BookInv, Bookkeeping
      <4> HIDE DEF conns
      <4> QED BY <4>1, <4>2, <3>4, EndsApart
    <3>6. SnapSock'
      BY <2>2 DEF BookInv, SnapSock
    <3>. HIDE DEF conns
    <3> QED BY <3>1, <3>2, <3>3, <3>5, <3>6, <2>2, <1>0, FinishBook
  <2> QED BY <2>3, <2>4
<1>13. CASE ReadTimeout
  <2>1. Continue("astray", old) /\ UNCHANGED <<vm, snap, pending>>
    BY <1>13 DEF ReadTimeout, guest
  <2>. HIDE DEF old
  <2>2. "astray" \in Serving /\ "astray" # "revert"
    BY DEF Serving
  <2> QED BY <2>1, <2>2, <1>n, <1>0, ContinueBook DEF old
<1>14. CASE Misread
  <2>1. Continue("astray", Read) /\ At("astray", Head(conn[Served].up)) /\ UNCHANGED <<vm, snap, pending>>
    BY <1>14 DEF Misread, At, guest
  <2>2. "astray" \in Serving /\ "astray" # "revert"
    BY DEF Serving
  <2> QED BY <2>1, <2>2, <1>0, ReadBook, ContinueBook
<1> QED BY <1>1, <1>2, <1>3, <1>4, <1>5, <1>6, <1>7, <1>8, <1>9, <1>10, <1>11, <1>12, <1>13, <1>14

\* What is left of a sequence that loses its i-th place.
Without(q, i) == SubSeq(q, 1, i - 1) \o SubSeq(q, i + 1, Len(q))

LEMMA WithoutPlaces ==
  ASSUME NEW S, NEW q \in Seq(S), NEW i \in 1 .. Len(q), NEW p, p = Without(q, i)
  PROVE  /\ DOMAIN q = 1 .. Len(q) /\ Len(q) \in Nat /\ DOMAIN p = 1 .. (Len(q) - 1)
         /\ \A j \in DOMAIN p : p[j] = IF j < i THEN q[j] ELSE q[j + 1]
<1>1. Len(q) \in Nat /\ DOMAIN q = 1 .. Len(q) /\ i \in 1 .. Len(q)
  BY LenProperties
<1>2. \A j \in 1 .. Len(q) : q[j] \in S
  BY ElementOfSeq
<1>. DEFINE a == SubSeq(q, 1, i - 1)
            b == SubSeq(q, i + 1, Len(q))
<1>3. /\ a \in Seq(S) /\ Len(a) = i - 1
      /\ \A j \in 1 .. (i - 1) : a[j] = q[j]
  <2>1. i - 1 \in Int /\ \A j \in 1 .. (i - 1) : q[j] \in S
    BY <1>1, <1>2
  <2>2. /\ a \in Seq(S) /\ Len(a) = (IF 1 <= i - 1 THEN (i - 1) - 1 + 1 ELSE 0)
        /\ \A j \in 1 .. ((i - 1) - 1 + 1) : a[j] = q[1 + j - 1]
    BY <2>1, SubSeqProperties
  <2>. HIDE DEF a
  <2> QED BY <2>2, <1>1
<1>4. /\ b \in Seq(S) /\ Len(b) = Len(q) - i
      /\ \A j \in 1 .. (Len(q) - i) : b[j] = q[i + j]
  <2>1. i + 1 \in Int /\ Len(q) \in Int /\ \A j \in (i + 1) .. Len(q) : q[j] \in S
    BY <1>1, <1>2
  <2>2. /\ b \in Seq(S) /\ Len(b) = (IF i + 1 <= Len(q) THEN Len(q) - (i + 1) + 1 ELSE 0)
        /\ \A j \in 1 .. (Len(q) - (i + 1) + 1) : b[j] = q[(i + 1) + j - 1]
    BY <2>1, SubSeqProperties
  <2>. HIDE DEF b
  <2>3. Len(b) = Len(q) - i
    BY <2>2, <1>1
  <2>4. ASSUME NEW j \in 1 .. (Len(q) - i) PROVE b[j] = q[i + j]
    <3>1. j \in 1 .. (Len(q) - (i + 1) + 1) /\ (i + 1) + j - 1 = i + j
      BY <1>1
    <3> QED BY <3>1, <2>2
  <2> QED BY <2>2, <2>3, <2>4
<1>5. p = a \o b
  BY DEF Without
<1>. HIDE DEF a, b
<1>6. /\ p \in Seq(S) /\ Len(p) = Len(q) - 1
      /\ \A j \in 1 .. (Len(q) - 1) : p[j] = IF j <= i - 1 THEN a[j] ELSE b[j - (i - 1)]
  <2>1. /\ p \in Seq(S) /\ Len(p) = Len(a) + Len(b)
        /\ \A j \in 1 .. (Len(a) + Len(b)) : p[j] = IF j <= Len(a) THEN a[j] ELSE b[j - Len(a)]
    <3>1. a \in Seq(S) /\ b \in Seq(S)
      BY <1>3, <1>4
    <3> QED BY <3>1, <1>5, ConcatProperties, Zenon
  <2>2. Len(a) = i - 1 /\ Len(a) + Len(b) = Len(q) - 1
    BY <1>1, <1>3, <1>4
  <2> QED BY <2>1, <2>2
<1>7. DOMAIN p = 1 .. (Len(q) - 1)
  BY <1>6, LenProperties
<1>8. \A j \in 1 .. (Len(q) - 1) : p[j] = IF j < i THEN q[j] ELSE q[j + 1]
  <2>1. SUFFICES ASSUME NEW j \in 1 .. (Len(q) - 1)
                 PROVE  p[j] = IF j < i THEN q[j] ELSE q[j + 1]
    OBVIOUS
  <2>2. CASE j < i
    BY <2>2, <1>1, <1>3, <1>6
  <2>3. CASE ~(j < i)
    <3>. DEFINE n == Len(q)
    <3>1. i \in Int /\ j \in Int /\ n \in Int /\ i <= j /\ j <= n - 1
      BY <2>3, <1>1
    <3>. HIDE DEF n
    <3>2. j - (i - 1) \in 1 .. (n - i) /\ i + (j - (i - 1)) = j + 1 /\ ~(j <= i - 1)
      BY <3>1
    <3>. USE DEF n
    <3>3. p[j] = b[j - (i - 1)] /\ b[j - (i - 1)] = q[i + (j - (i - 1))]
      BY <3>2, <1>4, <1>6
    <3> QED BY <3>2, <3>3, <2>3
  <2> QED BY <2>2, <2>3
<1> QED BY <1>1, <1>7, <1>8

\* The connection that is served is the only one that stops waiting.
LEMMA ServeStart ==
  ASSUME BookInv, Serve
  PROVE  Book'
<1>1. PICK s \in Slot, i \in DOMAIN pending :
        /\ Turn(s) /\ client' = s /\ pending[i] = fd[s]
        /\ pending' = SubSeq(pending, 1, i - 1) \o SubSeq(pending, i + 1, Len(pending))
  BY DEF Serve
<1>2. spc = "scan" /\ spc' = "header" /\ UNCHANGED <<vm, snap, conn, fd>>
  BY <1>1 DEF Serve, Turn, guest
<1>3. client = Stdin /\ Served = NoConn
  BY <1>2 DEF BookInv, Place, Serving, Served
<1>4. client' # Stdin
  BY <1>1 DEF Slot, Stdin
<1>5. Served' = fd[s]
  BY <1>1, <1>2, <1>4 DEF Served
<1>6. pending \in Seq(Conn) /\ \A j \in DOMAIN pending : pending[j] \in Conn
  BY ElementOfSeq, LenProperties DEF BookInv, TypeOK
<1>7. /\ DOMAIN pending = 1 .. Len(pending) /\ Len(pending) \in Nat
      /\ DOMAIN pending' = 1 .. (Len(pending) - 1)
      /\ \A j \in DOMAIN pending' : pending'[j] = IF j < i THEN pending[j] ELSE pending[j + 1]
  <2>1. pending' = SubSeq(pending, 1, i - 1) \o SubSeq(pending, i + 1, Len(pending))
    BY <1>1
  <2>2. pending' = Without(pending, i) /\ i \in 1 .. Len(pending)
    BY <2>1, <1>6, LenProperties DEF Without
  <2> QED BY <2>2, <1>6, WithoutPlaces
<1>8. \A j \in DOMAIN pending' : \E k \in DOMAIN pending : k # i /\ pending'[j] = pending[k]
  <2>1. \A j \in DOMAIN pending' :
          /\ j \in DOMAIN pending /\ j + 1 \in DOMAIN pending
          /\ (j < i => j # i) /\ (~(j < i) => j + 1 # i)
    BY <1>7
  <2> QED BY <2>1, <1>7
<1>9. \A k \in DOMAIN pending : k # i => \E j \in DOMAIN pending' : pending'[j] = pending[k]
  <2>1. SUFFICES ASSUME NEW k \in DOMAIN pending, k # i
                 PROVE  \E j \in DOMAIN pending' : pending'[j] = pending[k]
    OBVIOUS
  <2>2. CASE k < i
    <3>1. k \in DOMAIN pending' /\ pending'[k] = pending[k]
      BY <2>2, <1>7
    <3> QED BY <3>1
  <2>3. CASE k > i
    <3>1. k - 1 \in DOMAIN pending' /\ ~(k - 1 < i) /\ (k - 1) + 1 = k
      BY <2>3, <1>7
    <3>2. pending'[k - 1] = pending[k]
      BY <3>1, <1>7
    <3> QED BY <3>1, <3>2
  <2> QED BY <2>1, <2>2, <2>3, <1>7
<1>10. \A j, k \in DOMAIN pending : pending[j] = pending[k] => j = k
  BY DEF BookInv, Bookkeeping
<1>11. \A c \in Conn : (conn'[c].srv = "open")
                         <=> (Served' = c \/ \E j \in DOMAIN pending' : pending'[j] = c)
  <2>1. \A c \in Conn : (conn[c].srv = "open") <=> (\E j \in DOMAIN pending : pending[j] = c)
    BY <1>3 DEF BookInv, Bookkeeping
  <2>2. ASSUME NEW c \in Conn
        PROVE  (Served' = c \/ \E j \in DOMAIN pending' : pending'[j] = c)
                 <=> (\E j \in DOMAIN pending : pending[j] = c)
    <3>1. pending[i] = Served'
      BY <1>1, <1>5
    <3> QED BY <3>1, <1>8, <1>9
  <2> QED BY <2>1, <2>2, <1>2
<1>12. \A j, k \in DOMAIN pending' : pending'[j] = pending'[k] => j = k
  <2>1. SUFFICES ASSUME NEW j \in DOMAIN pending', NEW k \in DOMAIN pending',
                        pending'[j] = pending'[k]
                 PROVE  j = k
    OBVIOUS
  <2>. DEFINE J == IF j < i THEN j ELSE j + 1
              K == IF k < i THEN k ELSE k + 1
  <2>2. J \in DOMAIN pending /\ K \in DOMAIN pending
    BY <1>7
  <2>3. pending[J] = pending[K]
    BY <2>1, <1>7
  <2>4. J = K
    BY <2>2, <2>3, <1>10
  <2> QED BY <2>4, <1>7
<1>13. \A j \in DOMAIN pending' : pending'[j] # Served'
  BY <1>1, <1>5, <1>8, <1>10
<1>14. fd'[client'] # NoConn
  BY <1>1, <1>2, <1>6
<1>15. Bookkeeping'
  BY <1>2, <1>11, <1>12, <1>13, <1>14 DEF BookInv, Bookkeeping
<1>16. Place' /\ SnapSock' /\ Farewell'
  BY <1>2, <1>4 DEF BookInv, Place, SnapSock, Farewell, Serving
<1> QED BY <1>15, <1>16 DEF Book

LEMMA LoopBook ==
  ASSUME BookInv,
         \/ Select \/ StdinTurn \/ CinLine \/ CinWord \/ Accept
         \/ DeleteSnapshot \/ CreateSnapshot \/ Restart
  PROVE  Book'
<1>. USE DEF Serving
<1>1. CASE Select \/ StdinTurn \/ CinLine \/ CinWord \/ Restart
  <2>1. UNCHANGED <<vm, conn, snap, pending, fd, client>>
    BY <1>1 DEF Select, StdinTurn, CinLine, CinWord, Restart, guest, host
  <2>2. spc \notin Serving /\ spc' \notin Serving
    BY <1>1 DEF Select, StdinTurn, CinLine, CinWord, Restart, Turn, DoneWith, host
  <2> QED BY <2>1, <2>2, NothingMoves DEF Book
<1>2. CASE Accept
  <2>1. PICK i \in Backlog, s \in Slot :
          /\ fd[s] = NoConn /\ fd' = [fd EXCEPT ![s] = pending[i]]
    BY <1>2 DEF Accept
  <2>2. /\ spc = "scan" /\ spc' \in {"select", "scan"}
        /\ UNCHANGED <<vm, snap, conn, pending, client>>
    BY <1>2 DEF Accept, Turn, DoneWith, guest
  <2>3. client = Stdin /\ Served' = NoConn /\ Served = NoConn
    BY <2>2 DEF BookInv, Place, Served
  <2>4. i \in DOMAIN pending /\ pending[i] \in Conn /\ \A t \in Slot : fd[t] # pending[i]
    BY ElementOfSeq, LenProperties DEF Backlog, Accepted, BookInv, TypeOK
  <2>5. \A t \in Slot : fd'[t] = IF t = s THEN pending[i] ELSE fd[t]
    BY <2>1 DEF BookInv, TypeOK
  <2>6. \A t, u \in Slot : fd'[t] = fd'[u] /\ fd'[t] # NoConn => t = u
    BY <2>4, <2>5 DEF BookInv, Bookkeeping
  <2>7. conn[pending[i]].srv = "open"
    BY <2>4 DEF BookInv, Bookkeeping
  <2>8. \A t \in Slot : fd'[t] # NoConn => conn'[fd'[t]].srv = "open"
    BY <2>2, <2>5, <2>7 DEF BookInv, Bookkeeping
  <2>9. Bookkeeping'
    BY <2>2, <2>3, <2>6, <2>8 DEF BookInv, Bookkeeping
  <2> QED BY <2>2, <2>3, <2>9 DEF BookInv, Book, Place, SnapSock, Farewell
<1>3. CASE DeleteSnapshot \/ CreateSnapshot
  <2>1. UNCHANGED <<vm, conn, pending, fd, client>> /\ Served' = Served
    BY <1>3 DEF DeleteSnapshot, CreateSnapshot, guest, Served
  <2>2. spc \in Serving /\ spc' \in Serving \ {"revert"}
    BY <1>3 DEF DeleteSnapshot, CreateSnapshot
  <2>3. Captured(vm).sock \notin Conn
    BY DEF Captured, BookInv, TypeOK, Guest, GuestRecord
  <2>4. SnapSock'
    BY <1>3, <2>3 DEF DeleteSnapshot, CreateSnapshot, BookInv, SnapSock
  <2>5. Bookkeeping'
    BY <2>1 DEF BookInv, Bookkeeping
  <2> QED BY <2>1, <2>2, <2>4, <2>5 DEF BookInv, Book, Place, Farewell
<1> QED BY <1>1, <1>2, <1>3

\* The end of the server closes all it had.
LEMMA GoneBook ==
  ASSUME BookInv, Gone
  PROVE  Book'
<1>1. /\ UNCHANGED <<vm, snap>> /\ spc' = "down" /\ client' = Stdin /\ Served' = NoConn
      /\ DOMAIN pending' = {} /\ \A s \in Slot : fd'[s] = NoConn
  BY DEF Gone, guest, Served
<1>2. \A c \in Conn :
        /\ conn'[c] \in {conn[c], SrvClose(conn[c]), SrvReset(conn[c])}
        /\ conn[c].srv = "open" => conn'[c] # conn[c] \/ conn'[c] \in {SrvClose(conn[c]), SrvReset(conn[c])}
        /\ conn[c] \in ConnState
  BY DEF Gone, BookInv, TypeOK
<1>3. \A c \in Conn : conn'[c].srv # "open" /\ (conn'[c].cli = "open" <=> conn[c].cli = "open")
  BY <1>2, EndsApart
<1>4. \A c \in Conn : NoRES(conn[c]) => NoRES(conn'[c])
  <2>1. \A r \in ConnState : NoRES(r) => NoRES(SrvClose(r)) /\ NoRES(SrvReset(r))
    BY DEF SrvClose, SrvReset, Settled, FreeConn, NoRES, ConnState
  <2> QED BY <2>1, <1>2
<1>5. Bookkeeping'
  BY <1>1, <1>3 DEF BookInv, Bookkeeping
<1>6. Farewell'
  BY <1>1, <1>3, <1>4 DEF BookInv, Farewell, NoRES
<1>7. Place' /\ SnapSock'
  BY <1>1 DEF BookInv, Place, SnapSock, Serving
<1> QED BY <1>5, <1>6, <1>7 DEF Book

LEMMA BookStep == ASSUME BookInv, [Next]_vars PROVE BookInv'
<1>1. TypeOK'
  BY TypeStep DEF BookInv
<1>2. Book'
  <2>1. CASE UNCHANGED vars
    <3>1. UNCHANGED <<vm, conn, snap, pending, fd, client, spc>>
      BY <2>1 DEF vars, guest, host
    <3> QED BY <3>1, NothingMoves DEF Book
  <2>2. CASE Abort \/ Unsupported \/ Crash
    BY <2>2, GoneBook DEF Abort, Unsupported, Crash
  <2>3. CASE Next /\ ~(Abort \/ Unsupported \/ Crash)
    BY <2>3, GuestBook, ServeBook, ServeStart, LoopBook DEF Next, ServerStep
  <2> QED BY <2>1, <2>2, <2>3
<1> QED BY <1>1, <1>2 DEF BookInv, Book

LEMMA BookInit == Init => BookInv
<1> SUFFICES ASSUME Init PROVE BookInv
  OBVIOUS
<1>1. \A c \in Conn : conn[c].cli = "free" /\ conn[c].srv = "free"
  BY DEF Init, FreeConn
<1>2. vm.sock = NoConn /\ (snap # NoSnap => snap.sock = NoConn)
  BY DEF Init, Fresh
<1>3. Served = NoConn /\ client = Stdin /\ DOMAIN pending = {} /\ spc = "select"
  BY DEF Init, Served
<1>4. \A s \in Slot : fd[s] = NoConn
  BY DEF Init
<1>5. Bookkeeping
  BY <1>1, <1>2, <1>3, <1>4 DEF Bookkeeping
<1>6. Place /\ SnapSock /\ Farewell
  BY <1>1, <1>2, <1>3 DEF Place, SnapSock, Farewell, Serving
<1> QED BY <1>5, <1>6, TypeInit DEF BookInv

LEMMA BookAlways == Spec => []BookInv
<1>1. BookInv /\ [Next]_vars => BookInv'
  BY BookStep
<1> QED BY BookInit, <1>1, PTL DEF Spec

\* No descriptor of the server is shared, leaked or left pointing at a closed
\* connection, and every connection it has not closed is waiting or served: the
\* sockets of start() and serveClient (CPServer.cpp) through every failure.
THEOREM BookkeepingKept == Spec => []Bookkeeping
<1>1. BookInv => Bookkeeping
  BY DEF BookInv
<1> QED BY BookAlways, <1>1, PTL

-------------------------------------------------------------------------------
(* The grammar of the protocol, and the invariant behind InTurn *)

\* What a reader that expects e goes on to expect when it has read a message of
\* kind k, and whether that message is one it expects.
After(k)   == IF k = "SET" THEN "name" ELSE IF k = "name" THEN "body" ELSE "header"
Fits(e, k) == IF e = "header" THEN k \in HeaderKind \ {"CKN", "CKY"} ELSE k = e

\* The messages q are what a reader that expects e can read, and what it expects
\* behind them.
Flow(e, q) ==
  /\ q # <<>> => Fits(e, q[1].kind)
  /\ \A i \in 1 .. (Len(q) - 1) : Fits(After(q[i].kind), q[i + 1].kind)
Expects(e, q) == IF q = <<>> THEN e ELSE After(q[Len(q)].kind)

Only(q, kinds) == \A i \in DOMAIN q : q[i].kind \in kinds
FileKind == {"SET", "name", "body"}

\* Where the server is with connection c, and what a side at p reads next.  One
\* that it reads out of place is lost to the conversation like one it closed.
Pos(c) ==
  IF conn[c].srv # "open" \/ (Served = c /\ spc = "astray") THEN "gone"
  ELSE IF Served = c THEN spc ELSE "header"
ReadsAt(p) == IF p \in {"name", "body"} THEN p ELSE "header"

FlowInv == \A c \in Conn : Pos(c) # "gone" => Flow(ReadsAt(Pos(c)), conn[c].up)

\* What is in flight on the guest's connection r, when the guest is at pc and the
\* server at p.
Talk(pc, r, p) ==
  /\ pc \in {"CKP", "GET", "RES"} =>
       r.down = <<>> /\ (p # "gone" => p = "header" /\ r.up = <<>>)
  /\ pc \in {"ckp", "ping"} =>
       /\ Only(r.down, {"CKN", "CKY"})
       /\ p # "gone" => \/ p = "header" /\ r.up = <<Hdr("CKP")>>
                        \/ p \in {"delete", "create", "cky"} /\ r.up = <<>>
  /\ pc \in {"get", "name", "body"} =>
       /\ Flow(ReadsAt(pc), r.down) /\ Only(r.down, FileKind \cup {"EOF"})
       /\ p # "gone" => \/ p = "header" /\ r.up = <<Hdr("GET")>> /\ r.down = <<>> /\ pc = "get"
                        \/ p = "send" /\ r.up = <<>> /\ Expects(ReadsAt(pc), r.down) = "header"
                        \/ p = "header" /\ r.up = <<>>
  /\ pc \in {"set", "setBody"} =>
       /\ r.down = <<>>
       /\ p # "gone" => /\ p \in {"header", "name", "body"} /\ Only(r.up, FileKind)
                        /\ Expects(ReadsAt(p), r.up) = IF pc = "setBody" THEN "body" ELSE "header"
  /\ pc = "end" =>
       /\ Only(r.down, {"END"})
       /\ p # "gone" => p \in {"header", "name", "body"} /\ Only(r.up, FileKind \cup {"EOF"})

TalkInv == vm.sock \in Conn => Talk(vm.pc, conn[vm.sock], Pos(vm.sock))

FrameInv == BookInv /\ FlowInv /\ TalkInv

\* Reading the first of the messages, and writing more of them.
LEMMA FlowTail ==
  ASSUME NEW q \in Seq(Msg), q # <<>>, NEW e, Flow(e, q)
  PROVE  /\ Fits(e, Head(q).kind) /\ Flow(After(Head(q).kind), Tail(q))
         /\ Expects(After(Head(q).kind), Tail(q)) = Expects(e, q)
<1>. DEFINE t == Tail(q)
<1>1. /\ Len(q) \in Nat \ {0} /\ Head(q) = q[1] /\ t \in Seq(Msg) /\ Len(t) = Len(q) - 1
      /\ \A i \in 1 .. Len(t) : t[i] = q[i + 1]
  BY HeadTailProperties, EmptySeq
<1>. HIDE DEF t
<1>2. t = <<>> <=> Len(q) = 1
  <2>1. t = <<>> => Len(t) = 0
    BY EmptySeq
  <2>2. t # <<>> => Len(t) \in Nat \ {0}
    BY <1>1, EmptySeq
  <2> QED BY <2>1, <2>2, <1>1
<1>3. Fits(e, Head(q).kind)
  BY <1>1 DEF Flow
<1>4. t # <<>> => 1 \in 1 .. (Len(q) - 1) /\ t[1] = q[1 + 1]
  BY <1>1, <1>2
<1>5. \A i \in 1 .. (Len(t) - 1) :
        i + 1 \in 1 .. (Len(q) - 1) /\ t[i] = q[i + 1] /\ t[i + 1] = q[(i + 1) + 1]
  BY <1>1
<1>6. Flow(After(Head(q).kind), t)
  BY <1>1, <1>4, <1>5 DEF Flow
<1>7. t # <<>> => t[Len(t)] = q[Len(q)]
  BY <1>1, <1>2
<1>8. t = <<>> => Head(q) = q[Len(q)]
  BY <1>1, <1>2
<1>9. Expects(After(Head(q).kind), t) = Expects(e, q)
  BY <1>7, <1>8 DEF Expects
<1>. USE DEF t
<1> QED BY <1>3, <1>6, <1>9

LEMMA FlowConcat ==
  ASSUME NEW q \in Seq(Msg), NEW ms \in Seq(Msg), NEW e, Flow(e, q), Flow(Expects(e, q), ms)
  PROVE  Flow(e, q \o ms) /\ Expects(e, q \o ms) = Expects(Expects(e, q), ms)
<1>. DEFINE s == q \o ms
            n == Len(q)
            m == Len(ms)
<1>1. n \in Nat /\ m \in Nat /\ (q = <<>> <=> n = 0) /\ (ms = <<>> <=> m = 0)
  BY LenProperties, EmptySeq
<1>2. /\ s \in Seq(Msg) /\ Len(s) = n + m
      /\ \A i \in 1 .. (n + m) : s[i] = IF i <= n THEN q[i] ELSE ms[i - n]
  BY ConcatProperties
<1>3. s = <<>> <=> n + m = 0
  BY <1>1, <1>2, EmptySeq
<1>4. /\ q # <<>> => Fits(e, q[1].kind)
      /\ \A i \in 1 .. (n - 1) : Fits(After(q[i].kind), q[i + 1].kind)
      /\ ms # <<>> => Fits(Expects(e, q), ms[1].kind)
      /\ \A i \in 1 .. (m - 1) : Fits(After(ms[i].kind), ms[i + 1].kind)
  BY DEF Flow
<1>5. Expects(e, q) = IF n = 0 THEN e ELSE After(q[n].kind)
  BY <1>1 DEF Expects
<1>. HIDE DEF s, n, m
<1>6. s # <<>> => Fits(e, s[1].kind)
  <2>1. CASE n = 0
    BY <2>1, <1>1, <1>2, <1>3, <1>4, <1>5
  <2>2. CASE n # 0
    BY <2>2, <1>1, <1>2, <1>4
  <2> QED BY <2>1, <2>2
<1>7. ASSUME NEW i \in 1 .. (Len(s) - 1) PROVE Fits(After(s[i].kind), s[i + 1].kind)
  <2>1. CASE i < n
    <3>1. s[i] = q[i] /\ s[i + 1] = q[i + 1] /\ i \in 1 .. (n - 1)
      BY <2>1, <1>1, <1>2
    <3> QED BY <3>1, <1>4
  <2>2. CASE i = n
    <3>0. /\ i \in 1 .. (n + m) /\ i + 1 \in 1 .. (n + m) /\ i <= n /\ ~(i + 1 <= n)
          /\ (i + 1) - n = 1 /\ n # 0 /\ m # 0
      BY <2>2, <1>1, <1>2
    <3>1. s[i] = q[n] /\ s[i + 1] = ms[1] /\ n # 0 /\ m # 0
      BY <3>0, <2>2, <1>2
    <3> QED BY <3>1, <1>1, <1>4, <1>5
  <2>3. CASE i > n
    <3>1. /\ i \in 1 .. (n + m) /\ i + 1 \in 1 .. (n + m) /\ ~(i <= n) /\ ~(i + 1 <= n)
          /\ i - n \in 1 .. (m - 1) /\ (i + 1) - n = (i - n) + 1
      BY <2>3, <1>1, <1>2
    <3>2. s[i] = ms[i - n] /\ s[i + 1] = ms[(i - n) + 1]
      BY <3>1, <1>2
    <3> QED BY <3>1, <3>2, <1>4
  <2> QED BY <2>1, <2>2, <2>3, <1>1
<1>8. Flow(e, s)
  BY <1>6, <1>7 DEF Flow
<1>9. Expects(e, s) = IF m = 0 THEN Expects(e, q) ELSE After(ms[m].kind)
  <2>1. CASE m = 0
    <3>1. (s = <<>> <=> n = 0) /\ (n # 0 => s[Len(s)] = q[n])
      BY <2>1, <1>1, <1>2, <1>3
    <3> QED BY <3>1, <2>1, <1>5 DEF Expects
  <2>2. CASE m # 0
    <3>1. s # <<>> /\ n + m \in 1 .. (n + m) /\ ~(n + m <= n) /\ (n + m) - n = m
      BY <2>2, <1>1, <1>3
    <3>2. s[Len(s)] = ms[m]
      BY <3>1, <1>2
    <3> QED BY <3>1, <3>2, <2>2 DEF Expects
  <2> QED BY <2>1, <2>2
<1>10. Expects(Expects(e, q), ms) = IF m = 0 THEN Expects(e, q) ELSE After(ms[m].kind)
  BY <1>1 DEF Expects, m
<1>. USE DEF s
<1> QED BY <1>8, <1>9, <1>10

LEMMA OnlyTail ==
  ASSUME NEW q \in Seq(Msg), q # <<>>, NEW K, Only(q, K)
  PROVE  Head(q).kind \in K /\ Only(Tail(q), K)
<1>1. /\ Len(q) \in Nat \ {0} /\ DOMAIN q = 1 .. Len(q) /\ Head(q) = q[1]
      /\ Tail(q) \in Seq(Msg) /\ Len(Tail(q)) = Len(q) - 1
      /\ \A i \in 1 .. Len(Tail(q)) : Tail(q)[i] = q[i + 1]
  BY HeadTailProperties, EmptySeq, LenProperties
<1>2. DOMAIN Tail(q) = 1 .. Len(Tail(q))
  BY <1>1, LenProperties
<1> QED BY <1>1, <1>2 DEF Only

LEMMA OnlyConcat ==
  ASSUME NEW q \in Seq(Msg), NEW ms \in Seq(Msg), NEW K, Only(q, K), Only(ms, K)
  PROVE  Only(q \o ms, K)
  BY ConcatProperties, LenProperties DEF Only

LEMMA Nothing ==
  /\ \A e : Flow(e, <<>>) /\ Expects(e, <<>>) = e
  /\ \A K : Only(<<>>, K)
  BY DEF Flow, Expects, Only

\* What the two sides write at a time.
LEMMA Words ==
  /\ \A h \in HeaderKind \ {"CKN", "CKY"} :
       Flow("header", <<Hdr(h)>>) /\ Expects("header", <<Hdr(h)>>) = After(h)
  /\ \A h \in HeaderKind : Only(<<Hdr(h)>>, {h})
  /\ \A f \in Files :
       /\ Flow("header", <<Hdr("SET"), Name(f)>>)
       /\ Expects("header", <<Hdr("SET"), Name(f)>>) = "body"
       /\ Only(<<Hdr("SET"), Name(f)>>, FileKind)
  /\ \A v \in Content :
       /\ Flow("body", <<Body(v)>>) /\ Expects("body", <<Body(v)>>) = "header"
       /\ Only(<<Body(v)>>, FileKind)
  /\ \A f \in Files, v \in Content :
       /\ Flow("header", <<Hdr("SET"), Name(f), Body(v)>>)
       /\ Expects("header", <<Hdr("SET"), Name(f), Body(v)>>) = "header"
       /\ Only(<<Hdr("SET"), Name(f), Body(v)>>, FileKind)
<1>. USE HeaderKinds
<1>1. ASSUME NEW h \in HeaderKind \ {"CKN", "CKY"}
      PROVE  Flow("header", <<Hdr(h)>>) /\ Expects("header", <<Hdr(h)>>) = After(h)
  BY DEF Flow, Expects, Fits
<1>2. ASSUME NEW h \in HeaderKind PROVE Only(<<Hdr(h)>>, {h})
  BY DEF Only
<1>3. ASSUME NEW f \in Files
      PROVE  /\ Flow("header", <<Hdr("SET"), Name(f)>>)
             /\ Expects("header", <<Hdr("SET"), Name(f)>>) = "body"
             /\ Only(<<Hdr("SET"), Name(f)>>, FileKind)
  BY DEF Flow, Expects, Fits, After, Only, FileKind
<1>4. ASSUME NEW v \in Content
      PROVE  /\ Flow("body", <<Body(v)>>) /\ Expects("body", <<Body(v)>>) = "header"
             /\ Only(<<Body(v)>>, FileKind)
  BY DEF Flow, Expects, Fits, After, Only, FileKind
<1>5. ASSUME NEW f \in Files, NEW v \in Content
      PROVE  /\ Flow("header", <<Hdr("SET"), Name(f), Body(v)>>)
             /\ Expects("header", <<Hdr("SET"), Name(f), Body(v)>>) = "header"
             /\ Only(<<Hdr("SET"), Name(f), Body(v)>>, FileKind)
  BY DEF Flow, Expects, Fits, After, Only, FileKind
<1> QED BY <1>1, <1>2, <1>3, <1>4, <1>5

\* What a guest may do to the conversation it is in.
LEMMA GuestTalks ==
  ASSUME FrameInv, vm.sock \in Conn, NEW r, NEW p, p = Pos(vm.sock),
         conn' = [conn EXCEPT ![vm.sock] = r],
         r.srv = "open" <=> conn[vm.sock].srv = "open",
         UNCHANGED <<fd, spc, client>>,
         p # "gone" => Flow(ReadsAt(p), r.up),
         vm'.sock \in {vm.sock, NoConn},
         vm'.sock = vm.sock => Talk(vm'.pc, r, p)
  PROVE  FlowInv' /\ TalkInv'
<1>1. \A c \in Conn : conn'[c] = IF c = vm.sock THEN r ELSE conn[c]
  BY DEF FrameInv, BookInv, TypeOK
<1>2. Served' = Served
  BY DEF Served
<1>3. \A c \in Conn : Pos(c)' = Pos(c)
  BY <1>1, <1>2 DEF Pos
<1>4. FlowInv'
  BY <1>1, <1>3 DEF FrameInv, FlowInv
<1>5. TalkInv'
  BY <1>1, <1>3 DEF TalkInv
<1> QED BY <1>4, <1>5

\* Steps that write and read nothing, and leave the server where it was.
LEMMA NothingSaid ==
  ASSUME FrameInv, UNCHANGED <<conn, fd, client>>,
         vm'.sock \in Conn => vm'.sock = vm.sock /\ Talk(vm'.pc, conn[vm.sock], Pos(vm.sock)),
         spc' = spc \/ client = Stdin
  PROVE  FlowInv' /\ TalkInv'
<1>1. Served' = Served
  BY DEF Served
<1>2. \A c \in Conn : Pos(c)' = Pos(c)
  BY <1>1 DEF Pos, Served
<1> QED BY <1>2 DEF FrameInv, FlowInv, TalkInv

LEMMA ConnectTalks ==
  ASSUME FrameInv, vm.sock \notin Conn, NEW pc \in {"CKP", "set", "GET", "RES"}, NEW files,
         Connect(pc, files)
  PROVE  FlowInv' /\ TalkInv'
<1>1. PICK c \in Conn :
        /\ conn[c] = FreeConn
        /\ conn' = [conn EXCEPT ![c] = NewConn]
        /\ vm' = [vm EXCEPT !.pc = pc, !.sock = c, !.watch = TRUE, !.todo = files]
  BY DEF Connect
<1>2. UNCHANGED <<fd, spc, client>> /\ Served' = Served
  BY DEF Connect, host, Served
<1>3. vm'.sock = c /\ vm'.pc = pc
  BY <1>1 DEF FrameInv, BookInv, TypeOK, Guest, GuestRecord
<1>4. /\ conn'[c].srv = "open" /\ conn'[c].up = <<>> /\ conn'[c].down = <<>>
      /\ conn[c].srv # "open"
      /\ \A d \in Conn : d # c => conn'[d] = conn[d]
  BY <1>1 DEF FrameInv, BookInv, TypeOK, NewConn, FreeConn
<1>5. Served # c
  <2>1. client # Stdin => conn[Served].srv = "open"
    BY ServedConn DEF FrameInv, BookInv, TypeOK, Bookkeeping
  <2> QED BY <2>1, <1>4 DEF Served
<1>6. Pos(c)' = "header" /\ \A d \in Conn : d # c => Pos(d)' = Pos(d)
  BY <1>2, <1>4, <1>5 DEF Pos
<1>7. FlowInv'
  BY <1>4, <1>6, Nothing DEF FrameInv, FlowInv, ReadsAt
<1>8. Talk(pc, conn'[c], "header")
  BY <1>4, Nothing DEF Talk, ReadsAt
<1>9. TalkInv'
  BY <1>3, <1>6, <1>8 DEF TalkInv
<1> QED BY <1>7, <1>9

\* Whoever is listened to is connected.
LEMMA Attended ==
  ASSUME FrameInv, NEW c \in Conn
  PROVE  Pos(c) # "gone" => conn[c].srv = "open"
<1>1. client # Stdin => Served \in Conn /\ conn[Served].srv = "open"
  BY ServedConn DEF FrameInv, BookInv, TypeOK, Bookkeeping
<1> QED BY <1>1 DEF Pos, Served

LEMMA SendTalks ==
  ASSUME FrameInv, vm.sock \in Conn \cup {Stale}, NEW ms \in Seq(Msg), NEW g \in Guest, Send(ms, g),
         g.sock \in {vm.sock, NoConn},
         vm.sock \in Conn /\ Pos(vm.sock) # "gone" =>
           Flow(ReadsAt(Pos(vm.sock)), conn[vm.sock].up \o ms),
         vm.sock \in Conn /\ g.sock = vm.sock =>
           Talk(g.pc, Up(conn[vm.sock], ms), Pos(vm.sock))
  PROVE  FlowInv' /\ TalkInv'
<1>1. Halted(vm).sock = NoConn
  BY DEF Halted, FrameInv, BookInv, TypeOK, Guest, GuestRecord
<1>2. UNCHANGED <<fd, spc, client>>
  BY DEF Send, host
<1>3. CASE vm.sock = Stale
  <2>1. vm'.sock = NoConn /\ conn' = conn
    BY <1>1, <1>3 DEF Send
  <2> QED BY <2>1, <1>2, NothingSaid
<1>. DEFINE old == conn[vm.sock]
            u   == Up(old, ms)
            p   == Pos(vm.sock)
<1>4. CASE vm.sock \in Conn
  <2>1. old \in ConnState
    BY <1>4 DEF FrameInv, BookInv, TypeOK
  <2>2. p # "gone" => old.srv = "open"
    BY <1>4, Attended
  <2>3. CASE Sock.srv = "rst"
    <3>1. vm'.sock = NoConn /\ conn' = [conn EXCEPT ![vm.sock] = CliClose(old)]
      BY <1>1, <1>4, <2>3 DEF Send
    <3>2. old.srv # "open" /\ p = "gone"
      BY <2>2, <2>3 DEF Sock
    <3>3. CliClose(old).srv = "open" <=> old.srv = "open"
      BY <2>1, EndsApart
    <3> HIDE DEF old, p
    <3>4. p = Pos(vm.sock) /\ (CliClose(old).srv = "open" <=> conn[vm.sock].srv = "open")
      BY <3>3 DEF p, old
    <3> QED BY <3>1, <3>2, <3>4, <1>2, <1>4, GuestTalks
  <2>4. CASE Sock.srv # "rst"
    <3>1. u \in ConnState /\ (u.srv = "open" <=> old.srv = "open")
      BY <2>1, EndsApart, ConnType
    <3>2. old.srv = "open" => u.up = old.up \o ms
      BY <2>1 DEF Up, ConnState
    <3>3. CASE g.sock = NoConn
      <4>1. vm'.sock = NoConn /\ conn' = [conn EXCEPT ![vm.sock] = CliClose(u)]
        BY <1>4, <2>4, <3>3 DEF Send
      <4> HIDE DEF u
      <4>2. /\ CliClose(u).srv = "open" <=> old.srv = "open"
            /\ u.srv = "open" => CliClose(u).up = u.up
        BY <3>1, EndsApart DEF CliClose, Settled, ConnState
      <4>3. p # "gone" => Flow(ReadsAt(p), CliClose(u).up)
        BY <4>2, <3>1, <3>2, <2>2, <1>4
      <4> QED BY <4>1, <4>2, <4>3, <1>2, <1>4, GuestTalks
    <3>4. CASE g.sock # NoConn
      <4>1. vm'.sock = vm.sock /\ vm'.pc = g.pc /\ conn' = [conn EXCEPT ![vm.sock] = u]
        BY <1>4, <2>4, <3>4 DEF Send
      <4>2. p # "gone" => Flow(ReadsAt(p), u.up)
        BY <3>2, <2>2, <1>4
      <4>3. Talk(vm'.pc, u, p)
        BY <4>1, <1>4, <3>4
      <4> HIDE DEF u
      <4> QED BY <4>1, <4>2, <4>3, <3>1, <1>2, <1>4, GuestTalks
    <3> QED BY <3>3, <3>4
  <2> QED BY <2>3, <2>4
<1> QED BY <1>3, <1>4

LEMMA ReceiveTalks ==
  ASSUME FrameInv, NEW m, NEW g \in Guest, Receive(m, g), g.sock \in {vm.sock, NoConn},
         g.sock = vm.sock => Talk(g.pc, Taken, Pos(vm.sock))
  PROVE  FlowInv' /\ TalkInv'
<1>. DEFINE old == conn[vm.sock]
            p   == Pos(vm.sock)
<1>1. vm.sock \in Conn /\ old.down # <<>> /\ old \in ConnState /\ Taken = [old EXCEPT !.down = Tail(@)]
  BY DEF Receive, Sock, Taken, FrameInv, BookInv, TypeOK
<1>2. p # "gone" => Flow(ReadsAt(p), old.up)
  BY <1>1 DEF FrameInv, FlowInv
<1>3. p # "gone" => old.srv = "open"
  BY <1>1, Attended
<1>4. UNCHANGED <<fd, spc, client>> /\ vm' = g
  BY DEF Receive, host
<1>. HIDE DEF old, p
<1>5. Taken \in ConnState /\ Taken.up = old.up /\ Taken.srv = old.srv
  BY <1>1, TakeType DEF ConnState
<1>6. /\ CliClose(Taken).srv = "open" <=> Taken.srv = "open"
      /\ Taken.srv = "open" => CliClose(Taken).up = Taken.up
  BY <1>5, EndsApart DEF CliClose, Settled, ConnState
<1>. USE DEF old, p
<1>7. CASE g.sock = NoConn
  <2>1. conn' = [conn EXCEPT ![vm.sock] = CliClose(Taken)]
    BY <1>7 DEF Receive
  <2> QED BY <2>1, <1>1, <1>2, <1>3, <1>4, <1>5, <1>6, <1>7, GuestTalks
<1>8. CASE g.sock = vm.sock
  <2>1. conn' = [conn EXCEPT ![vm.sock] = Taken]
    BY <1>1, <1>8 DEF Receive
  <2> QED BY <2>1, <1>1, <1>2, <1>4, <1>5, <1>8, GuestTalks
<1> QED BY <1>7, <1>8

LEMMA Speaking ==
  ASSUME FrameInv, vm.sock \in Conn
  PROVE  /\ conn[vm.sock] \in ConnState
         /\ Talk(vm.pc, conn[vm.sock], Pos(vm.sock))
         /\ Pos(vm.sock) # "gone" => conn[vm.sock].srv = "open"
         /\ Pos(vm.sock) # "gone" => Flow(ReadsAt(Pos(vm.sock)), conn[vm.sock].up)
  BY Attended DEF FrameInv, TalkInv, FlowInv, BookInv, TypeOK

LEMMA UpWords ==
  ASSUME NEW r \in ConnState, NEW ms \in Seq(Msg)
  PROVE  /\ Up(r, ms).down = r.down
         /\ r.srv = "open" => Up(r, ms).up = r.up \o ms
         /\ r.srv = "open" /\ r.up = <<>> => Up(r, ms).up = ms
  BY ConcatEmptySeq DEF Up, ConnState

LEMMA SendHeaderTalks ==
  ASSUME FrameInv, SendCKP \/ SendGET \/ SendRES
  PROVE  FlowInv' /\ TalkInv'
<1>. /\ vm \in Guest /\ vm \in GuestRecord
     /\ vm.sock \in Conn \cup {Stale} <=> vm.pc \notin {"run", "toGET", "toRES", "dead"}
  BY DEF FrameInv, BookInv, TypeOK, Guest, GuestRecord
<1>. DEFINE old == conn[vm.sock]
            p   == Pos(vm.sock)
<1>0. ASSUME vm.sock \in Conn
      PROVE  /\ old \in ConnState /\ (p # "gone" => old.srv = "open") /\ old.down = <<>>
             /\ p # "gone" => p = "header" /\ old.up = <<>>
  <2>1. vm.pc \in {"CKP", "GET", "RES"}
    BY DEF SendCKP, SendGET, SendRES
  <2>2. Talk(vm.pc, old, p)
    BY <1>0, Speaking
  <2> QED BY <1>0, <2>1, <2>2, Speaking DEF Talk
<1>1. ASSUME NEW h \in HeaderKind \ {"CKN", "CKY"}
      PROVE  /\ <<Hdr(h)>> \in Seq(Msg)
             /\ vm.sock \in Conn /\ p # "gone" => Flow(ReadsAt(p), old.up \o <<Hdr(h)>>)
             /\ vm.sock \in Conn => Up(old, <<Hdr(h)>>).down = <<>>
             /\ vm.sock \in Conn /\ p # "gone" => Up(old, <<Hdr(h)>>).up = <<Hdr(h)>>
  <2>1. <<Hdr(h)>> \in Seq(Msg)
    BY OneMsg
  <2>2. ASSUME vm.sock \in Conn
        PROVE  /\ Up(old, <<Hdr(h)>>).down = <<>>
               /\ p # "gone" => Up(old, <<Hdr(h)>>).up = <<Hdr(h)>>
    <3> HIDE DEF old, p
    <3> QED BY <1>0, <2>1, <2>2, UpWords
  <2>3. ASSUME vm.sock \in Conn, p # "gone"
        PROVE  Flow(ReadsAt(p), old.up \o <<Hdr(h)>>)
    <3>1. old.up \o <<Hdr(h)>> = <<Hdr(h)>> /\ ReadsAt(p) = "header"
      BY <1>0, <2>1, <2>3, ConcatEmptySeq DEF ReadsAt
    <3> QED BY <3>1, Words
  <2> QED BY <2>1, <2>2, <2>3
<1>2. CASE SendCKP
  <2>. DEFINE g == [vm EXCEPT !.pc = "ckp"]
              u == Up(old, <<Hdr("CKP")>>)
  <2>1. g \in Guest /\ g.sock = vm.sock /\ g.pc = "ckp" /\ Send(<<Hdr("CKP")>>, g)
    BY <1>2 DEF SendCKP, Guest, GuestRecord, GuestPC
  <2>2. vm.sock \in Conn => u.down = <<>> /\ (p # "gone" => p = "header" /\ u.up = <<Hdr("CKP")>>)
    BY <1>0, <1>1
  <2>3. vm.sock \in Conn => Talk("ckp", u, p)
    <3> HIDE DEF u, p
    <3> QED BY <2>2, Nothing DEF Talk
  <2>. HIDE DEF g
  <2> QED BY <2>1, <2>3, <1>1, <1>2, SendTalks DEF SendCKP
<1>3. CASE SendGET
  <2>. DEFINE g == [vm EXCEPT !.pc = "get"]
              u == Up(old, <<Hdr("GET")>>)
  <2>1. g \in Guest /\ g.sock = vm.sock /\ g.pc = "get" /\ Send(<<Hdr("GET")>>, g)
    BY <1>3 DEF SendGET, Guest, GuestRecord, GuestPC
  <2>2. vm.sock \in Conn => u.down = <<>> /\ (p # "gone" => p = "header" /\ u.up = <<Hdr("GET")>>)
    BY <1>0, <1>1
  <2>3. vm.sock \in Conn => Talk("get", u, p)
    <3> HIDE DEF u, p
    <3> QED BY <2>2, Nothing DEF Talk
  <2>. HIDE DEF g
  <2> QED BY <2>1, <2>3, <1>1, <1>3, SendTalks DEF SendGET
<1>4. CASE SendRES
  <2>. DEFINE g == [vm EXCEPT !.pc = "run", !.sock = NoConn]
  <2>1. g \in Guest /\ g.sock = NoConn /\ Send(<<Hdr("RES")>>, g)
    BY <1>4 DEF SendRES, Guest, GuestRecord, GuestPC
  <2>. HIDE DEF g
  <2> QED BY <2>1, <1>1, <1>4, SendTalks DEF SendRES
<1> QED BY <1>2, <1>3, <1>4

LEMMA SendFileTalks ==
  ASSUME FrameInv, SendName \/ SendBody \/ SendEOF
  PROVE  FlowInv' /\ TalkInv'
<1>. /\ vm \in Guest /\ vm \in GuestRecord
     /\ vm.sock \in Conn \cup {Stale} <=> vm.pc \notin {"run", "toGET", "toRES", "dead"}
  BY DEF FrameInv, BookInv, TypeOK, Guest, GuestRecord
<1>. DEFINE old == conn[vm.sock]
            p   == Pos(vm.sock)
<1>0. ASSUME vm.sock \in Conn
      PROVE  /\ old \in ConnState /\ (p # "gone" => old.srv = "open") /\ old.down = <<>>
             /\ p # "gone" =>
                  /\ p \in {"header", "name", "body"} /\ Only(old.up, FileKind)
                  /\ Flow(ReadsAt(p), old.up)
                  /\ Expects(ReadsAt(p), old.up) = IF vm.pc = "setBody" THEN "body" ELSE "header"
  <2>1. vm.pc \in {"set", "setBody"}
    BY DEF SendName, SendBody, SendEOF
  <2>2. Talk(vm.pc, old, p)
    BY <1>0, Speaking
  <2> QED BY <1>0, <2>1, <2>2, Speaking DEF Talk
<1>1. ASSUME NEW ms \in Seq(Msg), Flow(IF vm.pc = "setBody" THEN "body" ELSE "header", ms)
      PROVE  /\ vm.sock \in Conn /\ p # "gone" =>
                  /\ Flow(ReadsAt(p), old.up \o ms)
                  /\ Expects(ReadsAt(p), old.up \o ms)
                       = Expects(IF vm.pc = "setBody" THEN "body" ELSE "header", ms)
             /\ vm.sock \in Conn => Up(old, ms).down = <<>>
             /\ vm.sock \in Conn /\ p # "gone" => Up(old, ms).up = old.up \o ms
  <2>1. ASSUME vm.sock \in Conn, p # "gone"
        PROVE  /\ Flow(ReadsAt(p), old.up \o ms)
               /\ Expects(ReadsAt(p), old.up \o ms)
                    = Expects(IF vm.pc = "setBody" THEN "body" ELSE "header", ms)
    <3>1. old.up \in Seq(Msg)
      BY <1>0, <2>1 DEF ConnState
    <3> QED BY <3>1, <1>0, <1>1, <2>1, FlowConcat
  <2> QED BY <2>1, <1>0, UpWords
<1>2. CASE SendName
  <2>1. PICK f \in vm.todo :
          Send(<<Hdr("SET"), Name(f)>>,
               [vm EXCEPT !.pc = "setBody", !.cur = f, !.todo = @ \ {f}])
    BY <1>2 DEF SendName
  <2>. DEFINE g == [vm EXCEPT !.pc = "setBody", !.cur = f, !.todo = @ \ {f}]
              ms == <<Hdr("SET"), Name(f)>>
              u == Up(old, ms)
  <2>2. f \in Files /\ vm.pc = "set"
    BY <1>2 DEF GuestRecord, SendName
  <2>3. g \in Guest /\ g.sock = vm.sock /\ g.pc = "setBody"
    BY <1>2, <2>2 DEF SendName, Guest, GuestRecord, GuestPC
  <2>4. /\ ms \in Seq(Msg) /\ Flow("header", ms) /\ Expects("header", ms) = "body"
        /\ Only(ms, FileKind)
    BY <2>2, Words
  <2>5. Send(ms, g)
    BY <2>1
  <2>. HIDE DEF g, ms
  <2>6. ASSUME vm.sock \in Conn PROVE Talk("setBody", u, p)
    <3>1. p # "gone" => Only(old.up \o ms, FileKind)
      BY <2>4, <2>6, <1>0, OnlyConcat DEF ConnState
    <3>2. /\ u.down = <<>>
          /\ p # "gone" => /\ p \in {"header", "name", "body"} /\ Only(u.up, FileKind)
                           /\ Expects(ReadsAt(p), u.up) = "body"
      BY <3>1, <2>2, <2>4, <2>6, <1>0, <1>1
    <3> HIDE DEF u, p
    <3> QED BY <3>2 DEF Talk
  <2>7. vm.sock \in Conn /\ p # "gone" => Flow(ReadsAt(p), old.up \o ms)
    BY <2>2, <2>4, <1>1
  <2>8. vm.sock \in Conn \cup {Stale}
    BY <2>2
  <2> QED BY <2>3, <2>4, <2>5, <2>6, <2>7, <2>8, SendTalks
<1>3. CASE SendBody
  <2>. DEFINE g == [vm EXCEPT !.pc = "set", !.cur = NoFile]
              ms == <<Body(vm.file[vm.cur])>>
              u == Up(old, ms)
  <2>1. vm.cur \in Files /\ vm.pc = "setBody"
    BY <1>3 DEF SendBody, Guest, GuestRecord
  <2>2. vm.file[vm.cur] \in Content
    BY <2>1 DEF GuestRecord
  <2>3. g \in Guest /\ g.sock = vm.sock /\ g.pc = "set" /\ Send(ms, g)
    BY <1>3 DEF SendBody, Guest, GuestRecord, GuestPC
  <2>4. /\ ms \in Seq(Msg) /\ Flow("body", ms) /\ Expects("body", ms) = "header"
        /\ Only(ms, FileKind)
    BY <2>2, Words, OneMsg
  <2>. HIDE DEF g, ms
  <2>6. ASSUME vm.sock \in Conn PROVE Talk("set", u, p)
    <3>1. p # "gone" => Only(old.up \o ms, FileKind)
      BY <2>4, <2>6, <1>0, OnlyConcat DEF ConnState
    <3>2. /\ u.down = <<>>
          /\ p # "gone" => /\ p \in {"header", "name", "body"} /\ Only(u.up, FileKind)
                           /\ Expects(ReadsAt(p), u.up) = "header"
      BY <3>1, <2>1, <2>4, <2>6, <1>0, <1>1
    <3> HIDE DEF u, p
    <3> QED BY <3>2 DEF Talk
  <2>7. vm.sock \in Conn /\ p # "gone" => Flow(ReadsAt(p), old.up \o ms)
    BY <2>1, <2>4, <1>1
  <2>8. vm.sock \in Conn \cup {Stale}
    BY <2>1
  <2> QED BY <2>3, <2>4, <2>6, <2>7, <2>8, SendTalks
<1>4. CASE SendEOF
  <2>. DEFINE g == [vm EXCEPT !.pc = "end"]
              ms == <<Hdr("EOF")>>
              u == Up(old, ms)
  <2>1. vm.pc = "set"
    BY <1>4 DEF SendEOF
  <2>3. g \in Guest /\ g.sock = vm.sock /\ g.pc = "end" /\ Send(ms, g)
    BY <1>4 DEF SendEOF, Guest, GuestRecord, GuestPC
  <2>4. ms \in Seq(Msg) /\ Flow("header", ms) /\ Only(ms, {"EOF"})
    BY Words, OneMsg
  <2>. HIDE DEF g, ms
  <2>6. ASSUME vm.sock \in Conn PROVE Talk("end", u, p)
    <3>0. Only(ms, FileKind \cup {"EOF"}) /\ (p # "gone" => Only(old.up, FileKind \cup {"EOF"}))
      BY <2>4, <2>6, <1>0 DEF Only
    <3>1. p # "gone" => Only(old.up \o ms, FileKind \cup {"EOF"})
      BY <3>0, <2>4, <2>6, <1>0, OnlyConcat DEF ConnState
    <3>2. /\ u.down = <<>>
          /\ p # "gone" => p \in {"header", "name", "body"} /\ Only(u.up, FileKind \cup {"EOF"})
      BY <3>1, <2>1, <2>4, <2>6, <1>0, <1>1
    <3> HIDE DEF u, p
    <3> QED BY <3>2, Nothing DEF Talk
  <2>7. vm.sock \in Conn /\ p # "gone" => Flow(ReadsAt(p), old.up \o ms)
    BY <2>1, <2>4, <1>1
  <2>8. vm.sock \in Conn \cup {Stale}
    BY <2>1
  <2> QED BY <2>3, <2>4, <2>6, <2>7, <2>8, SendTalks
<1> QED BY <1>2, <1>3, <1>4

\* The guest goes on receiving files.
LEMMA TakeTalks ==
  ASSUME NEW r \in ConnState, NEW p, NEW pc \in {"get", "name", "body"},
         NEW pc2 \in {"get", "name", "body"}, Talk(pc, r, p), r.down # <<>>,
         ReadsAt(pc2) = After(Head(r.down).kind)
  PROVE  Talk(pc2, [r EXCEPT !.down = Tail(@)], p)
<1>. DEFINE t == [r EXCEPT !.down = Tail(@)]
<1>1. r.down \in Seq(Msg) /\ t.down = Tail(r.down) /\ t.up = r.up
  BY DEF ConnState
<1>2. /\ Flow(ReadsAt(pc), r.down) /\ Only(r.down, FileKind \cup {"EOF"})
      /\ p # "gone" => \/ p = "send" /\ r.up = <<>> /\ Expects(ReadsAt(pc), r.down) = "header"
                       \/ p = "header" /\ r.up = <<>>
  BY DEF Talk
<1>3. /\ Flow(ReadsAt(pc2), t.down)
      /\ Expects(ReadsAt(pc2), t.down) = Expects(ReadsAt(pc), r.down)
  BY <1>1, <1>2, FlowTail
<1>4. Only(t.down, FileKind \cup {"EOF"})
  BY <1>1, <1>2, OnlyTail
<1>. HIDE DEF t
<1>5. Talk(pc2, t, p)
  BY <1>1, <1>2, <1>3, <1>4 DEF Talk
<1>. USE DEF t
<1> QED BY <1>5

LEMMA RecvTalks ==
  ASSUME FrameInv, RecvSET \/ RecvName \/ RecvBody \/ RecvCKN \/ RecvCKY \/ RecvEND
  PROVE  FlowInv' /\ TalkInv'
<1>. /\ vm \in Guest /\ vm \in GuestRecord
  BY DEF FrameInv, BookInv, TypeOK, Guest, GuestRecord
<1>. DEFINE old == conn[vm.sock]
<1>0. vm.sock \in Conn /\ old.down # <<>> /\ Taken = [old EXCEPT !.down = Tail(@)]
  BY DEF RecvSET, RecvName, RecvBody, RecvCKN, RecvCKY, RecvEND, Receive, Sock, Taken
<1>1. old \in ConnState /\ Talk(vm.pc, old, Pos(vm.sock))
  BY <1>0, Speaking
<1>2. CASE RecvSET
  <2>. DEFINE g == [vm EXCEPT !.pc = "name"]
  <2>1. vm.pc = "get" /\ g \in Guest /\ g.sock = vm.sock /\ g.pc = "name" /\ Receive(Hdr("SET"), g)
    BY <1>2 DEF RecvSET, Guest, GuestRecord, GuestPC
  <2>2. Head(old.down).kind = "SET"
    BY <2>1, HeaderKinds DEF Receive, Sock
  <2>3. ReadsAt("name") = After("SET")
    BY DEF ReadsAt, After
  <2>. HIDE DEF g, old
  <2>4. Talk("name", Taken, Pos(vm.sock))
    BY <2>1, <2>2, <2>3, <1>0, <1>1, TakeTalks
  <2> QED BY <2>1, <2>4, ReceiveTalks
<1>3. CASE RecvName
  <2>1. PICK f \in Files :
          Receive(Name(f), [vm EXCEPT !.pc = "body", !.cur = f, !.file[f] = Torn])
    BY <1>3 DEF RecvName
  <2>. DEFINE g == [vm EXCEPT !.pc = "body", !.cur = f, !.file[f] = Torn]
  <2>2. vm.pc = "name" /\ g \in Guest /\ g.sock = vm.sock /\ g.pc = "body" /\ Receive(Name(f), g)
    BY <1>3, <2>1, TornType DEF RecvName, Guest, GuestRecord, GuestPC
  <2>3. Head(old.down).kind = "name"
    BY <2>2, HeaderKinds DEF Receive, Sock
  <2>4. ReadsAt("body") = After("name")
    BY DEF ReadsAt, After
  <2>. HIDE DEF g, old
  <2>5. Talk("body", Taken, Pos(vm.sock))
    BY <2>2, <2>3, <2>4, <1>0, <1>1, TakeTalks
  <2> QED BY <2>2, <2>5, ReceiveTalks
<1>4. CASE RecvBody
  <2>1. PICK v \in Content :
          Receive(Body(v), [vm EXCEPT !.pc = "get", !.cur = NoFile, !.file[vm.cur] = v])
    BY <1>4 DEF RecvBody
  <2>. DEFINE g == [vm EXCEPT !.pc = "get", !.cur = NoFile, !.file[vm.cur] = v]
  <2>2. vm.pc = "body" /\ g \in Guest /\ g.sock = vm.sock /\ g.pc = "get" /\ Receive(Body(v), g)
    BY <1>4, <2>1 DEF RecvBody, Guest, GuestRecord, GuestPC
  <2>3. Head(old.down).kind = "body"
    BY <2>2, HeaderKinds DEF Receive, Sock
  <2>4. ReadsAt("get") = After("body")
    BY DEF ReadsAt, After
  <2>. HIDE DEF g, old
  <2>5. Talk("get", Taken, Pos(vm.sock))
    BY <2>2, <2>3, <2>4, <1>0, <1>1, TakeTalks
  <2> QED BY <2>2, <2>5, ReceiveTalks
<1>5. CASE RecvCKN
  <2>. DEFINE g == [vm EXCEPT !.pc = "run", !.sock = NoConn]
  <2>1. g \in Guest /\ g.sock = NoConn /\ Receive(Hdr("CKN"), g)
    BY <1>5 DEF RecvCKN, Guest, GuestRecord, GuestPC
  <2>. HIDE DEF g
  <2> QED BY <2>1, <1>0, ReceiveTalks
<1>6. CASE RecvCKY
  <2>. DEFINE g == [vm EXCEPT !.pc = "toGET", !.chk = TRUE, !.sock = NoConn]
  <2>1. g \in Guest /\ g.sock = NoConn /\ Receive(Hdr("CKY"), g)
    BY <1>6 DEF RecvCKY, Guest, GuestRecord, GuestPC
  <2>. HIDE DEF g
  <2> QED BY <2>1, <1>0, ReceiveTalks
<1>7. CASE RecvEND
  <2>. DEFINE g == [vm EXCEPT !.pc = "toRES", !.sock = NoConn]
  <2>1. g \in Guest /\ g.sock = NoConn /\ Receive(Hdr("END"), g)
    BY <1>7 DEF RecvEND, Guest, GuestRecord, GuestPC
  <2>. HIDE DEF g
  <2> QED BY <2>1, <1>0, ReceiveTalks
<1> QED BY <1>2, <1>3, <1>4, <1>5, <1>6, <1>7

LEMMA LeaveTalks ==
  ASSUME FrameInv, RecvEOF \/ PingDone \/ ReadReset \/ Kill
  PROVE  FlowInv' /\ TalkInv'
<1>. /\ vm \in Guest /\ vm \in GuestRecord
     /\ Halted(vm).sock = NoConn
     /\ vm.pc = "ping" => vm.sock \in Conn \cup {Stale}
  BY DEF FrameInv, BookInv, TypeOK, Guest, GuestRecord, Halted
<1>. DEFINE old == conn[vm.sock]
            p   == Pos(vm.sock)
<1>1. vm'.sock = NoConn /\ UNCHANGED <<fd, client, spc>>
  BY DEF RecvEOF, PingDone, ReadReset, Kill, GuestRecord, host
<1>2. CASE RecvEOF
  <2>. DEFINE ms == <<Hdr("END")>>
              u  == Up(Taken, ms)
  <2>1. /\ vm.sock \in Conn /\ vm.pc = "get" /\ conn' = [conn EXCEPT ![vm.sock] = CliClose(u)]
        /\ Taken = [old EXCEPT !.down = Tail(@)] /\ old.down # <<>>
    BY <1>2 DEF RecvEOF, Sock, Taken
  <2>2. /\ old \in ConnState /\ Talk(vm.pc, old, p) /\ (p # "gone" => old.srv = "open")
    BY <2>1, Speaking
  <2>. HIDE DEF old
  <2>3. Taken \in ConnState /\ Taken.up = old.up /\ Taken.srv = old.srv
    BY <2>1, <2>2, TakeType DEF ConnState
  <2>4. p # "gone" => old.up = <<>> /\ p \in {"send", "header"}
    BY <2>1, <2>2 DEF Talk
  <2>5. ms \in Seq(Msg) /\ Flow("header", ms)
    BY OneMsg, Words
  <2>. HIDE DEF ms
  <2>6. u \in ConnState /\ (u.srv = "open" <=> old.srv = "open") /\ (p # "gone" => u.up = ms)
    BY <2>2, <2>3, <2>4, <2>5, EndsApart, ConnType, UpWords
  <2>. HIDE DEF u
  <2>7. /\ CliClose(u).srv = "open" <=> old.srv = "open"
        /\ u.srv = "open" => CliClose(u).up = u.up
    BY <2>6, EndsApart DEF CliClose, Settled, ConnState
  <2>8. p # "gone" => Flow(ReadsAt(p), CliClose(u).up)
    BY <2>2, <2>4, <2>5, <2>6, <2>7 DEF ReadsAt
  <2>. USE DEF old
  <2> QED BY <2>1, <2>7, <2>8, <1>1, GuestTalks
<1>3. CASE (PingDone \/ ReadReset \/ Kill) /\ vm.sock \in Conn
  <2>1. conn' = [conn EXCEPT ![vm.sock] = CliClose(old)]
    BY <1>3 DEF PingDone, ReadReset, Kill
  <2>2. /\ old \in ConnState /\ (p # "gone" => old.srv = "open")
        /\ p # "gone" => Flow(ReadsAt(p), old.up)
    BY <1>3, Speaking
  <2>3. /\ CliClose(old).srv = "open" <=> old.srv = "open"
        /\ old.srv = "open" => CliClose(old).up = old.up
    <3> HIDE DEF old
    <3> QED BY <2>2, EndsApart DEF CliClose, Settled, ConnState
  <2> QED BY <2>1, <2>2, <2>3, <1>1, <1>3, GuestTalks
<1>4. CASE (PingDone \/ ReadReset \/ Kill) /\ vm.sock \notin Conn
  <2>1. conn' = conn
    BY <1>4 DEF PingDone, ReadReset, Kill
  <2> QED BY <2>1, <1>1, NothingSaid
<1> QED BY <1>2, <1>3, <1>4

LEMMA GuestFrames ==
  ASSUME FrameInv,
         GuestStep \/ CallCheckpoint \/ CallRestore \/ CallRefused \/ Train \/ Launch \/ Kill \/ Type
  PROVE  FlowInv' /\ TalkInv'
<1>. /\ vm \in Guest /\ vm \in GuestRecord
     /\ vm.sock \in Conn \cup {Stale} <=> vm.pc \notin {"run", "toGET", "toRES", "dead"}
     /\ Halted(vm).sock = NoConn /\ Started(vm).sock = NoConn
  BY DEF FrameInv, BookInv, TypeOK, Guest, GuestRecord, Halted, Started
<1>1. CASE StartGET \/ StartRES \/ CallCheckpoint \/ CallRestore
  BY <1>1, ConnectTalks DEF StartGET, StartRES, CallCheckpoint, CallRestore
<1>2. CASE Refused \/ CallRefused \/ Launch \/ Train
  <2>1. vm'.sock \notin Conn
    BY <1>2 DEF Refused, CallRefused, Launch, Train, GuestRecord
  <2>2. UNCHANGED <<conn, fd, client, spc>>
    BY <1>2 DEF Refused, CallRefused, Launch, Train, host
  <2> QED BY <2>1, <2>2, NothingSaid
<1>3. CASE CkpTimeout \/ WaitTimeout \/ Type
  <2>1. /\ vm'.sock = vm.sock
        /\ vm'.pc = vm.pc \/ (vm.pc = "ckp" /\ vm'.pc = "ping")
    BY <1>3 DEF CkpTimeout, WaitTimeout, Type, GuestRecord, guest
  <2>2. UNCHANGED <<conn, fd, client, spc>>
    BY <1>3 DEF CkpTimeout, WaitTimeout, Type, host
  <2>3. vm.sock \in Conn => Talk(vm'.pc, conn[vm.sock], Pos(vm.sock))
    <3>1. vm.sock \in Conn => Talk(vm.pc, conn[vm.sock], Pos(vm.sock))
      BY Speaking
    <3>2. \A r, p : Talk("ckp", r, p) => Talk("ping", r, p)
      BY DEF Talk
    <3> QED BY <3>1, <3>2, <2>1
  <2> QED BY <2>1, <2>2, <2>3, NothingSaid
<1> QED BY <1>1, <1>2, <1>3, SendHeaderTalks, SendFileTalks, RecvTalks, LeaveTalks DEF GuestStep

\* What the server has of the connection it serves.
LEMMA ServedTalk ==
  ASSUME FrameInv, client # Stdin, spc # "astray"
  PROVE  /\ Served \in Conn /\ conn[Served] \in ConnState /\ conn[Served].srv = "open"
         /\ Pos(Served) = spc /\ Flow(ReadsAt(spc), conn[Served].up)
         /\ vm.sock = Served => /\ Talk(vm.pc, conn[Served], spc) /\ conn[Served].cli = "open"
                                /\ vm.pc \in GuestPC \ {"run", "toGET", "toRES", "dead"}
<1>1. Served \in Conn
  BY ServedConn DEF FrameInv
<1>2. conn[Served] \in ConnState /\ conn[Served].srv = "open"
  BY <1>1 DEF FrameInv, BookInv, TypeOK, Bookkeeping
<1>3. Pos(Served) = spc /\ spc # "gone"
  BY <1>2 DEF Pos, FrameInv, BookInv, TypeOK, ServerPC
<1>4. vm.sock = Served => /\ conn[Served].cli = "open"
                          /\ vm.pc \in GuestPC \ {"run", "toGET", "toRES", "dead"}
  BY <1>1 DEF FrameInv, BookInv, TypeOK, Bookkeeping, Guest, GuestRecord
<1> QED BY <1>1, <1>2, <1>3, <1>4 DEF FrameInv, FlowInv, TalkInv

LEMMA ContinueTalks ==
  ASSUME FrameInv, client # Stdin, spc # "astray", NEW pc \in Serving \ {"astray"}, NEW r,
         Continue(pc, r), vm' = vm, r.srv = "open", Flow(ReadsAt(pc), r.up),
         vm.sock = Served => Talk(vm.pc, r, pc)
  PROVE  FlowInv' /\ TalkInv'
<1>1. Served \in Conn /\ Served' = Served
  BY ServedTalk DEF Continue, Served
<1>2. \A c \in Conn : conn'[c] = IF c = Served THEN r ELSE conn[c]
  BY <1>1 DEF Continue, FrameInv, BookInv, TypeOK
<1>3. Pos(Served)' = pc /\ \A c \in Conn : c # Served => Pos(c)' = Pos(c)
  BY <1>1, <1>2 DEF Continue, Pos
<1>4. FlowInv'
  BY <1>1, <1>2, <1>3 DEF FrameInv, FlowInv
<1>5. TalkInv'
  BY <1>1, <1>2, <1>3 DEF FrameInv, TalkInv
<1> QED BY <1>4, <1>5

LEMMA FinishTalks ==
  ASSUME FrameInv, client # Stdin, spc # "astray",
         NEW conns \in [Conn -> ConnState], NEW r \in ConnState, Finish(conns, r),
         \A c \in Conn : c # Served /\ conns[c].srv = "open" =>
           conn[c].srv = "open" /\ conns[c].up = conn[c].up,
         \/ vm'.sock \notin Conn
         \/ /\ vm' = vm
            /\ vm.sock # Served => conns = conn
            /\ vm.sock = Served => r.cli = "open" /\ Talk(vm.pc, r, "gone")
  PROVE  FlowInv' /\ TalkInv'
<1>1. Served \in Conn /\ Served' = NoConn
  BY ServedTalk DEF Finish, Served
<1>2. \A c \in Conn : conn'[c] = IF c = Served THEN SrvClose(r) ELSE conns[c]
  BY <1>1 DEF Finish
<1>3. SrvClose(r).srv # "open"
  BY EndsApart
<1>4. \A c \in Conn : c = Served => Pos(c)' = "gone"
  BY <1>2, <1>3 DEF Pos
<1>5. ASSUME NEW c \in Conn, Pos(c)' # "gone"
      PROVE  Pos(c) = "header" /\ Pos(c)' = "header" /\ conn'[c].up = conn[c].up
  <2>1. c # Served /\ conn'[c].srv = "open"
    BY <1>4, <1>5 DEF Pos
  <2> QED BY <2>1, <1>1, <1>2 DEF Pos
<1>6. FlowInv'
  BY <1>5 DEF FrameInv, FlowInv
<1>7. ASSUME vm'.sock \in Conn PROVE Talk(vm.pc, conn'[vm.sock], Pos(vm.sock)')
  <2>1. CASE vm.sock = Served
    <3>1. SrvClose(r).down = r.down
      BY <1>7, <2>1 DEF SrvClose, Settled, ConnState
    <3>2. \A pc, a, b : Talk(pc, a, "gone") /\ b.down = a.down => Talk(pc, b, "gone")
      BY DEF Talk
    <3>3. conn'[Served] = SrvClose(r)
      BY <1>1, <1>2
    <3>4. Pos(vm.sock)' = "gone" /\ Talk(vm.pc, r, "gone")
      BY <1>7, <2>1, <1>1, <1>4
    <3> QED BY <3>1, <3>2, <3>3, <3>4, <2>1
  <2>2. CASE vm.sock # Served
    <3>1. conn'[vm.sock] = conn[vm.sock]
      BY <1>7, <2>2, <1>2
    <3>2. Pos(vm.sock)' = Pos(vm.sock)
      BY <1>1, <2>2, <3>1, <1>7 DEF Pos
    <3> QED BY <1>7, <3>1, <3>2 DEF FrameInv, TalkInv
  <2> QED BY <2>1, <2>2
<1>8. TalkInv'
  BY <1>7 DEF TalkInv
<1> QED BY <1>6, <1>8

\* Who can have sent what the server reads as a header.
LEMMA TalkHeads ==
  ASSUME NEW r \in ConnState, NEW pc \in GuestPC \ {"run", "toGET", "toRES", "dead"},
         Talk(pc, r, "header"), r.up # <<>>, NEW k, k = Head(r.up).kind
  PROVE  /\ k = "GET" => pc = "get" /\ r.up = <<Hdr("GET")>> /\ r.down = <<>>
         /\ k = "CKP" => pc \in {"ckp", "ping"} /\ r.up = <<Hdr("CKP")>>
         /\ k = "SET" => pc \in {"set", "setBody", "end"}
         /\ k = "EOF" => pc = "end"
         /\ k \notin {"RES", "END"}
<1>1. r.up \in Seq(Msg)
  BY DEF ConnState
<1>2. pc \in {"set", "setBody"} => k \in FileKind
  BY <1>1, OnlyTail DEF Talk
<1>3. pc = "end" => k \in FileKind \cup {"EOF"}
  BY <1>1, OnlyTail DEF Talk
<1>4. pc \in {"ckp", "ping"} => k = "CKP" /\ r.up = <<Hdr("CKP")>>
  BY HeaderKinds DEF Talk
<1>5. pc \in {"get", "name", "body"} =>
        k = "GET" /\ pc = "get" /\ r.up = <<Hdr("GET")>> /\ r.down = <<>>
  BY HeaderKinds DEF Talk
<1>6. pc \notin {"CKP", "GET", "RES"}
  BY DEF Talk
<1> QED BY <1>2, <1>3, <1>4, <1>5, <1>6 DEF GuestPC, FileKind

\* The server goes on receiving files.
LEMMA FileRead ==
  ASSUME NEW r \in ConnState, NEW pc \in {"set", "setBody", "end"},
         NEW p \in {"header", "name", "body"}, NEW p2 \in {"header", "name", "body"},
         Talk(pc, r, p), r.up # <<>>, ReadsAt(p2) = After(Head(r.up).kind),
         Flow(ReadsAt(p), r.up)
  PROVE  Talk(pc, [r EXCEPT !.up = Tail(@)], p2)
<1>. DEFINE t == [r EXCEPT !.up = Tail(@)]
<1>1. r.up \in Seq(Msg) /\ t.up = Tail(r.up) /\ t.down = r.down
  BY DEF ConnState
<1>2. Expects(ReadsAt(p2), t.up) = Expects(ReadsAt(p), r.up)
  BY <1>1, FlowTail
<1>3. \A K : Only(r.up, K) => Only(t.up, K)
  BY <1>1, OnlyTail
<1>. HIDE DEF t
<1>4. CASE pc = "set"
  <2>1. r.down = <<>> /\ Only(r.up, FileKind) /\ Expects(ReadsAt(p), r.up) = "header"
    BY <1>4 DEF Talk
  <2>2. t.down = <<>> /\ Only(t.up, FileKind) /\ Expects(ReadsAt(p2), t.up) = "header"
    BY <2>1, <1>1, <1>2, <1>3
  <2>3. Talk("set", t, p2)
    BY <2>2 DEF Talk
  <2> QED BY <2>3, <1>4 DEF t
<1>6. CASE pc = "setBody"
  <2>1. r.down = <<>> /\ Only(r.up, FileKind) /\ Expects(ReadsAt(p), r.up) = "body"
    BY <1>6 DEF Talk
  <2>2. t.down = <<>> /\ Only(t.up, FileKind) /\ Expects(ReadsAt(p2), t.up) = "body"
    BY <2>1, <1>1, <1>2, <1>3
  <2>3. Talk("setBody", t, p2)
    BY <2>2 DEF Talk
  <2> QED BY <2>3, <1>6 DEF t
<1>5. CASE pc = "end"
  <2>1. Only(r.down, {"END"}) /\ Only(r.up, FileKind \cup {"EOF"})
    BY <1>5 DEF Talk
  <2>2. Only(t.down, {"END"}) /\ Only(t.up, FileKind \cup {"EOF"})
    BY <2>1, <1>1, <1>3
  <2>3. Talk("end", t, p2)
    BY <2>2 DEF Talk
  <2> QED BY <2>3, <1>5 DEF t
<1>. USE DEF t
<1> QED BY <1>4, <1>5, <1>6

\* What the server has read.
LEMMA ReadFlow ==
  ASSUME FrameInv, client # Stdin, NEW pc \in {"header", "name", "body"}, NEW m, At(pc, m)
  PROVE  /\ spc = pc /\ conn[Served].up # <<>> /\ Head(conn[Served].up).kind = m.kind
         /\ Read \in ConnState /\ Read = [conn[Served] EXCEPT !.up = Tail(@)]
         /\ Read.srv = "open" /\ Read.cli = conn[Served].cli /\ Read.down = conn[Served].down
         /\ Flow(After(m.kind), Read.up)
<1>. DEFINE old == conn[Served]
<1>1. /\ old \in ConnState /\ old.up # <<>> /\ m = Head(old.up) /\ spc = pc
      /\ old.srv = "open" /\ Flow(ReadsAt(spc), old.up)
  BY ServedTalk DEF At
<1>2. Read = [old EXCEPT !.up = Tail(@)]
  BY DEF Read
<1>. HIDE DEF old
<1>3. old.up \in Seq(Msg)
  BY <1>1 DEF ConnState
<1>4. Read \in ConnState /\ Read.up = Tail(old.up) /\ Read.srv = old.srv /\ Read.cli = old.cli
      /\ Read.down = old.down
  BY <1>1, <1>2, TakeType DEF ConnState
<1>5. Flow(After(m.kind), Tail(old.up))
  BY <1>1, <1>3, FlowTail
<1>. USE DEF old
<1> QED BY <1>1, <1>2, <1>4, <1>5

\* What the guest the server serves gets to read.
LEMMA DownWords ==
  ASSUME NEW r \in ConnState, NEW ms \in Seq(Msg)
  PROVE  /\ Down(r, ms) \in ConnState /\ Down(r, ms).up = r.up /\ Down(r, ms).srv = r.srv
         /\ r.cli = "open" => Down(r, ms).down = r.down \o ms /\ Down(r, ms).cli = "open"
  BY ConnType DEF Down, CliGone, ConnState

\* serveClient returns and nothing else happens.
LEMMA ReturnTalks ==
  ASSUME FrameInv, client # Stdin, spc # "astray", NEW r \in ConnState, Finish(conn, r), vm' = vm,
         vm.sock = Served => r.cli = "open" /\ Talk(vm.pc, r, "gone")
  PROVE  FlowInv' /\ TalkInv'
<1>1. conn \in [Conn -> ConnState]
  BY DEF FrameInv, BookInv, TypeOK
<1> QED BY <1>1, FinishTalks

\* serveClient with each header, with a file, with virsh.
LEMMA HeaderFrames ==
  ASSUME FrameInv,
         ServeGET \/ ServeSET \/ ServeCKP \/ ServeRES \/ ServeEOF \/ ServeEND
  PROVE  FlowInv' /\ TalkInv'
<1>. DEFINE old == conn[Served]
<1>0. client # Stdin /\ spc = "header"
  BY DEF FrameInv, BookInv, Place, Serving, At, ServeGET, ServeSET, ServeCKP, ServeRES,
         ServeEOF, ServeEND
<1>. /\ old \in ConnState
     /\ vm.sock = Served => /\ Talk(vm.pc, old, "header") /\ old.cli = "open"
                            /\ vm.pc \in GuestPC \ {"run", "toGET", "toRES", "dead"}
  BY <1>0, ServedTalk
<1>h. \A h \in HeaderKind : Hdr(h).kind = h
  BY HeaderKinds
<1>t. ASSUME NEW h \in HeaderKind
      PROVE  old.up = <<Hdr(h)>> => Tail(old.up) = <<>>
  OBVIOUS
<1>1. CASE ServeGET
  <2>1. At("header", Hdr("GET")) /\ Continue("send", Read) /\ vm' = vm
    BY <1>1 DEF ServeGET, guest
  <2>2. /\ old.up # <<>> /\ Head(old.up).kind = "GET" /\ Read.srv = "open"
        /\ Read = [old EXCEPT !.up = Tail(@)] /\ Read.down = old.down
        /\ Flow("header", Read.up)
    BY <2>1, <1>0, <1>h, ReadFlow DEF After
  <2>3. ASSUME vm.sock = Served PROVE Talk(vm.pc, Read, "send")
    <3>1. vm.pc = "get" /\ old.up = <<Hdr("GET")>> /\ old.down = <<>>
      BY <2>2, <2>3, TalkHeads
    <3>2. Read.up = <<>> /\ Read.down = <<>>
      BY <3>1, <2>2, <1>t DEF ConnState
    <3>3. Talk("get", Read, "send")
      BY <3>2, Nothing DEF Talk, ReadsAt
    <3> QED BY <3>1, <3>3
  <2> QED BY <2>1, <2>2, <2>3, <1>0, ContinueTalks DEF Serving, ReadsAt
<1>2. CASE ServeSET
  <2>1. At("header", Hdr("SET")) /\ Continue("name", Read) /\ vm' = vm
    BY <1>2 DEF ServeSET, guest
  <2>2. /\ old.up # <<>> /\ Head(old.up).kind = "SET" /\ Read.srv = "open"
        /\ Read = [old EXCEPT !.up = Tail(@)]
        /\ Flow("name", Read.up)
    BY <2>1, <1>0, <1>h, ReadFlow DEF After
  <2>3. ASSUME vm.sock = Served PROVE Talk(vm.pc, Read, "name")
    <3>1. vm.pc \in {"set", "setBody", "end"}
      BY <2>2, <2>3, TalkHeads
    <3>2. ReadsAt("name") = After("SET") /\ Flow(ReadsAt("header"), old.up)
      BY <1>0, ServedTalk DEF ReadsAt, After
    <3>3. Talk(vm.pc, old, "header")
      BY <2>3
    <3> HIDE DEF old
    <3> QED BY <3>1, <3>2, <3>3, <2>2, FileRead
  <2> QED BY <2>1, <2>2, <2>3, <1>0, ContinueTalks DEF Serving, ReadsAt
<1>3. CASE ServeCKP
  <2>1. At("header", Hdr("CKP")) /\ vm' = vm
    BY <1>3 DEF ServeCKP, guest
  <2>2. /\ old.up # <<>> /\ Head(old.up).kind = "CKP" /\ Read.srv = "open" /\ Read \in ConnState
        /\ Read = [old EXCEPT !.up = Tail(@)] /\ Read.down = old.down /\ Read.cli = old.cli
        /\ Flow("header", Read.up)
    BY <2>1, <1>0, <1>h, ReadFlow DEF After
  <2>3. ASSUME vm.sock = Served
        PROVE  vm.pc \in {"ckp", "ping"} /\ Read.up = <<>> /\ Only(Read.down, {"CKN", "CKY"})
    <3>1. vm.pc \in {"ckp", "ping"} /\ old.up = <<Hdr("CKP")>>
      BY <2>2, <2>3, TalkHeads
    <3>2. Read.up = <<>>
      BY <3>1, <2>2, <1>t DEF ConnState
    <3>3. Only(old.down, {"CKN", "CKY"})
      BY <3>1, <2>3 DEF Talk
    <3> QED BY <3>1, <3>2, <3>3, <2>2
  <2>4. CASE ckptReq
    <3>1. Continue("delete", Read)
      BY <1>3, <2>4 DEF ServeCKP
    <3>2. vm.sock = Served => Talk(vm.pc, Read, "delete")
      BY <2>3 DEF Talk
    <3> QED BY <3>1, <3>2, <2>1, <2>2, <1>0, ContinueTalks DEF Serving, ReadsAt
  <2>5. CASE ~ckptReq
    <3>. DEFINE ms == <<Hdr("CKN")>>
                r == Down(Read, ms)
    <3>1. Finish(conn, r)
      BY <1>3, <2>5 DEF ServeCKP
    <3>2. ms \in Seq(Msg) /\ Only(ms, {"CKN", "CKY"})
      BY OneMsg, HeaderKinds DEF Only
    <3> HIDE DEF ms
    <3>3. r \in ConnState /\ (Read.cli = "open" => r.cli = "open" /\ r.down = Read.down \o ms)
      BY <3>2, <2>2, DownWords
    <3> HIDE DEF r
    <3>4. ASSUME vm.sock = Served PROVE r.cli = "open" /\ Talk(vm.pc, r, "gone")
      <4>1. r.cli = "open" /\ r.down = Read.down \o ms
        BY <3>3, <3>4, <2>2
      <4>2. Only(r.down, {"CKN", "CKY"}) /\ vm.pc \in {"ckp", "ping"}
        BY <4>1, <3>2, <3>4, <2>2, <2>3, OnlyConcat DEF ConnState
      <4> QED BY <4>1, <4>2 DEF Talk
    <3> QED BY <3>1, <3>3, <3>4, <2>1, <1>0, ReturnTalks
  <2> QED BY <2>4, <2>5
<1>4. CASE ServeRES
  <2>1. At("header", Hdr("RES")) /\ vm' = vm
    BY <1>4 DEF ServeRES, guest
  <2>2. /\ old.up # <<>> /\ Head(old.up).kind = "RES" /\ Read.srv = "open" /\ Read \in ConnState
        /\ Flow("header", Read.up)
    BY <2>1, <1>0, <1>h, ReadFlow DEF After
  <2>3. vm.sock # Served
    BY <2>2, TalkHeads
  <2>4. CASE ckpted
    <3>1. Continue("revert", Read)
      BY <1>4, <2>4 DEF ServeRES
    <3> QED BY <3>1, <2>1, <2>2, <2>3, <1>0, ContinueTalks DEF Serving, ReadsAt
  <2>5. CASE ~ckpted
    <3>1. Finish(conn, Read)
      BY <1>4, <2>5 DEF ServeRES
    <3> QED BY <3>1, <2>1, <2>2, <2>3, <1>0, ReturnTalks
  <2> QED BY <2>4, <2>5
<1>5. CASE ServeEOF
  <2>. DEFINE ms == <<Hdr("END")>>
              r == Down(Read, ms)
  <2>1. At("header", Hdr("EOF")) /\ Finish(conn, r) /\ vm' = vm
    BY <1>5 DEF ServeEOF, guest
  <2>2. /\ old.up # <<>> /\ Head(old.up).kind = "EOF" /\ Read \in ConnState
        /\ Read.down = old.down /\ Read.cli = old.cli
    BY <2>1, <1>0, <1>h, ReadFlow
  <2>3. ms \in Seq(Msg) /\ Only(ms, {"END"})
    BY OneMsg, Words
  <2>. HIDE DEF ms
  <2>4. r \in ConnState /\ (Read.cli = "open" => r.cli = "open" /\ r.down = Read.down \o ms)
    BY <2>2, <2>3, DownWords
  <2>. HIDE DEF r
  <2>5. ASSUME vm.sock = Served PROVE r.cli = "open" /\ Talk(vm.pc, r, "gone")
    <3>1. vm.pc = "end"
      BY <2>2, <2>5, TalkHeads
    <3>2. Only(Read.down, {"END"})
      BY <3>1, <2>2, <2>5 DEF Talk
    <3>3. r.cli = "open" /\ r.down = Read.down \o ms
      BY <2>2, <2>4, <2>5
    <3>4. Only(r.down, {"END"})
      BY <3>2, <3>3, <2>2, <2>3, OnlyConcat DEF ConnState
    <3>5. Talk("end", r, "gone")
      BY <3>4 DEF Talk
    <3> QED BY <3>1, <3>3, <3>5
  <2> QED BY <2>1, <2>4, <2>5, <1>0, ReturnTalks
<1>6. CASE ServeEND
  <2>1. At("header", Hdr("END")) /\ Finish(conn, Read) /\ vm' = vm
    BY <1>6 DEF ServeEND, guest
  <2>2. old.up # <<>> /\ Head(old.up).kind = "END" /\ Read \in ConnState
    BY <2>1, <1>0, <1>h, ReadFlow
  <2>3. vm.sock # Served
    BY <2>2, TalkHeads
  <2> QED BY <2>1, <2>2, <2>3, <1>0, ReturnTalks
<1> QED BY <1>1, <1>2, <1>3, <1>4, <1>5, <1>6

LEMMA FileFrames ==
  ASSUME FrameInv, ServeName \/ ServeBody \/ SendFile \/ SendFilesEnd
  PROVE  FlowInv' /\ TalkInv'
<1>. DEFINE old == conn[Served]
<1>0. client # Stdin /\ spc \in {"name", "body", "send"} /\ vm' = vm
  BY DEF FrameInv, BookInv, Place, Serving, At, ServeName, ServeBody, SendFile, SendFilesEnd, guest
<1>. /\ old \in ConnState /\ old.srv = "open" /\ Flow(ReadsAt(spc), old.up)
     /\ vm.sock = Served => /\ Talk(vm.pc, old, spc) /\ old.cli = "open"
                            /\ vm.pc \in GuestPC \ {"run", "toGET", "toRES", "dead"}
  BY <1>0, ServedTalk
<1>a. spc \in {"name", "body"} /\ vm.sock = Served => vm.pc \in {"set", "setBody", "end"}
  BY DEF Talk, GuestPC
<1>b. spc = "send" /\ vm.sock = Served =>
        /\ vm.pc \in {"get", "name", "body"} /\ old.up = <<>>
        /\ Flow(ReadsAt(vm.pc), old.down) /\ Only(old.down, FileKind \cup {"EOF"})
        /\ Expects(ReadsAt(vm.pc), old.down) = "header"
  BY DEF Talk, GuestPC
<1>2. CASE ServeName
  <2>1. PICK f \in Files : At("name", Name(f))
    BY <1>2 DEF ServeName
  <2>2. Continue("body", Read)
    BY <1>2 DEF ServeName
  <2>3. /\ old.up # <<>> /\ Head(old.up).kind = "name" /\ Read.srv = "open" /\ spc = "name"
        /\ Read = [old EXCEPT !.up = Tail(@)]
        /\ Flow("body", Read.up)
    BY <2>1, <1>0, HeaderKinds, ReadFlow DEF After
  <2>4. ReadsAt("body") = After("name") /\ ReadsAt("body") = "body"
    BY DEF ReadsAt, After
  <2>5. ASSUME vm.sock = Served PROVE Talk(vm.pc, Read, "body")
    <3>1. Talk(vm.pc, old, "name") /\ Flow(ReadsAt("name"), old.up)
      BY <2>3, <2>5
    <3>2. vm.pc \in {"set", "setBody", "end"}
      BY <1>a, <2>3, <2>5
    <3> HIDE DEF old
    <3> QED BY <3>1, <3>2, <2>3, <2>4, FileRead
  <2> QED BY <2>2, <2>3, <2>4, <2>5, <1>0, ContinueTalks DEF Serving
<1>3. CASE ServeBody
  <2>1. PICK v \in Content : At("body", Body(v))
    BY <1>3 DEF ServeBody
  <2>2. Continue("header", Read)
    BY <1>3 DEF ServeBody
  <2>3. /\ old.up # <<>> /\ Head(old.up).kind = "body" /\ Read.srv = "open" /\ spc = "body"
        /\ Read = [old EXCEPT !.up = Tail(@)]
        /\ Flow("header", Read.up)
    BY <2>1, <1>0, HeaderKinds, ReadFlow DEF After
  <2>4. ReadsAt("header") = After("body") /\ ReadsAt("header") = "header"
    BY DEF ReadsAt, After
  <2>5. ASSUME vm.sock = Served PROVE Talk(vm.pc, Read, "header")
    <3>1. Talk(vm.pc, old, "body") /\ Flow(ReadsAt("body"), old.up)
      BY <2>3, <2>5
    <3>2. vm.pc \in {"set", "setBody", "end"}
      BY <1>a, <2>3, <2>5
    <3> HIDE DEF old
    <3> QED BY <3>1, <3>2, <2>3, <2>4, FileRead
  <2> QED BY <2>2, <2>3, <2>4, <2>5, <1>0, ContinueTalks DEF Serving
<1>s. ReadsAt("send") = "header" /\ ReadsAt("header") = "header"
  BY DEF ReadsAt
<1>4. CASE SendFile
  <2>1. PICK f \in todo :
          Continue("send", Down(old, <<Hdr("SET"), Name(f), Body(sfile[f])>>))
    BY <1>4 DEF SendFile
  <2>. DEFINE ms == <<Hdr("SET"), Name(f), Body(sfile[f])>>
              r  == Down(old, ms)
  <2>2. f \in Files /\ sfile[f] \in Content /\ spc = "send"
    BY <1>4 DEF FrameInv, BookInv, TypeOK, SendFile
  <2>3. /\ ms \in Seq(Msg) /\ Flow("header", ms) /\ Expects("header", ms) = "header"
        /\ Only(ms, FileKind)
    BY <2>2, Words
  <2>4. Continue("send", r)
    BY <2>1
  <2>. HIDE DEF ms
  <2>5. /\ r.up = old.up /\ r.srv = "open"
        /\ old.cli = "open" => r.down = old.down \o ms
    BY <2>3, DownWords
  <2>. HIDE DEF r
  <2>6. ASSUME vm.sock = Served PROVE Talk(vm.pc, r, "send")
    <3>1. old.down \in Seq(Msg) /\ r.down = old.down \o ms /\ r.up = <<>>
      BY <1>b, <2>2, <2>5, <2>6 DEF ConnState
    <3>2. Flow(ReadsAt(vm.pc), r.down) /\ Expects(ReadsAt(vm.pc), r.down) = "header"
      BY <1>b, <2>2, <2>3, <2>6, <3>1, FlowConcat
    <3>3. Only(ms, FileKind \cup {"EOF"})
      BY <2>3 DEF Only
    <3>4. Only(r.down, FileKind \cup {"EOF"})
      BY <1>b, <2>2, <2>3, <2>6, <3>1, <3>3, OnlyConcat
    <3>5. vm.pc \in {"get", "name", "body"}
      BY <1>b, <2>2, <2>6
    <3> QED BY <3>1, <3>2, <3>4, <3>5 DEF Talk
  <2> QED BY <2>2, <2>4, <2>5, <2>6, <1>0, <1>s, ContinueTalks DEF Serving
<1>5. CASE SendFilesEnd
  <2>. DEFINE ms == <<Hdr("EOF")>>
              r  == Down(old, ms)
  <2>2. Continue("header", r) /\ spc = "send"
    BY <1>5 DEF SendFilesEnd
  <2>3. /\ ms \in Seq(Msg) /\ Flow("header", ms) /\ Expects("header", ms) = "header"
        /\ Only(ms, {"EOF"})
    BY Words, OneMsg DEF After
  <2>. HIDE DEF ms
  <2>5. /\ r.up = old.up /\ r.srv = "open"
        /\ old.cli = "open" => r.down = old.down \o ms
    BY <2>3, DownWords
  <2>. HIDE DEF r
  <2>6. ASSUME vm.sock = Served PROVE Talk(vm.pc, r, "header")
    <3>1. old.down \in Seq(Msg) /\ r.down = old.down \o ms /\ r.up = <<>>
      BY <1>b, <2>2, <2>5, <2>6 DEF ConnState
    <3>2. Flow(ReadsAt(vm.pc), r.down)
      BY <1>b, <2>2, <2>3, <2>6, <3>1, FlowConcat
    <3>3. Only(ms, FileKind \cup {"EOF"})
      BY <2>3 DEF Only
    <3>4. Only(r.down, FileKind \cup {"EOF"})
      BY <1>b, <2>2, <2>3, <2>6, <3>1, <3>3, OnlyConcat
    <3>5. vm.pc \in {"get", "name", "body"}
      BY <1>b, <2>2, <2>6
    <3> QED BY <3>1, <3>2, <3>4, <3>5 DEF Talk
  <2> QED BY <2>2, <2>5, <2>6, <1>0, <1>s, ContinueTalks DEF Serving
<1> QED BY <1>2, <1>3, <1>4, <1>5

LEMMA VirshFrames ==
  ASSUME FrameInv, DeleteSnapshot \/ CreateSnapshot \/ AnswerCKY \/ RevertSnapshot
  PROVE  FlowInv' /\ TalkInv'
<1>. DEFINE old == conn[Served]
<1>0. client # Stdin /\ spc \in {"delete", "create", "cky", "revert"}
  BY DEF FrameInv, BookInv, Place, Serving, DeleteSnapshot, CreateSnapshot, AnswerCKY,
         RevertSnapshot
<1>. /\ Served \in Conn /\ old \in ConnState /\ old.srv = "open" /\ Flow(ReadsAt(spc), old.up)
     /\ conn \in [Conn -> ConnState]
     /\ vm.sock = Served => /\ Talk(vm.pc, old, spc) /\ old.cli = "open"
                            /\ vm.pc \in GuestPC \ {"run", "toGET", "toRES", "dead"}
  BY <1>0, ServedTalk DEF FrameInv, BookInv, TypeOK
<1>1. spc # "revert" /\ vm.sock = Served =>
        vm.pc \in {"ckp", "ping"} /\ old.up = <<>> /\ Only(old.down, {"CKN", "CKY"})
  BY <1>0 DEF Talk, GuestPC
<1>2. CASE DeleteSnapshot \/ CreateSnapshot
  <2>1. /\ UNCHANGED <<vm, conn, fd, client>> /\ spc' \in {"create", "cky"}
        /\ spc \in {"delete", "create"} /\ Served' = Served
    BY <1>2 DEF DeleteSnapshot, CreateSnapshot, guest, Served
  <2>2. \A c \in Conn : c # Served => Pos(c)' = Pos(c)
    BY <2>1 DEF Pos
  <2>3. Pos(Served) = spc /\ Pos(Served)' = spc'
    BY <2>1 DEF Pos
  <2>4. FlowInv'
    BY <2>1, <2>2, <2>3 DEF FrameInv, FlowInv, ReadsAt
  <2>5. vm.sock = Served => Talk(vm.pc, old, spc')
    BY <1>1, <2>1 DEF Talk
  <2>6. TalkInv'
    BY <2>1, <2>2, <2>3, <2>5 DEF FrameInv, TalkInv
  <2> QED BY <2>4, <2>6
<1>3. CASE AnswerCKY
  <2>. DEFINE ms == <<Hdr("CKY")>>
              r  == Down(old, ms)
  <2>1. Finish(conn, r) /\ vm' = vm /\ spc = "cky"
    BY <1>3 DEF AnswerCKY, guest
  <2>2. ms \in Seq(Msg) /\ Only(ms, {"CKN", "CKY"})
    BY OneMsg, HeaderKinds DEF Only
  <2>. HIDE DEF ms
  <2>3. r \in ConnState /\ (old.cli = "open" => r.cli = "open" /\ r.down = old.down \o ms)
    BY <2>2, DownWords
  <2>. HIDE DEF r
  <2>4. ASSUME vm.sock = Served PROVE r.cli = "open" /\ Talk(vm.pc, r, "gone")
    <3>1. r.cli = "open" /\ r.down = old.down \o ms
      BY <2>3, <2>4
    <3>2. Only(r.down, {"CKN", "CKY"}) /\ vm.pc \in {"ckp", "ping"}
      BY <3>1, <1>1, <2>1, <2>2, <2>4, OnlyConcat DEF ConnState
    <3> QED BY <3>1, <3>2 DEF Talk
  <2> QED BY <2>1, <2>3, <2>4, <1>0, ReturnTalks
<1>4. CASE RevertSnapshot
  <2>1. PICK ok \in {snap # NoSnap} \cup (IF VirshFails THEN {FALSE} ELSE {}) :
       /\ vm' = IF ok THEN snap ELSE vm
       /\ Finish(IF ok /\ vm.sock \in Conn
                 THEN [conn EXCEPT ![vm.sock] = CliLost(@)]
                 ELSE conn, conn[Served])
    BY <1>4 DEF RevertSnapshot
  <2>2. old.cli # "open" /\ vm.sock # Served
    BY <1>4 DEF RevertSnapshot, FrameInv, BookInv, Farewell
  <2>3. CASE ~ok
    <3>1. Finish(conn, old) /\ vm' = vm
      BY <2>1, <2>3
    <3> QED BY <3>1, <2>2, <1>0, ReturnTalks
  <2>4. CASE ok
    <3>. DEFINE conns == IF vm.sock \in Conn THEN [conn EXCEPT ![vm.sock] = CliLost(@)] ELSE conn
    <3>1. vm'.sock \notin Conn
      BY <2>1, <2>4 DEF FrameInv, BookInv, SnapSock
    <3>2. Finish(conns, old)
      BY <2>1, <2>4
    <3>3. conns \in [Conn -> ConnState]
      BY ConnType
    <3>4. \A q \in ConnState : CliLost(q).srv = "open" => q.srv = "open" /\ CliLost(q).up = q.up
      BY DEF CliLost, Settled, FreeConn, ConnState
    <3>5. \A c \in Conn : conns[c].srv = "open" => conn[c].srv = "open" /\ conns[c].up = conn[c].up
      <4>1. \A c \in Conn : conns[c] \in {conn[c], CliLost(conn[c])} /\ conn[c] \in ConnState
        OBVIOUS
      <4> HIDE DEF conns
      <4> QED BY <4>1, <3>4
    <3>. HIDE DEF conns
    <3> QED BY <3>1, <3>2, <3>3, <3>5, <1>0, FinishTalks
  <2> QED BY <2>3, <2>4
<1> QED BY <1>2, <1>3, <1>4

LEMMA LoopFrames ==
  ASSUME FrameInv,
         Select \/ StdinTurn \/ CinLine \/ CinWord \/ Accept \/ Serve \/ Restart
  PROVE  FlowInv' /\ TalkInv'
<1>1. UNCHANGED <<vm, conn>> /\ spc \notin Serving
  BY DEF Select, StdinTurn, CinLine, CinWord, Accept, Serve, Restart, Turn, guest, Serving
<1>2. Served = NoConn
  BY <1>1 DEF FrameInv, BookInv, Place, Served
<1>3. client' = Stdin \/ spc' = "header"
  BY <1>1 DEF Select, StdinTurn, CinLine, CinWord, Accept, Serve, Restart, host, FrameInv,
              BookInv, Place
<1>4. \A c \in Conn : Served' = c => spc' = "header"
  BY <1>3 DEF Served
<1>5. \A c \in Conn : Pos(c)' = Pos(c)
  BY <1>1, <1>2, <1>4 DEF Pos
<1> QED BY <1>1, <1>5 DEF FrameInv, FlowInv, TalkInv

\* A server that is gone leaves what it had sent.
LEMMA GoneFrames ==
  ASSUME FrameInv, Gone
  PROVE  FlowInv' /\ TalkInv'
<1>1. /\ vm' = vm
      /\ \A c \in Conn : conn'[c] = IF conn[c].srv # "open" THEN conn[c]
                                    ELSE IF Accepted(c) THEN SrvClose(conn[c])
                                    ELSE SrvReset(conn[c])
  BY DEF Gone, guest
<1>2. \A c \in Conn : conn[c] \in ConnState
  BY DEF FrameInv, BookInv, TypeOK
<1>3. \A r \in ConnState : /\ SrvClose(r).srv # "open" /\ SrvReset(r).srv # "open"
                           /\ r.cli = "open" => SrvClose(r).down = r.down /\ SrvReset(r).down = r.down
  BY EndsApart DEF SrvClose, SrvReset, Settled, ConnState
<1>4. \A c \in Conn : conn'[c].srv # "open" /\ (conn[c].cli = "open" => conn'[c].down = conn[c].down)
  BY <1>1, <1>2, <1>3
<1>5. \A c \in Conn : Pos(c)' = "gone"
  BY <1>4 DEF Pos
<1>6. ASSUME vm.sock \in Conn PROVE Talk(vm.pc, conn'[vm.sock], "gone")
  <2>1. conn[vm.sock].cli = "open" /\ Talk(vm.pc, conn[vm.sock], Pos(vm.sock))
    BY <1>6 DEF FrameInv, BookInv, Bookkeeping, TalkInv
  <2>2. \A pc, a, b, p : Talk(pc, a, p) /\ b.down = a.down => Talk(pc, b, "gone")
    BY DEF Talk
  <2> QED BY <2>1, <2>2, <1>4, <1>6
<1> QED BY <1>1, <1>5, <1>6 DEF FlowInv, TalkInv

\* A server that reads out of place is as good as gone: it says nothing.
LEMMA AstrayFrames ==
  ASSUME FrameInv, ReadTimeout \/ Misread
  PROVE  FlowInv' /\ TalkInv'
<1>. DEFINE old == conn[Served]
            r == conn'[Served]
<1>1. client # Stdin /\ vm' = vm /\ spc' = "astray" /\ UNCHANGED <<fd, client>>
  BY DEF FrameInv, BookInv, Place, Serving, ReadTimeout, Misread, Continue, guest
<1>2. Served \in Conn /\ Served' = Served
  BY <1>1, ServedConn DEF FrameInv, Served
<1>3. \A c \in Conn : c # Served => conn'[c] = conn[c]
  BY <1>2 DEF ReadTimeout, Misread, Continue, FrameInv, BookInv, TypeOK
<1>4. r.down = old.down
  BY <1>2 DEF ReadTimeout, Misread, Continue, Read, FrameInv, BookInv, TypeOK, ConnState
<1>5. \A c \in Conn : IF c = Served THEN Pos(c)' = "gone" ELSE Pos(c)' = Pos(c)
  <2>. HIDE DEF old, r
  <2> QED BY <1>1, <1>2, <1>3 DEF Pos
<1>6. FlowInv'
  BY <1>3, <1>5 DEF FrameInv, FlowInv
<1>7. ASSUME vm.sock = Served PROVE Talk(vm.pc, r, "gone")
  <2>1. Talk(vm.pc, old, Pos(Served))
    BY <1>2, <1>7 DEF FrameInv, TalkInv
  <2>2. \A pc, a, b, q : Talk(pc, a, q) /\ b.down = a.down => Talk(pc, b, "gone")
    BY DEF Talk
  <2>. HIDE DEF old, r
  <2> QED BY <2>1, <2>2, <1>4
<1>8. TalkInv'
  BY <1>1, <1>2, <1>3, <1>5, <1>7 DEF FrameInv, TalkInv
<1> QED BY <1>6, <1>8

LEMMA FrameStep == ASSUME FrameInv, [Next]_vars PROVE FrameInv'
<1>1. BookInv'
  BY BookStep DEF FrameInv
<1>2. FlowInv' /\ TalkInv'
  <2>1. CASE UNCHANGED vars
    <3>1. UNCHANGED <<vm, conn, fd, client, spc>>
      BY <2>1 DEF vars, guest, host
    <3>2. vm'.sock \in Conn => vm'.sock = vm.sock /\ Talk(vm'.pc, conn[vm.sock], Pos(vm.sock))
      BY <3>1 DEF FrameInv, TalkInv
    <3> QED BY <3>1, <3>2, NothingSaid
  <2>2. CASE Abort \/ Unsupported \/ Crash
    BY <2>2, GoneFrames DEF Abort, Unsupported, Crash
  <2>3. CASE Next /\ ~(Abort \/ Unsupported \/ Crash)
    BY <2>3, GuestFrames, HeaderFrames, FileFrames, VirshFrames, LoopFrames, AstrayFrames DEF Next, ServerStep
  <2> QED BY <2>1, <2>2, <2>3
<1> QED BY <1>1, <1>2 DEF FrameInv

LEMMA FrameInit == Init => FrameInv
<1> SUFFICES ASSUME Init PROVE FrameInv
  OBVIOUS
<1>1. \A c \in Conn : conn[c].srv = "free"
  BY DEF Init, FreeConn
<1>2. vm.sock = NoConn
  BY DEF Init, Fresh
<1>3. FlowInv /\ TalkInv
  BY <1>1, <1>2 DEF FlowInv, TalkInv, Pos
<1> QED BY <1>3, BookInit DEF FrameInv

LEMMA FrameMeans == FrameInv => InTurn
<1> SUFFICES ASSUME FrameInv PROVE InTurn
  OBVIOUS
<1>1. ASSUME spc \in {"header", "name", "body"}, conn[Served].up # <<>>
      PROVE  /\ spc = "header" => Head(conn[Served].up).kind \in
                                    {"GET", "SET", "CKP", "RES", "EOF", "END"}
             /\ spc # "header" => Head(conn[Served].up).kind = spc
  <2>1. client # Stdin
    BY <1>1 DEF FrameInv, BookInv, Place, Serving
  <2>2. conn[Served].up \in Seq(Msg) /\ Flow(ReadsAt(spc), conn[Served].up)
    BY <1>1, <2>1, ServedTalk DEF ConnState
  <2>3. Fits(ReadsAt(spc), Head(conn[Served].up).kind)
    BY <1>1, <2>2, FlowTail
  <2> QED BY <1>1, <2>3 DEF Fits, ReadsAt
<1>2. ASSUME vm.sock \in Conn, Sock.down # <<>>
      PROVE  /\ vm.pc = "ckp"  => Head(Sock.down).kind \in {"CKN", "CKY"}
             /\ vm.pc = "get"  => Head(Sock.down).kind \in {"SET", "EOF"}
             /\ vm.pc = "name" => Head(Sock.down).kind = "name"
             /\ vm.pc = "body" => Head(Sock.down).kind = "body"
             /\ vm.pc = "end"  => Head(Sock.down).kind = "END"
  <2>1. Sock.down \in Seq(Msg) /\ Talk(vm.pc, Sock, Pos(vm.sock))
    BY <1>2, Speaking DEF Sock, ConnState
  <2>2. CASE vm.pc = "ckp"
    <3>1. Only(Sock.down, {"CKN", "CKY"})
      BY <2>1, <2>2 DEF Talk
    <3> QED BY <3>1, <2>1, <2>2, <1>2, OnlyTail
  <2>3. CASE vm.pc = "end"
    <3>1. Only(Sock.down, {"END"})
      BY <2>1, <2>3 DEF Talk
    <3> QED BY <3>1, <2>1, <2>3, <1>2, OnlyTail
  <2>4. CASE vm.pc \in {"get", "name", "body"}
    <3>1. Flow(ReadsAt(vm.pc), Sock.down) /\ Only(Sock.down, FileKind \cup {"EOF"})
      BY <2>1, <2>4 DEF Talk
    <3>2. Fits(ReadsAt(vm.pc), Head(Sock.down).kind)
      BY <3>1, <2>1, <1>2, FlowTail
    <3>3. Head(Sock.down).kind \in FileKind \cup {"EOF"}
      BY <3>1, <2>1, <1>2, OnlyTail
    <3> QED BY <3>2, <3>3, <2>4 DEF Fits, ReadsAt, FileKind
  <2> QED BY <2>2, <2>3, <2>4
<1> QED BY <1>1, <1>2 DEF InTurn, Next1

\* Whatever is interrupted, and however the connections of one program, of the
\* one killed before it and of the guest reverted away overlap, neither start()
\* of the client nor serveClient ever takes a message for something else.
THEOREM ProtocolKept == Spec => []InTurn
<1>1. FrameInv /\ [Next]_vars => FrameInv'
  BY FrameStep
<1> QED BY FrameInit, FrameMeans, <1>1, PTL DEF Spec
================================================================================
