--------------------------------- MODULE CPIO ---------------------------------
(***************************************************************************)
(* CheckPoint/CPIO.cpp: the loops that turn read(2) and write(2), which    *)
(* may move fewer bytes than asked, into cpRead and cpWrite, which return  *)
(* only when they have moved them all.  One direction of one connection:   *)
(* a sender that calls cpWrite until it has handed over N bytes, the two   *)
(* kernels' socket buffers as one FIFO of at most Cap bytes, and a         *)
(* receiver that calls cpRead, asking in all for the same N bytes.         *)
(*                                                                         *)
(* CPServer.cpp sets SO_RCVTIMEO and SO_SNDTIMEO on the sockets it accepts *)
(* (RcvTimeo, SndTimeo); the client's sockets have neither.  A timeout     *)
(* makes the call return -1 with errno = EAGAIN, and the loops subtract    *)
(* that -1 from the count and add it to the pointer.                       *)
(***************************************************************************)
EXTENDS Integers, Sequences

CONSTANTS
  N,          \* bytes of the conversation
  MaxLen,     \* longest single cpRead or cpWrite (CP_BUF_SIZE)
  Cap,        \* capacity of the socket buffers
  SndTimeo,   \* whether a write may time out
  RcvTimeo,   \* whether a read may time out
  MayDie,     \* whether either process may end before it is done
  MaxStall    \* bound on the timeouts of one call

ASSUME ConstAssumption ==
  /\ N \in Nat
  /\ MaxLen \in Nat \ {0}
  /\ Cap \in Nat \ {0}
  /\ MaxStall \in Nat
  /\ {SndTimeo, RcvTimeo, MayDie} \subseteq BOOLEAN

VARIABLES
  wpc,        \* sender: "idle", "call" (in cpWrite), "closed", "abort"
  wbase,      \* bytes of the calls that have returned
  wn,         \* length of the current call
  wlen,       \* writeLen, what the loop still has to write
  wptr,       \* ptr - writeBuf
  pipe,       \* bytes in flight
  rpc,        \* receiver: "idle", "call" (in cpRead), "ret" (returned), "gone"
  rbase,      \* bytes of the calls the caller is done with
  rn,         \* length of the current call
  rlen,       \* readLen
  rptr,       \* ptr - readBuf
  rbuf        \* the receive buffer and the bytes just before it

wvars == <<wpc, wbase, wn, wlen, wptr>>
rvars == <<rpc, rbase, rn, rlen, rptr, rbuf>>
vars  == <<wvars, pipe, rvars>>

Offset == (-MaxStall) .. (MaxLen - 1)
Junk   == 0                           \* whatever lies outside the message

\* The byte at offset i of the buffer the sender passed to cpWrite.
WByte(i) == IF i \in 0 .. (wn - 1) THEN wbase + 1 + i ELSE Junk

Init ==
  /\ wpc = "idle" /\ wbase = 0 /\ wn = 0 /\ wlen = 0 /\ wptr = 0
  /\ pipe = <<>>
  /\ rpc = "idle" /\ rbase = 0 /\ rn = 0 /\ rlen = 0 /\ rptr = 0
  /\ rbuf = [i \in Offset |-> Junk]

-------------------------------------------------------------------------------
(* cpWrite *)

WriteCall ==
  /\ wpc = "idle"
  /\ \E n \in 1 .. MaxLen :
       /\ wbase + n <= N
       /\ wn' = n /\ wlen' = n
  /\ wptr' = 0
  /\ wpc' = "call"
  /\ UNCHANGED <<wbase, pipe, rvars>>

\* Mutants: the pointer is not moved; write() takes a call whole or not at all.
WriteFromStart ==
  /\ wpc = "call" /\ rpc # "gone"
  /\ \E cnt \in 1 .. wlen :
       /\ Len(pipe) + cnt <= Cap
       /\ pipe' = pipe \o [i \in 1 .. cnt |-> WByte(i - 1)]
       /\ IF wlen = cnt
          THEN /\ wpc' = "idle" /\ wbase' = wbase + wn
               /\ wn' = 0 /\ wlen' = 0 /\ wptr' = 0
          ELSE /\ wlen' = wlen - cnt /\ wptr' = wptr + cnt
               /\ UNCHANGED <<wpc, wbase, wn>>
  /\ UNCHANGED rvars

WriteWhole ==
  /\ wpc = "call" /\ Len(pipe) + wlen <= Cap
  /\ pipe' = pipe \o [i \in 1 .. wlen |-> WByte(i - 1)]
  /\ wpc' = "idle" /\ wbase' = wbase + wn
  /\ wn' = 0 /\ wlen' = 0 /\ wptr' = 0
  /\ UNCHANGED rvars

\* write() took cnt bytes; the loop ends when nothing is left.
Write ==
  /\ wpc = "call" /\ rpc # "gone"
  /\ \E cnt \in 1 .. wlen :
       /\ Len(pipe) + cnt <= Cap
       /\ pipe' = pipe \o [i \in 1 .. cnt |-> WByte(wptr + i - 1)]
       /\ IF wlen = cnt
          THEN /\ wpc' = "idle" /\ wbase' = wbase + wn
               /\ wn' = 0 /\ wlen' = 0 /\ wptr' = 0
          ELSE /\ wlen' = wlen - cnt /\ wptr' = wptr + cnt
               /\ UNCHANGED <<wpc, wbase, wn>>
  /\ UNCHANGED rvars

\* The buffers stayed full for the whole SO_SNDTIMEO: write() returns -1 with
\* EAGAIN, and -1 goes into the count and the pointer.
WriteTimeout ==
  /\ SndTimeo /\ wpc = "call" /\ rpc # "gone"
  /\ Len(pipe) = Cap /\ wptr > -MaxStall
  /\ wlen' = wlen + 1 /\ wptr' = wptr - 1
  /\ UNCHANGED <<wpc, wbase, wn, pipe, rvars>>

\* The receiver is gone: write() returns -1 with another errno (EPIPE or
\* ECONNRESET) and the loop asserts; what it had counted as left stays unsent.
WriteError ==
  /\ wpc = "call" /\ rpc = "gone"
  /\ wpc' = "abort"
  /\ UNCHANGED <<wbase, wn, wlen, wptr, pipe, rvars>>

\* The sender closes its end: when it has nothing left to say, or earlier if
\* its process ends.
Close ==
  /\ \/ wpc = "idle" /\ wbase = N
     \/ MayDie /\ wpc \in {"idle", "call"}
  /\ wpc' = "closed"
  /\ UNCHANGED <<wbase, wn, wlen, wptr, pipe, rvars>>

-------------------------------------------------------------------------------
(* cpRead *)

ReadCall ==
  /\ rpc \in {"idle", "ret"}
  /\ LET done == rbase + rn IN
     \E n \in 1 .. MaxLen :
       /\ done + n <= N
       /\ rbase' = done /\ rn' = n /\ rlen' = n
  /\ rptr' = 0
  /\ rpc' = "call"
  /\ UNCHANGED <<wvars, pipe, rbuf>>

\* Mutant: every piece is stored at the start of the buffer.
ReadToStart ==
  /\ rpc = "call"
  /\ \E cnt \in 1 .. rlen :
       /\ cnt <= Len(pipe)
       /\ rbuf' = [i \in Offset |-> IF i \in 0 .. (cnt - 1) THEN pipe[i + 1] ELSE rbuf[i]]
       /\ pipe' = SubSeq(pipe, cnt + 1, Len(pipe))
       /\ rlen' = rlen - cnt /\ rptr' = rptr + cnt
       /\ rpc' = IF rlen = cnt THEN "ret" ELSE "call"
  /\ UNCHANGED <<wvars, rbase, rn>>

\* read() returned cnt bytes, stored from ptr on.
Read ==
  /\ rpc = "call"
  /\ \E cnt \in 1 .. rlen :
       /\ cnt <= Len(pipe)
       /\ rbuf' = [i \in Offset |->
                     IF i \in rptr .. (rptr + cnt - 1) THEN pipe[i - rptr + 1]
                                                       ELSE rbuf[i]]
       /\ pipe' = SubSeq(pipe, cnt + 1, Len(pipe))
       /\ rlen' = rlen - cnt /\ rptr' = rptr + cnt
       /\ rpc' = IF rlen = cnt THEN "ret" ELSE "call"
  /\ UNCHANGED <<wvars, rbase, rn>>

\* Mutant: the -1 goes into the pointer only.
ReadTimeoutHalf ==
  /\ RcvTimeo /\ rpc = "call" /\ wpc # "closed"
  /\ pipe = <<>> /\ rptr > -MaxStall
  /\ rptr' = rptr - 1
  /\ UNCHANGED <<wvars, pipe, rpc, rbase, rn, rlen, rbuf>>

\* Nothing arrived for the whole SO_RCVTIMEO: read() returns -1 with EAGAIN.
ReadTimeout ==
  /\ RcvTimeo /\ rpc = "call" /\ wpc # "closed"
  /\ pipe = <<>> /\ rptr > -MaxStall
  /\ rlen' = rlen + 1 /\ rptr' = rptr - 1
  /\ UNCHANGED <<wvars, pipe, rpc, rbase, rn, rbuf>>

\* The connection was reset by a sender that died: read() returns -1 with another
\* errno and the loop asserts.  (A sender that merely closed makes read() return 0,
\* on which the loop goes round without any change of state.)
ReadError ==
  /\ rpc = "call" /\ wpc = "closed" /\ wbase < N
  /\ pipe = <<>>
  /\ rpc' = "gone"
  /\ UNCHANGED <<wvars, pipe, rbase, rn, rlen, rptr, rbuf>>

\* The receiving process ends (one that ends between two calls might as well
\* have ended at the start of the second).
ReaderDies ==
  /\ MayDie /\ rpc \in {"idle", "call"}
  /\ rpc' = "gone"
  /\ UNCHANGED <<wvars, pipe, rbase, rn, rlen, rptr, rbuf>>

-------------------------------------------------------------------------------
Next ==
  \/ WriteCall \/ Write \/ WriteTimeout \/ WriteError \/ Close
  \/ ReadCall \/ Read \/ ReadTimeout \/ ReadError \/ ReaderDies

\* Both loops run until they are done, both callers go on calling, and the
\* kernels move bytes; nothing obliges a timeout, a reset or a death.
Fairness ==
  /\ WF_vars(WriteCall) /\ WF_vars(Write)
  /\ WF_vars(ReadCall) /\ WF_vars(Read)

Spec == Init /\ [][Next]_vars /\ Fairness

-------------------------------------------------------------------------------
TypeOK ==
  /\ wpc \in {"idle", "call", "closed", "abort"}
  /\ wbase \in 0 .. N /\ wn \in 0 .. MaxLen
  /\ wlen \in 0 .. (MaxLen + MaxStall) /\ wptr \in (-MaxStall) .. MaxLen
  /\ pipe \in Seq(0 .. N)
  /\ rpc \in {"idle", "call", "ret", "gone"}
  /\ rbase \in 0 .. N /\ rn \in 0 .. MaxLen
  /\ rlen \in 0 .. (MaxLen + MaxStall) /\ rptr \in (-MaxStall) .. MaxLen
  /\ rbuf \in [Offset -> 0 .. N]

\* When cpRead returns, its buffer holds the next bytes of the stream: none
\* lost, repeated or shifted, however read() and write() split the transfer.
ExactRead ==
  rpc = "ret" => \A i \in 0 .. (rn - 1) : rbuf[i] = rbase + 1 + i

\* The count cpRead returns, ptr - readBuf, is what was asked for even when a
\* timeout shifted the data: assert(sockIO.cpRead(buf, 3) == 3) in the callers
\* cannot tell the two apart.
FullCount == rpc = "ret" => rptr = rn /\ rlen = 0

\* The arithmetic behind FullCount: the loops' pointer and remaining count always
\* add up to what was asked, timeouts or not.
Counts ==
  /\ wptr + wlen = wn /\ wbase + wn <= N
  /\ rptr + rlen = rn /\ rbase + rn <= N
  /\ (wpc = "idle" => wn = 0 /\ wlen = 0)
  /\ (rpc = "idle" => rn = 0 /\ rlen = 0) /\ (rpc = "ret" => rlen = 0)

\* Where every byte is while no timeout interferes: in the sender's buffer, in
\* flight in its turn, or in its place in the receiver's buffer.
InPlace ==
  /\ wptr >= 0 /\ rptr >= 0
  /\ Len(pipe) = (wbase + wptr) - (rbase + rptr)
  /\ \A i \in 1 .. Len(pipe) : pipe[i] = rbase + rptr + i
  /\ \A i \in 0 .. (rptr - 1) : rbuf[i] = rbase + 1 + i

\* All that the sender hands over arrives.
AllArrives == <>(rbase + rn = N /\ rpc = "ret")

\* CPIO implements the transport the protocol assumes.
Stream == INSTANCE ByteStream WITH
  sent  <- wbase + wptr,
  rcvd  <- rbase + (IF rpc = "ret" THEN rn ELSE 0),
  chunk <- IF rpc = "ret" THEN [i \in 1 .. rn |-> rbuf[i - 1]] ELSE <<>>

StreamSpec == Stream!Spec
===============================================================================
