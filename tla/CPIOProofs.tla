------------------------------ MODULE CPIOProofs ------------------------------
(***************************************************************************)
(* Proofs about CPIO, for conversations, buffers and calls of any length.  *)
(***************************************************************************)
EXTENDS CPIO, SequenceTheorems, TLAPS

USE ConstAssumption DEF ConstAssumption

\* What the sender's buffer holds is a byte of the conversation or junk.
LEMMA WByteType ==
  ASSUME TypeOK, wbase + wn <= N, NEW i \in Int
  PROVE  WByte(i) \in 0 .. N
  BY DEF WByte, Junk, TypeOK

\* A write appends the bytes at the pointer to what is in flight.
LEMMA WritePipe ==
  ASSUME TypeOK, Counts, NEW cnt \in 1 .. wlen,
         pipe' = pipe \o [i \in 1 .. cnt |-> WByte(wptr + i - 1)]
  PROVE  /\ pipe' \in Seq(0 .. N)
         /\ Len(pipe') = Len(pipe) + cnt
         /\ \A i \in 1 .. Len(pipe') :
              pipe'[i] = IF i <= Len(pipe) THEN pipe[i]
                                           ELSE WByte(wptr + (i - Len(pipe)) - 1)
<1> DEFINE new == [i \in 1 .. cnt |-> WByte(wptr + i - 1)]
<1>1. cnt \in Nat /\ wptr \in Int
  BY DEF TypeOK
<1>2. \A i \in 1 .. cnt : WByte(wptr + i - 1) \in 0 .. N
  <2>. TAKE i \in 1 .. cnt
  <2>1. wptr + i - 1 \in Int
    BY <1>1
  <2>2. wbase + wn <= N
    BY DEF Counts
  <2>. HIDE DEF new
  <2> QED BY <2>1, <2>2, WByteType
<1>3. new \in Seq(0 .. N) /\ Len(new) = cnt
  <2>1. new \in [1 .. cnt -> 0 .. N]
    BY <1>2
  <2>. HIDE DEF new
  <2> QED BY <2>1, <1>1, SeqDef
<1>4. pipe \in Seq(0 .. N) /\ Len(pipe) \in Nat
  BY DEF TypeOK
<1>5. \A j \in 1 .. cnt : new[j] = WByte(wptr + j - 1)
  OBVIOUS
<1>. HIDE DEF new
<1>6. pipe' = pipe \o new
  BY DEF new
<1>7. /\ pipe' \in Seq(0 .. N)
      /\ Len(pipe') = Len(pipe) + cnt
      /\ \A i \in 1 .. Len(pipe) + cnt :
           pipe'[i] = IF i <= Len(pipe) THEN pipe[i] ELSE new[i - Len(pipe)]
  <2>1. /\ pipe \o new \in Seq(0 .. N)
        /\ Len(pipe \o new) = Len(pipe) + Len(new)
        /\ \A i \in 1 .. Len(pipe) + Len(new) :
             (pipe \o new)[i] = IF i <= Len(pipe) THEN pipe[i] ELSE new[i - Len(pipe)]
    BY ONLY <1>3, <1>4, ConcatProperties
  <2> QED BY ONLY <2>1, <1>3, <1>6
<1>8. ASSUME NEW i \in 1 .. Len(pipe) + cnt, ~(i <= Len(pipe))
      PROVE  new[i - Len(pipe)] = WByte(wptr + (i - Len(pipe)) - 1)
  <2>1. i - Len(pipe) \in 1 .. cnt
    BY <1>1, <1>4, <1>8
  <2> QED BY <2>1, <1>5
<1> QED BY <1>7, <1>8

\* A read takes the bytes at the front of what is in flight.
LEMMA ReadPipe ==
  ASSUME TypeOK, NEW cnt \in 1 .. Len(pipe),
         pipe' = SubSeq(pipe, cnt + 1, Len(pipe))
  PROVE  /\ pipe' \in Seq(0 .. N)
         /\ Len(pipe') = Len(pipe) - cnt
         /\ \A i \in 1 .. Len(pipe') : pipe'[i] = pipe[cnt + i]
<1>1. pipe \in Seq(0 .. N) /\ Len(pipe) \in Nat /\ cnt + 1 \in Int
  BY DEF TypeOK
<1>2. \A i \in (cnt + 1) .. Len(pipe) : pipe[i] \in 0 .. N
  BY <1>1, ElementOfSeq
<1>3. /\ SubSeq(pipe, cnt + 1, Len(pipe)) \in Seq(0 .. N)
      /\ Len(SubSeq(pipe, cnt + 1, Len(pipe)))
           = IF cnt + 1 <= Len(pipe) THEN Len(pipe) - (cnt + 1) + 1 ELSE 0
      /\ \A i \in 1 .. Len(pipe) - (cnt + 1) + 1 :
           SubSeq(pipe, cnt + 1, Len(pipe))[i] = pipe[cnt + 1 + i - 1]
  BY <1>1, <1>2, SubSeqProperties
<1> QED BY <1>1, <1>3

LEMMA CountingInit == Init => TypeOK /\ Counts
<1> SUFFICES ASSUME Init PROVE TypeOK /\ Counts
  OBVIOUS
<1>1. pipe \in Seq(0 .. N)
  BY EmptySeq DEF Init
<1>2. rbuf \in [Offset -> 0 .. N]
  BY DEF Init, Junk
<1> QED BY <1>1, <1>2 DEF Init, TypeOK, Counts

LEMMA CountingStep ==
  ASSUME TypeOK, Counts, [Next]_vars
  PROVE  TypeOK' /\ Counts'
<1>1. CASE WriteCall
  BY <1>1 DEF WriteCall, rvars, TypeOK, Counts
<1>2. CASE Write
  <2>1. PICK cnt \in 1 .. wlen :
          /\ pipe' = pipe \o [i \in 1 .. cnt |-> WByte(wptr + i - 1)]
          /\ IF wlen = cnt
             THEN wpc' = "idle" /\ wbase' = wbase + wn /\ wn' = 0 /\ wlen' = 0 /\ wptr' = 0
             ELSE wlen' = wlen - cnt /\ wptr' = wptr + cnt /\ UNCHANGED <<wpc, wbase, wn>>
    BY <1>2 DEF Write
  <2>2. pipe' \in Seq(0 .. N)
    BY <2>1, WritePipe
  <2>3. UNCHANGED rvars
    BY <1>2 DEF Write
  <2>4. wpc = "call" /\ cnt \in Nat /\ cnt <= wlen
    BY <2>1, <1>2 DEF Write, TypeOK
  <2>5. /\ wpc' \in {"idle", "call", "closed", "abort"} /\ (wpc' = "idle" => wn' = 0 /\ wlen' = 0)
        /\ wbase' \in 0 .. N /\ wn' \in 0 .. MaxLen
        /\ wlen' \in 0 .. (MaxLen + MaxStall) /\ wptr' \in (-MaxStall) .. MaxLen
        /\ wptr' + wlen' = wn' /\ wbase' + wn' <= N
    <3>1. CASE wlen = cnt
      BY <3>1, <2>1, <2>4 DEF TypeOK, Counts
    <3>2. CASE wlen # cnt
      BY <3>2, <2>1, <2>4 DEF TypeOK, Counts
    <3> QED BY <3>1, <3>2
  <2> QED BY <2>2, <2>3, <2>5 DEF rvars, TypeOK, Counts
<1>3. CASE WriteTimeout
  BY <1>3 DEF WriteTimeout, rvars, TypeOK, Counts
<1>4. CASE Close
  BY <1>4 DEF Close, rvars, TypeOK, Counts
<1>5. CASE ReadCall
  BY <1>5 DEF ReadCall, wvars, TypeOK, Counts
<1>6. CASE Read
  <2>1. PICK cnt \in 1 .. rlen :
          /\ cnt <= Len(pipe)
          /\ rbuf' = [i \in Offset |->
                IF i \in rptr .. (rptr + cnt - 1) THEN pipe[i - rptr + 1] ELSE rbuf[i]]
          /\ pipe' = SubSeq(pipe, cnt + 1, Len(pipe))
          /\ rlen' = rlen - cnt /\ rptr' = rptr + cnt
          /\ rpc' = IF rlen = cnt THEN "ret" ELSE "call"
    BY <1>6 DEF Read
  <2>2. cnt \in 1 .. Len(pipe)
    BY <2>1 DEF TypeOK
  <2>3. pipe' \in Seq(0 .. N)
    BY <2>1, <2>2, ReadPipe
  <2>4. rbuf' \in [Offset -> 0 .. N]
    <3>1. \A i \in 1 .. cnt : pipe[i] \in 0 .. N
      BY <2>2, ElementOfSeq DEF TypeOK
    <3>2. \A i \in Offset :
            (IF i \in rptr .. (rptr + cnt - 1) THEN pipe[i - rptr + 1] ELSE rbuf[i]) \in 0 .. N
      BY <3>1, <2>1 DEF TypeOK, Offset
    <3> QED BY <3>2, <2>1
  <2>5. UNCHANGED <<wvars, rbase, rn>>
    BY <1>6 DEF Read
  <2> QED BY <2>1, <2>3, <2>4, <2>5 DEF wvars, TypeOK, Counts
<1>7. CASE ReadTimeout
  BY <1>7 DEF ReadTimeout, wvars, TypeOK, Counts
<1>8. CASE ReadError
  BY <1>8 DEF ReadError, wvars, TypeOK, Counts
<1>9. CASE WriteError
  BY <1>9 DEF WriteError, rvars, TypeOK, Counts
<1>10. CASE ReaderDies
  BY <1>10 DEF ReaderDies, wvars, TypeOK, Counts
<1>11. CASE UNCHANGED vars
  BY <1>11 DEF vars, wvars, rvars, TypeOK, Counts
<1> QED BY <1>1, <1>2, <1>3, <1>4, <1>5, <1>6, <1>7, <1>8, <1>9, <1>10, <1>11 DEF Next

\* Type correctness, and with it that pointer and count always add up, whatever
\* times out or dies.
THEOREM Counting == Spec => [](TypeOK /\ Counts)
<1>1. TypeOK /\ Counts /\ [Next]_vars => (TypeOK /\ Counts)'
  BY CountingStep
<1> QED BY CountingInit, <1>1, PTL DEF Spec

\* The count cpRead returns (CPIO.cpp:33) is what was asked for, always: the
\* callers' assertions on it cannot fail.
THEOREM CountIsFull == Spec => []FullCount
<1>1. TypeOK /\ Counts => FullCount
  BY DEF TypeOK, Counts, FullCount
<1> QED BY <1>1, Counting, PTL

-------------------------------------------------------------------------------
(* From here on: sockets without timeouts.                                  *)

Inv == TypeOK /\ Counts /\ InPlace

LEMMA InPlaceStep ==
  ASSUME ~SndTimeo, ~RcvTimeo, Inv, [Next]_vars
  PROVE  InPlace'
<1>. USE DEF Inv
<1>1. CASE WriteCall
  BY <1>1 DEF WriteCall, rvars, TypeOK, Counts, InPlace
<1>2. CASE Write
  <2>1. PICK cnt \in 1 .. wlen :
          /\ pipe' = pipe \o [i \in 1 .. cnt |-> WByte(wptr + i - 1)]
          /\ IF wlen = cnt
             THEN wpc' = "idle" /\ wbase' = wbase + wn /\ wn' = 0 /\ wlen' = 0 /\ wptr' = 0
             ELSE wlen' = wlen - cnt /\ wptr' = wptr + cnt /\ UNCHANGED <<wpc, wbase, wn>>
    BY <1>2 DEF Write
  <2>2. /\ cnt \in Nat /\ cnt <= wlen
        /\ wptr + cnt <= wn
    BY <2>1 DEF TypeOK, Counts
  <2>3. /\ Len(pipe') = Len(pipe) + cnt
        /\ \A i \in 1 .. Len(pipe') :
             pipe'[i] = IF i <= Len(pipe) THEN pipe[i]
                                          ELSE WByte(wptr + (i - Len(pipe)) - 1)
    BY <2>1, WritePipe
  <2>4. wbase' + wptr' = wbase + wptr + cnt /\ wptr' >= 0
    <3>1. CASE wlen = cnt
      BY <3>1, <2>1, <2>2 DEF TypeOK, Counts
    <3>2. CASE wlen # cnt
      BY <3>2, <2>1, <2>2 DEF TypeOK, InPlace
    <3> QED BY <3>1, <3>2
  <2>5. UNCHANGED <<rbase, rptr, rbuf>>
    BY <1>2 DEF Write, rvars
  <2>6. ASSUME NEW i \in 1 .. Len(pipe')
        PROVE  pipe'[i] = rbase + rptr + i
    <3>0. Len(pipe) \in Nat /\ i \in Int
      BY DEF TypeOK
    <3>1. CASE i <= Len(pipe)
      BY <3>1, <3>0, <2>3 DEF InPlace
    <3>2. CASE ~(i <= Len(pipe))
      <4>1. pipe'[i] = WByte(wptr + (i - Len(pipe)) - 1)
        BY <3>2, <2>3
      <4>2. wptr + (i - Len(pipe)) - 1 \in 0 .. (wn - 1)
        BY <3>2, <3>0, <2>2, <2>3 DEF TypeOK, InPlace
      <4>3. pipe'[i] = wbase + 1 + (wptr + (i - Len(pipe)) - 1)
        BY <4>1, <4>2 DEF WByte
      <4> QED BY <4>3, <3>0 DEF InPlace, TypeOK
    <3> QED BY <3>1, <3>2
  <2> QED BY <2>2, <2>3, <2>4, <2>5, <2>6 DEF InPlace, TypeOK
<1>3. CASE WriteTimeout
  BY <1>3 DEF WriteTimeout
<1>4. CASE Close
  BY <1>4 DEF Close, rvars, InPlace
<1>5. CASE ReadCall
  <2>1. rptr = rn /\ rptr' = 0 /\ rbase' = rbase + rn
    BY <1>5 DEF ReadCall, TypeOK, Counts
  <2> QED BY <2>1, <1>5 DEF ReadCall, wvars, TypeOK, InPlace
<1>6. CASE Read
  <2>1. PICK cnt \in 1 .. rlen :
          /\ cnt <= Len(pipe)
          /\ rbuf' = [i \in Offset |->
                IF i \in rptr .. (rptr + cnt - 1) THEN pipe[i - rptr + 1] ELSE rbuf[i]]
          /\ pipe' = SubSeq(pipe, cnt + 1, Len(pipe))
          /\ rptr' = rptr + cnt
    BY <1>6 DEF Read
  <2>2. cnt \in 1 .. Len(pipe) /\ rptr + cnt <= rn /\ Len(pipe) \in Nat
    BY <2>1 DEF TypeOK, Counts
  <2>3. /\ Len(pipe') = Len(pipe) - cnt
        /\ \A i \in 1 .. Len(pipe') : pipe'[i] = pipe[cnt + i]
    BY <2>1, <2>2, ReadPipe
  <2>4. UNCHANGED <<wbase, wptr, rbase>>
    BY <1>6 DEF Read, wvars
  <2>5. ASSUME NEW i \in 1 .. Len(pipe')
        PROVE  pipe'[i] = rbase' + rptr' + i
    <3>1. cnt + i \in 1 .. Len(pipe)
      BY <2>2, <2>3
    <3>2. pipe[cnt + i] = rbase + rptr + (cnt + i)
      BY <3>1 DEF InPlace
    <3> QED BY <3>2, <2>1, <2>2, <2>3, <2>4 DEF TypeOK
  <2>6. ASSUME NEW i \in 0 .. (rptr' - 1)
        PROVE  rbuf'[i] = rbase' + 1 + i
    <3>1. i \in Offset
      BY <2>1, <2>2 DEF TypeOK, Offset
    <3>2. CASE i < rptr
      BY <3>1, <3>2, <2>1, <2>4 DEF TypeOK, InPlace
    <3>3. CASE ~(i < rptr)
      <4>1. i - rptr + 1 \in 1 .. Len(pipe) /\ i \in rptr .. (rptr + cnt - 1)
        BY <3>3, <2>1, <2>2 DEF TypeOK
      <4>2. rbuf'[i] = pipe[i - rptr + 1]
        BY <4>1, <3>1, <2>1
      <4>3. pipe[i - rptr + 1] = rbase + rptr + (i - rptr + 1)
        BY <4>1 DEF InPlace
      <4> QED BY <4>2, <4>3, <2>4 DEF TypeOK
    <3> QED BY <3>2, <3>3
  <2> QED BY <2>1, <2>2, <2>3, <2>4, <2>5, <2>6 DEF InPlace, TypeOK
<1>7. CASE ReadTimeout
  BY <1>7 DEF ReadTimeout
<1>8. CASE ReadError
  BY <1>8 DEF ReadError, wvars, InPlace
<1>9. CASE WriteError
  BY <1>9 DEF WriteError, rvars, InPlace
<1>10. CASE ReaderDies
  BY <1>10 DEF ReaderDies, wvars, InPlace
<1>11. CASE UNCHANGED vars
  BY <1>11 DEF vars, wvars, rvars, InPlace
<1> QED BY <1>1, <1>2, <1>3, <1>4, <1>5, <1>6, <1>7, <1>8, <1>9, <1>10, <1>11 DEF Next

THEOREM Placing == ASSUME ~SndTimeo, ~RcvTimeo PROVE Spec => []Inv
<1>1. Init => Inv
  <2>1. Init => InPlace
    BY EmptySeq DEF Init, InPlace
  <2> QED BY <2>1, CountingInit DEF Inv
<1>2. Inv /\ [Next]_vars => Inv'
  <2> SUFFICES ASSUME Inv, [Next]_vars PROVE Inv'
    OBVIOUS
  <2>1. TypeOK' /\ Counts'
    BY CountingStep DEF Inv
  <2>2. InPlace'
    BY InPlaceStep
  <2> QED BY <2>1, <2>2 DEF Inv
<1> QED BY <1>1, <1>2, PTL DEF Spec

\* However read(2) and write(2) split a transfer, cpRead returns exactly the next
\* bytes of the stream, as long as no socket timeout expires (CPIO.cpp:13-57).
THEOREM ReadsExactly == ASSUME ~SndTimeo, ~RcvTimeo PROVE Spec => []ExactRead
<1>1. Inv => ExactRead
  <2> SUFFICES ASSUME Inv, rpc = "ret", NEW i \in 0 .. (rn - 1)
               PROVE  rbuf[i] = rbase + 1 + i
    BY DEF ExactRead
  <2>1. i \in 0 .. (rptr - 1)
    BY DEF Inv, TypeOK, Counts
  <2> QED BY <2>1 DEF Inv, InPlace
<1> QED BY <1>1, Placing, PTL

-------------------------------------------------------------------------------
(* CPIO implements ByteStream *)

Sent  == wbase + wptr
Rcvd  == rbase + (IF rpc = "ret" THEN rn ELSE 0)
Chunk == IF rpc = "ret" THEN [i \in 1 .. rn |-> rbuf[i - 1]] ELSE <<>>

LEMMA StreamInit == Init => Stream!Init
  BY DEF Init, Stream!Init

LEMMA StreamStep ==
  ASSUME ~SndTimeo, ~RcvTimeo, Inv, Inv', [Next]_vars
  PROVE  [Stream!Next]_<<Sent, Rcvd, Chunk>>
<1>. USE DEF Inv
<1>1. CASE WriteCall
  <2>1. Sent' = Sent
    BY <1>1 DEF WriteCall, Sent, TypeOK, Counts
  <2> QED BY <1>1, <2>1 DEF WriteCall, rvars, Rcvd, Chunk
<1>2. CASE Write
  <2>1. PICK cnt \in 1 .. wlen :
          IF wlen = cnt
          THEN wpc' = "idle" /\ wbase' = wbase + wn /\ wn' = 0 /\ wlen' = 0 /\ wptr' = 0
          ELSE wlen' = wlen - cnt /\ wptr' = wptr + cnt /\ UNCHANGED <<wpc, wbase, wn>>
    BY <1>2 DEF Write
  <2>2. cnt \in 1 .. (N - Sent) /\ Sent' = Sent + cnt
    <3>1. CASE wlen = cnt
      BY <3>1, <2>1 DEF TypeOK, Counts, Sent
    <3>2. CASE wlen # cnt
      BY <3>2, <2>1 DEF TypeOK, Counts, Sent
    <3> QED BY <3>1, <3>2
  <2>3. Rcvd' = Rcvd /\ Chunk' = Chunk
    BY <1>2 DEF Write, rvars, Rcvd, Chunk
  <2>4. Stream!Put
    BY <2>2, <2>3 DEF Stream!Put, Sent, Rcvd, Chunk
  <2> QED BY <2>4 DEF Stream!Next
<1>3. CASE WriteTimeout
  BY <1>3 DEF WriteTimeout
<1>4. CASE Close
  BY <1>4 DEF Close, rvars, Sent, Rcvd, Chunk
<1>5. CASE ReadCall
  <2>1. rbase' = rbase + rn /\ rpc' = "call" /\ UNCHANGED <<wbase, wptr>>
    BY <1>5 DEF ReadCall, wvars
  <2>2. Sent' = Sent /\ Chunk' = <<>>
    BY <2>1 DEF Sent, Chunk
  <2>3. Rcvd' = Rcvd
    <3>1. rpc = "idle" => rn = 0
      BY DEF TypeOK, Counts, InPlace
    <3> QED BY <3>1, <2>1, <1>5 DEF ReadCall, Rcvd, TypeOK
  <2>4. CASE Chunk = <<>>
    BY <2>2, <2>3, <2>4
  <2>5. CASE Chunk # <<>>
    <3>1. Stream!Consume
      BY <2>2, <2>3, <2>5 DEF Stream!Consume, Sent, Rcvd, Chunk
    <3> QED BY <3>1 DEF Stream!Next
  <2> QED BY <2>4, <2>5
<1>6. CASE Read
  <2>1. PICK cnt \in 1 .. rlen :
          /\ cnt <= Len(pipe)
          /\ rlen' = rlen - cnt /\ rptr' = rptr + cnt
          /\ rpc' = IF rlen = cnt THEN "ret" ELSE "call"
    BY <1>6 DEF Read
  <2>2. rpc = "call" /\ UNCHANGED <<wbase, wptr, rbase, rn>>
    BY <1>6 DEF Read, wvars
  <2>3. CASE rlen # cnt
    BY <2>1, <2>2, <2>3 DEF Sent, Rcvd, Chunk
  <2>4. CASE rlen = cnt
    <3>1. rn \in 1 .. (Sent - Rcvd) /\ Rcvd' = Rcvd + rn
      BY <2>1, <2>2, <2>4 DEF TypeOK, Counts, InPlace, Sent, Rcvd
    <3>2. \A i \in 1 .. rn : rbuf'[i - 1] = Rcvd + i
      BY <2>1, <2>2, <2>4 DEF TypeOK, Counts, InPlace, Rcvd
    <3>3. Chunk' = [i \in 1 .. rn |-> Rcvd + i]
      BY <3>2, <2>1, <2>2, <2>4 DEF Chunk
    <3>4. Chunk = <<>> /\ Sent' = Sent
      BY <2>2 DEF Chunk, Sent
    <3>5. Stream!Get
      BY <3>1, <3>3, <3>4 DEF Stream!Get, Sent, Rcvd, Chunk
    <3> QED BY <3>5 DEF Stream!Next
  <2> QED BY <2>3, <2>4
<1>7. CASE ReadTimeout
  BY <1>7 DEF ReadTimeout
<1>8. CASE ReadError
  BY <1>8 DEF ReadError, wvars, Sent, Rcvd, Chunk
<1>9. CASE WriteError
  BY <1>9 DEF WriteError, rvars, Sent, Rcvd, Chunk
<1>10. CASE ReaderDies
  BY <1>10 DEF ReaderDies, wvars, Sent, Rcvd, Chunk
<1>11. CASE UNCHANGED vars
  BY <1>11 DEF vars, wvars, rvars, Sent, Rcvd, Chunk
<1> QED BY <1>1, <1>2, <1>3, <1>4, <1>5, <1>6, <1>7, <1>8, <1>9, <1>10, <1>11 DEF Next

\* cpRead and cpWrite over sockets without timeouts are the exact, in-order
\* transport the checkpoint protocol is written for.
THEOREM ImplementsStream == ASSUME ~SndTimeo, ~RcvTimeo PROVE Spec => StreamSpec
<1>1. Inv /\ Inv' /\ [Next]_vars => [Stream!Next]_<<Sent, Rcvd, Chunk>>
  BY StreamStep
<1>2. Inv /\ Inv' /\ [Next]_vars => [Stream!Next]_(Stream!svars)
  BY <1>1 DEF Stream!svars, Sent, Rcvd, Chunk
<1> QED BY <1>2, StreamInit, Placing, PTL DEF Spec, StreamSpec, Stream!Spec
===============================================================================
