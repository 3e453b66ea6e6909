------------------------------ MODULE ByteStream ------------------------------
(***************************************************************************)
(* What the checkpoint protocol assumes of its transport: the bytes that   *)
(* one end hands over reach the other end once each and in order, in       *)
(* whatever pieces the reader asks for.  A byte is named by its position   *)
(* in the stream, so that a lost, repeated or shifted byte shows.          *)
(*                                                                         *)
(* CPIO (CheckPoint/CPIO.cpp) is shown to implement this specification as  *)
(* long as no socket timeout expires inside a transfer.                    *)
(***************************************************************************)
EXTENDS Naturals, Sequences

CONSTANT N          \* bytes the sender has to hand over

VARIABLES
  sent,             \* bytes handed over so far
  rcvd,             \* bytes given to the reader by finished reads
  chunk             \* the piece the last read returned, until it is consumed

svars == <<sent, rcvd, chunk>>

Init == sent = 0 /\ rcvd = 0 /\ chunk = <<>>

Put ==
  /\ \E n \in 1 .. (N - sent) : sent' = sent + n
  /\ UNCHANGED <<rcvd, chunk>>

Get ==
  /\ chunk = <<>>
  /\ \E n \in 1 .. (sent - rcvd) :
       /\ rcvd' = rcvd + n
       /\ chunk' = [i \in 1 .. n |-> rcvd + i]
  /\ UNCHANGED sent

Consume == chunk # <<>> /\ chunk' = <<>> /\ UNCHANGED <<sent, rcvd>>

Next == Put \/ Get \/ Consume

Spec == Init /\ [][Next]_svars
===============================================================================
