------------------------------ MODULE SaveRestore ------------------------------
(***************************************************************************)
(* What PIContext::checkpoint and restore (ProgIntel.cpp) promise to the   *)
(* program that calls them.  The program trains its model and asks now and *)
(* then to be checkpointed; from the first time this is done it is marked, *)
(* and restore() takes it back to that call of checkpoint() with the model *)
(* files it had when it called restore(): what was learnt is kept, all     *)
(* else is as it was.                                                      *)
(*                                                                         *)
(* Checkpoint, in which each call is several conversations with a server,  *)
(* and a restore a revert of the whole virtual machine, is shown to        *)
(* implement this specification as long as nothing is late or fails, the   *)
(* program does not call again while its restore is on its way, and the    *)
(* server was started over an empty directory.                             *)
(***************************************************************************)
CONSTANTS
  Files,            \* names of the model files
  Content,          \* what a file can hold
  Empty             \* a file that is not there

VARIABLES
  at,               \* where the program is: off, running, or in one of the calls
  marked,           \* whether it has been checkpointed
  files             \* the model files it has

pvars == <<at, marked, files>>

Init == at = "off" /\ marked = FALSE /\ files = [f \in Files |-> Empty]

Start == at = "off" /\ at' = "run" /\ UNCHANGED <<marked, files>>

Learn ==
  /\ at = "run"
  /\ files' \in [Files -> Content]
  /\ UNCHANGED <<at, marked>>

CallCheckpoint ==
  /\ at = "run" /\ ~marked
  /\ at' = "checkpoint"
  /\ UNCHANGED <<marked, files>>

\* The user may not have asked for a checkpoint yet.
CheckpointReturns ==
  /\ at = "checkpoint" /\ at' = "run"
  /\ marked' \in BOOLEAN
  /\ UNCHANGED files

CallRestore ==
  /\ at = "run" /\ marked
  /\ at' = "restore"
  /\ UNCHANGED <<marked, files>>

\* The program resumes behind its call of checkpoint().
Resume ==
  /\ at = "restore" /\ at' = "run"
  /\ UNCHANGED <<marked, files>>

Next ==
  \/ Start \/ Learn \/ CallCheckpoint \/ CheckpointReturns \/ CallRestore \/ Resume

Spec == Init /\ [][Next]_pvars
================================================================================
