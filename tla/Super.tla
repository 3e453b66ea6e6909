--------------------------------- MODULE Super ---------------------------------
(***************************************************************************)
(* Supervised training (PINNHelper.py, TFNNSuper).  train() begins again   *)
(* with new weights until the losses are below the thresholds to stop at;  *)
(* they are measured in every hundredth step only, but looked at in each.  *)
(* On the way it saves the model whenever the losses last measured are     *)
(* below the thresholds to save at, and lowers one of these.  test()       *)
(* restores what was saved last.  The process may die at any point, and    *)
(* train() may be called again in the same process, on the same TFNNSuper. *)
(*                                                                         *)
(* Weights are known by the attempt that they belong to and the number of  *)
(* its steps; any loss may be measured of any weights.                     *)
(***************************************************************************)
EXTENDS Integers

CONSTANTS
  Loss,        \* the losses that may be measured
  PERIOD,      \* 100
  Epochs,      \* what self.epoch may be: 100000, or as setEpoch has it
  LIMIT,       \* 100000, after which an attempt is given up
  TrainStopThd, ValidStopThd, TrainRestartThd, ValidRestartThd,
  TrainSaveThd,            \* self.trainSaveThd
  ValidSaveThd,            \* self.validSaveThd as __init__ or setSaveModelThd leaves it
  SaveThdStep,
  MaxRuns, MaxAttempts,    \* bounds: processes, attempts in all of them
  None         \* nothing measured, nothing saved

\* A model that may stop the training may be saved, too (0.05 and 1.5 in __init__).
ASSUME ConstAssumption ==
  /\ Loss \subseteq Int
  /\ {PERIOD, SaveThdStep} \cup Epochs \subseteq Nat \ {0}
  /\ {LIMIT, MaxRuns, MaxAttempts} \subseteq Nat
  /\ {TrainStopThd, ValidStopThd, TrainRestartThd, ValidRestartThd, TrainSaveThd, ValidSaveThd} \subseteq Int
  /\ TrainStopThd <= TrainSaveThd /\ ValidStopThd <= ValidSaveThd

Measure == [attempt : Nat, steps : Nat, train : Loss, valid : Loss]
Model   == [run : Nat, attempt : Nat, steps : Nat, thd : Int, by : Measure]

ASSUME NoneAssumption == None \notin Measure /\ None \notin Model

VARIABLES
  epoch,     \* self.epoch
  pc,        \* "off", "idle", and in train() "step", "save" or "stop"
  i,         \* of the for loop
  attempt,   \* how often the weights were initialised
  steps,     \* how often they were trained since
  measured,  \* trainLoss and validLoss, with the weights that they are of
  thd,       \* self.validSaveThd
  latest,    \* the last model saved: what latest_checkpoint finds
  saved,     \* history: all models saved
  run        \* how many processes there were

vars == <<epoch, pc, i, attempt, steps, measured, thd, latest, saved, run>>

Init ==
  /\ epoch \in Epochs
  /\ pc = "off" /\ i = 0 /\ attempt = 0 /\ steps = 0 /\ measured = None
  /\ thd = ValidSaveThd /\ latest = None /\ saved = {} /\ run = 0

\* A process makes a TFNNSuper, and may set its number of epochs.
New ==
  /\ pc = "off" /\ run < MaxRuns
  /\ pc' = "idle" /\ run' = run + 1 /\ thd' = ValidSaveThd /\ measured' = None
  /\ epoch' \in Epochs
  /\ UNCHANGED <<i, attempt, steps, latest, saved>>

Die ==
  /\ pc # "off"
  /\ pc' = "off" /\ measured' = None
  /\ UNCHANGED <<epoch, i, attempt, steps, thd, latest, saved, run>>

\* sess.run(init): the losses stay what they were.
Begin ==
  /\ attempt < MaxAttempts
  /\ pc' = "step" /\ i' = 0 /\ steps' = 0 /\ attempt' = attempt + 1

\* train() is called.
Train ==
  /\ pc = "idle"
  /\ Begin /\ measured' = None
  /\ UNCHANGED <<epoch, thd, latest, saved, run>>

\* Mutant: measured in the last step of a hundred.
MeasuresLate == i % PERIOD = PERIOD - 1 \/ measured = None

Measures == i % PERIOD = 0

Bad(m)     == m.valid > ValidRestartThd \/ m.train > TrainRestartThd

Worth(m)   == m.valid < thd /\ m.train < TrainSaveThd
Good(m)    == m.train < TrainStopThd /\ m.valid < ValidStopThd

\* One step of training, and a measurement if one is due.
Step ==
  /\ pc = "step" /\ i < epoch
  /\ steps' = steps + 1
  /\ IF Measures
     THEN \E t, v \in Loss :
            measured' = [attempt |-> attempt, steps |-> steps + 1, train |-> t, valid |-> v]
     ELSE UNCHANGED measured
  /\ pc' = "save"
  /\ UNCHANGED <<epoch, i, attempt, thd, latest, saved, run>>

GivenUp == Bad(measured) \/ i > LIMIT

\* Too bad or too long: new weights.
Restart ==
  /\ pc = "save" /\ GivenUp
  /\ Begin
  /\ UNCHANGED <<epoch, measured, thd, latest, saved, run>>

\* Mutant: the threshold is lowered whether or not the model was saved.
SaveLowerAlways ==
  /\ pc = "save" /\ ~ GivenUp
  /\ thd' = thd - SaveThdStep
  /\ IF Worth(measured)
     THEN LET model == [run |-> run, attempt |-> attempt, steps |-> steps, thd |-> thd,
                        by |-> measured]
          IN  latest' = model /\ saved' = saved \cup {model}
     ELSE UNCHANGED <<latest, saved>>
  /\ pc' = "stop"
  /\ UNCHANGED <<epoch, i, attempt, steps, measured, run>>

\* Mutant: the threshold is not lowered.
SaveNoLower ==
  /\ pc = "save" /\ ~ GivenUp
  /\ IF Worth(measured)
     THEN LET model == [run |-> run, attempt |-> attempt, steps |-> steps, thd |-> thd,
                        by |-> measured]
          IN  latest' = model /\ saved' = saved \cup {model}
     ELSE UNCHANGED <<latest, saved>>
  /\ pc' = "stop"
  /\ UNCHANGED <<epoch, i, attempt, steps, thd, measured, run>>

\* The model is saved under the threshold it has passed, or it is not.
Save ==
  /\ pc = "save" /\ ~ GivenUp
  /\ IF Worth(measured)
     THEN LET model == [run |-> run, attempt |-> attempt, steps |-> steps, thd |-> thd,
                        by |-> measured]
          IN  latest' = model /\ saved' = saved \cup {model} /\ thd' = thd - SaveThdStep
     ELSE UNCHANGED <<latest, saved, thd>>
  /\ pc' = "stop"
  /\ UNCHANGED <<epoch, i, attempt, steps, measured, run>>

\* train() returns, or the next step comes.
Stop ==
  /\ pc = "stop"
  /\ IF Good(measured)
     THEN pc' = "idle" /\ UNCHANGED i
     ELSE pc' = "step" /\ i' = i + 1
  /\ UNCHANGED <<epoch, attempt, steps, measured, thd, latest, saved, run>>

\* The for loop has ended and done is False.
EndEpoch ==
  /\ pc = "step" /\ i >= epoch
  /\ Begin
  /\ UNCHANGED <<epoch, measured, thd, latest, saved, run>>

\* The model that test() restores; with None it returns None.
Tested == latest

Next == New \/ Die \/ Train \/ Step \/ Restart \/ Save \/ Stop \/ EndEpoch

Spec == Init /\ [][Next]_vars
-------------------------------------------------------------------------------
(* Properties *)

TypeOK ==
  /\ epoch \in Epochs /\ pc \in {"off", "idle", "step", "save", "stop"}
  /\ i \in Nat /\ attempt \in 0 .. MaxAttempts /\ steps \in Nat
  /\ measured \in Measure \cup {None} /\ (pc \in {"save", "stop"} => measured # None)
  /\ thd \in Int /\ thd <= ValidSaveThd
  /\ latest \in Model \cup {None} /\ saved \in SUBSET Model /\ run \in 0 .. MaxRuns

\* A model is saved on the strength of a measurement of its own attempt, taken
\* less than PERIOD steps before: never on one of weights that were thrown away.
SavedMeasured ==
  \A s \in saved :
    /\ s.attempt = s.by.attempt
    /\ s.by.steps <= s.steps /\ s.steps < s.by.steps + PERIOD
    /\ s.by.valid < s.thd /\ s.by.train < TrainSaveThd

\* What latest_checkpoint finds has passed the lowest threshold of all models of
\* its process, which passed another one each: no attempt that is begun anew
\* replaces a model by one that has passed less.
LatestStrictest ==
  latest # None =>
    latest \in saved /\ \A s \in saved : s.run = latest.run /\ s # latest => latest.thd < s.thd

\* train() returns in a step in which it measured, with both losses below the
\* thresholds to stop at: old losses are looked at, but never stop it.  By then
\* this process has saved a model, and the one that test() will restore was measured
\* within SaveThdStep of the threshold to stop at.  (The model in the session may
\* not have been saved.)
TrainedAndSaved ==
  pc = "idle" /\ measured # None =>
    /\ measured.attempt = attempt /\ measured.steps = steps
    /\ measured.train < TrainStopThd /\ measured.valid < ValidStopThd
    /\ Tested # None /\ Tested.run = run
    /\ Tested.by.valid < ValidStopThd + SaveThdStep
===============================================================================
