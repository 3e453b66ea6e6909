------------------------------ MODULE SuperProofs ------------------------------
(***************************************************************************)
(* Proofs about supervised training, for all losses, thresholds, periods   *)
(* and lengths of an epoch: what a model that is saved was measured at,    *)
(* that later models of a process have passed more, and what train() has   *)
(* left behind when it returns.                                            *)
(***************************************************************************)
EXTENDS Super, TLAPS

Numbers ==
  /\ PERIOD \in Nat \ {0} /\ SaveThdStep \in Nat \ {0} /\ LIMIT \in Nat
  /\ MaxRuns \in Nat /\ MaxAttempts \in Nat /\ Loss \subseteq Int
  /\ TrainStopThd \in Int /\ ValidStopThd \in Int /\ TrainSaveThd \in Int /\ ValidSaveThd \in Int
  /\ TrainStopThd <= TrainSaveThd /\ ValidStopThd <= ValidSaveThd

LEMMA Constants == Numbers
  BY ConstAssumption DEF Numbers

\* The step b steps after one that measures measures, and the first one does.
LEMMA Multiple == ASSUME NEW b \in Nat \ {0}, NEW q \in Nat PROVE (b * q) % b = 0
  BY SMT

LEMMA Periodic == ASSUME NEW b \in Nat \ {0}, NEW k \in Nat, k % b = 0 PROVE (k + b) % b = 0
<1> DEFINE q == k \div b
<1>1. k = b * q /\ q \in Nat
  BY Z3
<1> HIDE DEF q
<1>2. k + b = b * (q + 1)
  BY <1>1
<1>3. q + 1 \in Nat
  BY <1>1
<1>4. (b * (q + 1)) % b = 0
  BY <1>3, Multiple
<1> QED BY <1>2, <1>4

LEMMA First == ASSUME NEW b \in Nat \ {0} PROVE 0 % b = 0
  BY SMT

LEMMA NextMeasure ==
  /\ \A k \in Nat : k % PERIOD = 0 => (k + PERIOD) % PERIOD = 0
  /\ 0 % PERIOD = 0
<1>1. PERIOD \in Nat \ {0}
  BY Constants DEF Numbers
<1> QED BY <1>1, Periodic, First

\* The for loop: the losses are of these weights, or of these weights some steps
\* ago, and if they were good enough to stop at, training has stopped.
Current ==
  /\ measured.attempt = attempt
  /\ measured.steps > 0 /\ (measured.steps - 1) % PERIOD = 0
  /\ measured.steps <= steps /\ steps < measured.steps + PERIOD

Loop ==
  /\ pc = "step" => /\ steps = i
                    /\ i > 0 => measured # None /\ Current /\ ~ Good(measured)
  /\ pc \in {"save", "stop"} => /\ steps = i + 1 /\ Current
                                /\ Good(measured) => measured.steps = steps

TInv == TypeOK /\ Loop

LEMMA TInit == Init => TInv
  BY Constants DEF Init, TInv, TypeOK, Loop, Numbers

LEMMA TNew == TInv /\ New => TInv'
  BY Constants DEF New, TInv, TypeOK, Loop, Numbers

LEMMA TDie == TInv /\ Die => TInv'
  BY DEF Die, TInv, TypeOK, Loop

LEMMA TBegin ==
  ASSUME TInv, Begin, measured' \in {measured, None}, UNCHANGED <<epoch, thd, latest, saved, run>>
  PROVE  TInv'
<1>1. TypeOK'
  BY Constants DEF TInv, TypeOK, Begin, Numbers
<1>2. Loop'
  BY DEF Begin, Loop
<1> QED BY <1>1, <1>2 DEF TInv

LEMMA TAgain == TInv /\ (Train \/ Restart \/ EndEpoch) => TInv'
  BY TBegin DEF Train, Restart, EndEpoch

LEMMA TStep == TInv /\ Step => TInv'
<1> SUFFICES ASSUME TInv, Step PROVE TInv'
  OBVIOUS
<1>1. /\ pc = "step" /\ pc' = "save" /\ steps' = steps + 1 /\ steps = i
      /\ UNCHANGED <<epoch, i, attempt, thd, latest, saved, run>>
      /\ i \in Nat /\ attempt \in Nat /\ steps \in Nat
  BY Constants DEF Step, TInv, TypeOK, Loop, Numbers
<1>2. CASE Measures
  <2>1. PICK t \in Loss, v \in Loss :
          measured' = [attempt |-> attempt, steps |-> steps + 1, train |-> t, valid |-> v]
    BY <1>2 DEF Step
  <2>2. measured' \in Measure /\ measured' # None
    BY <1>1, <2>1, NoneAssumption DEF Measure
  <2>3. measured'.attempt = attempt' /\ measured'.steps = steps' /\ steps' = i' + 1
    BY <1>1, <2>1
  <2>4. i % PERIOD = 0 /\ (steps + 1) - 1 = i
    BY <1>1, <1>2 DEF Measures
  <2>5. Current'
    BY <1>1, <2>3, <2>4, Constants DEF Current, Numbers
  <2>6. Loop'
    BY <1>1, <2>3, <2>5 DEF Loop
  <2>7. TypeOK'
    BY <1>1, <2>2 DEF TInv, TypeOK
  <2> QED BY <2>6, <2>7 DEF TInv
<1>3. CASE ~ Measures
  <2>1. measured' = measured
    BY <1>3 DEF Step
  <2>2. i # 0
    BY <1>3, NextMeasure DEF Measures
  <2>3. measured # None /\ Current /\ ~ Good(measured)
    BY <1>1, <2>2 DEF TInv, Loop
  <2>6. measured \in Measure /\ measured.steps \in Nat
    BY <2>3 DEF TInv, TypeOK, Measure
  <2>5. measured.steps + PERIOD # steps + 1
    <3>1. measured.steps - 1 \in Nat /\ (measured.steps - 1) % PERIOD = 0
      BY <2>3, <2>6 DEF Current
    <3> DEFINE m == measured.steps
    <3>2. m \in Nat /\ PERIOD \in Nat /\ i \in Nat /\ steps = i
      BY <1>1, <2>6, Constants DEF Numbers
    <3> HIDE DEF m
    <3>3. m + PERIOD = i + 1 => i = (m - 1) + PERIOD
      BY <3>2
    <3>4. ASSUME measured.steps + PERIOD = steps + 1 PROVE i = (measured.steps - 1) + PERIOD
      BY <3>2, <3>3, <3>4 DEF m
    <3> QED BY <1>3, <3>1, <3>4, NextMeasure DEF Measures
  <2>7. Current'
    <3>1. measured.steps <= steps /\ steps < measured.steps + PERIOD /\ measured.attempt = attempt
      BY <2>3 DEF Current
    <3>2. measured.steps <= steps + 1 /\ steps + 1 < measured.steps + PERIOD
      BY <1>1, <2>5, <2>6, <3>1, Constants DEF Numbers
    <3> QED BY <1>1, <2>1, <2>3, <3>1, <3>2 DEF Current
  <2>8. Loop'
    BY <1>1, <2>1, <2>3, <2>7 DEF Loop, Good
  <2>9. TypeOK'
    BY <1>1, <2>1, <2>6, NoneAssumption DEF TInv, TypeOK
  <2> QED BY <2>8, <2>9 DEF TInv
<1> QED BY <1>2, <1>3

LEMMA TSave == TInv /\ Save => TInv'
<1> SUFFICES ASSUME TInv, Save PROVE TInv'
  OBVIOUS
<1>1. pc = "save" /\ pc' = "stop" /\ UNCHANGED <<epoch, i, attempt, steps, measured, run>>
  BY DEF Save
<1>2. Loop'
  BY <1>1 DEF TInv, Loop, Current, Good
<1> DEFINE model == [run |-> run, attempt |-> attempt, steps |-> steps, thd |-> thd, by |-> measured]
<1>3. model \in Model
  BY <1>1, NoneAssumption, Constants DEF TInv, TypeOK, Model, Numbers
<1>4. thd - SaveThdStep \in Int /\ thd - SaveThdStep <= ValidSaveThd
  BY Constants DEF TInv, TypeOK, Numbers
<1>5. /\ latest' \in {latest, model} /\ saved' \in {saved, saved \cup {model}}
      /\ thd' \in {thd, thd - SaveThdStep}
  BY DEF Save
<1>6. TypeOK'
  BY <1>1, <1>3, <1>4, <1>5 DEF TInv, TypeOK
<1> QED BY <1>2, <1>6 DEF TInv

LEMMA TStop == TInv /\ Stop => TInv'
<1> SUFFICES ASSUME TInv, Stop PROVE TInv'
  OBVIOUS
<1>1. /\ pc = "stop" /\ UNCHANGED <<epoch, attempt, steps, measured, thd, latest, saved, run>>
      /\ IF Good(measured) THEN pc' = "idle" /\ i' = i ELSE pc' = "step" /\ i' = i + 1
  BY DEF Stop
<1>2. TypeOK'
  BY <1>1 DEF TInv, TypeOK
<1>3. Loop'
  BY <1>1 DEF TInv, TypeOK, Loop, Current, Good
<1> QED BY <1>2, <1>3 DEF TInv

LEMMA TStutter == TInv /\ UNCHANGED vars => TInv'
  BY DEF TInv, TypeOK, Loop, Current, Good, vars

LEMMA Typed == Spec => []TInv
<1>1. TInv /\ [Next]_vars => TInv'
  BY TNew, TDie, TAgain, TStep, TSave, TStop, TStutter DEF Next
<1> QED BY TInit, <1>1, PTL DEF Spec

\* Type correctness: losses are not looked at before they were measured.
THEOREM TypeCorrect == Spec => []TypeOK
<1>1. TInv => TypeOK
  BY DEF TInv
<1> QED BY <1>1, Typed, PTL

-------------------------------------------------------------------------------
(* What is saved, and when train() returns *)

Ours == latest # None /\ latest.run = run

\* Of the models saved: what they were measured at, and that the threshold is
\* always below those that models of this process have passed.
Passed ==
  /\ SavedMeasured /\ LatestStrictest
  /\ \A s \in saved : s.run <= run
  /\ pc # "off" => \A s \in saved : s.run = run => s.thd >= thd + SaveThdStep
  /\ pc # "off" => IF Ours THEN latest.thd = thd + SaveThdStep ELSE thd = ValidSaveThd

\* Of a training that may stop, and of one that has.
Returned ==
  /\ pc = "stop" /\ Good(measured) => Ours /\ latest.by.valid < ValidStopThd + SaveThdStep
  /\ pc = "idle" /\ measured # None =>
       /\ Current /\ Good(measured) /\ measured.steps = steps
       /\ Ours /\ latest.by.valid < ValidStopThd + SaveThdStep

SInv == TInv /\ Passed /\ Returned

LEMMA SInit == Init => SInv
<1>1. Init => TInv
  BY TInit
<1>2. Init => Passed /\ Returned
  BY DEF Init, Passed, Returned, SavedMeasured, LatestStrictest, Ours
<1> QED BY <1>1, <1>2 DEF SInv

LEMMA SavedTypes ==
  TInv => \A s \in saved : s \in Model /\ s.thd \in Int /\ s.run \in Nat /\ s.by.valid \in Int
  BY Constants DEF TInv, TypeOK, Model, Measure, Numbers

LEMMA SNew == SInv /\ New => SInv'
<1> SUFFICES ASSUME SInv, New PROVE SInv'
  OBVIOUS
<1>1. TInv'
  BY TNew DEF SInv
<1>2. pc' = "idle" /\ run' = run + 1 /\ thd' = ValidSaveThd /\ measured' = None
      /\ UNCHANGED <<latest, saved>> /\ run \in Nat
  BY Constants DEF New, SInv, TInv, TypeOK, Numbers
<1>3. \A s \in saved : s.run <= run' /\ s.run # run'
  BY <1>2, SavedTypes DEF SInv, Passed
<1>4. ~ Ours'
  BY <1>2, <1>3 DEF SInv, Passed, LatestStrictest, Ours
<1>5. Passed'
  BY <1>2, <1>3, <1>4 DEF SInv, Passed, SavedMeasured, LatestStrictest
<1>6. Returned'
  BY <1>2 DEF Returned
<1> QED BY <1>1, <1>5, <1>6 DEF SInv

LEMMA SDie == SInv /\ Die => SInv'
<1> SUFFICES ASSUME SInv, Die PROVE SInv'
  OBVIOUS
<1>1. TInv'
  BY TDie DEF SInv
<1>2. pc' = "off" /\ UNCHANGED <<latest, saved, run>>
  BY DEF Die
<1>3. Passed' /\ Returned'
  BY <1>2 DEF SInv, Passed, SavedMeasured, LatestStrictest, Returned
<1> QED BY <1>1, <1>3 DEF SInv

\* Steps that leave models, threshold and process as they are.
LEMMA PassedKept ==
  ASSUME Passed, pc # "off", pc' # "off", UNCHANGED <<thd, latest, saved, run>>
  PROVE  Passed'
  BY DEF Passed, SavedMeasured, LatestStrictest, Ours

LEMMA SAgain == SInv /\ (Train \/ Restart \/ EndEpoch) => SInv'
<1> SUFFICES ASSUME SInv, Train \/ Restart \/ EndEpoch PROVE SInv'
  OBVIOUS
<1>1. TInv'
  BY TAgain DEF SInv
<1>2. pc # "off" /\ pc' = "step" /\ UNCHANGED <<thd, latest, saved, run>>
  BY DEF Train, Restart, EndEpoch, Begin
<1>3. Passed' /\ Returned'
  BY <1>2, PassedKept DEF SInv, Returned
<1> QED BY <1>1, <1>3 DEF SInv

LEMMA SStep == SInv /\ Step => SInv'
<1> SUFFICES ASSUME SInv, Step PROVE SInv'
  OBVIOUS
<1>1. TInv'
  BY TStep DEF SInv
<1>2. pc # "off" /\ pc' = "save" /\ UNCHANGED <<thd, latest, saved, run>>
  BY DEF Step
<1>3. Passed' /\ Returned'
  BY <1>2, PassedKept DEF SInv, Returned
<1> QED BY <1>1, <1>3 DEF SInv

LEMMA SStop == SInv /\ Stop => SInv'
<1> SUFFICES ASSUME SInv, Stop PROVE SInv'
  OBVIOUS
<1>1. TInv'
  BY TStop DEF SInv
<1>2. /\ pc = "stop" /\ UNCHANGED <<attempt, steps, measured, thd, latest, saved, run>>
      /\ IF Good(measured) THEN pc' = "idle" ELSE pc' = "step"
  BY DEF Stop
<1>3. Passed'
  BY <1>2, PassedKept DEF SInv
<1>4. Returned'
  <2>1. CASE Good(measured)
    <3>1. Current /\ measured.steps = steps /\ Ours /\ latest.by.valid < ValidStopThd + SaveThdStep
      BY <1>2, <2>1 DEF SInv, TInv, Loop, Returned
    <3> QED BY <1>2, <2>1, <3>1 DEF Returned, Current, Ours, Good
  <2>2. CASE ~ Good(measured)
    BY <1>2, <2>2 DEF Returned
  <2> QED BY <2>1, <2>2
<1> QED BY <1>1, <1>3, <1>4 DEF SInv

LEMMA SSave == SInv /\ Save => SInv'
<1> SUFFICES ASSUME SInv, Save PROVE SInv'
  OBVIOUS
<1>1. TInv'
  BY TSave DEF SInv
<1>2. pc = "save" /\ pc' = "stop" /\ UNCHANGED <<attempt, steps, measured, run>>
  BY DEF Save
<1> DEFINE model == [run |-> run, attempt |-> attempt, steps |-> steps, thd |-> thd, by |-> measured]
<1>3. /\ thd \in Int /\ run \in Nat /\ steps \in Nat /\ measured \in Measure
      /\ measured.valid \in Int /\ measured.train \in Int /\ measured.steps \in Nat
  <2>1. thd \in Int /\ run \in Nat /\ steps \in Nat /\ measured \in Measure
    BY <1>2, Constants DEF SInv, TInv, TypeOK, Numbers
  <2>2. measured.valid \in Loss /\ measured.train \in Loss /\ measured.steps \in Nat
    BY <2>1 DEF Measure
  <2> QED BY <2>1, <2>2, Constants DEF Numbers
<1>4. Current
  BY <1>2 DEF SInv, TInv, Loop
<1>5. CASE Worth(measured)
  <2>1. latest' = model /\ saved' = saved \cup {model} /\ thd' = thd - SaveThdStep
    BY <1>5 DEF Save
  <2>2. /\ model.run = run /\ model.attempt = attempt /\ model.steps = steps /\ model.thd = thd
        /\ model.by = measured
    OBVIOUS
  <2>3. model # None
    BY <1>1, <2>1, <1>2, <1>3, NoneAssumption, Constants
       DEF Model, SInv, TInv, TypeOK, Numbers
  <2> HIDE DEF model
  <2>4. SavedMeasured'
    <3>1. /\ model.attempt = model.by.attempt
          /\ model.by.steps <= model.steps /\ model.steps < model.by.steps + PERIOD
          /\ model.by.valid < model.thd /\ model.by.train < TrainSaveThd
      BY <1>4, <1>5, <2>2 DEF Current, Worth
    <3> QED BY <2>1, <3>1 DEF SInv, Passed, SavedMeasured
  <2>5. \A s \in saved : s.run = run => s.thd >= thd + SaveThdStep /\ s.thd > thd
    BY <1>2, <1>3, SavedTypes, Constants DEF SInv, Passed, Numbers
  <2>6. LatestStrictest'
    BY <2>1, <2>2, <2>5, <1>3 DEF LatestStrictest
  <2>7. \A s \in saved' : s.run <= run'
    BY <1>2, <1>3, <2>1, <2>2 DEF SInv, Passed
  <2>8. thd = thd' + SaveThdStep
    BY <1>3, <2>1, Constants DEF Numbers
  <2>9. \A s \in saved' : s.run = run' => s.thd >= thd' + SaveThdStep
    BY <1>2, <1>3, <2>1, <2>2, <2>5, <2>8, SavedTypes DEF SInv
  <2>10. Ours' /\ latest'.thd = thd' + SaveThdStep
    BY <1>2, <2>1, <2>2, <2>3, <2>8 DEF Ours
  <2>11. Passed'
    BY <2>4, <2>6, <2>7, <2>9, <2>10 DEF Passed
  <2>12. Returned'
    <3>1. Good(measured) => measured.valid < ValidStopThd + SaveThdStep
      BY <1>3, Constants DEF Good, Numbers
    <3> QED BY <1>2, <2>1, <2>2, <2>10, <3>1 DEF Returned, Good
  <2> QED BY <1>1, <2>11, <2>12 DEF SInv
<1>6. CASE ~ Worth(measured)
  <2>1. UNCHANGED <<thd, latest, saved>>
    BY <1>6 DEF Save
  <2>2. Passed'
    BY <1>2, <2>1, PassedKept DEF SInv
  <2>3. ASSUME Good(measured) PROVE Ours /\ latest.by.valid < ValidStopThd + SaveThdStep
    <3>1. measured.train < TrainSaveThd /\ measured.valid < ValidStopThd
      BY <1>3, <2>3, Constants DEF Good, Numbers
    <3>2. measured.valid >= thd
      BY <1>3, <1>6, <3>1 DEF Worth
    <3>3. Ours
      <4>1. thd # ValidSaveThd
        BY <1>3, <3>1, <3>2, Constants DEF Numbers
      <4> QED BY <1>2, <4>1 DEF SInv, Passed
    <3>4. latest.thd = thd + SaveThdStep /\ latest \in saved
      BY <1>2, <3>3 DEF SInv, Passed, LatestStrictest, Ours
    <3>5. latest.by.valid < latest.thd /\ latest.by.valid \in Int
      BY <3>4, SavedTypes DEF SInv, Passed, SavedMeasured
    <3> QED BY <1>3, <3>1, <3>2, <3>3, <3>4, <3>5, Constants DEF Numbers
  <2>4. Returned'
    BY <1>2, <2>1, <2>3 DEF Returned, Ours, Good
  <2> QED BY <1>1, <2>2, <2>4 DEF SInv
<1> QED BY <1>5, <1>6

LEMMA SStutter == SInv /\ UNCHANGED vars => SInv'
<1> SUFFICES ASSUME SInv, UNCHANGED vars PROVE SInv'
  OBVIOUS
<1>1. TInv'
  BY TStutter DEF SInv
<1>2. Passed' /\ Returned'
  BY DEF vars, SInv, Passed, SavedMeasured, LatestStrictest, Ours, Returned, Current, Good
<1> QED BY <1>1, <1>2 DEF SInv

LEMMA Trained == Spec => []SInv
<1>1. SInv /\ [Next]_vars => SInv'
  BY SNew, SDie, SAgain, SStep, SSave, SStop, SStutter DEF Next
<1> QED BY SInit, <1>1, PTL DEF Spec

\* A model is saved because of losses of its own attempt, fewer than PERIOD steps old.
THEOREM MeasuredWhenSaved == Spec => []SavedMeasured
<1>1. SInv => SavedMeasured
  BY DEF SInv, Passed
<1> QED BY <1>1, Trained, PTL

\* What test() restores has passed the lowest threshold of its process.
THEOREM LatestPassedMost == Spec => []LatestStrictest
<1>1. SInv => LatestStrictest
  BY DEF SInv, Passed
<1> QED BY <1>1, Trained, PTL

\* train() never stops because of losses that are out of date; when it returns, the
\* model that test() will restore was measured within SaveThdStep of the threshold
\* to stop at.
THEOREM GoodModelSaved == Spec => []TrainedAndSaved
<1>1. SInv => TrainedAndSaved
  BY DEF SInv, Returned, TrainedAndSaved, Current, Good, Ours, Tested
<1> QED BY <1>1, Trained, PTL
===============================================================================
