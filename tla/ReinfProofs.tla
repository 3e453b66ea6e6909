------------------------------ MODULE ReinfProofs ------------------------------
(***************************************************************************)
(* Proofs about reinforcement learning: what the replay memory holds, that *)
(* it can be drawn from, that epsilon keeps step with the network, and     *)
(* what survives a death between two saves, for every value of TFNNReinf's *)
(* members and any number of runs, deaths and modules dropped.             *)
(***************************************************************************)
EXTENDS Reinf, SequenceTheorems, TLAPS

Saving == {"open", "dump", "save"}

\* What the types leave open: stacks have four frames once there is one, and
\* the saving at the end of a call is that of a training that has had one.
Sized(c) == Len(c.prev) \in {0, 4} /\ Len(c.mem) <= REPLAYSIZE

Shape ==
  /\ Sized(conf)
  /\ data \in Conf => Sized(data) /\ Len(data.prev) = 4 /\ data.term
  /\ pc \in Saving => op = "train" /\ conf.term /\ Len(conf.prev) = 4

TInv == TypeOK /\ Shape

-------------------------------------------------------------------------------
(* Lemmas about the operators *)

LEMMA NoFrames == \A st \in Stack : st = <<>> <=> Len(st) = 0
  BY EmptySeq DEF Stack

LEMMA FirstFrame == \A st \in Stack : Len(st) = 4 => st[1] \in Frame /\ st[1].n \in Nat /\ st[1].ep \in Nat
<1> SUFFICES ASSUME NEW st \in Seq(Frame), Len(st) = 4
             PROVE  st[1] \in Frame /\ st[1].n \in Nat /\ st[1].ep \in Nat
  BY DEF Stack
<1>1. st[1] \in Frame
  OBVIOUS
<1> QED BY <1>1 DEF Frame

LEMMA FreshType == Fresh \in Conf /\ Fresh.prev = <<>> /\ Len(Fresh.prev) = 0
  BY ConstAssumption DEF Fresh, Conf, Stack

LEMMA OldData == data \in Conf => data \notin {Nothing, Torn}
  BY FileAssumption

\* The stack of a call: its frame on top, and below it either the same frame or
\* the three newest of the stack before.
LEMMA StackFacts ==
  ASSUME NEW c \in Conf, NEW s \in Frame, Len(c.prev) \in {0, 4}
  PROVE  /\ Stacked(c, s) \in Stack /\ Len(Stacked(c, s)) = 4 /\ Stacked(c, s)[1] = s
         /\ AtStart(c) => \A i \in 1 .. 4 : Stacked(c, s)[i] = s
         /\ ~ AtStart(c) => /\ Len(c.prev) = 4
                            /\ \A i \in 1 .. 3 : Stacked(c, s)[i + 1] = c.prev[i]
<1>1. c.prev \in Stack /\ c.prev \in Seq(Frame)
  BY DEF Conf, Stack
<1>2. CASE AtStart(c)
  <2>1. Stacked(c, s) = <<s, s, s, s>>
    BY <1>2 DEF Stacked
  <2> QED BY <2>1, <1>2 DEF Stack
<1>3. CASE ~ AtStart(c)
  <2>1. Len(c.prev) = 4
    BY <1>1, <1>3, NoFrames DEF AtStart
  <2>2. c.prev[1] \in Frame /\ c.prev[2] \in Frame /\ c.prev[3] \in Frame
    BY <1>1, <2>1
  <2>3. Stacked(c, s) = <<s, c.prev[1], c.prev[2], c.prev[3]>>
    BY <1>3 DEF Stacked
  <2> QED BY <1>3, <2>1, <2>2, <2>3 DEF Stack
<1> QED BY <1>2, <1>3

LEMMA TestStackFacts ==
  ASSUME NEW c \in Conf, NEW s \in Frame, Len(c.prev) \in {0, 4}
  PROVE  /\ TestStacked(c, s) \in Stack /\ Len(TestStacked(c, s)) = 4
         /\ TestStacked(c, s)[1] = s
         /\ c.prev = <<>> => \A i \in 1 .. 4 : TestStacked(c, s)[i] = s
         /\ c.prev # <<>> => \A i \in 1 .. 3 : TestStacked(c, s)[i + 1] = c.prev[i]
<1> DEFINE d == [c EXCEPT !.term = FALSE]
<1>1. d \in Conf /\ d.prev = c.prev /\ d.term = FALSE /\ (AtStart(d) <=> c.prev = <<>>)
  BY DEF Conf, AtStart
<1>2. TestStacked(c, s) = Stacked(d, s)
  BY <1>1 DEF TestStacked, Stacked
<1> HIDE DEF d
<1> QED BY <1>1, <1>2, StackFacts

\* Appending to the replay memory: the old transitions or all but the first of
\* them, and the new one.
LEMMA BoundedFacts ==
  ASSUME NEW m \in Seq(Transition), NEW t \in Transition, Len(m) <= REPLAYSIZE
  PROVE  LET b == Bounded(Append(m, t))
         IN  /\ b \in Seq(Transition)
             /\ Len(b) = IF Len(m) = REPLAYSIZE THEN REPLAYSIZE ELSE Len(m) + 1
             /\ \A i \in DOMAIN b : b[i] = t \/ \E j \in DOMAIN m : b[i] = m[j]
<1> DEFINE a == Append(m, t)
<1>1. /\ a \in Seq(Transition) /\ Len(a) = Len(m) + 1
      /\ \A i \in 1 .. Len(a) : a[i] = t \/ \E j \in DOMAIN m : a[i] = m[j]
  BY AppendProperties
<1>2. REPLAYSIZE \in Nat \ {0} /\ Len(m) \in Nat
  BY ConstAssumption, LenProperties
<1>3. Bounded(a) = IF Len(a) > REPLAYSIZE THEN Tail(a) ELSE a
  BY DEF Bounded
<1>4. a # <<>> /\ DOMAIN a = 1 .. Len(a)
  <2>1. Len(a) # 0
    BY <1>1, <1>2
  <2> QED BY <1>1, <2>1, LenProperties, EmptySeq
<1> HIDE DEF a
<1>5. CASE Len(m) = REPLAYSIZE
  <2>1. Bounded(a) = Tail(a)
    BY <1>1, <1>2, <1>3, <1>5
  <2>2. /\ Tail(a) \in Seq(Transition) /\ Len(Tail(a)) = Len(a) - 1
        /\ \A i \in 1 .. Len(Tail(a)) : Tail(a)[i] = a[i + 1]
    BY <1>1, <1>4, HeadTailProperties
  <2>3. DOMAIN Tail(a) = 1 .. Len(m) /\ \A i \in 1 .. Len(m) : i + 1 \in 1 .. Len(a)
    BY <1>1, <1>2, <2>2, LenProperties
  <2>4. \A i \in DOMAIN Tail(a) : Tail(a)[i] = t \/ \E j \in DOMAIN m : Tail(a)[i] = m[j]
    BY <1>1, <1>2, <2>2, <2>3
  <2> QED BY <1>1, <1>2, <1>5, <2>1, <2>2, <2>4 DEF a
<1>6. CASE Len(m) < REPLAYSIZE
  <2>1. Bounded(a) = a
    BY <1>1, <1>2, <1>3, <1>6
  <2> QED BY <1>1, <1>2, <1>4, <1>6, <2>1 DEF a
<1> QED BY <1>2, <1>5, <1>6

LEMMA LearnedFacts ==
  ASSUME NEW c \in Conf, NEW s \in Frame, NEW term \in BOOLEAN, Sized(c)
  PROVE  /\ Learned(c, s, term) \in Conf /\ Sized(Learned(c, s, term))
         /\ Learned(c, s, term).prev = Stacked(c, s)
         /\ Len(Learned(c, s, term).prev) = 4
         /\ Learned(c, s, term).term = term
         /\ Learned(c, s, term).loop = c.loop + 1
         /\ Learned(c, s, term).eps = AnnealedBy(c)
         /\ Learned(c, s, term).mem = Remembered(c, s, term)
         /\ Learned(c, s, term).die =
              IF c.prev # <<>> /\ c.term THEN c.die + 1 ELSE c.die
<1>1. Stacked(c, s) \in Stack /\ Len(Stacked(c, s)) = 4
  BY StackFacts DEF Sized
<1> DEFINE t == [prev |-> c.prev, act |-> c.act, cur |-> Stacked(c, s), term |-> term]
<1>2. t \in Transition
  BY <1>1 DEF Transition, Conf
<1>3. c.mem \in Seq(Transition) /\ Len(c.mem) <= REPLAYSIZE
  BY DEF Conf, Sized
<1>4. Remembered(c, s, term) \in Seq(Transition) /\ Len(Remembered(c, s, term)) <= REPLAYSIZE
  <2> DEFINE b == Bounded(Append(c.mem, t))
  <2>1. b \in Seq(Transition)
    BY <1>2, <1>3, BoundedFacts
  <2>2. Len(b) = IF Len(c.mem) = REPLAYSIZE THEN REPLAYSIZE ELSE Len(c.mem) + 1
    BY <1>2, <1>3, BoundedFacts
  <2>3. Remembered(c, s, term) = IF AtStart(c) THEN c.mem ELSE b
    BY DEF Remembered
  <2>4. REPLAYSIZE \in Nat /\ Len(c.mem) \in Nat
    BY <1>3, ConstAssumption, LenProperties
  <2> HIDE DEF b
  <2>5. Len(b) <= REPLAYSIZE
    BY <1>3, <2>2, <2>4
  <2> QED BY <1>3, <2>1, <2>3, <2>5
<1> HIDE DEF t
<1>5. AnnealedBy(c) \in Nat \ {0}
  <2>1. c.eps \in Nat \ {0}
    BY DEF Conf
  <2>2. STEP \in Nat /\ FEPS \in Nat /\ STEP < FEPS
    BY ConstAssumption
  <2> QED BY <2>1, <2>2 DEF AnnealedBy
<1>6. Action(c) \in {"first", "none", "chosen"}
  BY DEF Action
<1> QED BY <1>1, <1>4, <1>5, <1>6 DEF Learned, Conf, Sized

-------------------------------------------------------------------------------
(* Types *)

LEMMA GameType ==
  game \in Frame => /\ [ep |-> game.ep + 1, n |-> 1] \in Frame
                    /\ [game EXCEPT !.n = @ + 1] \in Frame
  BY DEF Frame

LEMMA TInit == Init => TInv
<1> SUFFICES ASSUME Init PROVE TInv
  OBVIOUS
<1>1. conf \in Conf /\ Len(conf.prev) = 0 /\ Len(conf.mem) = 0
  BY FreshType DEF Init, Fresh
<1>2. game \in Frame
  BY DEF Init, Frame
<1>3. model \in BOOLEAN /\ hurt \in BOOLEAN
  BY DEF Init
<1>6. /\ op \in {"off", "train", "test"} /\ pc \in {"init", "call", "open", "dump", "save"}
      /\ net \in Nat /\ base \in Nat /\ fed \in 0 .. 4
      /\ frames \in 0 .. MaxFrames /\ runs \in 0 .. MaxRuns /\ drops \in 0 .. MaxDrops
      /\ data \in {Nothing, Torn} /\ saved \in {Nothing}
  BY ConstAssumption DEF Init
<1>7. TypeOK
  BY <1>1, <1>2, <1>3, <1>6 DEF TypeOK
<1>4. data \notin Conf
  BY FileAssumption DEF Init
<1>5. pc \notin Saving
  BY DEF Init, Saving
<1> QED BY <1>1, <1>7, <1>4, <1>5, ConstAssumption DEF TInv, Shape, Sized

LEMMA TStart == TInv /\ Start => TInv'
<1> SUFFICES ASSUME TInv, Start PROVE TInv'
  OBVIOUS
<1>1. TypeOK'
  BY ConstAssumption DEF TInv, TypeOK, Start, disk, Frame
<1>2. Shape'
  BY DEF TInv, Shape, Sized, Start, disk, Saving
<1> QED BY <1>1, <1>2 DEF TInv

\* What a process that is gone leaves behind.
LEMMA TLost ==
  ASSUME TInv, Lost, op' \in {"off", "train", "test"}, pc' = "init", game' \in Frame,
         base' = base, hurt' = hurt, UNCHANGED <<disk, frames, runs>>,
         drops' \in 0 .. MaxDrops
  PROVE  TInv'
<1>1. conf' \in Conf /\ Len(conf'.prev) = 0 /\ Len(conf'.mem) = 0
  BY FreshType DEF Lost, Fresh
<1>4. model' \in BOOLEAN /\ hurt' \in BOOLEAN
  BY DEF TInv, TypeOK, Lost
<1>5. net' \in Nat /\ fed' \in 0 .. 4
  BY DEF Lost
<1>2. TypeOK'
  BY <1>1, <1>4, <1>5 DEF TInv, TypeOK, disk
<1>3. Shape'
  BY <1>1, ConstAssumption DEF TInv, Shape, Sized, disk, Saving
<1> QED BY <1>2, <1>3 DEF TInv

LEMMA TGone == TInv /\ (Die \/ Drop \/ Raises) => TInv'
<1>1. TInv => game \in Frame /\ [ep |-> game.ep + 1, n |-> 1] \in Frame
  BY GameType DEF TInv, TypeOK
<1>2. TInv /\ Die => TInv'
  BY <1>1, TLost DEF Die, bounds, TInv, TypeOK
<1>3. TInv /\ Raises => TInv'
  BY <1>1, TLost DEF Raises, bounds, TInv, TypeOK
<1>4. TInv /\ Drop => TInv'
  BY <1>1, TLost, ConstAssumption DEF Drop, TInv, TypeOK
<1> QED BY <1>2, <1>3, <1>4

LEMMA TInitNN == TInv /\ InitNN => TInv'
<1> SUFFICES ASSUME TInv, InitNN PROVE TInv'
  OBVIOUS
<1>1. conf' \in Conf /\ Sized(conf')
  <2>1. CASE data \in {Nothing, Torn}
    <3>1. conf' = Fresh
      BY <2>1 DEF InitNN
    <3>2. Len(Fresh.mem) = 0
      BY DEF Fresh
    <3> QED BY <3>1, <3>2, FreshType, ConstAssumption DEF Sized
  <2>2. CASE data \notin {Nothing, Torn} /\ saved = Nothing
    <3>1. data \in Conf /\ Sized(data)
      BY <2>2 DEF TInv, TypeOK, Shape
    <3>2. conf' = [data EXCEPT !.eps = IEPS] /\ IEPS \in Nat \ {0}
      BY <2>2, ConstAssumption DEF InitNN
    <3> QED BY <3>1, <3>2 DEF Conf, Sized
  <2>3. CASE data \notin {Nothing, Torn} /\ saved # Nothing
    BY <2>3 DEF TInv, TypeOK, Shape, InitNN
  <2> QED BY <2>1, <2>2, <2>3
<1>2. net' \in Nat
  BY DEF TInv, TypeOK, InitNN
<1>5. model' \in BOOLEAN
  BY DEF InitNN
<1>3. TypeOK'
  BY <1>1, <1>2, <1>5 DEF TInv, TypeOK, InitNN, disk, bounds
<1>4. Shape'
  BY <1>1 DEF TInv, Shape, Sized, InitNN, disk, Saving
<1> QED BY <1>3, <1>4 DEF TInv

LEMMA TTrain == ASSUME TInv, NEW term \in BOOLEAN, Train(term) PROVE TInv'
<1>1. conf \in Conf /\ game \in Frame /\ Sized(conf)
  BY DEF TInv, TypeOK, Shape
<1>2. conf' \in Conf /\ Sized(conf') /\ Len(conf'.prev) = 4 /\ conf'.term = term
  BY <1>1, LearnedFacts DEF Train
<1>3. game' \in Frame
  BY <1>1, GameType DEF Train
<1>4. fed' \in 0 .. 4 /\ frames' \in 0 .. MaxFrames
  BY ConstAssumption DEF TInv, TypeOK, Train, Next4
<1>5. TypeOK'
  BY <1>2, <1>3, <1>4 DEF TInv, TypeOK, Train, disk
<1>6. Shape'
  BY <1>2 DEF TInv, Shape, Sized, Train, disk, Saving
<1> QED BY <1>5, <1>6 DEF TInv

LEMMA TSave == TInv /\ SaveStep => TInv'
<1>1. ASSUME TInv, OpenData PROVE TInv'
  <2>1. TypeOK'
    BY <1>1 DEF TInv, TypeOK, OpenData, bounds
  <2>2. Shape'
    BY <1>1, FileAssumption DEF TInv, Shape, Sized, OpenData, Saving
  <2> QED BY <2>1, <2>2 DEF TInv
<1>2. ASSUME TInv, DumpData PROVE TInv'
  <2>1. TypeOK'
    BY <1>2 DEF TInv, TypeOK, DumpData, bounds
  <2>2. Shape'
    BY <1>2 DEF TInv, Shape, Sized, DumpData, Saving
  <2> QED BY <2>1, <2>2 DEF TInv
<1>3. ASSUME TInv, SaveModel PROVE TInv'
  <2>1. conf.prev[1] \in Frame
    BY <1>3 DEF TInv, TypeOK, Conf, Stack, Shape, Saving, SaveModel
  <2>2. TypeOK'
    BY <1>3, <2>1 DEF TInv, TypeOK, SaveModel, bounds, Frame
  <2>3. Shape'
    BY <1>3 DEF TInv, Shape, Sized, SaveModel, Saving
  <2> QED BY <2>2, <2>3 DEF TInv
<1> QED BY <1>1, <1>2, <1>3 DEF SaveStep

LEMMA TTest == TInv /\ Test => TInv'
<1> SUFFICES ASSUME TInv, Test PROVE TInv'
  OBVIOUS
<1>1. conf \in Conf /\ game \in Frame /\ Sized(conf)
  BY DEF TInv, TypeOK, Shape
<1>2. TestStacked(conf, game) \in Stack /\ Len(TestStacked(conf, game)) = 4
  BY <1>1, TestStackFacts DEF Sized
<1>3. conf' \in Conf /\ Sized(conf')
  BY <1>1, <1>2 DEF Test, Conf, Sized
<1>4. game' \in Frame
  BY <1>1, GameType DEF Test, GameGoesOn
<1>5. fed' \in 0 .. 4 /\ frames' \in 0 .. MaxFrames
  BY ConstAssumption DEF TInv, TypeOK, Test, Next4
<1>6. net' \in Nat
  BY DEF TInv, TypeOK, Test
<1>7. TypeOK'
  BY <1>3, <1>4, <1>5, <1>6 DEF TInv, TypeOK, Test, disk
<1>8. Shape'
  BY <1>3 DEF TInv, Shape, Sized, Test, disk, Saving
<1> QED BY <1>7, <1>8 DEF TInv

LEMMA TStutter == TInv /\ UNCHANGED vars => TInv'
  BY DEF TInv, TypeOK, Shape, Sized, vars, disk, bounds

LEMMA Typed == Spec => []TInv
<1>1. TInv /\ [Next]_vars => TInv'
  BY TStart, TGone, TInitNN, TTrain, TSave, TTest, TStutter DEF Next
<1> QED BY TInit, <1>1, PTL DEF Spec

\* Type correctness, epsilon's being positive included.
THEOREM TypeCorrect == Spec => []TypeOK
<1>1. TInv => TypeOK
  BY DEF TInv
<1> QED BY <1>1, Typed, PTL

-------------------------------------------------------------------------------
(* What the replay memory holds, and what is on disk *)

\* Of a configuration, in memory or in .data: its transitions are steps of one
\* episode, and there are as many as its counters say.
Kept(c) ==
  /\ \A i \in DOMAIN c.mem : OneStep(c.mem[i])
  /\ Len(c.mem) = IF Appended(c) > REPLAYSIZE THEN REPLAYSIZE ELSE Appended(c)
  /\ IF c.loop = 0 THEN c.die = 0 ELSE c.die < c.loop

\* A configuration that training can go on from: with frame s next.
Going(c) == (c.prev = <<>> <=> c.loop = 0) /\ (c.prev # <<>> => InOneEpisode(c.prev))
Follows(s, c) == ~ AtStart(c) => s.ep = c.prev[1].ep /\ s.n = c.prev[1].n + 1

OnDisk ==
  /\ data \in Conf => Kept(data) /\ Going(data)
  /\ saved # Nothing => data # Nothing /\ saved.ep < game.ep
  /\ data \in Conf /\ saved # Nothing => saved.ep <= data.prev[1].ep
  /\ pc \in Saving => conf.prev[1].ep + 1 = game.ep
  /\ pc = "dump" => data = Torn
  /\ pc = "save" => data = conf

InMemory ==
  /\ Kept(conf)
  /\ op = "off" => conf = Fresh
  /\ op = "train" => Going(conf) /\ (pc \in {"call"} => Follows(game, conf))

LInv == TInv /\ OnDisk /\ InMemory

LEMMA FreshKept == Kept(Fresh) /\ Going(Fresh) /\ AtStart(Fresh)
<1>1. Fresh.mem = <<>> /\ DOMAIN Fresh.mem = {} /\ Len(Fresh.mem) = 0
  BY DEF Fresh
<1>2. Fresh.loop = 0 /\ Fresh.die = 0 /\ Fresh.prev = <<>>
  BY DEF Fresh
<1> QED BY <1>1, <1>2, ConstAssumption DEF Kept, Going, AtStart, Appended

\* One call keeps a configuration as it should be.
LEMMA KeptLearned ==
  ASSUME NEW c \in Conf, NEW s \in Frame, NEW term \in BOOLEAN, Sized(c),
         Kept(c), Going(c), Follows(s, c)
  PROVE  LET d == Learned(c, s, term) IN Kept(d) /\ Going(d)
<1> DEFINE d == Learned(c, s, term)
           t == [prev |-> c.prev, act |-> c.act, cur |-> Stacked(c, s), term |-> term]
           b == Bounded(Append(c.mem, t))
<1>1. /\ d \in Conf /\ d.prev = Stacked(c, s) /\ d.loop = c.loop + 1
      /\ d.mem = Remembered(c, s, term)
      /\ d.die = IF c.prev # <<>> /\ c.term THEN c.die + 1 ELSE c.die
  BY LearnedFacts
<1>2. /\ Stacked(c, s) \in Stack /\ Len(Stacked(c, s)) = 4 /\ Stacked(c, s)[1] = s
      /\ AtStart(c) => \A i \in 1 .. 4 : Stacked(c, s)[i] = s
      /\ ~ AtStart(c) => /\ Len(c.prev) = 4
                         /\ \A i \in 1 .. 3 : Stacked(c, s)[i + 1] = c.prev[i]
  BY StackFacts DEF Sized
<1>3. /\ c.loop \in Nat /\ c.die \in Nat /\ c.mem \in Seq(Transition)
      /\ c.prev \in Stack /\ c.term \in BOOLEAN /\ s.n \in Nat /\ s.ep \in Nat
  BY DEF Conf, Frame
<1>4. REPLAYSIZE \in Nat \ {0} /\ Len(c.mem) \in Nat /\ Len(c.mem) <= REPLAYSIZE
  BY <1>3, ConstAssumption, LenProperties DEF Sized
<1>5. t \in Transition
  BY <1>2, <1>3 DEF Transition, Conf
<1>6. /\ b \in Seq(Transition)
      /\ Len(b) = IF Len(c.mem) = REPLAYSIZE THEN REPLAYSIZE ELSE Len(c.mem) + 1
      /\ \A i \in DOMAIN b : b[i] = t \/ \E j \in DOMAIN c.mem : b[i] = c.mem[j]
  BY <1>3, <1>4, <1>5, BoundedFacts
<1>7. d.mem = IF AtStart(c) THEN c.mem ELSE b
  BY <1>1 DEF Remembered
<1>8. t.prev = c.prev /\ t.cur = Stacked(c, s)
  OBVIOUS
<1>9. (c.prev = <<>>) <=> Len(c.prev) = 0
  BY <1>3, NoFrames
<1> HIDE DEF d, t, b
<1>10. InOneEpisode(Stacked(c, s))
  <2>1. CASE AtStart(c)
    BY <1>2, <1>3, <2>1 DEF InOneEpisode
  <2>2. CASE ~ AtStart(c)
    <3>1. InOneEpisode(c.prev) /\ s.ep = c.prev[1].ep /\ s.n = c.prev[1].n + 1
      BY <2>2 DEF Going, Follows, AtStart
    <3>2. c.prev[1] \in Frame /\ c.prev[1].n \in Nat
      BY <1>2, <1>3, <2>2, FirstFrame
    <3> DEFINE q == Stacked(c, s)
    <3>3. q[1] = s /\ q[2] = c.prev[1] /\ q[3] = c.prev[2] /\ q[4] = c.prev[3]
      BY <1>2, <2>2
    <3> HIDE DEF q
    <3>4. q[1].ep = q[2].ep /\ q[1].n - q[2].n \in {0, 1}
      BY <3>1, <3>2, <3>3
    <3>5. /\ q[2].ep = q[3].ep /\ q[2].n - q[3].n \in {0, 1}
          /\ q[3].ep = q[4].ep /\ q[3].n - q[4].n \in {0, 1}
      BY <3>1, <3>3 DEF InOneEpisode
    <3>6. \A i \in 1 .. 3 : q[i].ep = q[i + 1].ep /\ q[i].n - q[i + 1].n \in {0, 1}
      BY <3>4, <3>5
    <3> QED BY <1>2, <3>6 DEF q, InOneEpisode
  <2> QED BY <2>1, <2>2
<1>11. \A i \in DOMAIN d.mem : OneStep(d.mem[i])
  <2>1. CASE AtStart(c)
    BY <1>7, <2>1 DEF Kept
  <2>2. CASE ~ AtStart(c)
    <3>1. OneStep(t)
      BY <1>2, <1>8, <1>10, <2>2 DEF OneStep, Going, Follows, AtStart
    <3> QED BY <1>6, <1>7, <2>2, <3>1 DEF Kept
  <2> QED BY <2>1, <2>2
<1>12. (IF d.loop = 0 THEN d.die = 0 ELSE d.die < d.loop)
  BY <1>1, <1>3 DEF Kept, Going
<1>13. Len(d.mem) = IF Appended(d) > REPLAYSIZE THEN REPLAYSIZE ELSE Appended(d)
  <2>1. Appended(d) = d.loop - d.die - 1
    BY <1>1, <1>3 DEF Appended
  <2>2. CASE c.prev = <<>>
    BY <1>1, <1>3, <1>4, <1>7, <2>1, <2>2 DEF Kept, Going, Appended, AtStart
  <2>3. CASE c.prev # <<>> /\ c.term
    BY <1>1, <1>3, <1>4, <1>7, <2>1, <2>3 DEF Kept, Going, Appended, AtStart
  <2>4. CASE c.prev # <<>> /\ ~ c.term
    BY <1>1, <1>3, <1>4, <1>6, <1>7, <2>1, <2>4 DEF Kept, Going, Appended, AtStart
  <2> QED BY <2>2, <2>3, <2>4
<1>14. Going(d)
  <2>1. d.prev # <<>> /\ d.loop # 0
    BY <1>1, <1>2, <1>3
  <2> QED BY <1>1, <1>10, <2>1 DEF Going
<1> QED BY <1>11, <1>12, <1>13, <1>14 DEF Kept, d

LEMMA LInit == Init => LInv
<1> SUFFICES ASSUME Init PROVE LInv
  OBVIOUS
<1>1. TInv
  BY TInit
<1>2. data \notin Conf /\ saved = Nothing /\ pc \notin Saving /\ conf = Fresh /\ op = "off"
  BY FileAssumption DEF Init, Saving
<1>3. OnDisk
  BY <1>2 DEF OnDisk, Saving
<1>4. InMemory
  BY <1>2, FreshKept DEF InMemory
<1> QED BY <1>1, <1>3, <1>4 DEF LInv

LEMMA LStart == LInv /\ Start => LInv'
<1> SUFFICES ASSUME LInv, Start PROVE LInv'
  OBVIOUS
<1>1. TInv'
  BY TStart DEF LInv
<1>2. conf' = Fresh /\ conf = Fresh /\ pc' = "init" /\ UNCHANGED <<data, saved, game>>
  BY DEF LInv, InMemory, Start, disk
<1>3. OnDisk'
  BY <1>2 DEF LInv, OnDisk, Saving, Kept, Going
<1>4. InMemory'
  BY <1>2, FreshKept DEF InMemory, Start
<1> QED BY <1>1, <1>3, <1>4 DEF LInv

LEMMA LGone == LInv /\ (Die \/ Drop \/ Raises) => LInv'
<1> SUFFICES ASSUME LInv, Die \/ Drop \/ Raises PROVE LInv'
  OBVIOUS
<1>1. TInv'
  BY TGone DEF LInv
<1>2. /\ conf' = Fresh /\ pc' = "init" /\ UNCHANGED <<data, saved>>
      /\ game' = game \/ game' = [ep |-> game.ep + 1, n |-> 1]
  BY DEF Die, Drop, Raises, Lost, disk
<1>3. game.ep \in Nat /\ game'.ep \in {game.ep, game.ep + 1}
  BY <1>2 DEF LInv, TInv, TypeOK, Frame
<1>4. saved # Nothing => saved.ep \in Nat
  BY DEF LInv, TInv, TypeOK
<1>5. OnDisk'
  BY <1>2, <1>3, <1>4 DEF LInv, OnDisk, Saving, Kept, Going
<1>6. InMemory'
  BY <1>2, FreshKept DEF InMemory
<1> QED BY <1>1, <1>5, <1>6 DEF LInv

LEMMA LInitNN == LInv /\ InitNN => LInv'
<1> SUFFICES ASSUME LInv, InitNN PROVE LInv'
  OBVIOUS
<1>1. TInv' /\ UNCHANGED <<data, saved, game, op>> /\ pc' = "call" /\ op # "off"
  BY TInitNN DEF LInv, InitNN, disk
<1>2. OnDisk'
  BY <1>1 DEF LInv, OnDisk, Saving, Kept, Going
<1>3. Kept(conf') /\ Going(conf') /\ AtStart(conf')
  <2>1. CASE data \in {Nothing, Torn}
    BY <2>1, FreshKept DEF InitNN
  <2>2. CASE data \notin {Nothing, Torn}
    <3>1. data \in Conf /\ Kept(data) /\ Going(data) /\ AtStart(data)
      BY <2>2 DEF LInv, TInv, TypeOK, Shape, OnDisk, AtStart
    <3>2. conf' = data \/ conf' = [data EXCEPT !.eps = IEPS]
      BY <2>2 DEF InitNN
    <3>3. /\ conf'.loop = data.loop /\ conf'.die = data.die /\ conf'.mem = data.mem
          /\ conf'.prev = data.prev /\ conf'.term = data.term
      BY <3>1, <3>2 DEF Conf
    <3> QED BY <3>1, <3>3 DEF Kept, Going, AtStart, Appended
  <2> QED BY <2>1, <2>2
<1>4. InMemory'
  BY <1>1, <1>3 DEF InMemory, Follows
<1> QED BY <1>1, <1>2, <1>4 DEF LInv

LEMMA LTrain == ASSUME LInv, NEW term \in BOOLEAN, Train(term) PROVE LInv'
<1>1. TInv'
  BY TTrain DEF LInv
<1>2. /\ conf \in Conf /\ Sized(conf) /\ game \in Frame
      /\ Kept(conf) /\ Going(conf) /\ Follows(game, conf)
  BY DEF LInv, TInv, TypeOK, Shape, InMemory, Train
<1>3. conf' = Learned(conf, game, term)
  BY DEF Train
<1>4. Kept(conf') /\ Going(conf')
  BY <1>2, <1>3, KeptLearned
<1>5. conf'.prev[1] = game /\ conf'.term = term /\ conf'.prev = Stacked(conf, game)
  BY <1>2, <1>3, LearnedFacts, StackFacts DEF Sized
<1>6. /\ op' = "train" /\ UNCHANGED <<data, saved>>
      /\ pc' = IF term THEN "open" ELSE "call"
      /\ game' = IF term THEN [ep |-> game.ep + 1, n |-> 1] ELSE [game EXCEPT !.n = @ + 1]
  BY DEF Train, disk
<1>7. game.ep \in Nat /\ game.n \in Nat /\ (term => game'.ep = game.ep + 1)
      /\ (~ term => game'.ep = game.ep /\ game'.n = game.n + 1)
  BY <1>2, <1>6 DEF Frame
<1>8. saved # Nothing => saved.ep \in Nat
  BY DEF LInv, TInv, TypeOK
<1>9. OnDisk'
  <2>1. /\ data \in Conf => Kept(data) /\ Going(data)
        /\ saved # Nothing => data # Nothing /\ saved.ep < game.ep
        /\ data \in Conf /\ saved # Nothing => saved.ep <= data.prev[1].ep
    BY DEF LInv, OnDisk
  <2>2. saved' # Nothing => data' # Nothing /\ saved'.ep < game'.ep
    BY <1>6, <1>7, <1>8, <2>1
  <2>3. pc' \in Saving => conf'.prev[1].ep + 1 = game'.ep
    BY <1>5, <1>6, <1>7 DEF Saving
  <2>4. pc' # "dump" /\ pc' # "save"
    BY <1>6
  <2>5. data' \in Conf => Kept(data') /\ Going(data')
    BY <1>6, <2>1
  <2>6. data' \in Conf /\ saved' # Nothing => saved'.ep <= data'.prev[1].ep
    BY <1>6, <2>1
  <2> QED BY <2>2, <2>3, <2>4, <2>5, <2>6 DEF OnDisk
<1>10. InMemory'
  <2>1. pc' = "call" => Follows(game', conf')
    BY <1>5, <1>6, <1>7 DEF Follows
  <2> QED BY <1>4, <1>6, <2>1 DEF InMemory
<1> QED BY <1>1, <1>9, <1>10 DEF LInv

LEMMA LSave == LInv /\ SaveStep => LInv'
<1> SUFFICES ASSUME LInv, SaveStep PROVE LInv'
  OBVIOUS
<1>1. TInv' /\ UNCHANGED <<op, conf, game>>
  BY TSave DEF LInv, SaveStep, OpenData, DumpData, SaveModel
<1>2. op = "train" /\ conf.term /\ pc \in Saving /\ conf \in Conf /\ game.ep \in Nat
      /\ AtStart(conf) /\ conf.prev[1].ep + 1 = game.ep
  BY DEF LInv, TInv, TypeOK, Shape, OnDisk, SaveStep, OpenData, DumpData, SaveModel,
         Saving, AtStart, Frame
<1>3. conf.prev[1].ep \in Nat
  BY <1>2, FirstFrame DEF LInv, TInv, Shape, Conf
<1>4. InMemory'
  BY <1>1, <1>2 DEF LInv, InMemory, Follows, AtStart
<1>5. saved # Nothing => saved.ep \in Nat
  BY DEF LInv, TInv, TypeOK
<1>6. CASE OpenData
  <2>1. data' \notin Conf /\ data' = Torn /\ data' # Nothing /\ pc' = "dump" /\ saved' = saved
    BY <1>6, FileAssumption DEF OpenData
  <2>2. OnDisk'
    BY <1>1, <1>2, <2>1 DEF LInv, OnDisk, Saving
  <2> QED BY <1>1, <1>4, <2>2 DEF LInv
<1>7. CASE DumpData
  <2>1. data' = conf /\ pc' = "save" /\ saved' = saved
    BY <1>7 DEF DumpData
  <2>2. Kept(conf) /\ Going(conf) /\ conf # Nothing
    BY <1>2, FileAssumption DEF LInv, InMemory
  <2>3. saved # Nothing => saved.ep < game.ep /\ saved.ep <= conf.prev[1].ep
    BY <1>2, <1>3, <1>5 DEF LInv, OnDisk
  <2>4. OnDisk'
    BY <1>1, <1>2, <2>1, <2>2, <2>3 DEF OnDisk, Saving
  <2> QED BY <1>1, <1>4, <2>4 DEF LInv
<1>8. CASE SaveModel
  <2>1. data' = conf /\ data = conf /\ pc' = "call" /\ saved'.ep = conf.prev[1].ep
    BY <1>8 DEF SaveModel, LInv, OnDisk
  <2>2. Kept(conf) /\ Going(conf) /\ conf # Nothing
    BY <1>2, FileAssumption DEF LInv, InMemory
  <2>3. OnDisk'
    BY <1>1, <1>2, <1>3, <2>1, <2>2 DEF OnDisk, Saving
  <2> QED BY <1>1, <1>4, <2>3 DEF LInv
<1> QED BY <1>6, <1>7, <1>8 DEF SaveStep

LEMMA LTest == LInv /\ Test => LInv'
<1> SUFFICES ASSUME LInv, Test PROVE LInv'
  OBVIOUS
<1>1. TInv' /\ UNCHANGED <<op, pc, data, saved>> /\ op = "test" /\ pc = "call"
  BY TTest DEF LInv, Test, disk
<1>2. game.ep \in Nat /\ game'.ep \in {game.ep, game.ep + 1}
  BY DEF LInv, TInv, TypeOK, Frame, Test, GameGoesOn
<1>3. saved # Nothing => saved.ep \in Nat
  BY DEF LInv, TInv, TypeOK
<1>4. OnDisk'
  BY <1>1, <1>2, <1>3 DEF LInv, OnDisk, Saving
<1>5. conf'.loop = conf.loop /\ conf'.die = conf.die /\ conf'.mem = conf.mem
  BY DEF LInv, TInv, TypeOK, Conf, Test
<1>6. Kept(conf')
  BY <1>5 DEF LInv, InMemory, Kept, Appended
<1>7. InMemory'
  BY <1>1, <1>6 DEF InMemory
<1> QED BY <1>1, <1>4, <1>7 DEF LInv

LEMMA LStutter == LInv /\ UNCHANGED vars => LInv'
<1> SUFFICES ASSUME LInv, UNCHANGED vars PROVE LInv'
  OBVIOUS
<1>1. TInv'
  BY TStutter DEF LInv
<1>2. UNCHANGED <<op, pc, conf, data, saved, game>>
  BY DEF vars, disk
<1>3. OnDisk' /\ InMemory'
  BY <1>2 DEF LInv, OnDisk, InMemory, Kept, Going, Follows, AtStart, Appended
<1> QED BY <1>1, <1>3 DEF LInv

LEMMA Learning == Spec => []LInv
<1>1. LInv /\ [Next]_vars => LInv'
  BY LStart, LGone, LInitNN, LTrain, LSave, LTest, LStutter DEF Next
<1> QED BY LInit, <1>1, PTL DEF Spec

\* Every transition that the network learns from is one step of one episode,
\* whatever deaths, restarts and dropped modules there were.
THEOREM WithinEpisodes == Spec => []OneEpisode
<1>1. LInv => OneEpisode
  BY DEF LInv, InMemory, Kept, OneEpisode
<1> QED BY <1>1, Learning, PTL

\* The counters in reinfConf account for the replay memory.
THEOREM MemoryCounted == Spec => []MemCount
<1>1. LInv => MemCount
  BY DEF LInv, InMemory, Kept, MemCount
<1> QED BY <1>1, Learning, PTL

\* .data is written when an episode has ended and never older than the network.
THEOREM SavedInOrder == Spec => []DiskOrdered
<1>1. LInv => DiskOrdered
  BY FileAssumption DEF LInv, TInv, TypeOK, Shape, OnDisk, DiskOrdered
<1> QED BY <1>1, Learning, PTL

-------------------------------------------------------------------------------
(* A minibatch can be drawn *)

\* How far the starts of episodes among the calls, twice counted, are ahead of
\* the calls: every start but those of an episode that ended with its first call
\* was followed by another call.  Only a module dropped in the middle of an
\* episode makes such a start.
Ahead(c) == IF c.loop = 0 THEN 0 ELSE 2 * (c.die + 1) - c.loop

SInv ==
  /\ data \in Conf => Ahead(data) <= drops
  /\ op = "train" /\ pc # "init" =>
       Ahead(conf) <= IF AtStart(conf) THEN drops ELSE drops + 1
  /\ op = "train" /\ pc = "call" /\ AtStart(conf) /\ game.n > 1 => Ahead(conf) < drops
  /\ op = "train" /\ pc = "init" /\ game.n > 1 =>
       0 < drops /\ (data \in Conf => Ahead(data) < drops)
  /\ op = "off" \/ pc \in Saving => game.n = 1

LEMMA AheadType == \A c \in Conf : Ahead(c) \in Int
  BY DEF Ahead, Conf

LEMMA SInit == Init => SInv
  BY FileAssumption DEF Init, SInv, Saving

LEMMA SStep ==
  ASSUME MinEpisode >= 2, LInv, SInv, Next PROVE SInv'
<1>1. /\ conf \in Conf /\ drops \in Nat /\ game \in Frame /\ game.n \in Nat
      /\ Ahead(conf) \in Int /\ (data \in Conf => Ahead(data) \in Int)
  BY AheadType DEF LInv, TInv, TypeOK, Frame
<1>2. CASE Start
  <2>1. UNCHANGED <<data, drops, game, conf>> /\ pc' = "init" /\ op = "off" /\ game.n = 1
    BY <1>2 DEF Start, disk, SInv
  <2> QED BY <2>1, <1>1 DEF SInv, Ahead, Saving, AtStart
<1>3. CASE Die \/ Raises
  <2>1. UNCHANGED <<data, drops>> /\ op' = "off" /\ pc' = "init" /\ game'.n = 1
    BY <1>3 DEF Die, Raises, disk, bounds
  <2> QED BY <2>1 DEF SInv, Ahead
<1>4. CASE Drop
  <2>1. UNCHANGED <<data, game, op>> /\ pc' = "init" /\ drops' = drops + 1 /\ op # "off"
    BY <1>4 DEF Drop, disk
  <2>2. data \in Conf => Ahead(data') < drops'
    BY <1>1, <2>1 DEF SInv
  <2>3. data' \in Conf => Ahead(data') <= drops'
    BY <1>1, <2>1 DEF SInv
  <2> QED BY <1>1, <2>1, <2>2, <2>3 DEF SInv, Saving
<1>5. CASE InitNN
  <2>1. UNCHANGED <<data, drops, game, op>> /\ pc = "init" /\ pc' = "call" /\ op # "off"
    BY <1>5 DEF InitNN, disk, bounds
  <2>2. AtStart(conf') /\ Ahead(conf') = (IF data \in Conf THEN Ahead(data) ELSE 0)
    <3>1. CASE data \in {Nothing, Torn}
      <4>1. conf' = Fresh /\ data \notin Conf
        BY <1>5, <3>1, FileAssumption DEF InitNN
      <4>2. Fresh.loop = 0 /\ Fresh.prev = <<>>
        BY DEF Fresh
      <4> QED BY <4>1, <4>2 DEF Ahead, AtStart
    <3>2. CASE data \notin {Nothing, Torn}
      <4>1. data \in Conf /\ AtStart(data)
        BY <3>2 DEF LInv, TInv, TypeOK, Shape, AtStart
      <4>2. conf' = data \/ conf' = [data EXCEPT !.eps = IEPS]
        BY <1>5, <3>2 DEF InitNN
      <4>3. /\ conf'.loop = data.loop /\ conf'.die = data.die
            /\ conf'.prev = data.prev /\ conf'.term = data.term
        BY <4>1, <4>2 DEF Conf
      <4> QED BY <4>1, <4>3 DEF Ahead, AtStart
    <3> QED BY <3>1, <3>2
  <2>3. data' \in Conf => Ahead(data') <= drops'
    BY <2>1 DEF SInv
  <2>4. Ahead(conf') <= drops'
    BY <1>1, <2>1, <2>2 DEF SInv
  <2>5. op = "train" /\ game.n > 1 => Ahead(conf') < drops'
    BY <1>1, <2>1, <2>2 DEF SInv
  <2> QED BY <2>1, <2>2, <2>3, <2>4, <2>5 DEF SInv, Saving
<1>6. ASSUME NEW term \in BOOLEAN, Train(term) PROVE SInv'
  <2>1. /\ UNCHANGED <<data, drops, op>> /\ op = "train" /\ pc = "call"
        /\ pc' = IF term THEN "open" ELSE "call"
        /\ conf' = Learned(conf, game, term) /\ (term => game.n >= MinEpisode)
        /\ game' = IF term THEN [ep |-> game.ep + 1, n |-> 1] ELSE [game EXCEPT !.n = @ + 1]
    BY <1>6 DEF Train, disk
  <2>2. /\ conf'.loop = conf.loop + 1 /\ conf'.term = term /\ Len(conf'.prev) = 4
        /\ conf'.die = IF conf.prev # <<>> /\ conf.term THEN conf.die + 1 ELSE conf.die
    BY <1>1, <2>1, LearnedFacts DEF LInv, TInv, Shape
  <2>3. conf'.prev # <<>>
    BY <2>2
  <2>4. /\ conf.loop \in Nat /\ conf.die \in Nat
        /\ (conf.prev = <<>> <=> conf.loop = 0) /\ (conf.loop = 0 => conf.die = 0)
    BY <1>1, <2>1 DEF Conf, LInv, InMemory, Going, Kept
  <2>5. AtStart(conf') <=> term
    BY <2>2, <2>3 DEF AtStart
  <2>6. Ahead(conf') = 2 * (conf'.die + 1) - (conf.loop + 1)
    BY <2>2, <2>4 DEF Ahead
  <2>10. /\ Ahead(conf) <= IF AtStart(conf) THEN drops ELSE drops + 1
         /\ term /\ AtStart(conf) => Ahead(conf) < drops
    <3>1. MinEpisode \in Nat /\ (term => game.n > 1)
      BY <1>1, <2>1, ConstAssumption
    <3> QED BY <2>1, <3>1 DEF SInv
  <2>7. Ahead(conf') <= IF term THEN drops ELSE drops + 1
    <3>1. CASE conf.prev = <<>>
      <4>1. Ahead(conf') = 1 /\ Ahead(conf) = 0 /\ AtStart(conf)
        BY <2>2, <2>4, <2>6, <3>1 DEF Ahead, AtStart
      <4> QED BY <1>1, <2>10, <4>1
    <3>2. CASE conf.prev # <<>> /\ conf.term
      <4>1. Ahead(conf') = Ahead(conf) + 1 /\ AtStart(conf)
        BY <2>2, <2>4, <2>6, <3>2 DEF Ahead, AtStart
      <4> QED BY <1>1, <2>10, <4>1
    <3>3. CASE conf.prev # <<>> /\ ~ conf.term
      <4>1. Ahead(conf') = Ahead(conf) - 1 /\ ~ AtStart(conf)
        BY <2>2, <2>4, <2>6, <3>3 DEF Ahead, AtStart
      <4> QED BY <1>1, <2>10, <4>1
    <3> QED BY <3>1, <3>2, <3>3
  <2>8. data' \in Conf => Ahead(data') <= drops'
    BY <2>1 DEF SInv
  <2>9. term => game'.n = 1
    BY <2>1
  <2> QED BY <2>1, <2>5, <2>7, <2>8, <2>9 DEF SInv, Saving
<1>7. CASE SaveStep
  <2>1. UNCHANGED <<drops, op, game, conf>> /\ op = "train" /\ pc \in Saving /\ pc' # "init"
    BY <1>7 DEF SaveStep, OpenData, DumpData, SaveModel, bounds, Saving
  <2>2. AtStart(conf) /\ Ahead(conf) <= drops /\ game.n = 1
    BY <2>1 DEF LInv, TInv, Shape, AtStart, SInv, Saving
  <2>3. data' = data \/ data' = Torn \/ data' = conf
    BY <1>7 DEF SaveStep, OpenData, DumpData, SaveModel
  <2>4. data' \in Conf => Ahead(data') <= drops'
    BY <2>1, <2>2, <2>3, FileAssumption DEF SInv
  <2>5. Ahead(conf') = Ahead(conf) /\ AtStart(conf') = AtStart(conf)
    BY <2>1 DEF Ahead, AtStart
  <2> QED BY <2>1, <2>2, <2>4, <2>5 DEF SInv
<1>8. CASE Test
  <2>1. UNCHANGED <<data, drops, op, pc>> /\ op = "test" /\ pc = "call"
    BY <1>8 DEF Test, disk
  <2> QED BY <2>1 DEF SInv, Saving, Ahead
<1> QED BY <1>2, <1>3, <1>4, <1>5, <1>6, <1>7, <1>8 DEF Next

LEMMA SStutter == SInv /\ UNCHANGED vars => SInv'
<1> SUFFICES ASSUME SInv, UNCHANGED vars PROVE SInv'
  OBVIOUS
<1>1. UNCHANGED <<op, pc, conf, data, game, drops>>
  BY DEF vars, disk, bounds
<1> QED BY <1>1 DEF SInv, Ahead, AtStart

\* random.sample always has enough to draw from, for every program whose episodes
\* have two frames or more, if OBSERVE makes up for the modules dropped.  (The
\* code's members are 3000, 10000 and 32.)
THEOREM CanSample ==
  ASSUME MinEpisode >= 2, BATCHSIZE <= REPLAYSIZE, 2 * BATCHSIZE + MaxDrops <= OBSERVE + 2
  PROVE  Spec => []EnoughToSample
<1>1. LInv /\ SInv /\ [Next]_vars => SInv'
  BY SStep, SStutter
<1>2. Spec => []SInv
  BY SInit, Learning, <1>1, PTL DEF Spec
<1>3. ASSUME LInv, SInv, op = "train", pc = "call", Trains(conf)
      PROVE  Len(Remembered(conf, game, FALSE)) >= BATCHSIZE
  <2>1. /\ conf \in Conf /\ game \in Frame /\ Sized(conf) /\ ~ AtStart(conf)
        /\ conf.loop > OBSERVE /\ conf.prev # <<>> /\ conf.loop # 0
    BY <1>3 DEF LInv, TInv, TypeOK, Shape, Trains, AtStart, InMemory, Going
  <2>2. /\ conf.loop \in Nat /\ conf.die \in Nat /\ conf.mem \in Seq(Transition)
        /\ drops \in 0 .. MaxDrops
    BY <1>3, <2>1 DEF Conf, LInv, TInv, TypeOK
  <2>3. /\ REPLAYSIZE \in Nat /\ BATCHSIZE \in Nat /\ OBSERVE \in Nat /\ MaxDrops \in Nat
        /\ Len(conf.mem) \in Nat /\ drops \in Nat /\ drops <= MaxDrops
    BY <2>2, ConstAssumption, LenProperties
  <2> DEFINE t == [prev |-> conf.prev, act |-> conf.act, cur |-> Stacked(conf, game), term |-> FALSE]
  <2> DEFINE b == Bounded(Append(conf.mem, t))
  <2>4. t \in Transition
    BY <2>1, StackFacts DEF Transition, Conf, Sized
  <2>5. Remembered(conf, game, FALSE) = b
    BY <2>1 DEF Remembered
  <2>6. Len(b) = IF Len(conf.mem) = REPLAYSIZE THEN REPLAYSIZE ELSE Len(conf.mem) + 1
    BY <2>1, <2>2, <2>4, BoundedFacts DEF Sized
  <2> HIDE DEF b
  <2>7. Len(conf.mem) = REPLAYSIZE \/ Len(conf.mem) = conf.loop - conf.die - 1
    BY <1>3, <2>1 DEF LInv, InMemory, Kept, Appended
  <2>8. 2 * (conf.die + 1) - conf.loop <= drops + 1
    BY <1>3, <2>1 DEF SInv, Ahead
  <2>9. conf.loop >= OBSERVE + 1
    BY <2>1, <2>2, <2>3
  <2>10. conf.loop - conf.die >= BATCHSIZE
    BY <2>2, <2>3, <2>8, <2>9
  <2>11. CASE Len(conf.mem) = REPLAYSIZE
    <3>1. Len(Remembered(conf, game, FALSE)) = REPLAYSIZE
      BY <2>5, <2>6, <2>11
    <3> QED BY <2>3, <3>1
  <2>12. CASE Len(conf.mem) # REPLAYSIZE
    <3>1. Len(b) = conf.loop - conf.die
      BY <2>2, <2>3, <2>6, <2>7, <2>12
    <3> QED BY <2>5, <2>10, <3>1
  <2> QED BY <2>11, <2>12
<1>4. LInv => BATCHSIZE \in Nat /\ Len(Remembered(conf, game, FALSE)) \in Nat
  <2> SUFFICES ASSUME LInv PROVE Len(Remembered(conf, game, FALSE)) \in Nat
    BY ConstAssumption
  <2>1. /\ Learned(conf, game, FALSE) \in Conf
        /\ Learned(conf, game, FALSE).mem = Remembered(conf, game, FALSE)
    BY LearnedFacts DEF LInv, TInv, TypeOK, Shape
  <2> QED BY <2>1, LenProperties DEF Conf
<1>5. LInv /\ SInv => EnoughToSample
  <2> DEFINE l == Len(Remembered(conf, game, FALSE))
  <2>1. l \in Nat /\ BATCHSIZE \in Nat => (l >= BATCHSIZE <=> ~ (l < BATCHSIZE))
    <3> HIDE DEF l
    <3> QED OBVIOUS
  <2> QED BY <1>3, <1>4, <2>1 DEF EnoughToSample, TooFew
<1> QED BY <1>2, <1>5, Learning, PTL
-------------------------------------------------------------------------------
(* Exploration and what was learned *)

Within(e) == FEPS - STEP < e /\ e <= IEPS

\* Epsilon was annealed for each of k training steps.
InStep(e, k) == e > FEPS => e + STEP * k <= IEPS

Running == op # "off" /\ pc # "init"

\* The network in the session is not behind the one on disk, and what is saved
\* first, .data, is in step with the network that is not yet replaced.
AInv ==
  /\ data \in Conf => Within(data.eps)
  /\ Running => Within(conf.eps)
  /\ op = "train" /\ Running /\ ~ model => conf.eps <= FEPS \/ conf.eps + STEP * net = IEPS
  /\ ~ hurt =>
       /\ Running => InStep(conf.eps, net)
       /\ data \in Conf /\ saved # Nothing => InStep(data.eps, saved.age)
       /\ op = "train" /\ Running /\ saved # Nothing => saved.age <= net
       /\ op = "test" /\ Running /\ saved # Nothing => model

LEMMA Numbers ==
  /\ STEP \in Nat \ {0} /\ FEPS \in Nat \ {0} /\ IEPS \in Nat \ {0} /\ STEP < FEPS /\ FEPS < IEPS
  /\ \A k \in Nat : STEP * k \in Nat /\ STEP * (k + 1) = STEP * k + STEP
  /\ STEP * 0 = 0
  /\ \A j, k \in Nat : j <= k => STEP * j <= STEP * k
<1>1. STEP \in Nat \ {0} /\ FEPS \in Nat \ {0} /\ IEPS \in Nat \ {0} /\ STEP < FEPS /\ FEPS < IEPS
  BY ConstAssumption
<1>2. \A k \in Nat : STEP * k \in Nat /\ STEP * (k + 1) = STEP * k + STEP
  BY <1>1
<1>3. \A j, k \in Nat : j <= k => STEP * j <= STEP * k
  BY <1>1
<1> QED BY <1>1, <1>2, <1>3

LEMMA InStepOlder ==
  ASSUME NEW e \in Nat, NEW j \in Nat, NEW k \in Nat, j <= k, InStep(e, k)
  PROVE  InStep(e, j)
<1>1. STEP * j <= STEP * k /\ STEP * j \in Nat /\ STEP * k \in Nat /\ IEPS \in Nat /\ FEPS \in Nat
  BY Numbers
<1> QED BY <1>1 DEF InStep

\* The first epsilon.
LEMMA FirstEps == Within(IEPS) /\ InStep(IEPS, 0) /\ IEPS + STEP * 0 = IEPS
<1>1. STEP * 0 = 0 /\ IEPS \in Nat /\ FEPS \in Nat /\ STEP \in Nat /\ FEPS < IEPS
  BY Numbers
<1>2. FEPS - STEP < IEPS /\ IEPS <= IEPS /\ IEPS + 0 = IEPS
  BY <1>1, Numbers
<1> QED BY <1>1, <1>2 DEF Within, InStep

LEMMA ATypes ==
  LInv => /\ net \in Nat /\ conf \in Conf /\ conf.eps \in Nat
          /\ (saved # Nothing => saved.age \in Nat)
          /\ (data \in Conf => data.eps \in Nat)
          /\ (data \notin Conf => data \in {Nothing, Torn})
          /\ (saved # Nothing => data # Nothing)
          /\ (pc = "save" => data = conf)
          /\ (pc \in Saving => op = "train")
<1> SUFFICES ASSUME LInv PROVE /\ net \in Nat /\ conf \in Conf /\ conf.eps \in Nat
          /\ (saved # Nothing => saved.age \in Nat)
          /\ (data \in Conf => data.eps \in Nat)
          /\ (data \notin Conf => data \in {Nothing, Torn})
          /\ (saved # Nothing => data # Nothing)
          /\ (pc = "save" => data = conf)
          /\ (pc \in Saving => op = "train")
  OBVIOUS
<1>1. net \in Nat /\ conf \in Conf /\ (data \notin Conf => data \in {Nothing, Torn})
      /\ (saved # Nothing => saved.age \in Nat)
  BY DEF LInv, TInv, TypeOK
<1>2. conf.eps \in Nat /\ (data \in Conf => data.eps \in Nat)
  BY <1>1 DEF Conf
<1>3. /\ (saved # Nothing => data # Nothing) /\ (pc = "save" => data = conf)
      /\ (pc \in Saving => op = "train")
  BY DEF LInv, TInv, Shape, OnDisk
<1> QED BY <1>1, <1>2, <1>3

LEMMA AInit == Init => AInv
  BY FileAssumption DEF Init, AInv, Running

\* An init() takes epsilon and the network from the disk, or both anew.
LEMMA AInitNN == ASSUME LInv, AInv, InitNN PROVE AInv'
<1>1. UNCHANGED <<op, data, saved>> /\ op # "off" /\ pc' = "call" /\ hurt' = (hurt \/ data = Torn)
  BY DEF InitNN, disk
<1>2. /\ data \in Conf => Within(data.eps)
      /\ ~ hurt' /\ data \in Conf /\ saved # Nothing => InStep(data.eps, saved.age)
  BY <1>1 DEF AInv
<1>3. CASE data \in Conf /\ saved # Nothing
  <2>1. conf' = data /\ net' = saved.age /\ model' = TRUE
    BY <1>3, OldData DEF InitNN
  <2>2. saved.age <= net'
    BY <1>3, <2>1, ATypes
  <2> QED BY <1>1, <1>2, <1>3, <2>1, <2>2 DEF AInv, Running
<1>4. CASE data \notin Conf \/ saved = Nothing
  <2>1. conf'.eps = IEPS /\ net' = 0 /\ model' = FALSE
    <3>1. CASE data \notin Conf
      <4>1. conf' = Fresh /\ net' = 0 /\ model' = FALSE
        BY <3>1, ATypes DEF InitNN
      <4> QED BY <4>1 DEF Fresh
    <3>2. CASE data \in Conf
      <4>1. conf' = [data EXCEPT !.eps = IEPS] /\ net' = 0 /\ model' = FALSE
        BY <1>4, <3>2, OldData DEF InitNN
      <4> QED BY <3>2, <4>1 DEF Conf
    <3> QED BY <3>1, <3>2
  <2>2. ~ hurt' => saved = Nothing
    BY <1>1, <1>4, ATypes
  <2> QED BY <1>1, <1>2, <2>1, <2>2, FirstEps DEF AInv, Running
<1> QED BY <1>3, <1>4

LEMMA ATrain == ASSUME LInv, AInv, NEW term \in BOOLEAN, Train(term) PROVE AInv'
<1>1. /\ UNCHANGED <<op, data, saved, hurt, model>> /\ op = "train" /\ pc = "call" /\ pc' # "init"
      /\ net' = IF Trains(conf) THEN net + 1 ELSE net
  BY DEF Train, disk
<1>2. conf'.eps = AnnealedBy(conf)
  BY LearnedFacts DEF Train, LInv, TInv, TypeOK, Shape
<1>3. /\ net \in Nat /\ conf.eps \in Nat
      /\ STEP \in Nat /\ FEPS \in Nat /\ IEPS \in Nat /\ STEP < FEPS
      /\ STEP * net \in Nat /\ STEP * (net + 1) = STEP * net + STEP
  BY ATypes, Numbers
<1>4. /\ Within(conf.eps) /\ (~ hurt => InStep(conf.eps, net))
      /\ (~ model => conf.eps <= FEPS \/ conf.eps + STEP * net = IEPS)
      /\ (~ hurt /\ saved # Nothing => saved.age <= net)
  BY <1>1 DEF AInv, Running
<1>5. CASE Trains(conf) /\ conf.eps > FEPS
  <2>1. conf'.eps = conf.eps - STEP /\ net' = net + 1
    BY <1>1, <1>2, <1>5 DEF AnnealedBy
  <2>2. conf.eps - STEP + STEP * (net + 1) = conf.eps + STEP * net
    BY <1>3
  <2>3. Within(conf.eps - STEP)
    BY <1>3, <1>4, <1>5 DEF Within
  <2>4. ~ hurt => InStep(conf.eps - STEP, net + 1)
    BY <1>3, <1>4, <1>5, <2>2 DEF InStep
  <2>5. ~ model => conf.eps - STEP <= FEPS \/ conf.eps - STEP + STEP * (net + 1) = IEPS
    <3>1. ASSUME ~ model PROVE conf.eps + STEP * net = IEPS
      BY <1>3, <1>4, <1>5, <3>1
    <3> QED BY <2>2, <3>1
  <2>6. ~ hurt /\ saved # Nothing => saved.age <= net + 1
    BY <1>3, <1>4, ATypes
  <2> QED BY <1>1, <2>1, <2>3, <2>4, <2>5, <2>6 DEF AInv, Running
<1>6. CASE Trains(conf) /\ ~ (conf.eps > FEPS)
  <2>1. conf'.eps = conf.eps /\ net' = net + 1 /\ conf.eps <= FEPS
    BY <1>1, <1>2, <1>3, <1>6 DEF AnnealedBy
  <2>2. InStep(conf.eps, net + 1)
    BY <1>6 DEF InStep
  <2>3. ~ hurt /\ saved # Nothing => saved.age <= net + 1
    BY <1>3, <1>4, ATypes
  <2> QED BY <1>1, <1>4, <2>1, <2>2, <2>3 DEF AInv, Running
<1>7. CASE ~ Trains(conf)
  <2>1. conf'.eps = conf.eps /\ net' = net
    BY <1>1, <1>2, <1>7 DEF AnnealedBy
  <2> QED BY <1>1, <1>4, <2>1 DEF AInv, Running
<1> QED BY <1>5, <1>6, <1>7

\* .data is written beside an older network, with which it is in step all the
\* more; then the network is.
LEMMA ASave == ASSUME LInv, AInv, SaveStep PROVE AInv'
<1>1. UNCHANGED <<op, conf, net, model, hurt>> /\ op = "train" /\ pc # "init" /\ pc' # "init"
  BY DEF SaveStep, OpenData, DumpData, SaveModel
<1>2. /\ Within(conf.eps) /\ (~ hurt => InStep(conf.eps, net))
      /\ (~ hurt /\ saved # Nothing => saved.age <= net)
  BY <1>1 DEF AInv, Running
<1>3. CASE OpenData
  <2>1. data' \notin Conf /\ saved' = saved
    BY <1>3, FileAssumption DEF OpenData
  <2> QED BY <1>1, <2>1 DEF AInv, Running
<1>4. CASE DumpData
  <2>1. data' = conf /\ saved' = saved
    BY <1>4 DEF DumpData
  <2>2. ~ hurt /\ saved # Nothing => InStep(conf.eps, saved.age)
    BY <1>2, ATypes, InStepOlder
  <2> QED BY <1>1, <1>2, <2>1, <2>2 DEF AInv, Running
<1>5. CASE SaveModel
  <2>1. data' = conf /\ data = conf /\ saved' = [age |-> net, ep |-> conf.prev[1].ep]
    BY <1>5, ATypes DEF SaveModel
  <2>2. saved'.age = net /\ net <= net
    BY <2>1, ATypes
  <2> QED BY <1>1, <1>2, <2>1, <2>2 DEF AInv, Running
<1> QED BY <1>3, <1>4, <1>5 DEF SaveStep

LEMMA ATest == ASSUME LInv, AInv, Test PROVE AInv'
<1>1. /\ UNCHANGED <<op, pc, data, saved, hurt>> /\ op = "test" /\ pc = "call"
      /\ model' = TRUE /\ (model => net' = net) /\ (model \/ saved # Nothing)
  BY DEF Test, disk
<1>2. conf'.eps = conf.eps
  BY ATypes DEF Test, Conf
<1>3. ~ hurt => net' = net
  BY <1>1 DEF AInv, Running
<1> QED BY <1>1, <1>2, <1>3 DEF AInv, Running

LEMMA AStep == LInv /\ AInv /\ [Next]_vars => AInv'
<1>1. ASSUME AInv, Start \/ Die \/ Drop \/ Raises PROVE AInv'
  <2>1. UNCHANGED <<data, saved, hurt>> /\ pc' = "init"
    BY <1>1 DEF Start, Die, Drop, Raises, disk
  <2> QED BY <1>1, <2>1 DEF AInv, Running
<1>2. AInv /\ UNCHANGED vars => AInv'
  <2> SUFFICES ASSUME AInv, UNCHANGED vars PROVE AInv'
    OBVIOUS
  <2>1. UNCHANGED <<op, pc, conf, net, model, data, saved, hurt>>
    BY DEF vars, disk
  <2> QED BY <2>1 DEF AInv, Running
<1> QED BY <1>1, <1>2, AInitNN, ATrain, ASave, ATest DEF Next

LEMMA Exploring == Spec => []AInv
<1> QED BY AInit, AStep, Learning, PTL DEF Spec

\* Epsilon keeps step with the network, however the program died between the
\* two saves of an episode's end, unless it died inside the first.
THEOREM InStepWithTheNetwork == Spec => []Annealed
<1>1. LInv /\ AInv => Annealed
  <2> SUFFICES ASSUME LInv, AInv, Running PROVE
        /\ FEPS - STEP < conf.eps /\ conf.eps <= IEPS
        /\ ~ hurt /\ conf.eps > FEPS => conf.eps + STEP * net <= IEPS
        /\ op = "train" /\ ~ model => conf.eps <= FEPS \/ conf.eps + STEP * net = IEPS
    BY DEF Annealed, Running
  <2> QED BY DEF AInv, Within, InStep
<1> QED BY <1>1, Exploring, Learning, PTL

\* A network that was saved is never replaced by one that has learned less.
THEOREM NothingUnlearned == Spec => LearningKept
<1>1. LInv /\ AInv /\ [Next]_vars => [saved # Nothing /\ ~ hurt => saved'.age >= saved.age]_vars
  <2> SUFFICES ASSUME LInv, AInv, Next, saved # Nothing, ~ hurt PROVE saved'.age >= saved.age
    OBVIOUS
  <2>1. CASE SaveModel
    <3>1. saved'.age = net /\ op = "train" /\ pc = "save"
      BY <2>1 DEF SaveModel
    <3> QED BY <3>1, ATypes DEF AInv, Running
  <2>2. CASE ~ SaveModel
    <3>1. saved' = saved
      BY <2>2 DEF Next, Start, Die, Drop, InitNN, Train, SaveStep, OpenData, DumpData, Test, Raises, disk
    <3> QED BY <3>1, ATypes
  <2> QED BY <2>1, <2>2
<1> QED BY <1>1, Exploring, Learning, PTL DEF Spec, LearningKept
-------------------------------------------------------------------------------
(* Tests *)

\* A test has restored what is on disk, and the newest fed frames of its stack
\* are its own.
QInv ==
  /\ base <= game.ep
  /\ op = "off" \/ pc = "init" => ~ model /\ fed = 0
  /\ op = "test" /\ fed > 0 =>
       /\ model /\ Len(conf.prev) = 4
       /\ \A i \in 1 .. 4 : i <= fed => conf.prev[i].ep >= base
  /\ op = "test" /\ model => saved # Nothing /\ net = saved.age

LEMMA QInit == Init => QInv
<1> SUFFICES ASSUME Init PROVE QInv
  OBVIOUS
<1>1. base = 0 /\ game.ep = 0 /\ op = "off" /\ ~ model /\ fed = 0
  BY DEF Init
<1> QED BY <1>1 DEF QInv

LEMMA QGone == ASSUME LInv, QInv, Start \/ Die \/ Drop \/ Raises PROVE QInv'
<1>1. base \in Nat /\ game.ep \in Nat
  BY DEF LInv, TInv, TypeOK, Frame
<1>2. base' <= game'.ep
  BY <1>1 DEF QInv, Start, Die, Drop, Raises
<1>3. ~ model' /\ fed' = 0
  BY DEF QInv, Start, Die, Drop, Raises, Lost
<1> QED BY <1>2, <1>3 DEF QInv

LEMMA QInitNN == ASSUME LInv, QInv, InitNN PROVE QInv'
<1>1. UNCHANGED <<op, saved, game, base>> /\ op # "off" /\ pc' = "call" /\ fed' = 0
  BY DEF InitNN, disk
<1>2. model' => saved # Nothing /\ net' = saved.age
  BY DEF InitNN
<1> QED BY <1>1, <1>2 DEF QInv

LEMMA QTrain == ASSUME LInv, QInv, NEW term \in BOOLEAN, Train(term) PROVE QInv'
<1>1. op = "train" /\ UNCHANGED <<op, base>> /\ pc' # "init"
      /\ game' = IF term THEN [ep |-> game.ep + 1, n |-> 1] ELSE [game EXCEPT !.n = @ + 1]
  BY DEF Train
<1>2. base \in Nat /\ game.ep \in Nat /\ game \in Frame
  BY DEF LInv, TInv, TypeOK, Frame
<1>3. game'.ep \in {game.ep, game.ep + 1}
  BY <1>1, <1>2 DEF Frame
<1>4. base' <= game'.ep
  BY <1>1, <1>2, <1>3 DEF QInv
<1> QED BY <1>1, <1>4 DEF QInv

LEMMA QSave == ASSUME QInv, SaveStep PROVE QInv'
<1>1. UNCHANGED <<op, game, base>> /\ op = "train" /\ pc' # "init"
  BY DEF SaveStep, OpenData, DumpData, SaveModel
<1> QED BY <1>1 DEF QInv

LEMMA QTest == ASSUME LInv, QInv, Test PROVE QInv'
<1>1. /\ UNCHANGED <<op, pc, saved, base>> /\ op = "test" /\ pc = "call" /\ fed' = Next4(fed)
      /\ model' = TRUE /\ net' = (IF model THEN net ELSE saved.age)
      /\ (model \/ saved # Nothing)
  BY DEF Test, disk
<1>2. base \in Nat /\ game.ep \in Nat /\ game \in Frame /\ fed \in 0 .. 4 /\ Len(conf.prev) \in {0, 4}
      /\ conf \in Conf /\ conf.prev \in Stack
  BY DEF LInv, TInv, TypeOK, Shape, Sized, Frame, Conf
<1>3. game'.ep \in {game.ep, game.ep + 1}
  BY <1>2 DEF Test, GameGoesOn, Frame
<1>4. base' <= game'.ep
  BY <1>1, <1>2, <1>3 DEF QInv
<1>5. saved' # Nothing /\ net' = saved'.age
  BY <1>1 DEF QInv
<1> DEFINE q == TestStacked(conf, game)
<1>6. conf'.prev = q
  BY <1>2 DEF Test, Conf
<1>7. /\ Len(q) = 4 /\ q[1] = game
      /\ conf.prev = <<>> => \A i \in 1 .. 4 : q[i] = game
      /\ conf.prev # <<>> => \A i \in 1 .. 3 : q[i + 1] = conf.prev[i]
  BY <1>2, TestStackFacts
<1> HIDE DEF q
<1>8. game.ep >= base
  BY <1>2 DEF QInv
<1>9. \A i \in 1 .. 4 : i <= fed' => q[i].ep >= base
  <2>1. CASE conf.prev = <<>>
    BY <1>7, <1>8, <2>1
  <2>2. CASE conf.prev # <<>>
    <3> SUFFICES ASSUME NEW i \in 1 .. 4, i <= fed' PROVE q[i].ep >= base
      OBVIOUS
    <3>1. CASE i = 1
      BY <1>7, <1>8, <3>1
    <3>2. CASE i # 1
      <4>1. i - 1 \in 1 .. 3 /\ i - 1 \in 1 .. 4 /\ i - 1 <= fed /\ fed > 0 /\ (i - 1) + 1 = i
        BY <1>1, <1>2, <3>2 DEF Next4
      <4>2. conf.prev[i - 1].ep >= base
        BY <1>1, <4>1 DEF QInv
      <4>3. q[(i - 1) + 1] = conf.prev[i - 1]
        BY <1>7, <2>2, <4>1
      <4> QED BY <4>1, <4>2, <4>3
    <3> QED BY <3>1, <3>2
  <2> QED BY <2>1, <2>2
<1> QED BY <1>1, <1>4, <1>5, <1>6, <1>7, <1>9 DEF QInv

LEMMA QStutter == QInv /\ UNCHANGED vars => QInv'
<1> SUFFICES ASSUME QInv, UNCHANGED vars PROVE QInv'
  OBVIOUS
<1>1. UNCHANGED <<op, pc, conf, net, model, saved, game, base, fed>>
  BY DEF vars, disk
<1> QED BY <1>1 DEF QInv

LEMMA Testing == Spec => []QInv
<1>1. LInv /\ QInv /\ [Next]_vars => QInv'
  BY QGone, QInitNN, QTrain, QSave, QTest, QStutter DEF Next
<1> QED BY QInit, <1>1, Learning, PTL DEF Spec

\* A test asks the network that was saved last, and after three calls shows it
\* nothing of the training any more.
THEOREM TestedAsSaved == Spec => []TestAsks
<1>1. QInv => TestAsks
  <2>1. ASSUME QInv, op = "test", fed > 0 PROVE saved # Nothing /\ net = saved.age
    BY <2>1 DEF QInv
  <2>2. ASSUME QInv, op = "test", fed = 4, NEW i \in 1 .. 4 PROVE conf.prev[i].ep >= base
    <3>1. fed > 0 /\ i <= fed
      BY <2>2
    <3> QED BY <2>2, <3>1 DEF QInv
  <2> QED BY <2>1, <2>2 DEF TestAsks
<1> QED BY <1>1, Testing, PTL
===============================================================================
