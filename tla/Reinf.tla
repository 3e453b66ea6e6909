--------------------------------- MODULE Reinf ---------------------------------
(***************************************************************************)
(* Reinforcement learning (PINNHelper.py, TFNNReinfConf and TFNNReinf).    *)
(* The program plays a game in episodes and gives every frame to train()   *)
(* or test() through the model's Python module.  What is learned is kept   *)
(* in two files: .data, a pickle of reinfConf (the replay memory, epsilon, *)
(* the counters), and the network, saved one after the other at the end of *)
(* an episode.  The process may die at any point, and the module may be    *)
(* dropped by runModel's cache in the middle of an episode.                *)
(*                                                                         *)
(* A frame is its place in the world: the number of its episode and its    *)
(* number in it.  A network is the number of its training steps.  Rewards, *)
(* Q values and which action is chosen are left out.                       *)
(***************************************************************************)
EXTENDS Integers, Sequences

CONSTANTS
  OBSERVE, REPLAYSIZE, BATCHSIZE, EXPLORE,   \* TFNNReinf's members
  IEPS, FEPS,  \* the first and the last epsilon, in a unit that makes
  STEP,        \* STEP, by which it is annealed, an integer
  MinEpisode,  \* the fewest frames of an episode
  MaxFrames,   \* bound: frames that are given to the network
  MaxRuns,     \* bound: starts of the program
  MaxDrops,    \* bound: modules dropped in the middle of a run
  Nothing,     \* a file that does not exist
  Torn         \* .data when it was opened "wb" and not yet written and closed

ASSUME ConstAssumption ==
  /\ {OBSERVE, MaxFrames, MaxRuns, MaxDrops} \subseteq Nat
  /\ {REPLAYSIZE, BATCHSIZE, EXPLORE, IEPS, FEPS, STEP, MinEpisode} \subseteq Nat \ {0}
  /\ STEP < FEPS /\ FEPS < IEPS
  /\ STEP * EXPLORE = 10 * (IEPS - FEPS)

Frame == [ep : Nat, n : Nat]
Stack == Seq(Frame)                      \* newest first; four, or none yet
Transition == [prev : Stack, act : {"first", "none", "chosen"}, cur : Stack, term : BOOLEAN]
Conf == [loop : Nat, prev : Stack, act : {"first", "none", "chosen"}, term : BOOLEAN,
         eps : Nat \ {0}, mem : Seq(Transition), die : Nat]

ASSUME FileAssumption == Nothing \notin Conf /\ Torn \notin Conf /\ Nothing # Torn
                         /\ Nothing \notin [age : Nat, ep : Nat]

VARIABLES
  op,      \* the program: "off", "train" or "test" (its status)
  pc,      \* "init", "call", and inside train() "open", "dump", "save"
  conf,    \* reinfConf
  net,     \* the network in the session: how often it was trained
  model,   \* self.model: whether a saved network was restored
  data,    \* .data on disk
  saved,   \* the network on disk: its age, and the episode it was saved after
  game,    \* the frame that the program is to give next
  base,    \* the first episode of this run of the program
  fed,     \* how many frames were given since init(), up to four
  hurt,    \* history: an init() has met a torn .data
  frames, runs, drops           \* what was used up of the bounds

disk   == <<data, saved>>
bounds == <<frames, runs, drops>>
vars   == <<op, pc, conf, net, model, disk, game, base, fed, hurt, bounds>>

\* TFNNReinfConf's members before the first call.
Fresh == [loop |-> 0, prev |-> <<>>, act |-> "none", term |-> FALSE, eps |-> IEPS,
          mem |-> <<>>, die |-> 0]

Init ==
  /\ op = "off" /\ pc = "init" /\ conf = Fresh /\ net = 0 /\ model = FALSE
  /\ data = Nothing /\ saved = Nothing
  /\ game = [ep |-> 0, n |-> 1] /\ base = 0 /\ fed = 0 /\ hurt = FALSE
  /\ frames = 0 /\ runs = 0 /\ drops = 0

-------------------------------------------------------------------------------
(* The program's process and its Python module *)

\* The program starts, and its game with it.
Start ==
  /\ op = "off" /\ runs < MaxRuns
  /\ op' \in {"train", "test"} /\ pc' = "init"
  /\ base' = game.ep /\ fed' = 0 /\ runs' = runs + 1
  /\ UNCHANGED <<conf, net, model, disk, game, hurt, frames, drops>>

Lost == conf' = Fresh /\ net' = 0 /\ model' = FALSE /\ fed' = 0

\* The process dies, with it the episode.
Die ==
  /\ op # "off"
  /\ op' = "off" /\ pc' = "init" /\ Lost
  /\ game' = [ep |-> game.ep + 1, n |-> 1]
  /\ UNCHANGED <<disk, base, hurt, bounds>>

\* runModel loads another model's module: tfNN is None when this one is loaded
\* again.  The game goes on.
Drop ==
  /\ op # "off" /\ pc = "call" /\ drops < MaxDrops
  /\ pc' = "init" /\ Lost
  /\ drops' = drops + 1
  /\ UNCHANGED <<op, disk, game, base, hurt, frames, runs>>

-------------------------------------------------------------------------------
(* init() *)

\* Mutant: epsilon is set only where the configuration is new.
InitNNKeepEps ==
  /\ op # "off" /\ pc = "init"
  /\ pc' = "call" /\ fed' = 0 /\ hurt' = (hurt \/ data = Torn)
  /\ conf' = IF data \in {Nothing, Torn} THEN Fresh ELSE data
  /\ IF saved = Nothing \/ data \in {Nothing, Torn}
     THEN net' = 0 /\ model' = FALSE
     ELSE net' = saved.age /\ model' = TRUE
  /\ UNCHANGED <<op, disk, game, base, bounds>>

\* Mutant: the network is not restored.
InitNNAnew ==
  /\ op # "off" /\ pc = "init"
  /\ pc' = "call" /\ fed' = 0 /\ hurt' = (hurt \/ data = Torn)
  /\ conf' = IF data \in {Nothing, Torn} THEN Fresh ELSE data
  /\ net' = 0 /\ model' = (data \notin {Nothing, Torn})
  /\ UNCHANGED <<op, disk, game, base, bounds>>

\* .data, then the network.  Where either fails, the variables are initialised
\* and epsilon is IEPS, but a configuration that was loaded stays.
InitNN ==
  /\ op # "off" /\ pc = "init"
  /\ pc' = "call" /\ fed' = 0 /\ hurt' = (hurt \/ data = Torn)
  /\ IF data \in {Nothing, Torn}
     THEN conf' = Fresh /\ net' = 0 /\ model' = FALSE
     ELSE IF saved = Nothing
     THEN conf' = [data EXCEPT !.eps = IEPS] /\ net' = 0 /\ model' = FALSE
     ELSE conf' = data /\ net' = saved.age /\ model' = TRUE
  /\ UNCHANGED <<op, disk, game, base, bounds>>

-------------------------------------------------------------------------------
(* train(state, reward, term) *)

AtStart(c) == c.prev = <<>> \/ c.term

\* curState: four times the frame at the start of an episode, else the frame
\* on top of the three newest.
Stacked(c, s) ==
  IF AtStart(c) THEN <<s, s, s, s>> ELSE <<s, c.prev[1], c.prev[2], c.prev[3]>>

\* curAct: action 0 at the very first call, all zeros at other starts.
Action(c) == IF c.prev = <<>> THEN "first" ELSE IF c.term THEN "none" ELSE "chosen"

\* Mutant: there is no time of observation.
TrainsAtOnce(c) == ~ AtStart(c)

Trains(c) == ~ AtStart(c) /\ c.loop > OBSERVE

AnnealedBy(c) == IF Trains(c) /\ c.eps > FEPS THEN c.eps - STEP ELSE c.eps

Bounded(m) == IF Len(m) > REPLAYSIZE THEN Tail(m) ELSE m

\* Mutant: it is cut before it is appended to, as if that made no difference.
RememberedLate(c, s, term) ==
  IF AtStart(c) THEN c.mem
  ELSE Append(Bounded(c.mem), [prev |-> c.prev, act |-> c.act, cur |-> Stacked(c, s),
                               term |-> term])

\* replayMem after the call.
Remembered(c, s, term) ==
  IF AtStart(c) THEN c.mem
  ELSE Bounded(Append(c.mem, [prev |-> c.prev, act |-> c.act, cur |-> Stacked(c, s),
                              term |-> term]))

\* random.sample raises ValueError, on which PyContext::test aborts the program.
TooFew(c, s) == Trains(c) /\ Len(Remembered(c, s, FALSE)) < BATCHSIZE

\* reinfConf after the call.
Learned(c, s, term) ==
  [loop |-> c.loop + 1, prev |-> Stacked(c, s), act |-> Action(c), term |-> term,
   eps |-> AnnealedBy(c), mem |-> Remembered(c, s, term),
   die |-> IF c.prev # <<>> /\ c.term THEN c.die + 1 ELSE c.die]

Next4(k) == IF k < 4 THEN k + 1 ELSE k

\* Mutant: the model is saved in every call, as SAVEITERATION would have it.
TrainSaveAll(term) ==
  /\ op = "train" /\ pc = "call" /\ frames < MaxFrames
  /\ term => game.n >= MinEpisode
  /\ ~ TooFew(conf, game)
  /\ conf' = Learned(conf, game, term)
  /\ net' = IF Trains(conf) THEN net + 1 ELSE net
  /\ pc' = "open"
  /\ game' = IF term THEN [ep |-> game.ep + 1, n |-> 1] ELSE [game EXCEPT !.n = @ + 1]
  /\ frames' = frames + 1 /\ fed' = Next4(fed)
  /\ UNCHANGED <<op, model, disk, base, hurt, runs, drops>>

\* Mutant: the network is saved before .data as well as after it.
TrainSaveFirst(term) ==
  /\ op = "train" /\ pc = "call" /\ frames < MaxFrames
  /\ term => game.n >= MinEpisode
  /\ ~ TooFew(conf, game)
  /\ conf' = Learned(conf, game, term)
  /\ net' = IF Trains(conf) THEN net + 1 ELSE net
  /\ pc' = IF term THEN "open" ELSE "call"
  /\ saved' = IF term THEN [age |-> net', ep |-> game.ep] ELSE saved
  /\ game' = IF term THEN [ep |-> game.ep + 1, n |-> 1] ELSE [game EXCEPT !.n = @ + 1]
  /\ frames' = frames + 1 /\ fed' = Next4(fed)
  /\ UNCHANGED <<op, model, data, base, hurt, runs, drops>>

Train(term) ==
  /\ op = "train" /\ pc = "call" /\ frames < MaxFrames
  /\ term => game.n >= MinEpisode
  /\ ~ TooFew(conf, game)
  /\ conf' = Learned(conf, game, term)
  /\ net' = IF Trains(conf) THEN net + 1 ELSE net
  /\ pc' = IF term THEN "open" ELSE "call"
  /\ game' = IF term THEN [ep |-> game.ep + 1, n |-> 1] ELSE [game EXCEPT !.n = @ + 1]
  /\ frames' = frames + 1 /\ fed' = Next4(fed)
  /\ UNCHANGED <<op, model, disk, base, hurt, runs, drops>>

\* open(.data, "wb").
OpenData ==
  /\ op = "train" /\ pc = "open"
  /\ data' = Torn /\ pc' = "dump"
  /\ UNCHANGED <<op, conf, net, model, saved, game, base, fed, hurt, bounds>>

\* cPickle.dump and close.
DumpData ==
  /\ op = "train" /\ pc = "dump"
  /\ data' = conf /\ pc' = "save"
  /\ UNCHANGED <<op, conf, net, model, saved, game, base, fed, hurt, bounds>>

\* saveModel(now = True): the end of the call.
SaveModel ==
  /\ op = "train" /\ pc = "save"
  /\ saved' = [age |-> net, ep |-> conf.prev[1].ep] /\ pc' = "call"
  /\ UNCHANGED <<op, conf, net, model, data, game, base, fed, hurt, bounds>>

-------------------------------------------------------------------------------
(* test(state) *)

\* The game is not trained on, and the network is not told where episodes end.
GameGoesOn == game' \in {[ep |-> game.ep + 1, n |-> 1], [game EXCEPT !.n = @ + 1]}

TestStacked(c, s) ==
  IF c.prev = <<>> THEN <<s, s, s, s>> ELSE <<s, c.prev[1], c.prev[2], c.prev[3]>>

\* Mutant: what init() has made is tested, restored or not.
TestUnrestored ==
  /\ op = "test" /\ pc = "call" /\ frames < MaxFrames
  /\ conf' = [conf EXCEPT !.prev = TestStacked(conf, game)]
  /\ frames' = frames + 1 /\ fed' = Next4(fed)
  /\ GameGoesOn
  /\ UNCHANGED <<op, pc, net, model, disk, base, hurt, runs, drops>>

Test ==
  /\ op = "test" /\ pc = "call" /\ frames < MaxFrames
  /\ model \/ saved # Nothing
  /\ model' = TRUE /\ net' = IF model THEN net ELSE saved.age
  /\ conf' = [conf EXCEPT !.prev = TestStacked(conf, game)]
  /\ frames' = frames + 1 /\ fed' = Next4(fed)
  /\ GameGoesOn
  /\ UNCHANGED <<op, pc, disk, base, hurt, runs, drops>>

Raising ==
  \/ op = "train" /\ TooFew(conf, game)
  \/ op = "test" /\ ~ model /\ saved = Nothing

\* An exception in train() or test(): no batch can be drawn, or there is nothing
\* to restore.  The program is aborted.
Raises ==
  /\ pc = "call" /\ frames < MaxFrames /\ Raising
  /\ op' = "off" /\ pc' = "init" /\ Lost
  /\ game' = [ep |-> game.ep + 1, n |-> 1]
  /\ UNCHANGED <<disk, base, hurt, bounds>>

-------------------------------------------------------------------------------
SaveStep == OpenData \/ DumpData \/ SaveModel

Next ==
  \/ Start \/ Die \/ Drop \/ InitNN
  \/ (\E term \in BOOLEAN : Train(term)) \/ SaveStep \/ Test \/ Raises

Spec == Init /\ [][Next]_vars
-------------------------------------------------------------------------------
(* Properties *)

TypeOK ==
  /\ op \in {"off", "train", "test"} /\ pc \in {"init", "call", "open", "dump", "save"}
  /\ conf \in Conf /\ net \in Nat /\ model \in BOOLEAN
  /\ data \in Conf \cup {Nothing, Torn}
  /\ saved \in [age : Nat, ep : Nat] \cup {Nothing}
  /\ game \in Frame /\ base \in Nat /\ fed \in 0 .. 4 /\ hurt \in BOOLEAN
  /\ frames \in 0 .. MaxFrames /\ runs \in 0 .. MaxRuns /\ drops \in 0 .. MaxDrops

\* The frames of a stack follow each other in one episode, newest first.
InOneEpisode(st) ==
  /\ Len(st) = 4
  /\ \A i \in 1 .. 3 : st[i].ep = st[i + 1].ep /\ st[i].n - st[i + 1].n \in {0, 1}

OneStep(t) ==
  /\ InOneEpisode(t.prev) /\ InOneEpisode(t.cur)
  /\ t.cur[1].ep = t.prev[1].ep /\ t.cur[1].n = t.prev[1].n + 1

\* What the network learns from is one step of one episode: no transition leads
\* from the end of an episode, or from what a process that died had seen, into
\* another episode.  (loop, prevState and terminal survive in .data.)
OneEpisode == \A i \in DOMAIN conf.mem : OneStep(conf.mem[i])

\* The replay memory holds the last REPLAYSIZE of all transitions, and there is
\* one for every call but those that started an episode, which dieCnt counts.
Appended(c) == IF c.loop = 0 THEN 0 ELSE c.loop - c.die - 1
MemCount ==
  Len(conf.mem) = IF Appended(conf) > REPLAYSIZE THEN REPLAYSIZE ELSE Appended(conf)

\* Once it is drawn from, the replay memory has a minibatch: random.sample
\* raises no ValueError.
EnoughToSample ==
  op = "train" /\ pc = "call" => ~ TooFew(conf, game)

\* Exploration is in step with what the network in the session has learned:
\* epsilon was annealed at least once for each of its training steps, whatever
\* died between the two saves; a network that starts anew, though it finds a
\* .data, explores from IEPS; and epsilon stops within a STEP of FEPS.
Annealed ==
  op # "off" /\ pc # "init" =>
    /\ FEPS - STEP < conf.eps /\ conf.eps <= IEPS
    /\ ~ hurt /\ conf.eps > FEPS => conf.eps + STEP * net <= IEPS
    /\ op = "train" /\ ~ model => conf.eps <= FEPS \/ conf.eps + STEP * net = IEPS

\* On disk the network is never newer than .data, which was written when an
\* episode had ended, so that the next call starts one.
DiskOrdered ==
  /\ saved # Nothing => data # Nothing
  /\ data \notin {Nothing, Torn} =>
       /\ data.term
       /\ saved # Nothing => saved.ep <= data.prev[1].ep

\* A test asks the network that was saved last, even if .data is torn, and after
\* three calls shows it frames of the test only, though .data starts it with those
\* that a training run has seen last.
TestAsks ==
  /\ op = "test" /\ fed > 0 => saved # Nothing /\ net = saved.age
  /\ op = "test" /\ fed = 4 => \A i \in 1 .. 4 : conf.prev[i].ep >= base

\* What was learned is not replaced by less: only an init() that met a torn
\* .data starts from nothing where a network was saved.
LearningKept == [][ saved # Nothing /\ ~ hurt => saved'.age >= saved.age ]_vars
===============================================================================
