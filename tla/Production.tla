------------------------------ MODULE Production ------------------------------
(***************************************************************************)
(* A production run for supervised learning (ProgIntel.cpp, sprodInit):    *)
(* the parent forks one child per line of the training file and then per   *)
(* line of the validation file, a batch at a time, and waits for the whole *)
(* batch.  Every child runs the program's main, whose calls of piNN and    *)
(* piStore write to one directory tree that all children share             *)
(* (FileIO.cpp); the first child also writes down what the model stores    *)
(* and has Python generate the model's template (PIModelManager.py).       *)
(*                                                                         *)
(* A child's steps are its accesses to what is shared: the test for the    *)
(* model's directory, the making of it, of the sub-directories of an       *)
(* ensemble, and of an empty .store file, the writing of that file, and    *)
(* the template.  Its own data files nobody else touches.                  *)
(*                                                                         *)
(* A production starts from whatever tree earlier ones left: none, that of *)
(* another version of the program or of a longer training file, or that of *)
(* a production that died anywhere on its way.                             *)
(***************************************************************************)
EXTENDS Integers, Sequences, FiniteSets

CONSTANTS
  Model,       \* the name of the model
  NoFile,      \* a file that does not exist
  Ensemble,    \* strategy PIS_ENS (one sub-model per load), or PIS_ONE
  Loads,       \* loadNames of the program's call of piNN
  Outs,        \* storeNames of that call, which it then stores in this order
  Rounds,      \* how often the program goes through nn and the stores
  Size,        \* nmemb of each load and store
  Type,        \* tID of each store
  TrainNum, ValidNum,   \* lines of the training and the validation file
  Batch,       \* children forked before waiting (10 in sprodInit)
  ForkFails,   \* whether fork() may return -1
  ChildDies,   \* whether the program may crash or fail in a child
  Surplus,     \* lines that the files of an earlier production had and these lack
  Trees        \* what earlier productions may have left in the model's directory

Names(s) == {s[i] : i \in DOMAIN s}
TypeID   == {"C", "S", "I", "L", "UC", "US", "UI", "UL", "F", "D"}
Record   == [kind : {"load", "store"}, name : STRING, nmemb : Nat, lines : Seq(Nat)]
Info     == [name : STRING, tID : TypeID, nmemb : Nat]

\* Where data files go: one directory, or one per load name.
Places    == IF Ensemble THEN Names(Loads) ELSE {Model}
LoadAt(p) == IF Ensemble THEN p ELSE Loads[1]

Num   == [train |-> TrainNum, valid |-> ValidNum]
Kids  == ({"train"} \X (0 .. (TrainNum - 1))) \cup ({"valid"} \X (0 .. (ValidNum - 1)))
First == <<"train", 0>>
Line  == Kids \cup Surplus

NoData == [x \in Places \X Line |-> <<>>]
Fresh  == [dirs |-> {}, store |-> NoFile, files |-> NoData, templates |-> {}]

\* Directories, record, data files and templates: all are below the model's
\* directory, the data of a place in that place.
Tree ==
  {t \in [dirs : SUBSET ({Model} \cup Names(Loads)), store : Seq(Info) \cup {NoFile},
          files : [Places \X Line -> Seq(Record)],
          templates : SUBSET ({Model} \cup Names(Loads))] :
     /\ t.dirs # {} \/ t.store # NoFile => Model \in t.dirs
     /\ t.templates \subseteq t.dirs
     /\ \A x \in Places \X Line : t.files[x] # <<>> => x[1] \in t.dirs}

ASSUME ConstAssumption ==
  /\ Loads # <<>> /\ Loads \in Seq(STRING) /\ Outs # <<>> /\ Outs \in Seq(STRING)
  /\ Model \notin Names(Loads) /\ NoFile \notin Seq(Info)
  /\ Rounds \in Nat \ {0}
  /\ \A x \in Names(Loads) \cup Names(Outs) : Size[x] \in Nat \ {0}
  /\ \A x \in Names(Outs) : Type[x] \in TypeID
  /\ TrainNum \in Nat \ {0} /\ ValidNum \in Nat /\ Batch \in Nat \ {0}
  /\ {Ensemble, ForkFails, ChildDies} \subseteq BOOLEAN
  /\ Surplus \subseteq {"train", "valid"} \X Nat
  /\ \A t \in Trees : t \in Tree

VARIABLES
  phase,       \* "train", "valid", "done", or "abort" (an assertion of sprodInit)
  ppc,         \* the parent: "fork" or "wait"
  it,          \* itTrainArgs or itValidArgs, as an index
  forked,      \* i of the for loop
  kid,         \* the children
  dirs,        \* the model's directory and those below it
  store,       \* the .store file, or NoFile
  files,       \* the data file of each line in each place
  templates,   \* where there is a template
  found,       \* history: the tree this production started from
  written      \* history: what the first child wrote into the record

parent == <<phase, ppc, it, forked>>
hist   == <<found, written>>
tree   == <<dirs, store, files, templates, hist>>
vars   == <<parent, kid, tree>>

-------------------------------------------------------------------------------
(* Files *)

Values(x) == [i \in 1 .. Size[x] |-> i]        \* the i-th value of x

LoadRecord(l)  == [kind |-> "load", name |-> l, nmemb |-> Size[l], lines |-> Values(l)]

\* writeStoreData: three of the ten types have their first value written twice.
StoreRecord(s) ==
  [kind |-> "store", name |-> s, nmemb |-> Size[s],
   lines |-> IF Type[s] \in {"UC", "UI", "F"} THEN <<1>> \o Values(s) ELSE Values(s)]

StoreInfo(s) == [name |-> s, tID |-> Type[s], nmemb |-> Size[s]]

\* A child's data file after one round of the program.
DataFile(p) ==
  [j \in 1 .. (1 + Len(Outs)) |->
     IF j = 1 THEN LoadRecord(LoadAt(p)) ELSE StoreRecord(Outs[j - 1])]

Infos == [j \in 1 .. Len(Outs) |-> StoreInfo(Outs[j])]

-------------------------------------------------------------------------------
Idle == [pc |-> "off", round |-> 1, k |-> 0]

Init ==
  /\ phase = "train" /\ ppc = "fork" /\ it = 0 /\ forked = 0
  /\ kid = [c \in Kids |-> Idle]
  /\ found \in Trees /\ written = <<>>
  /\ dirs = found.dirs /\ store = found.store
  /\ files = found.files /\ templates = found.templates

-------------------------------------------------------------------------------
(* The parent: sprodInit *)

\* Mutant: the batch is one too large.
ForkOneMore ==
  /\ phase \in {"train", "valid"} /\ ppc = "fork"
  /\ it < Num[phase] /\ forked <= Batch
  /\ kid' = [kid EXCEPT ![<<phase, it>>].pc = "main"]
  /\ it' = it + 1 /\ forked' = forked + 1
  /\ UNCHANGED <<phase, ppc, tree>>

\* A fork() that fails returns -1, which is not 0: the parent goes on.
Fork ==
  /\ phase \in {"train", "valid"} /\ ppc = "fork"
  /\ it < Num[phase] /\ forked < Batch
  /\ \/ kid' = [kid EXCEPT ![<<phase, it>>].pc = "main"]
     \/ ForkFails /\ UNCHANGED kid
  /\ it' = it + 1 /\ forked' = forked + 1
  /\ UNCHANGED <<phase, ppc, tree>>

EndFork ==
  /\ phase \in {"train", "valid"} /\ ppc = "fork"
  /\ it = Num[phase] \/ forked = Batch
  /\ ppc' = "wait"
  /\ UNCHANGED <<phase, it, forked, kid, tree>>

\* wait() returns a child; one that did not exit with 0 fails an assertion.
Reap ==
  /\ phase \in {"train", "valid"} /\ ppc = "wait"
  /\ \E c \in Kids :
       \/ /\ kid[c].pc = "exit"
          /\ kid' = [kid EXCEPT ![c].pc = "reaped"]
          /\ UNCHANGED phase
       \/ /\ kid[c].pc = "abort"
          /\ kid' = [kid EXCEPT ![c].pc = "reaped"]
          /\ phase' = "abort"
  /\ UNCHANGED <<ppc, it, forked, tree>>

\* Mutant: i is not reset for the next batch.
EndWaitNoReset ==
  /\ phase \in {"train", "valid"} /\ ppc = "wait"
  /\ \A c \in Kids : kid[c].pc \in {"off", "reaped"}
  /\ ppc' = "fork"
  /\ IF it < Num[phase]
     THEN UNCHANGED <<phase, it, forked>>
     ELSE /\ phase' = IF phase = "train" /\ ValidNum > 0 THEN "valid" ELSE "done"
          /\ it' = 0 /\ forked' = 0
  /\ UNCHANGED <<kid, tree>>

\* Mutant: only one child is waited for.
EndWaitEarly ==
  /\ phase \in {"train", "valid"} /\ ppc = "wait"
  /\ \E c \in Kids : kid[c].pc = "reaped"
  /\ ppc' = "fork" /\ forked' = 0
  /\ IF it < Num[phase]
     THEN UNCHANGED <<phase, it>>
     ELSE phase' = (IF phase = "train" /\ ValidNum > 0 THEN "valid" ELSE "done") /\ it' = 0
  /\ UNCHANGED <<kid, tree>>

\* wait() fails with ECHILD: the next batch, the next file, or the end.
EndWait ==
  /\ phase \in {"train", "valid"} /\ ppc = "wait"
  /\ \A c \in Kids : kid[c].pc \in {"off", "reaped"}
  /\ ppc' = "fork" /\ forked' = 0
  /\ IF it < Num[phase]
     THEN UNCHANGED <<phase, it>>
     ELSE phase' = (IF phase = "train" /\ ValidNum > 0 THEN "valid" ELSE "done") /\ it' = 0
  /\ UNCHANGED <<kid, tree>>

-------------------------------------------------------------------------------
(* A child c *)

Goes(c, pc) == kid' = [kid EXCEPT ![c].pc = pc]

\* The program's next call: nn (k = 0), each of the stores, and again.
NextCall(r) ==
  IF r.k = Len(Outs) THEN [pc |-> "main", round |-> r.round + 1, k |-> 0]
                     ELSE [pc |-> "main", round |-> r.round, k |-> r.k + 1]

Advance(c) == kid' = [kid EXCEPT ![c] = NextCall(kid[c])]

\* piNN, prodCreateModelDir: ifstream(modelDir).
TestDir(c) ==
  /\ kid[c].pc = "main" /\ kid[c].round <= Rounds /\ kid[c].k = 0
  /\ Goes(c, IF Model \in dirs THEN "load" ELSE "mkdir")
  /\ UNCHANGED <<parent, tree>>

\* Mutant: an existing directory is an error.
MkdirStrict(c) ==
  /\ kid[c].pc = "mkdir"
  /\ dirs' = dirs \cup {Model}
  /\ Goes(c, IF Model \in dirs THEN "abort" ELSE IF Ensemble THEN "subdirs" ELSE "create")
  /\ UNCHANGED <<parent, store, files, templates, hist>>

\* mkdir(), to which EEXIST is as good as success.
Mkdir(c) ==
  /\ kid[c].pc = "mkdir"
  /\ dirs' = dirs \cup {Model}
  /\ Goes(c, IF Ensemble THEN "subdirs" ELSE "create")
  /\ UNCHANGED <<parent, store, files, templates, hist>>

\* One mkdir after another: what matters to the others is when all are there.
Subdirs(c) ==
  /\ kid[c].pc = "subdirs"
  /\ dirs' = dirs \cup Places
  /\ Goes(c, "create")
  /\ UNCHANGED <<parent, store, files, templates, hist>>

\* fopen(stPath, "w"): an empty .store, whatever was in it.
CreateStore(c) ==
  /\ kid[c].pc = "create"
  /\ store' = <<>>
  /\ Goes(c, "load")
  /\ UNCHANGED <<parent, dirs, files, templates, hist>>

\* Mutant: the data file is opened for appending.
WriteLoadAppend(c) ==
  /\ kid[c].pc = "load" /\ Places \subseteq dirs
  /\ files' = [x \in DOMAIN files |->
                 IF x[2] = c THEN files[x] \o <<LoadRecord(LoadAt(x[1]))>> ELSE files[x]]
  /\ IF c = First THEN Goes(c, "py") ELSE Advance(c)
  /\ UNCHANGED <<parent, dirs, store, templates, hist>>

\* prodWriteLoadData: the directory for the data of this phase is made in every
\* place, which must be there, and the child's file in it written from its start.
WriteLoad(c) ==
  /\ kid[c].pc = "load"
  /\ IF Places \subseteq dirs
     THEN /\ files' = [x \in DOMAIN files |->
                         IF x[2] = c THEN <<LoadRecord(LoadAt(x[1]))>> ELSE files[x]]
          /\ IF c = First THEN Goes(c, "py") ELSE Advance(c)
     ELSE UNCHANGED files /\ Goes(c, "abort")
  /\ UNCHANGED <<parent, dirs, store, templates, hist>>

\* genModelTemplate takes a model without a .ONE.store for an ensemble, whose
\* directories it makes where they are missing.
GenTemplate(c) ==
  /\ kid[c].pc = "py"
  /\ LET where == IF ~Ensemble /\ store # NoFile THEN {Model} ELSE Names(Loads)
     IN  /\ templates' = templates \cup where
         /\ dirs' = dirs \cup where
  /\ Advance(c)
  /\ UNCHANGED <<parent, store, files, hist>>

\* Mutant: every child writes the record.
WriteStoreAll(c) ==
  /\ kid[c].pc = "main" /\ kid[c].k > 0
  /\ files' = [x \in DOMAIN files |->
                 IF x[2] = c THEN Append(files[x], StoreRecord(Outs[kid[c].k]))
                             ELSE files[x]]
  /\ Goes(c, "info")
  /\ UNCHANGED <<parent, dirs, store, templates, hist>>

\* piStore, prodWriteStoreData: appended to the child's file in every place.
WriteStore(c) ==
  /\ kid[c].pc = "main" /\ kid[c].k > 0
  /\ files' = [x \in DOMAIN files |->
                 IF x[2] = c THEN Append(files[x], StoreRecord(Outs[kid[c].k]))
                             ELSE files[x]]
  /\ IF c = First THEN Goes(c, "info") ELSE Advance(c)
  /\ UNCHANGED <<parent, dirs, store, templates, hist>>

\* Mutant: the file is always opened with "w".
WriteInfoAnew(c) ==
  /\ kid[c].pc = "info"
  /\ LET info == StoreInfo(Outs[kid[c].k])
     IN  store' = <<info>> /\ written' = IF c = First THEN Append(written, info) ELSE written
  /\ Advance(c)
  /\ UNCHANGED <<parent, dirs, files, templates, found>>

\* What a file holds that may not exist.
Kept(s) == IF s = NoFile THEN <<>> ELSE s

\* prodWriteStoreInfo: appended, or written to a new file.
WriteInfo(c) ==
  /\ kid[c].pc = "info"
  /\ LET info == StoreInfo(Outs[kid[c].k])
     IN  /\ store' = Append(Kept(store), info)
         /\ written' = IF c = First THEN Append(written, info) ELSE written
  /\ Advance(c)
  /\ UNCHANGED <<parent, dirs, files, templates, found>>

\* piEnd, or the return of main.
Exit(c) ==
  /\ kid[c].pc = "main" /\ kid[c].round > Rounds
  /\ Goes(c, "exit")
  /\ UNCHANGED <<parent, tree>>

Alive(c) == kid[c].pc \notin {"off", "exit", "abort", "reaped"}

Die(c) ==
  /\ ChildDies /\ Alive(c)
  /\ Goes(c, "abort")
  /\ UNCHANGED <<parent, tree>>

-------------------------------------------------------------------------------
ParentStep == Fork \/ EndFork \/ Reap \/ EndWait

KidStep(c) ==
  \/ TestDir(c) \/ Mkdir(c) \/ Subdirs(c) \/ CreateStore(c) \/ WriteLoad(c)
  \/ GenTemplate(c) \/ WriteStore(c) \/ WriteInfo(c) \/ Exit(c)

Next == ParentStep \/ \E c \in Kids : KidStep(c) \/ Die(c)

\* Every process runs on; a program that loops for ever is not considered.
Spec == Init /\ [][Next]_vars /\ WF_vars(ParentStep) /\ \A c \in Kids : WF_vars(KidStep(c))

-------------------------------------------------------------------------------
(* Properties *)

KidPC == {"off", "main", "mkdir", "subdirs", "create", "load", "py", "info",
          "exit", "abort", "reaped"}
TypeOK ==
  /\ phase \in {"train", "valid", "done", "abort"} /\ ppc \in {"fork", "wait"}
  /\ it \in Nat /\ forked \in 0 .. Batch
  /\ phase \in {"train", "valid"} => it <= Num[phase]
  /\ kid \in [Kids -> [pc : KidPC, round : 1 .. (Rounds + 1), k : 0 .. Len(Outs)]]
  /\ dirs \subseteq {Model} \cup Names(Loads)
  /\ store \in Seq(Info) \cup {NoFile}
  /\ files \in [Places \X Line -> Seq(Record)]
  /\ templates \subseteq {Model} \cup Names(Loads)
  /\ found \in Trees /\ written \in Seq(Info)

\* "Fork child according to threshold": never more than a batch of processes.
BatchBound == Cardinality({c \in Kids : Alive(c)}) <= Batch

\* Validation data is generated when all training data is: a child tells the
\* two apart by the parent's iterators as they were when it was forked.
PhasesApart ==
  ~ \E i \in 0 .. (TrainNum - 1), j \in 0 .. (ValidNum - 1) :
      Alive(<<"train", i>>) /\ Alive(<<"valid", j>>)

\* A production that ends well has, in every place, for every line whose child
\* it could fork, the loads and stores of the program's last round and nothing
\* else; every other file, of a line without a child or of a longer file of
\* before, is as it was found, and nothing says so.
DataComplete ==
  phase = "done" =>
    \A p \in Places, c \in Line :
      files[<<p, c>>] = IF c \in Kids /\ kid[c].pc = "reaped" THEN DataFile(p)
                                                            ELSE found.files[<<p, c>>]

\* At every moment the record is what was found followed by what the first child
\* wrote, by nobody else, and if the directory was not there yet, it is at worst
\* the last part of what that child wrote: children that make the directory
\* together may empty each other's record, but never mix or truncate it otherwise.
RecordTail ==
  IF Model \in found.dirs
  THEN Kept(store) = Kept(found.store) \o written
  ELSE \E k \in 0 .. Len(written) : Kept(store) = SubSeq(written, k + 1, Len(written))

\* Where no two children can make the directory together, nothing of it is lost: a
\* production that ends well and had a first child leaves the record it found
\* followed by that child's, which names every store and no other.
RecordKept ==
  /\ phase = "done" /\ kid[First].pc = "reaped"
  /\ Model \in found.dirs \/ Batch = 1 \/ TrainNum = 1
  => Kept(store) = Kept(found.store) \o written /\ Names(written) = Names(Infos)

\* "Write NN output info of each model for later runtime usage": what training and
\* testing need to know of every store is in the record.
RecordThere ==
  phase = "done" /\ kid[First].pc = "reaped" => Names(Infos) \subseteq Names(Kept(store))

\* No assertion fails in a child unless the program fails by itself.
NoAbort == \A c \in Kids : kid[c].pc # "abort"

\* sprodInit comes to an end.
Ends == <>(phase \in {"done", "abort"})
===============================================================================
