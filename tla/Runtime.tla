-------------------------------- MODULE Runtime --------------------------------
(***************************************************************************)
(* A program at run time (ProgIntel.cpp): its loads, its calls of piNN and *)
(* its stores, in a production run for reinforcement learning (PI_RPROD),  *)
(* which writes each model's directory, template and .store file, and in   *)
(* the training and test runs that read the .store files (readStoreInfo)   *)
(* and give the loads to the model's Python module (PyInterface.cpp and    *)
(* runModel in PIModelManager.py).  The program may die between two        *)
(* accesses to the disk; between two runs it may be edited, and so may the *)
(* modules: what genRModelTemplate writes is only a beginning, whose       *)
(* functions return a result that they do not define.                      *)
(*                                                                         *)
(* Of data only the version is kept: when it was written.  All models have *)
(* the strategy PIS_ONE; a supervised one was produced before, completely  *)
(* (module Production).  The main directory, .piDir, exists.               *)
(***************************************************************************)
EXTENDS Integers, Sequences

CONSTANTS
  Model,        \* names of models
  Parts,        \* of each load name, the names between its "_"s: itself if it has none
  LoadsOf,      \* loadNames of each model's call of piNN
  StoresOf,     \* storeNames of it
  How,          \* the loads made of a name: "copy" (doAlloc), "alias", "callback"
  Produced,     \* sets of models that sprodInit may have produced before
  Versions, StoreLen,   \* versions of the program's source, and nmemb of its stores
  Vars,         \* how many variables the program loads from
  MaxWrites, MaxCalls,  \* bounds: versions written and calls of piNN in a run
  MaxRuns, MaxRecs,     \* bounds: runs, and records in a .store file
  NoFile, None, \* a file that does not exist; no module, no data
  Uninit        \* what malloc returns

VARIABLES
  status,       \* "off", "rprod", "train" or "test"
  pc,           \* "main", or inside a call "mkdir", "template", "write" or "info"
  now,          \* the model or the store of that call
  prog,         \* the version of the program
  mem, clock,   \* its variables, each with the version it holds; the last version
  loadMap,      \* load names: their DataContexts
  storeMap,     \* store names: their DataContexts
  loadedMod,    \* runModel's cache
  calls,        \* calls of piNN in this run
  dir, tmpl, rec,       \* of each model: its directory, module (see Template) and .store file
  last,         \* history: of each load name, its last load
  asked,        \* of each store name, the last call of piNN for it: in production storeModelMap
  seen,         \* what Python was passed in this step
  got,          \* what a store gave to the program in this step
  stored,       \* history: <<version, model, store name>> written to .store files
  runs

data  == <<loadMap, storeMap, last, asked>>
disk  == <<dir, tmpl, rec>>
shown == <<seen, got>>
vars  == <<status, pc, now, prog, mem, clock, data, loadedMod, calls, disk, shown, stored, runs>>

Names(s)  == {s[i] : i \in DOMAIN s}
LoadName  == DOMAIN Parts
Simple    == {l \in LoadName : Parts[l] = <<l>>}
StoreName == UNION {Names(StoresOf[m]) : m \in Model}
Buf       == 1 .. Vars
Info(v, s)  == [name |-> s, nmemb |-> StoreLen[v][s]]
Put(f, x, y) == [z \in DOMAIN f \cup {x} |-> IF z = x THEN y ELSE f[z]]

\* A module's file: not there; opened and not yet written; as one of the two
\* generators has it; or as an author has made it, to answer into the stores.
Template == {"none", "empty", "supervised", "generated", "edited"}

ASSUME ConstAssumption ==
  /\ \A l \in LoadName : Parts[l] # <<>> /\ Names(Parts[l]) \subseteq Simple
  /\ \A m \in Model : LoadsOf[m] # <<>> /\ Names(LoadsOf[m]) \subseteq LoadName
  /\ \A m \in Model : StoresOf[m] # <<>> /\ StoresOf[m] \in Seq(StoreName)
  /\ Produced \subseteq SUBSET Model
  /\ \A P \in Produced : \A m \in P : Len(StoresOf[m]) <= MaxRecs
  /\ \A v \in Versions, s \in StoreName : StoreLen[v][s] \in Nat \ {0}
  /\ {Vars, MaxWrites, MaxCalls, MaxRuns} \subseteq Nat /\ MaxRecs \in Nat \ {0}
  /\ None \notin Model

Record == [name : StoreName, nmemb : Nat \ {0}]     \* of a .store file

ASSUME FileAssumption == NoFile \notin Seq(Record)

Init ==
  /\ status = "off" /\ pc = "main" /\ now = None /\ prog \in Versions
  /\ mem = [b \in Buf |-> b] /\ clock = Vars
  /\ loadMap = <<>> /\ storeMap = <<>> /\ loadedMod = None /\ calls = 0
  /\ \E P \in Produced :
       /\ dir = [m \in Model |-> m \in P]
       /\ tmpl = [m \in Model |-> IF m \in P THEN "supervised" ELSE "none"]
       /\ rec = [m \in Model |-> IF m \in P
                                 THEN [i \in DOMAIN StoresOf[m] |-> Info(prog, StoresOf[m][i])]
                                 ELSE NoFile]
       /\ stored = {x \in {prog} \X P \X StoreName : x[3] \in Names(StoresOf[x[2]])}
  /\ last = <<>> /\ asked = <<>> /\ seen = None /\ got = None
  /\ runs = 0
-------------------------------------------------------------------------------
(* The process *)

Quiet == seen' = None /\ got' = None

\* A new process: main's variables, and nothing loaded.
New ==
  /\ pc' = "main" /\ now' = None
  /\ mem' = [b \in Buf |-> b] /\ clock' = Vars
  /\ loadMap' = <<>> /\ loadedMod' = None /\ calls' = 0
  /\ last' = <<>> /\ asked' = <<>> /\ Quiet

StartProduction ==
  /\ status = "off" /\ runs < MaxRuns
  /\ status' = "rprod" /\ runs' = runs + 1
  /\ New /\ storeMap' = <<>>
  /\ UNCHANGED <<prog, disk, stored>>

\* What readStoreInfo finds: an assertion wants a .store file in each model's
\* directory, and another one nmemb for each name.
Records  == UNION {Names(rec[m]) : m \in {k \in Model : dir[k] /\ rec[k] # NoFile}}
Readable == \A m \in Model : dir[m] => rec[m] # NoFile
Agreed   == \A r1, r2 \in Records : r1.name = r2.name => r1.nmemb = r2.nmemb

\* Mutant: the first record of a name counts, and no other.
StartFirstRecord ==
  /\ status = "off" /\ runs < MaxRuns
  /\ Readable
  /\ status' \in {"train", "test"} /\ runs' = runs + 1
  /\ New
  /\ storeMap' = [s \in {r.name : r \in Records} |->
       [nmemb |-> (CHOOSE r \in Records : r.name = s).nmemb, val |-> Uninit]]
  /\ UNCHANGED <<prog, disk, stored>>

\* fileIO->runtimeInit and runtimeInit: room for every store there is.
Start ==
  /\ status = "off" /\ runs < MaxRuns
  /\ Readable /\ Agreed
  /\ status' \in {"train", "test"} /\ runs' = runs + 1
  /\ New
  /\ storeMap' = [s \in {r.name : r \in Records} |->
       [nmemb |-> (CHOOSE r \in Records : r.name = s).nmemb, val |-> Uninit]]
  /\ UNCHANGED <<prog, disk, stored>>

StartAborts ==
  /\ status = "off" /\ runs < MaxRuns
  /\ ~ (Readable /\ Agreed)
  /\ runs' = runs + 1
  /\ Quiet
  /\ UNCHANGED <<status, pc, now, prog, mem, clock, data, loadedMod, calls, disk, stored>>

\* The process is gone.
Gone ==
  /\ status' = "off" /\ New /\ storeMap' = <<>>
  /\ UNCHANGED <<prog, disk, stored, runs>>

\* The program exits (piEnd, or at the end of main) or dies.
Die == status # "off" /\ Gone

\* The program is edited.
Edit ==
  /\ status = "off"
  /\ prog' \in Versions \ {prog}
  /\ Quiet
  /\ UNCHANGED <<status, pc, now, mem, clock, data, loadedMod, calls, disk, stored, runs>>

\* The author of a model writes its module.
EditTemplate(m) ==
  /\ status = "off"
  /\ tmpl[m] \notin {"none", "edited"}
  /\ tmpl' = [tmpl EXCEPT ![m] = "edited"]
  /\ Quiet
  /\ UNCHANGED <<status, pc, now, prog, mem, clock, data, loadedMod, calls, dir, rec,
                 stored, runs>>

-------------------------------------------------------------------------------
(* load *)

Idle    == status # "off" /\ pc = "main"
Running == pc = "main" /\ status \in {"train", "test"}

\* The program computes.
Write(b) ==
  /\ Running /\ clock < Vars + MaxWrites
  /\ clock' = clock + 1 /\ mem' = [mem EXCEPT ![b] = clock + 1]
  /\ Quiet
  /\ UNCHANGED <<status, pc, now, prog, data, loadedMod, calls, disk, stored, runs>>

\* The first load of a name decides for all.
Context(l, copy) ==
  IF l \in DOMAIN loadMap THEN loadMap[l] ELSE [copy |-> copy, val |-> 0, at |-> 0]

\* load: setData copies, or keeps the pointer.
Load(l, b, copy) ==
  /\ Idle /\ l \in Simple /\ (IF copy THEN "copy" ELSE "alias") \in How[l]
  /\ loadMap' = Put(loadMap, l, IF Context(l, copy).copy
                                THEN [Context(l, copy) EXCEPT !.val = mem[b]]
                                ELSE [Context(l, copy) EXCEPT !.at = b])
  /\ last' = Put(last, l, [copy |-> copy, val |-> mem[b], at |-> b])
  /\ Quiet
  /\ UNCHANGED <<status, pc, now, prog, mem, clock, storeMap, asked, loadedMod, calls,
                 disk, stored, runs>>

\* loadCB: the callback fills what the DataContext points to, with what the
\* program has in b.
LoadCB(l, b) ==
  /\ Idle /\ l \in Simple /\ "callback" \in How[l]
  /\ IF Context(l, TRUE).copy
     THEN /\ loadMap' = Put(loadMap, l, [Context(l, TRUE) EXCEPT !.val = mem[b]])
          /\ UNCHANGED mem
     ELSE /\ mem' = [mem EXCEPT ![loadMap[l].at] = mem[b]]
          /\ UNCHANGED loadMap
  /\ last' = Put(last, l, [copy |-> TRUE, val |-> mem[b], at |-> b])
  /\ Quiet
  /\ UNCHANGED <<status, pc, now, prog, clock, storeMap, asked, loadedMod, calls,
                 disk, stored, runs>>

-------------------------------------------------------------------------------
(* nn *)

\* The program loads before it asks.
Loaded(m) == \A l \in Names(LoadsOf[m]) : Names(Parts[l]) \subseteq DOMAIN loadMap

Held(l) == IF loadMap[l].copy THEN loadMap[l].val ELSE mem[loadMap[l].at]

\* Mutant: what was combined once is not combined again.
CombinedOnce(m) ==
  LET new == (Names(LoadsOf[m]) \ Simple) \ DOMAIN loadMap
  IN  [l \in DOMAIN loadMap \cup new |->
         IF l \in new
         THEN [copy |-> TRUE, val |-> [i \in DOMAIN Parts[l] |-> Held(Parts[l][i])], at |-> 0]
         ELSE loadMap[l]]

\* combineLoad: loadMap after it.
Combined(m) ==
  LET new == Names(LoadsOf[m]) \ Simple
  IN  [l \in DOMAIN loadMap \cup new |->
         IF l \in new
         THEN [copy |-> TRUE, val |-> [i \in DOMAIN Parts[l] |-> Held(Parts[l][i])], at |-> 0]
         ELSE loadMap[l]]

Asks(m) == /\ calls < MaxCalls /\ calls' = calls + 1
           /\ asked' = [s \in DOMAIN asked \cup Names(StoresOf[m]) |->
                          IF s \in Names(StoresOf[m]) THEN <<m, calls + 1>> ELSE asked[s]]
           /\ loadMap' = Combined(m)

\* Mutant: the .store file is made even where the directory was there.
MkDirAlways(m) ==
  /\ Idle /\ status = "rprod" /\ Loaded(m) /\ Asks(m)
  /\ now' = m /\ dir' = [dir EXCEPT ![m] = TRUE]
  /\ pc' = "mkdir"
  /\ Quiet
  /\ UNCHANGED <<status, prog, mem, clock, storeMap, last, loadedMod, tmpl, rec, stored, runs>>

\* In production.  prodCreateModelDir first: the directory,
MkDir(m) ==
  /\ Idle /\ status = "rprod" /\ Loaded(m) /\ Asks(m)
  /\ now' = m /\ dir' = [dir EXCEPT ![m] = TRUE]
  /\ pc' = IF dir[m] THEN "template" ELSE "mkdir"
  /\ Quiet
  /\ UNCHANGED <<status, prog, mem, clock, storeMap, last, loadedMod, tmpl, rec, stored, runs>>

\* and in a new one an empty .store file;
MkStore ==
  /\ status = "rprod" /\ pc = "mkdir"
  /\ rec' = [rec EXCEPT ![now] = <<>>] /\ pc' = "template"
  /\ Quiet
  /\ UNCHANGED <<status, now, prog, mem, clock, data, loadedMod, calls, dir, tmpl, stored, runs>>

\* then genRModelTemplate, where there is no template: open,
GenTemplate ==
  /\ status = "rprod" /\ pc = "template"
  /\ IF tmpl[now] = "none"
     THEN tmpl' = [tmpl EXCEPT ![now] = "empty"] /\ pc' = "write"
     ELSE UNCHANGED tmpl /\ pc' = "main"
  /\ Quiet
  /\ UNCHANGED <<status, now, prog, mem, clock, data, loadedMod, calls, dir, rec, stored, runs>>

\* and all the writes, which close() brings to the disk.
TemplateWritten ==
  /\ status = "rprod" /\ pc = "write"
  /\ tmpl' = [tmpl EXCEPT ![now] = "generated"] /\ pc' = "main"
  /\ Quiet
  /\ UNCHANGED <<status, now, prog, mem, clock, data, loadedMod, calls, dir, rec, stored, runs>>

\* Mutant: a module that is loaded is kept.
CachedForEver(m) == IF loadedMod = None /\ tmpl[m] # "none" THEN m ELSE loadedMod

\* runModel: the module of m, if it has one, else the one that was loaded before.
Cached(m) == IF tmpl[m] # "none" THEN m ELSE loadedMod

Arity(m) == Len(LoadsOf[m]) + Len(StoresOf[m])

\* Python raises no exception: the module has a run, of so many arguments, which
\* does not come to an undefined name.
Sound == {"supervised", "edited"}
Runs(m) == Cached(m) # None /\ tmpl[Cached(m)] \in Sound /\ Arity(Cached(m)) = Arity(m)

Found(m) == Names(StoresOf[m]) \subseteq DOMAIN storeMap

\* In training and in a test: the module has the loads' data and the stores' in
\* its hands.  What it returns, runModel drops: only an edited one answers.
NN(m) ==
  /\ Running /\ Loaded(m) /\ Asks(m)
  /\ Found(m) /\ Runs(m)
  /\ loadedMod' = Cached(m)
  /\ storeMap' = [s \in DOMAIN storeMap |->
       IF s \in Names(StoresOf[m]) /\ tmpl[Cached(m)] = "edited"
       THEN [storeMap[s] EXCEPT !.val = <<Cached(m), calls + 1>>] ELSE storeMap[s]]
  /\ seen' = [model |-> m,
              args |-> [i \in DOMAIN LoadsOf[m] |->
                 LET c == loadMap'[LoadsOf[m][i]] IN IF c.copy THEN c.val ELSE mem[c.at]]]
  /\ got' = None
  /\ UNCHANGED <<status, pc, now, prog, mem, clock, last, disk, stored, runs>>

\* setNNInput meets a store nobody has recorded, or Python an exception.
NNAborts(m) ==
  /\ Running /\ Loaded(m) /\ calls < MaxCalls
  /\ ~ (Found(m) /\ Runs(m))
  /\ Gone

-------------------------------------------------------------------------------
(* store *)

\* In production, of a name that no call of piNN had: storeModelMap gives it to a
\* model without a name, whose .piDir//.ONE.store nobody reads.
StoreUnasked(s) ==
  /\ Idle /\ status = "rprod" /\ s \notin DOMAIN asked
  /\ Quiet
  /\ UNCHANGED <<status, pc, now, prog, mem, clock, data, loadedMod, calls, disk, stored, runs>>

\* Of the others, prodWriteStoreInfo: the file, if there is none,
OpenInfo(s) ==
  /\ Idle /\ status = "rprod" /\ s \in DOMAIN asked
  /\ rec[asked[s][1]] # NoFile => Len(rec[asked[s][1]]) < MaxRecs
  /\ rec' = [rec EXCEPT ![asked[s][1]] = IF @ = NoFile THEN <<>> ELSE @]
  /\ now' = s /\ pc' = "info"
  /\ Quiet
  /\ UNCHANGED <<status, prog, mem, clock, data, loadedMod, calls, dir, tmpl, stored, runs>>

\* Mutant: a file that holds a record is left as it is.
WriteInfoOnce ==
  /\ status = "rprod" /\ pc = "info"
  /\ LET m == asked[now][1]
     IN  /\ rec' = [rec EXCEPT ![m] = IF @ = <<>> THEN <<Info(prog, now)>> ELSE @]
         /\ stored' = stored \cup {<<prog, m, now>>}
  /\ pc' = "main"
  /\ Quiet
  /\ UNCHANGED <<status, now, prog, mem, clock, data, loadedMod, calls, dir, tmpl, runs>>

\* and a record at its end.
WriteInfo ==
  /\ status = "rprod" /\ pc = "info"
  /\ LET m == asked[now][1]
     IN  /\ rec' = [rec EXCEPT ![m] = Append(@, Info(prog, now))]
         /\ stored' = stored \cup {<<prog, m, now>>}
  /\ pc' = "main"
  /\ Quiet
  /\ UNCHANGED <<status, now, prog, mem, clock, data, loadedMod, calls, dir, tmpl, runs>>

\* storeData: as many elements as were recorded.
Store(s) ==
  /\ Running /\ s \in DOMAIN storeMap
  /\ got' = [name |-> s, nmemb |-> storeMap[s].nmemb, val |-> storeMap[s].val]
  /\ seen' = None
  /\ UNCHANGED <<status, pc, now, prog, mem, clock, data, loadedMod, calls, disk, stored, runs>>

\* Of a store nobody has recorded it knows nothing.
StoreAborts(s) ==
  /\ Running /\ s \notin DOMAIN storeMap
  /\ Gone

-------------------------------------------------------------------------------
Next ==
  \/ StartProduction \/ Start \/ StartAborts \/ Die \/ Edit
  \/ MkStore \/ GenTemplate \/ TemplateWritten \/ WriteInfo
  \/ \E b \in Buf : Write(b)
  \/ \E l \in Simple, b \in Buf : LoadCB(l, b) \/ \E copy \in BOOLEAN : Load(l, b, copy)
  \/ \E m \in Model : EditTemplate(m) \/ MkDir(m) \/ NN(m) \/ NNAborts(m)
  \/ \E s \in StoreName : StoreUnasked(s) \/ OpenInfo(s) \/ Store(s) \/ StoreAborts(s)

Spec == Init /\ [][Next]_vars
-------------------------------------------------------------------------------
(* Properties *)

TypeOK ==
  /\ status \in {"off", "rprod", "train", "test"}
  /\ pc \in {"main", "mkdir", "template", "write", "info"} /\ (pc # "main" => status = "rprod")
  /\ now \in Model \cup StoreName \cup {None} /\ prog \in Versions
  /\ DOMAIN mem = Buf /\ \A b \in Buf : mem[b] \in 1 .. clock
  /\ DOMAIN loadMap \subseteq LoadName /\ DOMAIN storeMap \subseteq StoreName
  /\ \A m \in Model : tmpl[m] \in Template
  /\ loadedMod # None => tmpl[loadedMod] \in Sound
  /\ calls \in 0 .. MaxCalls /\ runs \in 0 .. MaxRuns
  /\ \A m \in Model : rec[m] # NoFile => dir[m] /\ Len(rec[m]) <= MaxRecs

\* What the last load of a name gave: its data at that time, or, with doAlloc
\* false, the variable itself.
Given(l) == IF last[l].copy THEN last[l].val ELSE mem[last[l].at]

\* Python is passed, for every load name, what the program loaded last under that
\* name, and under a combined name what it loaded last under each part; data that
\* were to be copied as they were then (ProgIntel.cpp:96-97, "true - allocate new
\* memory, false - use original data").
SeesLoads ==
  seen # None =>
    \A i \in DOMAIN seen.args :
      LET l == LoadsOf[seen.model][i]
      IN  seen.args[i] = IF l \in Simple THEN Given(l)
                         ELSE [j \in DOMAIN Parts[l] |-> Given(Parts[l][j])]

\* A store gives the program what the model it asked last for that name answered
\* to that call ("Store the data back to program", ProgIntel.cpp:809), if that model
\* has a module that answers.
Answered ==
  got # None /\ got.name \in DOMAIN asked /\ tmpl[asked[got.name][1]] = "edited"
    => got.val = asked[got.name]

\* storeData writes as many elements as every production recorded for that name, of
\* whichever model and version of the program, or the run would not have started.
\* What the program has room for by now plays no part (ProgIntel.cpp:822).
StoreAsRecorded ==
  got # None =>
    /\ \E x \in stored : x[3] = got.name
    /\ \A x \in stored : x[3] = got.name => got.nmemb = StoreLen[x[1]][x[3]]

\* Production has called the model and all its stores, in one run or in several.
Whole(m) == \A s \in Names(StoresOf[m]) : \E v \in Versions : <<v, m, s>> \in stored

\* Of the records, productions that died leave nothing that a later one does not
\* make good: once all models with a directory were gone through, and the stores'
\* lengths never changed, a run starts, and a model gone through finds its stores.
\* A module left empty by a death in genRModelTemplate is not made good.
Restartable ==
  /\ /\ \A x, y \in stored : x[3] = y[3] => StoreLen[x[1]][x[3]] = StoreLen[y[1]][y[3]]
     /\ \A m \in Model : dir[m] => Whole(m)
     => Readable /\ Agreed
  /\ \A m \in Model : Whole(m) /\ Running => Found(m)

\* What is recorded of a store is never lost.
RecordsKept ==
  [][\A m \in Model : rec[m] # NoFile =>
        /\ rec'[m] # NoFile /\ Len(rec[m]) <= Len(rec'[m])
        /\ \A i \in DOMAIN rec[m] : rec'[m][i] = rec[m][i]]_vars
===============================================================================
