----------------------------- MODULE RuntimeProofs -----------------------------
(***************************************************************************)
(* Proofs about a program at run time, for any models, loads and stores,   *)
(* versions of the program and numbers of runs: what productions leave on  *)
(* the disk, the length of a store, that records of productions that died  *)
(* can be made good, that a store gets the answer it asked for and Python  *)
(* the data it was given.                                                  *)
(***************************************************************************)
EXTENDS Runtime, TLAPS

\* ConstAssumption, with the sets of numbers taken apart.
Numbers ==
  /\ Vars \in Nat /\ MaxWrites \in Nat /\ MaxCalls \in Nat /\ MaxRuns \in Nat
  /\ MaxRecs \in Nat \ {0}

LEMMA Constants == Numbers
  BY ConstAssumption DEF Numbers

LEMMA EmptyFile == <<>> \in Seq(Record) /\ Len(<<>>) = 0 /\ <<>> # NoFile
<1>1. <<>> \in Seq(Record)
  OBVIOUS
<1> QED BY <1>1, FileAssumption

LEMMA Stores ==
  ASSUME NEW m \in Model
  PROVE  /\ StoresOf[m] # <<>> /\ StoresOf[m] \in Seq(StoreName)
         /\ Names(StoresOf[m]) \subseteq StoreName
<1>1. StoresOf[m] # <<>> /\ StoresOf[m] \in Seq(StoreName)
  BY ConstAssumption
<1> QED BY <1>1 DEF Names

LEMMA InfoType ==
  ASSUME NEW v \in Versions, NEW s \in StoreName
  PROVE  /\ Info(v, s) \in Record
         /\ Info(v, s).name = s /\ Info(v, s).nmemb = StoreLen[v][s]
  BY ConstAssumption DEF Info, Record

LEMMA PutFacts ==
  ASSUME NEW f, NEW x, NEW y
  PROVE  /\ DOMAIN Put(f, x, y) = DOMAIN f \cup {x} /\ Put(f, x, y)[x] = y
         /\ \A z \in DOMAIN f : z # x => Put(f, x, y)[z] = f[z]
  BY DEF Put

-------------------------------------------------------------------------------
(* Types, and where a production stands *)

Disk ==
  /\ dir \in [Model -> BOOLEAN] /\ tmpl \in [Model -> Template]
  /\ DOMAIN rec = Model
  /\ \A m \in Model : rec[m] # NoFile => rec[m] \in Seq(Record) /\ dir[m] /\ Len(rec[m]) <= MaxRecs

Process ==
  /\ status \in {"off", "rprod", "train", "test"}
  /\ pc \in {"main", "mkdir", "template", "write", "info"} /\ (pc # "main" => status = "rprod")
  /\ now \in Model \cup StoreName \cup {None} /\ prog \in Versions
  /\ loadedMod \in Model \cup {None} /\ (loadedMod # None => tmpl[loadedMod] \in Sound)
  /\ calls \in 0 .. MaxCalls /\ runs \in 0 .. MaxRuns

Memory ==
  /\ clock \in Nat /\ DOMAIN mem = Buf /\ \A b \in Buf : mem[b] \in 1 .. clock
  /\ DOMAIN loadMap \subseteq LoadName /\ DOMAIN storeMap \subseteq StoreName

Asked ==
  /\ DOMAIN asked \subseteq StoreName
  /\ \A s \in DOMAIN asked :
       asked[s][1] \in Model /\ s \in Names(StoresOf[asked[s][1]])
       /\ (status = "rprod" => dir[asked[s][1]])

\* Where the calls of a production stand.
Stands ==
  /\ pc \in {"mkdir", "template", "write"} => now \in Model /\ dir[now]
  /\ pc = "mkdir" => rec[now] = NoFile
  /\ pc = "write" => tmpl[now] = "empty"
  /\ pc = "info" => now \in DOMAIN asked /\ rec[asked[now][1]] # NoFile
                    /\ Len(rec[asked[now][1]]) < MaxRecs

TInv == Disk /\ Process /\ Memory /\ Asked /\ Stands

LEMMA Typed1 == TInv => TypeOK
  BY DEF TInv, Disk, Process, Memory, TypeOK

LEMMA TInit == Init => TInv
<1> SUFFICES ASSUME Init PROVE TInv
  OBVIOUS
<1>0. PICK P \in Produced :
        /\ dir = [m \in Model |-> m \in P]
        /\ tmpl = [m \in Model |-> IF m \in P THEN "supervised" ELSE "none"]
        /\ rec = [m \in Model |-> IF m \in P
                                  THEN [i \in DOMAIN StoresOf[m] |-> Info(prog, StoresOf[m][i])]
                                  ELSE NoFile]
  BY DEF Init
<1>1. \A m \in Model : rec[m] # NoFile => rec[m] \in Seq(Record) /\ dir[m] /\ Len(rec[m]) <= MaxRecs
  <2> SUFFICES ASSUME NEW m \in Model, rec[m] # NoFile
               PROVE  rec[m] \in Seq(Record) /\ dir[m] /\ Len(rec[m]) <= MaxRecs
    OBVIOUS
  <2>1. m \in P /\ dir[m] /\ rec[m] = [j \in DOMAIN StoresOf[m] |-> Info(prog, StoresOf[m][j])]
    BY <1>0
  <2>2. StoresOf[m] \in Seq(StoreName) /\ Len(StoresOf[m]) <= MaxRecs
    BY <2>1, ConstAssumption
  <2>3. \A j \in 1 .. Len(StoresOf[m]) : Info(prog, StoresOf[m][j]) \in Record
    <3>1. prog \in Versions
      BY DEF Init
    <3> QED BY <2>2, <3>1, InfoType
  <2> QED BY <2>1, <2>2, <2>3
<1>2. Disk
  <2>1. dir \in [Model -> BOOLEAN] /\ DOMAIN rec = Model
    BY <1>0
  <2>2. tmpl \in [Model -> Template]
    BY <1>0 DEF Template
  <2> QED BY <1>1, <2>1, <2>2 DEF Disk
<1>3. Memory
  BY Constants DEF Init, Memory, Buf, Numbers
<1>4. Process /\ Asked /\ Stands
  BY Constants DEF Init, Process, Asked, Stands, Numbers
<1> QED BY <1>2, <1>3, <1>4 DEF TInv

\* A new process, or none any more.
LEMMA TNew ==
  ASSUME TInv, New, UNCHANGED <<prog, disk>>,
         status' \in {"off", "rprod", "train", "test"}, runs' \in 0 .. MaxRuns,
         DOMAIN storeMap' \subseteq StoreName
  PROVE  TInv'
<1>1. Disk'
  BY DEF TInv, Disk, disk
<1>2. Process' /\ Asked' /\ Stands'
  BY Constants DEF TInv, Process, New, Asked, Stands, Numbers
<1>3. Memory'
  BY Constants DEF New, Memory, Buf, Numbers
<1> QED BY <1>1, <1>2, <1>3 DEF TInv

LEMMA RecordNames == TInv => {r.name : r \in Records} \subseteq StoreName
<1> SUFFICES ASSUME TInv, NEW r \in Records PROVE r.name \in StoreName
  OBVIOUS
<1>1. PICK m \in Model : rec[m] # NoFile /\ \E i \in DOMAIN rec[m] : r = rec[m][i]
  BY DEF Records, Names
<1>2. rec[m] \in Seq(Record)
  BY <1>1 DEF TInv, Disk
<1>3. r \in Record
  BY <1>1, <1>2
<1> QED BY <1>3 DEF Record

LEMMA TStarts == TInv /\ (StartProduction \/ Start \/ StartAborts) => TInv'
<1> SUFFICES ASSUME TInv, StartProduction \/ Start \/ StartAborts PROVE TInv'
  OBVIOUS
<1>1. runs' \in 0 .. MaxRuns
  BY Constants DEF TInv, Process, StartProduction, Start, StartAborts, Numbers
<1>2. CASE StartProduction
  BY <1>1, <1>2, TNew DEF StartProduction
<1>3. CASE Start
  <2>1. DOMAIN storeMap' = {r.name : r \in Records}
    BY <1>3 DEF Start
  <2>2. DOMAIN storeMap' \subseteq StoreName
    BY <2>1, RecordNames
  <2>3. New /\ UNCHANGED <<prog, disk>> /\ status' \in {"train", "test"}
    BY <1>3 DEF Start
  <2> QED BY <1>1, <2>2, <2>3, TNew
<1>4. CASE StartAborts
  BY <1>1, <1>4 DEF StartAborts, TInv, Disk, Process, Memory, Asked, Stands, data, disk
<1> QED BY <1>2, <1>3, <1>4

LEMMA TGone == TInv /\ Gone => TInv'
<1> SUFFICES ASSUME TInv, Gone PROVE TInv'
  OBVIOUS
<1>1. DOMAIN storeMap' \subseteq StoreName /\ runs' \in 0 .. MaxRuns
  BY DEF Gone, TInv, Process
<1> QED BY <1>1, TNew DEF Gone

LEMMA TEdit == TInv /\ Edit => TInv'
  BY DEF Edit, TInv, Disk, Process, Memory, Asked, Stands, data, disk

LEMMA TEditTemplate == ASSUME TInv, NEW m \in Model, EditTemplate(m) PROVE TInv'
<1>1. /\ status = "off" /\ pc = "main" /\ tmpl' = [tmpl EXCEPT ![m] = "edited"]
      /\ UNCHANGED <<status, pc, now, prog, mem, clock, data, loadedMod, calls, dir, rec, runs>>
  BY DEF EditTemplate, TInv, Process
<1>2. /\ tmpl' \in [Model -> Template]
      /\ \A k \in Model : tmpl[k] \in Sound => tmpl'[k] \in Sound
  BY <1>1 DEF TInv, Disk, Template, Sound
<1>3. Disk' /\ Process'
  BY <1>1, <1>2 DEF TInv, Disk, Process
<1>4. Memory' /\ Asked' /\ Stands'
  BY <1>1 DEF TInv, Memory, Asked, Stands, data
<1> QED BY <1>3, <1>4 DEF TInv

\* Steps that change loads and variables only.
LEMMA TMemory ==
  ASSUME TInv, Memory',
         UNCHANGED <<status, pc, now, prog, storeMap, asked, loadedMod, calls, disk, stored, runs>>
  PROVE  TInv'
  BY DEF TInv, Disk, Process, Asked, Stands, disk

LEMMA TWrite == ASSUME TInv, NEW b \in Buf, Write(b) PROVE TInv'
<1>1. clock' = clock + 1 /\ mem' = [mem EXCEPT ![b] = clock + 1] /\ UNCHANGED <<loadMap, storeMap>>
      /\ UNCHANGED <<status, pc, now, prog, storeMap, asked, loadedMod, calls, disk, stored, runs>>
  BY DEF Write, data
<1>2. Memory'
  BY <1>1 DEF TInv, Memory
<1> QED BY <1>1, <1>2, TMemory

LEMMA TLoad ==
  ASSUME TInv, NEW l \in Simple, NEW b \in Buf, LoadCB(l, b) \/ \E copy \in BOOLEAN : Load(l, b, copy)
  PROVE  TInv'
<1>1. l \in LoadName
  BY DEF Simple
<1>2. UNCHANGED <<status, pc, now, prog, storeMap, asked, loadedMod, calls, disk, stored, runs, clock>>
  BY DEF LoadCB, Load
<1>3. DOMAIN loadMap' \subseteq LoadName
  <2>1. loadMap' = loadMap \/ \E y : loadMap' = Put(loadMap, l, y)
    BY DEF LoadCB, Load
  <2>2. DOMAIN loadMap \subseteq LoadName
    BY DEF TInv, Memory
  <2>3. ASSUME NEW y, loadMap' = Put(loadMap, l, y) PROVE DOMAIN loadMap' = DOMAIN loadMap \cup {l}
    BY <2>3, PutFacts
  <2> QED BY <1>1, <2>1, <2>2, <2>3
<1>4. DOMAIN mem' = Buf /\ \A c \in Buf : mem'[c] \in 1 .. clock
  BY DEF LoadCB, Load, TInv, Memory
<1> QED BY <1>2, <1>3, <1>4, TMemory DEF TInv, Memory

\* What a call of piNN asks for.
LEMMA AskedFacts ==
  ASSUME NEW m \in Model, Asks(m)
  PROVE  /\ calls < MaxCalls /\ calls' = calls + 1
         /\ DOMAIN asked' = DOMAIN asked \cup Names(StoresOf[m])
         /\ \A s \in Names(StoresOf[m]) : asked'[s] = <<m, calls + 1>>
         /\ \A s \in DOMAIN asked : s \notin Names(StoresOf[m]) => asked'[s] = asked[s]
         /\ DOMAIN loadMap' \subseteq DOMAIN loadMap \cup LoadName
  BY ConstAssumption DEF Asks, Combined

LEMMA TAsks ==
  ASSUME TInv, NEW m \in Model, Asks(m)
  PROVE  /\ DOMAIN asked' \subseteq StoreName /\ calls' \in 0 .. MaxCalls
         /\ \A s \in DOMAIN asked' : asked'[s][1] \in Model /\ s \in Names(StoresOf[asked'[s][1]])
                                     /\ (asked'[s][1] = m \/ (s \in DOMAIN asked /\ asked'[s] = asked[s]))
         /\ DOMAIN loadMap' \subseteq LoadName
<1>1. DOMAIN asked' \subseteq StoreName
  BY AskedFacts, Stores DEF TInv, Asked
<1>2. calls' \in 0 .. MaxCalls
  <2>1. calls < MaxCalls /\ calls' = calls + 1
    BY AskedFacts
  <2>2. calls \in Nat /\ MaxCalls \in Nat
    BY Constants DEF TInv, Process, Numbers
  <2> QED BY <2>1, <2>2
<1>3. ASSUME NEW s \in DOMAIN asked'
      PROVE  /\ asked'[s][1] \in Model /\ s \in Names(StoresOf[asked'[s][1]])
             /\ (asked'[s][1] = m \/ (s \in DOMAIN asked /\ asked'[s] = asked[s]))
  <2>1. CASE s \in Names(StoresOf[m])
    <3>1. asked'[s] = <<m, calls + 1>>
      BY <2>1, AskedFacts
    <3>2. asked'[s][1] = m
      BY <3>1
    <3>3. Names(StoresOf[asked'[s][1]]) = Names(StoresOf[m])
      BY <3>2
    <3>4. asked'[s][1] \in Model
      BY <3>2
    <3>5. s \in Names(StoresOf[asked'[s][1]])
      BY <2>1, <3>3
    <3> QED BY <3>2, <3>4, <3>5
  <2>2. CASE s \notin Names(StoresOf[m])
    <3>1. s \in DOMAIN asked /\ asked'[s] = asked[s]
      BY <2>2, AskedFacts
    <3> QED BY <3>1 DEF TInv, Asked
  <2> QED BY <2>1, <2>2
<1>4. DOMAIN loadMap' \subseteq LoadName
  BY AskedFacts DEF TInv, Memory
<1> QED BY <1>1, <1>2, <1>3, <1>4

LEMMA TMkDir == ASSUME TInv, NEW m \in Model, MkDir(m) PROVE TInv'
<1>1. /\ pc = "main" /\ status = "rprod" /\ Asks(m)
      /\ now' = m /\ dir' = [dir EXCEPT ![m] = TRUE]
      /\ pc' = IF dir[m] THEN "template" ELSE "mkdir"
      /\ UNCHANGED <<status, prog, mem, clock, storeMap, loadedMod, tmpl, rec, runs>>
  BY DEF MkDir, Idle
<1>2. dir' \in [Model -> BOOLEAN] /\ \A k \in Model : dir[k] => dir'[k]
  BY <1>1 DEF TInv, Disk
<1>3. Disk'
  BY <1>1, <1>2 DEF TInv, Disk
<1>4. Process'
  BY <1>1, TAsks DEF TInv, Process
<1>5. Memory'
  BY <1>1, TAsks DEF TInv, Memory
<1>6. dir'[m]
  BY <1>1 DEF TInv, Disk
<1>7. Asked'
  <2>1. DOMAIN asked' \subseteq StoreName
    BY <1>1, TAsks
  <2>2. ASSUME NEW s \in DOMAIN asked'
        PROVE  asked'[s][1] \in Model /\ s \in Names(StoresOf[asked'[s][1]]) /\ dir'[asked'[s][1]]
    <3>1. asked'[s][1] \in Model /\ s \in Names(StoresOf[asked'[s][1]])
      BY <1>1, TAsks
    <3>2. CASE asked'[s][1] = m
      BY <1>6, <3>1, <3>2
    <3>3. CASE s \in DOMAIN asked /\ asked'[s] = asked[s]
      BY <1>1, <1>2, <3>1, <3>3 DEF TInv, Asked
    <3> QED BY <1>1, <3>1, <3>2, <3>3, TAsks
  <2> QED BY <2>1, <2>2 DEF Asked
<1>8. Stands'
  BY <1>1, <1>6 DEF TInv, Disk, Stands
<1> QED BY <1>3, <1>4, <1>5, <1>7, <1>8 DEF TInv

LEMMA TMkStore == TInv /\ MkStore => TInv'
<1> SUFFICES ASSUME TInv, MkStore PROVE TInv'
  OBVIOUS
<1>1. /\ pc = "mkdir" /\ pc' = "template" /\ status = "rprod" /\ rec' = [rec EXCEPT ![now] = <<>>]
      /\ UNCHANGED <<status, now, prog, mem, clock, data, loadedMod, calls, dir, tmpl, runs>>
      /\ now \in Model /\ dir[now]
  BY DEF MkStore, TInv, Stands
<1>2. 0 <= MaxRecs
  BY Constants DEF Numbers
<1>3. Disk'
  BY <1>1, <1>2, EmptyFile DEF TInv, Disk
<1>4. Process' /\ Memory' /\ Asked' /\ Stands'
  BY <1>1 DEF TInv, Process, Memory, Asked, Stands, data
<1> QED BY <1>3, <1>4 DEF TInv

LEMMA TTemplate == TInv /\ (GenTemplate \/ TemplateWritten) => TInv'
<1> SUFFICES ASSUME TInv, GenTemplate \/ TemplateWritten PROVE TInv'
  OBVIOUS
<1>1. /\ pc \in {"template", "write"} /\ pc' \in {"write", "main"} /\ status = "rprod"
      /\ UNCHANGED <<status, now, prog, mem, clock, data, loadedMod, calls, dir, rec, runs>>
      /\ now \in Model /\ dir[now]
  BY DEF GenTemplate, TemplateWritten, TInv, Stands
<1>2. /\ \/ tmpl' = tmpl /\ pc' = "main"
         \/ tmpl[now] = "none" /\ tmpl' = [tmpl EXCEPT ![now] = "empty"]
         \/ tmpl[now] = "empty" /\ tmpl' = [tmpl EXCEPT ![now] = "generated"] /\ pc' = "main"
  BY DEF GenTemplate, TemplateWritten, TInv, Stands
<1>3. /\ tmpl' \in [Model -> Template]
      /\ \A m \in Model : tmpl[m] \in Sound => tmpl'[m] \in Sound
  BY <1>1, <1>2 DEF TInv, Disk, Template, Sound
<1>4. Disk'
  BY <1>1, <1>3 DEF TInv, Disk
<1>5. Process'
  BY <1>1, <1>3 DEF TInv, Process
<1>6. pc' = "write" => tmpl'[now] = "empty"
  BY <1>1, <1>2 DEF TInv, Disk
<1>7. Memory' /\ Asked' /\ Stands'
  BY <1>1, <1>6 DEF TInv, Memory, Asked, Stands, data
<1> QED BY <1>4, <1>5, <1>7 DEF TInv

LEMMA TNN == ASSUME TInv, NEW m \in Model, NN(m) PROVE TInv'
<1>1. /\ pc = "main" /\ status \in {"train", "test"} /\ Asks(m) /\ Runs(m)
      /\ loadedMod' = Cached(m) /\ DOMAIN storeMap' = DOMAIN storeMap
      /\ UNCHANGED <<status, pc, now, prog, mem, clock, disk, runs>>
  BY DEF NN, Running
<1>2. loadedMod' \in Model \cup {None} /\ tmpl[loadedMod'] \in Sound
  BY <1>1 DEF Runs, Cached, TInv, Process
<1>3. Process'
  BY <1>1, <1>2, TAsks DEF TInv, Process, disk
<1>4. Memory'
  BY <1>1, TAsks DEF TInv, Memory
<1>5. DOMAIN asked' \subseteq StoreName /\ status' # "rprod"
      /\ \A s \in DOMAIN asked' : asked'[s][1] \in Model /\ s \in Names(StoresOf[asked'[s][1]])
  BY <1>1, TAsks
<1>6. Asked'
  BY <1>5 DEF Asked
<1>7. Disk' /\ Stands'
  BY <1>1 DEF TInv, Disk, Stands, disk
<1> QED BY <1>3, <1>4, <1>6, <1>7 DEF TInv

LEMMA TOpenInfo == ASSUME TInv, NEW s \in StoreName, OpenInfo(s) PROVE TInv'
<1> DEFINE m == asked[s][1]
<1>1. /\ pc = "main" /\ pc' = "info" /\ status = "rprod" /\ s \in DOMAIN asked /\ now' = s
      /\ rec[m] # NoFile => Len(rec[m]) < MaxRecs
      /\ rec' = [rec EXCEPT ![m] = IF rec[m] = NoFile THEN <<>> ELSE rec[m]]
      /\ UNCHANGED <<status, prog, mem, clock, data, loadedMod, calls, dir, tmpl, runs>>
  BY DEF OpenInfo, Idle
<1>2. m \in Model /\ dir[m]
  BY <1>1 DEF TInv, Asked
<1> HIDE DEF m
<1>5. \A k \in Model : k # m => rec'[k] = rec[k]
  BY <1>1, <1>2 DEF TInv, Disk
<1>6. rec'[m] # NoFile /\ rec'[m] \in Seq(Record) /\ Len(rec'[m]) <= MaxRecs
      /\ rec'[m] = IF rec[m] = NoFile THEN <<>> ELSE rec[m]
  BY <1>1, <1>2, EmptyFile, Constants DEF TInv, Disk, Numbers
<1>7. DOMAIN rec' = Model
  BY <1>1 DEF TInv, Disk
<1>8. Disk'
  BY <1>1, <1>2, <1>5, <1>6, <1>7 DEF TInv, Disk
<1>9. Len(rec'[m]) < MaxRecs
  BY <1>1, <1>6, EmptyFile, Constants DEF Numbers
<1>10. now' \in DOMAIN asked' /\ asked'[now'][1] = m
  BY <1>1 DEF m, data
<1>11. Stands'
  BY <1>1, <1>6, <1>9, <1>10 DEF Stands
<1>12. Process' /\ Memory' /\ Asked'
  BY <1>1 DEF TInv, Process, Memory, Asked, data
<1> QED BY <1>8, <1>11, <1>12 DEF TInv

LEMMA TWriteInfo == TInv /\ WriteInfo => TInv'
<1> SUFFICES ASSUME TInv, WriteInfo PROVE TInv'
  OBVIOUS
<1> DEFINE m == asked[now][1]
<1>1. /\ pc = "info" /\ pc' = "main" /\ status = "rprod"
      /\ rec' = [rec EXCEPT ![m] = Append(rec[m], Info(prog, now))]
      /\ UNCHANGED <<status, now, prog, mem, clock, data, loadedMod, calls, dir, tmpl, runs>>
  BY DEF WriteInfo
<1>2. now \in DOMAIN asked /\ rec[m] # NoFile /\ Len(rec[m]) < MaxRecs
  BY <1>1 DEF TInv, Stands
<1>3. m \in Model /\ dir[m] /\ now \in StoreName /\ prog \in Versions
  BY <1>1, <1>2 DEF TInv, Asked, Process
<1>4. rec[m] \in Seq(Record) /\ Info(prog, now) \in Record
  BY <1>2, <1>3, InfoType DEF TInv, Disk
<1> HIDE DEF m
<1>5. Append(rec[m], Info(prog, now)) \in Seq(Record)
      /\ Len(Append(rec[m], Info(prog, now))) = Len(rec[m]) + 1 /\ Len(rec[m]) \in Nat
  BY <1>4
<1>6. \A k \in Model : rec'[k] = IF k = m THEN Append(rec[m], Info(prog, now)) ELSE rec[k]
  BY <1>1, <1>3 DEF TInv, Disk
<1>7. Disk'
  BY <1>1, <1>2, <1>3, <1>5, <1>6, Constants DEF TInv, Disk, Numbers
<1>8. Process' /\ Memory' /\ Asked' /\ Stands'
  BY <1>1 DEF TInv, Process, Memory, Asked, Stands, data
<1> QED BY <1>7, <1>8 DEF TInv

LEMMA TStore == ASSUME TInv, NEW s \in StoreName, Store(s) PROVE TInv'
  BY DEF Store, TInv, Disk, Process, Memory, Asked, Stands, data, disk

LEMMA TUnasked == ASSUME TInv, NEW s \in StoreName, StoreUnasked(s) PROVE TInv'
  BY DEF StoreUnasked, TInv, Disk, Process, Memory, Asked, Stands, data, disk

LEMMA TNext == TInv /\ [Next]_vars => TInv'
<1> SUFFICES ASSUME TInv, [Next]_vars PROVE TInv'
  OBVIOUS
<1>1. CASE StartProduction \/ Start \/ StartAborts
  BY <1>1, TStarts
<1>2. CASE Die \/ (\E m \in Model : NNAborts(m)) \/ (\E s \in StoreName : StoreAborts(s))
  BY <1>2, TGone DEF Die, NNAborts, StoreAborts
<1>3. CASE Edit \/ MkStore \/ GenTemplate \/ TemplateWritten \/ WriteInfo
  BY <1>3, TEdit, TMkStore, TTemplate, TWriteInfo
<1>4. CASE \/ \E b \in Buf : Write(b)
           \/ \E l \in Simple, b \in Buf : LoadCB(l, b) \/ \E copy \in BOOLEAN : Load(l, b, copy)
  BY <1>4, TWrite, TLoad
<1>5. CASE \E m \in Model : EditTemplate(m) \/ MkDir(m) \/ NN(m)
  BY <1>5, TEditTemplate, TMkDir, TNN
<1>6. CASE \E s \in StoreName : StoreUnasked(s) \/ OpenInfo(s) \/ Store(s)
  BY <1>6, TUnasked, TOpenInfo, TStore
<1>7. CASE UNCHANGED vars
  BY <1>7 DEF vars, TInv, Disk, Process, Memory, Asked, Stands, data, disk
<1> QED BY <1>1, <1>2, <1>3, <1>4, <1>5, <1>6, <1>7 DEF Next

LEMMA Typed == Spec => []TInv
  BY TInit, TNext, PTL DEF Spec

\* Type correctness: a module that is cached was loaded whole, and a .store file is
\* in a directory.
THEOREM TypeCorrect == Spec => []TypeOK
  BY Typed, Typed1, PTL

-------------------------------------------------------------------------------
(* What is recorded stays *)

\* The .store file of each model grows at its end, and nothing else.
Grows == \A m \in Model : rec[m] # NoFile =>
           /\ rec'[m] # NoFile /\ Len(rec[m]) <= Len(rec'[m])
           /\ \A i \in DOMAIN rec[m] : rec'[m][i] = rec[m][i]

LEMMA NextGrows == TInv /\ [Next]_vars => Grows
<1> SUFFICES ASSUME TInv, [Next]_vars PROVE Grows
  OBVIOUS
<1>1. \A m \in Model : rec[m] # NoFile => rec[m] \in Seq(Record) /\ Len(rec[m]) \in Nat
  BY DEF TInv, Disk
<1>2. CASE rec' = rec
  BY <1>1, <1>2 DEF Grows
<1>3. CASE MkStore
  <2>1. now \in Model /\ rec[now] = NoFile /\ rec' = [rec EXCEPT ![now] = <<>>]
    BY <1>3 DEF MkStore, TInv, Stands
  <2>2. \A m \in Model : rec[m] # NoFile => rec'[m] = rec[m]
    BY <2>1 DEF TInv, Disk
  <2> QED BY <1>1, <2>2 DEF Grows
<1>4. ASSUME NEW s \in StoreName, OpenInfo(s) PROVE Grows
  <2>1. \A m \in Model : rec[m] # NoFile => rec'[m] = rec[m]
    BY <1>4 DEF OpenInfo, TInv, Disk
  <2> QED BY <1>1, <2>1 DEF Grows
<1>5. CASE WriteInfo
  <2> SUFFICES ASSUME NEW m \in Model, rec[m] # NoFile
               PROVE  /\ rec'[m] # NoFile /\ Len(rec[m]) <= Len(rec'[m])
                      /\ \A i \in DOMAIN rec[m] : rec'[m][i] = rec[m][i]
    BY DEF Grows
  <2>1. TInv'
    BY TNext
  <2>2. rec'[m] = rec[m] \/ rec'[m] = Append(rec[m], Info(prog, now))
    BY <1>5 DEF WriteInfo, TInv, Disk
  <2>3. CASE rec'[m] = rec[m]
    BY <1>1, <2>3
  <2>4. CASE rec'[m] = Append(rec[m], Info(prog, now))
    <3>1. Info(prog, now) \in Record
      <4>1. now \in StoreName /\ prog \in Versions
        BY <1>5 DEF WriteInfo, TInv, Stands, Asked, Process
      <4> QED BY <4>1, InfoType
    <3>2. rec[m] \in Seq(Record)
      BY <1>1
    <3>3. Append(rec[m], Info(prog, now)) \in Seq(Record)
      BY <3>1, <3>2
    <3>4. rec'[m] # NoFile
      BY <2>4, <3>3, FileAssumption
    <3> QED BY <2>4, <3>1, <3>2, <3>4
  <2> QED BY <2>2, <2>3, <2>4
<1>6. rec' = rec \/ MkStore \/ WriteInfo \/ \E s \in StoreName : OpenInfo(s)
  BY DEF Next, vars, disk, StartProduction, Start, StartAborts, Die, Gone, Edit,
         EditTemplate, GenTemplate, TemplateWritten, Write, LoadCB, Load, MkDir, NN, NNAborts,
         StoreUnasked, Store, StoreAborts
<1> QED BY <1>2, <1>3, <1>4, <1>5, <1>6

\* No production loses what another one has recorded.
THEOREM NothingForgotten == Spec => RecordsKept
<1>1. TInv /\ [Next]_vars => [Grows]_vars
  BY NextGrows
<1> QED BY <1>1, Typed, PTL DEF Spec, RecordsKept, Grows

-------------------------------------------------------------------------------
(* What a production leaves, and what a run makes of it *)

At(m, r) == rec[m] # NoFile /\ \E i \in DOMAIN rec[m] : rec[m][i] = r

\* All that productions stored is in a .store file, next to a template.
Recorded ==
  \A x \in stored : /\ x \in Versions \X Model \X StoreName
                    /\ At(x[2], Info(x[1], x[3])) /\ tmpl[x[2]] # "none"

\* All that is in a .store file was stored.
Justified ==
  \A m \in Model : rec[m] # NoFile => \A i \in DOMAIN rec[m] :
    \E v \in Versions : /\ <<v, m, rec[m][i].name>> \in stored
                        /\ rec[m][i].nmemb = StoreLen[v][rec[m][i].name]

\* A model that was asked has a template, unless the production is at it.
Templated ==
  status = "rprod" => \A s \in DOMAIN asked :
    tmpl[asked[s][1]] # "none" \/ (pc \in {"mkdir", "template"} /\ asked[s][1] = now)

InRecord(s) == \E m \in Model : rec[m] # NoFile /\ \E i \in DOMAIN rec[m] : rec[m][i].name = s

\* A run has the room that was recorded, for every store, and for no other.
Sized ==
  /\ \A s \in DOMAIN storeMap :
       storeMap[s] = [nmemb |-> storeMap[s].nmemb, val |-> storeMap[s].val]
  /\ status \in {"train", "test"} =>
       /\ \A m \in Model : rec[m] # NoFile => \A i \in DOMAIN rec[m] :
            /\ rec[m][i].name \in DOMAIN storeMap
            /\ storeMap[rec[m][i].name].nmemb = rec[m][i].nmemb
       /\ \A s \in DOMAIN storeMap : InRecord(s)
  /\ got # None => /\ status \in {"train", "test"} /\ got.name \in DOMAIN storeMap
                   /\ got.nmemb = storeMap[got.name].nmemb

SInv == Recorded /\ Justified /\ Templated /\ Sized

LEMMA SInit == Init => SInv
<1> SUFFICES ASSUME Init PROVE SInv
  OBVIOUS
<1>0. PICK P \in Produced :
        /\ tmpl = [m \in Model |-> IF m \in P THEN "supervised" ELSE "none"]
        /\ rec = [m \in Model |-> IF m \in P
                                  THEN [i \in DOMAIN StoresOf[m] |-> Info(prog, StoresOf[m][i])]
                                  ELSE NoFile]
        /\ stored = {x \in {prog} \X P \X StoreName : x[3] \in Names(StoresOf[x[2]])}
  BY DEF Init
<1>1. prog \in Versions /\ status = "off" /\ storeMap = <<>> /\ got = None
  BY DEF Init
<1>2. P \subseteq Model
  BY ConstAssumption
<1>3. ASSUME NEW m \in P
      PROVE  /\ rec[m] # NoFile /\ DOMAIN rec[m] = DOMAIN StoresOf[m]
             /\ \A i \in DOMAIN StoresOf[m] :
                  rec[m][i] = Info(prog, StoresOf[m][i]) /\ StoresOf[m][i] \in StoreName
  <2>1. m \in Model /\ rec[m] = [i \in DOMAIN StoresOf[m] |-> Info(prog, StoresOf[m][i])]
    BY <1>0, <1>1, <1>2
  <2>2. StoresOf[m] \in Seq(StoreName)
    BY <2>1, Stores
  <2>3. \A i \in 1 .. Len(StoresOf[m]) : Info(prog, StoresOf[m][i]) \in Record
    BY <1>1, <2>2, InfoType
  <2>4. rec[m] \in Seq(Record)
    BY <2>1, <2>2, <2>3
  <2>5. rec[m] # NoFile
    BY <2>4, FileAssumption
  <2> QED BY <2>1, <2>2, <2>5
<1>4. Recorded
  <2> SUFFICES ASSUME NEW x \in stored
               PROVE  /\ x \in Versions \X Model \X StoreName
                      /\ At(x[2], Info(x[1], x[3])) /\ tmpl[x[2]] # "none"
    BY DEF Recorded
  <2>1. x \in {prog} \X P \X StoreName /\ x[3] \in Names(StoresOf[x[2]])
    BY <1>0
  <2>2. x[1] = prog /\ x[2] \in P /\ x \in Versions \X Model \X StoreName
    BY <1>0, <1>1, <1>2, <2>1
  <2>3. PICK i \in DOMAIN StoresOf[x[2]] : x[3] = StoresOf[x[2]][i]
    BY <2>1 DEF Names
  <2>4. At(x[2], Info(x[1], x[3]))
    BY <1>3, <2>2, <2>3 DEF At
  <2>5. tmpl[x[2]] = "supervised"
    BY <1>0, <1>1, <1>2, <2>2
  <2> QED BY <2>2, <2>4, <2>5
<1>5. Justified
  <2> SUFFICES ASSUME NEW m \in Model, rec[m] # NoFile, NEW i \in DOMAIN rec[m]
               PROVE  \E v \in Versions : /\ <<v, m, rec[m][i].name>> \in stored
                                          /\ rec[m][i].nmemb = StoreLen[v][rec[m][i].name]
    BY DEF Justified
  <2>1. m \in P
    BY <1>0
  <2>2. i \in DOMAIN StoresOf[m] /\ rec[m][i] = Info(prog, StoresOf[m][i]) /\ StoresOf[m][i] \in StoreName
    BY <1>3, <2>1
  <2> DEFINE s == StoresOf[m][i]
  <2>3. s \in Names(StoresOf[m]) /\ rec[m][i].name = s /\ rec[m][i].nmemb = StoreLen[prog][s]
    BY <1>1, <2>2, InfoType DEF Names
  <2> HIDE DEF s
  <2>4. s \in StoreName
    BY <2>2 DEF s
  <2>5. <<prog, m, s>> \in stored
    BY <1>0, <1>1, <2>1, <2>3, <2>4
  <2> QED BY <1>1, <2>3, <2>5
<1>6. Templated /\ Sized
  BY <1>1 DEF Templated, Sized
<1> QED BY <1>4, <1>5, <1>6 DEF SInv

\* Steps that leave the disk as it is, and a run's room.
LEMMA SSame ==
  ASSUME SInv, UNCHANGED <<disk, stored>>, Templated', Sized'
  PROVE  SInv'
  BY DEF SInv, Recorded, Justified, At, disk

LEMMA SStarts == TInv /\ SInv /\ (StartProduction \/ Start \/ StartAborts) => SInv'
<1> SUFFICES ASSUME TInv, SInv, StartProduction \/ Start \/ StartAborts PROVE SInv'
  OBVIOUS
<1>1. CASE StartProduction
  BY <1>1, SSame DEF StartProduction, New, Quiet, Templated, Sized
<1>2. CASE StartAborts
  BY <1>2, SSame DEF StartAborts, Quiet, SInv, Templated, Sized, data, disk
<1>3. CASE Start
  <2>1. /\ Agreed /\ status' \in {"train", "test"} /\ got' = None /\ UNCHANGED <<disk, stored>>
        /\ storeMap' = [s \in {r.name : r \in Records} |->
             [nmemb |-> (CHOOSE r \in Records : r.name = s).nmemb, val |-> Uninit]]
    BY <1>3 DEF Start, New, Quiet
  <2>2. \A s \in DOMAIN storeMap' :
          storeMap'[s] = [nmemb |-> storeMap'[s].nmemb, val |-> storeMap'[s].val]
    BY <2>1
  <2>3. ASSUME NEW m \in Model, rec[m] # NoFile, NEW i \in DOMAIN rec[m]
        PROVE  /\ rec[m][i].name \in DOMAIN storeMap'
               /\ storeMap'[rec[m][i].name].nmemb = rec[m][i].nmemb
    <3> DEFINE q == rec[m][i]
    <3>1. q \in Records
      BY <2>3 DEF Records, Names, TInv, Disk
    <3> HIDE DEF q
    <3> DEFINE c == CHOOSE r \in Records : r.name = q.name
    <3>2. c \in Records /\ c.name = q.name
      BY <3>1
    <3> HIDE DEF c
    <3>3. c.nmemb = q.nmemb
      BY <2>1, <3>1, <3>2 DEF Agreed
    <3>4. q.name \in DOMAIN storeMap' /\ storeMap'[q.name].nmemb = c.nmemb
      BY <2>1, <3>1 DEF c
    <3> QED BY <3>3, <3>4 DEF q
  <2>5. ASSUME NEW s \in DOMAIN storeMap' PROVE InRecord(s)
    BY <2>1 DEF Records, Names, InRecord
  <2>4. Sized'
    BY <2>1, <2>2, <2>3, <2>5 DEF Sized, InRecord, disk
  <2> QED BY <2>1, <2>4, SSame DEF Templated
<1> QED BY <1>1, <1>2, <1>3

LEMMA SGone == SInv /\ Gone => SInv'
<1> SUFFICES ASSUME SInv, Gone PROVE SInv'
  OBVIOUS
<1>1. Templated' /\ Sized'
  BY DEF Gone, New, Quiet, Templated, Sized
<1> QED BY <1>1, SSame DEF Gone

\* Steps of the program itself.
LEMMA SProgram ==
  ASSUME SInv, UNCHANGED <<status, pc, now, storeMap, asked, disk, stored>>,
         \/ got' = None
         \/ /\ status \in {"train", "test"} /\ got'.name \in DOMAIN storeMap
            /\ got'.nmemb = storeMap[got'.name].nmemb
  PROVE  SInv'
<1>1. Templated'
  BY DEF SInv, Templated, disk
<1>2. Sized'
  BY DEF SInv, Sized, InRecord, disk
<1> QED BY <1>1, <1>2, SSame

LEMMA SMkDir == ASSUME TInv, SInv, NEW m \in Model, MkDir(m) PROVE SInv'
<1>1. /\ pc = "main" /\ status = "rprod" /\ Asks(m) /\ now' = m /\ pc' \in {"template", "mkdir"}
      /\ UNCHANGED <<status, storeMap, tmpl, rec, stored>> /\ got' = None
  BY DEF MkDir, Idle, Quiet
<1>2. Templated'
  BY <1>1, TAsks DEF SInv, Templated
<1>3. Recorded' /\ Justified' /\ Sized'
  BY <1>1 DEF SInv, Recorded, Justified, Sized, At
<1> QED BY <1>2, <1>3 DEF SInv

\* Where the .store files grow without a record, nothing is lost or made up.
LEMMA SOpen ==
  ASSUME TInv, SInv, UNCHANGED <<asked, storeMap, tmpl, stored>>, got' = None,
         status = "rprod", status' = status,
         pc \notin {"mkdir", "template"} \/ (pc' = "template" /\ now' = now),
         \A m \in Model : rec'[m] = rec[m] \/ (rec[m] = NoFile /\ rec'[m] = <<>>)
  PROVE  SInv'
<1>1. Recorded'
  BY DEF SInv, Recorded, At
<1>2. Justified'
  <2> SUFFICES ASSUME NEW m \in Model, rec'[m] # NoFile, NEW i \in DOMAIN rec'[m]
               PROVE  \E v \in Versions : /\ <<v, m, rec'[m][i].name>> \in stored
                                          /\ rec'[m][i].nmemb = StoreLen[v][rec'[m][i].name]
    BY DEF Justified
  <2>1. DOMAIN <<>> = {}
    OBVIOUS
  <2>2. rec'[m] = rec[m]
    BY <2>1
  <2> QED BY <2>2 DEF SInv, Justified
<1>3. Templated' /\ Sized'
  <2>1. Templated'
    BY DEF SInv, Templated
  <2>2. Sized'
    BY DEF SInv, Sized
  <2> QED BY <2>1, <2>2
<1> QED BY <1>1, <1>2, <1>3 DEF SInv

LEMMA SOpens == ASSUME TInv, SInv, MkStore \/ \E s \in StoreName : OpenInfo(s) PROVE SInv'
<1>1. CASE MkStore
  <2>1. rec' = [rec EXCEPT ![now] = <<>>] /\ rec[now] = NoFile /\ DOMAIN rec = Model
    BY <1>1 DEF MkStore, TInv, Stands, Disk
  <2>2. \A m \in Model : rec'[m] = rec[m] \/ (rec[m] = NoFile /\ rec'[m] = <<>>)
    BY <2>1
  <2> QED BY <1>1, <2>2, SOpen DEF MkStore, Quiet, data
<1>2. ASSUME NEW s \in StoreName, OpenInfo(s) PROVE SInv'
  <2>1. DOMAIN rec = Model /\ \E k : rec' = [rec EXCEPT ![k] = IF rec[k] = NoFile THEN <<>> ELSE rec[k]]
    BY <1>2 DEF OpenInfo, TInv, Disk
  <2>2. \A m \in Model : rec'[m] = rec[m] \/ (rec[m] = NoFile /\ rec'[m] = <<>>)
    BY <2>1
  <2> QED BY <1>2, <2>2, SOpen DEF OpenInfo, Idle, Quiet, data
<1> QED BY <1>1, <1>2

LEMMA STemplate == TInv /\ SInv /\ (GenTemplate \/ TemplateWritten) => SInv'
<1> SUFFICES ASSUME TInv, SInv, GenTemplate \/ TemplateWritten PROVE SInv'
  OBVIOUS
<1>1. /\ status = "rprod" /\ status' = status /\ UNCHANGED <<storeMap, asked, rec, stored>> /\ got' = None
      /\ now \in Model /\ pc \in {"template", "write"}
      /\ tmpl \in [Model -> Template]
  BY DEF GenTemplate, TemplateWritten, Quiet, TInv, Process, Stands, Disk, data
<1>2. \A m \in Model : tmpl[m] # "none" \/ (pc = "template" /\ m = now) => tmpl'[m] # "none"
  BY <1>1 DEF GenTemplate, TemplateWritten
<1>3. Recorded'
  <2> SUFFICES ASSUME NEW x \in stored
               PROVE  /\ x \in Versions \X Model \X StoreName
                      /\ At(x[2], Info(x[1], x[3]))' /\ tmpl'[x[2]] # "none"
    BY <1>1 DEF Recorded
  <2>1. /\ x \in Versions \X Model \X StoreName
        /\ At(x[2], Info(x[1], x[3])) /\ tmpl[x[2]] # "none"
    BY DEF SInv, Recorded
  <2>2. At(x[2], Info(x[1], x[3]))'
    BY <1>1, <2>1 DEF At
  <2>3. x[2] \in Model
    BY <2>1
  <2> QED BY <1>2, <2>1, <2>2, <2>3
<1>4. Justified' /\ Sized'
  <2>1. Justified'
    BY <1>1 DEF SInv, Justified
  <2>2. Sized'
    BY <1>1 DEF SInv, Sized
  <2> QED BY <2>1, <2>2
<1>5. Templated'
  <2> SUFFICES ASSUME NEW s \in DOMAIN asked PROVE tmpl'[asked[s][1]] # "none"
    BY <1>1 DEF Templated
  <2>1. asked[s][1] \in Model
    BY DEF TInv, Asked
  <2>2. tmpl[asked[s][1]] # "none" \/ (pc = "template" /\ asked[s][1] = now)
    BY <1>1 DEF SInv, Templated
  <2> QED BY <1>2, <2>1, <2>2
<1> QED BY <1>3, <1>4, <1>5 DEF SInv

\* WriteInfo adds one record, to one model.
LEMMA Added ==
  ASSUME TInv, WriteInfo
  PROVE  LET m == asked[now][1]
         IN  /\ m \in Model /\ now \in DOMAIN asked /\ now \in StoreName /\ prog \in Versions
             /\ rec[m] # NoFile /\ rec'[m] # NoFile
             /\ \A k \in Model : k # m => rec'[k] = rec[k]
             /\ DOMAIN rec'[m] = DOMAIN rec[m] \cup {Len(rec[m]) + 1}
             /\ \A i \in DOMAIN rec[m] : rec'[m][i] = rec[m][i]
             /\ rec'[m][Len(rec[m]) + 1] = Info(prog, now)
<1> DEFINE m == asked[now][1]
<1>1. pc = "info" /\ rec' = [rec EXCEPT ![m] = Append(rec[m], Info(prog, now))]
  BY DEF WriteInfo
<1>2. now \in DOMAIN asked /\ rec[m] # NoFile /\ m \in Model /\ now \in StoreName /\ prog \in Versions
  BY <1>1 DEF TInv, Stands, Asked, Process
<1>3. rec[m] \in Seq(Record) /\ Info(prog, now) \in Record
  BY <1>2, InfoType DEF TInv, Disk
<1>4. DOMAIN rec = Model
  BY DEF TInv, Disk
<1> HIDE DEF m
<1>5. rec'[m] = Append(rec[m], Info(prog, now)) /\ \A k \in Model : k # m => rec'[k] = rec[k]
  BY <1>1, <1>2, <1>4
<1>6. rec'[m] \in Seq(Record)
  BY <1>3, <1>5
<1>7. rec'[m] # NoFile
  BY <1>6, FileAssumption
<1>8. /\ DOMAIN rec'[m] = DOMAIN rec[m] \cup {Len(rec[m]) + 1}
      /\ \A i \in DOMAIN rec[m] : rec'[m][i] = rec[m][i]
      /\ rec'[m][Len(rec[m]) + 1] = Info(prog, now)
  BY <1>3, <1>5
<1> QED BY <1>2, <1>5, <1>7, <1>8 DEF m

LEMMA SWriteInfo == TInv /\ SInv /\ WriteInfo => SInv'
<1> SUFFICES ASSUME TInv, SInv, WriteInfo PROVE SInv'
  OBVIOUS
<1> DEFINE m == asked[now][1]
           r == Info(prog, now)
<1>1. /\ status = "rprod" /\ pc = "info" /\ status' = status /\ got' = None
      /\ UNCHANGED <<asked, storeMap, tmpl, now>> /\ stored' = stored \cup {<<prog, m, now>>}
  BY DEF WriteInfo, Quiet, data
<1>2. /\ m \in Model /\ now \in DOMAIN asked /\ now \in StoreName /\ prog \in Versions
      /\ rec[m] # NoFile /\ rec'[m] # NoFile
      /\ \A k \in Model : k # m => rec'[k] = rec[k]
      /\ DOMAIN rec'[m] = DOMAIN rec[m] \cup {Len(rec[m]) + 1}
      /\ \A i \in DOMAIN rec[m] : rec'[m][i] = rec[m][i]
      /\ rec'[m][Len(rec[m]) + 1] = r
  BY Added
<1>3. tmpl[m] # "none"
  BY <1>1, <1>2 DEF SInv, Templated
<1>4. r.name = now /\ r.nmemb = StoreLen[prog][now]
  BY <1>2, InfoType
<1> HIDE DEF m, r
<1>5. Recorded'
  <2> SUFFICES ASSUME NEW x \in stored'
               PROVE  /\ x \in Versions \X Model \X StoreName
                      /\ At(x[2], Info(x[1], x[3]))' /\ tmpl'[x[2]] # "none"
    BY DEF Recorded
  <2>1. CASE x \in stored
    <3>1. /\ x \in Versions \X Model \X StoreName /\ x[2] \in Model
          /\ At(x[2], Info(x[1], x[3])) /\ tmpl[x[2]] # "none"
      BY <2>1 DEF SInv, Recorded
    <3>2. At(x[2], Info(x[1], x[3]))'
      BY <1>2, <3>1 DEF At
    <3> QED BY <1>1, <3>1, <3>2
  <2>2. CASE x = <<prog, m, now>>
    <3>1. x[1] = prog /\ x[2] = m /\ x[3] = now
      BY <2>2
    <3>2. rec'[m] # NoFile /\ \E i \in DOMAIN rec'[m] : rec'[m][i] = r
      BY <1>2
    <3>3. Info(x[1], x[3]) = r
      BY <3>1 DEF r
    <3>4. At(x[2], Info(x[1], x[3]))'
      BY <3>1, <3>2, <3>3 DEF At
    <3>5. x \in Versions \X Model \X StoreName
      BY <1>2, <2>2
    <3> QED BY <1>1, <1>3, <3>1, <3>4, <3>5
  <2> QED BY <1>1, <2>1, <2>2
<1>6. Justified'
  <2> SUFFICES ASSUME NEW k \in Model, rec'[k] # NoFile, NEW i \in DOMAIN rec'[k]
               PROVE  \E v \in Versions : /\ <<v, k, rec'[k][i].name>> \in stored'
                                          /\ rec'[k][i].nmemb = StoreLen[v][rec'[k][i].name]
    BY DEF Justified
  <2>1. CASE rec[k] # NoFile /\ i \in DOMAIN rec[k] /\ rec'[k][i] = rec[k][i]
    BY <1>1, <2>1 DEF SInv, Justified
  <2>2. CASE k = m /\ rec'[k][i] = r
    BY <1>1, <1>2, <1>4, <2>2
  <2> QED BY <1>2, <2>1, <2>2
<1>7. Templated'
  <2> SUFFICES ASSUME NEW s \in DOMAIN asked PROVE tmpl[asked[s][1]] # "none"
    BY <1>1 DEF Templated
  <2> QED BY <1>1 DEF SInv, Templated
<1>8. Sized'
  BY <1>1 DEF SInv, Sized
<1> QED BY <1>5, <1>6, <1>7, <1>8 DEF SInv

LEMMA SNN == ASSUME TInv, SInv, NEW m \in Model, NN(m) PROVE SInv'
<1>1. /\ status \in {"train", "test"} /\ status' = status /\ UNCHANGED <<disk, stored>> /\ got' = None
      /\ storeMap' = [s \in DOMAIN storeMap |->
           IF s \in Names(StoresOf[m]) /\ tmpl[Cached(m)] = "edited"
           THEN [storeMap[s] EXCEPT !.val = <<Cached(m), calls + 1>>] ELSE storeMap[s]]
  BY DEF NN, Running
<1>2. ASSUME NEW s \in DOMAIN storeMap
      PROVE  /\ storeMap'[s] = [nmemb |-> storeMap'[s].nmemb, val |-> storeMap'[s].val]
             /\ storeMap'[s].nmemb = storeMap[s].nmemb
  <2>1. storeMap[s] = [nmemb |-> storeMap[s].nmemb, val |-> storeMap[s].val]
    BY DEF SInv, Sized
  <2>2. \/ storeMap'[s] = storeMap[s]
        \/ storeMap'[s] = [storeMap[s] EXCEPT !.val = <<Cached(m), calls + 1>>]
    BY <1>1
  <2>3. CASE storeMap'[s] = storeMap[s]
    BY <2>1, <2>3
  <2>4. CASE storeMap'[s] = [storeMap[s] EXCEPT !.val = <<Cached(m), calls + 1>>]
    <3>1. storeMap'[s] = [nmemb |-> storeMap[s].nmemb, val |-> <<Cached(m), calls + 1>>]
      BY <2>1, <2>4
    <3> QED BY <3>1
  <2> QED BY <2>2, <2>3, <2>4
<1>3. DOMAIN storeMap' = DOMAIN storeMap
  BY <1>1
<1>4. Sized'
  BY <1>1, <1>2, <1>3 DEF SInv, Sized, InRecord, disk
<1>5. Templated'
  BY <1>1 DEF Templated
<1> QED BY <1>1, <1>4, <1>5, SSame

LEMMA SStore == ASSUME SInv, NEW s \in StoreName, Store(s) PROVE SInv'
<1>1. /\ status \in {"train", "test"} /\ got'.name = s /\ got'.nmemb = storeMap[s].nmemb
      /\ s \in DOMAIN storeMap
      /\ UNCHANGED <<status, pc, now, storeMap, asked, disk, stored>>
  BY DEF Store, Running, data
<1> QED BY <1>1, SProgram

LEMMA SEditTemplate == ASSUME TInv, SInv, NEW m \in Model, EditTemplate(m) PROVE SInv'
<1>1. /\ status = "off" /\ status' = status /\ got' = None /\ tmpl' = [tmpl EXCEPT ![m] = "edited"]
      /\ UNCHANGED <<storeMap, rec, stored>> /\ tmpl \in [Model -> Template]
  BY DEF EditTemplate, Quiet, TInv, Disk, data
<1>2. \A k \in Model : tmpl[k] # "none" => tmpl'[k] # "none"
  BY <1>1
<1>3. Recorded'
  <2> SUFFICES ASSUME NEW x \in stored
               PROVE  /\ x \in Versions \X Model \X StoreName
                      /\ At(x[2], Info(x[1], x[3]))' /\ tmpl'[x[2]] # "none"
    BY <1>1 DEF Recorded
  <2>1. /\ x \in Versions \X Model \X StoreName
        /\ At(x[2], Info(x[1], x[3])) /\ tmpl[x[2]] # "none"
    BY DEF SInv, Recorded
  <2>2. At(x[2], Info(x[1], x[3]))'
    BY <1>1, <2>1 DEF At
  <2>3. x[2] \in Model
    BY <2>1
  <2> QED BY <1>2, <2>1, <2>2, <2>3
<1>4. Justified' /\ Templated' /\ Sized'
  BY <1>1 DEF SInv, Justified, Templated, Sized, InRecord
<1> QED BY <1>3, <1>4 DEF SInv

LEMMA SNext == TInv /\ SInv /\ [Next]_vars => SInv'
<1> SUFFICES ASSUME TInv, SInv, [Next]_vars PROVE SInv'
  OBVIOUS
<1>1. CASE StartProduction \/ Start \/ StartAborts
  BY <1>1, SStarts
<1>2. CASE Die \/ (\E m \in Model : NNAborts(m)) \/ (\E s \in StoreName : StoreAborts(s))
  BY <1>2, SGone DEF Die, NNAborts, StoreAborts
<1>3. CASE Edit \/ (\E b \in Buf : Write(b)) \/ (\E s \in StoreName : StoreUnasked(s))
  BY <1>3, SProgram DEF Edit, Write, StoreUnasked, Quiet, data
<1>4. CASE \E l \in Simple, b \in Buf : LoadCB(l, b) \/ \E copy \in BOOLEAN : Load(l, b, copy)
  BY <1>4, SProgram DEF Load, LoadCB, Quiet
<1>5. CASE MkStore \/ \E s \in StoreName : OpenInfo(s)
  BY <1>5, SOpens
<1>6. CASE GenTemplate \/ TemplateWritten \/ WriteInfo
  BY <1>6, STemplate, SWriteInfo
<1>7. CASE \E m \in Model : EditTemplate(m) \/ MkDir(m) \/ NN(m)
  BY <1>7, SEditTemplate, SMkDir, SNN
<1>8. CASE \E s \in StoreName : Store(s)
  BY <1>8, SStore
<1>9. CASE UNCHANGED vars
  <2>1. /\ UNCHANGED <<status, pc, now, storeMap, asked, disk, stored, got>>
    BY <1>9 DEF vars, data, shown
  <2>2. Templated' /\ Sized'
    BY <2>1 DEF SInv, Templated, Sized, InRecord, disk
  <2> QED BY <2>1, <2>2, SSame
<1> QED BY <1>1, <1>2, <1>3, <1>4, <1>5, <1>6, <1>7, <1>8, <1>9 DEF Next

LEMMA Safe == Spec => [](TInv /\ SInv)
<1>1. Init => TInv /\ SInv
  BY TInit, SInit
<1>2. TInv /\ SInv /\ [Next]_vars => TInv' /\ SInv'
  BY TNext, SNext
<1> QED BY <1>1, <1>2, PTL DEF Spec

LEMMA Fits == TInv /\ SInv => StoreAsRecorded
<1> SUFFICES ASSUME TInv, SInv, got # None
             PROVE  /\ \E x \in stored : x[3] = got.name
                    /\ \A x \in stored : x[3] = got.name => got.nmemb = StoreLen[x[1]][x[3]]
  BY DEF StoreAsRecorded
<1> DEFINE s == got.name
<1>1. status \in {"train", "test"} /\ got.nmemb = storeMap[s].nmemb /\ s \in DOMAIN storeMap
  BY DEF SInv, Sized
<1> HIDE DEF s
<1>2. \E x \in stored : x[3] = s
  <2>1. PICK m \in Model : rec[m] # NoFile /\ \E i \in DOMAIN rec[m] : rec[m][i].name = s
    BY <1>1 DEF SInv, Sized, InRecord
  <2>2. PICK v \in Versions : <<v, m, s>> \in stored
    BY <2>1 DEF SInv, Justified
  <2> QED BY <2>2
<1>3. ASSUME NEW x \in stored, x[3] = s PROVE got.nmemb = StoreLen[x[1]][x[3]]
  <2>1. x \in Versions \X Model \X StoreName /\ At(x[2], Info(x[1], x[3]))
    BY DEF SInv, Recorded
  <2>2. x[1] \in Versions /\ x[2] \in Model /\ x[3] \in StoreName
    BY <2>1
  <2>3. PICK i \in DOMAIN rec[x[2]] : rec[x[2]] # NoFile /\ rec[x[2]][i] = Info(x[1], x[3])
    BY <2>1 DEF At
  <2>4. rec[x[2]][i].name = s /\ rec[x[2]][i].nmemb = StoreLen[x[1]][x[3]]
    BY <1>3, <2>2, <2>3, InfoType
  <2>5. storeMap[rec[x[2]][i].name].nmemb = rec[x[2]][i].nmemb
    BY <1>1, <2>2, <2>3 DEF SInv, Sized
  <2> QED BY <1>1, <2>4, <2>5
<1> QED BY <1>2, <1>3 DEF s

\* storeData and readStoreInfo: a store hands over as many elements as every production
\* recorded for its name, however many there were, and of whichever model and version
\* of the program; the program's own idea of that number is not asked.
THEOREM OneLength == Spec => []StoreAsRecorded
  BY Safe, Fits, PTL

LEMMA Restarts == TInv /\ SInv => Restartable
<1> SUFFICES ASSUME TInv, SInv PROVE Restartable
  OBVIOUS
<1>1. ASSUME NEW m \in Model, Whole(m), NEW s \in Names(StoresOf[m])
      PROVE  rec[m] # NoFile /\ \E i \in DOMAIN rec[m] : rec[m][i].name = s
  <2>1. PICK v \in Versions : <<v, m, s>> \in stored
    BY <1>1 DEF Whole
  <2> DEFINE x == <<v, m, s>>
  <2>2. x \in Versions \X Model \X StoreName /\ At(x[2], Info(x[1], x[3]))
    BY <2>1 DEF SInv, Recorded
  <2>3. x[1] = v /\ x[2] = m /\ x[3] = s
    OBVIOUS
  <2> HIDE DEF x
  <2>4. At(m, Info(v, s)) /\ s \in StoreName
    BY <2>2, <2>3
  <2> QED BY <2>4, InfoType DEF At
<1>2. ASSUME NEW m \in Model, Whole(m)
      PROVE  rec[m] # NoFile
  <2>1. 1 \in DOMAIN StoresOf[m]
    BY Stores
  <2>2. StoresOf[m][1] \in Names(StoresOf[m])
    BY <2>1 DEF Names
  <2> QED BY <1>1, <1>2, <2>2
<1>3. ASSUME NEW m \in Model, Whole(m), Running PROVE Found(m)
  <2> SUFFICES ASSUME NEW s \in Names(StoresOf[m]) PROVE s \in DOMAIN storeMap
    BY DEF Found
  <2>1. rec[m] # NoFile /\ \E i \in DOMAIN rec[m] : rec[m][i].name = s
    BY <1>1, <1>3
  <2> QED BY <1>3, <2>1 DEF Running, SInv, Sized
<1>4. ASSUME \A x, y \in stored : x[3] = y[3] => StoreLen[x[1]][x[3]] = StoreLen[y[1]][y[3]]
      PROVE  Agreed
  <2> SUFFICES ASSUME NEW r1 \in Records, NEW r2 \in Records, r1.name = r2.name
               PROVE  r1.nmemb = r2.nmemb
    BY DEF Agreed
  <2>1. ASSUME NEW r \in Records
        PROVE  \E y \in stored : y[3] = r.name /\ r.nmemb = StoreLen[y[1]][y[3]]
    <3>1. PICK m \in Model : rec[m] # NoFile /\ \E i \in DOMAIN rec[m] : r = rec[m][i]
      BY DEF Records, Names
    <3>2. PICK v \in Versions : <<v, m, r.name>> \in stored /\ r.nmemb = StoreLen[v][r.name]
      BY <3>1 DEF SInv, Justified
    <3> QED BY <3>2
  <2>2. PICK x \in stored : x[3] = r1.name /\ r1.nmemb = StoreLen[x[1]][x[3]]
    BY <2>1
  <2>3. PICK y \in stored : y[3] = r2.name /\ r2.nmemb = StoreLen[y[1]][y[3]]
    BY <2>1
  <2>4. StoreLen[x[1]][x[3]] = StoreLen[y[1]][y[3]]
    BY <1>4, <2>2, <2>3
  <2> QED BY <2>2, <2>3, <2>4
<1>5. ASSUME \A m \in Model : dir[m] => Whole(m) PROVE Readable
  BY <1>2, <1>5 DEF Readable
<1> QED BY <1>3, <1>4, <1>5 DEF Restartable

\* prodCreateModelDir, prodWriteStoreInfo, readStoreInfo: where productions died between
\* two accesses to the disk, later ones that go through the models make good what is
\* missing of the records, so that a run starts and a model finds its stores. Nothing
\* is said of the modules: one left empty by a death in genRModelTemplate stays so.
THEOREM RecordsMadeGood == Spec => []Restartable
  BY Safe, Restarts, PTL

-------------------------------------------------------------------------------
(* Answers *)

\* A run's stores hold what was answered last, to the model asked last.
AInv ==
  /\ status \in {"train", "test"} => \A s \in DOMAIN asked :
       s \in DOMAIN storeMap /\ (tmpl[asked[s][1]] = "edited" => storeMap[s].val = asked[s])
  /\ got # None => /\ status \in {"train", "test"} /\ got.name \in DOMAIN storeMap
                   /\ got.val = storeMap[got.name].val

LEMMA ANew == ASSUME New, status' \in {"off", "rprod", "train", "test"} PROVE AInv'
<1>1. DOMAIN asked' = {}
  BY DEF New
<1> QED BY <1>1 DEF New, Quiet, AInv

\* Steps with no answer, and the store that takes one.
LEMMA ASame ==
  ASSUME AInv, UNCHANGED <<status, asked, storeMap, tmpl>>,
         \/ got' \in {None, got}
         \/ /\ status \in {"train", "test"} /\ got'.name \in DOMAIN storeMap
            /\ got'.val = storeMap[got'.name].val
  PROVE  AInv'
  BY DEF AInv

LEMMA ANN ==
  ASSUME TInv, SInv, AInv, NEW m \in Model, NN(m)
  PROVE  AInv'
<1>1. /\ status \in {"train", "test"} /\ UNCHANGED <<status, tmpl>> /\ got' = None
      /\ Asks(m) /\ Found(m)
      /\ storeMap' = [s \in DOMAIN storeMap |->
           IF s \in Names(StoresOf[m]) /\ tmpl[Cached(m)] = "edited"
           THEN [storeMap[s] EXCEPT !.val = <<Cached(m), calls + 1>>] ELSE storeMap[s]]
  BY DEF NN, Running, disk
<1>2. ASSUME NEW s \in DOMAIN asked'
      PROVE  /\ s \in DOMAIN storeMap'
             /\ tmpl[asked'[s][1]] = "edited" => storeMap'[s].val = asked'[s]
  <2>1. CASE s \in Names(StoresOf[m])
    <3>1. asked'[s] = <<m, calls + 1>>
      BY <1>1, <2>1, AskedFacts
    <3>2. asked'[s][1] = m
      BY <3>1
    <3>3. s \in DOMAIN storeMap /\ s \in DOMAIN storeMap'
      BY <1>1, <2>1 DEF Found
    <3>4. ASSUME tmpl[m] = "edited" PROVE storeMap'[s].val = asked'[s]
      <4>1. Cached(m) = m
        BY <3>4 DEF Cached
      <4>2. storeMap'[s] = [storeMap[s] EXCEPT !.val = <<m, calls + 1>>]
        BY <1>1, <2>1, <3>3, <3>4, <4>1
      <4>3. storeMap[s] = [nmemb |-> storeMap[s].nmemb, val |-> storeMap[s].val]
        BY <3>3 DEF SInv, Sized
      <4>4. storeMap'[s] = [nmemb |-> storeMap[s].nmemb, val |-> <<m, calls + 1>>]
        BY <4>2, <4>3
      <4> QED BY <3>1, <4>4
    <3> QED BY <3>2, <3>3, <3>4
  <2>2. CASE s \notin Names(StoresOf[m])
    <3>1. s \in DOMAIN asked /\ asked'[s] = asked[s]
      BY <1>1, <2>2, AskedFacts
    <3>2. s \in DOMAIN storeMap /\ (tmpl[asked[s][1]] = "edited" => storeMap[s].val = asked[s])
      BY <1>1, <3>1 DEF AInv
    <3>3. s \in DOMAIN storeMap' /\ storeMap'[s] = storeMap[s]
      BY <1>1, <2>2, <3>2
    <3> QED BY <3>1, <3>2, <3>3
  <2> QED BY <2>1, <2>2
<1> QED BY <1>1, <1>2 DEF AInv

LEMMA ANext == TInv /\ SInv /\ AInv /\ [Next]_vars => AInv'
<1> SUFFICES ASSUME TInv, SInv, AInv, [Next]_vars PROVE AInv'
  OBVIOUS
<1>1. CASE \/ StartProduction \/ Start \/ Die \/ (\E m \in Model : NNAborts(m))
           \/ \E s \in StoreName : StoreAborts(s)
  <2>1. New /\ status' \in {"off", "rprod", "train", "test"}
    BY <1>1 DEF StartProduction, Start, Die, NNAborts, StoreAborts, Gone
  <2> QED BY <2>1, ANew
<1>2. CASE StartAborts \/ Edit \/ MkStore \/ WriteInfo \/ \E b \in Buf : Write(b)
  BY <1>2, ASame DEF StartAborts, Edit, MkStore, WriteInfo, Write, Quiet, data, disk
<1>3. CASE \/ \E l \in Simple, b \in Buf : LoadCB(l, b) \/ \E copy \in BOOLEAN : Load(l, b, copy)
           \/ \E s \in StoreName : StoreUnasked(s) \/ OpenInfo(s)
  BY <1>3, ASame DEF Load, LoadCB, StoreUnasked, OpenInfo, Quiet, data, disk
<1>4. CASE GenTemplate \/ TemplateWritten \/ \E m \in Model : MkDir(m) \/ EditTemplate(m)
  <2>1. status' \in {"off", "rprod"} /\ got' = None
    BY <1>4 DEF GenTemplate, TemplateWritten, MkDir, EditTemplate, Quiet
  <2> QED BY <2>1 DEF AInv
<1>5. CASE \E m \in Model : NN(m)
  BY <1>5, ANN
<1>6. ASSUME NEW s \in StoreName, Store(s) PROVE AInv'
  <2>1. /\ status \in {"train", "test"} /\ s \in DOMAIN storeMap
        /\ got'.name = s /\ got'.val = storeMap[s].val
        /\ UNCHANGED <<status, asked, storeMap, tmpl>>
    BY <1>6 DEF Store, Running, data, disk
  <2> QED BY <2>1, ASame
<1>7. CASE UNCHANGED vars
  BY <1>7, ASame DEF vars, data, disk, shown
<1> QED BY <1>1, <1>2, <1>3, <1>4, <1>5, <1>6, <1>7 DEF Next

\* PyContext::test, runModel and storeData: the program gets, out of every store it asked
\* a model for, what the model it asked last answered to that call, if that model's
\* module writes its answers into the stores it is given.
THEOREM AnswersArrive == Spec => []Answered
<1>1. Init => AInv
  BY DEF Init, AInv
<1>2. TInv /\ SInv /\ AInv /\ [Next]_vars => AInv'
  BY ANext
<1>3. AInv => Answered
  BY DEF AInv, Answered
<1> QED BY <1>1, <1>2, <1>3, Safe, PTL DEF Spec

-------------------------------------------------------------------------------
(* Loads, of names that are loaded in one way *)

Unmixed == \A l \in Simple : "alias" \in How[l] => How[l] = {"alias"}

IsContext(c) == \E x, y, z : c = [copy |-> x, val |-> y, at |-> z]

\* A DataContext, with one field changed.
LEMMA Fields ==
  ASSUME NEW c, NEW w, IsContext(c)
  PROVE  /\ IsContext([c EXCEPT !.val = w]) /\ IsContext([c EXCEPT !.at = w])
         /\ [c EXCEPT !.val = w].copy = c.copy /\ [c EXCEPT !.val = w].val = w
         /\ [c EXCEPT !.at = w].copy = c.copy /\ [c EXCEPT !.at = w].at = w
<1>1. PICK x, y, z : c = [copy |-> x, val |-> y, at |-> z]
  BY DEF IsContext
<1>2. [c EXCEPT !.val = w] = [copy |-> x, val |-> w, at |-> z]
  BY <1>1
<1>3. [c EXCEPT !.at = w] = [copy |-> x, val |-> y, at |-> w]
  BY <1>1
<1>4. IsContext([c EXCEPT !.val = w]) /\ IsContext([c EXCEPT !.at = w])
  BY <1>2, <1>3 DEF IsContext
<1> QED BY <1>1, <1>2, <1>3, <1>4

\* The DataContext of a name is as its last load left it.
LInv ==
  \A l \in Simple : l \in DOMAIN loadMap =>
    /\ IsContext(loadMap[l]) /\ loadMap[l].copy = ("alias" \notin How[l])
    /\ l \in DOMAIN last /\ last[l].copy = loadMap[l].copy
    /\ IF loadMap[l].copy THEN last[l].val = loadMap[l].val ELSE last[l].at = loadMap[l].at

\* Steps that load nothing.
LEMMA LSame ==
  ASSUME LInv, SeesLoads, UNCHANGED <<loadMap, last>>,
         seen' = None \/ UNCHANGED <<seen, mem>>
  PROVE  LInv' /\ SeesLoads'
<1>1. LInv'
  BY DEF LInv
<1>2. CASE seen' = None
  BY <1>1, <1>2 DEF SeesLoads
<1>3. CASE UNCHANGED <<seen, mem>>
  <2>1. \A l : Given(l)' = Given(l)
    BY <1>3 DEF Given
  <2> QED BY <1>1, <1>3, <2>1, Zenon DEF SeesLoads
<1> QED BY <1>1, <1>2, <1>3

\* A load changes the DataContext of its name only.
LEMMA LPut ==
  ASSUME LInv, NEW l \in Simple, NEW c, NEW d, seen' = None,
         loadMap' = Put(loadMap, l, c), last' = Put(last, l, d),
         IsContext(c), c.copy = ("alias" \notin How[l]), d.copy = c.copy,
         IF c.copy THEN d.val = c.val ELSE d.at = c.at
  PROVE  LInv' /\ SeesLoads'
<1>1. DOMAIN loadMap' = DOMAIN loadMap \cup {l} /\ loadMap'[l] = c
      /\ \A k \in DOMAIN loadMap : k # l => loadMap'[k] = loadMap[k]
  BY DEF Put
<1>2. DOMAIN last' = DOMAIN last \cup {l} /\ last'[l] = d
      /\ \A k \in DOMAIN last : k # l => last'[k] = last[k]
  BY DEF Put
<1>3. ASSUME NEW k \in Simple, k \in DOMAIN loadMap'
      PROVE  /\ IsContext(loadMap'[k]) /\ loadMap'[k].copy = ("alias" \notin How[k])
             /\ k \in DOMAIN last' /\ last'[k].copy = loadMap'[k].copy
             /\ IF loadMap'[k].copy THEN last'[k].val = loadMap'[k].val ELSE last'[k].at = loadMap'[k].at
  <2>1. CASE k = l
    BY <1>1, <1>2, <2>1
  <2>2. CASE k # l
    <3>1. k \in DOMAIN loadMap /\ loadMap'[k] = loadMap[k]
      BY <1>1, <1>3, <2>2
    <3>2. k \in DOMAIN last
      BY <3>1 DEF LInv
    <3>3. k \in DOMAIN last' /\ last'[k] = last[k]
      BY <1>2, <2>2, <3>2
    <3> QED BY <3>1, <3>3 DEF LInv
  <2> QED BY <2>1, <2>2
<1>4. LInv'
  BY <1>3 DEF LInv
<1> QED BY <1>4 DEF SeesLoads

\* The DataContext that a load finds or makes.
LEMMA ContextFacts ==
  ASSUME LInv, NEW l \in Simple, NEW copy \in BOOLEAN, copy = ("alias" \notin How[l])
  PROVE  IsContext(Context(l, copy)) /\ Context(l, copy).copy = copy
<1>1. CASE l \in DOMAIN loadMap
  <2>1. IsContext(loadMap[l]) /\ loadMap[l].copy = copy
    BY <1>1, Zenon DEF LInv
  <2> QED BY <1>1, <2>1, Zenon DEF Context
<1>2. CASE l \notin DOMAIN loadMap
  BY <1>2, Zenon DEF Context, IsContext
<1> QED BY <1>1, <1>2

LEMMA LLoad ==
  ASSUME Unmixed, LInv, NEW l \in Simple, NEW b \in Buf, NEW copy \in BOOLEAN, Load(l, b, copy)
  PROVE  LInv' /\ SeesLoads'
<1> DEFINE c == Context(l, copy)
           d == [copy |-> copy, val |-> mem[b], at |-> b]
<1>1. copy = ("alias" \notin How[l])
  BY DEF Load, Unmixed
<1>2. IsContext(c) /\ c.copy = copy
  BY <1>1, ContextFacts
<1>3. /\ loadMap' = Put(loadMap, l, IF c.copy THEN [c EXCEPT !.val = mem[b]] ELSE [c EXCEPT !.at = b])
      /\ last' = Put(last, l, d) /\ seen' = None
  BY Zenon DEF Load, Quiet
<1>4. d.copy = copy /\ d.val = mem[b] /\ d.at = b
  OBVIOUS
<1> HIDE DEF c, d
<1>5. CASE copy
  <2> DEFINE e == [c EXCEPT !.val = mem[b]]
  <2>1. loadMap' = Put(loadMap, l, e)
    BY <1>2, <1>3, <1>5, Zenon
  <2>2. IsContext(e) /\ e.copy = c.copy /\ e.val = mem[b]
    BY <1>2, Fields, Zenon
  <2> HIDE DEF e
  <2> QED BY <1>1, <1>2, <1>3, <1>4, <1>5, <2>1, <2>2, LPut
<1>6. CASE ~ copy
  <2> DEFINE e == [c EXCEPT !.at = b]
  <2>1. loadMap' = Put(loadMap, l, e)
    BY <1>2, <1>3, <1>6, Zenon
  <2>2. IsContext(e) /\ e.copy = c.copy /\ e.at = b
    BY <1>2, Fields, Zenon
  <2> HIDE DEF e
  <2> QED BY <1>1, <1>2, <1>3, <1>4, <1>6, <2>1, <2>2, LPut
<1> QED BY <1>5, <1>6

LEMMA LLoadCB ==
  ASSUME Unmixed, LInv, NEW l \in Simple, NEW b \in Buf, LoadCB(l, b)
  PROVE  LInv' /\ SeesLoads'
<1> DEFINE c == Context(l, TRUE)
           d == [copy |-> TRUE, val |-> mem[b], at |-> b]
           e == [c EXCEPT !.val = mem[b]]
<1>1. TRUE = ("alias" \notin How[l])
  BY DEF LoadCB, Unmixed
<1>2. IsContext(c) /\ c.copy = TRUE
  BY <1>1, ContextFacts
<1>3. loadMap' = Put(loadMap, l, e) /\ last' = Put(last, l, d) /\ seen' = None
  BY <1>2, Zenon DEF LoadCB, Quiet
<1>4. d.copy = TRUE /\ d.val = mem[b]
  OBVIOUS
<1> HIDE DEF c, d
<1>5. IsContext(e) /\ e.copy = c.copy /\ e.val = mem[b]
  BY <1>2, Fields, Zenon
<1> HIDE DEF e
<1> QED BY <1>1, <1>2, <1>3, <1>4, <1>5, LPut

\* What combineLoad leaves of simple names, and makes of combined ones.
LEMMA CombinedFacts ==
  ASSUME NEW m \in Model, Loaded(m), loadMap' = Combined(m)
  PROVE  /\ \A l \in Simple : l \in DOMAIN loadMap' <=> l \in DOMAIN loadMap
         /\ \A l \in Simple : l \in DOMAIN loadMap => loadMap'[l] = loadMap[l]
         /\ \A l \in Names(LoadsOf[m]) \ Simple :
              loadMap'[l] = [copy |-> TRUE, at |-> 0,
                             val |-> [i \in DOMAIN Parts[l] |-> Held(Parts[l][i])]]
  BY DEF Combined

LEMMA PartsSimple ==
  ASSUME NEW m \in Model, NEW l \in Names(LoadsOf[m])
  PROVE  /\ l \in LoadName /\ Names(Parts[l]) \subseteq Simple
         /\ l \in Simple => l \in Names(Parts[l])
<1>1. l \in LoadName /\ Names(Parts[l]) \subseteq Simple
  BY ConstAssumption
<1>2. ASSUME l \in Simple PROVE l \in Names(Parts[l])
  <2>1. Parts[l] = <<l>>
    BY <1>2 DEF Simple
  <2> QED BY <2>1 DEF Names
<1> QED BY <1>1, <1>2

LEMMA LNN ==
  ASSUME LInv, NEW m \in Model, NN(m)
  PROVE  LInv' /\ SeesLoads'
<1>1. /\ Loaded(m) /\ loadMap' = Combined(m) /\ UNCHANGED <<mem, last>>
      /\ seen' = [model |-> m,
              args |-> [i \in DOMAIN LoadsOf[m] |->
                 IF loadMap'[LoadsOf[m][i]].copy THEN loadMap'[LoadsOf[m][i]].val
                 ELSE mem[loadMap'[LoadsOf[m][i]].at]]]
  BY DEF NN, Asks
<1>2. LInv'
  BY <1>1, CombinedFacts DEF LInv
<1>3. \A p \in Simple : p \in DOMAIN loadMap => Held(p) = Given(p)
  BY DEF LInv, Held, Given
<1>4. ASSUME NEW i \in DOMAIN LoadsOf[m]
      PROVE  LET l == LoadsOf[m][i]
             IN  seen'.args[i] = IF l \in Simple THEN Given(l)
                                 ELSE [j \in DOMAIN Parts[l] |-> Given(Parts[l][j])]
  <2> DEFINE l == LoadsOf[m][i]
  <2>1. l \in Names(LoadsOf[m])
    BY DEF Names
  <2>2. seen'.args[i] = IF loadMap'[l].copy THEN loadMap'[l].val ELSE mem[loadMap'[l].at]
    BY <1>1
  <2> HIDE DEF l
  <2>3. Names(Parts[l]) \subseteq DOMAIN loadMap /\ Names(Parts[l]) \subseteq Simple
    BY <1>1, <2>1, PartsSimple DEF Loaded
  <2>4. CASE l \in Simple
    <3>1. l \in DOMAIN loadMap
      BY <2>1, <2>3, <2>4, PartsSimple
    <3>2. loadMap'[l] = loadMap[l]
      BY <1>1, <2>4, <3>1, CombinedFacts
    <3>3. seen'.args[i] = Held(l)
      BY <2>2, <3>2 DEF Held
    <3> QED BY <1>3, <2>4, <3>1, <3>3 DEF l
  <2>5. CASE l \notin Simple
    <3>1. loadMap'[l] = [copy |-> TRUE, at |-> 0,
                         val |-> [j \in DOMAIN Parts[l] |-> Held(Parts[l][j])]]
      BY <1>1, <2>1, <2>5, CombinedFacts
    <3>2. seen'.args[i] = [j \in DOMAIN Parts[l] |-> Held(Parts[l][j])]
      BY <2>2, <3>1
    <3>3. \A j \in DOMAIN Parts[l] : Held(Parts[l][j]) = Given(Parts[l][j])
      BY <1>3, <2>3 DEF Names
    <3>4. [j \in DOMAIN Parts[l] |-> Held(Parts[l][j])] = [j \in DOMAIN Parts[l] |-> Given(Parts[l][j])]
      BY <3>3
    <3> QED BY <2>5, <3>2, <3>4 DEF l
  <2> QED BY <2>4, <2>5 DEF l
<1>5. seen'.model = m /\ DOMAIN seen'.args = DOMAIN LoadsOf[m]
  BY <1>1
<1>6. last' = last /\ mem' = mem
  BY <1>1
<1>7. ASSUME NEW i \in DOMAIN seen'.args
      PROVE  LET l == LoadsOf[seen'.model][i]
                 given(p) == IF last'[p].copy THEN last'[p].val ELSE mem'[last'[p].at]
             IN  seen'.args[i] = IF l \in Simple THEN given(l)
                                 ELSE [j \in DOMAIN Parts[l] |-> given(Parts[l][j])]
  <2> DEFINE l == LoadsOf[m][i]
  <2>1. LoadsOf[seen'.model][i] = l
    BY <1>5
  <2>2. seen'.args[i] = IF l \in Simple THEN Given(l) ELSE [j \in DOMAIN Parts[l] |-> Given(Parts[l][j])]
    BY <1>4, <1>5
  <2> HIDE DEF l
  <2>3. seen'.args[i] = IF l \in Simple THEN (IF last'[l].copy THEN last'[l].val ELSE mem'[last'[l].at])
                        ELSE [j \in DOMAIN Parts[l] |-> IF last'[Parts[l][j]].copy THEN last'[Parts[l][j]].val
                                                       ELSE mem'[last'[Parts[l][j]].at]]
    BY <1>6, <2>2 DEF Given
  <2> QED BY <2>1, <2>3, Zenon
<1>8. SeesLoads'
  BY <1>7, Zenon DEF SeesLoads, Given
<1> QED BY <1>2, <1>8

LEMMA LNext == ASSUME Unmixed PROVE LInv /\ SeesLoads /\ [Next]_vars => LInv' /\ SeesLoads'
<1> SUFFICES ASSUME LInv, SeesLoads, [Next]_vars PROVE LInv' /\ SeesLoads'
  OBVIOUS
<1>1. CASE \/ StartProduction \/ Start \/ Die \/ (\E m \in Model : NNAborts(m))
           \/ \E s \in StoreName : StoreAborts(s)
  <2>1. New
    BY <1>1 DEF StartProduction, Start, Die, NNAborts, StoreAborts, Gone
  <2>2. DOMAIN loadMap' = {} /\ seen' = None
    BY <2>1 DEF New, Quiet
  <2> QED BY <2>2 DEF LInv, SeesLoads
<1>2. CASE \/ StartAborts \/ Edit \/ MkStore \/ GenTemplate \/ TemplateWritten \/ WriteInfo
           \/ (\E b \in Buf : Write(b)) \/ (\E m \in Model : EditTemplate(m))
  BY <1>2, LSame DEF StartAborts, Edit, EditTemplate, MkStore, GenTemplate, TemplateWritten, WriteInfo,
     Write, Quiet, data
<1>3. CASE \E s \in StoreName : StoreUnasked(s) \/ OpenInfo(s) \/ Store(s)
  BY <1>3, LSame DEF StoreUnasked, OpenInfo, Store, Quiet, data
<1>4. CASE \E l \in Simple, b \in Buf : LoadCB(l, b) \/ \E copy \in BOOLEAN : Load(l, b, copy)
  BY <1>4, LLoad, LLoadCB
<1>5. ASSUME NEW m \in Model, MkDir(m) PROVE LInv' /\ SeesLoads'
  <2>1. Loaded(m) /\ loadMap' = Combined(m) /\ last' = last /\ seen' = None
    BY <1>5 DEF MkDir, Asks, Quiet
  <2>2. LInv'
    BY <2>1, CombinedFacts DEF LInv
  <2> QED BY <2>1, <2>2 DEF SeesLoads
<1>6. CASE \E m \in Model : NN(m)
  BY <1>6, LNN
<1>7. CASE UNCHANGED vars
  BY <1>7, LSame DEF vars, data, shown
<1> QED BY <1>1, <1>2, <1>3, <1>4, <1>5, <1>6, <1>7 DEF Next

\* Python sees the program's last loads, where no name is loaded both as a copy and as
\* the variable itself.
THEOREM LoadsArrive == ASSUME Unmixed PROVE Spec => []SeesLoads
<1>1. Init => LInv /\ SeesLoads
  BY DEF Init, LInv, SeesLoads
<1>2. LInv /\ SeesLoads /\ [Next]_vars => LInv' /\ SeesLoads'
  BY LNext
<1> QED BY <1>1, <1>2, PTL DEF Spec
===============================================================================
