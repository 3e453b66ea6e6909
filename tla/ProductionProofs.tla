--------------------------- MODULE ProductionProofs ---------------------------
(***************************************************************************)
(* Proofs about a production run: its types, the separation of the two     *)
(* phases, the completeness of the data files and what happens to the      *)
(* record, for any number of lines, any size of batch, any program, any    *)
(* order of the children and any tree found.                               *)
(***************************************************************************)
EXTENDS Production, FiniteSetTheorems, SequenceTheorems, TLAPS

\* Where a child is in its program, which its program counter says only in part.
ShapeOf(r) ==
  /\ r.pc \in {"off", "mkdir", "subdirs", "create", "load", "py"} => r.k = 0
  /\ r.pc = "info" => r.k > 0
  /\ r.round > Rounds => r.k = 0 /\ r.pc \in {"main", "exit", "abort", "reaped"}
  /\ r.pc = "exit" => r.round > Rounds

Shape == \A c \in Kids : ShapeOf(kid[c])

TInv == TypeOK /\ Shape

-------------------------------------------------------------------------------
(* Types *)

LEMMA Constants ==
  /\ Len(Loads) \in Nat \ {0} /\ Len(Outs) \in Nat \ {0}
  /\ \A j \in 1 .. Len(Loads) : Loads[j] \in Names(Loads)
  /\ \A j \in 1 .. Len(Outs) : Outs[j] \in Names(Outs)
  /\ Names(Loads) \subseteq STRING /\ Names(Outs) \subseteq STRING
  /\ Places \subseteq {Model} \cup Names(Loads)
  /\ \A p \in Places : LoadAt(p) \in Names(Loads)
  BY ConstAssumption DEF Names, Places, LoadAt

LEMMA ValuesType == \A n \in Nat : [i \in 1 .. n |-> i] \in Seq(Nat)
  OBVIOUS

LEMMA LoadType == \A p \in Places : LoadRecord(LoadAt(p)) \in Record
<1> SUFFICES ASSUME NEW p \in Places PROVE LoadRecord(LoadAt(p)) \in Record
  OBVIOUS
<1> DEFINE l == LoadAt(p)
<1>1. l \in Names(Loads) /\ l \in STRING /\ Size[l] \in Nat
  BY Constants, ConstAssumption
<1>2. Values(l) \in Seq(Nat)
  BY <1>1, ValuesType DEF Values
<1> QED BY <1>1, <1>2 DEF LoadRecord, Record

LEMMA StoreType == \A s \in Names(Outs) : StoreRecord(s) \in Record
<1> SUFFICES ASSUME NEW s \in Names(Outs) PROVE StoreRecord(s) \in Record
  OBVIOUS
<1>1. s \in STRING /\ Size[s] \in Nat
  BY Constants, ConstAssumption
<1>2. Values(s) \in Seq(Nat)
  BY <1>1, ValuesType DEF Values
<1>3. <<1>> \o Values(s) \in Seq(Nat)
  BY <1>2
<1> QED BY <1>1, <1>2, <1>3 DEF StoreRecord, Record

LEMMA InfoType == \A s \in Names(Outs) : StoreInfo(s) \in Info
  BY Constants, ConstAssumption DEF StoreInfo, Info

LEMMA DataFileType == \A p \in Places : DataFile(p) \in Seq(Record)
<1> SUFFICES ASSUME NEW p \in Places PROVE DataFile(p) \in Seq(Record)
  OBVIOUS
<1> DEFINE n == 1 + Len(Outs)
           e(j) == IF j = 1 THEN LoadRecord(LoadAt(p)) ELSE StoreRecord(Outs[j - 1])
<1>1. n \in Nat
  BY Constants
<1>2. ASSUME NEW j \in 1 .. n PROVE e(j) \in Record
  <2>1. CASE j = 1
    BY <2>1, LoadType
  <2>2. CASE j # 1
    <3>1. Outs[j - 1] \in Names(Outs)
      BY <2>2, Constants
    <3> QED BY <2>2, <3>1, StoreType
  <2> QED BY <2>1, <2>2
<1>3. DataFile(p) = [j \in 1 .. n |-> e(j)]
  BY DEF DataFile
<1> HIDE DEF n, e
<1> QED BY <1>1, <1>2, <1>3

LEMMA InitTypes == Init => TInv
<1> SUFFICES ASSUME Init PROVE TInv
  OBVIOUS
<1>1. kid \in [Kids -> [pc : KidPC, round : 1 .. (Rounds + 1), k : 0 .. Len(Outs)]]
  BY Constants, ConstAssumption DEF Init, Idle, KidPC
<1>2. found \in Tree
  BY ConstAssumption DEF Init
<1>3. /\ files \in [Places \X Line -> Seq(Record)] /\ store \in Seq(Info) \cup {NoFile}
      /\ dirs \subseteq {Model} \cup Names(Loads)
      /\ templates \subseteq {Model} \cup Names(Loads)
  BY <1>2 DEF Init, Tree
<1>4. Shape
  BY ConstAssumption DEF Init, Idle, Shape, ShapeOf
<1>5. written \in Seq(Info)
  BY DEF Init
<1> QED
  BY <1>1, <1>3, <1>4, <1>5, Constants, ConstAssumption DEF Init, TInv, TypeOK, Num

\* A child's step changes its own record only, to one of the right type.
LEMMA NextCallType ==
  ASSUME NEW r \in [pc : KidPC, round : 1 .. (Rounds + 1), k : 0 .. Len(Outs)],
         ShapeOf(r), r.pc \in {"py", "info", "load"} \/ r.k > 0
  PROVE  /\ NextCall(r) \in [pc : KidPC, round : 1 .. (Rounds + 1), k : 0 .. Len(Outs)]
         /\ ShapeOf(NextCall(r))
<1>1. r.round <= Rounds
  BY ConstAssumption DEF ShapeOf
<1>2. CASE r.k = Len(Outs)
  BY <1>1, <1>2, Constants, ConstAssumption DEF NextCall, ShapeOf, KidPC
<1>3. CASE r.k # Len(Outs)
  BY <1>1, <1>3, Constants, ConstAssumption DEF NextCall, ShapeOf, KidPC
<1> QED BY <1>2, <1>3

LEMMA KidTypes ==
  ASSUME TInv, NEW c \in Kids, KidStep(c) \/ Die(c)
  PROVE  TInv'
<1> DEFINE R == [pc : KidPC, round : 1 .. (Rounds + 1), k : 0 .. Len(Outs)]
<1>1. kid \in [Kids -> R] /\ kid[c] \in R /\ ShapeOf(kid[c]) /\ Shape
  BY DEF TInv, TypeOK, Shape
<1>0. Rounds \in Nat /\ Len(Outs) \in Nat \ {0}
  BY Constants, ConstAssumption
<1>2. files \in [Places \X Line -> Seq(Record)] /\ store \in Seq(Info) \cup {NoFile}
  BY DEF TInv, TypeOK
<1>3. /\ phase \in {"train", "valid", "done", "abort"} /\ ppc \in {"fork", "wait"}
      /\ it \in Nat /\ forked \in 0 .. Batch
      /\ phase \in {"train", "valid"} => it <= Num[phase]
      /\ dirs \subseteq {Model} \cup Names(Loads)
      /\ templates \subseteq {Model} \cup Names(Loads)
      /\ found \in Trees /\ written \in Seq(Info)
  BY DEF TInv, TypeOK
<1>4. UNCHANGED parent /\ UNCHANGED found
  BY DEF KidStep, Die, TestDir, Mkdir, Subdirs, CreateStore, WriteLoad, GenTemplate,
         WriteStore, WriteInfo, Exit, tree, hist
\* It is enough that the child goes on to a record of the right type and shape.
<1> DEFINE Good(r) == r \in R /\ ShapeOf(r)
<1>5. ASSUME NEW r, Good(r), kid' = [kid EXCEPT ![c] = r],
             dirs' \subseteq {Model} \cup Names(Loads),
             templates' \subseteq {Model} \cup Names(Loads),
             store' \in Seq(Info) \cup {NoFile},
             files' \in [Places \X Line -> Seq(Record)],
             written' \in Seq(Info)
      PROVE  TInv'
  <2>1. kid' \in [Kids -> R] /\ Shape'
    BY <1>1, <1>5 DEF Shape
  <2> QED BY <2>1, <1>3, <1>4, <1>5 DEF TInv, TypeOK, parent
<1>6. ASSUME NEW pc \in KidPC
      PROVE  LET r == [kid[c] EXCEPT !.pc = pc]
             IN  r \in R /\ r.pc = pc /\ r.round = kid[c].round /\ r.k = kid[c].k
  BY <1>1
<1>7. ASSUME NEW pc \in KidPC, Goes(c, pc)
      PROVE  kid' = [kid EXCEPT ![c] = [kid[c] EXCEPT !.pc = pc]]
  BY <1>1, <1>7 DEF Goes
<1>8. CASE TestDir(c)
  <2>1. PICK pc \in {"load", "mkdir"} : Goes(c, pc)
    BY <1>8 DEF TestDir
  <2>2. kid[c].k = 0 /\ ~ kid[c].round > Rounds
    BY <1>0, <1>1, <1>8 DEF TestDir
  <2>3. Good([kid[c] EXCEPT !.pc = pc])
    BY <1>0, <1>1, <1>6, <2>2 DEF ShapeOf, KidPC
  <2> QED BY <1>8, <2>1, <2>3, <1>2, <1>3, <1>5, <1>7 DEF TestDir, tree, hist, KidPC
<1>9. CASE Mkdir(c)
  <2>1. PICK pc \in {"subdirs", "create"} : Goes(c, pc)
    BY <1>9 DEF Mkdir
  <2>2. kid[c].k = 0 /\ ~ kid[c].round > Rounds
    BY <1>1, <1>9 DEF Mkdir, ShapeOf
  <2>3. Good([kid[c] EXCEPT !.pc = pc])
    BY <1>0, <1>1, <1>6, <2>2 DEF ShapeOf, KidPC
  <2> QED BY <1>9, <2>1, <2>3, <1>2, <1>3, <1>5, <1>7 DEF Mkdir, hist, KidPC
<1>10. CASE Subdirs(c)
  <2>1. Good([kid[c] EXCEPT !.pc = "create"])
    BY <1>1, <1>6, <1>10, ConstAssumption DEF Subdirs, ShapeOf, KidPC
  <2> QED BY <1>10, <2>1, <1>2, <1>3, <1>5, <1>7, Constants DEF Subdirs, hist, KidPC
<1>11. CASE CreateStore(c)
  <2>1. Good([kid[c] EXCEPT !.pc = "load"])
    BY <1>1, <1>6, <1>11, ConstAssumption DEF CreateStore, ShapeOf, KidPC
  <2>2. <<>> \in Seq(Info)
    OBVIOUS
  <2> QED BY <1>11, <2>1, <2>2, <1>2, <1>3, <1>5, <1>7 DEF CreateStore, hist, KidPC
<1>12. CASE WriteLoad(c)
  <2>1. files' \in [Places \X Line -> Seq(Record)]
    <3>1. \A x \in Places \X Line : <<LoadRecord(LoadAt(x[1]))>> \in Seq(Record)
      BY LoadType
    <3>2. CASE Places \subseteq dirs
      <4>1. files' = [x \in Places \X Line |->
                       IF x[2] = c THEN <<LoadRecord(LoadAt(x[1]))>> ELSE files[x]]
        BY <1>12, <1>2, <3>2 DEF WriteLoad
      <4> QED BY <4>1, <3>1, <1>2
    <3>3. CASE ~ Places \subseteq dirs
      BY <1>12, <1>2, <3>3 DEF WriteLoad
    <3> QED BY <3>2, <3>3
  <2>2. \E r : Good(r) /\ kid' = [kid EXCEPT ![c] = r]
    <3>0. kid[c].k = 0 /\ ~ kid[c].round > Rounds
      BY <1>1, <1>12 DEF WriteLoad, ShapeOf
    <3>1. ASSUME NEW pc \in {"py", "abort"} PROVE Good([kid[c] EXCEPT !.pc = pc])
      BY <1>0, <1>1, <1>6, <3>0 DEF ShapeOf, KidPC
    <3>2. Good(NextCall(kid[c]))
      BY <1>1, <1>12, NextCallType DEF WriteLoad
    <3> QED BY <1>12, <1>7, <3>1, <3>2 DEF WriteLoad, Advance, KidPC
  <2> QED BY <1>12, <2>1, <2>2, <1>2, <1>3, <1>5 DEF WriteLoad, hist
<1>13. CASE GenTemplate(c)
  <2>1. Good(NextCall(kid[c])) /\ kid' = [kid EXCEPT ![c] = NextCall(kid[c])]
    BY <1>1, <1>13, NextCallType DEF GenTemplate, Advance
  <2> QED BY <1>13, <2>1, <1>2, <1>3, <1>5 DEF GenTemplate, hist
<1>14. CASE WriteStore(c)
  <2>1. StoreRecord(Outs[kid[c].k]) \in Record
    BY <1>1, <1>14, Constants, StoreType DEF WriteStore
  <2>2. files' \in [Places \X Line -> Seq(Record)]
    BY <1>14, <1>2, <2>1 DEF WriteStore
  <2>3. \E r : Good(r) /\ kid' = [kid EXCEPT ![c] = r]
    <3>1. Good([kid[c] EXCEPT !.pc = "info"])
      BY <1>1, <1>6, <1>14, ConstAssumption DEF WriteStore, ShapeOf, KidPC
    <3>2. Good(NextCall(kid[c]))
      BY <1>1, <1>14, NextCallType DEF WriteStore
    <3> QED BY <1>14, <1>7, <3>1, <3>2 DEF WriteStore, Advance, KidPC
  <2> QED BY <1>14, <2>2, <2>3, <1>2, <1>3, <1>5 DEF WriteStore, hist
<1>15. CASE WriteInfo(c)
  <2>1. Good(NextCall(kid[c])) /\ kid' = [kid EXCEPT ![c] = NextCall(kid[c])]
    BY <1>1, <1>15, NextCallType DEF WriteInfo, Advance
  <2>2. StoreInfo(Outs[kid[c].k]) \in Info
    BY <1>1, <1>15, Constants, InfoType DEF WriteInfo, ShapeOf
  <2>3. store' \in Seq(Info) /\ written' \in Seq(Info)
    BY <1>15, <1>2, <1>3, <2>2 DEF WriteInfo, Kept
  <2> QED BY <1>15, <2>1, <2>3, <1>2, <1>3, <1>5 DEF WriteInfo
<1>16. CASE Exit(c)
  <2>1. Good([kid[c] EXCEPT !.pc = "exit"])
    BY <1>1, <1>6, <1>16, ConstAssumption DEF Exit, ShapeOf, KidPC
  <2> QED BY <1>16, <2>1, <1>2, <1>3, <1>5, <1>7 DEF Exit, tree, hist, KidPC
<1>17. CASE Die(c)
  <2>1. Good([kid[c] EXCEPT !.pc = "abort"])
    BY <1>1, <1>6, <1>17, ConstAssumption DEF Die, ShapeOf, KidPC
  <2> QED BY <1>17, <2>1, <1>2, <1>3, <1>5, <1>7 DEF Die, tree, hist, KidPC
<1> QED
  BY <1>8, <1>9, <1>10, <1>11, <1>12, <1>13, <1>14, <1>15, <1>16, <1>17 DEF KidStep

LEMMA NumType == \A ph \in {"train", "valid"} : Num[ph] \in Nat
  BY ConstAssumption DEF Num

LEMMA ParentTypes ==
  ASSUME TInv, ParentStep
  PROVE  TInv'
<1> DEFINE R == [pc : KidPC, round : 1 .. (Rounds + 1), k : 0 .. Len(Outs)]
<1>1. /\ kid \in [Kids -> R] /\ Shape /\ phase \in {"train", "valid", "done", "abort"}
      /\ ppc \in {"fork", "wait"} /\ it \in Nat /\ forked \in 0 .. Batch
      /\ phase \in {"train", "valid"} => it <= Num[phase]
      /\ dirs \subseteq {Model} \cup Names(Loads)
      /\ store \in Seq(Info) \cup {NoFile} /\ files \in [Places \X Line -> Seq(Record)]
      /\ templates \subseteq {Model} \cup Names(Loads)
      /\ found \in Trees /\ written \in Seq(Info)
  BY DEF TInv, TypeOK
<1>2. UNCHANGED tree
  BY DEF ParentStep, Fork, EndFork, Reap, EndWait
<1>3. Batch \in Nat
  BY ConstAssumption
\* The parent changes the program counter of one child at most.
<1>4. ASSUME NEW c \in Kids, NEW pc \in {"main", "reaped"},
             pc = "reaped" => kid[c].pc \in {"exit", "abort"},
             kid' = [kid EXCEPT ![c].pc = pc]
      PROVE  kid' \in [Kids -> R] /\ Shape'
  <2> DEFINE r == [kid[c] EXCEPT !.pc = pc]
  <2>1. kid[c] \in R /\ ShapeOf(kid[c])
    BY <1>1 DEF Shape
  <2>2. r \in R /\ ShapeOf(r)
    BY <2>1, <1>4 DEF ShapeOf, KidPC
  <2>3. kid' = [kid EXCEPT ![c] = r]
    BY <1>1, <1>4
  <2> HIDE DEF r, R
  <2> QED BY <1>1, <2>2, <2>3 DEF Shape
<1>5. CASE Fork
  <2>1. <<phase, it>> \in Kids
    BY <1>1, <1>5, ConstAssumption DEF Fork, Kids, Num
  <2>2. kid' \in [Kids -> R] /\ Shape'
    <3>1. CASE UNCHANGED kid
      BY <1>1, <3>1 DEF Shape
    <3>2. CASE kid' = [kid EXCEPT ![<<phase, it>>].pc = "main"]
      BY <1>4, <2>1, <3>2
    <3> QED BY <1>5, <3>1, <3>2 DEF Fork
  <2>3. it' \in Nat /\ it' <= Num[phase] /\ forked' \in 0 .. Batch
    BY <1>1, <1>3, <1>5, NumType DEF Fork
  <2> QED BY <1>1, <1>2, <1>5, <2>2, <2>3 DEF Fork, tree, hist, TInv, TypeOK
<1>6. CASE EndFork
  <2>1. Shape'
    BY <1>1, <1>6 DEF EndFork, Shape
  <2> QED BY <1>1, <1>2, <1>6, <2>1 DEF EndFork, tree, hist, TInv, TypeOK
<1>7. CASE Reap
  <2>1. PICK c \in Kids : /\ kid[c].pc \in {"exit", "abort"}
                          /\ kid' = [kid EXCEPT ![c].pc = "reaped"]
    BY <1>7 DEF Reap
  <2>2. kid' \in [Kids -> R] /\ Shape'
    BY <1>4, <2>1
  <2> QED BY <1>1, <1>2, <1>7, <2>2 DEF Reap, tree, hist, TInv, TypeOK
<1>8. CASE EndWait
  <2>1. Shape'
    BY <1>1, <1>8 DEF EndWait, Shape
  <2>2. \/ UNCHANGED <<phase, it>>
        \/ phase' \in {"valid", "done"} /\ it' = 0
    BY <1>8 DEF EndWait
  <2>3. it' \in Nat /\ (phase' \in {"train", "valid"} => it' <= Num[phase'])
    BY <1>1, <2>2, NumType
  <2>4. phase' \in {"train", "valid", "done", "abort"} /\ ppc' \in {"fork", "wait"}
        /\ forked' \in 0 .. Batch /\ UNCHANGED kid
    BY <1>1, <1>3, <1>8, <2>2 DEF EndWait
  <2> QED BY <1>1, <1>2, <2>1, <2>3, <2>4 DEF tree, hist, TInv, TypeOK
<1> QED BY <1>5, <1>6, <1>7, <1>8 DEF ParentStep

LEMMA NextTypes == TInv /\ [Next]_vars => TInv'
<1> SUFFICES ASSUME TInv, [Next]_vars PROVE TInv'
  OBVIOUS
<1>1. CASE UNCHANGED vars
  BY <1>1 DEF TInv, TypeOK, Shape, vars, parent, tree, hist
<1> QED BY <1>1, ParentTypes, KidTypes DEF Next

\* Every variable keeps its type, whatever children do at the same time: whoever
\* truncates the .store file or appends to it (prodCreateModelDir,
\* prodWriteStoreInfo) leaves a sequence of descriptions.
THEOREM TypeCorrect == Spec => []TypeOK
<1>1. Spec => []TInv
  BY InitTypes, NextTypes, PTL DEF Spec
<1>2. TInv => TypeOK
  BY DEF TInv
<1> QED BY <1>1, <1>2, PTL

-------------------------------------------------------------------------------
(* Batches and phases *)

\* The children that were forked and not waited for are those of the current
\* batch: they are of one phase, and next to each other below the iterator.
Window ==
  \E ph \in {"train", "valid"} :
    /\ phase \in {"train", "valid"} => ph = phase
    /\ \A c \in Kids : kid[c].pc \notin {"off", "reaped"} =>
                       c[1] = ph /\ c[2] \in (it - forked) .. (it - 1)

\* A child's step leaves the parent alone, and neither ends nor starts a child.
LEMMA KidStays ==
  ASSUME TInv, NEW c \in Kids, KidStep(c) \/ Die(c)
  PROVE  /\ UNCHANGED parent /\ Alive(c)
         /\ \A d \in Kids \ {c} : kid'[d] = kid[d]
         /\ kid'[c].pc \notin {"off", "reaped"}
<1> DEFINE R == [pc : KidPC, round : 1 .. (Rounds + 1), k : 0 .. Len(Outs)]
<1>1. kid \in [Kids -> R]
  BY DEF TInv, TypeOK
<1>2. UNCHANGED parent /\ Alive(c)
  BY DEF KidStep, Die, TestDir, Mkdir, Subdirs, CreateStore, WriteLoad, GenTemplate,
         WriteStore, WriteInfo, Exit, Alive
<1>3. \/ Advance(c)
      \/ \E pc \in KidPC \ {"off", "reaped"} : Goes(c, pc)
  BY DEF KidStep, Die, TestDir, Mkdir, Subdirs, CreateStore, WriteLoad, GenTemplate,
         WriteStore, WriteInfo, Exit, KidPC
<1>4. NextCall(kid[c]).pc = "main"
  BY DEF NextCall
<1>5. CASE Advance(c)
  BY <1>1, <1>2, <1>4, <1>5 DEF Advance
<1>6. ASSUME NEW pc \in KidPC \ {"off", "reaped"}, Goes(c, pc)
      PROVE  (\A d \in Kids \ {c} : kid'[d] = kid[d]) /\ kid'[c].pc = pc
  BY <1>1, <1>6 DEF Goes
<1> QED BY <1>2, <1>3, <1>5, <1>6

LEMMA WindowKept ==
  ASSUME TInv, Window, [Next]_vars
  PROVE  Window'
<1>1. PICK ph \in {"train", "valid"} :
        /\ phase \in {"train", "valid"} => ph = phase
        /\ \A c \in Kids : kid[c].pc \notin {"off", "reaped"} =>
                           c[1] = ph /\ c[2] \in (it - forked) .. (it - 1)
  BY DEF Window
<1>2. it \in Nat /\ forked \in Nat /\ DOMAIN kid = Kids
  BY ConstAssumption DEF TInv, TypeOK
<1>3. CASE Fork
  <2>1. \A c \in Kids \ {<<phase, it>>} : kid'[c] = kid[c]
    BY <1>2, <1>3 DEF Fork
  <2>2. phase' = phase /\ it' = it + 1 /\ forked' = forked + 1 /\ ph = phase
    BY <1>1, <1>3 DEF Fork
  <2>3. ASSUME NEW c \in Kids, kid'[c].pc \notin {"off", "reaped"}
        PROVE  c[1] = ph /\ c[2] \in (it' - forked') .. (it' - 1)
    <3>1. CASE c = <<phase, it>>
      BY <1>2, <2>2, <3>1
    <3>2. CASE c # <<phase, it>>
      BY <1>1, <1>2, <2>1, <2>2, <2>3, <3>2
    <3> QED BY <3>1, <3>2
  <2> QED BY <2>2, <2>3 DEF Window
<1>4. CASE EndFork
  BY <1>1, <1>4 DEF EndFork, Window
<1>5. CASE Reap
  <2>1. PICK c \in Kids : kid' = [kid EXCEPT ![c].pc = "reaped"]
    BY <1>5 DEF Reap
  <2>2. phase' \in {phase, "abort"} /\ UNCHANGED <<it, forked>>
    BY <1>5 DEF Reap
  <2>3. \A d \in Kids : kid'[d].pc \notin {"off", "reaped"} => kid'[d] = kid[d]
    BY <1>2, <2>1 DEF TInv, TypeOK
  <2> QED BY <1>1, <2>2, <2>3 DEF Window
<1>6. CASE EndWait
  <2>1. \A c \in Kids : kid'[c].pc \in {"off", "reaped"}
    BY <1>6 DEF EndWait
  <2> QED BY <2>1 DEF Window
<1>7. ASSUME NEW c \in Kids, KidStep(c) \/ Die(c) PROVE Window'
  <2>1. UNCHANGED <<phase, it, forked>> /\ kid[c].pc \notin {"off", "reaped"}
    BY <1>7, KidStays DEF parent, Alive
  <2>2. \A d \in Kids : kid'[d].pc \notin {"off", "reaped"} =>
                        kid[d].pc \notin {"off", "reaped"}
    BY <1>7, <2>1, KidStays
  <2> QED BY <1>1, <2>1, <2>2 DEF Window
<1>8. CASE UNCHANGED vars
  BY <1>1, <1>8 DEF Window, vars, parent
<1> QED BY <1>3, <1>4, <1>5, <1>6, <1>7, <1>8 DEF Next, ParentStep

LEMMA WindowHolds == Spec => [](TInv /\ Window)
<1>1. Init => Window
  BY DEF Init, Window, Idle
<1>2. TInv /\ Window /\ [Next]_vars => (TInv /\ Window)'
  BY NextTypes, WindowKept
<1> QED BY <1>1, <1>2, InitTypes, PTL DEF Spec

\* No child of the training file runs while one of the validation file does,
\* whatever fork, the children and the program do.
THEOREM Apart == Spec => []PhasesApart
<1>1. TInv /\ Window => PhasesApart
  <2> SUFFICES ASSUME TInv, Window,
                      NEW i \in 0 .. (TrainNum - 1), NEW j \in 0 .. (ValidNum - 1),
                      Alive(<<"train", i>>), Alive(<<"valid", j>>)
               PROVE  FALSE
    BY DEF PhasesApart
  <2>1. <<"train", i>> \in Kids /\ <<"valid", j>> \in Kids
    BY DEF Kids
  <2> QED BY <2>1 DEF Window, Alive
<1> QED BY <1>1, WindowHolds, PTL

\* Never more than a batch of children runs, for any size of the batch.
THEOREM Bounded == Spec => []BatchBound
<1>1. ASSUME TInv, Window PROVE BatchBound
  <2>1. PICK ph \in {"train", "valid"} :
          \A c \in Kids : kid[c].pc \notin {"off", "reaped"} =>
                         c[1] = ph /\ c[2] \in (it - forked) .. (it - 1)
    BY <1>1 DEF Window
  <2>2. it \in Nat /\ forked \in Nat /\ forked <= Batch /\ Batch \in Nat
    BY <1>1, ConstAssumption DEF TInv, TypeOK
  <2> DEFINE I == (it - forked) .. (it - 1)
             A == {c \in Kids : Alive(c)}
             f == [c \in A |-> c[2]]
  <2>3. IsFiniteSet(I) /\ Cardinality(I) = forked
    <3>1. it - forked \in Int /\ it - 1 \in Int
      BY <2>2
    <3>2. IsFiniteSet(I) /\ Cardinality(I) = IF it - forked > it - 1 THEN 0
                                             ELSE (it - 1) - (it - forked) + 1
      BY <3>1, FS_Interval
    <3> QED BY <2>2, <3>2
  <2>4. f \in Injection(A, I)
    <3>1. \A c \in A : c[1] = ph /\ c[2] \in I /\ c = <<c[1], c[2]>>
      BY <2>1 DEF Alive, Kids
    <3>2. \A c, d \in A : f[c] = f[d] => c = d
      BY <3>1
    <3> QED BY <3>1, <3>2 DEF Injection, IsInjective
  <2> HIDE DEF I, A, f
  <2>5. IsFiniteSet(A) /\ Cardinality(A) <= Cardinality(I)
    BY <2>3, <2>4, FS_Injection
  <2>6. Cardinality(A) \in Nat
    BY <2>5, FS_CardinalityType
  <2> QED BY <2>2, <2>3, <2>5, <2>6 DEF BatchBound, A
<1> QED BY <1>1, WindowHolds, PTL

-------------------------------------------------------------------------------
(* Completeness *)

\* A line that the iterator has not reached has had no child.
Unforked ==
  \A c \in Kids : (phase = "train" /\ c[1] = "valid") \/ (phase = c[1] /\ ~ c[2] < it)
                 => kid[c] = Idle

LEMMA UnforkedKept ==
  ASSUME TInv, Unforked, [Next]_vars
  PROVE  Unforked'
<1>1. it \in Nat /\ DOMAIN kid = Kids
  BY DEF TInv, TypeOK
<1>2. \A c \in Kids : /\ c[1] \in {"train", "valid"} /\ c[2] \in Nat
                      /\ c[2] < Num[c[1]] /\ c = <<c[1], c[2]>>
  BY ConstAssumption DEF Kids, Num
<1>3. CASE Fork
  <2>1. \A c \in Kids \ {<<phase, it>>} : kid'[c] = kid[c]
    BY <1>1, <1>3 DEF Fork
  <2>2. phase' = phase /\ it' = it + 1
    BY <1>3 DEF Fork
  <2>3. ASSUME NEW c \in Kids,
               (phase = "train" /\ c[1] = "valid") \/ (phase = c[1] /\ ~ c[2] < it + 1)
        PROVE  c # <<phase, it>> /\ kid[c] = Idle
    BY <1>1, <1>2, <2>3 DEF Unforked
  <2> QED BY <2>1, <2>2, <2>3 DEF Unforked
<1>4. CASE EndFork
  BY <1>4 DEF EndFork, Unforked
<1>5. CASE Reap
  <2>1. PICK c \in Kids : /\ kid[c].pc \in {"exit", "abort"}
                          /\ kid' = [kid EXCEPT ![c].pc = "reaped"]
    BY <1>5 DEF Reap
  <2>2. \A d \in Kids : kid[d] = Idle => kid'[d] = Idle
    BY <1>1, <2>1 DEF Idle
  <2>3. phase' \in {phase, "abort"} /\ UNCHANGED it
    BY <1>5 DEF Reap
  <2> QED BY <1>2, <2>2, <2>3 DEF Unforked
<1>6. CASE EndWait
  <2>1. /\ UNCHANGED kid /\ phase \in {"train", "valid"}
        /\ \/ UNCHANGED <<phase, it>>
           \/ phase' = "done"
           \/ phase = "train" /\ phase' = "valid"
    BY <1>6 DEF EndWait
  <2> QED BY <1>2, <2>1 DEF Unforked
<1>7. ASSUME NEW c \in Kids, KidStep(c) \/ Die(c) PROVE Unforked'
  <2>1. UNCHANGED <<phase, it>> /\ kid[c] # Idle
    BY <1>7, KidStays DEF parent, Alive, Idle
  <2>2. \A d \in Kids : kid[d] = Idle => kid'[d] = Idle
    BY <1>7, <2>1, KidStays
  <2> QED BY <2>1, <2>2 DEF Unforked
<1>8. CASE UNCHANGED vars
  BY <1>8 DEF Unforked, vars, parent
<1> QED BY <1>3, <1>4, <1>5, <1>6, <1>7, <1>8 DEF Next, ParentStep

\* The child's file has, in every place, the first n records of a round.
Wrote(fs, c, n) == \A p \in Places : fs[<<p, c>>] = [j \in 1 .. n |-> DataFile(p)[j]]

\* How much of a round a child has written, by where it is in its program.
FileOf(fs, c, r) ==
  /\ r.pc = "py" => Wrote(fs, c, 1)
  /\ r.pc = "info" => Wrote(fs, c, r.k + 1)
  /\ r.pc = "main" /\ r.k > 0 => Wrote(fs, c, r.k)
  /\ r.pc = "main" /\ r.k = 0 /\ r.round > 1 => Wrote(fs, c, 1 + Len(Outs))
  /\ r.pc = "exit" => Wrote(fs, c, 1 + Len(Outs))

\* The file is, in every place, as it was found.
Untouched(fs, c) == \A p \in Places : fs[<<p, c>>] = found.files[<<p, c>>]

FilesKept ==
  /\ \A c \in Kids :
       /\ FileOf(files, c, kid[c])
       /\ kid[c].pc = "off" => Untouched(files, c)
       /\ kid[c].pc = "reaped" /\ phase # "abort" => Wrote(files, c, 1 + Len(Outs))
  /\ \A c \in Line \ Kids : Untouched(files, c)

\* Each store goes where the data file of a round has it.
LEMMA WroteNext ==
  ASSUME NEW p \in Places, NEW k \in 1 .. Len(Outs)
  PROVE  Append([j \in 1 .. k |-> DataFile(p)[j]], StoreRecord(Outs[k])) =
         [j \in 1 .. (k + 1) |-> DataFile(p)[j]]
<1> DEFINE g == [j \in 1 .. k |-> DataFile(p)[j]]
           e == StoreRecord(Outs[k])
<1>1. k \in Nat /\ k + 1 \in 1 .. (1 + Len(Outs)) /\ Len(Outs) \in Nat
  BY Constants
<1>2. DataFile(p)[k + 1] = e
  BY <1>1 DEF DataFile
<1> HIDE DEF e
<1>4. Append(g, e) = [j \in 1 .. (k + 1) |-> IF j = k + 1 THEN e ELSE g[j]]
  BY <1>1
<1>5. \A j \in 1 .. k : g[j] = DataFile(p)[j]
  OBVIOUS
<1> HIDE DEF g
<1>6. \A j \in 1 .. (k + 1) : (IF j = k + 1 THEN e ELSE g[j]) = DataFile(p)[j]
  <2> TAKE j \in 1 .. (k + 1)
  <2>1. CASE j = k + 1
    BY <1>2, <2>1
  <2>2. CASE j # k + 1
    BY <1>1, <1>5, <2>2
  <2> QED BY <2>1, <2>2
<1>7. Append(g, e) = [j \in 1 .. (k + 1) |-> DataFile(p)[j]]
  BY <1>4, <1>6
<1> QED BY <1>7 DEF e, g

\* After a round comes the next, over a full file.
LEMMA FileNext ==
  ASSUME NEW fs, NEW c, NEW r \in [pc : KidPC, round : 1 .. (Rounds + 1), k : 0 .. Len(Outs)],
         Wrote(fs, c, r.k + 1)
  PROVE  FileOf(fs, c, NextCall(r))
<1>0. Len(Outs) \in Nat /\ r.k \in Nat /\ r.round \in Nat
  BY Constants, ConstAssumption
<1>1. CASE r.k = Len(Outs)
  <2>1. Wrote(fs, c, 1 + Len(Outs))
    BY <1>0, <1>1
  <2>2. NextCall(r).pc = "main" /\ NextCall(r).k = 0
    BY <1>1 DEF NextCall
  <2> QED BY <2>1, <2>2 DEF FileOf
<1>2. CASE r.k # Len(Outs)
  <2>1. NextCall(r).pc = "main" /\ NextCall(r).k = r.k + 1
    BY <1>2 DEF NextCall
  <2> QED BY <1>0, <2>1 DEF FileOf
<1> QED BY <1>1, <1>2

\* Only one child's files change, and nobody's where they do not exist yet.
LEMMA FilesStep ==
  ASSUME TInv, FilesKept, NEW c \in Kids, KidStep(c) \/ Die(c)
  PROVE  FilesKept'
<1> DEFINE R == [pc : KidPC, round : 1 .. (Rounds + 1), k : 0 .. Len(Outs)]
<1>1. kid \in [Kids -> R] /\ files \in [Places \X Line -> Seq(Record)] /\ ShapeOf(kid[c])
  BY DEF TInv, TypeOK, Shape
<1>2. Rounds \in Nat \ {0} /\ Len(Outs) \in Nat \ {0}
  BY Constants, ConstAssumption
<1>3. kid[c] \in R /\ FileOf(files, c, kid[c])
  BY <1>1 DEF FilesKept
<1>0. UNCHANGED found
  BY DEF KidStep, Die, TestDir, Mkdir, Subdirs, CreateStore, WriteLoad, GenTemplate,
         WriteStore, WriteInfo, Exit, tree, hist
\* The other children's files.
<1>4. \A p \in Places, d \in Line \ {c} : files'[<<p, d>>] = files[<<p, d>>]
  <2> SUFFICES ASSUME NEW p \in Places, NEW d \in Line \ {c}
               PROVE  files'[<<p, d>>] = files[<<p, d>>]
    OBVIOUS
  <2>1. <<p, d>> \in DOMAIN files /\ <<p, d>>[2] # c
    BY <1>1
  <2>2. CASE WriteLoad(c)
    BY <2>1, <2>2 DEF WriteLoad
  <2>3. CASE WriteStore(c)
    BY <2>1, <2>3 DEF WriteStore
  <2>4. WriteLoad(c) \/ WriteStore(c) \/ UNCHANGED files
    BY DEF KidStep, Die, TestDir, Mkdir, Subdirs, CreateStore, GenTemplate,
           WriteInfo, Exit, tree
  <2> QED BY <2>2, <2>3, <2>4
<1>5. ASSUME NEW d \in Kids \ {c}
      PROVE  /\ FileOf(files', d, kid'[d])
             /\ kid'[d].pc = "off" => Untouched(files, d)'
             /\ kid'[d].pc = "reaped" /\ phase' # "abort" => Wrote(files', d, 1 + Len(Outs))
  <2>1. kid'[d] = kid[d] /\ phase' = phase
    BY KidStays DEF parent
  <2>2. \A n : Wrote(files, d, n) => Wrote(files', d, n)
    BY <1>4 DEF Wrote, Line
  <2>3. Untouched(files, d) => Untouched(files, d)'
    BY <1>0, <1>4 DEF Untouched, Line
  <2> QED BY <2>1, <2>2, <2>3 DEF FilesKept, FileOf
\* The child's own.
<1>6. FileOf(files', c, kid'[c])
  <2>1. ASSUME Advance(c), Wrote(files', c, kid[c].k + 1) PROVE FileOf(files', c, kid'[c])
    <3>1. kid'[c] = NextCall(kid[c])
      BY <1>1, <2>1 DEF Advance
    <3> QED BY <1>3, <2>1, <3>1, FileNext
  <2>2. ASSUME NEW pc, Goes(c, pc), pc \notin {"py", "info", "main", "exit"}
        PROVE  FileOf(files', c, kid'[c])
    BY <1>1, <2>2 DEF Goes, FileOf
  <2>3. CASE TestDir(c)
    BY <2>2, <2>3 DEF TestDir
  <2>4. CASE Mkdir(c)
    BY <2>2, <2>4 DEF Mkdir
  <2>5. CASE Subdirs(c)
    BY <2>2, <2>5 DEF Subdirs
  <2>6. CASE CreateStore(c)
    BY <2>2, <2>6 DEF CreateStore
  <2>7. CASE WriteLoad(c)
    <3>1. CASE ~ Places \subseteq dirs
      BY <2>2, <2>7, <3>1 DEF WriteLoad
    <3>2. CASE Places \subseteq dirs
      <4>1. \A p \in Places : files'[<<p, c>>] = <<LoadRecord(LoadAt(p))>>
        BY <1>1, <2>7, <3>2 DEF WriteLoad, Line
      <4>2. \A p \in Places : <<LoadRecord(LoadAt(p))>> = [j \in 1 .. 1 |-> DataFile(p)[j]]
        BY <1>2 DEF DataFile
      <4>3. Wrote(files', c, 1)
        BY <4>1, <4>2 DEF Wrote
      <4>4. CASE Goes(c, "py")
        BY <1>1, <4>3, <4>4 DEF Goes, FileOf
      <4>5. CASE Advance(c)
        <5>1. kid[c].k = 0
          BY <1>1, <2>7 DEF WriteLoad, ShapeOf
        <5> QED BY <2>1, <4>3, <4>5, <5>1
      <4> QED BY <2>7, <3>2, <4>4, <4>5 DEF WriteLoad
    <3> QED BY <3>1, <3>2
  <2>8. CASE GenTemplate(c)
    <3>1. Wrote(files, c, 1) /\ kid[c].k = 0 /\ UNCHANGED files
      BY <1>1, <1>3, <2>8 DEF GenTemplate, FileOf, ShapeOf
    <3> QED BY <2>1, <2>8, <3>1 DEF GenTemplate
  <2>9. CASE WriteStore(c)
    <3>1. kid[c].k \in 1 .. Len(Outs) /\ Wrote(files, c, kid[c].k)
      BY <1>2, <1>3, <2>9 DEF WriteStore, FileOf
    <3>2. \A p \in Places : files'[<<p, c>>] =
                             Append(files[<<p, c>>], StoreRecord(Outs[kid[c].k]))
      BY <1>1, <2>9 DEF WriteStore, Line
    <3>3. Wrote(files', c, kid[c].k + 1)
      <4> DEFINE k == kid[c].k
      <4>1. \A p \in Places : files'[<<p, c>>] =
              Append([j \in 1 .. k |-> DataFile(p)[j]], StoreRecord(Outs[k]))
        BY <3>1, <3>2 DEF Wrote
      <4>2. k \in 1 .. Len(Outs)
        BY <3>1
      <4> HIDE DEF k
      <4>3. \A p \in Places : files'[<<p, c>>] = [j \in 1 .. (k + 1) |-> DataFile(p)[j]]
        BY <4>1, <4>2, WroteNext
      <4>4. Wrote(files', c, k + 1)
        BY <4>3 DEF Wrote
      <4> QED BY <4>4 DEF k
    <3>4. CASE Goes(c, "info")
      BY <1>1, <3>3, <3>4 DEF Goes, FileOf
    <3>5. CASE Advance(c)
      BY <2>1, <3>3, <3>5
    <3> QED BY <2>9, <3>4, <3>5 DEF WriteStore
  <2>10. CASE WriteInfo(c)
    <3>1. Wrote(files, c, kid[c].k + 1) /\ UNCHANGED files
      BY <1>3, <2>10 DEF WriteInfo, FileOf
    <3> QED BY <2>1, <2>10, <3>1 DEF WriteInfo
  <2>11. CASE Exit(c)
    <3>1. kid[c].k = 0 /\ kid[c].round > 1 /\ kid[c].pc = "main" /\ UNCHANGED files
      BY <1>1, <1>2, <2>11 DEF Exit, ShapeOf, tree
    <3>2. Wrote(files', c, 1 + Len(Outs))
      BY <1>3, <3>1 DEF FileOf
    <3>3. kid'[c].pc = "exit"
      BY <1>1, <2>11 DEF Exit, Goes
    <3> QED BY <3>2, <3>3 DEF FileOf
  <2>12. CASE Die(c)
    BY <2>2, <2>12 DEF Die
  <2> QED BY <2>3, <2>4, <2>5, <2>6, <2>7, <2>8, <2>9, <2>10, <2>11, <2>12 DEF KidStep
<1> QED
  <2>1. kid'[c].pc \notin {"off", "reaped"}
    BY KidStays
  <2>2. \A d \in Line \ Kids : Untouched(files, d)'
    BY <1>0, <1>4 DEF FilesKept, Untouched
  <2> QED BY <1>5, <1>6, <2>1, <2>2 DEF FilesKept

LEMMA FilesParent ==
  ASSUME TInv, Unforked, FilesKept, ParentStep
  PROVE  FilesKept'
<1> DEFINE R == [pc : KidPC, round : 1 .. (Rounds + 1), k : 0 .. Len(Outs)]
<1>1. kid \in [Kids -> R] /\ UNCHANGED <<files, found>>
  BY DEF TInv, TypeOK, ParentStep, Fork, EndFork, Reap, EndWait, tree, hist
<1>2. CASE Fork
  <2>1. phase \in {"train", "valid"} /\ UNCHANGED phase /\ it \in Nat
    BY <1>2 DEF Fork, TInv, TypeOK
  <2>2. CASE UNCHANGED kid
    BY <1>1, <2>1, <2>2 DEF FilesKept, Untouched
  <2>3. CASE kid' = [kid EXCEPT ![<<phase, it>>].pc = "main"]
    <3>1. ASSUME <<phase, it>> \in Kids
          PROVE  kid'[<<phase, it>>] = [Idle EXCEPT !.pc = "main"]
      <4>1. kid[<<phase, it>>] = Idle
        BY <2>1, <3>1 DEF Unforked
      <4> QED BY <1>1, <2>3, <3>1, <4>1
    <3>2. \A c \in Kids \ {<<phase, it>>} : kid'[c] = kid[c]
      BY <1>1, <2>3
    <3>3. \A c : FileOf(files, c, [Idle EXCEPT !.pc = "main"])
      BY DEF Idle, FileOf
    <3>4. [Idle EXCEPT !.pc = "main"].pc \notin {"off", "reaped"}
      BY DEF Idle
    <3> QED BY <1>1, <2>1, <3>1, <3>2, <3>3, <3>4 DEF FilesKept, Untouched
  <2> QED BY <1>2, <2>2, <2>3 DEF Fork
<1>3. CASE EndFork
  BY <1>1, <1>3 DEF EndFork, FilesKept, Untouched
<1>4. CASE Reap
  <2>1. PICK c \in Kids :
          /\ kid[c].pc \in {"exit", "abort"} /\ kid' = [kid EXCEPT ![c].pc = "reaped"]
          /\ kid[c].pc = "abort" => phase' = "abort"
    BY <1>4 DEF Reap
  <2>2. phase' \in {phase, "abort"}
    BY <1>4 DEF Reap
  <2>3. \A d \in Kids \ {c} : kid'[d] = kid[d]
    BY <1>1, <2>1
  <2>4. kid'[c].pc = "reaped"
    BY <1>1, <2>1
  <2>5. phase' # "abort" => Wrote(files, c, 1 + Len(Outs))
    BY <2>1 DEF FilesKept, FileOf
  <2>6. FileOf(files, c, kid'[c])
    BY <2>4 DEF FileOf
  <2>7. ASSUME NEW d \in Kids
        PROVE  /\ FileOf(files, d, kid'[d])
               /\ kid'[d].pc = "off" => Untouched(files, d)
               /\ kid'[d].pc = "reaped" /\ phase' # "abort" => Wrote(files, d, 1 + Len(Outs))
    BY <2>2, <2>3, <2>4, <2>5, <2>6 DEF FilesKept
  <2> QED BY <1>1, <2>7 DEF FilesKept, Untouched
<1>5. CASE EndWait
  <2>1. UNCHANGED kid /\ phase # "abort"
    BY <1>5 DEF EndWait
  <2> QED BY <1>1, <2>1 DEF FilesKept, Untouched
<1> QED BY <1>2, <1>3, <1>4, <1>5 DEF ParentStep

\* In the end all have been waited for.
AllOver == phase = "done" => \A c \in Kids : kid[c].pc \in {"off", "reaped"}

LEMMA AllOverKept ==
  ASSUME TInv, AllOver, [Next]_vars
  PROVE  AllOver'
<1>1. CASE Fork \/ EndFork \/ Reap
  BY <1>1 DEF Fork, EndFork, Reap, AllOver
<1>2. CASE EndWait
  BY <1>2 DEF EndWait, AllOver
<1>3. ASSUME NEW c \in Kids, KidStep(c) \/ Die(c) PROVE AllOver'
  BY <1>3, KidStays DEF AllOver, parent, Alive
<1>4. CASE UNCHANGED vars
  BY <1>4 DEF AllOver, vars, parent
<1> QED BY <1>1, <1>2, <1>3, <1>4 DEF Next, ParentStep

CInv == TInv /\ Unforked /\ FilesKept /\ AllOver

LEMMA CInvInit == Init => CInv
<1> SUFFICES ASSUME Init PROVE CInv
  OBVIOUS
<1>1. files = found.files /\ \A c \in Kids : kid[c] = Idle
  BY DEF Init
<1>2. FilesKept
  BY <1>1 DEF Idle, FilesKept, FileOf, Untouched
<1> QED BY <1>1, <1>2, InitTypes DEF CInv, Unforked, AllOver, Init

LEMMA CInvKept == CInv /\ [Next]_vars => CInv'
<1> SUFFICES ASSUME CInv, [Next]_vars PROVE CInv'
  OBVIOUS
<1>1. TInv /\ Unforked /\ FilesKept /\ AllOver
  BY DEF CInv
<1>2. FilesKept'
  <2>1. CASE UNCHANGED vars
    BY <1>1, <2>1 DEF FilesKept, Untouched, vars, parent, tree, hist
  <2> QED BY <1>1, <2>1, FilesStep, FilesParent DEF Next
<1> QED BY <1>1, <1>2, NextTypes, UnforkedKept, AllOverKept DEF CInv

\* A production that ends well has a whole file in every place for every line it
\* had a child for, and every other file as it was found: whatever the order in
\* which the children ran, whichever calls of fork failed, and whatever an
\* earlier production, or one that died, left there (sprodInit, FileIO.cpp).
THEOREM Complete == Spec => []DataComplete
<1>1. CInv => DataComplete
  <2> SUFFICES ASSUME CInv, phase = "done", NEW p \in Places, NEW c \in Line
               PROVE  files[<<p, c>>] = IF c \in Kids /\ kid[c].pc = "reaped"
                                        THEN DataFile(p) ELSE found.files[<<p, c>>]
    BY DEF DataComplete
  <2>1. CASE c \in Kids /\ kid[c].pc = "reaped"
    <3>1. files[<<p, c>>] = [j \in 1 .. (1 + Len(Outs)) |-> DataFile(p)[j]]
      BY <2>1 DEF CInv, FilesKept, Wrote
    <3>2. DataFile(p) = [j \in 1 .. (1 + Len(Outs)) |-> DataFile(p)[j]]
      BY DEF DataFile
    <3> QED BY <2>1, <3>1, <3>2
  <2>2. CASE ~ (c \in Kids /\ kid[c].pc = "reaped")
    <3>1. c \in Line \ Kids \/ (c \in Kids /\ kid[c].pc = "off")
      BY <2>2 DEF CInv, AllOver
    <3>2. Untouched(files, c)
      BY <3>1 DEF CInv, FilesKept
    <3> QED BY <2>2, <3>2 DEF Untouched
  <2> QED BY <2>1, <2>2
<1> QED BY <1>1, CInvKept, CInvInit, PTL DEF Spec

-------------------------------------------------------------------------------
(* The record *)

Making == {"mkdir", "subdirs", "create"}

\* A child that ended well has gone through all its rounds.
Through == \A c \in Kids : kid[c].pc = "reaped" /\ phase # "abort" => kid[c].round > Rounds

LEMMA FirstIs ==
  /\ First \in Kids
  /\ \A c \in Kids : c[1] \in {"train", "valid"} /\ c[2] \in Nat /\ c = <<c[1], c[2]>>
  /\ \A c \in Kids : c[2] < Num[c[1]]
  BY ConstAssumption DEF First, Kids, Num

\* The parent starts or ends one child at most, and writes no files.
LEMMA ParentMoves ==
  ASSUME TInv, ParentStep
  PROVE  /\ UNCHANGED tree
         /\ kid' = kid \/ \E c \in Kids, pc \in {"main", "reaped"} : kid' = [kid EXCEPT ![c].pc = pc]
<1>1. CASE Fork
  <2>1. <<phase, it>> \in Kids
    BY <1>1, ConstAssumption DEF Fork, TInv, TypeOK, Kids, Num
  <2> QED BY <1>1, <2>1 DEF Fork
<1>2. CASE ~ Fork
  BY <1>2 DEF ParentStep, Reap, EndFork, EndWait
<1> QED BY <1>1, <1>2

LEMMA ThroughKept ==
  ASSUME TInv, Through, [Next]_vars
  PROVE  Through'
<1>1. kid \in [Kids -> [pc : KidPC, round : 1 .. (Rounds + 1), k : 0 .. Len(Outs)]] /\ Shape
  BY DEF TInv, TypeOK
<1>2. CASE Fork
  BY <1>1, <1>2 DEF Fork, Through
<1>3. CASE Reap
  <2>1. PICK c \in Kids :
          /\ kid[c].pc = "exit" \/ phase' = "abort"
          /\ kid' = [kid EXCEPT ![c].pc = "reaped"]
          /\ phase' \in {phase, "abort"}
    BY <1>3 DEF Reap
  <2>2. kid[c].pc = "exit" => kid[c].round > Rounds
    BY <1>1 DEF Shape, ShapeOf
  <2> QED BY <1>1, <2>1, <2>2 DEF Through
<1>4. CASE EndFork \/ EndWait
  BY <1>1, <1>4 DEF EndFork, EndWait, Through
<1>5. ASSUME NEW c \in Kids, KidStep(c) \/ Die(c) PROVE Through'
  BY <1>5, KidStays DEF Through, parent
<1>6. CASE UNCHANGED vars
  BY <1>6 DEF Through, vars, parent
<1> QED BY <1>2, <1>3, <1>4, <1>5, <1>6 DEF Next, ParentStep

LEMMA StoreIs == \A s \in Seq(Info) : s # NoFile
  BY ConstAssumption DEF Info

\* Python, and the .store file, are the first child's alone.
OnlyFirst == \A c \in Kids \ {First} : kid[c].pc \notin {"py", "info"}

LEMMA OnlyFirstKept ==
  ASSUME TInv, OnlyFirst, [Next]_vars
  PROVE  OnlyFirst'
<1>1. kid \in [Kids -> [pc : KidPC, round : 1 .. (Rounds + 1), k : 0 .. Len(Outs)]]
  BY DEF TInv, TypeOK
<1>2. CASE UNCHANGED kid
  BY <1>2 DEF OnlyFirst
<1>3. CASE ParentStep
  BY <1>1, <1>3, ParentMoves DEF OnlyFirst
<1>4. ASSUME NEW c \in Kids, KidStep(c) \/ Die(c) PROVE OnlyFirst'
  <2>1. \A d \in Kids \ {c} : kid'[d] = kid[d]
    BY <1>4, KidStays
  <2>2. c # First => kid'[c].pc \notin {"py", "info"}
    BY <1>1, <1>4 DEF KidStep, Die, TestDir, Mkdir, Subdirs, CreateStore, WriteLoad, GenTemplate,
       WriteStore, WriteInfo, Exit, Goes, Advance, NextCall
  <2> QED BY <2>1, <2>2 DEF OnlyFirst
<1> QED BY <1>2, <1>3, <1>4 DEF Next, vars

\* What a step does to the record: nothing, or a child that makes the directory
\* empties it, or the first child writes to it.
LEMMA Notes ==
  ASSUME TInv, OnlyFirst, [Next]_vars
  PROVE  \/ UNCHANGED <<store, written>>
         \/ \E c \in Kids : CreateStore(c)
         \/ WriteInfo(First)
<1>1. CASE ParentStep
  BY <1>1, ParentMoves DEF tree, hist
<1>2. ASSUME NEW c \in Kids, KidStep(c) \/ Die(c)
      PROVE  UNCHANGED <<store, written>> \/ CreateStore(c) \/ WriteInfo(c)
  BY <1>2 DEF KidStep, Die, TestDir, Mkdir, Subdirs, WriteLoad, GenTemplate, WriteStore, Exit,
     tree, hist
<1>3. ASSUME NEW c \in Kids, WriteInfo(c) PROVE c = First
  BY <1>3 DEF WriteInfo, OnlyFirst
<1>4. CASE UNCHANGED vars
  BY <1>4 DEF vars, tree, hist
<1> QED BY <1>1, <1>2, <1>3, <1>4 DEF Next

\* Directories stay, and what was found is history.
LEMMA DirsKept ==
  ASSUME TInv, [Next]_vars
  PROVE  dirs \subseteq dirs' /\ found' = found
<1>1. ASSUME NEW c \in Kids, KidStep(c) \/ Die(c) PROVE dirs \subseteq dirs' /\ found' = found
  BY <1>1 DEF KidStep, Die, TestDir, Mkdir, Subdirs, CreateStore, WriteLoad, GenTemplate,
     WriteStore, WriteInfo, Exit, tree, hist
<1>2. ParentStep \/ UNCHANGED vars => dirs' = dirs /\ found' = found
  BY ParentMoves DEF vars, tree, hist
<1> QED BY <1>1, <1>2 DEF Next

\* The first child's writing is an appending to both.
LEMMA Writes ==
  ASSUME TInv, WriteInfo(First)
  PROVE  LET e == StoreInfo(Outs[kid[First].k])
         IN  /\ e \in Info /\ kid[First].k \in 1 .. Len(Outs)
             /\ Kept(store) \in Seq(Info) /\ Kept(store)' = Append(Kept(store), e)
             /\ written' = Append(written, e)
<1> DEFINE e == StoreInfo(Outs[kid[First].k])
<1>1. kid[First].k \in 1 .. Len(Outs)
  BY FirstIs DEF WriteInfo, TInv, TypeOK, Shape, ShapeOf
<1>2. e \in Info
  BY <1>1, Constants, InfoType
<1>3. Kept(store) \in Seq(Info)
  BY DEF Kept, TInv, TypeOK
<1>4. store' = Append(Kept(store), e) /\ written' = Append(written, e)
  BY DEF WriteInfo
<1> HIDE DEF e
<1>5. store' \in Seq(Info)
  BY <1>2, <1>3, <1>4
<1>6. Kept(store)' = Append(Kept(store), e)
  BY <1>4, <1>5, StoreIs DEF Kept
<1> QED BY <1>1, <1>2, <1>3, <1>4, <1>6 DEF e

\* A record that was not there was not found, and emptied it is as if it were not.
LEMMA Empties ==
  ASSUME TInv
  PROVE  /\ Model \notin found.dirs => Kept(found.store) = <<>>
         /\ Kept(found.store) \in Seq(Info) /\ written \in Seq(Info) /\ Kept(store) \in Seq(Info)
         /\ \A c : CreateStore(c) => Kept(store)' = <<>> /\ written' = written
<1>1. found \in Tree /\ written \in Seq(Info) /\ store \in Seq(Info) \cup {NoFile}
  BY ConstAssumption DEF TInv, TypeOK
<1>2. found.store \in Seq(Info) \cup {NoFile} /\ (found.store # NoFile => Model \in found.dirs)
  BY <1>1 DEF Tree
<1>3. \A c : CreateStore(c) => Kept(store)' = <<>> /\ written' = written
  BY DEF CreateStore, Kept, hist
<1>4. <<>> \in Seq(Info)
  OBVIOUS
<1> QED BY <1>1, <1>2, <1>3, <1>4 DEF Kept

\* Nobody makes a directory that was found.
FoundThere == Model \in found.dirs => Model \in dirs /\ \A c \in Kids : kid[c].pc \notin Making

TailFound == Model \in found.dirs => Kept(store) = Kept(found.store) \o written
TailFresh == \E lost \in Seq(Info) : Model \notin found.dirs => written = lost \o Kept(store)

SInv == TInv /\ OnlyFirst /\ FoundThere /\ TailFound /\ TailFresh

LEMMA AppendConcat ==
  \A s, t \in Seq(Info), e \in Info : Append(s \o t, e) = s \o Append(t, e)
<1> TAKE s \in Seq(Info), t \in Seq(Info), e \in Info
<1> QED OBVIOUS

LEMMA FoundThereKept ==
  ASSUME TInv, FoundThere, [Next]_vars
  PROVE  FoundThere'
<1> SUFFICES ASSUME Model \in found.dirs
             PROVE  Model \in dirs' /\ \A c \in Kids : kid'[c].pc \notin Making
  BY DirsKept DEF FoundThere
<1>1. kid \in [Kids -> [pc : KidPC, round : 1 .. (Rounds + 1), k : 0 .. Len(Outs)]]
  BY DEF TInv, TypeOK
<1>2. Model \in dirs /\ Model \in dirs' /\ \A c \in Kids : kid[c].pc \notin Making
  BY DirsKept DEF FoundThere
<1>3. CASE ParentStep
  BY <1>1, <1>2, <1>3, ParentMoves DEF Making
<1>4. ASSUME NEW c \in Kids, KidStep(c) \/ Die(c) PROVE \A d \in Kids : kid'[d].pc \notin Making
  <2>1. kid'[c].pc \notin Making
    <3>1. CASE TestDir(c)
      BY <1>1, <1>2, <3>1 DEF TestDir, Goes, Making
    <3>2. CASE ~ TestDir(c)
      BY <1>1, <1>2, <1>4, <3>2 DEF KidStep, Die, Mkdir, Subdirs, CreateStore, WriteLoad,
         GenTemplate, WriteStore, WriteInfo, Exit, Goes, Advance, NextCall, Making
    <3> QED BY <3>1, <3>2
  <2> QED BY <1>2, <1>4, <2>1, KidStays
<1>5. CASE UNCHANGED vars
  BY <1>2, <1>5 DEF vars
<1> QED BY <1>2, <1>3, <1>4, <1>5 DEF Next

LEMMA TailKept ==
  ASSUME SInv, [Next]_vars
  PROVE  TailFound' /\ TailFresh'
<1>1. TInv /\ OnlyFirst /\ FoundThere /\ TailFound /\ TailFresh /\ found' = found
  BY DirsKept DEF SInv
<1>2. PICK lost \in Seq(Info) : Model \notin found.dirs => written = lost \o Kept(store)
  BY <1>1 DEF TailFresh
<1>3. CASE UNCHANGED <<store, written>>
  BY <1>1, <1>3 DEF TailFound, TailFresh, Kept
<1>4. ASSUME NEW c \in Kids, CreateStore(c) PROVE TailFound' /\ TailFresh'
  <2>1. Model \notin found.dirs
    BY <1>1, <1>4 DEF CreateStore, FoundThere, Making
  <2>2. Kept(store)' = <<>> /\ written' = written /\ written \in Seq(Info)
    BY <1>1, <1>4, Empties
  <2>3. written' = written \o <<>>
    BY <2>2
  <2> QED BY <1>1, <2>1, <2>2, <2>3 DEF TailFound, TailFresh
<1>5. CASE WriteInfo(First)
  <2> DEFINE e == StoreInfo(Outs[kid[First].k])
  <2>1. /\ e \in Info /\ Kept(store) \in Seq(Info) /\ Kept(store)' = Append(Kept(store), e)
        /\ written' = Append(written, e)
    BY <1>1, <1>5, Writes
  <2>2. Kept(found.store) \in Seq(Info) /\ written \in Seq(Info) /\ Kept(found.store)' = Kept(found.store)
    BY <1>1, Empties DEF Kept
  <2> HIDE DEF e
  <2>3. TailFound'
    <3>1. Append(Kept(found.store) \o written, e) = Kept(found.store) \o Append(written, e)
      BY <2>1, <2>2, AppendConcat, Zenon
    <3>2. ASSUME Model \in found.dirs
          PROVE  Kept(store)' = Kept(found.store) \o written'
      <4>1. Kept(store) = Kept(found.store) \o written
        BY <1>1, <3>2 DEF TailFound
      <4> QED BY <2>1, <3>1, <4>1, Zenon
    <3> QED BY <1>1, <2>2, <3>2 DEF TailFound
  <2>4. TailFresh'
    <3>1. Append(lost \o Kept(store), e) = lost \o Append(Kept(store), e)
      BY <1>2, <2>1, AppendConcat, Zenon
    <3>2. ASSUME Model \notin found.dirs
          PROVE  written' = lost \o Kept(store)'
      <4>1. written = lost \o Kept(store)
        BY <1>2, <3>2
      <4> QED BY <2>1, <3>1, <4>1, Zenon
    <3> QED BY <1>1, <3>2 DEF TailFresh
  <2> QED BY <2>3, <2>4
<1> QED BY <1>1, <1>3, <1>4, <1>5, Notes

LEMMA SInvAlways == Spec => []SInv
<1>1. Init => SInv
  <2> SUFFICES ASSUME Init PROVE SInv
    OBVIOUS
  <2>1. TInv /\ \A c \in Kids : kid[c] = Idle
    BY InitTypes DEF Init
  <2>2. OnlyFirst /\ FoundThere
    BY <2>1 DEF Init, OnlyFirst, FoundThere, Idle, Making
  <2>3. /\ store = found.store /\ written = <<>> /\ Kept(found.store) \in Seq(Info)
        /\ Model \notin found.dirs => Kept(found.store) = <<>>
    BY <2>1, Empties DEF Init
  <2>4. TailFound
    BY <2>3 DEF TailFound
  <2>5. TailFresh
    <3>1. <<>> \in Seq(Info) /\ <<>> \o <<>> = <<>>
      OBVIOUS
    <3> QED BY <2>3, <3>1 DEF TailFresh
  <2> QED BY <2>1, <2>2, <2>4, <2>5 DEF SInv
<1>2. SInv /\ [Next]_vars => SInv'
  BY NextTypes, OnlyFirstKept, FoundThereKept, TailKept DEF SInv
<1> QED BY <1>1, <1>2, PTL DEF Spec

LEMMA TailOf ==
  ASSUME NEW S, NEW s \in Seq(S), NEW t \in Seq(S)
  PROVE  /\ Len(s) \in 0 .. Len(s \o t)
         /\ SubSeq(s \o t, Len(s) + 1, Len(s \o t)) = t
  OBVIOUS

\* prodCreateModelDir and prodWriteStoreInfo (FileIO.cpp): whatever the children do,
\* and however many make the directory at the same time, the record is what was
\* found followed by what the first child wrote, or, in a new directory, the last
\* part of what it wrote.
THEOREM RecordStands == Spec => []RecordTail
<1>1. SInv => RecordTail
  <2> SUFFICES ASSUME SInv PROVE RecordTail
    OBVIOUS
  <2>1. CASE Model \in found.dirs
    BY <2>1 DEF SInv, TailFound, RecordTail
  <2>2. CASE Model \notin found.dirs
    <3>1. PICK lost \in Seq(Info) : written = lost \o Kept(store)
      BY <2>2 DEF SInv, TailFresh
    <3>2. Kept(store) \in Seq(Info)
      BY Empties DEF SInv
    <3>3. /\ Len(lost) \in 0 .. Len(written)
          /\ Kept(store) = SubSeq(written, Len(lost) + 1, Len(written))
      BY <3>1, <3>2, TailOf
    <3> QED BY <2>2, <3>3 DEF RecordTail
  <2> QED BY <2>1, <2>2
<1> QED BY <1>1, SInvAlways, PTL

-------------------------------------------------------------------------------
(* The record where no two children can make the directory together *)

\* Of a batch of one child, one runs at a time.
LEMMA OneAlive ==
  ASSUME TInv, Window, Batch = 1,
         NEW c \in Kids, NEW d \in Kids,
         kid[c].pc \notin {"off", "reaped"}, kid[d].pc \notin {"off", "reaped"}
  PROVE  c = d
<1>1. it \in Nat /\ forked \in 0 .. 1
  BY DEF TInv, TypeOK
<1>2. c[1] = d[1] /\ {c[2], d[2]} \subseteq (it - forked) .. (it - 1)
  BY DEF Window
<1>3. c = <<c[1], c[2]>> /\ d = <<d[1], d[2]>> /\ c[2] \in Nat /\ d[2] \in Nat
  BY FirstIs
<1>4. c[2] = d[2]
  BY <1>1, <1>2, <1>3
<1> QED BY <1>2, <1>3, <1>4, Zenon

\* The first child's batch has no other child in it.
Alone == Batch = 1 \/ TrainNum = 1

LEMMA NotTogether ==
  ASSUME TInv, Window, Alone, NEW c \in Kids \ {First}, kid[c].pc \notin {"off", "reaped"}
  PROVE  kid[First].pc \in {"off", "reaped"}
<1>1. CASE Batch = 1
  BY <1>1, OneAlive, FirstIs
<1>2. CASE TrainNum = 1
  <2>1. c[1] # "train"
    BY <1>2, FirstIs DEF First, Num
  <2> QED BY <2>1, FirstIs DEF Window, First
<1> QED BY <1>1, <1>2 DEF Alone

\* What the record must say of the first child's stores by now.
ToNote(r) == IF r.round > 1 THEN Names(Infos) ELSE {Infos[j] : j \in 1 .. (r.k - 1)}
Recorded  == Names(written) \subseteq Names(Infos) /\ ToNote(kid[First]) \subseteq Names(written)

\* The first child makes the directory in its first round, if at all, before it
\* has written anything; past that, the directory is there.
Met(r)   == r.round > 1 \/ r.k > 0 \/ r.pc \in {"subdirs", "create", "load", "py"}
FirstOf  ==
  /\ kid[First].pc = "off" => kid[First] = Idle
  /\ kid[First].pc \in Making => kid[First].round = 1
  /\ Met(kid[First]) => Model \in dirs
  /\ kid[First].round = 1 /\ kid[First].k = 0 => written = <<>>

\* Another child makes it only if the first was never born.
OthersOf == phase # "abort" /\ Alone =>
              \A c \in Kids \ {First} : kid[c].pc \in Making => kid[First].pc = "off"

Whole == phase # "abort" /\ Alone /\ Model \notin found.dirs => Kept(store) = written

RInv == SInv /\ Window /\ Unforked /\ Through /\ Recorded /\ FirstOf /\ OthersOf /\ Whole

\* How far the first child comes with a step.
LEMMA Comes ==
  ASSUME TInv, [Next]_vars
  PROVE  \/ /\ kid'[First].round = kid[First].round /\ kid'[First].k = kid[First].k
            /\ UNCHANGED written
         \/ GenTemplate(First)
         \/ WriteInfo(First)
         \/ \E c \in Kids \ {First} : WriteInfo(c)
<1>1. /\ kid \in [Kids -> [pc : KidPC, round : 1 .. (Rounds + 1), k : 0 .. Len(Outs)]]
      /\ First \in Kids
  BY FirstIs DEF TInv, TypeOK
<1>2. CASE ParentStep
  BY <1>1, <1>2, ParentMoves DEF tree, hist
<1>3. ASSUME NEW c \in Kids \ {First}, KidStep(c) \/ Die(c), ~ WriteInfo(c)
      PROVE  kid'[First] = kid[First] /\ UNCHANGED written
  <2>1. kid'[First] = kid[First]
    BY <1>1, <1>3, KidStays
  <2> QED BY <1>3, <2>1 DEF KidStep, Die, TestDir, Mkdir, Subdirs, CreateStore, WriteLoad,
       GenTemplate, WriteStore, Exit, tree, hist
<1>4. ASSUME KidStep(First) \/ Die(First), ~ WriteInfo(First), ~ GenTemplate(First)
      PROVE  /\ kid'[First].round = kid[First].round /\ kid'[First].k = kid[First].k
             /\ UNCHANGED written
  <2>1. ASSUME NEW pc, Goes(First, pc)
        PROVE kid'[First].round = kid[First].round /\ kid'[First].k = kid[First].k
    BY <1>1, <2>1 DEF Goes
  <2>2. \E pc \in KidPC : Goes(First, pc)
    BY <1>4 DEF KidStep, Die, TestDir, Mkdir, Subdirs, CreateStore, WriteLoad,
       WriteStore, Exit, KidPC
  <2>3. UNCHANGED written
    BY <1>4 DEF KidStep, Die, TestDir, Mkdir, Subdirs, CreateStore, WriteLoad,
       WriteStore, Exit, tree, hist
  <2> QED BY <2>1, <2>2, <2>3
<1>5. CASE UNCHANGED vars
  BY <1>5 DEF vars, tree, hist
<1> QED BY <1>2, <1>3, <1>4, <1>5 DEF Next

LEMMA NamesAppend ==
  \A s \in Seq(Info) : \A i \in Info : Names(Append(s, i)) = Names(s) \cup {i}
<1> SUFFICES ASSUME NEW s \in Seq(Info), NEW i \in Info
             PROVE  Names(Append(s, i)) = Names(s) \cup {i}
  OBVIOUS
<1>1. Len(s) \in Nat /\ DOMAIN Append(s, i) = 1 .. (Len(s) + 1) /\ DOMAIN s = 1 .. Len(s)
  OBVIOUS
<1>2. \A j \in 1 .. (Len(s) + 1) : Append(s, i)[j] = IF j = Len(s) + 1 THEN i ELSE s[j]
  OBVIOUS
<1> QED BY <1>1, <1>2 DEF Names

LEMMA RecordedKept ==
  ASSUME TInv, OnlyFirst, Recorded, [Next]_vars
  PROVE  Recorded'
<1>0. Len(Outs) \in Nat \ {0}
  BY Constants
<1>1. kid \in [Kids -> [pc : KidPC, round : 1 .. (Rounds + 1), k : 0 .. Len(Outs)]]
      /\ First \in Kids /\ written \in Seq(Info) /\ ShapeOf(kid[First])
  BY FirstIs DEF TInv, TypeOK, Shape
<1>2. /\ kid[First] \in [pc : KidPC, round : 1 .. (Rounds + 1), k : 0 .. Len(Outs)]
      /\ kid[First].k \in 0 .. Len(Outs) /\ kid[First].round \in Nat
  BY <1>1, ConstAssumption
<1>3. Names(Infos) = {Infos[j] : j \in 1 .. Len(Outs)}
  BY <1>0 DEF Names, Infos
<1>4. CASE /\ kid'[First].round = kid[First].round /\ kid'[First].k = kid[First].k
           /\ UNCHANGED written
  BY <1>4 DEF Recorded, ToNote
<1>5. CASE GenTemplate(First)
  <2>1. UNCHANGED written /\ kid'[First] = NextCall(kid[First]) /\ kid[First].k = 0
    BY <1>1, <1>5 DEF GenTemplate, Advance, ShapeOf, hist
  <2>2. kid'[First].round = kid[First].round /\ kid'[First].k = 1
    BY <2>1, <1>0, <1>2 DEF NextCall
  <2>3. ToNote(kid'[First]) \subseteq ToNote(kid[First])
    BY <2>2 DEF ToNote
  <2> QED BY <2>1, <2>3 DEF Recorded
<1>6. CASE WriteInfo(First)
  <2> DEFINE k == kid[First].k
             e == StoreInfo(Outs[k])
  <2>1. kid'[First] = NextCall(kid[First])
    BY <1>1, <1>6 DEF WriteInfo, Advance
  <2>2. k \in 1 .. Len(Outs) /\ e \in Info /\ written' = Append(written, e)
    BY <1>6, Writes
  <2>3. e = Infos[k]
    BY <2>2 DEF Infos
  <2>4. Names(written') = Names(written) \cup {e}
    <3>1. \A s \in Seq(Info) : \A i \in Info : Names(Append(s, i)) = Names(s) \cup {i}
      BY NamesAppend
    <3> QED BY <1>1, <2>2, <3>1, Zenon
  <2>5. e \in Names(Infos)
    BY <1>3, <2>2, <2>3
  <2>6. ToNote(kid'[First]) \subseteq Names(written) \cup {e}
    <3>1. CASE kid[First].round > 1
      <4>1. Names(Infos) \subseteq Names(written)
        BY <3>1 DEF Recorded, ToNote
      <4>2. ToNote(kid'[First]) \subseteq Names(Infos)
        BY <1>3, <1>2, <2>1, <2>2, <1>0, <3>1 DEF ToNote, NextCall
      <4> QED BY <4>1, <4>2
    <3>2. CASE ~ kid[First].round > 1
      <4>1. \A j \in 1 .. (k - 1) : Infos[j] \in Names(written)
        BY <3>2 DEF Recorded, ToNote
      <4>2. \A j \in 1 .. k : Infos[j] \in Names(written) \cup {e}
        BY <2>2, <2>3, <4>1
      <4> HIDE DEF e
      <4>3. CASE k = Len(Outs)
        BY <4>2, <4>3, <2>1, <1>3, <1>2, <3>2 DEF ToNote, NextCall
      <4>4. CASE k # Len(Outs)
        <5>1. kid'[First].round = kid[First].round /\ kid'[First].k = k + 1
          BY <4>4, <2>1 DEF NextCall
        <5> QED BY <4>2, <5>1, <2>2, <3>2 DEF ToNote
      <4> QED BY <4>3, <4>4
    <3> QED BY <3>1, <3>2
  <2> HIDE DEF e
  <2> QED BY <2>4, <2>5, <2>6 DEF Recorded
<1>7. ASSUME NEW c \in Kids \ {First} PROVE ~ WriteInfo(c)
  BY DEF WriteInfo, OnlyFirst
<1> QED BY <1>4, <1>5, <1>6, <1>7, Comes

LEMMA FirstOfKept ==
  ASSUME TInv, OnlyFirst, FirstOf, [Next]_vars
  PROVE  FirstOf'
<1>1. /\ kid \in [Kids -> [pc : KidPC, round : 1 .. (Rounds + 1), k : 0 .. Len(Outs)]]
      /\ First \in Kids /\ ShapeOf(kid[First]) /\ ShapeOf(kid'[First])
      /\ kid[First] \in [pc : KidPC, round : 1 .. (Rounds + 1), k : 0 .. Len(Outs)]
  BY FirstIs, NextTypes DEF TInv, TypeOK, Shape
<1>2. dirs \subseteq dirs'
  BY DirsKept
<1>0. Rounds \in Nat \ {0} /\ Len(Outs) \in Nat \ {0}
  BY Constants, ConstAssumption
\* Nothing is written before the first store.
<1>3. kid'[First].round = 1 /\ kid'[First].k = 0 => written' = <<>>
  <2>1. CASE GenTemplate(First) \/ WriteInfo(First)
    <3>1. kid'[First] = NextCall(kid[First])
      BY <1>1, <2>1 DEF GenTemplate, WriteInfo, Advance
    <3>2. kid'[First].k = 0 => kid'[First].round > 1
      BY <1>0, <1>1, <3>1 DEF NextCall
    <3> QED BY <3>2
  <2>2. \A c \in Kids \ {First} : ~ WriteInfo(c)
    BY DEF WriteInfo, OnlyFirst
  <2> QED BY <2>1, <2>2, Comes DEF FirstOf
<1>4. CASE UNCHANGED kid
  BY <1>2, <1>3, <1>4 DEF FirstOf
<1>5. CASE ParentStep
  <2>1. CASE kid'[First] = kid[First]
    BY <1>2, <1>3, <2>1 DEF FirstOf
  <2>2. CASE kid'[First] # kid[First]
    <3>1. PICK pc \in {"main", "reaped"} : kid'[First] = [kid[First] EXCEPT !.pc = pc]
      BY <1>1, <1>5, <2>2, ParentMoves
    <3>2. kid'[First].pc \notin {"off", "subdirs", "create", "load", "py"} \cup Making
      BY <1>1, <3>1 DEF Making
    <3>3. Met(kid'[First]) => Met(kid[First])
      BY <1>1, <3>1, <3>2 DEF Met
    <3> QED BY <1>2, <1>3, <3>2, <3>3 DEF FirstOf
  <2> QED BY <2>1, <2>2
<1>6. ASSUME NEW c \in Kids \ {First}, KidStep(c) \/ Die(c) PROVE FirstOf'
  <2>1. kid'[First] = kid[First]
    BY <1>1, <1>6, KidStays
  <2> QED BY <1>2, <1>3, <2>1 DEF FirstOf
<1>7. ASSUME KidStep(First) \/ Die(First) PROVE FirstOf'
  <2>1. kid'[First].pc # "off" /\ kid[First].pc # "off"
    BY <1>1, <1>7, KidStays DEF Alive
  <2>2. ASSUME NEW pc \in KidPC, Goes(First, pc)
        PROVE  /\ kid'[First].pc = pc
               /\ kid'[First].round = kid[First].round /\ kid'[First].k = kid[First].k
    BY <1>1, <2>2 DEF Goes
  <2>3. CASE TestDir(First)
    <3>1. CASE Model \in dirs
      <4>1. kid'[First].pc = "load"
        BY <1>1, <2>2, <2>3, <3>1 DEF TestDir, KidPC
      <4> QED BY <1>2, <1>3, <3>1, <4>1 DEF FirstOf, Making
    <3>2. CASE Model \notin dirs
      <4>1. Goes(First, "mkdir")
        BY <2>3, <3>2 DEF TestDir
      <4>2. kid[First].round = 1 /\ kid[First].k = 0
        BY <1>1, <3>2 DEF FirstOf, Met
      <4>3. kid'[First].pc = "mkdir" /\ kid'[First].round = 1 /\ kid'[First].k = 0
        BY <2>2, <4>1, <4>2 DEF KidPC
      <4>4. ~ Met(kid'[First])
        BY <4>3 DEF Met
      <4> QED BY <1>3, <4>3, <4>4 DEF FirstOf
    <3> QED BY <3>1, <3>2
  <2>4. CASE Mkdir(First)
    <3>1. Model \in dirs' /\ kid'[First].round = 1
      BY <1>1, <2>2, <2>4 DEF Mkdir, FirstOf, Making, KidPC
    <3> QED BY <1>3, <2>1, <3>1 DEF FirstOf
  <2>5. CASE Subdirs(First)
    <3>1. Model \in dirs' /\ kid'[First].round = 1
      BY <1>1, <1>2, <2>2, <2>5 DEF Subdirs, FirstOf, Making, Met, KidPC
    <3> QED BY <1>3, <2>1, <3>1 DEF FirstOf
  <2>6. CASE ~ (TestDir(First) \/ Mkdir(First) \/ Subdirs(First))
    <3>1. kid'[First].pc \notin {"subdirs", "create"} \cup Making
      BY <1>1, <1>7, <2>6 DEF KidStep, Die, CreateStore, WriteLoad, GenTemplate, WriteStore,
         WriteInfo, Exit, Goes, Advance, NextCall, Making
    <3>2. Met(kid'[First]) => Met(kid[First])
      <4>1. CASE Advance(First)
        <5>1. kid[First].pc \in {"load", "py", "info"} \/ kid[First].k > 0
          BY <1>1, <1>7, <2>6, <4>1 DEF KidStep, Die, CreateStore, WriteLoad, GenTemplate,
             WriteStore, WriteInfo, Exit, Goes, Advance, NextCall
        <5> QED BY <1>1, <5>1 DEF Met, ShapeOf
      <4>2. CASE ~ Advance(First)
        <5>1. \/ CreateStore(First) \/ Exit(First) \/ Die(First)
              \/ WriteLoad(First) \/ WriteStore(First)
          BY <1>7, <2>6, <4>2 DEF KidStep, GenTemplate, WriteInfo
        <5>2. \/ Met(kid[First])
              \/ \E pc \in KidPC \ {"subdirs", "create", "load", "py"} : Goes(First, pc)
          <6>1. CASE Exit(First) \/ Die(First)
            BY <6>1 DEF Exit, Die, KidPC
          <6>2. CASE CreateStore(First) \/ WriteLoad(First)
            BY <6>2 DEF CreateStore, WriteLoad, Met
          <6>3. CASE WriteStore(First)
            BY <1>1, <6>3 DEF WriteStore, Met
          <6> QED BY <5>1, <6>1, <6>2, <6>3
        <5>3. ASSUME NEW pc \in KidPC \ {"subdirs", "create", "load", "py"}, Goes(First, pc)
              PROVE  Met(kid'[First]) => Met(kid[First])
          BY <1>1, <2>2, <5>3 DEF Met
        <5> QED BY <5>2, <5>3
      <4> QED BY <4>1, <4>2
    <3> QED BY <1>2, <1>3, <2>1, <3>1, <3>2 DEF FirstOf
  <2> QED BY <2>3, <2>4, <2>5, <2>6
<1>8. CASE UNCHANGED vars
  BY <1>4, <1>8 DEF vars
<1> QED BY <1>5, <1>6, <1>7, <1>8 DEF Next

LEMMA OthersKept ==
  ASSUME TInv, Window, Unforked, Through, FirstOf, OthersOf, [Next]_vars
  PROVE  OthersOf'
<1> SUFFICES ASSUME phase' # "abort", Alone, NEW c \in Kids \ {First}, kid'[c].pc \in Making
             PROVE  kid'[First].pc = "off"
  BY DEF OthersOf, Alone
<1>1. /\ kid \in [Kids -> [pc : KidPC, round : 1 .. (Rounds + 1), k : 0 .. Len(Outs)]]
      /\ First \in Kids /\ c \in Kids /\ it \in Nat
  BY FirstIs DEF TInv, TypeOK
<1>2. phase # "abort"
  <2>1. ParentStep /\ phase = "abort" => FALSE
    BY DEF ParentStep, Fork, EndFork, Reap, EndWait
  <2>2. (\E d \in Kids : KidStep(d) \/ Die(d)) => phase' = phase
    BY KidStays DEF parent
  <2> QED BY <2>1, <2>2 DEF Next, vars, parent
<1>3. kid[c].pc \in Making => kid[First].pc = "off"
  BY <1>2 DEF OthersOf
<1>4. CASE ParentStep
  <2>1. kid[c].pc \in Making /\ kid[c] # Idle
    <3>1. kid'[c] = kid[c] \/ kid'[c].pc \in {"main", "reaped"}
      BY <1>1, <1>4, ParentMoves
    <3> QED BY <3>1 DEF Making, Idle
  <2>2. kid[First].pc = "off"
    BY <1>3, <2>1
  <2>3. CASE Fork
    <3>1. <<phase, it>> # First
      BY <1>1, <2>1, FirstIs DEF Unforked, First
    <3> QED BY <1>1, <2>2, <2>3, <3>1 DEF Fork
  <2>4. CASE Reap
    BY <1>1, <2>2, <2>4 DEF Reap
  <2>5. CASE EndFork \/ EndWait
    BY <2>2, <2>5 DEF EndFork, EndWait
  <2> QED BY <1>4, <2>3, <2>4, <2>5 DEF ParentStep
<1>5. CASE KidStep(First) \/ Die(First)
  <2>1. kid'[c] = kid[c] /\ kid[First].pc # "off"
    BY <1>1, <1>5, KidStays DEF Alive
  <2> QED BY <1>3, <2>1
<1>6. CASE KidStep(c) \/ Die(c)
  <2>1. kid'[First] = kid[First] /\ kid[c].pc \notin {"off", "reaped"}
    BY <1>1, <1>6, KidStays DEF Alive
  <2>2. CASE TestDir(c)
    <3>1. Model \notin dirs
      BY <1>1, <2>2 DEF TestDir, Goes, Making
    <3>2. kid[First].pc \in {"off", "reaped"}
      BY <2>1, NotTogether
    <3>3. kid[First].pc # "reaped"
      BY <1>1, <1>2, <3>1, ConstAssumption DEF Through, FirstOf, Met
    <3> QED BY <2>1, <3>2, <3>3
  <2>3. CASE ~ TestDir(c)
    <3>1. kid[c].pc \in Making
      BY <1>1, <1>6, <2>3 DEF KidStep, Die, Mkdir, Subdirs, CreateStore, WriteLoad, GenTemplate,
         WriteStore, WriteInfo, Exit, Goes, Advance, NextCall, Making
    <3> QED BY <1>3, <2>1, <3>1
  <2> QED BY <2>2, <2>3
<1>7. ASSUME NEW d \in Kids \ {c, First}, KidStep(d) \/ Die(d) PROVE kid'[First].pc = "off"
  BY <1>1, <1>3, <1>7, KidStays
<1>8. CASE UNCHANGED vars
  BY <1>3, <1>8 DEF vars
<1> QED BY <1>4, <1>5, <1>6, <1>7, <1>8 DEF Next

LEMMA WholeKept ==
  ASSUME SInv, FirstOf, OthersOf, Whole, [Next]_vars
  PROVE  Whole'
<1> SUFFICES ASSUME phase' # "abort", Alone, Model \notin found.dirs
             PROVE  Kept(store)' = written'
  BY DirsKept DEF Whole, Alone, SInv
<1>1. TInv /\ OnlyFirst /\ First \in Kids
  BY FirstIs DEF SInv
<1>2. phase # "abort"
  <2>1. ParentStep /\ phase = "abort" => FALSE
    BY DEF ParentStep, Fork, EndFork, Reap, EndWait
  <2>2. (\E d \in Kids : KidStep(d) \/ Die(d)) => phase' = phase
    BY <1>1, KidStays DEF parent
  <2> QED BY <2>1, <2>2 DEF Next, vars, parent
<1>3. Kept(store) = written
  BY <1>2 DEF Whole
<1>4. CASE UNCHANGED <<store, written>>
  BY <1>3, <1>4 DEF Kept
<1>5. ASSUME NEW c \in Kids, CreateStore(c) PROVE Kept(store)' = written'
  <2>1. kid[c].pc \in Making
    BY <1>5 DEF CreateStore, Making
  <2>2. kid[First].round = 1 /\ kid[First].k = 0
    <3>1. CASE c = First
      BY <1>1, <2>1, <3>1 DEF FirstOf, Making, TInv, Shape, ShapeOf
    <3>2. CASE c # First
      BY <1>2, <2>1, <3>2 DEF OthersOf, FirstOf, Idle
    <3> QED BY <3>1, <3>2
  <2>3. written = <<>>
    BY <2>2 DEF FirstOf
  <2> QED BY <1>1, <1>5, <2>3, Empties
<1>6. CASE WriteInfo(First)
  BY <1>1, <1>3, <1>6, Writes
<1> QED BY <1>1, <1>4, <1>5, <1>6, Notes

LEMMA RInvAlways == Spec => []RInv
<1>1. Init => Window /\ Unforked /\ Through /\ Recorded /\ FirstOf /\ OthersOf /\ Whole
  <2> SUFFICES ASSUME Init
               PROVE  Window /\ Unforked /\ Through /\ Recorded /\ FirstOf /\ OthersOf /\ Whole
    OBVIOUS
  <2>1. TInv /\ First \in Kids /\ written = <<>> /\ store = found.store
        /\ \A c \in Kids : kid[c] = Idle
    BY InitTypes, FirstIs DEF Init
  <2>2. Window /\ Unforked /\ Through /\ OthersOf
    BY <2>1 DEF Window, Unforked, Through, OthersOf, Idle, Making
  <2>3. Recorded
    BY <2>1 DEF Recorded, ToNote, Names, Idle
  <2>4. FirstOf
    BY <2>1 DEF FirstOf, Met, Idle, Making
  <2>5. Whole
    BY <2>1, Empties DEF Whole
  <2> QED BY <2>2, <2>3, <2>4, <2>5
<1>2. SInv /\ RInv /\ [Next]_vars =>
        (Window /\ Unforked /\ Through /\ Recorded /\ FirstOf /\ OthersOf /\ Whole)'
  BY WindowKept, UnforkedKept, ThroughKept, RecordedKept, FirstOfKept, OthersKept, WholeKept
     DEF RInv, SInv
<1>3. RInv <=> SInv /\ (Window /\ Unforked /\ Through /\ Recorded /\ FirstOf /\ OthersOf /\ Whole)
  BY DEF RInv
<1> QED BY <1>1, <1>2, <1>3, SInvAlways, PTL DEF Spec

\* sprodInit, prodCreateModelDir and prodWriteStoreInfo: when no two children can
\* make the directory together, because it was there or because the first child's
\* batch has no other, a production that ends well and had its first child keeps
\* all of the record it found and adds all of that child's, every store of it.
THEOREM RecordSafe == Spec => []RecordKept
<1>1. ASSUME RInv PROVE RecordKept
  <2> SUFFICES ASSUME phase = "done", kid[First].pc = "reaped", Model \in found.dirs \/ Alone
               PROVE  /\ Kept(store) = Kept(found.store) \o written
                      /\ Names(written) = Names(Infos)
    BY DEF RecordKept, Alone
  <2>1. TInv /\ First \in Kids /\ written \in Seq(Info)
    BY <1>1, FirstIs DEF RInv, SInv, TInv, TypeOK
  <2>2. kid[First].round > 1
    BY <1>1, <2>1, ConstAssumption DEF RInv, Through, TInv, TypeOK
  <2>3. Names(written) = Names(Infos)
    BY <1>1, <2>2 DEF RInv, Recorded, ToNote
  <2>4. CASE Model \in found.dirs
    BY <1>1, <2>3, <2>4 DEF RInv, SInv, TailFound
  <2>5. CASE Model \notin found.dirs
    <3>1. Kept(store) = written
      BY <1>1, <2>5 DEF RInv, Whole
    <3>2. Kept(found.store) = <<>>
      BY <2>1, <2>5, Empties
    <3>3. <<>> \o written = written
      BY <2>1
    <3> QED BY <2>3, <3>1, <3>2, <3>3
  <2> QED BY <2>4, <2>5
<1> QED BY <1>1, RInvAlways, PTL

-------------------------------------------------------------------------------
(* No assertion fails in a child *)

\* Past the test or the making of it, the model's directory is there; when an
\* ensemble's children come one at a time, so are the directories in it.
Loading == \A c \in Kids : kid[c].pc \in {"subdirs", "create", "load"} => Model \in dirs
Laid    == \A c \in Kids : kid[c].pc = "load" => Places \subseteq dirs
Built   ==
  /\ Model \in dirs => Places \subseteq dirs \/ \E c \in Kids : kid[c].pc = "subdirs"
  /\ \A c \in Kids : kid[c].pc \in {"create", "load"} => Places \subseteq dirs

AInv == TInv /\ Window /\ Loading /\ NoAbort

LEMMA LoadingKept ==
  ASSUME TInv, Loading, [Next]_vars
  PROVE  Loading'
<1>1. kid \in [Kids -> [pc : KidPC, round : 1 .. (Rounds + 1), k : 0 .. Len(Outs)]]
  BY DEF TInv, TypeOK
<1>2. Model \in dirs => Model \in dirs'
  BY DirsKept
<1>3. CASE ParentStep
  BY <1>1, <1>2, <1>3, ParentMoves DEF Loading
<1>4. ASSUME NEW c \in Kids, KidStep(c) \/ Die(c) PROVE Loading'
  <2>1. kid'[c].pc \in {"subdirs", "create", "load"} => Model \in dirs'
    <3>1. CASE TestDir(c) \/ CreateStore(c)
      BY <1>1, <1>2, <3>1 DEF TestDir, CreateStore, Goes, Loading
    <3>2. CASE Mkdir(c)
      BY <3>2 DEF Mkdir
    <3>3. CASE Subdirs(c)
      BY <1>1, <1>2, <3>3 DEF Subdirs, Goes, Loading
    <3>4. CASE ~ (TestDir(c) \/ CreateStore(c) \/ Mkdir(c) \/ Subdirs(c))
      BY <1>1, <1>4, <3>4 DEF KidStep, Die, WriteLoad, GenTemplate, WriteStore, WriteInfo, Exit,
         Goes, Advance, NextCall
    <3> QED BY <3>1, <3>2, <3>3, <3>4
  <2>2. \A d \in Kids \ {c} : kid'[d] = kid[d]
    BY <1>4, KidStays
  <2> QED BY <1>2, <2>1, <2>2 DEF Loading
<1>5. CASE UNCHANGED vars
  BY <1>5 DEF vars, tree, Loading
<1> QED BY <1>3, <1>4, <1>5 DEF Next

LEMMA BuiltKept ==
  ASSUME TInv, Window, Built, [Next]_vars, Batch = 1, Ensemble, ~ ChildDies
  PROVE  Built'
<1>1. kid \in [Kids -> [pc : KidPC, round : 1 .. (Rounds + 1), k : 0 .. Len(Outs)]]
  BY DEF TInv, TypeOK
<1>2. Places \subseteq dirs => Places \subseteq dirs'
  BY DirsKept
<1>3. CASE ParentStep
  <2>1. dirs' = dirs
    BY <1>3, ParentMoves DEF tree
  <2>2. ASSUME NEW c \in Kids PROVE kid[c].pc = "subdirs" => kid'[c].pc = "subdirs"
    <3>1. CASE Fork
      <4>1. \A d \in Kids : kid[d].pc \notin {"off", "reaped"} => d # <<phase, it>>
        <5>1. it \in Nat /\ \A i \in (it - forked) .. (it - 1) : i # it
          BY DEF TInv, TypeOK
        <5> QED BY <5>1 DEF Window
      <4> QED BY <1>1, <3>1, <4>1 DEF Fork
    <3>2. CASE ~ Fork
      BY <1>1, <1>3, <3>2 DEF ParentStep, Reap, EndFork, EndWait
    <3> QED BY <3>1, <3>2
  <2>3. \A c \in Kids : kid'[c].pc \in {"create", "load"} => kid[c].pc = kid'[c].pc
    BY <1>1, <1>3, ParentMoves
  <2> QED BY <2>1, <2>2, <2>3 DEF Built
<1>4. ASSUME NEW c \in Kids, KidStep(c) \/ Die(c) PROVE Built'
  <2>1. \A d \in Kids \ {c} : kid[d].pc \in {"off", "reaped"} /\ kid'[d] = kid[d]
    BY <1>4, KidStays, OneAlive DEF Alive
  <2>2. CASE TestDir(c)
    <3>1. kid[c].pc = "main" /\ dirs' = dirs
      BY <2>2 DEF TestDir, tree
    <3>2. Model \in dirs => Places \subseteq dirs
      BY <2>1, <3>1 DEF Built
    <3>3. kid'[c].pc \in {"create", "load"} => Model \in dirs
      BY <1>1, <2>2 DEF TestDir, Goes
    <3> QED BY <2>1, <3>1, <3>2, <3>3 DEF Built
  <2>3. CASE Mkdir(c)
    <3>1. kid'[c].pc = "subdirs"
      BY <1>1, <2>3 DEF Mkdir, Goes
    <3> QED BY <2>1, <3>1 DEF Built
  <2>4. CASE Subdirs(c) \/ GenTemplate(c)
    <3>1. Places \subseteq dirs'
      BY <2>4 DEF Subdirs, GenTemplate, Places
    <3> QED BY <3>1 DEF Built
  <2>5. CASE CreateStore(c) \/ WriteLoad(c) \/ WriteStore(c) \/ WriteInfo(c) \/ Exit(c) \/ Die(c)
    <3>1. dirs' = dirs
      BY <2>5 DEF CreateStore, WriteLoad, WriteStore, WriteInfo, Exit, Die, tree
    <3>2. kid'[c].pc \in {"create", "load"} => kid[c].pc \in {"create", "load"}
      BY <1>1, <2>5 DEF CreateStore, WriteLoad, WriteStore, WriteInfo, Exit, Die, Goes, Advance,
         NextCall
    <3>3. CASE kid[c].pc = "subdirs"
      <4>1. ~ Die(c)
        BY DEF Die
      <4> QED BY <2>5, <3>3, <4>1 DEF CreateStore, WriteLoad, WriteStore, WriteInfo, Exit
    <3>4. CASE kid[c].pc # "subdirs"
      <4>1. Model \in dirs => Places \subseteq dirs
        BY <2>1, <3>4 DEF Built
      <4> QED BY <2>1, <3>1, <3>2, <4>1 DEF Built
    <3> QED BY <3>3, <3>4
  <2> QED BY <1>4, <2>2, <2>3, <2>4, <2>5 DEF KidStep
<1>5. CASE UNCHANGED vars
  BY <1>5 DEF vars, tree, Built
<1> QED BY <1>3, <1>4, <1>5 DEF Next

\* The children's assertions hold (prodWriteLoadData): what a child finds of the
\* directory is all of it, if the model is a single one, if all of an ensemble's
\* directories are there from the start, or if its children come one at a time and
\* nothing is there.  Otherwise an ensemble's child that meets the directory while
\* another makes it, or as an earlier production left it, fails for want of the
\* directories in it.
THEOREM AbortsNever ==
  ASSUME ~ ChildDies
  PROVE  Spec /\ (~ Ensemble \/ Places \subseteq dirs \/ (Batch = 1 /\ Model \notin dirs))
         => []NoAbort
<1>1. Init => AInv
  BY InitTypes DEF Init, Idle, NoAbort, AInv, Loading, Window
<1>2. ASSUME AInv, Laid, [Next]_vars PROVE NoAbort'
  <2>1. kid \in [Kids -> [pc : KidPC, round : 1 .. (Rounds + 1), k : 0 .. Len(Outs)]]
    BY <1>2 DEF AInv, TInv, TypeOK
  <2>2. CASE ParentStep
    BY <1>2, <2>1, <2>2, ParentMoves DEF AInv, NoAbort
  <2>3. ASSUME NEW c \in Kids, KidStep(c) \/ Die(c) PROVE NoAbort'
    <3>1. ~ Die(c)
      BY DEF Die
    <3>2. kid'[c].pc # "abort"
      BY <1>2, <2>1, <2>3, <3>1 DEF KidStep, TestDir, Mkdir, Subdirs, CreateStore, WriteLoad,
         GenTemplate, WriteStore, WriteInfo, Exit, Goes, Advance, NextCall, Laid
    <3>3. \A d \in Kids \ {c} : kid'[d] = kid[d]
      BY <1>2, <2>3, KidStays DEF AInv
    <3> QED BY <1>2, <3>2, <3>3 DEF AInv, NoAbort
  <2>4. CASE UNCHANGED vars
    BY <1>2, <2>4 DEF AInv, NoAbort, vars
  <2> QED BY <1>2, <2>2, <2>3, <2>4 DEF Next
<1>3. AInv /\ Laid /\ [Next]_vars => AInv'
  BY <1>2, LoadingKept, NextTypes, WindowKept DEF AInv
<1>4. AInv => NoAbort
  BY DEF AInv
<1>5. CASE ~ Ensemble
  <2>1. AInv => Laid
    BY <1>5 DEF AInv, Loading, Laid, Places
  <2> QED BY <1>1, <1>3, <1>4, <2>1, PTL DEF Spec
<1>6. CASE Ensemble
  <2>1. AInv /\ Places \subseteq dirs /\ [Next]_vars => (Places \subseteq dirs)'
    BY DirsKept DEF AInv
  <2>2. Places \subseteq dirs => Laid
    BY DEF Laid
  <2>3. Spec /\ Places \subseteq dirs => []NoAbort
    BY <1>1, <1>3, <1>4, <2>1, <2>2, PTL DEF Spec
  <2>4. CASE Batch = 1
    <3>1. Init /\ Model \notin dirs => Built
      BY DEF Init, Idle, Built
    <3>2. AInv /\ Built /\ [Next]_vars => Built'
      BY <1>6, <2>4, BuiltKept DEF AInv
    <3>3. Built => Laid
      BY DEF Built, Laid
    <3>4. Spec /\ Model \notin dirs => []NoAbort
      BY <1>1, <1>3, <1>4, <3>1, <3>2, <3>3, PTL DEF Spec
    <3> QED BY <1>6, <2>3, <3>4, PTL
  <2>5. CASE ~ (Batch = 1)
    BY <1>6, <2>3, <2>5, PTL
  <2> QED BY <2>4, <2>5
<1> QED BY <1>5, <1>6
===============================================================================
