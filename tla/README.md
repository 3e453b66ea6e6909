# A formal model of Autonomizer

Autonomizer turns a program into one whose decisions are taken by a neural
network. The program is linked with a library (`src/src/ProgIntel.cpp`), which in
a *production* run writes training data and generates a model, in a *training*
run learns while the program plays, and in a *test* run lets the network answer.
Long trainings run in a virtual machine that a server on the host saves and
restores (`src/src/CheckPoint`). This directory is the TLA+ development kept
beside that code: models, TLC runs, and proofs for TLAPS.

## 1. Inventory

| part | source | state | operations | hard behaviour |
|---|---|---|---|---|
| CPIO | `CheckPoint/CPIO.cpp` | pointer, remaining count | `cpRead`, `cpWrite` | split transfers, EAGAIN, end of file |
| CPClient | `CheckPoint/CPClient.cpp` | socket, `readSockSet`, files in `.ckptClient` | `start`: `doGET`, `doSET`, `doCKP`, `doRES` | 1 s timeouts; its whole state may be replaced by a revert |
| CPServer | `CheckPoint/CPServer.cpp` | descriptors, `activeSockSet`, `ckptReq`, `ckpted`, files | select loop, `serveClient`, `handleCKP`, `handleRES` | one thread for all; 1 s socket timeouts; virsh; crash between any two steps |
| PIContext, checkpointing | `ProgIntel.cpp` 285-319 | `checkpointed` | `checkpoint`, `restore` | what it means to have been restored |
| PIContext, production | `ProgIntel.cpp` 137-213, 425-636 | argument iterators, `storeModelMap` | `sprodInit`, `nnInternal`, `store` | ten forked children sharing a directory |
| FileIO | `FileIO.cpp` | model directories, data and `.store` files | `prod*`, `readStoreInfo` | check-then-create, truncation, format, what a production that died leaves |
| PIContext, DataContext | `ProgIntel.cpp`, `DataContext.hpp` | `loadMap`, `storeMap` | `load`, `loadCB`, `nn`, `store`, `combineLoad` | copies and aliases, stale types and lengths, names that models share |
| PyInterface, PIModelManager | `PyInterface/` | the one cached module | `prod`, `test`, `runModel`, `run` | which module answers, and where its answer goes |
| PINNHelper | `PyInterface/PINNHelper.py` | replay memory, epsilon, `.data`, network, losses, thresholds | `Dataset`, `TFNNSuper`, `TFNNReinf` | sample sizes, saving in two steps, losses measured now and then |
| PyCaller.c | `PyInterface/PyCaller.c` | - | - | not built |
| DyAnalysis | `valgrind-3.13.0/taintgrind/DyAnalysis` | - | batch scripts | - |
| valgrind, taintgrind | `valgrind-3.13.0` | - | - | third party |

How they interact. The program calls the library. `checkpoint()` connects to the
server and sends `CKP`; the server answers `CKN`, or, when its user has typed
`checkpoint`, has virsh take a snapshot of the whole virtual machine and answers
`CKY`; the program then fetches the server's files (`GET`). `restore()` sends
the program's files (`SET`) and, on a second connection, `RES`, on which the
server has virsh revert the machine to the snapshot. The reverted program is in
the middle of waiting for `CKY` on a connection that no longer exists. Its
select times out, it pings the host to bring the network back, and goes on as
if `CKY` had come, fetching the files it had sent before it was reverted.

What makes each part correct:

- CPIO: each call moves exactly the bytes asked for, once and in order, and ends.
- CPClient and CPServer: neither is sent what it does not wait for, and neither reads it out of its place;
  every call returns; every descriptor is closed once; requests are served in
  the order they were made.
- checkpoint/restore: `checkpointed` and `ckpted` mean that a snapshot exists; the
  snapshot is one from which the program resumes; nothing learned is lost with
  the state a revert gives up.
- production: one file per argument line, complete, in one directory tree,
  whatever the children's order and whatever was there; one record of what the model stores.
- run time: Python is shown what the program loaded last; what is stored comes from
  the model that was asked for it, as long as it was recorded, every time alike; the
  records that a production that died left unfinished, another one finishes.
- learning: no transition crosses an episode; the replay memory is bounded and large
  enough when it is sampled; what is on disk belongs together, and a saved network is
  not replaced by less; a training that stops has saved a model that is good enough.

## 2. Plan

1. **Checkpointing** (done): `ByteStream`, `CPIO`, `CPIOProofs`, `SaveRestore`, `Checkpoint`,
   `MCCheckpoint`, `CheckpointProofs`, `BackupProofs`, `PromptProofs`.
2. **Production** (done, supervised part): `Production`, `MCProduction`, `ProductionProofs`.
3. **Run time** (done): `Runtime`, `MCRuntime`, `RuntimeProofs`: the production of
   reinforcement models with its deaths, `readStoreInfo`, loads, calls of `piNN`, stores,
   the cached module.
4. **Learning** (done, but for `TFNNSupEns`, see 6): `Reinf`, `ReinfProofs`, `Super`,
   `SuperProofs`.
5. **Left**: what sendFile's socket timeout (`SO_SNDTIMEO`) does to the protocol (now
   only in `CPIO`); `Dataset` and the scripts of DyAnalysis as pure algorithms; a model
   that is produced with both strategies.

## 3. Modules

### ByteStream and CPIO

`ByteStream` is what the protocol assumes of its transport: pieces of a sequence
of bytes, in order, none lost. A byte is its position, so that a shift shows.

`CPIO` is `CPIO.cpp` between a sender and a receiver with a bounded FIFO between
them. `wlen`, `wptr` and `rlen`, `rptr` are the loops' `writeLen`, `ptr - writeBuf`,
`readLen`, `ptr - readBuf`; `Write` and `Read` are one iteration that moves bytes,
`WriteTimeout` and `ReadTimeout` one in which the system call returns -1 with
EAGAIN, `ReadError` and `WriteError` the assertions on another errno, which the other
end's death (`Close`, `ReaderDies`) brings about. `rbuf` includes the bytes in
front of the buffer, where a negative pointer writes. An iteration in which
`read()` returns 0 changes nothing and is a stutter. Sizes are free (`\E n`), so
every way of splitting the conversation into calls is covered, whether or not
the two sides split it alike.

### SaveRestore

What `checkpoint()` and `restore()` promise to the program: three variables (where the
program is, whether it has been checkpointed, which model files it has) and a step
for each call and each return. `checkpoint()` changes no file; `restore()` takes the
program back to its checkpoint and leaves it the files. There is no server, connection,
snapshot or machine in it. `Checkpoint` implements it (`KeepsPromise`): `Where`, `Marked` and
`Having` are its variables in terms of the detailed state. The calls do not map one to
one. `restore()` returns when `RES` is sent, to a program that is about to be given up:
for the program that goes on, the call ends where doGET ends after the revert.
So between the end of `SET` and that point the files it has are those of the backup, and
neither what it learns before the revert nor what the snapshot brings back counts.

### Checkpoint

One module, because every step of interest concerns two or three of the parties.
The guest is one record `vm`: where its program is (`pc`), `checkpointed` (`chk`),
`clientFD` (`sock`), whether `readSockSet` still holds it (`watch`), and the files of
its directory. A snapshot is a copy of that record, with its socket replaced by
`Stale`, and a revert an assignment of it. The connection a reverted guest
was using at that moment is `lost`: no FIN and no RST tells the server.

| actions | code |
|---|---|
| `CallCheckpoint`, `StartGET`, `CallRestore`, `StartRES`, `CallRefused`, `Refused` | `PIContext::checkpoint`, `restore`, and `connect` in `CPClient::start` |
| `SendCKP`, `RecvCKN`, `RecvCKY`, `CkpTimeout`, `PingDone` | `doCKP` |
| `SendGET`, `RecvSET`, `RecvName`, `RecvBody`, `RecvEOF`, `WaitTimeout` | `doGET`, `recvFile` |
| `SendName`, `SendBody`, `SendEOF`, `RecvEND`, `WaitTimeout` | `doSET`, `sendFile` |
| `SendRES` | `doRES` |
| `ReadReset`, and the first branch of `Send` | the assertions of `cpRead` and `cpWrite` on a reset connection |
| `Select`, `StdinTurn`, `CinLine`, `CinWord`, `Accept`, `Serve`, `Finish` | `CPServer::start` |
| `ServeGET` ... `ServeEND`, `ServeName`, `ServeBody`, `SendFile`, `SendFilesEnd` | `serveClient`, `recvFile`, `sendFile` |
| `ReadTimeout`, `Misread`, `Unsupported` | `SO_RCVTIMEO` as `start` sets it, in `cpRead` under `serveClient`, and the end of it |
| `DeleteSnapshot`, `CreateSnapshot`, `AnswerCKY`, `RevertSnapshot` | `handleCKP`, `handleRES` |
| `Abort`, `Crash`, `Restart` | the server's assertions, its death, `main` |
| `Train`, `Launch`, `Kill`, `Type` | the surroundings: the program being trained, the user |

What is abstracted, and why that is sound here:

- A message is whole: `Hdr`, `Name` (with both lengths) and `Body`. That
  the byte loops deliver whole messages is `CPIO`, as long as no timeout expires.
- A receive timeout of the server (1 s, `CPServer.cpp:111-124`) may expire between
  messages as well as in one: `serveClient` waits in `cpRead` for the next header. Whenever
  the guest has sent nothing (`Slow`, or a guest that was reverted away), `ReadTimeout` takes the
  server to `astray`: one byte too far, which stands for several, since it never gets
  back in step. What then comes is swallowed by `cpRead` (`Misread`), which wants more
  than a header's bytes, or, if it is a `SET` with its name behind it, taken for an
  unknown header (`Unsupported`). The client has no such timeout: it selects.
- The server's send timeout is left out: what `sendFile` writes fits the socket's buffer,
  or the guest reads it within a second.
- A file's content is the version of the model it belongs to, `Torn` between
  `open(..., O_TRUNC)` and the last write. Nothing in the repository fills the
  client's directory: the program being trained does, which is `Train`. It writes any
  of its files and removes none. Neither does `recvFile` at either end, so that a
  program which removed files would find them again after `restore()`:
  `GetBringsBackup` and `KeepsPromise` rest on that.
- Linux's TCP: a listener queues `CP_LISTEN_MAX` + 1 = 2 connections (`QueueMax`); a
  `close` with unread data resets; a write to a closed end is answered by a reset,
  which later reads and writes meet. A reset is seen at once instead of after a
  round trip. A connection's identity is reused when both ends are closed.
- Descriptors: `accept` returns the smallest free one, the loop looks at the
  smallest ready one first, and `serverFD` is below all accepted ones.
- `status` is `PI_TRAIN` throughout; the failures of `socket`, `bind` and `select`
  itself, end of file on stdin and the shutting down of the guest are left out.
- `saved` is a history variable: the files as they were when the guest read `END`.

### Production

`sprodInit` in the parent and the program in each child. A child is a record: where
it is (`pc`), in which round of the program's loop (`round`), and at which call of
the round (`k`: 0 is `piNN`, i the i-th `piStore`). The program itself is `Rounds` times
"`piNN`, then every store", for one model; its loads only fill memory.

| actions | code |
|---|---|
| `Fork`, `EndFork` | the `for` loop of a batch in `sprodInit`, once for each argument file |
| `Reap`, `EndWait` | the `wait` loop with its assertions, and the `while` around it |
| `TestDir`, `Mkdir`, `Subdirs`, `CreateStore` | `nnInternal` calling `prodCreateModelDir`, single model or ensemble |
| `WriteLoad` | `prodWriteLoadData`, and who calls Python |
| `GenTemplate` | `genModelTemplate` |
| `WriteStore`, `WriteInfo` | `store` in `PI_SPROD`: `prodWriteStoreData`, `prodWriteStoreInfo` |
| `Exit`, `Die` | `piEnd` or the end of main; a program that crashes or fails |

A step is one access to what children share. Several system calls are one step
where no other process can tell:

- A child's data file has its own name (`itTrainArgs - trainArgs.begin()` in the
  directory of its phase), so that testing for its directory, making it (`EEXIST`
  is accepted) and writing the file is one step. Only whether the directory above
  exists matters, and that is never removed.
- The sub-directories of an ensemble are made one by one; the model has them
  appear together, between their maker's `mkdir` of the model's directory and its
  `fopen`. Another child that meets some and not others fails as one that meets none.
- `prodWriteStoreInfo` tests for the `.store` file and then opens it to write or to
  append. Only the first child writes to it, and to the others it either appears
  or is emptied. A truncation between the test and the append has the same
  outcome as one before; one that creates the file between the test and the `"w"`
  leaves it empty, as the `"w"` would find it.
- `CreateStore` empties the file whether or not it has anything in it, because
  `fopen` with `"w"` does.

A data file is the sequence of its records, a record what is printed for it: its
name, its announced length and the lines after it, of which three types have one too
many. A production starts from a tree that earlier ones left (`Trees`, any subset of
`Tree`): none, that of another version of the program or of a longer training file
(`Surplus`), or that of a production that died anywhere. `found` is that tree and
`written` what the first child writes into the record, both histories. Left out is a
model that was produced with the other strategy before, and a training file that
changes while it is read. Templates that exist are not overwritten, so that
`templates` only says where there is one.

### Runtime

One process at a time and the disk that survives it. `status` is the library's, `pc`
where a call of a production is between two accesses to the disk. Three kinds of run
follow each other in any order, each of which may die anywhere, and between two the
program may be edited (`Edit`), which changes the lengths of its stores, and so may
the module of a model (`EditTemplate`).

| actions | code |
|---|---|
| `StartProduction`, `Start`, `StartAborts`, `Die` | `init`, `rprodInit`, `runtimeInit` with `readStoreInfo` and its assertions; `piEnd` or a death |
| `Load`, `LoadCB`, `Write` | `load`, `loadCB`, `DataContext::setData`; the program changing its variables |
| `MkDir`, `MkStore`, `GenTemplate`, `TemplateWritten` | `nnInternal` in `PI_RPROD`: `combineLoad`, `prodCreateModelDir`, `genRModelTemplate` |
| `NN`, `NNAborts` | `nnInternal` in `PI_TRAIN` and `PI_TEST`: `combineLoad`, `PyContext::test`, `runModel` |
| `OpenInfo`, `WriteInfo` | `store` in `PI_RPROD`: `prodWriteStoreInfo` |
| `StoreUnasked` | the same for a name that no `piNN` had: `storeModelMap[name]` is a model without a name, and the record goes to `.piDir//.ONE.store`, which nobody reads |
| `Store`, `StoreAborts` | `store`, `storeData` and its assertion |

Data are versions: what a variable held when. A copy holds the version of its last
load, an alias names the variable; a combined load is made of its parts in every call.
An answer is the pair of the model that gave it and the number of the call, so that a
store shows whose answer it hands out, and of when. `last`, `asked`, `stored` are
histories of what the program loaded, asked and recorded; `seen` and `got` what Python
and the program were given in the step just taken. A supervised model may have been
produced before, completely (`Produced`), as `Production` shows.

A module's file is in one of five states (`Template`). What the generators write is
a beginning, to be edited by the model's author (README and comments call it a
template), and does not answer as it is:

- `generated`, by `genRModelTemplate`: its `train`, `test` and `run` end in `return result`, a name
  that they do not define (`PIModelManager.py:253`, `271`, `321`). Python raises NameError
  and the program aborts (`NNAborts`, `PyInterface.cpp:222`).
- `supervised`, by `genModelTemplate`: `run` trains and returns nothing, or returns the
  result of the test. `runModel` drops it (`PIModelManager.py:352-355`), and so would
  `PyContext::test`, so that `storeData` gives the program what `malloc` left there
  (`ProgIntel.cpp:553`, `822`).
- `edited`: it writes its answer into the stores, which are its last arguments.
- `empty`, between `open` and `close` in `genRModelTemplate`, and for good if the program dies there.

The module abstracts from:

- Types. `storeData` has no arm for four of the library's types (`S`, `US`, `L`, `UL`), which
  Python is not given either.
- Lengths of loads: a second load under one name keeps the length of the first.
- `PIS_ENS`: at run time `nnInternal` does the same for it in training and nothing in a test.
- `piGetData`, which returns a DataContext's buffer, and the variadic `nn`, which reads
  as many store names as there are load names.

Five things that the module has in it and that no property calls wrong: the unedited
modules above; a model without a module of its own, which is answered by the one that was
loaded before, if that takes as many arguments (`Answered` asks for an edited one); a
template left empty by a death, which stays empty, since the next production finds a
file (`PIModelManager.py:194`), so that the calls of its model abort until its author
fills it; `loadCB` under a name that was loaded as an alias, which writes into the
program's variable; and the overrun (`ProgIntel.cpp:822`): a program that was edited
after its production is given as many elements as were recorded, whatever it has room
for now. `StoreAsRecorded` says what length that is.

### Reinf

`TFNNReinf` from the call of `train` or `test` to the disk. `conf` is `reinfConf`, member by
member but for the rewards (`loop`, `prevState`, `prevAct`, `terminal`, `epsilon`, `replayMem`,
`dieCnt`), `net` how often the network of the session was trained, `data` and `saved` the two
files. A frame is known by its episode and its number in it, which is what a replay
memory must not mix.

| actions | code |
|---|---|
| `InitNN` | `init` with the loading of `.data` and of the network, each of which may fail |
| `Train` | `train` up to the saving; `OpenData`, `DumpData`, `SaveModel`: the saving at the end of an episode |
| `Test` | `test`, which restores a network where `init` did not |
| `Raises` | `random.sample` or the restoring raise, on which `PyContext::test` aborts the program |
| `Start`, `Die`, `Drop` | the process, and `runModel` taking another module into its cache of one |

`Drop` is why `prevState` and the game can part: a module loaded again in mid-episode has the
replay state of the last episode's end. Epsilon is an integer in units that make `STEP`
one; the code subtracts `(IEPS - FEPS) / EXPLORE * 10` in a frame (in the module,
`STEP * EXPLORE = 10 * (IEPS - FEPS)`), so that epsilon is annealed over `EXPLORE / 10` frames and
not over `EXPLORE`, as the comment at `PINNHelper.py:436` has it.

### Super

`TFNNSuper.train` in one process after another: the `while` around the `for`, with the
losses measured in every hundredth step (`Step`), looked at in each (`Restart`, `Save`,
`Stop`), and the thresholds. Which losses are measured is free. Left out: a model
without validation data, `verbose`, and what the weights are. A process may set its
number of epochs (`Epochs`), so that an attempt ends with the loop or with `LIMIT`.

`measured` carries over from one attempt to the next, as `trainLoss` and `validLoss` do;
that it is always renewed before it is looked at rests on the `for` loop starting at 0,
and `SavedMeasured` is about that. In `saved`, a model keeps the threshold it has passed and
the measurement that it was saved for: a model is saved up to `PERIOD - 1` steps after
that. The thresholds are not reset when an attempt starts anew, only by a new process,
whose first save may replace a better model: `LatestStrictest` is about one process.

## 4. Runs

Bounds are constants named in the modules: `N`, `MaxLen`, `Cap`, `MaxStall` for `CPIO`;
`MaxVer`, `MaxTyped`, `MaxKills`, `MaxCrashes` and the sets `Files`, `Conn`, `Lines` for
`Checkpoint`, `Batch`, `TrainNum`, `ValidNum`, `Rounds`, `Size`, `Surplus`, `Trees` for `Production`, `MaxWrites`, `MaxCalls`,
`MaxRuns`, `MaxRecs` for `Runtime`, `MaxFrames`, `MaxRuns`, `MaxDrops` for `Reinf`, `MaxRuns` and
`MaxAttempts` for `Super`. The type invariants are theorems of every module (section 5); TLC
checks the one of `Checkpoint`, which has more than types in it.

| run | question | bounds |
|---|---|---|
| `cpio_exact` | Do the loops implement `ByteStream`, and does everything arrive, without timeouts? | 6 bytes, calls of up to 3, buffers of 2: transfers split in the middle and calls that meet in the middle |
| `cpio_faulty` | Is the count returned still right under timeouts and deaths? | 4 bytes, 2 timeouts per call |
| `ckpt_adverse` | Order of messages, bookkeeping, order of service and the meaning of `ckpted`, whatever happens; is the guest ever reverted before its last confirmed backup is on the server, whole? | 2 files, each absent, torn or whole, 2 connections, impatient program, guest and server late, blank and two-word lines, 1 kill, 1 crash; files and connections are symmetric (6.1 million states, about 2 minutes) |
| `ckpt_prompt` | With prompt messages and a patient program: is everything read in its place, is `checkpointed` true, is the snapshot one that resumes, do files come back, do the calls keep what `SaveRestore` promises, does every call return? | 2 files, 3 connections, 2 versions beyond the absent one, 2 commands, of which the second finds a program that is checkpointed and does not ask again |
| `prod_fresh` | Batches, phases and the children's assertions in a first production, with failing forks; does it end? | single model, 3 training lines and 2 of validation in batches of 2, 2 stores, 2 rounds |
| `prod_ensemble` | Which data files are complete and new and which as found, and what becomes of the record of stores, with forks that fail and children that die? | ensemble of 2, 2 lines of each file in batches of 2, 2 stores, 2 rounds, 7 trees of earlier productions, one of another version and a longer training file, the others of ones that died |
| `runtime` | Is Python shown the last loads and the program the right answers; does a store copy what was recorded; are records made good after a death, and kept? | 2 models that share a store, one with a combined load; one of them perhaps produced before; one name loaded as an alias, one as a copy and by callback; 2 versions of the program, 1 variable written, 2 calls, 3 runs, 2 records a file (3.7 million states, about 2 minutes) |
| `reinf` | Are episodes kept apart, epsilon, memory and network in step, and the files in order, with deaths between any two accesses to the disk? | `OBSERVE` 3, `REPLAYSIZE` 3, minibatches of 2, 10 frames, 3 runs, 1 module dropped |
| `super` | What is saved, and what has been saved when training stops? | `PERIOD` 3, epochs of 4 and of 6, `LIMIT` 4, losses 0 to 3, 2 processes, 3 attempts |
| `ckpt_deaf`, `ckpt_lost`, `prod_race` | the disagreements below | the smallest that show them |

One guest makes one connection at a time, so that two connections already give
every combination of one the server is working on and one that waits, and the
third lets a descriptor be reused while another is open. A file has a torn
state; two give orders of `readdir` and half-done transfers, and a `SET` in the middle of
a conversation, which a server out of its place takes for an unknown header. Versions
tell a new file from an old one, and the absent file from both; the server never looks at
them, so that in `ckpt_adverse`, where an older backup lacks a file that a newer one has,
one is enough. Nothing but equality tells files and connections apart (`Alike`), and no
property of that run is a liveness property.

A batch of 2 stands for the code's 10: with 3 lines there is a full batch and one that is
not full, and two children are enough for every race over the directory, which is
between one that makes it and one that finds it or makes it too. Two stores show
the order of records and a `.store` file emptied between them. Of `RecordKept`'s three
hypotheses the run has the second child only where the directory was there; the theorem
has all of them.

In `runtime` three runs are a production that dies, one that makes it good, and a run
that reads both, with the program edited in between; a store that two models share is
asked for by each in turn, and records of two versions meet in one file. In `reinf` the
replay memory overflows, minibatches are drawn and epsilon reaches its end within 10
frames, which make five episodes of the shortest kind; three runs are a death, one that
loads what it left, and a test. In `super` the loop of 4 ends in mid-period and that of 6 is cut by `LIMIT`, so that
losses would be stale if they were not measured at 0, and thresholds are lowered often
enough to reach the one to stop at; three attempts let the threshold of one meet
the losses of another.

`CHECK_DEADLOCK FALSE` is set because every run comes to rest: bytes run out in
`CPIO`, a production ends, and in `Checkpoint` a bounded user and program may both be done while the
server waits in `select`.

### Fairness

`CPIO`: both loops and their callers go on (weak fairness of each call and each
transfer), nothing obliges a timeout or a death. `Checkpoint`: weak fairness of
`GuestStep` (what the library does once it has been called, the expiry of a select
included, but neither the program's calls nor the stale guard of `Launch`) and of
`ServerStep`. The server is a loop that never sleeps elsewhere than in
`select` or a read, the client likewise: a runnable process is scheduled by its kernel.
`Production`: weak fairness of the parent and of each child, which their kernel
schedules too; a program that loops for ever in a child is not considered, and
`Die` is never obliged to happen. `Runtime`, `Reinf` and `Super` claim no liveness: whether a
training ever stops is for its losses to say, and everything else in them happens when
the program calls.
The user, the program, kills, crashes and restarts are never obliged to happen.

### Findings

Three runs end in a counterexample, each a disagreement between what the code
does and what it says of itself (PROJECT.json quotes the lines):

1. `ckpt_deaf`: after one timeout `doGET` waits with an empty set for ever.
2. `ckpt_lost`: a guest reverted while it sends a file blocks the server for ever. It takes a program that calls `restore()` again before its revert.
3. `prod_race`: of two children that make a model's directory together the later one empties the record of stores that the first child has written. Training and testing then find no store (`RecordThere` fails), though the production ended well.

The passing runs and the theorems leave out, by a constant or by the choice of an
instance, what else breaks their properties:

| left out | by | otherwise |
|---|---|---|
| socket timeouts (`CPIO.cpp:20`) | `SndTimeo`, `RcvTimeo = FALSE` in `cpio_exact` | `ExactRead` fails: an EAGAIN moves the read pointer back by one and the data with it; the assertion on the count cannot see it |
| a guest that is late by the server's second, inside a message or between two (`CPServer.cpp:116`) | `Slow = FALSE` in `ckpt_prompt`; the hypothesis of `NothingUnsupported` | `NoUnsupportedHeader` fails: the server reads a byte ahead, dies of an unsupported header at the next `SET`, or waits for ever behind `EOF` or `END` |
| a program that removes files (`CPClient.cpp:278`) | `Train` | `GetBringsBackup` and `KeepsPromise` fail: the server keeps the file and sends it back |
| a server that is slow by a second (`CPClient.cpp:170`) | `Slow = FALSE` in `ckpt_prompt` | `CheckedPoint` and `KeepsPromise` fail: the program believes it was checkpointed |
| a server started over the files of an earlier session (`ProgIntel.cpp:301`) | `Init`: `sfile` is empty | `KeepsPromise` fails: `checkpoint()` returns with the earlier session's files in place of the program's own |
| a program that calls `restore()` again before its revert (`CPServer.cpp:315`) | `Waits = TRUE` in `ckpt_prompt` | `KeepsPromise` fails, and the server may be lost (2) |
| a virsh that fails unnoticed (`CPServer.cpp:306`) | `VirshFails = FALSE` | `CkptedMeansSnapshot` and `KeepsPromise` fail |
| a fork that fails unnoticed (`ProgIntel.cpp:443`) | `DataComplete`: "whose child it could fork" | the production ends well without a line's data, or with those of an earlier production |
| the first value of unsigned char, unsigned int and float, written twice (`FileIO.cpp:352`, `371`, `390`) | no property | the file has a line more than it announces: `Dataset` reads the first value twice and skips the last |
| two children that make the directory together | `RecordKept`: "where no two children can" | `RecordKept` fails as `RecordThere` does (3). Python may meet the directory of a single model without its `.store` file and take it for an ensemble (`PIModelManager.py:36`, `124`), as it does after a production that died there |
| an ensemble whose directory is made by several | a single model in `prod_fresh`; the hypothesis of `AbortsNever` | `NoAbort` fails: a child meets a directory without its sub-directories (`FileIO.cpp:30`) and its assertion ends the production |
| a name loaded both with `doAlloc` and without (`ProgIntel.cpp:96-97`) | `How` (`Unmixed` in the proof) | `SeesLoads` fails: the first load decides for all later ones |
| a module that was generated and not edited | `Answered`: of edited modules | the store gives what `malloc` returned, or the call aborts (see Runtime, in 3) |
| a program edited after its production (`ProgIntel.cpp:822`) | `StoreAsRecorded`: "as recorded" | `storeData` writes beyond a store that has become shorter |
| a death while a template is written (`PIModelManager.py:194`) | `Restartable`: of the records | the template stays empty and the calls of its model abort |
| an episode of one frame | `MinEpisode = 2` | `EnoughToSample` fails: calls count for `OBSERVE` that leave no transition, and `random.sample` raises `ValueError` |
| a blank line at the server's terminal, which blocks all clients in `cin >>` (`CPServer.cpp:130`) | `Lines <- Commands` in `ckpt_prompt` | `GuestReturns` fails |

At the end of a stream inside a message `cpRead` goes round for ever, `read()`
returning 0 (`CPIO.cpp:24`); in `CPIO` this is a stutter, and `cpio_faulty` shows that
what was returned before it is still counted right.

## 5. Proofs

`CPIOProofs`, for every `N`, `MaxLen`, `Cap`, `MaxStall`:

- `Counting`, `CountIsFull`: `TypeOK` with `Counts` (pointer + remaining = asked) is
  inductive, timeouts included; it gives `FullCount`.
- `ReadsExactly`, `ImplementsStream`: without timeouts, `InPlace` (every byte is in the
  sender's buffer, in flight in its turn, or in its place) is inductive on top of
  them; it gives `ExactRead`, and each step of `CPIO` is a step of `ByteStream` or
  stutters. `InPlace` is needed because `ExactRead` speaks of returned calls only.

`CheckpointProofs`, for every set of files and connections and every bound:

- `TypeCorrect`: `TypeOK`, with the shape of the guest record (a socket exactly
  inside `start()`, a current file exactly while one moves) that a snapshot must
  preserve through capture and revert.
- `SnapshotExists`: with a virsh that does not fail, `ckpted` means that there is a
  snapshot, outside the window of `handleCKP` between deletion and creation. The
  inductive invariant adds that the server knows it has deleted when it creates.

and, with slow answers, kills, crashes and failing virsh commands:

- `BookkeepingKept`: `Bookkeeping`. It is not inductive: a revert gives up the guest's
  connection and then closes the one it serves, and they must not be the same.
  `Farewell` says that RES is the last message of a connection whose guest has closed it,
  `SnapSock` that the guest that comes back has no live connection of its own.
- `ProtocolKept`: `InTurn`. `FlowInv` says that what is on its way to the
  server is a sequence that a reader at its place can read (`Flow`: SET, name, body, and
  headers between files); `TalkInv` says, for each place of the guest in CPClient, what
  may be in flight on its connection in both directions and where serveClient can be
  (`Talk`). A server that died, and a guest that was killed or reverted, leave a
  connection of which only the part that is still read is constrained. A server that is
  `astray` reads on out of its place, and is bound to nothing until its end.

`BackupProofs`, for the same constants and under the same failures, on top of `FlowInv` and
`TalkInv`:

- `OrderKept`: `NoOvertaking`. The order in which the guest connected is that of `pending`
  (`Queue`), and behind it that of the descriptors the select loop has still to look at in
  this round (`Round`, `Turns`): `accept` is looked at first and takes one connection a round,
  so that a connection with a smaller descriptor that is accepted later waits for the next.
- `NothingUnsupported`: `NoUnsupportedHeader`, if neither side is late. Only a guest that was
  reverted away is then waited for too long, and it sends nothing more. Kills, crashes,
  restarts and an impatient program are allowed for here, which `ckpt_prompt` has not.
- `BackupKept`: `BackupBeforeRevert`. RES comes alone on its connection (`RestoreInv`), and
  while one is under way (`Restoring`: from the call of `restore()` over the connection's
  place in the queue to `spc = "revert"`) the server's files are `saved`. What could come
  between is another conversation with the same server: of the guest before it was killed
  or reverted. `OthersInv` says
  that once the server has come to the guest's connection all others are `Silent` (order of
  service gives it), and that none has more than a farewell to say (`Harmless`) to a guest that has
  fetched the server's files. `StoreInv` says where each of the guest's files
  is while doSET sends them: on the server, on its way, or still to be sent, and whole
  (`Store`); `FetchInv` that a guest owning a backup has a file for each of the server's.

`PromptProofs`:

- `FetchKept`: for the same constants and under the same failures, doGET ends with every file
  the server has (`GetBringsAll`): `BringInv` is `StoreInv` with the two ends exchanged. `GetBringsBackup`
  does not follow: the files may be a former guest's, or the guest have others.
- `CheckpointedIsSo`, `SnapshotWaits`, `GetIsBackup`: `CheckedPoint`, `SnapshotInWait` and
  `GetBringsBackup`, if nothing is late, killed, crashes or fails and the program waits for
  an answer before it calls again (the constants of `ckpt_prompt`). `Calm` says that then the
  guest is heard and heard alone: its connection is the only one the server is
  serving or has still to serve, the other side is where the guest waits for it, and
  what is left of a connection that a revert gave up is never heard again (`Tidy`,
  `Undisturbed`, `Unhurried`, `Answers`). `SnapshotInv` then follows the answer CKY to
  the guest (`Checked`), and `BackedUp` the backup: from END to the revert, and from the revert
  to EOF, the guest's files are among the backup's, so that every file brought makes it equal.

  Not every hypothesis is needed by each: dropped one at a time from `ckpt_prompt`, TLC finds
  `CheckedPoint` violated when answers are late or the server crashes and restarts without
  its `ckpted`; `SnapshotInWait` when answers are late, the guest is killed, or virsh fails; and
  `GetBringsBackup` in each case. The others it finds to hold there, and they are
  claimed of no other instance.
- `PromiseKept`: `KeepsPromise`, under the same hypotheses: `Checkpoint` implements
  `SaveRestore`. `OwnSteps` takes the guest's own steps, `CallSteps` the calls, `RevertUnseen` the
  revert, `ServerAlone` what the server and the network do without it; each is a step of `SaveRestore` or
  leaves its variables as they are. A revert does the latter: the files of the
  backup are on the server (`BackupKept`) and doGET brings them (`GetIsBackup`). The one
  invariant that is new is `Unsaved`: until the first backup is on its way the server has no
  file, so that the doGET behind the checkpoint brings nothing. Here every hypothesis is needed: TLC
  finds `KeepsPromise` violated when any one is dropped from `ckpt_prompt`.

`ProductionProofs`, for any program, any number of lines and any size of batch:

- `TypeCorrect`: `TypeOK` with `Shape` (which call of which round each `pc` can be at).
- `Bounded`, `Apart`: the children that run are of one phase, and next to each other
  among the last `forked` lines (`Window`). Neither property is inductive: the number
  of children says nothing of which were waited for.
- `Complete`: `DataComplete`, from any tree and with forks that fail and children that die. The
  invariant `CInv` says how many records of a round a child has written at each point of
  its program (`FilesKept`), that a line whose turn has not come has no child (`Unforked`), and
  that in the end all children were waited for (`AllOver`).
- `RecordStands`: `RecordTail`, whoever makes the directory: only a directory that was not
  there when the production began is made by anyone, and to make it empties the record.
- `RecordSafe`: `RecordKept`, on top of it: where the batch or the training file has no second
  child, or the directory was there, nobody empties the record behind the first child's
  back, and that child has written one of every store when it has gone.
- `AbortsNever`: if the program itself does not fail, `NoAbort`, of a single model whoever makes
  the directory and in whatever order, of an ensemble whose directories were all there,
  or whose batch is of one child and that has no directory yet.

`RuntimeProofs`, for any models, names, versions, variables and numbers of runs:

- `TypeCorrect`: `TypeOK`. The invariant `TInv` says where each call of a production stands
  (`Stands`: the model it is at has its directory, but no `.store` file yet at `mkdir`).
- `NothingForgotten`: `RecordsKept`. Only `fopen` with `"w"` could lose a record, and
  `Stands` says that it is reached only without a file.
- `OneLength`, `RecordsMadeGood`: `StoreAsRecorded` and `Restartable`, from `SInv`: what was stored is
  recorded next to a template (`Recorded`), what is recorded was stored (`Justified`), a model
  that was asked has a template or is being given one (`Templated`), and a run has the recorded
  room for every store and for no other (`Sized`).
- `AnswersArrive`: `Answered`: the cache of one module and the shared names never lead to
  another model's answer (`AInv`).
- `LoadsArrive`: `SeesLoads`, if no name is loaded both as a copy and as an alias (`LInv`: each
  DataContext is as its last load left it).

`ReinfProofs`, for any sizes and bounds that satisfy the assumptions:

- `TypeCorrect`: `TypeOK`, epsilon included, which stays positive.
- `WithinEpisodes`, `MemoryCounted`: `OneEpisode` and `MemCount`, in memory and in `.data` at
  once: the invariant says of both that a stack is within one episode, that the frame to
  come follows it unless an episode has ended, and that `loop` and `dieCnt` count what was
  appended.
- `CanSample`: `EnoughToSample`, under three assumptions that TLC's run and the code's numbers
  meet: episodes have two frames or more, `OBSERVE` is at least twice a minibatch and one
  more for every module that is dropped (less two), `REPLAYSIZE` holds a minibatch.
- `InStepWithTheNetwork`, `SavedInOrder`: `Annealed` and `DiskOrdered`; the invariant relates
  the epsilon in `.data` to the age of the network on disk, between the two saves too.
- `TestedAsSaved`, `NothingUnlearned`: `TestAsks` and `LearningKept`.

`SuperProofs`, for any period, epoch, limit, losses and thresholds that satisfy the
assumptions:

- `TypeCorrect`, `MeasuredWhenSaved`, `LatestPassedMost`, `GoodModelSaved`: `TypeOK`, `SavedMeasured`,
  `LatestStrictest`, `TrainedAndSaved`. The invariant says that the losses looked at are of
  the step `i - i % PERIOD` of the present attempt, and that the threshold is one
  `SaveThdStep` below that of the last model of the process. The last theorem rests on a model good enough to
  stop at being good enough to save (`ConstAssumption`; true of the numbers in
  `__init__`, but not of everything `setSaveModelThd` accepts).

The assumptions are the named `ConstAssumption` of each module and
those that keep a value for "nothing" apart from what it stands in for
(`NoSnapAssumption`, `FileAssumption`, `NoneAssumption`), which TLC evaluates in every run.

Only model-checked: liveness, that is `AllArrives`, `ServerReturns`, `GuestReturns`,
`UserHeard` and `Ends` (TLAPS has neither fairness nor ENABLED here). Every
invariant and every action property that a passing run checks is the subject of a theorem, with
the hypotheses given above.

## 6. Not modelled

PROJECT.json `components` has each part and its reason.

- valgrind 3.13.0 with taintgrind is third-party code kept in the repository, about 660,000
  lines of it. The library, the checkpoint programs and the Python modules of Autonomizer
  itself are about 4,500 lines: it is those that this development is about, and a
  share of all the repository's lines says little of them.
- `TFNNSupEns` cannot run: its methods read members that no class has (`modelInit`,
  `operation`).
- PyCaller.c is not built; `getNNOutput` is compiled out.
- The scripts of DyAnalysis filter taint traces once, with no state between calls.
- TensorFlow's arithmetic, the rewards and the choice of an action have no control that
  the properties could tell apart; the templates' text appears as the arguments a module
  takes and whether it returns its result.
- The parsing of argument files, the start of the Python interpreter and its conversions
  of each type.
