# HM-BoundsCheck: a TLA+ model, its model-checking runs and its proofs

HM-BoundsCheck finds heap buffer overflows in C programs.  An LLVM pass puts a
call of `checkMemoryAccess` before every load and store and replaces the
allocation functions by wrappers (`Dlib_malloc`, ...).  The wrappers put a *red
zone* before and after each block and note where the zones are; an access that
touches one is reported.  Two libraries implement the wrappers: one keeps the
zones in a hash table of ordered lists, the other in a shadow memory.  The rest
of the repository is a Python infrastructure that builds the programs with the
pass and runs them, in parallel if asked to.

All paths below are relative to `src/`; `skeleton/` stands for
`instrumentation-skeleton/`.

## 1. Inventory

| Part | State | Operations | Hard behaviour |
|---|---|---|---|
| **Hash table library** `Libraries/dhash.c`, `dhash.h` | `hashTable` (4096 buckets: first, last, counter), `mutexes[2]`, `init`, `rz_sz`, `pagesz`, `exponent` | `Dlib_malloc/calloc/realloc/memalign/free`, `checkRegistration`, `checkMemoryAccess`, `initLib`, `unloadLib` | threads; a block in two buckets under two mutexes taken in either order; failure of the second list node after the first was linked; readers without a lock |
| **Shadow-memory library** `skeleton/runtime/hmboundscheck.c` | one shadow byte per 8 bytes of memory, the pattern in the zones, compile-time switches | the same wrappers; `registerAddr`, `removeAddr`, `checkRegistration`, `checkMemoryAccess` | threads without any mutex; sizes that are no multiple of 8; stale pattern and stale shadow bytes; accesses of several bytes |
| **Custom allocator** in the same file (`useFreeLists`) | `memoryArray[48]` of free lists, the size in front of each block | `allocateFreeList`, `setFreeList`, `getBlockFromFreeList`, `returnBlockToFreeList` | long sequences of calls; zones shared by neighbours; a failing `mmap` |
| **Process pool** `skeleton/infra/infra/parallel.py` | `self.jobs`, the epoll set, the processes and their pipes | `run`, `wait_all`, the poller thread, callbacks | two threads on one dictionary without a lock; hang-up, output and exit status in any order; a thread that dies silently |
| **Passes** `skeleton/llvm-passes/HMDHashPass.cpp`, `ReplaceAddressTakenMalloc.cpp` | the module: functions, instructions, the uses of a function's address | wrap functions whose address is taken, insert checks, replace calls | the order of the passes; calls under casts and through pointers; the runtime is part of the module |
| **Setup commands** `skeleton/infra/infra/setup.py`, `package.py`, `target.py`, `instance.py` | the context (environment, flags), `built_packages`, the directories on disk | build, clean, run, exec-hook; dependencies, fetch, build, install | a command interrupted in a stage and the next one; copies of the context; jobs of the pool still running |
| **Packages** `skeleton/infra/infra/packages/*`, the set-up scripts' runtimes | files in `build/packages/<ident>` | fetch, build, install, `is_fetched`, `is_built`, `is_installed` | a test that is true before the stage is done; patches applied once |
| **Commands and log** `skeleton/infra/infra/util.py` | `ctx.runtee`, pipes, string buffers, the run log | `run`, `_Tee` and its thread | the thread lags behind the command; full pipes; copies of the context; a thread that dies |
| **SPEC2006** `skeleton/infra/infra/targets/spec2006/__init__.py` and **benchmark logs** `packages/tools.py` | run directories on each node and shared, list files, `copylock`, logs with cached results | the script of a node, `parse_outfile`, `parse_logs` | several nodes; a lock made by `mkdir` and its trap; killed jobs; reports given while the job runs |
| **Others**: the earlier library `Libraries/hmboundscheck.c`, `skeleton/runtime/dhash.c` (the hash table without mutexes), `count.cxx`, the infrastructure's other passes, tests, documentation | | | not modelled, see section 7 |

How they interact: the pass connects the program to one of the two libraries,
which the program then calls from any of its threads; the libraries call the
system's `malloc`, `posix_memalign`, `free` and `mmap`.  The setup calls the
packages and targets, these run commands through `util.run` and start jobs in the
pool; the pool's poller thread calls back into the targets.  The jobs of a SPEC
benchmark share directories among nodes, and the report command reads, and
appends to, the logs the jobs write.  A library and the infrastructure share no
state.

What makes each part correct:

* *both libraries*: an access to a red zone of a block the program holds is
  reported, an access to the block's bytes is not, whatever other threads do;
  nothing describes memory that went back to the system; a block moves through
  *obtained, guarded, handed over, taken back, unguarded, returned* in this
  order (`RedZones`).  The hash table's check does not assure the first under all
  interleavings, since it takes no mutex (section 5);
* *hash table*: the mutexes exclude each other, are always released and never
  block each other for ever; the lists are ordered, as the reader's early exits
  require, and the counters are right;
* *free lists*: every block is in exactly one place;
* *passes*: every access of the program is checked and nothing in the runtime is;
  `malloc`, `calloc`, `realloc` and `free` all end in the runtime, however they are
  called, so that their blocks go back to the library they came from (of `memalign` and
  `valloc` this does not hold, section 5);
* *setup*: what a command uses is complete and was built before its users, in an
  environment and a context of its own, whatever an interrupted command left;
* *commands and log*: no output is lost or repeated and no command waits for ever;
* *SPEC2006 and logs*: one node at a time changes the shared directory, nothing a
  node ran is lost, and reports agree with each other and with the runs;
* *pool*: never more nodes than `--parallelmax`, the output of a job is in its file when
  it is reported, and `wait_all` returns.

## 2. Modules

```
RedZones                          abstract allocator
   ^                              (DHash and HMStandard implement it)
   |
MCDHashList  MCHMStandard   MCFreeLists   MCInstrument   MCPool     TLC instances
   |            |               |              |            |
DHashList       |               |              |            |
   |            |               |              |            |
DHash        HMStandard     FreeLists      Instrument     Pool      components
   |            \______ _______/               |            |
RedZoneTable         ShadowMemory              |            |
   |                    |                      |            |
DHashProofs          HMStandardProofs     InstrumentProofs  PoolProofs   (TLAPS)
                     FreeListsProofs

BuildOrder                        abstract build (SetupBuild implements it)
   ^
MCSetupBuild                      MCRunTee            Spec_bench, Spec_v_lock
   |                                 |                   |           |
SetupBuild                        RunTee             ReportLogs      |
   |        \                                            |           |
Recipes   Dependencies                               SpecRun <-------+
   |                                                     |
SetupBuildProofs                 RunTeeProofs      SpecRunProofs             (TLAPS)
```

**`RedZoneTable`** - the bucket lists of `dhash.c` as pure operators:
`getRZAddrBucket`, `getLock`, `addAddrToList`, `removeAddrFromList`,
`checkRegistration`.  A bucket is the sequence of its entries and the separate
`counter` the code keeps, because some error paths make them differ.  The hash of
a page is the constant `PageBucket`, so collisions are chosen by the instance.
Each list operation is one step; where it runs in the code a mutex is held.

**`DHash`** - threads in `Dlib_malloc` and `Dlib_free`.  `pc[t]` is the place in
the code; every lock, list operation and unlock is an action of its own (its own runs
take a list operation in one step; `DHashList` below splits it):

| Action | Code |
|---|---|
| `EnterUninitialised`, `initLib` | the test of `init` and the call are two steps (865-871) |
| `RegLock1, RegAdd1, RegSwap, RegLock2, RegAdd2, RegUnlock` | `registerAddr`, which gives up the first mutex before it takes the second when they differ |
| `RegDeny, RegUndo, Denied` | the allocation of a node fails, or the entry exists: rollback by `removeAddr`, then `free(mem)` and the address is returned all the same |
| `RemLock1 ... RemUnlock` | `removeAddr`, with the branches by whether the right bucket is another one, under another mutex, and whether the right zone is known (a rollback) |
| `RemAbort1, RemAbort2` | its error returns, with the mutex the code releases there |
| `Removed` | `free` of the block |

`pthread_mutex_trylock` succeeds on a free mutex only.  Unlocking a mutex
somebody else holds is undefined for the default mutex of `initLib`: the constant
`OwnerChecked` says which of the two outcomes the platform produces.

**`DHashList`** - the same threads with the lists as the code has them: `first`,
`last` and the `next` of each node.  A list operation of `DHash` becomes several steps:
`Begin` reads the list and determines the assignments (`AddWrites`, `RemoveWrites`),
`Put` does one of them at a time in the order of the source, so a node is in the list
before its own `next` is set (644-645, 649-650), and `End` is `DHash`'s own step, with
the counter.  Beside them `Checker`s run `checkRegistration`, which takes no mutex: the
counter, then `first`, then `last`, then a node at a time (`StartCheck`, `ReadFirst`,
`ReadLast`, `StartLoop`, `Visit`).  A check is *calm* while the operations on its bucket
only append.

**`RedZones`** - the promise of an allocation library: six actions over `heap`,
`guarded`, `live`.  `DHash` maps `guarded` to the blocks listed in the buckets
of both their addresses, `HMStandard` to the blocks whose shadow memory is as
`registerAddr` leaves it (`AbstractGuarded`).

**`ShadowMemory`** - the shadow bytes as a function of words and
`registerAddr`, `removeAddr`, `checkRegistration`, `checkMemoryAccess` as pure
operators that take the build (fast check, ASAN or bit values, registration).
The order of the writes is kept, because an unaligned right zone overlaps the
last word of the application's bytes.

**`HMStandard`** - threads calling that library over the system's allocator.  A
block is a chunk with its usable size, so slack is modelled: `Dlib_free` resets
all of it and `Dlib_realloc` copies it.  `pattern` is the set of addresses that
hold the byte `redzone`, whoever wrote it: `insertRZPattern`, a store of the
program (which the pass lets happen even when it was reported), or the `memmove`
of a `realloc`.  `Obtain`, `insertRZPattern`, `Register`, `Return` are the steps
of `Dlib_malloc` (and of `Dlib_memalign`, where `posix_memalign` chooses the
chunk); `Move` continues `Dlib_realloc`; `Remove`, `Release` finish `Dlib_free`.

**`FreeLists`** - the custom allocator.  The source says that SPEC2006 is single
threaded and has no mutex for this build, so a call is one step, except that
`Dlib_realloc` allocates and frees in two.  Lists are sequences; a region is cut
into `standardPreAllocSize` blocks at `mapped`, and the last cut block is first
in the list, as `setFreeList` leaves it.

**`Pool`** - the main thread (`run`, `_wait_for_queue_space`, `wait_all`), the
poller thread, and the processes.  Adding up the nodes is two steps, since the
dictionary may change meanwhile (`raised` is Python's RuntimeError).  `Poll`
takes a snapshot of the events that the thread handles one by one (`NextEvent`,
`ProcessOutput`, `Pop`, `Verdict`, `OnError`, of which the last two ask for the status
one after the other); `dead` is a thread ended by an exception.  A
process writes, closes its output (or ends, which closes it first) and has an exit
status a moment later.  With `HangUpAfterExit = TRUE` the poller never sees the
hang-up inside this moment.  `parallelmax` is given: without the option there is
nothing to wait for.

**`Instrument`** - the two passes on a module that consists of the program's
function `main` and the runtime, as the linker gives it to them.  An instruction
is what it does and the function it mentions: as callee, as callee under a cast
(which is a constant expression in LLVM), or as another operand.  A name is the
prefix that the passes give or look for and the rest.  `Find`,
`makeWrapper`, `ReplaceUse`, `AllUsesReplaced` are the first pass; `NextPass`,
`Collect`, `Rewrite`, `EndFunction`, `Finish` the second, whose work list is made
before a function's first instruction changes.  `isAllocationFunc` and `Collected`
are the tables of names of the two passes, which differ.

**`Dependencies`** - `_get_deps` as a function on graphs, next to reference
definitions (`Needs`, `Cyclic`).

**`Recipes`** - the packages, each a function of what its directory holds: the
steps of fetch, build and install, and the three tests.  A directory is reduced to
five files (`src`, `obj`, `install`, `makefile`, the stamps of patches), a file to
the set of what went into it.  `Possible` says when a step's external command
fails (no sources, a patch applied twice, a clone into a directory that exists),
`MarkerLast` whether a package's tests only come true with the last step.

**`SetupBuild`** - the commands.  What a command does is determined by its arguments
and the graph, but for the tests, which look at the disk when they run; so a
command is the list of its operations (`BuildPlan`, `RunPlan`, `CleanAll`,
`ExecHookPlan` follow `_run_build`, `_run_run`, `_run_clean`, `_run_exec_hook`
line by line), and the actions work it off:

| Action | Code |
|---|---|
| `Begin`, `Finish`, `Fatal` | `main`, the end of `_run_command`, its `FatalError` |
| `StartFetch`, `EndFetch` | `_fetch_package` and the fetch of targets |
| `StartOnce`, `SkipOnce`, `StartInstall`, `EndOnce` | `build_package_once` with `_build_package`, `_install_package` |
| `DoStep`, `FailStep` | one command of a stage, which succeeds or ends the program (`util.run`) |
| `Env`, `Configure`, `Save`, `Restore` | `install_env`, `configure`, `ctx.copy()` and going back |
| `BuildTarget`, `JobDone`, `WaitAll`, `Hooks`, `RunTarget` | targets, with or without a pool |
| `Clean` | `_clean_package`, `_clean_target` |
| `Interrupt` | ctrl-C, a crash, or a failing command, between any two steps; the disk stays |

**`BuildOrder`** - what the setup promises: a package becomes ready after all it
needs.  `SetupBuild` implements it with `ready <- built`.

**`RunTee`** - the main thread in `run()` (`Run`, `NotFound`, `GetValue`, `Swap`,
`Return`), the command (`Print1`), and the thread of every tee (`Poll`, `WriteLog`,
`WriteString`).  A tee is its pipe, its buffer, the line it is writing, and the
string that was `writers[1]` when it looked; `teeout` makes a second tee that
writes to the first.  `Copy` and `Back` are the copies of the context `setup.py`
works in: a tee made in a copy is out of reach afterwards.

**`SpecRun`** - the script that `SPEC2006.run` gives to `prun`, in as many ranks as
the job has nodes.  A run directory is its number, and its contents the rank that
wrote it.  The steps are the script's commands: reserve names (`Setup`), `RunSpec`,
`TakeLock` (`mkdir copylock`), `CopyNew` or `CopyAll`, the merge of the list files
(`CutList`, `MergeList`), `Unlock` (`rmdir`), and the trap (`Exit`).  With `set -e` a
failing command goes to the trap (`Fails`).  Any command may also fail for something
outside of the script (`CommandFails`): a `cp` has then copied some of the run directories
(`CopySome`) and a merge written some of its lines (`AppendSome`).  `TimeOver` is the end
of the reservation.

**`ReportLogs`** - `SpecRun` and the report command.  A rank's output goes to its
log at its own offset (`Write`, external: `prun`), over what a report has appended
there meanwhile.  `ParseLog`, `AppendResult`, `EndReport` are `parse_logs` with
`parse_results` and `parse_outfile`, which yields a result for each workload, so a log
gets several cached results, one line at a time (`rest` is what is still to be written);
`InterruptReport` stops between any two lines.  `Figures` are what `parse_outfile` finds
in the run directory with the rank's number, whichever rank wrote it.

Definitions named `Slip...` are no part of the model.  Each is a mistake that
could be made in the operator or action below it, kept to show that a property
notices it; they are listed with their properties in `PROJECT.json` (`mutants`).

## 3. Runs

| Run | Instance | Shows |
|---|---|---|
| `DHash_shared` | 2 threads and a third that checks an access, the lists with their pointers, 3 blocks in one bucket, of which two also in others, over both mutexes in opposite orders; owner-checked mutexes | `TypeOK`, `MutualExclusion`, `ListsOrdered`, `TableMatchesHeap`, `ListsComputeTable`, `CalmChecksAnswer`, `LocksReleased`, and that DHash implements `RedZones` |
| `DHash_fail_single` | 1 thread from the uninitialised library, 2 failing node allocations, overlapping cross-page blocks | `IdleHoldsNoLock`, `EveryCallReturns` on every error path |
| `DHash_v_unlock` | default mutexes | **violated** `MutualExclusion` |
| `HM_standard` | 2 threads, 3 overlapping chunks (0, 1, 7 bytes left in the last word, with and without slack), ASAN, ASAN with the fast check, and bit builds, one store | `AccessesAnswered`, `FreedWordsReported`, implements `RedZones` |
| `HM_freelists` | 2 lists, regions of 2 blocks, memory for 3 regions, requests of 3, 8 and 9 bytes | `EveryBlockOnce`, `LiveBlockGuarded`, `FreedBlockReported` |
| `Instrument_passes` | every body of up to 3 of 17 instructions | `AccessesChecked`, `CallsTakenOver` |
| `Pool_jobs` | 3 jobs (1, 1 and 2 nodes) on 2 nodes, one of which writes more than a read takes | `RunningWithinMax`, `OutputSaved`, `PollerAlive`, `WaitAllReturns` |
| `Pool_v_hang` | hang-up seen before the exit status | **violated** `WaitAllReturns` |
| `Setup_build` | 25 packages, 2 targets, 4 instances, 14 command lines; 2 commands, 1 interrupt | `DependenciesInEnv`, `UsedIsComplete`, `NoStacking`, `FailsOnlyAfterInterrupt`, `BinariesReady`, `DependencyListsRight`, `EverythingBuilt`, `CommandEnds`, implements `BuildOrder` |
| `Run_tee` | 2 commands, 3 tees, pipes and reads of 2 pieces, 1 copy of the context | `NothingLost`, `ResultsInOrder`, `CommandsReturn`, `LinesReachLog` |
| `Spec_bench` | 2 ranks, first or later run, one failing command, 2 results to a log, 2 reports, 1 interrupted | `LockExcludes`, `LockReleased`, `RunsListed`, `ReportsRight`, `JobEnds` |
| `Spec_v_lock` | 3 ranks | **violated** `LockExcludes` |

What the less obvious properties say: `TableMatchesHeap` - the table has the entries
of every block in use and none of memory that went back to the system;
`ListsComputeTable` - whenever nobody is inside an operation on a list, its pointers are
the sequence `RedZoneTable` computes; `CalmChecksAnswer` - what the lockless
`checkRegistration` may rely on: while others only append to its list it reports every
zone that was listed when it began, and nothing but zones (of other overlaps section 5
says what happens); `AccessesAnswered` - accesses to the zones of a block in use are
reported, in builds with the fast check while the zones are intact, and those to a block's
bytes are not; `FreedWordsReported` - in ASAN builds every byte that was given back is
reported until that byte is handed out again, also when a chunk of another size takes the
bytes beside it; `CallsTakenOver` - exactly which uses of allocation functions end in the
runtime; `UsedIsComplete` - what a command takes for built has the
contents an undisturbed command would give it, unless an interrupted stage of a
package whose tests are not `MarkerLast` is to blame; `NoStacking` - the context of
a build is that of its own instance and target; `ReportsRight` - reports after the
job agree; and without an early report, a killed job or a command that failed for outside
reasons they give for each rank that ended well the results of one rank with the name of
its run directory, which is its own unless two took the same name; `OutputSaved` - what
is not in the outfile of a reported job was left in the pipe by the last read; nothing is
lost of a job that writes no more than one read takes.

Bounds, and why they are enough.  *DHash*: pages of 16 bytes, zones of 2, four
buckets, two for each mutex; the code treats two addresses by page, bucket and
mutex only.  In `DHash_shared` three blocks meet in one bucket, so that a list has a
first, a middle and a last node, and two of them span buckets of both mutexes, in either
order; `DHash_fail_single` has the block over two buckets of one mutex.  The code has two
mutexes, so two threads make every conflict and every cycle; the checker is a third.  Its
one access runs from the last byte of a right zone to the first of the next left zone of
the shared bucket, so its answer depends on several nodes.  `MaxFail` bounds failing
allocations.  The system may stop when a NULL is followed.  *HMStandard*: eleven words of memory, in which the chunks
overlap, so that memory is handed out again under other limits; two of the chunks
can be in use together.  `MaxStores` = 1: each further store only takes pattern
bytes away or adds some the checks treat alike.  *FreeLists*: with two blocks to a
region there are shared and unshared zones, and three regions let one list be
filled twice.  *Instrument*: the passes treat instructions one by one and functions
one by one; three instructions have two uses of one function and something between
them.  *Pool*: three jobs are the fewest where one waits while two run;
`MaxOutput` bounds the output; it is more than one read (`Chunk`) for one of the
jobs, so that something can be left at the hang-up.  *SetupBuild*: what a command sees of earlier ones is
the disk; one command, possibly interrupted, leaves every state of it that the
second then meets.  The host has `python`, `cmake` and `bison`; the command lines use every
option, both targets, and the instances that between them need every kind of
package.  `DependencyListsRight` looks at all graphs of three packages with up to
two dependencies each.  *RunTee*: `MaxCommands`, `MaxTees`, `MaxScopes`; an output is
a line without end, a line, or two lines of which the last is not UTF-8, so the pipe
fills and a buffer is left from one command to the next.  *SpecRun*: with two ranks
everything but the removal of another's lock can happen; that takes a third rank,
which gets in.  `MaxFaults` bounds the commands that fail for outside reasons,
`MaxReports` the reports and `MaxEvents` what disturbs a job altogether (reports,
interrupts, the end of the reservation; a fault counts twice); `Workloads` = 2 results to
a log are the fewest that an interrupt can separate.

Deadlock is checked in all runs but those of `DHash_shared` and `DHash_fail_single` (the
process may have died), the pool, the passes, the setup, the tees and the benchmark (which end).

Symmetry is used for the threads of `HM_standard`, which has no liveness
property.

### Fairness

* `DHash`: weak fairness of each thread's `Proceed`, the steps inside a call: the
  system schedules every runnable thread.  No fairness of calls: the program need
  not make any.  A thread that waits spins on `pthread_mutex_trylock`, which is
  not a queue, so with several threads one may lose every time; for several
  threads only `LocksReleased` is claimed, `EveryCallReturns` for one alone.
* `Pool`: both threads run (weak fairness) and every process ends some time, as
  `wait_all` presupposes.  The poller is a daemon, so nothing is claimed that would have
  to happen after the main thread has ended or failed.  Writing is not fair.  No fairness of `MakeJob`: the
  program need not start its jobs.
* `SetupBuild`: weak fairness of `Work`, the program's own steps and the jobs of the
  pool; none of `Begin` and `Interrupt`.
* `RunTee`: the main thread inside `run()`, the command, and each tee's thread are
  scheduled; nothing forces another call.
* `SpecRun`, `ReportLogs`: every node runs its script.  A node that waits for the lock
  tries again and again, so weak fairness suffices only because each rank takes the
  lock once.  Neither the end of the reservation nor reports are fair.

## 4. What is proved

TLAPS checks these for every value of the constants that satisfies the named
assumptions.

* **`TypeCorrect`, `TypesOK`** (`DHashProofs`): `Spec => []TypeOK`, for any
  threads, blocks, hash, zone size, failures.  `TypeOK` is not inductive: whether
  a list operation gets a block and an existing bucket depends on the locals of
  the call.  `TInv == TypeOK /\ FrameOK` adds what `memL` and `memR` are at every
  place of the code: a call works on the two addresses of one block, and a
  removal knows the right one exactly when it has found the entry or rolls a
  registration back.  The lemmas about the lists (`AddKeepsType`,
  `RemoveKeepsType`, `LockExists`, ...) say what the list operators return.
* **`MutexesExclude`** (`DHashProofs`): `MutualExclusion`, when the library was
  initialised before the threads start and either the platform refuses to unlock
  another thread's mutex or no block spans two buckets.  Both hypotheses are
  needed: without the first a second `initLib` resets a mutex in use, without the
  second `DHash_v_unlock` shows the violation.  The invariant `SInv` strengthens
  `MutualExclusion` to *a thread in a section owns its mutex*, where unlock is
  unchecked up to the last unlock of `removeAddr`; the library stays initialised;
  and where unlock is unchecked no thread is at a cross-page place.  The proof has
  a lemma for each group of actions (lock, unlock, release, list and
  abort steps).
* **`ListsStayOrdered`, `TableMatches`, `TableAnswersRight`** (`DHashProofs`):
  `ListsOrdered`, `TableMatchesHeap`, `TableAnswers`, under the hypotheses of
  `MutexesExclude` and as long as no allocation of a node fails (`fails = 0`; after a
  failure the lists may be wrong, section 5).  None of the three is inductive.  `Content`
  says exactly what every list holds: the blocks of the heap that are to be shown in it,
  told from where each block's call is (`Shown`), in increasing order, with the counter
  their number.  That a step on one list does not disturb what another thread knows is
  where `MutexesExclude` is used (`SInv`).  `TableAnswersRight` says that the
  lists, between any two operations on them, give the right answers; it says of
  `checkRegistration` what it answers when no operation on its bucket overlaps it.  The
  walk of the nodes beside such operations is `DHashList`'s, model-checked only.
* **`NoLockKept`** (`DHashProofs`): `IdleHoldsNoLock`, and that a thread which waits for
  a mutex holds none, so that the two cannot deadlock; same hypotheses.  `HeldInv` is the
  converse of `SInv`: a thread holds *only* the mutex of the list it works on.
* **`AloneNoLockKept`** (`DHashProofs`): `IdleHoldsNoLock` for a program of one thread
  (`Thread = {me}`), from the uninitialised library or not, however many allocations of
  nodes fail, which is what the run `DHash_fail_single` checks for two failures.  That
  there is one thread is needed: with two and one failure a mutex is kept (section 5,
  dhash.c:580), since another thread may remove, before the rollback comes to it, the
  entry for which the right bucket refused the block.  A failure leaves blocks in only one
  of their lists, and counters that are too large, so `Content` above is lost; `AloneInv`
  keeps what is left of it.  A counter is at least the length of its list plus the blocks
  counted but linked nowhere (`BucketGood`), so that it is not 0 before the list is empty.
  An entry ends behind the beginnings of those before it (`Behind`), and the first entry
  with the left zone of a heap block is that block's own (`FoundFirst`).  A right bucket
  that refuses a block still has the reason when the rollback searches it (`RollsBack`),
  and a call that gives back memory the system does not have is on its way to `abort`
  (`Doomed`).  TLC checked the invariant on five overlapping blocks with four failures
  before it was proved.
* **`TableImplementsRedZones`** (`DHashProofs`): DHash implements `RedZones`, for any
  threads, blocks and hash, under the same hypotheses with `MaxFail = 0`.  Each step is
  mapped to one of the abstract allocator or to none (`MallocMaps` ... `StepMaps`): a block
  becomes guarded when it gets into its second list, and ceases to be with the first
  it leaves.
* **`AnswersRight`, `FreedReported`, `ShadowImplementsRedZones`** (`HMStandardProofs`):
  `AccessesAnswered`, `FreedWordsReported` and the refinement of `RedZones`, for any
  number of threads, any chunks, zone size, stores and builds.  `HInv` says whose each
  block is (`Owned`: the call that allocates it, the program, the call that frees it),
  that chunks in use overlap neither each other nor freed bytes (`Apart`), and what every
  word of the shadow memory is, by the block it belongs to and where that block's call is
  (`Content`).  Overlapping chunks are the point: a word that two blocks have at
  different times has the marks of the one in use.  What is answered depends on the build.
  `AnswersRight` supposes `useRegistration` or `fastCheck`, as there is no check without
  either; that an access to the block's bytes is accepted it says of builds with
  `useRegistration`, since a pattern alone cannot tell such bytes from a zone's; and with
  `fastCheck` zones are reported while they are intact.  `FreedReported` is about builds
  with `ASANCheck` and `useRegistration`, byte by byte, and the refinement about those with
  `useRegistration`.  The module begins with the lemmas on the words that
  `registerAddr` and `removeAddr` write, in the order they write them.
* **`NoBlockLost`, `BlocksGuarded`, `UseAfterFreeReported`** (`FreeListsProofs`):
  `EveryBlockOnce`, `LiveBlockGuarded`, `FreedBlockReported`, for any number of lists and
  any size of regions, zones and requests.  `FInv` says that blocks with their zones lie
  below `mapped` and share at most a zone (`BlocksApart`), that a list has each of its
  blocks once and all of its size (`ListsRight`), that a block is in a list or in use and
  not both (`HeldRight`), and what the shadow memory of each is (`Guarded`, `FreedShut`).
  The zone two neighbours share has to stay shut whichever of the two is freed.
  `BlocksGuarded` and `UseAfterFreeReported` suppose ASAN builds (`ASANCheck`): with a bit
  for each byte `removeAddr` leaves seven of eight bytes of a word open (section 5).
* **`PollerSurvives`** (`PoolProofs`): `PollerAlive`, for any jobs, when a hang-up
  is seen after the exit and the output is ASCII.  The invariant `PInv` says that
  a pipe is registered only for a job in `self.jobs` (`StoredFirst`: `run` stores
  first and registers second), and that each event still to be handled is that of
  a registered pipe, no two are of one pipe, and one that hung up belongs to a
  process that has exited (`EventsOK`).  `Pool_v_hang` shows that the first
  hypothesis is needed; the second excludes line 201's `UnicodeDecodeError`.
* **`NoOutputLost`** (`PoolProofs`): `OutputSaved`, for any jobs, whether or not the
  status is at hand at the hang-up and whatever characters are written, and however much.
  What a job left in the pipe beyond the last read is lost, as `OutputSaved` allows
  (section 5).  The invariant `OInv` keeps account of each unit (written = saved + in the
  pipe, while the poller lives) and says that a hang-up the poller has seen is final,
  nothing is written after it, and that the read at the hang-up took all or a whole
  `Chunk`.
* **`RunningBounded`** (`PoolProofs`): `RunningWithinMax`, for any jobs and sizes, when a
  hang-up is seen after the exit.  (Otherwise a job that only closed its output leaves the
  queue while it runs, and is no longer counted.)  `WInv` says that what runs is in
  `self.jobs` or about to be, and that these together have space; so the count may be
  made while the poller takes jobs away.  The sum of nodes is a fold over a set; its
  lemmas (`SumByAny`: any element may be taken out first, `FewerTakeLess`) are proved by
  induction over the size of the set.
* **`JobsLeaveNoLock`** (`SpecRunProofs`): `LockReleased`, for any nodes and whichever
  commands fail.  `LockReleased`
  speaks of finished jobs only; the invariant `RInv` says that at any time the lock
  is there only while some rank's script is between taking it and the end of its trap
  (`LockHeld`), so the last rank to end removes it.  That every command that fails
  leads to the trap is `ScriptMoves`.
* **`TwoRanksExclude`** (`SpecRunProofs`): `LockExcludes`, when there are just two nodes.
  Exclusion alone is not inductive, since a trap may remove a lock that is another
  rank's; `Guarded` adds that a rank inside then is without a lock only when
  the script of another is over.  With two nodes nobody is left to get in; a third is
  the counterexample of `Spec_v_lock`.
* **`NothingRunIsLost`** (`SpecRunProofs`): `RunsListed`, for any nodes and whichever
  commands fail.  With three nodes the lock does not exclude, so the proof does not rest on
  it.  `LInv` shows why the merges are right all the same.  Until one rank has copied its
  whole directory, the lock does exclude (`FirstCopy`): who fails then was the only
  one with the lock, and nothing is shared.  From then on the shared list is only cut of its
  end and added to, in whatever order the ranks do it, and lacks only what a rank has copied
  and not yet merged (`Listed`).  A command that fails for outside reasons may leave a part of a directory or
  of a list; then the list is not claimed to be right (`faults = 0`), but that a rank which
  ended well finds its run directory is (`CopiesStay`).  The run directories that a rank knows of are those of other
  ranks or of an earlier run (`Numbered`), so there is always a free number (`FreeNumber`).
* **`ReportsSayWhatRan`** (`SpecRunProofs`): `ReportsRight`, for any nodes, any number of
  reports and interrupts.  Assumed is only that the name of a rank, which stands for the
  figures of its run, is none of the tokens of a log (`TokensAssumption`).  A log is read
  line by line, so what a report finds in `w \o <<token>>` follows from what it finds in `w`
  (`ReadMore`), and a result cut off anywhere adds nothing to it (`ResultRead`).
  `LateReport`: a report that starts after the job has, of the logs it is done with, what is
  now cached in them, and what such a report has said is cached in all of them, so that no
  later one reads anything else; that is why reports agree although early ones may have
  cached a wrong result.  `NotEarly`: without an early report the logs are what the ranks
  wrote and, after the job, what reports made of them.  That a rank which ended well has
  shared what it ran (`OwnKept`) keeps the report from failing, and rests on `LInv` above.  The figures are
  those in the run directory with the rank's number: its own, or those of another rank
  that took the same number and copied its own there.
* **`DependenciesReady`, `ContextsApart`, `BinariesFinished`, `AllIsBuilt`,
  `SetupImplementsBuildOrder`** (`SetupBuildProofs`): `DependenciesInEnv`, `NoStacking`,
  `BinariesReady`, `EverythingBuilt` and the refinement of `BuildOrder`, for any project and
  any set of command lines.  Assumed are that the project is finite, that no dependency
  list has a cycle (`GraphAssumption`: `get_deps` raises a FatalError otherwise, and
  nothing is done), and what the argument parser lets through (`CommandsAssumption`).
  `BinariesFinished` supposes also that no target which takes the pool runs its hooks in
  the setup; the one target that does take it, SPEC2006, overrides `run_hooks_post_build`
  with nothing (spec2006/__init__.py:497).
  - The walk of the graph: `DependencyWalk` says that `get_deps` lists what the objects name
    (`DepsRight`), everything after what it needs (`DepsInOrder`), and nothing that a closed
    set of packages could do without.  It is proved by induction on the number of objects
    the walk has not visited.
  - The command: the list of its operations is computed before any of them runs, by nested
    loops, so an invariant of the steps alone does not say what comes next.  `Does` gives for
    each operation the context, the copies of it, what is built and the binaries before and
    after it, and what must be so before it; `Leads(args, ops, X, Y)` that a list of
    operations takes every state of `X` through states in which each operation may be done
    to one of `Y`.  The parts of a plan are put together as in Hoare logic, with the
    loops of `_run_build` and `_run_run` as inductions (`PlanLeads`).
  - The invariant `SetupInv`: what is left to do leads from where the command is to where
    its kind ends (`OnItsWay`), the binaries and the pool's jobs have their own contexts
    (`BinariesOK`), and a stage is one of the operation at hand (`StageOK`).

* **`OutputInLog`, `ResultsKeepOrder`** (`RunTeeProofs`): `NothingLost` and `ResultsInOrder`,
  for any number of commands, tees and copies of the context, any outputs, and any size of
  pipes and reads; assumed is `RunAssumption` alone.
  - Both properties speak of sequences flattened and filtered.  That `FlattenSeq` of a longer
    list is that of its beginning and what is added (`FlattensExists` and the lemmas after
    it) is an induction, over lists this time.
  - `TypeInv` (`RunTypes`) says how tees hang together: a tee holds pieces of its own
    commands only, a tee for `teeout` writes through one that has a string, the command that
    runs is to take its result from the string of the context's tee.
  - `NothingLost` then is inductive with `TypeInv`: reading and cutting off lines lose nothing
    (`CutIs`, `ReadIs`), also when a line that cannot be decoded ends the thread.
  - `ResultsInOrder` needs to know of every step where the output of a tee is.  `Apart`:
    another tee's string is another string, and no output of this tee gets there.  `Order`:
    the results so far, then what is in the string (unless it was taken just now, `Live`),
    the line being written, the buffer and the pipe are in ascending order.  A line for a
    string that was read before the line came is in no result at all, and for that
    reason never behind a later one.

* **`EveryAccessChecked`, `CallsReachRuntime`** (`InstrumentProofs`): `AccessesChecked` and
  `CallsTakenOver` for every program, of any length.  Of a program is assumed only that a
  callee belongs to a call and that its names have none of the prefixes
  (`ProgramsAssumption`).  The invariant `IInv` holds between any two steps of the passes.
  `Pending(fn)` are the instructions of a function that are still as they were written: all
  of them before the pass comes to the function, those of the work list while it is there,
  none afterwards.  `ChecksOK`: a check lies before each access that is not pending, and
  nowhere else; `NamesOK`: a direct call is replaced exactly when it is not pending, and
  another use of an allocator has its wrapper as soon as `Open` is over, that is before the
  second pass begins.  `InOrder` makes the instruction with a number unique, so that the step
  finds it although checks have moved it (`RewrittenIs`); `Spliced` and `Shifted` say where
  the others are then.  The order of the passes is needed: `NextPassStep` uses that no
  address is left to be replaced.

Induction over numbers is done by a least counterexample (`Induction`, from `WFMin` of the
library and the order of the naturals), always over a set that is written down, since the
provers cannot instantiate a theorem that takes an operator.  It serves for the recursion of
`BlockSize`, for sums over sets, for lists and for the least of a set of numbers.

Only model-checked:

* `UsedIsComplete` and `FailsOnlyAfterInterrupt`: they are about what 25 recipes make of 25
  directories and hold by the contents of the recipes, not by an argument about the setup;
  the instance has all recipes there are.
* `DependencyListsRight`: it compares `get_deps` with the reference definitions on all small
  graphs.  What of it matters to the setup is proved of every graph by `DependencyWalk`,
  `DepsRight` and `DepsInOrder`; that a cycle is always found is not.
* `DHashList`: that its pointers compute `RedZoneTable`'s lists (`ListsComputeTable`) and
  what a calm check answers (`CalmChecksAnswer`).
* All liveness, as the prover does not do it.

## 5. Findings

With a run that shows them:

1. `DHash_v_unlock` - `removeAddr` unlocks the left mutex of a cross-page block
   twice (dhash.c:522 ... and 609).  With the default mutex the second unlock
   frees the mutex another thread holds.
2. `Pool_v_hang` - `job.poll()` is None when the hang-up precedes the exit status;
   `'%d' % None` ends the poller thread and `wait_all` never returns (parallel.py:
   90-93, 161).
3. `Spec_v_lock` - a rank that is done releases the lock with `rmdir` and then, by the
   trap of EXIT, removes it again, when it may belong to another rank
   (spec2006/__init__.py:362, 385); a third rank then gets in beside that one.

Seen in the code while modelling, without a run here:

*Hash table library*

* dhash.c:218 - `checkRegistration` walks a list without a mutex.  `addAddrToList`
  publishes a node (644, 649) before it sets the node's own `next` (645, 650), so a check
  that passes there sees a list cut behind the new node and misses the zone of a block in
  use; `removeAddrFromList` unlinks nodes that are then freed under the check; and a check
  that has seen a counter other than 0 may find `first` NULL before `counter--` and follow
  it.  In `DHashList`: `ZonesSeen` is violated, by an insertion in front, and so is that
  no check crashes.
* dhash.c:866 - two first calls both initialise the mutexes; in the model
  `PreInit = FALSE` with two threads violates `MutualExclusion`.
* dhash.c:741 - when `crossToAdd` cannot be allocated, `toAdd` stays linked; later
  blocks over the same memory are counted and not linked, or out of order.
* dhash.c:580 - in the branch of a rollback that finds no entry on the right the code
  unlocks `memL` instead of `memR` and returns with the right mutex held; two threads
  and one failing allocation violate `IdleHoldsNoLock`.
* dhash.c:908 - after REGISTRATION DENIED the block is freed and its address
  returned.
* dhash.c:219 - a zone that crosses a page boundary is listed in the bucket of its
  first page only, and a block of three or more pages in no bucket for its middle
  pages, so accesses there are not reported.
* dhash.c:240 - `accessSize` is used, though dhash.h:55 calls it un-used.
* dhash.c:961, hmboundscheck.c:1041 - `realloc` copies by `malloc_usable_size`,
  red zone and slack included.
* dhash.c:1025 - `Dlib_memalign` does not call `initLib`; as the first call it uses
  a zone size of 0.

*Shadow-memory library*

* hmboundscheck.c:503 - `removeAddr` writes 64, one bit of eight in the bit build; the
  comment says all bits are set (500-502).
* hmboundscheck.c:561 - when the size is no multiple of 8, the last `size % 8` bytes
  of the right zone are in a word that is not marked.  `AccessesAnswered` speaks
  of the marked bytes (`MarkedEnd`).
* hmboundscheck.c:932 - `Dlib_malloc` of the custom allocator rounds a size up in an
  `unsigned`, so a padded size above 2^31 that is no power of two is lost; the requests of
  `FreeLists` leave such sizes out.

*Passes*

* Allocation.cpp:14 - `memalign` is not in the tables, so through a pointer or a cast
  it stays the C library's, while a direct call is replaced.  `posix_memalign`, `valloc`,
  `strdup` and others are never replaced (HMDHashPass.cpp:71 says so of the first), but the
  `free` of their blocks is: such a block goes to a library it did not come from.
  `CallsTakenOver` states just this.
* hmboundscheck.c:446, 511 - `registerAddr` and `removeAddr` are not renamed, so they count
  as the program's (`programNames`) and are instrumented, unless the compiler inlines them
  first.  (`unloadLib`, which nothing calls, would be too.)

*Infrastructure*

* parallel.py:79 - one buffer is read when output and hang-up arrive together; the
  rest is lost (`Pool_jobs` has such a job, and `OutputSaved` says how much can be).
* parallel.py:97 - a job that ends while the main thread adds up nodes makes it
  raise a RuntimeError (`raised` in the model); parallel.py:91 - jobs leave the queue
  before their callbacks, so `wait_all` may return before the last report;
  parallel.py:201 - output that is not ASCII ends the poller thread.
* setup.py:573 - a package that is named, is a dependency and is provided by the
  host is built by force without having been fetched.  The command lines of the run
  leave this out.
* setup.py:634 - with a pool, a target whose `build` has no such parameter is not built,
  without a message.
* gnu.py:260 - the tests of binutils, automake, llvm, gperftools, prelink, libelf,
  specperl, perlbrew and libshrink are true before the stage is done (`MarkerLast` does
  not hold): after an interrupt the next command takes half a stage for a whole one.
* util.py:206 - the result of a command is what its tee has written by the time the
  command exits; the rest gets into the next result.  util.py:279 - output that is
  not UTF-8 ends the tee's thread, and the next full pipe is never emptied.
* util.py:165 - a tee made in a copy of the context is lost with the copy, its last
  line with it if the program ends.
* spec2006/__init__.py:349 - two ranks may take the same name for a run directory, of
  which the one that copies last stays, and the report gives its figures for both; and a
  rank that starts while another copies the whole directory fails, the report then shows a
  timeout.  361 - a killed job leaves the lock for ever.
* tools.py:205 - a report given while a job runs caches "timeout" in the log, and later
  reports repeat it.  tools.py:209 - a report interrupted between two results of a log
  leaves the first as all there is, for every later report.  tools.py:251 - an `end` without `begin`, which the job's own
  output can leave of a cached result, yields None, and the report fails.

## 6. Plan

The next steps, the most important first:

1. Proof: that `get_deps` finds every cycle.
2. Proof: `ListsComputeTable` and `CalmChecksAnswer`, for lists of any length.
3. `DHashHeap`: bytes of the blocks: the pattern, `checkMemoryAccess`'s two
   stages, `realloc`, `calloc` with its overflow (`% 2^w`), `memalign` before
   initialisation, `unloadLib`.
4. `PrunPool`: the parsing of `prun`'s output in `parallel.py`.

The abstract specifications are `RedZones` and `BuildOrder`; `RedZoneTable` is what the
pointers of `DHashList` are compared with.

## 7. Not modelled, and why

* `Libraries/hmboundscheck.c`: an earlier variant that does not compile (the
  definitions of `MEMORY_LIST` and `AMOUNT_OF_LOCKS` are commented out).
* `skeleton/runtime/dhash.c`: the hash table without mutexes; `RedZoneTable`
  describes its lists.
* The infrastructure's other LLVM passes, small tools, documentation: input and
  output, or declarations, without state.
* Test programs: copies of the libraries with a `main`; they call allocation
  functions in single-threaded sequences (`ParallelTest.c`: in threads) and
  check nothing the properties do not.
* In the modelled parts of the libraries: logging; failures of `malloc` for the
  application's block (an early return of NULL without effect), of `mmap` for the
  shadow memory, and overflow of sizes; alignment of `memalign`.
* In the infrastructure: `EPOLLERR`, which the read end of a pipe does not raise;
  `__del__` of the pool; commands of the setup that only print; the text of SPEC's
  configuration files and the arithmetic and tables of reports; silent and deferred
  calls of `run`; the SIGTERM of a node's script, after whose trap the script goes on
  without its lock; that `prun` writes a node's output at its own offset is assumed
  from how `ProcessPool` writes files.
