# A verification project for snowball-ltp-tests

The repository holds kernel tests for the Snowball board, in the frame of the
Linux Test Project: a kernel module that tests the DMA40 engine
(`dma_test_module.c`, `dma_test_lib.c`), a user-space program that reads its
results (`dma.c`), tests for four sensors, and the LTP library every user-space
test is linked with (`src/ltp_framework/lib`). This directory models the parts
with logic of their own in TLA+, checks them with TLC on small instances and
proves some of the results with TLAPS for all parameters.

In the following MOD is `src/kernel/testcases/dma/kernel_space/dma_test_module.c`,
LIB is `dma_test_lib.c` beside it, DMA is `dma/user-space/dma.c`, RES, SIG, TMP,
RM, PO, LIO, WL, FL, RR, TOK and OF are `tst_res.c`, `tst_sig.c`, `tst_tmpdir.c`,
`rmobj.c`, `parse_opts.c`, `tlibio.c`, `write_log.c`, `file_lock.c`,
`random_range.c`, `string_to_tokens.c` and `open_flags.c` of the library.

## 1. Inventory

| Component | State | Operations | Hard behaviour | What makes it correct |
|---|---|---|---|---|
| DMA test engine (LIB, MOD 136-280) | a `tc_struct`: work queue, channel, buffer list, laps, counters, completion, time-out | create, queue a lap, map and submit, callback, count, check the payload, next lap, wait, destroy | thread, work queue, tasklet, timer and hardware run concurrently; signals end the wait; the time-out is cancelled without waiting for it | laps do not overlap, nothing is used after it is freed, buffers are mapped while they are transferred, 0 means copied |
| Size lists (LIB 86-223) | `list_size` | set, randomize | 32-bit divisions, a `-1` terminator, an allocation in wrong units | sizes within min and max, the walk stops inside the allocation |
| Groups of channels (MOD 1030-1632) | an array of `tc_struct`s | initialise as many as there are channels, start, pause and resume, wait in order, free | fewer channels than wanted, completions in any order, pausing a moving target | nothing freed while busy, channels come back, no failure lost, nothing stays paused |
| Linked jobs (MOD 1827-1944) | an array of lists on one channel | prepare, submit, callback, wait, check, destroy | the channel is borrowed; jobs complete before they are waited for | released once, judged after the job |
| debugfs interface (MOD 36-60, 702-768, 1158-1306, 2224-2585) | `tc_mutex`, `tc_22_25_chan` | open, read (lock, switch, print, unlock), load, unload | several readers; interrupted locks and sleeps; a channel in a static | one test at a time, the shared channel is stable, every read is answered |
| `dma` (DMA) | option, counters, results | load, loop over tests, open, read, report, unload | the counter is an index and a test number at once | each result is about its test, the loop stays in its table |
| Result library (RES, SIG) | the statics of `tst_res.c` | `tst_res`, `tst_brk`, `tst_flush`, `tst_exit`, `tst_sig`, ... | condensing prints late; `tst_brk` calls back and may be called back from | no failure lost, exit status tells all, a broken test ends |
| Temporary directories (TMP, RM) | `TESTDIR`, the tree | `tst_tmpdir`, `tst_rmdir`, `rmobj` | any system call fails, another process changes the tree, links lead out | nothing else removed, what stays is reported |
| Option parsing and test loop (PO) | options, copies, stop time | `parse_opts`, `usc_test_looping`, `usc_global_setup_hook` | 32-bit microseconds wrap, forked copies share nothing afterwards, a signal before `pause` | loops as often and as long as asked, as many copies as asked |
| Buffer I/O (LIO) | method, left bytes, the blocked completion signal | `lio_write_buffer`, `lio_read_buffer`, waiting, checking, `stride_bounds` | short transfers, retries, an answer that comes before or after the wait, other signals | the amount moved is the amount told, nothing is left in flight or blocked |
| Write log and locks (WL, FL) | the log file, its offsets, locks | append and overlay a record, scan backwards, lock | appenders side by side, shared descriptors, a buffer that cuts records | records whole, the scan sees each once |
| Numbers, tokens, flags (RR, TOK, OF) | none | draw from a range, parse ranges, tokens, flags | rounding below zero, overflow, overlapping flags | in range and a multiple; what a list stands for survives |
| Data patterns (`pattern.c`, `dataascii.c`, `databin.c`, `datapid.c`) | a buffer | generate, check | the check computes the bytes in another way | finds exactly what changed |
| Sensors | a saved sysfs value | write, read, compare, restore, select | restoring on every path | not modelled |
| Other library files | none | forking, system queries | - | not modelled |
| Shell scripts, build files | the shell's | - | - | not modelled |

How they interact. `dma` and `dma_test_all.sh` read debugfs files; each read
runs one test case of the module under `tc_mutex`; the test case drives the
engine (alone, in a group or as linked jobs); the engine calls back from the
DMA driver's tasklet. `dma` reports with the result library; a test that needs a
directory calls `tst_tmpdir`, whose failures go through `tst_brk`.

`PROJECT.json` lists the components with their state of modelling, and under
`hazards` every place where a test would hardly reach what can go wrong.

## 2. Modules

| Module | Models | EXTENDS / INSTANCE |
|---|---|---|
| `TcTable` | the parameters of test cases 1 to 69 | |
| `TcEngine` | one `tc_struct` and its buffer list | instance of `TestCase` |
| `TestCase` | what a test case promises: a loop over laps | |
| `SizeList` | `dmatest_sizelist_set`, `dmatest_sizelist_randomize` | `TcTable` |
| `TcParallel` | the three functions that run groups; an element is what `TestCase` promises | |
| `TcLink` | `tc_link_core` | |
| `D40TestRun` | `d40_test_run` and what is shared behind it; engine, group and link tests are its "plain" test cases | instance of `TestServer` |
| `TestServer` | what the files `test_<n>` promise: each read is served at one moment | |
| `DmaUser` | `dma.c`; the kernel is any answer `D40TestRun` can give | |
| `TstRes` | the result library | |
| `TstTmpdir` | the temporary directory; `tst_brk` at depth 0 as in `TstRes` | |
| `ParseOpts` | options, environment, copies, the pause, the test loop and its clock | |
| `Tlibio` | one call of `lio_write_buffer` or `lio_read_buffer` as Linux builds it | |
| `WriteLog` | writers of a log and a scan of it, `file_lock` | instance of `RecordLog` |
| `RecordLog` | what a log promises its writers: an order of records, one added by each writer, who is told its place and marks it | |
| `LibHelpers` | `random_range*`, `random_bit`, `parse_ranges`, `string_to_tokens`, open flags, `stride_bounds` | |
| `DataPatterns` | the generators and checks of data patterns | |
| `D40Proofs`, `TcParallelProofs`, `TcLinkProofs`, `ParseOptsProofs` | theorems | the module each is about |
| `TcEngineProofs` | theorems about the engine and its size lists | `TcEngine`, `SizeList` |
| `TstResProofs` | theorems about the result library and a test that reports with it | `TstRes`, `DmaUser` |
| `LibProofs` | theorems about temporary directories and the helpers | `TstTmpdir`, `LibHelpers` |
| `IoProofs` | theorems about buffer I/O, the write log and data patterns | `Tlibio`, `WriteLog`, `DataPatterns` |
| `MC*` | constants for TLC; `MCHelpers` puts `SizeList`, `LibHelpers` and `DataPatterns` beside each other, of which a behaviour runs one | the module or modules each is about |

State and actions carry the names of the code's variables and functions where
TLA+ allows; `map` in `PROJECT.json` gives the lines of each. Where one C
function sleeps or runs beside others it is several actions, cut at the points
where something else can run:

- **TcEngine.** `main` is the place of the test-case function; `work` the state of
  `work_start`; `submitted`, `inflight`, `due` and `cb` follow a job from
  `tx_submit` over the hardware to `transmit_cb` and `tc_worker`. `timer` is the
  delayed work: idle, armed, or fired and not run yet - `cancel_delayed_work`
  takes back the second and not the third. `wrong` is the set of destinations
  that differ from their sources; a faulty engine may leave any it likes.
  The three ways in which test cases handle a failing creation are `wrapper`.
  A `fault` (first use of something freed) ends the system: the kernel oopses.
- **TcParallel.** The function's loops one iteration per action; an element's
  `left` and `err` change in any order. Pausing leaves a residue to be read, and
  the two pause loops take the decisions the code takes on it.
- **D40TestRun.** One reader is one read in progress. Reading any of `test_22` to
  `test_25` goes through `tc_22_req`, `tc_23_no_irq`, `tc_24_irq` and `tc_25_free`
  until one fails. Channels have identities: `own` is one in a local, `jobs` the queue
  of each (a forgotten channel's jobs run on), `dropped` the jobs that a release threw
  away. Once a signal has ended a sleep on the mutex (`signalled`) test cases overlap,
  and so the static is a variable two readers use without a lock: storing it behind
  the request (MOD 1166), testing it, releasing the channel and clearing it (MOD
  1299-1303) are steps of their own, and the release takes the channel that was tested
  or the one that is there by then. Preparing, submitting and issuing a job is one
  step, and so is unmapping and comparing.
- **TstRes.** The library's statics are a record, a call is a composition of the C
  functions it goes through. The test is the environment: its next call is any.
- **TstTmpdir.** `stack` holds the calls of `rmobj`; every system call succeeds or
  fails. Each is a step: `lstat` of an object (RM 104), `opendir` (RM 127), `rmdir`, `readdir`,
  the `lstat` behind the last entry, the removal. Between any two a second process may add
  and remove entries, the same one as often as it likes. It does not replace an entry by one of
  another kind: a node is a directory or not for good (section 6 says what rests on that).
- **ParseOpts.** An action is one option of the command line (`ParseOption`), what
  follows the last of them with the environment (`ParseEnds`), and then a stretch of
  one process between two looks at the clock, two forks or two sleeps.
  Time comes in ticks; `get_current_time` reads it
  modulo the width of an int, and the conversions int-float-int of the stop time
  are done as ARM does them (what does not fit becomes either end). A process
  that has no iterations to count and no clock to look at ends the count at `MAXLC`.
- **Tlibio.** A method is its set of bits; `Lio_info1` and `Lio_info2` are the two
  tables, and a token may be a number. The call is one process; the I/O it has
  submitted, its completion signal and signals of others (`SIGNALS`) run beside it.
  `signalling` says whether the completion signal is blocked, pending or delivered.
- **WriteLog.** The log is a sequence of bytes that know whose they are, so that a
  record torn by another can be seen. Nothing in the repository calls
  `write_log.c`; the writers are clients that do what the comments of
  `wlog_record_write` say. Processes after a fork share descriptors and their offset,
  and lock (`WaysAssumption`): without the lock one gets another's offset. What the log
  holds before is any sequence of whole records of others (`LogsAssumption`).
- **LibHelpers.** A random draw is any draw; a function answers any of what it can
  answer. An int has the values -W .. W - 1, and `%` and `/` round as C does; a long
  long has `DEPTH` bits more, and the arguments of `random_rangell` are such that no
  sum of theirs overflows. Where a loop matters a round is a step: `divider` halves a
  range, `parse_ranges` takes a token, `openflags2symbols` a row of its table. A shift
  by as many bits as an int has gives any bit (`BitValues`).
- **DataPatterns.** A buffer is filled, a stretch of bytes may change to any of `Lost`,
  and it is checked from one of its first bytes on. A round of a loop is a step:
  `pattern_fill` doubles what is there, `pattern_check` compares the buffer with
  itself.

Wrong variants (`NoPayloadCheck`, `NoMutex`, ...) stand beside the definition
they vary. No specification uses them; they are the seeded bugs that show that each
property can fail.

## 3. Runs

| Run | Instance | States | Shows |
|---|---|---|---|
| `engine` | up to 3 laps of up to 3 entries, single or scatter-gather, with or without `DMA_CTRL_ACK`, every wrapper | 172 000 | laps never overlap; `TransferGuarded`: buffers are mapped and the first job is timed while they are transferred; `TornDown`: teardown when quiet, nothing leaks; 0 means copied; the test case returns; `TcEngine` implements `TestCase` |
| `parallel` | groups of up to 3, 3 channels, residue up to 3, 3 polls | 33 000 | `GivenBackInTime`: nothing freed while busy, channels conserved; no error lost, nothing left paused, every test returns |
| `link` | 1 to 4 jobs, both orders of issue | 24 000 | `LentAndReturned`: mapped while running, released once and when quiet, no leak; judged in time; returns |
| `d40_test_run` | 2 readers, 2 reads each, 2 channels | 360 000 | until a signal ends a sleep on the mutex: `ReadersApart`, mutual exclusion and a stable shared channel, and `ChannelsApart`, no channel free and in use; every read answered; `D40TestRun` implements `TestServer` |
| `tst_res` | 3 calls, 2 messages, 1 file, 3 break types, all modes | 355 000 | no failure lost or shown with another's file, exit status, order, nesting of `tst_brk` |
| `dma_user` | no option and 6 test numbers, 3 iterations | 5 700 | results carry their test's number and verdict, each iteration asks what was asked for |
| `tst_tmpdir` | a tree of depth 2 with a link out of it, 2 foreign entries, changed as often as one likes | 55 000 | nothing else removed while nodes keep their kind; `GoneOrWarned`: 0 means gone and the rest is reported; `rmobj` ends |
| `helpers` | size lists of 3 entries with 2 quotients at each end of the range, 4-bit ints and 8-bit long longs, 10 range strings, all sets of 6 flags, patterns of 1 to 3 bytes and buffers of up to 8, a changed stretch of one of 3 values, checked from one of the first 3 bytes | 33 000 | sizes in range and walks that stop; ranges, tokens, flags and strides right; checks find what changed |
| `tlibio` | every letter and token, 8 lists or numbers, files, fifos and bad descriptors, 0, 2 and 3 bytes | 32 000 | the amount told was moved, nothing is left in flight or blocked, the call returns |
| `parse_opts` | 8 clock values, 4 processes, counts to 4, 0 and -1 among the counts and durations | 440 000 | loops as long and as often as asked, for ever when asked for 0 iterations or a duration of 0; copies as asked; an end |
| `write_log` | 2 writers, logs of 0, 2 and 5 records, a buffer of one to three records | 998 000 | `WriteLog` implements `RecordLog`, so that records stay intact; the scan right, an end |
| `engine_mismatch` | as `engine` | | violated: see section 6 |

Why the bounds are enough. The engine treats all entries of a list and all laps
but the first and the last alike; three has a first, a middle and a last, and the
proofs lift the safety results to any number. `MCTcEngine`, `MCTcParallel` and
`MCTcLink` assume (TLC evaluates it) that each test case of `TcTable`, cut down to
the bounds, is one that the run tries. `chan_start_index` 3 of five channels is cut
to 2 of three. `MAX_POLLS` (1000 in the code) only says how often the first pause
loop may look; 3 covers giving up at once, after some tries, and never. Two readers
show every race for one mutex and one channel; the proofs cover more. In `TstRes`
two equal results and a different one are what condensing needs, `tst_brk` in a
cleanup function in a signal handler needs three calls. `LOOPS`, `READS`,
`MAX_CALLS`, `CHURN`, `SAMPLE`, `SKIP`, `RETRIES`, `SIGNALS`, `MAXPROC`, `MAXLC`, `EARLY` are
bounds of the model and named so.

In `ParseOpts` W = 4 gives a clock of eight values: stop times before the wrap, at
it and behind it, and durations that fit and that do not (the code has 2^31
microseconds, about 36 minutes). Four processes are
more than `-c 3` makes: a child that goes on forking shows. One `EARLY`
SIGUSR1 is enough to lose one. In `LibHelpers` an int of four bits has every case of
sign and of rounding, and `divider` halves up to as often as an int has bits, where
the shift is undefined. In `Tlibio` three bytes are a first, a middle and a last chunk; one retry and
one foreign signal come at any point. In `WriteLog` the length of a record takes two
digits of base 2 (of base 256 in the code), and the buffer of 12 bytes cuts records
in each of their parts; the log of five records fills it three times.

`CHECK_DEADLOCK` is on in every run but `helpers`: each specification has a step for
the system that is over, so that TLC finds the states in which nothing can happen too
early. A helper is called once and answers; there the end is the end.

Properties that speak of a time before any signal (`Unsignalled`, `Sound`,
`interrupted = 0`) are conditional because the code gives them up then: the value of
`wait_for_completion_interruptible` and the failure of `mutex_lock_interruptible`
are not acted upon. `Sound` asks only that no signal has ended a sleep on `tc_mutex`;
the wait of `tc_24` may have been interrupted. The models have the signal and go on behind
it; what must hold even then (`NothingLeaks`, `JobAccounting`, `Terminates`,
`EveryReadAnswered`) is stated without the condition.

## 4. Fairness

Weak fairness for what the kernel schedules when it can run: threads, work items,
tasklets; and for the hardware to finish what it has been given. A signal, an
expiring time-out and another process are never assumed to come, so no liveness
result rests on one. In `TcParallel` a channel has strong fairness: a paused channel
makes no progress, and each round of the pause loop resumes it, waits
`mdelay(1)` (MOD 1103) and pauses it again; the delay is there so that the engine
moves in it. In `TstRes` only a cleanup function is assumed to return.
In `Tlibio` the caller runs and submitted I/O completes; nobody sends a signal. In
`WriteLog` each process runs; a lock is released by whoever holds it. In `ParseOpts`
the processes run, time passes and whoever asked for the pause ends it; the delay
loop (PO 748) has strong fairness for seeing its end, since it reads the clock far
more often than the clock wraps. `Terminates`
and `EveryReadAnswered` accept an oops as an end: it is the safety properties that
say when there is none.

A hung engine hangs the reader: `transfer_timedout` prints and completes nothing.
That is why the fairness of `HwFinish` cannot be dropped.

## 5. Proofs

All for every value of the constants, from the named assumptions only.

- **TcEngineProofs.** `EngineInv` is inductive with `TypeOK`. `JobAccounting` alone
  is not: that the callback of the last job is the last thing outstanding has to be
  known to conclude that the completion means quiet (`TeardownQuiescent`), that work
  is idle when the queue is destroyed, and that the time-out is armed only while no
  callback of the lap has been seen. One step per action, the conjuncts below it.
  `NoUseAfterFree` and `ZeroMeansCopied` follow step by step from the invariant and
  not from it alone, since it says nothing once the kernel has oopsed.
  `Refinement`: each step is a step of `TestCase` or leaves its variables alone.
  Assumption: the parameters are a test case's (`TestCases`).
  For `SizeList` the arithmetic of the double division: U div (U div d) = d for
  U = 2^32 - 1 and 0 < d < 2^16, so that the largest quotient is exactly max - min;
  then monotonicity of `ALIGN`. Assumption: max - min < 2^16, which holds of every
  call of the module.
- **D40Proofs.** All until a signal has ended a sleep on the mutex (`Sound`), behind
  which nothing is claimed but what `TestServer` then allows. `SharingInv` adds to mutual
  exclusion that a job of `tc_24` is queued only while its reader waits
  (`IrqJobsAwaited`, until any signal: without it a late callback could find any state);
  that nothing is dropped or released twice, a free channel has no jobs, and the
  static points to a free channel only between the release and the clearing
  (`ChannelsInv`); and what a reader at each place relies on (`InPlace`), which no other
  reader disturbs because none is inside. `ReadersApart` and `ChannelsApart` follow.
  `ServerRefinement`: the reads are those of `TestServer`, each served at the step
  that ends its test case. `TestServer` has no notion of a channel in use, so its
  `free` is `Kept`, the channels available and those that tests hold; a test that
  finds none available is refused rightly because it is alone behind the mutex and
  holds none, so that none available is none kept (`KeptAlone`, from mutual exclusion
  and `PlaceInv`, which test runs at which place). After a signal has ended a sleep on
  the mutex `TestServer` allows a refusal without a cause and any channels lost or
  given back: a read whose wait was interrupted unlocks the mutex of another.
- **TcParallelProofs.** `GroupInv`: which channels are requested is a function of the
  place in the code, `max_channels` and `i` (`Array`); the channels held and those
  free make up `CHANNELS` (`Account`, a cardinality); a paused channel still runs a
  job, so that its residue is not zero and both pause loops end with a resume
  (`PausedInv`, without which `WaitsUnpaused` is not inductive); who was waited for
  is complete (`WaitedFor`), and the loop over `tc[i].err` misses none (`Verdict`).
  Assumption: a group has at least one channel and one lap.
- **TcLinkProofs.** `LinkInv`: each job is completed exactly once, and its completion
  is to come, in the callback, there to be waited for or waited for (`Completions`).
  From that a list that is unmapped or compared belongs to a finished job. One
  channel, requested with the first list and released with the last (`Held`).
  Assumption: at least one job.
- **TstResProofs.** `ResInv` is about the record `lib`, the library's statics, and is
  carried through the functions a call is composed of: each lemma takes a state of the
  library to another. Between the report of a result and the line for it the
  invariant does not hold; `Reporting` is what holds there. Its parts: numbers are
  given out in order (`Counted`); `T_exitval` has the types that were reported
  (`TypesKept`); a buffered result is the last numbered one or one that it repeats,
  and nothing was printed since (`BufferInv`) - without the last, flushing could print
  out of order, and without the first the line printed late would stand for a result
  it is not equal to; who sees all results sees them with their own file
  (`VerboseInv`); a result that is not filtered has a line or is buffered (`Shown`).
  `EveryFailureShown`, `ExitTellsAll` and `RemainingOnce` follow, `LinesInOrder` from
  `Behind` step by step. Assumptions: the library's own messages are not the test's
  (`MesgsAssumption`), and a test breaks with one of the types (`BreaksAssumption`).
  For `DmaUser`: `Tst_count` is one behind the number of the test that runs
  (`TestInv`), and with `-n` the results count the iterations (`OneEach`). The table
  is the source's: its numbers are positive and it has more than one entry. `dma` sets
  `Tst_count` itself (DMA 54), so what is said of the order of lines is about tests
  that leave it to the library.
- **LibProofs**, temporary directories. The stack of `rmobj` holds objects below the temporary
  directory only, starting with it, and what `lstat` saw an object to be it still is when
  it is opened (`StackInv`; this uses that nodes keep their kind); what is in the tree hangs on a
  directory that is in the tree (`TreeInv`): `rmdir` succeeds on empty directories
  only, so that when the directory is gone all below it is. Assumption
  (`BelowAssumption`): entries are in directories, nothing outside lies below the
  temporary directory, and every set of nodes below it has one whose parent is not in
  the set. This is what "a tree" means, put so that no induction is needed.
- **LibProofs**, helpers. `HelperInv` says what the locals of a loop stand for.
  `RangellInv`: the range that `divider` is left with lies above the lower bound asked
  for and is at most W * 2^(DEPTH - cnt) wide, so that it is narrow enough before the
  count runs out and the -1 of "run away code" is never drawn; from a lower bound of 0
  or more a number drawn is not negative, and its remainder picks a multiple in the
  range. `RangesInv`: the
  ranges so far are those of the tokens passed, each at its place among them with the
  minimum, maximum and multiple that its fields give, and no token passed was bad.
  `SymbolsInv`: the names so far stand for the bits taken away,
  no row passed is still in the rest, and O_SYNC is left only if O_DSYNC was not given
  - the rows of the table are ordered so that the larger flag comes first, which is
  what keeps O_DSYNC from taking a part of O_SYNC. What is computed in one step are
  lemmas: the multiples between two bounds and the draw of each (`RangeIs`,
  `RandomRangeIs`), the bits of a mask (`RandomBitIs`), the bytes of strides
  (`StrideIs`). Assumptions: `HelperAssumption`, arguments of the types of the code
  and small enough for a long long, and `PowerAssumption`, that a power of two is
  twice the one before it.
- **ParseOptsProofs.** Only the first process forks, its counter is the number of
  processes made and of forks that failed (`CopyInv`). For the loop `LoopInv`: the
  options are those of the part of the command line that was parsed, of which the last
  `-i` and `-I` count, and a 0 for either sets `STD_INFINITE` (`ParsedInv`);
  what the loop then works from is what was asked
  for (`AskedInv`); and `now` is at most the stop time less the duration plus what has
  passed, as long as the clock has not been left behind by a stop time that does not
  fit - so that a loop that ends by the clock has run as long as asked. The
  conversions int-float-int of ARM are lemmas about `Int32` and `%`. Assumption
  (`RunsAssumption`): an argument is a number, as whatever `atoi` makes of it is, and
  the clock starts at an int.
- **IoProofs**, buffer I/O. `IoInv`: nothing is in flight before the submission, and
  a call that leaves a transfer in flight was interrupted and answers an error
  (`FlightInv`); the loops of `read` and `write` keep moved and left bytes together
  the size, the other types transfer once (`AmountInv`); the completion signal is
  blocked from the submission to the first look at the result, and is pending only
  in between (`SignalInv`).
- **IoProofs**, write log. `WriteInv`: a process that holds the lock is the only one between its
  seek and its write, and the offset of a shared descriptor is its own as long
  (`LockInv`); each record of the log is whole and lies where its writer's stage and
  offset say (`OwnInv`, `LogInv`) - with this an overlay hits the bytes of its own
  record and appending cuts none. Writers on descriptors of their own need no lock,
  because `O_APPEND` moves the offset with the write.
  All of it holds as long as no write was short (`torn`).
  `RecordLogRefinement`: the bytes are the records of `RecordLog`. That an append adds
  one record behind all others needs that no record is cut (`OwnInv`, `LogInv`); that
  what a writer is told is the place of its own record, and that an overlay marks this
  record and no other, needs the offset that the lock, or a descriptor of its own, made
  certain (`OverlayStep`). `RecordsIntact` says the same of a state; the run checks the
  refinement in its place.
  `ScanInv`: what is left of the log ends with a record; the bytes in the buffer are
  the log's; the records behind them are those counted (`PlaceInv`); each call of the
  client's function was for the record of its place, and for each place once
  (`CallsInv`); a count of records ends the scan (`StopInv`). Assumptions: a length fits its two
  bytes and the buffer holds two records of the greatest length (`SizesAssumption`;
  the code's buffer is 32 blocks of 512 bytes, WL 278, and a path has 128), `WaysAssumption` and `LogsAssumption`.

- **IoProofs**, data patterns. `PatternInv`: the bytes are those that their offset in
  the file asks for, and while `pattern_fill` runs there are whole patterns or all the
  bytes (`FillInv`): a copy of whole patterns continues them, which is what makes the
  doubling right. What `pattern_check` has compared is a multiple of the pattern and
  has not changed, so that equality with it is equality with what was written
  (`CompareInv`). The lemma under both: `Shifted` at an offset is the pattern read
  round from there. Assumption (`FillsAssumption`): a pattern and a list of
  characters are not empty; sizes and offsets are naturals.

Only model-checked: the liveness properties (`Terminates`, `BreakEnds`,
`EveryReadAnswered`, `Returns`, `ScanEnds`), which are beyond the prover. Every other
property of the passing runs has its theorem.

## 6. Disagreements between the code and what is said of it

With a run (see `findings`): a later good lap hides an earlier bad one (MOD 191
against LIB 332).

Met while reading and modelling; the models do what the code does, and a property
that would not hold is stated for the rest. The DMA tests:
- A pause test without any channel frees lists that never were (MOD 1060).
- `dma` without `-n` leaves its table of names, whose index is the test number
  (DMA 138, 54).
- `tst_tmpdir` leaves the directory when it fails behind `mkdtemp` (TMP 232).
- `rmobj` opens what `lstat` (RM 104) saw to be a directory by its name (RM 127), through a
  link if there is one by then. That it removes nothing elsewhere relies on nobody
  replacing a directory meanwhile: the model's nodes keep their kind, and
  `NothingElseRemoved` is claimed for that only.
- tc_50 and tc_53 start at index 3: with three channels or fewer they start nothing
  and answer OK (MOD 1354).
- `tc_link_core` returns 0 when the links cannot be allocated (MOD 1866).
- tc_3 to tc_5 and tc_15 to tc_20 ignore the result of the creation (MOD 410).
- "block here until test case finished" (MOD 326): a signal ends the wait.
- A read whose wait for `tc_mutex` a signal ended unlocks the mutex of another
  (MOD 2237, 2251, 2508). Then two readers may both pass the test in `tc_25_free` (MOD 1299) before
  either clears the static (MOD 1303), and release the channel twice; or one releases
  it with the other's job in its queue, and the other waits for ever. The model
  does both. `ReadersApart` and `ChannelsApart` end with that signal, and
  `EveryReadAnswered` excepts the reader so stranded.
- The time-out prints "failed" (LIB 50) and the test may still answer OK.
- `payload_check` returns -1 (LIB 327), the header says the index (`dma_test_lib.h` 95).
- `tc_read_reg` tests `read_type | X`, which is always true (MOD 1558-1575).
- With `TOUTPUT=NOPASS` the file of a filtered result is shown with a later one
  (RES 463-465, cleared only at 495).
- `tst_brk` without cleanup exits (RES 633), the comment at 625 reads otherwise.
- An invalid type as the first call prints to a stream that is not open (RES 607).
- A file that cannot be opened makes `cat_file` and `tst_print` call each other for
  ever (RES 701).
- "Leaks previous allocated buflists" (MOD 1879) cannot happen: only the first
  creation requests a channel.


Option parsing and the test loop:
- The stop time wraps: a duration beyond 36 minutes, or one begun just before the
  clock wraps, ends at once or late (PO 726, 771). `LoopsAsAsked` is stated for stop
  times that fit.
- `STD_bigstack` is allocated only if it already is (PO 533, 544): with
  `USC_LP_RECFUN` a null pointer is passed by value.
- A zero for `-i` or `-I` sets `STD_INFINITE`, and a later one does not clear it; a
  negative `-i` loops not at all; `USC_COPIES` is stored before it is found to be
  negative (PO 452).
- A SIGUSR1 between `signal` and `pause` is lost (PO 638).

Buffer I/O:
- `LIO_WAIT_TYPES` is the bit `LIO_WAIT_ACTIVE` alone on Linux, so that the branches
  for `sigpause`, `sigactive` and no waiting are dead: `LIO_WAIT_NONE` waits (LIO 527).
- A short write is resumed and the last part returned (LIO 530 against 753); a read
  that ends at the end of the file after a part of it returns 0 (LIO 1291).
- Having looped on EINPROGRESS the call returns the negated answer of `aio_error`, 0
  (LIO 1671).
- A wait that another signal ends leaves the I/O in flight on a stack frame that is
  gone (LIO 1787-1796); `LIO_USE_SIGNAL` leaves the signal blocked.
- An asynchronous request that suspends until a callback has come stores a size where
  the attributes of the notifying thread belong (LIO 699-707, 1249-1257); in the model
  that notification does nothing.
- `lio_random_methods` keeps the bits of asynchronous types (LIO 466).

Write log and locks:
- `WLOG_STOP_SCAN` breaks the inner loop only: the scan goes on with the block before
  (WL 391-397).
- `w_pathlen : 7` cannot hold 128, nor `w_patternlen : 6` 64 (`write_log.h` 101-105).
- A length byte is a plain char: a build with signed chars fails for records of 128
  bytes and more. A short write is not noticed. Appenders that share a descriptor and
  do not lock get each other's offsets.
- A second `lseek` that fails is not noticed: the test is of the place less the length
  against -1 (WL 235-236).
- `file_lock` does not try EAGAIN again with `LOCK_NB`, nor EINTR without it.

Helpers:
- `random_range` leaves the range when an end below zero is no multiple; a maximum
  near INT_MAX overflows when the minimum is bumped; INT_MIN to INT_MAX divides by
  zero. `random_rangell` likewise for a negative minimum and a large maximum.
- `divider` can come to `1<<32`: a range of nearly 2^63 is still 2^31 wide after 32
  halvings. Either outcome of the undefined shift leads to a number of the range.
- `string_to_tokens` writes `arg_array[array_size]`.
- An empty pattern makes the generators loop (`pattern.c`, `databin.c`).
- `stride_bounds` of no stride at all has odd bounds.
- `str_to_bytes` of an empty string reads an uninitialised multiplier.

## 7. Not modelled, and why

- The endless `tc_14` as a read that never returns: every property of `D40TestRun`
  about answers would except it. Its calls are in `TcTable`.
- An initialisation of the module that fails half way, and unloading under a reader:
  what happens is decided in debugfs and the module loader.
- Buffer contents byte by byte: a destination equals its source or does not. The
  end padding is verified by nothing.
- `tc_read_reg`: reads registers and drops them.
- A signal in the middle of a call of the result library (`TstRes` takes a call as
  one step).
- The special-system hooks of `parse_opts.c` (barriers, `sbrk`, shared memory,
  `USC_LD_RECFUN`): the repository's tests use none.
- In `WriteLog` a second `lseek` that fails, an overlay that writes a part of a record, an
  unlock that fails. In `Tlibio` the thread of a notification.
- `record_lock`: the loop of `file_lock` for a part of a file.
- What CRAY, sgi and sun build of `tlibio.c`, `datapid.c` and `forker.c`, and the
  branches of `lio_wait4asyncio` that Linux never takes.
- `str_to_bytes`, range accessors, kernel versions: a line or two of arithmetic each.
- The four sensor tests: straight sequences of sysfs writes and reads, whose answers
  are the sensor's.
- Layout of output lines, debug prints.
- Components marked `not_modelled` in `PROJECT.json`.

## 8. Plan

Done, in this order: engine, size lists, groups, linked jobs, debugfs, `dma`, result
library, temporary directories; theorems for engine, size lists, debugfs; then
options and test loop, buffer I/O, write log and locks, helpers, data patterns;
theorems for the guarding of transfers and the complete teardown, then for groups,
linked jobs, `dma`, temporary directories and the copies of a test; then for the
result library, the test loop and its clock, buffer I/O, the write log and its scan,
data patterns and helpers; last the abstract specifications of the debugfs files and of
the log, and that the code implements them.

What is left:
1. `TstRes` with signals inside a call (`tst_condense` between free and replace).
2. `ParseOpts` as the loop of `DmaUser`; the special-system hooks.
3. Writers of `WriteLog` that crash between append and overlay, which is what the log
   is for; `record_lock`.
4. The select loop of `prox_sfh7741.c` and the restoring of the sysfs sensors.

Abstract specifications worth stating, with their refinement: a result log (set of
results, exit status) that `TstRes` implements; a group as the conjunction of its
`TestCase`s; the scan of a log as an iterator over the records there were.

Theorems worth proving next: these refinements, and the results of the parts that
are left.
