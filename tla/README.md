# Verification of sdiff

`src/sdiff` is a patcher for Android packages (zip archives), derived from
Google's archive-patcher.  The generator uncompresses the entries of both
archives that are worth it ("delta-friendly blobs"), lets `hdiffz` compute a
binary difference and writes it with the plan for compressing again.  The
applier uncompresses the same entries of the old archive, runs `hpatchz` and
recompresses the result, with zlib or `7zz`, in one thread or in several.
The repository also carries the sources of native programs the patcher is used
and compared with; three multi-threaded parts of them are modelled as well:
zstd's thread pool, the asynchronous I/O built on it, and the block compressor
of HDiffPatch (which is `hdiffz`).

This directory holds TLA+ models of that code, the TLC configurations that
check them on small instances and proofs, checked by TLAPS, of what holds on
all instances.  Paths below are relative to
`src/sdiff/com/google/archivepatcher` unless they start with `czlib`,
`zstd-dev` or `HDiffPatch` (the copy in `src/code_Figure9`).

## 1. Inventory

| Part | State | Operations | Interacts with |
|---|---|---|---|
| Zip parsing (`generator/MinimalZip*`) | none (a list of entries) | `listEntries` | read by the executor and the diviner |
| Divination (`DefaultDeflateCompressionDiviner`, `MatchingOutputStream`) | an inflater and a deflater, shared over the search | `divineDeflateParameters` | executor |
| Planner (`PreDiffPlanner`, `similarity/`, `PreDiffPlan`) and limiters (`TotalRecompressionLimiter`, `DeltaFriendlyOldBlobSizeLimiter`) | maps of entries by path, the list of recommendations | `generatePreDiffPlan`, `getModifiedRecommendations` | called by the executor; result drives czlib |
| Executor (`PreDiffExecutor`) | the files and the plan | `prepareForDiffing` | planner, czlib (JNA) |
| Delta-friendly blobs (`czlib/czlib.cpp`, `shared/cZlibBuildFri`, `shared/DeltaFriendlyFile`) | two files and their positions, the range arrays | `process` | both sides call it for the old blob, the generator for the new one |
| Patch format (`generator/PatchWriter`, `applier/PatchReader`) | a stream | `writeV1Patch`, `readPatchApplyPlan` | generator to applier |
| Applier front end (`FileByFileV1DeltaApplier`, `LimitedInputStream`, `sample/SamplePatchApplier`) | temporary files | `applyDelta` | the two appliers |
| Single-threaded apply (`Apply`) | position in the new blob | `deltaApply` | hpatchz, the stream |
| Multi-threaded apply (`MThreadApply`, `MTCompressWorker`) | latch, a file and a stream for each worker | `deltaApply`, `run` | hpatchz, `MTlistSplit`, streams |
| Division of the plan (`MTlistSplit`) | position and score left | `getSubLis` | called in a loop by the main thread |
| Recompressing stream (`PartiallyCompressingOutputStream`) | next range, deflater, spool file | `write` | zlib, `7zz` |
| Thread pool (`zstd-dev/lib/common/pool.c`) | circular queue of jobs, threads, their limit, two condition variables | `POOL_create`, `add`, `tryAdd`, `joinJobs`, `resize`, `free` | used by the asynchronous I/O and the multi-threaded compressor |
| Asynchronous I/O (`zstd-dev/programs/fileio_asyncio.c`) | jobs with a buffer each: available, queued, completed, held; offsets, end of file, skipped zeros | `setFile`, `fillBuffer`, `consumeBytes`; `acquireJob`, `enqueueAndReacquireWriteJob`, `sparseWriteEnd` | two thread pools of one thread; driven by `FIO_passThrough` and the codecs |
| Block compressor (`HDiffPatch/compress_parallel.cpp`, `libParallel/parallel_channel.cpp`) | work buffers, two channels, dictionary, list of compressed blocks | `parallel_compress_blocks` | called by `hdiffz`'s compression plugins |
| `applier/gdiff`, `explainer/`, deflate wrappers | small | | not on the path of sdiff's patches, or reporting |

What is hard in it:

* *Threads.*  Workers write files the main thread concatenates; a latch
  separates the two.  The count of the latch, the number of workers, the
  division of the plan and the byte ranges of the workers are four pieces of
  state computed in different places that must agree.
* *A stream with memory.*  One stream goes through ranges of several kinds,
  keeps a deflater between them, spools 7z ranges to a file that survives the
  process, and cuts arbitrary buffers at the edges of ranges.
* *Dropped errors.*  Exceptions of workers and of `readFile`, exit codes of
  `hpatchz`, and the result of czlib are not passed on.
* *Files as implicit state.*  czlib relies on the position of a file, and the
  applier on names of files in the current directory.
* *Greedy limiters in sequence*, which rewrite one list of recommendations.
* *Condition variables.*  A pool whose limit changes while its threads run, a
  consumer that waits for one offset, threads that take buffers from a channel
  another one may be closing: each wait needs somebody who signals it.
* *Buffers that change hands* between threads: one lost or used twice stops or
  spoils everything that follows, often only in the next file.

What makes each part correct is stated by the properties of section 4; the
hazards, each at its line, are listed in `PROJECT.json`.

## 2. Modules

| Module | Models | Based on |
|---|---|---|
| `PartialCompression` | the stream, as a record and operators on it, so that one thread or several can own one; the reference `Recompressed` | |
| `ListSplit` | `MTlistSplit`, as operators | |
| `DeltaApplier` | the contract of `DeltaApplier.applyDelta` (abstract specification) | `PartialCompression` |
| `MThreadApply` | main thread, workers, latch, files | `PartialCompression`, `ListSplit` |
| `Apply` | the single-threaded process, killed and started again | `PartialCompression` |
| `SplitLoop` | the dialogue of the main thread with `MTlistSplit` alone, for longer lists | `ListSplit` |
| `CzlibProcess` | `process()` of czlib step by step, `DeltaFriendlyFile` as reference | |
| `PreDiffPlanner` | pairing, recommendations, limiters, the uncompression plans | |
| `Diviner` | the search for the settings of a deflated entry, as operators; zlib is a constant | |
| `PreDiffExecutor` | divination of every entry of the new archive, then the planner | `PreDiffPlanner`, `Diviner` |
| `PatchFormat` | what `PatchWriter` writes, as an operator; `PatchReader` as a state machine over any file | `PartialCompression` (types) |
| `PatchPipeline` | from the uncompression plan to the plans the applier has: czlib, writer, transport, reader | `CzlibProcess`, `PatchFormat` |
| `JobPool` | the promise of a thread pool (abstract specification) | |
| `Pool` | the thread pool of zstd, a step for each critical section; shown to implement `JobPool` | |
| `IOPool` | what the read and the write pool share | |
| `ReadPool` | the read pool and its thread | `IOPool`, `JobPool` |
| `SparseWrite` | `AIO_fwriteSparse` and its end, as operators | |
| `WritePool` | the write pool and its thread | `IOPool`, `JobPool`, `SparseWrite` |
| `PassThrough` | `FIO_passThrough` with both pools, for one file after the other | `ReadPool`, `WritePool` |
| `BlockCompress` | compressing a stream block by block (abstract specification) | |
| `Channel` | a channel of HDiffPatch, as operators on a record | |
| `ParallelCompress` | `parallel_compress_blocks` with all its threads; shown to implement `BlockCompress` | `Channel`, `BlockCompress` |
| `PlanSpace`, `MC...` | values of the constants for TLC | |
| `PlanLemmas` | lemmas the other proofs share: induction, the division of a plan, the stream that follows a plan | `PartialCompression`, `ListSplit` |
| `ApplyProofs`, `MThreadApplyProofs`, `SplitLoopProofs`, `PatchPipelineProofs` (czlib and the reader included), `PlannerProofs` (limiters, diviner and executor included), `PoolProofs` (`PassThrough` included), `ParallelCompressProofs` | theorems | |

### Correspondence

* **Stream.**  `ranges` is `nextCompressedRange` with what the iterator has
  left; `deflating` is `deflaterOut != null`, `seven` is `is7zcompressing`,
  `last` is `lastDeflateParameters`, `spool` the content of `tmpFile7z` and
  `out` what has reached `normalOut`.  `WriteChunk` is one call of
  `writeChunk`: `EnterRange`, `ChunkSize`, `Consume`, `FinishRange` are its
  parts in order.  The loop of `write()` is a loop of the process that owns
  the stream, one step per `writeChunk`, so that a crash can come in between.
  A byte of the blob is its position; what a codec emits for a range is one
  item, `<<codec, bytes>>`: the result is right when the right codec got the
  right bytes in the right order.  What a deflater emits early is attributed
  to its `finish()`, since nothing reads the output before.
* **`Apply`.**  `RunHpatchz`, `ReadBlock`, `Write`, `Return` are the statements
  of `deltaApply`; the faults are `hpatchz` stopping early, `7zz` leaving no
  archive (a `NullPointerException`), an `IOException`, and the process being
  killed.  `Rerun` starts the applier again in the same directory.
* **`DeltaApplier`.**  A call returns, with the blob recompressed, or throws, and
  then the caller may try again (`Retry`).  Both appliers are mapped to it by
  `Delivered`: a call that returns although `hpatchz` fell short, or one whose
  7z ranges met the spool file of an earlier run, does not return for the
  contract.  A run that is killed and started again is one call.
* **`MThreadApply`.**  The main thread goes through `diff`, `split`, `start`,
  `merge`, `returned` or `threw`; `StartWorker` is one turn of its loop, `Await`
  the return of `latch.await()`, `MergeFile` one `readFile`.  A worker goes
  through `open`, `read`, `write` and ends in `done` after `countDown()` or in
  `dead`.  `chunk` is its `startIndex` and `processNum`.  Every run begins with
  empty spool files: a `7ztmpfile` of `Thread-N` that an interrupted run left
  behind is the subject of `Apply` only, while old `newPatchFile_sub` files are in
  this module, too.  An `IOException` of the main thread itself
  (`MThreadApply.java:22-33`, `74-75`) goes to the caller and is not modelled.
* **`ListSplit`.**  `AverageSubList` and `WeightedSubList` are the two branches
  of `getSubLis`; the fields that change are passed in and returned as `split`.
  `Rejected` says that `subList` or the `get(size - 1)` after it throws.
* **`CzlibProcess`.**  Each `fread`/`fwrite` block of `copyBytes` is a step;
  `at` is the position of `blob`.  A byte `fread` did not fill is the value
  `Stale`.  With `reverse`, `pos` and `length` are overwritten in place.
* **`PreDiffPlanner`.**  `Recommend` is one turn of the loop over the new
  entries, in any order (it iterates over a `HashMap`); any of the old entries
  of equal CRC may be first in its list.  `Decreasing` is the stable sort and
  the reversal, defined by what it returns: the permutation that is decreasing
  and puts equal entries in the reverse order.  `Limited` is the loop both
  limiters have.
* **`Diviner`, `PreDiffExecutor`.**  `Candidates` is one turn of the loop over
  `nowrap`, in the order of the two inner loops; `Matches` is what a
  `MatchingOutputStream` accepts, `expectEof` included.  `Deflated` stands for
  zlib: any function from settings and contents to bytes for which the
  settings that the code leaves out behave as its comments say.  An entry that
  is cut off raises an `EOFException`, which is not a `ZipException`: for a
  small entry it is caught and means `null`, for one of 100 KB
  (`SmallSize`) or more it ends the generation (`DivinationThrows`).  A small
  entry is read into memory by one call of `read` whose result is not looked at
  (`DefaultDeflateCompressionDiviner.java:117`); here it reads all of the bytes, as
  `RandomAccessFileInputStream` does for a file that nobody cuts meanwhile.
* **`PatchFormat`.**  A file is the sequence of the values of its fields; a
  field that is not there is an `EOFException`.  `ReadHeader` to
  `ReadDescriptor` are the parts of `readPatchApplyPlan` in order, one step per
  instruction; `Refuse` is any declared exception, `NoSuchParameters` the
  `IllegalArgumentException` of `JreDeflateParameters.of`.  `Long` is the sum
  of two longs.  A count is not checked against what the memory can hold.
* **`PatchPipeline`.**  `Process` is any step of `process()`, `WritePatch` the
  rest of `generateDelta`, `Arrivals` the transport: the whole patch, any
  beginning of it, or one field changed.  `ReadPatch` is any step of the
  reader.  `ensureOrdered` is a guard of `WritePatch`: if it ever failed, the
  pipeline would stop, and the run checks for deadlock.

* **`Pool`.**  The variables are the fields of `POOL_ctx_s`.  A critical section
  of `queueMutex` is one step; `wpc` says whether a worker does not exist,
  wants the lock (`ready`), sleeps on `queuePopCond` (`popWait`), runs a job or
  has exited, `cpc` the same of a caller on `queuePushCond`.  A signal wakes any
  one of the threads that sleep on the condition variable, and any of them may
  wake for nothing.  `phase` is the life of the pool; `POOL_join` shuts down
  under the lock and broadcasts outside of it, in two steps.  `CreateReturns` sets
  the capacity and the limit in one step; `pool.c:156-160` sets them one after the
  other without the lock, while the threads run already.  A worker looks at the
  limit only when there is a job, and nobody adds one before `POOL_create` has
  returned.  A job is its
  number in the order of acceptance.  Calls are made as the callers in the
  repository make them (`MayCall`, `MayJoin`): none after `POOL_free` began, and
  `POOL_joinJobs` by a caller that shares the pool with nobody.
* **`ReadPool`, `WritePool`, `PassThrough`.**  A thread pool is what `JobPool`
  promises, with one worker, which goes from `idle` through the parts of its
  job and back (`rStage`, `wStage`).  `pc` is where the main thread is, and each
  acquisition of `ioJobsMutex` or of the pool's lock is a step of its own.
  `srcBuffer` is a place in the buffer of a job or (no job) in `coalesceBuffer`.
  Without `asyncIO` the same steps do the work of the pools themselves.  A
  sparse file is its content and the gap the last seek left (`Seek`, `Fwrite`).
  `AssertionsHold` states the assertions on which jobs there are, the one on the end
  of the source, and that the copy into the coalesce buffer does not overlap what
  it copies.  It leaves out those on sizes that follow from a single guard
  (`fileio_asyncio.c:592`: less than a block is loaded when a read is appended;
  `fileio.c:2025`: a write is no longer than a block) and the check of the
  allocation (`fileio.c:315`).
* **`ParallelCompress`.**  A thread goes through `accept`, `read`, `compress`,
  `write`, `send` and `end`; `raise`, `close`, `clear` are the parts of
  `on_error`, during which it keeps the lock it has, and `resume` is where the
  `break` of `_check_br` leads.  The calling thread starts the others, is itself
  the last one (`mpc = "work"`) and waits for the messages of `_end_chan`.
  Reading is one step, as `readLocker` is held throughout; writing is several,
  since other threads send and accept in between.  The buffers are disjoint
  places.  In the code they are `threadMemSize` bytes apart, which does not count
  the header of `TWorkBuf` (`compress_parallel.cpp:237`), although the room for
  the code begins behind it and is taken to end at `buf + threadMemSize` (line 198):
  a code that comes within the header's size of `maxCompressedSize` would reach
  into the next buffer.  Sizes of codes are not modelled.

## 3. Plan

Done in this order: stream and multi-threaded apply; division of the plan;
single-threaded apply with restarts and the contract of both; czlib; planner
and limiters; divination and the executor; patch format and the pipeline from
czlib to the reader; theorems of the appliers, the division and the reader;
thread pool, asynchronous I/O and parallel compression; theorems of the pool
and of parallel compression; theorems of czlib, the patch format, the planner
and the executor, the balance of the division, that both appliers keep the
contract, and of the asynchronous copy.
Next:

1. `Generator`: `PreDiffExecutor` and `PatchPipeline` in one run, both archives
   through czlib, and then with an applier, against "applying the patch to the
   old archive yields the new one".  It needs zlib contents in `CzlibProcess`.
2. The applier front end: the delta-friendly old blob, `LimitedInputStream`
   and the choice between `Apply` and `MThreadApply`.
3. Two processes in one directory (`7ztmpfile`, `newPatchFile_sub`).
4. Stateful inflater and deflater (`DeflateCompressor`, `DeflateUncompressor`
   and the search of the diviner): what a missing `reset` would do.
5. Zip listing as an abstract reader (`MinimalZipArchive`, with the search for
   the end record), `RandomAccessFileInputStream` with mark and reset, `Gdiff`.
6. The codecs as further consumers of the asynchronous I/O, and zstd's
   multi-threaded compressor (`zstdmt_compress.c`) on `JobPool`.
7. Proofs: every safety property of the passing runs has its theorem; next are
   those of the modules above, and that `PassThrough` implements a copy of one
   block after the other.

## 4. Runs

| Run | Properties | Bounds |
|---|---|---|
| `mt_apply` | `MergeOnlyCompleteFiles`, `LatchCountsUnfinished`, `NeverPastRange`, `ReturnsRecompressed`, `Terminates`, `KeepsContract` | blob of 6 bytes, blocks of 2; plans of 0, 1 or 3 ranges of 1 or 2 bytes, and of 5 ranges of one byte, zlib and 7z; 2 or 3 threads asked for; faults of hpatchz, 7zz and the I/O of a worker, at any step |
| `apply_runs` | `TypeOK`, `RerunRecompresses`, `DeflaterFitsRange`, `Terminates`, `KeepsContract` | blob of 5 bytes, blocks of 2; plans of up to 3 ranges of 0 to 2 bytes of 4 kinds (zlib at two levels, with a zlib header, 7z); every fault, two runs |
| `split_lists` | `SublistsTile`, `LoadIsBalanced`, `EnoughRangesNeverRefused` | all lists of up to 5 ranges with 7z lengths 1, 2, 3, 5; lists without 7z of up to 26; up to 5 threads |
| `planner` | `RecompressionWithinLimit`, `OldBlobWithinLimit`, `PlansAreExecutable`, `UncompressedMeetsPlain`, `RefusedOnlyForSpace`, `RangesReproduce` | 1 or 2 old entries of 5 kinds; one new entry of 11 kinds, or 2 or 3 of 4 kinds; no more than two limiters, in any order |
| `patch_pipeline` | `RangesAreFriendly`, `InverseLocatesEntries`, `GoodPatchIsRead`, `CutPatchRefused`, `PlansReadInOrder` | file of 5 bytes, blocks of 2, up to 2 ranges, which may not inflate, one of them 7z; patches cut anywhere or with one field replaced by -1, 3 or the largest long |
| `pool` | `JobsRunInOrder`, `NoWorkerOversleeps`, `NoPusherOversleeps`, `KeepsPromise`, `JoinWaitsForAll`, `JobsFinish`, `CallsReturn` | 1 to 3 threads, 2 callers, 3 jobs, 2 calls of `POOL_resize`, a queue of 0, 1 or 2; a thread may not be created |
| `pass_through` | `CopiesSource`, `JobsHaveOneOwner`, `AssertionsHold`, `CopyEnds` | 3 jobs (`MAX_IO_JOBS` is 10), reads of 6 bytes, blocks of 5, words of 2; one file of 0, 6 or 13 bytes or two of 1 or 6, with no zeros, zeros only, or a run of them; with and without threads, sparse or not |
| `parallel_compress` | `BuffersHaveOneOwner`, `ThreadsAreGone`, `WritesLikeOneThread`, `CallReturns` | blocks of 2 bytes, dictionary of 3, streams of 0, 4 or 5 bytes, 1 to 3 threads; one failure of any kind |
| `mt_worker_error` | violates `WorkerErrorReported` | an I/O error in a worker |
| `czlib_tail` | violates `TailIsCopied` | one range |
| `limiter_exact_fit` | violates `RetainedOnlyBelowCap` | the archives of `planner`, few of them, one limiter |
| `czlib_failure` | violates `NoPatchAfterFailure` | the plans of `patch_pipeline`, few of them, with ranges that do not inflate |

Why the bounds are enough: a block is shorter than the blob and longer than
some ranges, so that a buffer is cut inside a range, at an edge and across
several; three ranges give a first, a middle and a last one and every order of
the kinds (zlib with and without the `nowrap` setting, 7z), hence every reuse of
the deflater; two and three workers give a first, a middle and a last chunk;
more threads than ranges and too few ranges for the average length both occur.
In the longest plans of the two appliers all ranges but one are alike
(`AlmostUniform`): one range that differs from its neighbours is what the reuse
of a deflater or a sublist that begins with it can get wrong.
In `planner` the kinds of entries are zlib output of three strategies and two
forms, bytes after the end of the stream, another compressor's output, a
cut-off entry, one that deflate made longer, stored ones and one of a foreign
method; a small entry is one of no bytes there (`SmallSize = 1`), so that the
exception goes up.  In `patch_pipeline` `MaxLong` is 1000, far above every
offset and sum but reached by a damaged field, so that the end of a range does
overflow.
In `pool`, two callers and three jobs fill a queue of one or two slots, the
limit can be lowered below the threads that are busy and raised again, and a
signal may reach any of two sleepers.  In `pass_through` reads, blocks and words
have sizes of which none divides another, so that blocks end inside reads and
words; a file may end with a read, a block or neither, and three jobs for three
reads and those after the end make every job come round.  `SkipLimit` is three
bytes, fewer than a run of zeros has.  In `parallel_compress` three threads on
three blocks finish in every order and take seven buffers of four in turn; the
first block has no dictionary, the second less than a full one; an empty stream
has no block and no thread.
`MaxFaults = 1` injects one failure, after which further calls of `on_error`
come from the channel that is closed then.
For the division, 26 ranges exceed the square of the five threads at which the
property begins to hold.  `MaxRuns` bounds the restarts, and the number of
workers is bounded by `MaxThreads`; nothing else is cut off.

What the passing runs show: with faults anywhere, the main thread merges only
complete files, and a result that is returned is byte for byte what one thread
would have written, provided `hpatchz` did its work; a process that was
interrupted leaves nothing behind that matters to the next one, except the
spool file of a 7z range; the blob czlib writes is right up to the end of its
last range and the plan locates the entries in it; if every range inflates, the
reader accepts what was written and has the generator's plans, and no patch that
arrives intact makes it throw what it does not declare; a patch cut
before its delta is refused; in every plan the reader makes, whatever the damage,
a range begins at the end of the one before it or later, except directly after a
range whose end overflows a long (`RangesFollow`); the plans of the planner can be
executed, the limits hold whatever
follows the limiter, a `TotalRecompressionLimiter` alone refuses nothing that still
fits (an exact fit included, which is what the code does and its comment denies),
and an entry is planned only with settings that give back all of its bytes.  An
entry with a zlib header (`nowrap` false) is divined and planned, too, while czlib inflates raw streams only: it is one of the ranges
that may not inflate in `patch_pipeline`, and zip files have no such entries.
`OldBlobWithinLimit` leaves out old entries that deflate has made longer: such
an entry paired with two new ones is credited twice, and the limit is passed
by the difference.

Of the native parts they show: the pool runs every accepted job once and in
order, its workers and callers never sleep on while there is something for
them, and all calls return, with threads asleep, held back by the limit or not
created; a copy through the two I/O pools equals its source however the three
threads interleave and whatever was left of the file before, and every buffer
is in one place; blocks compressed by several threads are written as one thread
would, each with the right dictionary, and when the call returns, with or
without a failure, no thread is left.  Two things hold only because of how the
pool is used or of how they are stated: with `POOL_joinJobs` and `POOL_add` at
the same time, which wait on one condition variable, a signal could go to the
one that cannot use it; and in a pool without a queue a limit raised by
`POOL_resize` wakes no pusher, who sleeps until a busy worker ends its job
(the exception in `NoPusherOversleeps`).

What the violated ones show (each is quoted with its line in `PROJECT.json`):

* a worker that ends on an exception never counts down, and `deltaApply` waits
  for ever (this is why `mt_apply` and `mt_worker_error` do not check for
  deadlock: with faults the system really does stop there);
* czlib has moved to the end of the file when it copies what follows the last
  range, so that this part of the blob is whatever the buffer held;
* the comments of both limiters keep an entry that takes *less* than what is left
  before the cap and discard it otherwise (`TotalRecompressionLimiter.java:43-44`,
  `DeltaFriendlyOldBlobSizeLimiter.java:38-40`); both keep one that takes exactly
  what is left (lines 100 and 82).  The caps are respected either way;
* `generateDeltaFriendlyFiles` declares an `IOException` "if anything goes wrong"
  (`PreDiffExecutor.java:187`), but nobody looks at what czlib returns (lines 191
  and 205): when a range does not inflate, its arrays hold places in the blob up
  to that range and still the ranges of the file from there on, and a patch is made
  of them and of a blob that ends in the middle.  The reader may refuse it or not; no check is made for it.

Some inputs are outside the conditions of a property that passes, because the
code does not cope with them: a range of length zero at the end of a worker's
chunk is lost (`mt_apply` has none; the single-threaded applier copes, and
`apply_runs` has such ranges); plans of no range, of too few ranges, and
with 7z ranges at the end make the division throw while workers are running
(`EnoughRangesNeverRefused` says from which length on the average division
does not); and the spool file of a killed run is appended to by the next one
(excluded in `RerunRecompresses`).

Two dropped errors of the appliers need no state exploration.  A file that
`readFile` could only copy in part (the fault `merge`) is in the model and in no
run; that `hpatchz` stops early is in both passing runs of the appliers, and in the
condition of `Delivered`.  With either, the result is wrong and the call returns.
A damaged patch may hold a strategy or a level that passes the checks of
`PatchReader` and that `JreDeflateParameters.of` rejects: the reader then ends in
an `IllegalArgumentException` that nobody declares (`crashed`).  And of a range
whose end overflows, the next one is compared with a negative number
(`PatchReader.java:99`).  The models do both, and no property says that they
should not happen: `GoodPatchIsRead` says that the first needs a damaged patch,
`PlansReadInOrder` that the order is lost nowhere but there.

**Fairness.**  `FairSpec` of `MThreadApply` is weak fairness of the steps of
all threads together: while any thread can run, one does.  That is less than
fairness of each thread, and enough, since no thread runs for ever.
`latch.await()` is a step that cannot be taken before the count is zero.
`Terminates` is about calls in which no worker dies; `WorkerErrorReported` is about
the others.
`FairSpec` of `Apply` is weak fairness of the process's own step.  No fault and
no restart is ever assumed to happen.  In `Pool`, `PassThrough` (`FairCopySpec`)
and `ParallelCompress` it is weak fairness of each thread's steps: a thread that is
not asleep gets the lock it wants at some time.  A caller outside a call need
not make one, and a thread that sleeps on a condition variable runs only when it
is signalled: spurious wake-ups are possible steps, and none is ever needed.

## 5. Proofs

| Theorem | Says |
|---|---|
| `MThreadApplyProofs!LatchCounts` | `Spec => []LatchCountsUnfinished` |
| `MThreadApplyProofs!MergesCompleteFiles` | `Spec => []MergeOnlyCompleteFiles` |
| `MThreadApplyProofs!NeverPast` | `Spec => []NeverPastRange` |
| `MThreadApplyProofs!SameAsOneThread` | `Spec => []ReturnsRecompressed`, without the fault `merge` and with `RangesHaveBytes` |
| `MThreadApplyProofs!ImplementsContract` | `Spec => KeepsContract`: it implements `DeltaApplier`, without the fault `merge` and with `RangesHaveBytes` |
| `ApplyProofs!TypeCorrect` | `Spec => []TypeOK` |
| `ApplyProofs!FitsRange` | `Spec => []DeflaterFitsRange` |
| `ApplyProofs!RunsRecompress` | `Spec => []RerunRecompresses` |
| `ApplyProofs!ImplementsContract` | `Spec => KeepsContract`: it implements `DeltaApplier`, with every fault and any number of runs |
| `SplitLoopProofs!Tiles` | `Spec => []SublistsTile` |
| `SplitLoopProofs!EnoughRanges` | `Spec => []EnoughRangesNeverRefused` |
| `SplitLoopProofs!BalancedLoads` | `Spec => []LoadIsBalanced` |
| `PatchPipelineProofs!ReaderTypeCorrect` | `ReaderSpec => []ReaderTypeOK` |
| `PatchPipelineProofs!ReadsInOrder` | `ReaderSpec => []PlansReadInOrder`: the order is lost only after a range whose end overflows |
| `PatchPipelineProofs!ReadPlansAreUsable` | `ReaderSpec` implies that a plan read from any file, none of whose ends overflows, is what the appliers assume |
| `PatchPipelineProofs!BlobIsFriendly` | `Spec => []RangesAreFriendly` (`Spec` of `CzlibProcess`) |
| `PatchPipelineProofs!PlacesAreRight` | `Spec => []InverseLocatesEntries` |
| `PatchPipelineProofs!GoodPatchesAreRead` | `PipelineSpec => []GoodPatchIsRead` |
| `PatchPipelineProofs!CutPatchesAreRefused` | `PipelineSpec => []CutPatchRefused` |
| `PatchPipelineProofs!PipelineKeepsParts` | `PipelineSpec =>` the invariants of `CzlibProcess` and of the reader |
| `PlannerProofs!TotalLimiterHolds` | `ExecutorSpec => []RecompressionWithinLimit` |
| `PlannerProofs!BlobLimiterHolds` | `ExecutorSpec => []OldBlobWithinLimit` |
| `PlannerProofs!ExecutablePlans` | `ExecutorSpec => []PlansAreExecutable` |
| `PlannerProofs!PlainMeetsPlain` | `ExecutorSpec => []UncompressedMeetsPlain` |
| `PlannerProofs!TotalLimiterIsMaximal` | `ExecutorSpec => []RefusedOnlyForSpace` |
| `PlannerProofs!PlansReproduce` | `ExecutorSpec => []RangesReproduce` |
| `PoolProofs!TypeCorrect` | `Spec => []TypeOK` |
| `PoolProofs!RunsInOrder` | `Spec => []JobsRunInOrder` |
| `PoolProofs!JoinWaits` | `Spec => JoinWaitsForAll` |
| `PoolProofs!ImplementsJobPool` | `Spec => KeepsPromise`: the pool implements `JobPool` |
| `PoolProofs!NoSignalMissing` | `Spec => []NoWorkerOversleeps` |
| `PoolProofs!NoPusherForgotten` | `Spec => []NoPusherOversleeps` |
| `PoolProofs!JobsStayOwned` | `CopySpec => []JobsHaveOneOwner` |
| `PoolProofs!CopyAsserts` | `CopySpec => []AssertionsHold` |
| `PoolProofs!CopyIsSource` | `CopySpec => []CopiesSource` |
| `ParallelCompressProofs!OneOwner` | `Spec => []BuffersHaveOneOwner` |
| `ParallelCompressProofs!NoThreadStays` | `Spec => []ThreadsAreGone` |
| `ParallelCompressProofs!ImplementsBlockCompress` | `Spec => WritesLikeOneThread`: the threads implement `BlockCompress` |

They hold for every value of the constants: those of the appliers and the
division for every plan, blob, block size, number of threads and of restarts,
and with every fault, unless the table says otherwise; those of czlib for every
list of ranges, file and buffer; those of the reader for every file, of any
length and content, and those of the pipeline for every pair of plans, every cut
and every damaged field; those of the planner for all archives, every list of
limiters and every function zlib may be; those of the pool for every size of the
queue and number of threads, callers, jobs and calls of `POOL_resize`; those of
the copy for every list of files, every number of jobs (three or more) and every
size of a read, a block, a word, a segment and the longest skip; those of parallel compression for every size of the stream, the blocks and the
dictionary, every number of threads and of failures.

*Induction.*  The library's induction theorems cannot be used here (they take an
operator), so `PlanLemmas` proves induction for the set of the numbers that have
a property (`SetInduction`: the smallest number not in the set), and with it that
recursive functions over an interval exist (`RecursionExists`), hence that
`RecompressedUpTo`, `FriendlyUpTo`, `SevenZipPrefix` and the sums of the planner
satisfy their own equations.  After that the proofs need single steps of them
only.

*Hand-over.*  `MergeOnlyCompleteFiles` alone is not inductive: nothing in it says
why `Await` may be taken.  `ControlInv` adds which workers have been started in
each phase of the main thread (`Phases`) and that the latch is the cardinality
of the set of unfinished workers.  When `Await` is taken that set is empty, and
as all workers are started, all are done.  A step of a worker either leaves the
set alone (`SameUnfinished`) or is a `CountDown` and takes one element from it.

*Streams.*  `Consistent(s)` is the invariant of one stream: its ranges are in
order, it is inside the range it compresses or before the next one, and the
deflater has the settings of the range or, kept for later, the `nowrap` of the
last one.  `PlanLemmas` shows that each part of `writeChunk` keeps
it.  `ApplyProofs` uses it for the one stream of `Apply`; the content of the
spool file plays no role in it, which is why it survives restarts.
`MThreadApplyProofs` uses it for the stream of every worker (`StreamsInv`).  The
additional argument there is why a new stream starts consistent:
`lastProcessPos` is the end of the range before the next sublist, for both ways
of dividing the plan (`NextFrom`), by `SubListFollows` of `PlanLemmas`.

*What is put out.*  That the result is right is about the whole history of a
stream.  `Follows(s, list, h, base, to, k)` says where it stands: it has the
ranges after `k` left, and what it has put out, after `base`, is `h[k]`, the
recompression of the first `k` ranges, and the part of the gap after them that
was copied; or it is in range `k + 1`, and what has not been put out is in the
deflater (`pending`) or the spool file.  `OnPlan` adds that no range is left
unfinished, and `WriteKeepsPlan` that a call of `writeChunk` keeps it, whatever
the buffer.  In `Apply` (`RunInv`) this and that buffer and stream together make
up what was read from the blob give `Recompressed` at the end of the file
(`OutputToTheEnd`).  In `MThreadApply` no variable says which ranges a worker
was given, so `OutputInv` says that there is a tiling `b` of the plan: worker
`w` has the ranges after `b[w - 1]` up to `b[w]`, its chunk begins and ends where
those do, and its file follows the plan from `h[b[w - 1]]`.  A worker that is done
has read its chunk to the end (`DoneAtEnd`), so that the file it leaves takes
`h[b[w - 1]]` to `h[b[w]]` (`FileOfWorker`), the last one's to the end of the blob,
and what is merged is always `h` at some tile (`MergedInv`).  The refinements
follow: before the last step of a run the contract sees nothing, that step is
`Return`, `Throw` or, if nothing was delivered, a stutter, and a run after one
that threw begins with `Retry`.

Their hypotheses are what the code needs.  A range without bytes at the end of a
worker's chunk is not begun, because no call of `writeChunk` comes after it
(`RangesHaveBytes`; a single stream copes, since the central directory follows).
`readFile` drops the exception that leaves a file merged in part (`merge`): the
output is not what the workers wrote then.  That nobody looks whether
`hpatchz` wrote the whole blob, and that a second run of `Apply` may append to the
spool file of the first, are no hypotheses: they are in `Delivered`, and such a run
delivers nothing.  In `Apply`, `RunInv` has its part on the output only for clean
runs (`CleanRun`), and `Rerun` establishes it anew.

*Division.*  `LoopInv` ties the position `MTlistSplit` keeps, or computes, to the
end of the last sublist handed out.  `EnoughRanges` rests on the arithmetic of
`AverageLeavesSomething`: with `len >= t * t`, `(t - 1) * (len \div t + 1) < len`.
For `BalancedLoads`, `BalanceInv` bounds the score that is left from both sides:
it is at least the weight of the ranges not handed out (so that the last worker
is not overloaded) and at most an equal share for each thread that is still to be
served (`ShareStays`), although the weight of a range that is taken in addition is
never subtracted.

*Reader.*  `PlansReadInOrder` says nothing of `lastReadOffset`, and so is not
inductive: `ReaderInv` adds that it is the end of the last range of the plan at
hand, as the reader computes it (`LastEnd`), and that the plans not come to yet
are empty.  `AppendFollows` is the step: a range that passes the check follows
the last one or the end of that one has overflowed.  When no end overflows, each
range following the one before makes the whole plan ordered and disjoint
(`FollowingIsInOrder`, by induction), which is what the appliers assume
(`ReadPlansAreUsable`).

*czlib.*  `RangesAreFriendly` is about ranges that are done.  `ProcessInv` adds
the range at hand: as long as nothing has failed, `curPos` and the position of
the file are where the reference has read to, and the blob is the reference's up
to there (`Place`, `Prefixes`).  `Located` says it of the places in the arrays,
of which the ones not come to still hold the range, and `EntriesInOrder` that
they follow one another, which is what the writer's and the reader's checks need.

*Pipeline.*  `ReadSoFar` is about the patch as far as it was read: unless a field
was changed, the rest of the file is the rest of the patch, and the entries read
are those that were written.  Where each field is comes from `PatchFields`, which
in turn needs that a concatenation of pieces of equal length puts entry `k` at a
multiple of it.  A cut patch ends before the reader does, wherever it was cut.

*Planner.*  The limiters sort, and add up sizes until the limit is reached.  That a
sorted sequence exists and is a permutation is proved by induction on the set
(`SubsetInduction`), and so is that a sum over a finite set does not depend on the
order in which `FoldSet` takes it.  `PairsInv` says which pairs there are, each
with what was recommended for it or `UNCOMPRESS_NEITHER`; `LimitsInv` that the
limiters that were applied hold, which those after them keep, as they only take
away; `SpaceInv` what a single limiter refused; `PlanInv` that the plan is made of
the rest.  `DivinedInv` ties the settings to what `Deflated` makes of them.

*Thread pool.*  Four invariants are proved one after the other and make
`PoolInv`.  `QueueInv` ties the circular queue to the history: head and tail are
the numbers of jobs begun and accepted, modulo the size of the queue, and job
`i` lies at `(i - 1) % queueSize`.  That a job never lands on one that waits, and
that equal positions mean an empty queue after a pop, is `ModDistinct`: numbers
less than `queueSize` apart have different positions; `NotFull` is why they are
never further apart.  `CallInv` says in which phases callers are inside of a
call.  `ThreadInv` counts the running workers (`numThreadsBusy`) and adds what
makes `POOL_free` right: while a job waits, some worker has not exited.  A worker
that exits with jobs in the queue does so because the limit is reached, so that
another one is running and will look again.  `JobsInv` gives each job that was
begun to `finished` or to one worker.  From these, a step of the pool is a step
of `JobPool` or a stutter (`PromiseStep`).

*Signals.*  `NoWorkerOversleeps` is not inductive: a worker that pops a job might
be the only one awake.  `EnoughAwake` counts: as many workers are awake as there
are jobs in the queue, or as the limit allows to be busy in addition.  A pop
lowers all three numbers; adding a job wakes one worker, or, if none sleeps,
everyone who is not busy is awake (`AllAwake`), which is also what the broadcast
of `POOL_resize` brings about.

*Pushers.*  `NoPusherOversleeps` counts in the same way: while a caller sleeps in
`POOL_add`, as many others are awake in it as the queue has free slots
(`SlotsAnnounced`), since each pop signals one.  With joins at the same time the
signal could go to a join, hence `JoinsAlone`, which the way the pool is called
gives (`MayJoin`).  Without a queue it is enough that somebody is awake, that a
busy thread is still to signal, or that a job takes the only place.

*Asynchronous copy: jobs.*  `ReaderInv` and `WriterInv` say where the thread of
each pool is in its queue, `MainInv` where the main thread holds a job.
`ReadOwnInv` and `WriteOwnInv` then make the places of the jobs a partition
(`ReadOwners`, `WriteOwners`), the queued ones being those from the first the
thread has not given back (`rFirst`, `wFirst`); each step takes a job from one
place to another.  The write pool counts, too: available, queued and filled jobs
are `totalIoJobs` together, and as the queue has room for two less, one is
available when the main thread asks for it (`WriteJobIsThere`).

*Asynchronous copy: order of reads.*  `ReadOrderInv` says that there are numbers
`t` and `n`: `t` reads were consumed and `n` begun, read `k` being the one at
offset `k * ReadSize`; the reads in between are in the jobs that were filled
(`HoldReads`), one each, and then in the queue in their order.  So the job that
`NextCompleted` finds by its offset holds the next part of the file (`TakenRead`).
When it finds none and `ReadsInFlight` is zero, counting the jobs shows that no
read is queued, hence that all of the file was read (`SourceIsRead`): that is the
assertion of `FIO_passThrough`.  `BufferInv` adds that what is left in the coalesce
buffer has at least a block of free room in front of it.

*Asynchronous copy: data.*  Sequences are compared through `IsPiece(d, c, x, y)`:
`d` is what `c` has from `x` to `y`.  `LoadedInv` says that the source buffer is the
piece before the place that is read next, `WriteOrderInv` that places `b` in the
source exist such that the destination, with the skips it is owed, is the piece
up to the first queued block and each queued block the piece from `b[i]` to
`b[i + 1]`; the last place is what the main thread has handed over (`Taken`).  A
write then joins two pieces: `SparseWriteAdds` shows, by induction on the segments
of the block (`SegmentsAre`), that `AIO_fwriteSparse` adds exactly its block,
whatever it skips of it and whatever was skipped before, and `SparseWriteEnds` that
the last seek and the last zero change no content.  The main thread sees the end
with nothing loaded and everything read, so what is closed is the whole source.

*Parallel compression.*  `IInv` has seven parts, each proved from those before
it.  `ErrorInv`: a channel that is closed means an error that is recorded.
`OwnInv`: a buffer is in the channel, in the list or in one thread's hands, and a
thread that reads, compresses or sends has one.  `LockInv`: who writes or sends
holds `writeLocker`, and (before an error) nobody else does.  `CountInv`:
`is_thread_on` is the number of active threads and of their messages that are
not accepted yet, hence zero only when all are gone, also if `start_threads`
failed in between.  `BlockInv`: the buffers that are compressed or in the list
hold pairwise different blocks between `curWriteBlockIndex` and
`curReadBlockIndex`, each with its dictionary; the list is sorted, and `dict` is
the dictionary of the next block (`NextDictOf`).  That makes every write one of
`BlockCompress`.  It does not say that a block is still there to be written:
`CompleteInv` adds, as long as no call is on its way to record an error
(`Failing`), that each of those blocks is in some buffer, that a free lock means
that the first of the list is not the next one, and that a thread ends only when
all blocks are read.  So when the last thread has ended and none failed, the list
is empty and all blocks are written (`AllWritten`), and `Return` is `ReturnSize`.

Assumptions: the plans of the appliers are in order and disjoint, which
`ReadPlansAreUsable` shows of the reader's when no end overflows (those of real files
do not), and their ranges lie in the blob, none
beginning at its end (`BlobAssumption`: the ranges are entries of a zip file, whose
central directory comes after them); the ranges given to czlib are in order,
disjoint and in the file, as the planner's are (`PlansAreExecutable`); there are
parameters for every range of the pipeline; an entry of an archive has its fields
and its contents are known to `Deflated`; counts and sizes are natural numbers;
`Null` is not a set of parameters; a file of an earlier run holds items; a copy has
a file at least, each a sequence of numbers, a block no longer than a read, three
jobs at least, and sizes that are not zero, and `NoIOJob` is not a number; a pool may
have one thread at least, and `NoJob` is not a number; blocks have a byte at least,
a call asks for a thread at least, and `NoThread` and `NoBuf` are not numbers.  TLC
evaluates all of them.

Only model-checked: everything under fairness (`Terminates`, `JobsFinish`,
`CallsReturn`, `CopyEnds`, `CallReturns` and the refuted `WorkerErrorReported`),
since liveness and `ENABLED` are beyond the prover.

## 6. Not modelled

* Zip parsing, parts of the front ends, and Gdiff: planned (section 3), or
  straight code.  The search for 7z settings (`divineDeflateParameters_7z`) is
  not called by the code.
* The bytes of the delta, and with it damage to the delta.
* The rest of the native code in the repository (zstd's codecs, HDiffPatch,
  xdelta3, bsdiff): algorithms on bytes whose instances are far beyond a model
  checker.  Of the asynchronous I/O, other consumers than `FIO_passThrough` and
  errors of the files, which end the program; of the channels, those with a
  limit, which nobody creates.
* Third-party programs: `hdiffz`, `hpatchz`, `7zz` and zlib appear by their effect on
  files.  A codec is a function of its settings and its input.
* Widths of integers: `MThreadApply` sums the 7z score in an `int` and casts
  lengths to `int`; the sizes of the models do not overflow.
* Timing counters and printing.
* `explainer/`, the benchmark scripts and the copies of the same code under
  `src/benchmarks`.
