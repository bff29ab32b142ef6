# A verification development for the PARSEC benchmarks

The repository is a suite of parallel programs, each with a serial, a pthreads and several task-based
versions. Most of its volume is numeric kernels and vendored libraries. What is hard to get right are the
hand-written synchronisation mechanisms under the kernels: queues, barriers, condition variables, worker
groups, lock-free pointers, reference counts, task queues, and phases between barriers. This directory models
those of **dedup**, **bodytrack**, **canneal**, **streamcluster**, **fluidanimate**, **ferret** and **facesim**,
checks them with TLC on small instances, and proves the safety properties with TLAPS for every value of the
constants.

Contents: [inventory](#1-inventory), [modules](#2-modules-and-how-they-correspond-to-the-code),
[runs](#3-the-runs), [fairness](#4-fairness), [proofs](#5-what-is-proved),
[divergences](#6-where-the-code-does-not-do-what-it-says), [not modelled](#7-what-is-not-modelled),
[plan](#8-plan).

## 1. Inventory

### dedup (`src/dedup/src`)

Compresses a stream: the input is cut into chunks, repeated chunks are replaced by their SHA1 sum, the
others are compressed.

| part | state | operations | what makes it correct |
|---|---|---|---|
| synchronised queue (`queue.c`) | ring buffer, `nTerminated`, mutex, `notEmpty`, `notFull` | `queue_enqueue`, `queue_dequeue`, `queue_terminate` | nothing lost, doubled or overtaken per producer; nobody sleeps for ever although one signal stands for a whole batch; a consumer leaves only when everything was delivered |
| ring buffer (`queue.h`) | array, `head`, `tail` | insert, remove, isEmpty, isFull | a FIFO; full exactly at the capacity |
| memory buffers (`mbuffer.c`) | control block with a counter, handles that view it | create, clone, split, realloc, free | freed once, by the last handle; no handle views freed memory |
| cutting (`encoder.c`: `Fragment`, `FragmentRefine`) | buffer, left-over bytes, sequence numbers | read, split | fine chunks tile the input; L1/L2 numbers are those `Reorder` waits for |
| pipeline (`encoder.c`, `ENABLE_PTHREADS`) | four queue sets, hash table, chunk states, `Reorder`'s tree | the five stage functions, `write_chunk_to_file` | the file decodes to the input; each content is stored once; everyone terminates |
| task version (`ENABLE_OMP`, `ENABLE_OMPSS`) | tasks and their dependences, hash table | `FragmentRefine`, `WriteOutput` tasks | order kept, each content stored once, a fingerprint after its data |
| serial version | one buffer, cache | `SerialIntegratedPipeline` | what was read is what can be restored plus the buffer |
| decoder (`decoder.c`) | cache | `Decode` | inverse of the encoder |

The stages are threads that talk only through queues and through chunks: `Deduplicate` sends an original
to `Compress` and a duplicate directly to `Reorder`; the duplicate keeps a pointer to its original, and
whichever of the two `Reorder` meets first carries the data into the file. That shared chunk state, the
two-way fan-in of the reorder queue and the single reader of that queue are where the hard behaviours lie.

### bodytrack (`src/bodytrack/src/TrackingBenchmark`)

| part | state | operations | what makes it correct |
|---|---|---|---|
| condition variables (`threads/Condition.cpp`) | `nWaiting`, `nWakeupTickets`, generation | `Wait`, `NotifyOne`, `NotifyAll` | a notification reaches a thread that waits; no ticket without taker |
| barrier (`threads/Barrier.cpp`) | two counters, two conditions | `Wait` | rounds do not mix; one master per round |
| worker group (`threads/WorkerGroup.cpp`) | command, barriers | `SendCmd`, `RecvCmd`, `AckCmd`, `JoinAll` | each worker runs each command once, the master waits for all |
| row filters (`TrackingModelPthread.cpp`, `threads/TicketDispenser.h`) | ticket counter | `Exec` | each row of the range once |
| image loader (`AsyncIO.cpp`) | bounded deque, two conditions | `Run`, `GetNextImageSet` | buffer bounded, never popped empty, both threads go on |

The main thread takes images from the loader and sends filter and particle commands to the worker group.

### canneal (`src/canneal/src`)

| part | state | operations | what makes it correct |
|---|---|---|---|
| atomic pointer (`AtomicPtr.h`) | a word, a reserved value | `Get`, `Checkout`, `Checkin`, `Swap`, `TrySwap`, `PrivateSet` | a swap is atomic; no deadlock between swaps |
| annealing threads (`annealer_thread.cpp`) | temperature step, shared flag, barrier | `Run`, `keep_going` | all threads are at the same temperature; all return |
| netlist (`netlist.cpp`) | location of each element | `swap_locations` | two elements never share a location |

### streamcluster (`src/streamcluster/src`)

| part | state | operations | what makes it correct |
|---|---|---|---|
| PARSEC barrier (`parsec_barrier.cpp`, also in fluidanimate) | counter, phase, mutex, condition | `parsec_barrier_wait` | rounds do not mix although the phase is polled without the mutex; one serial thread per round; nobody is left behind |
| first centers (`pspeedy`) | assignments and costs, `open`, the shared index `i` | thread 0 opens centers, all move their points | no thread misses a center or the end; the cost is that of the solution |
| local search (`pgain`, `pFL`) | `is_center`, `center_table`, `switch_membership`, `work_mem` | one candidate center, in phases | all blocks agree which centers there are after a change |
| search for a price (`pkmedian`) | per thread `z` and its bounds, cost; static `k` | binary search | all threads take the same way through the barriers; the cost is exact |
| stream (`streamCluster`) | intermediate centers | read a chunk, search, contract, copy | no weight lost, centers fit into their array |

### fluidanimate (`src/fluidanimate/src`)

| part | state | operations | what makes it correct |
|---|---|---|---|
| blocks and borders | one block of cells per thread, `border` | `InitSim` | cells two threads touch have their mutexes taken |
| grid (`RebuildGridMT`, `cellpool.cpp`) | two arrays of cells, chains of structures, a pool per thread | file each particle, return what was read | each particle filed once, each structure free or in use, once, and not reused while it is read |
| densities (`ComputeDensitiesMT`) | density per particle | each near pair | no update lost; each pair in both densities, once (finding 6 says when not) |

### ferret (`src/ferret/src/benchmark`)

Six stages with queues between them. One thread loads the queries and counts them, four stages have a pool
of threads each, one thread prints and counts results. Nobody ends by itself: when the counters agree at the
end of the input, `main` is told and cancels the pools. Correct if nothing is cancelled before it is done and
`main` is told.

### facesim (`src/facesim/src/TaskQ`)

Task queues, one for some threads each. Thread 0 enqueues tasks (or a grid of tiles that is divided among the
queues) and calls `taskQWait`; all threads execute what is in their queue, youngest first, and steal the
oldest of others. `threadCount` counts the threads that have run out of tasks; whoever enqueues sets it back.
Correct if `taskQWait` returns when all tasks are done and everybody else sleeps, and everything ends.

### The rest

freqmine, blackscholes, swaptions, x264, parseclibs, and the numeric parts of all programs: see
[section 7](#7-what-is-not-modelled).

`PROJECT.json` lists all components, and under `hazards` what is hard to test in this code, line by line.

## 2. Modules and how they correspond to the code

A definition has the name of the function it stands for where it stands for one; `PROJECT.json` maps every
definition to its lines. Definitions marked *faulty variant* are plausible bugs; they are used by no
specification and serve to see that a property can fail.

| module | models | grain of a step |
|---|---|---|
| `DedupQueue` | `queue.c` and the loops of the threads that call it | one call under `que->mutex`; `pthread_cond_wait` splits a call, with spurious wakeups |
| `BoundedFifo`, `RingBuffer` | abstract buffer; `head`/`tail` array of `queue.h` | one insert or remove |
| `Mbuffer` | one block and its handles | the counter update under the lock; what `mbuffer_free` does after the unlock is a second step |
| `DedupFormat` | records of an archive and what `Decode` makes of them | operators |
| `DedupArchive` | the promise: decoding gives back the input, chunk by chunk | one more chunk restored |
| `DedupPipeline` | `Encode` with its five stages | one queue call, one `sub_Deduplicate`, one `sub_Compress`, one `write_chunk_to_file` |
| `DedupFragment` | read and split loops of `Fragment` and `FragmentRefine` | one read, one cut |
| `DedupOmp` | the task version | start of a task, one fine chunk deduplicated, compressed or written |
| `DedupSerial` | `SerialIntegratedPipeline` | one read, one chunk |
| `AbstractBarrier`, `Barrier` | promise of a barrier; `Barrier.cpp` on `Condition.cpp` without `HAVE_LIBPTHREAD` | what a thread does between two waits, under the mutex |
| `WorkerGroup` | worker group, `Exec` of the three filters, ticket dispenser | what a thread does under `workDispatch`; one ticket; one work unit |
| `AsyncImageLoader` | loader, its reader, `NotifyOne` without the mutex | one access to shared state |
| `AtomicSwap`, `AtomicPtr` | promise of a swap; `AtomicPtr.h` | one load, compare-and-set or store |
| `Annealer` | `annealer_thread::Run` and `keep_going`, `ENABLE_THREADS` | one test, one temperature step, the barrier |
| `Canneal` | `Annealer` and `AtomicPtr` together: swaps inside the temperature steps | as in the two |
| `ParsecBarrier` | `parsec_barrier.cpp` with polling | what a thread does with the mutex; polling, blocking and spurious wakeups in between |
| `Facility` | what the steps of streamcluster share: points, blocks, the barrier between phases | operators |
| `Speedy` | `pspeedy` | the code from one barrier to the next; for thread 0 and the workers each access to `open` and `i` |
| `PGain` | `pgain`, `pFL` | the code from one barrier to the next |
| `KMedian` | `pkmedian` on top of the two | the code from one barrier to the next, one decision |
| `StreamChunks` | loop of `streamCluster`, `contcenters`, `copycenters` | one chunk |
| `FluidGrid` | blocks, border cells, cell pools, reading the particles | operators; one particle read |
| `Fluid` | `AdvanceFrameMT` of fluidanimate | count and copy of one particle; read and write of one density; other phases whole |
| `Ferret` | `ferret-pthreads.c`, its queues and the cancellation | one queue call under its mutex, one access to the counters |
| `TaskQ` | `taskQDistCommon.c` with queues of fixed size | what is done under one lock; both locks of a steal one after the other; the read of `threadCount` without its lock |
| `TaskGrid` | `enqueueGridRec` | a state is a call of `taskQEnqueueGrid` |

How they compose:

* `DedupQueue` is used by `DedupPipeline` as an assumption: there a queue call that has to wait is
  disabled, because `DedupQueue` shows that a sleeping thread that could go on is woken. `RingBuffer`
  is what lets `DedupQueue` use a sequence for the array.
* `DedupPipeline` and `DedupOmp` take the input as coarse chunks that are sequences of contents;
  `DedupFragment` shows that such chunks, with these sequence numbers, are what the cutting delivers.
* `DedupPipeline`, `DedupOmp` and `DedupSerial` share the format of `DedupFormat`. `DedupPipeline`
  implements `DedupArchive` under the mapping *restored = what the decoder makes of the records written*;
  a record the decoder cannot resolve maps to `None`, which the abstract archive never contains.
* `Barrier` implements `AbstractBarrier` (mapping: the history variables `entered` and `round`).
  `AtomicPtr` implements `AtomicSwap` (mapping: a checked-out pointer has the value its holder will
  check in).
* `ParsecBarrier` is the second implementation of `AbstractBarrier`. `Facility` and `Fluid` use what it shows:
  a thread passes a barrier when no other is still on its way there (`Released`, `Passed`; barriers are counted
  modulo 3, because two threads are never further apart than one).
* `KMedian` is one state machine with `Speedy` and `PGain`; `StreamChunks` uses what it shows of `localSearch`:
  every point has a center, centers their own. `Fluid` extends `FluidGrid`.
* `WorkerGroup` uses the pthreads barrier, as `Barrier.cpp` does with `HAVE_LIBPTHREAD`: the last thread to
  arrive releases all.

Data are abstracted to what the properties tell apart: a chunk's content is a value, its SHA1 sum identifies
it (as the hash table of the code assumes too), an anchor may be anywhere the code allows one, a row of an
image is the number of times it was computed, the outcome of a temperature step is whether it had more good
than bad moves, a particle is in a cell and near to those in neighbouring cells, a task is a number and
the tasks it enqueues. streamcluster's points have integer coordinates and costs are exact integers; where the code
halves a price the model rounds up, so that a price stays positive as a float does. Memory is sequentially
consistent; reading `size()` of the loader's deque without its lock is taken to be a single read.

## 3. The runs

`tlc -config X.cfg M` inside this directory; each takes at most about two minutes with two workers.

| run (config) | question | bounds, and why they are enough |
|---|---|---|
| `dedup_parts` (`MCDedupParts`) | queue: no lost wakeup, no early exit, FIFO per producer, all return. Ring buffer: a bounded FIFO. Memory block: freed once by the last handle, views inside. Task version, cutting, serial version: nothing lost, doubled or reordered; each ends | two producers, two consumers, queue and batches of 2, three items each: batches are moved whole and in part, the queue is full and empty, two threads sleep on the same condition, termination overlaps with draining. Capacity 3 and three elements: all positions of head and tail, wrapped or not. Three handles, three bytes: two threads drop the last handles, a third is split off meanwhile. Four coarse chunks with repeats within and across, three threads. Files of 0 to 6 bytes in blocks of 3, so that files end inside, at and after a block boundary, with anchors anywhere |
| `versions_fingerprint` | a fingerprint follows its data in the task version (violated) | two equal coarse chunks |
| `pipeline` (`MCDedupPipeline`) | the output implements the archive; data stored once; nobody enqueues on a terminated queue; all threads return | three threads per stage on two queue sets (two and one), queues of 1 and batches of 2, so that queues are full and batches are moved in part, two coarse chunks with the same two contents in opposite order: each content's duplicate and original race for the table, for the file, and through different queue sets. There are too few duplicates for the deadlock of `pipeline_blocked` |
| `pipeline_blocked` | a wait in `write_chunk_to_file` ends (violated) | queues of 1, batches of 2 enqueued and of 1 dequeued, one content: the original and its duplicates, so that the original can stay in a half-full batch while the reorder queue is full of duplicates |
| `threads` (`MCThreads`) | bodytrack: workers in step, rows once and none left out; barrier implements the abstract one; the loader's reader never pops an empty buffer. canneal: swaps are atomic and end; same temperature | three workers, two edge maps, five rows in units of two (a last unit cut short, two different range starts); three threads for a barrier of two, three calls each, generations modulo 4 (a fast thread laps a slow one, the counter wraps); buffer of 2, seven frames, one of which may fail; two threads, two swaps each of three elements: two swaps can share one pointer, and one thread can swap a pointer away and back between two looks of the other |
| `bodytrack_gradient` | the gradient computes all its rows (violated) | two edge maps |
| `bodytrack_served` | the main thread gets its images (violated) | four frames |
| `canneal_converge` | all threads return at convergence (violated) | two threads |
| `phases` (`MCPhases`) | PARSEC barrier implements the abstract one, one serial thread per round. streamcluster: centers, flags, assignments and costs agree after every phase, all threads return, no weight is lost. fluidanimate: every particle filed once, no structure lost or doubled, all frames end | three threads for rounds of two, two calls each: one thread always comes back while others leave. Two threads, three points (blocks of one and two), `kmin = kmax = 2`: with the first set the search has to go up and down in price, with the second points have different weights and two are near. Streams of up to nine points in chunks of three, room for four centers: the last chunk is short, or the room is used up. Two blocks of cells of different size, both with border cells; three particles in cells of two, two frames: cells overflow, structures change pools, and in the second frame threads of both blocks file particles into one cell |
| `fluid_pairs` | each near pair is in both densities once, also when cells overflow (violated) | four particles, one frame, the pools above or below the cells |
| `stream_centers` | intermediate centers fit into their array (violated) | as in `phases` |
| `tasks` (`MCTasks`) | facesim: `taskQWait` returns when all is done and the others sleep, everything ends; grids are divided without gap or overlap. ferret: nothing is cancelled, the end is noticed. fluidanimate: the densities miss the pairs that the addresses exclude and no others; no structure is reused while particles are copied out of it | three threads on two queues, seven tasks of which one enqueues two others, two regions; that is two threads on one queue, stealing in both directions, and enqueueing while others run out. All grids of up to four tiles a side on up to five queues. Four stages (first, two pools of two, last), queues of 1, three queries: full queues before and behind a stage. The grid of `phases` with four particles and one frame, the pools above or below the cells: the full cell is read from a chain with two particles in a structure, and a pair of two cells can have one particle in a chain. A second frame with four particles would be too many states; what it adds, several threads that file into one cell, is in `phases` |

`MCDedupParts`, `MCThreads`, `MCPhases` and `MCTasks` extend or instantiate parts that share no state: a behaviour is of
one part, the others stay in their initial state, so the number of states is the sum, not the product. Some
properties of a part are stated for its behaviours only (`part = "loader" => ...`), and one property per instance
says that each part ends (`VersionsEnd`, `ThreadsEnd`, `PhasesEnd`, `TasksEnd`); that
fluidanimate's frames end is in `PhasesEnd`, and `tasks` assumes no fairness of them.

Bounds that are not in the code: `NItems`, `MaxSize`, `MaxLen`, `Input`, `MaxCalls`, `GenMod`, `NumFrames`,
`Script`, `MaxSwaps`, `MaxSteps`, `MaxPoints`, `Chunks`, `Frames`, `Tasks`, `Spawns`, `MaxSide`, `MaxQueues`,
`Queries`. Queue sizes, batch sizes, numbers of threads, `PARTICLES_PER_CELL`, `Iter`, `MaxFeasible`,
`chunksize`, `centersize` and the initial size of `chunks_per_anchor` are the code's parameters, made small.

`CentersFit` is the property of a violation run only: in `phases` the same part runs, and there `WeightKept`
holds, because the model keeps the centers that are written behind the array.

Deadlock is checked in `dedup_parts` and `pipeline`, where the end of the program is a stuttering step
(`Joined`, `Done`, `Taskwait`, `Gone`), and in `versions_fingerprint`. It is off elsewhere: the threads of
`MCThreads` and `MCPhases` return, or wait in a barrier for a round that the bound on calls leaves incomplete;
a grid of `MCTasks` is one state, ferret's stages are cancelled, and a frame ends; `pipeline_blocked` is about a deadlock. The
properties that each part ends take the place of the deadlock check.

## 4. Fairness

Weak fairness of threads that can run: an operating system schedules each of them. No order between threads,
no fair choice of the thread a signal wakes, and no spurious wakeup is assumed (they happen in the safety part
where the code waits in a loop). In `DedupOmp` the fairness of starting a task is that the runtime
eventually gives a ready task to a thread that stays free. In `AtomicPtr` a thread inside a swap goes on;
that another swap is called is not promised. In `Barrier` and `ParsecBarrier` the bound on calls is not fair
either: only threads inside the barrier go on. In `Speedy` nothing is assumed of the random choice to open a
center beyond what a comparison of the cost with the price forces.

That swaps end (`ThreadsEnd`) depends on the bound on swaps: the retry loops of `Swap` are lock-free, not
wait-free, so a thread could be overtaken for ever by an endless supply of other swaps. The run shows freedom
from deadlock and that finitely many swaps end.

`TaskQ` is the only place with strong fairness. A thread's next step may need a lock that others take and
release again and again, and a mutex is not fair in the weak sense, so a thread that can run again and again
does (`SF_vars(Step(t))`). And one thing is assumed that the code does not ensure: of a thread that again and
again has a task in its own queue the thieves cannot take it every time (`SF_vars(StartTask(t))`). Without it
TLC finds two threads that pass one task between their queues for ever, each stealing it before the other
has started it. The safety properties do not depend on it.

## 5. What is proved

With `tlapm`, for every value of the constants, from the named assumption of the module (finite sets, positive
sizes):

* **`DedupProofs`** – five parts of dedup that share no state.
  The queue: types, `NoLostWakeup`, `NoEarlyExit`, `TerminationCounted`, `FifoPerProducer`. `NoLostWakeup` is not
  inductive. The invariant `QueueInv` adds: the termination counter counts the producers that returned, which have
  nothing left to send (`CountInv`); if a consumer sleeps, the queue is not terminated, and some consumer is
  awake while items are queued (`ConsumerInv`); if a producer sleeps it has a batch, and either items are
  queued or some awake producer has a batch (`ProducerInv`). That one signal for a batch is enough is exactly
  this: a batch moved while others sleep leaves one of its kind awake that will repeat the call, and the last
  producer's broadcast ends the consumers' sleep. One lemma per action shows that `QueueInv` is kept.
  `FifoPerProducer` is stated with positions: the `i`-th item on its way out of the queue is the `n`-th of its
  producer when `n` of the items up to it are that producer's. Its invariant adds that what a producer holds are
  its items from there on, without a gap; `Enqueue` appends the next ones, and a dequeue moves a border only.
  The ring buffer: types, `FullAtCapacity`, and that `RingBuffer` implements `BoundedFifo`. The lemmas are about the
  contents as a sequence: insertion appends, removal takes the head, with the index arithmetic modulo the array's size.
  The memory block: types, `NoUseAfterFree`, `FreedOnce`, `ViewsInBounds`. `IInv` says that the counter
  is the number of live handles, and that before the last handle is dropped nobody inside `mbuffer_free` has
  seen zero, afterwards exactly one thread has (`OneFreer`). That is why deciding after the unlock is safe.
  `ViewsInBounds` rests on `mbuffer_realloc` refusing a block with more than one handle.
  The cutting: `FragmentTilesInput`, for every length of the input, every buffer size, every `ANCHOR_JUMP` and
  anchors anywhere. `CuttingInv` lays what is between the file and the fine chunks out as one row: the chunk
  `FragmentRefine` has starts where the fine chunks end and has the number expected there (`PartInv`), the coarse
  chunks in the queue follow it (`CoarseTiles`), and what `Fragment` holds, or has left over for the next read,
  follows them up to `seek` (`BufferInv`). The same row gives `NothingLeftOut`: at the end the whole file is in chunks.
  The task version: `DataStoredOnce`. In `TaskInv` the hash table knows of each content one chunk that has
  been deduplicated and has no reference, and every chunk without a reference is known to it (`TableInv`); data in the
  file is that of such a chunk once it is written (`DataOfOriginal`). So the record of another chunk is never
  data for the same content. `WrittenStored` gives the converse, `TasksStoreAllData`. The order in which
  tasks run, which puts a fingerprint before its data (finding on `FingerprintAfterData`), plays no part in this.
  `TasksKeepOrder` is the refinement `OrderKept`: the file ends where `WriteOutput` is in the input and has what the
  input has up to there (`FileInOrder`), a reference being to a chunk of the same content; a step of `WriteOutput` is
  `Restore` of `DedupArchive`, and every other step leaves the file alone.
* **`ThreadsProofs`** – canneal and bodytrack.
  canneal: types, `CheckedOutOnce`, `StaysOneToOne`, and that `AtomicPtr` implements
  `AtomicSwap`. `CheckedOutOnce` is inductive with the types and with *the two pointers of a swap differ*.
  For the refinement, every step but a successful `PrivateSet` leaves the placement unchanged, and that one is
  `AtomicSwap!Swap`: the linearisation point. A behaviour of `Canneal` is one of `AtomicPtr`
  (`CannealIsAtomicPtr`), so the annealing threads have all of this. `SameTemperature` is not inductive: a
  thread at the barrier has counted the step that others still do. `StepInv` says that threads that have not
  returned agree in the steps begun, a thread at the barrier counting one less; and that only a thread inside a
  step has a swap under way, so that no swap outlives its step (`NoSwapOutlivesStep`).
  bodytrack has three parts that share no state.
  The loader: `NeverPopsEmpty` and that the frames come in order (`FramesInOrder`), although the deque is tested
  and changed without the mutex. `LoaderInv` says that frames taken and frames in the deque, one after the other,
  are the frames up to the current one, and that between the reader's test and its `pop` only the loader changes
  the deque, which makes it longer.
  The barrier: it implements `AbstractBarrier` (`ImplementsBarrier`). As in the PARSEC barrier there is a number `k` of complete
  rounds, and the round fills or empties; but here threads that come too early sleep on `CReset` and belong to no
  round, and those inside sleep on `CSleep`, whose tickets and generations have to be accounted for: in a round that
  fills no sleeper can leave, in one that empties all can.
  The worker group: `WorkersInStep` and `RowsOnce`. A command has four phases that barriers separate: `AtRest`,
  `Starting` (workers receive it), `Filtering` and `Ending` (and `Over` after the last). `GroupInv` is their
  disjunction, each with what it says of the main thread, of every worker and of the ticket dispenser; in
  `Filtering` a row is computed when its index is below the dispenser's value and no worker has the ticket for it.
  The gradient's rows are only proved to be computed at most once: that some are left out is finding 3.
* **`TasksProofs`** – facesim and ferret.
  The task queues: types and `SerialAlone`: thread 0 is never in serial code while another thread is awake,
  and `taskQWait` leaves no task in a queue. The invariant `IInv` says that `threadCount` is the number of
  threads in the set `counted`, that the workers in it are those that sleep, and that outside a parallel region
  everybody is counted (`CountInv`); that nobody works outside a region (`RegionInv`); and, the heart of it, that
  inside a region every queue that is not empty has an owner that will look into it again before it is counted
  (`QueueInv`). That is why the look at `threadCount` without its lock does no harm: who enqueues in a region
  owns the queue and will come back to it, and a thief moves tasks into its own queue. So when all are counted
  no queue has an owner that looks, and all are empty. `StartInv` and `EndInv` do the same for `taskQInit` and
  `taskQEnd`. One lemma per action. `TasksDone` rests on a second invariant on top of the first, `TaskInv`: a task
  that was enqueued is in one queue at one position, or run by one thread, or executed, and never two of
  these (`PlaceInv`); and it is enqueued only when the program, or the task that enqueues it, has come to it
  (`SourceInv`, `SpawnInv`, `BatchInv`). With `SerialAlone`, queues empty and nobody at work, only *executed* is left.
  The assumption `EnqueuedOnce` gives every call of `taskQEnqueueTask` a number of its own; it is about naming
  and excludes no program.
  The grid: `GridTiled`, for grids of any number of dimensions and tiles and any number of queues.
  `enqueueGridRec` is a recursive function over the number of queues. It exists because a call depends on calls
  for fewer queues only (`DividedDepends`), and by induction over the number of queues a call gives every tile of its
  box to exactly one of its queues (`CallTiles`): the two halves of a cut box have no tile in common.
  ferret: `NothingCancelled`, for any number of stages, threads, queries and any size of the queues.
  `FerretInv` says where each counted query is: in one queue at one position, with one thread, or in the output, never
  in two of them (`OnePlace`, `NoDoubles`), which is the theorem `NoQueryLost`; that the output thread's counter is the
  number of lines, less the one it is about to count; and that when the input has ended all queries are counted
  (`FerretCountInv`). So the unlocked test of the counters succeeds only with all results out (`FerretEndInv`), and it
  stays so: another line would be one more than there are queries, without repetition (`NoMoreThan`).
* **`PhasesProofs`** – the PARSEC barrier and the stream of streamcluster.
  The barrier: `ImplementsRounds` and `OneSerialThread`. `BInv` counts: `n` is the number of
  threads inside, and there is a number `k` of complete rounds such that, while threads arrive,
  `entered = k * max + n` and all who are inside belong to round `k + 1`, and, while they leave, `entered =
  k * max` and all who are inside belong to round `k`. Each action of the code is then one action of
  `AbstractBarrier` or leaves its variables alone.
  The stream: `WeightKept`. `StreamInv` says that the weights of the intermediate centers add up to the number of
  points read. What a search does is left open but for this: every point has a center, and centers their own. So the
  medians part the points, each takes the weights of its part (`SumByParts`), and numbering them in their order
  (`Ranks`) neither loses nor doubles one.
* **`FluidProofs`** – types, `GridRebuilt`, `ReadBeforeReuse`, `DensitiesExact`, for any grid, any division of it
  among threads that gives every cell an owner, any size of a cell and any number of particles and frames. The threads are all in
  one phase between two barriers, or have arrived at the barrier behind it (`Together`); `FluidInv` is the
  disjunction of the phases, each with what it says of the cells, the pools and the densities.
  `Rebuilding` is the hard one. A particle of an old cell is in the new grid exactly when the thread of that cell
  has come past it (`Gains` counts, per cell, how many must be there); a thread that has counted a particle and not
  yet copied it has reserved a slot that nobody else writes; a cell is changed only with its mutex, unless it is
  no border cell and only its own thread comes there. And the structures: those of the pools, the chains of
  the new cells, and what is left of the chains of the old cells are all the structures handed out so far, each
  once, whichever pool they came from and go back to. `ReadBeforeReuse` follows: the structure a thread copies from
  is counted in what is left of an old chain, so it is in no pool and in no new chain.
  In `Counting` a density is the number of pairs that have been found and written; a read that has not yet been
  written back holds the lock of the particle's cell. So the densities are those of the pairs some thread finds
  (`Paired`), whatever the addresses are. Which pairs that is, `PairedExactly` says: all near ones but the missed,
  because no two particles have the same address (`AddressesApart`), and that is again because every structure is in
  one place of one chain. In heads of cells addresses are in the order of the cells, so no pair is missed there.
* **`KMedianProofs`** – `NearestCenter`, `CentersConsistent` and `CostIsExact`, for any number of threads, any
  points and any bounds on the number of centers.
  Between two barriers all threads are in one phase: who has not reached the next barrier has reached `r` of them,
  modulo 3, who has one more waits for all (`Phase(r, A, B)`).
  *The first solution.* `PhaseInv` is the disjunction of the phases up to it. The hard one is the round in which
  thread 0 opens centers. `Opened(C)` says that the centers so far are `C`, each its own and no two at the same
  place, and that every point is with the nearest of them, for who has moved its block to the new center of
  `C \cup {i}`. Thread 0 and the workers change places here by `open` and the condition variable; a worker that wakes
  and looks finds `open` set only when `i` is the point to follow, and the two barriers behind it bring all together
  before thread 0 goes on. The centers are counted right because a point that is opened costs more than nothing, and
  so is at the place of no other center.
  *The search.* Threads have their own copies of the price, its bounds, the cost and the gain, and decide on them
  where to go. `SearchInv` adds to `PhaseInv` that the copies are the same (`Like(t, m)`, or what the phase makes of
  `m`), so that all take the same way (`Judged`), and the phases of `pgain`: columns are numbered block by block and
  then moved on by the blocks before, so that each center has its own (`Numbered`); what the threads sum up by
  blocks is what opening the candidate gains over all points (`Shares`, `ClosedShare`, `TotalFound`); the solution
  it aims at (`Aims`) is carried out block by block (`ToDo`, `Done`) and no thread undoes or repeats what another
  has done (`PApplyStep`). The candidate always ends up its own center (`CandidateMoves`): if it does not switch, it
  is at the place of its center, which then closes, because that saves its whole price. This needs a price above 0,
  and there is one: `kmin >= 2` centers, no two at the same place, say that not all points coincide
  (`NotCoincident`), and halving the interval keeps the price above 0 (`BoundedFields`). The cost a thread carries
  is exact between passes (`Outside`), and within one up to the gain that is not yet taken off (`Inside`); a new
  price changes it by `k` times the difference.
* **`SumProofs`** – sums over finite sets, in which the models count weights, costs, tiles and particles.
  `SumFunctionOnSet` of the community modules folds over a recursive function that takes one element after the
  other; the lemmas show that such a function exists for every finite set (`FoldsExists`), is unique (`FoldsUnique`),
  and sums in any order. The induction theorems of the library take an operator, which the provers cannot
  instantiate. `NaturalInduction` and `SetInduction` are stated for a *set* of the numbers or sets with a property
  and proved from the well-foundedness theorems, so that they can be cited. `Flattened` is about sequences laid end
  to end: the recursive function behind `FlattenSeq` exists (`LaidExists`), and each element is behind those of the
  sequences before its own and those before it in its own.
* **`DedupPipelineProofs`** – the five stages for any input and any numbers of threads, queues, queue sizes
  and batch sizes. The invariant comes in layers, each proved from those before it:

  | layer | says | theorem |
  |---|---|---|
  | `PipelineTypeOK` | types; a thread that cuts is inside its coarse chunk | `PipelineTypes` |
  | `ClosedInv` | a queue is terminated as often as threads of the pool before it have returned; who returned has emptied its buffers; who left its loop found its queue terminated and empty | `NoEnqueueAfterTermination` |
  | `OnceInv` | every chunk is at exactly one of the places uncut, at a thread, in a buffer, in a queue, at `Reorder`, written | `NoChunkLostOrDoubled` |
  | `OrderInv`, `FileInv` | what `Reorder` writes next is the least chunk not written (`NextInv`), and `chunks_per_anchor` is right where it is not 0 (`AnchorInv`); the queues found ended in a row are empty for good (`EndInv`); one record per chunk written | `EveryChunkWritten` |
  | `CacheInv` | one chunk of a content is in the table; all others refer to it; it alone goes through the compress queues, once | |
  | `DataInv` | the data of a content is in the file exactly when that chunk is flushed, once, before any fingerprint; record by record the file has the contents of the chunks written | `DataIsStoredOnce`, `FileInInputOrder` |

  The reorder queues announce the `Compress` threads as producers only, although `Deduplicate` threads enqueue
  there as well. `ClosedInv` shows why this is right: `Compress` threads return only after the compress queue has
  been terminated by all `Deduplicate` threads, which have drained both of their buffers before.
  `OnceInv` is one equation for every action: a set of chunks moves from one place to another. A chunk that
  overtakes another changes nothing of the rest: `Reorder` holds back what is not next, and it knows what is next
  because the last chunk of a coarse chunk tells its size (`NextChunk`) and the chunk after the last one of
  the input is nobody's (`End`).
  `FileInInputOrder` says: when `n` chunks are written, they are the first `n`, the `i`-th record has the content of
  the `i`-th chunk, and the decoder can resolve it.
  The last layer is the refinement, `PipelineIsArchive`: `Spec => ImplementsArchive`. `Flattened` in `SumProofs`
  shows where the elements of a sequence of sequences are when it is laid end to end. `ContentsInv` says that the
  file ends at the `Position` of the chunk that is written next, and has what the input has up to there; the
  successor of a chunk is at the next position (`PositionNext`), so `ReorderWrite` appends the next content of the
  input, which is `Restore` of `DedupArchive`, and every other step leaves the file alone. That what has been
  appended can be resolved is `DataInv`.

The proofs assume what the modules assume: sizes and numbers of threads are positive, coarse chunks are not empty
(`PipelineAssumption`), `None` is no chunk, `EnqueuedOnce`. Every one of these is evaluated by TLC in a run.

Only model-checked, because the prover cannot do it: liveness under fairness and `ENABLED`, that is, all
properties that say that something ends, comes or returns. Every safety property of a passing run, the refinements
included, is a theorem; `StaysOneToOne`, which follows from `SwapIsAtomic`, is a theorem and in no run.

## 6. Where the code does not do what it says

Each of the first seven has a run whose counterexample shows it (`findings` in `PROJECT.json` quotes the lines).

1. `pipeline_blocked`: `Reorder`, the only reader of the reorder queue, waits in `write_chunk_to_file` for
   an original's compressed data. The original never reaches `Compress`: the `Deduplicate` thread that found it
   keeps it in its half-full `send_buf_compress` (`encoder.c:633-638`), and waits with a full buffer of
   duplicates (640-644) for room in the reorder queue, which is full. The encoder stops. With the sizes of the code
   it takes a queue full of duplicates of a chunk whose original is in a buffer that does not fill.
2. `versions_fingerprint`: `FragmentRefine` tasks of different coarse chunks are unordered, so an original
   can follow its duplicate in the file, whose fingerprint the decoder cannot resolve. "Duplicate chunk, data
   has been written to file before" (`encoder.c:314`) is not true of the task version.
3. `bodytrack_gradient`: the column filter changes the start value of the ticket dispenser, the gradient keeps
   it: from the second edge map on it leaves out rows `1..kernelSize/2`.
4. `bodytrack_served`: `NotifyOne` is called without the mutex; the notification is lost when it falls between
   the other thread's test and its sleep.
5. `canneal_converge`: a thread that sees convergence leaves the loop, while another goes to the barrier that
   counts all threads.

6. `fluid_pairs`: `ComputeDensitiesMT` counts a pair when the neighbour's address is lower ("only once per
   pair", `pthreads.cpp:721`) and looks only at neighbouring cells of lower index. The structures of cells with
   too many particles come from pools that lie outside the array of cells, so such a pair may be in no density.
   `DensitiesExact`, which holds, says which pairs are missed: those of two cells in which the particle of the
   lower cell has the higher address, and never two particles in heads of cells. The forces are added up
   under the same test.
7. `stream_centers`: a chunk of at most `kmax` points returns early from `pkmedian` and reports the number of
   centers of the chunk before (`streamcluster.cpp:1790`), so the test for room lets too many through.

More showed up in the models and have no run of their own, because no line of the repository promises
otherwise:

* `chunks_per_anchor` (`encoder.c:1674`) is doubled once, whatever the L1 number. `DedupPipeline` stops
  `Reorder` at `"out of bounds"` there; that state is reached with three coarse chunks of one fine chunk
  each, two threads and `AnchorsInit = 1`.
* The image buffer can grow beyond `mBufferSize`: the loader waits once, under an `if`, and
  a leftover ticket lets it through.
* `nWakeupTickets <= nWaiting` (`Condition.h:81`) does not hold in the loader, for the same reason as 4.
* ferret's `t_out` tests for the end only after a result. If the last result was counted before `t_load` sets
  `input_end`, `main` waits for ever; `EndIsNoticed` says when it does not.
* facesim: two thieves can pass a task between them for ever (see section 4). A spurious wakeup in
  `waitForTasks`, which waits without a loop (`taskQDistCommon.c:87`), would count a thread twice; the model
  has none there. A queue of fixed size that overflows is only caught by a debug assertion (`taskQList.h:53`).
* streamcluster: `kmin = 1` divides by zero (`streamcluster.cpp:1436`), and a chunk with fewer distinct points than
  `kmin` never leaves the loop at 1808; `KMedianAssumption` and the points of the run exclude both. In the
  early return thread 0 frees `hizs` (1789) while the others may still add it up (1776).
* fluidanimate: a particle that moves further than to a neighbouring cell in one frame is filed into a cell
  that is not locked (`pthreads.cpp:601` states the assumption).

## 7. What is not modelled

The suite has more than 300,000 lines, and most of them are numeric kernels, tables, codecs and vendored
libraries in which nothing is shared, ordered or persisted. The models cover the synchronisation and bookkeeping
of seven programs, about 1.5% of the lines; about the numbers the rest computes a model checker could
say no more than a test.

| part | why |
|---|---|
| dedup: heap, splay tree, hash table | sequential data structures; a set with its least element and a function stand for them; expansion of the table is compiled out |
| dedup: SHA1, compression, main program, statistics, file access | pure functions and I/O; statistics do not feed back |
| dedup: room for coarse chunks in the task version (`CHUNK_MAX_NUM`, `encoder.c:1396`) | a fixed bound without any test; a model would restate that |
| bodytrack: particle filter, image measurements | floating point; their concurrency is that of the worker group |
| bodytrack: OpenMP, OmpSs, TBB versions | loops over independent items and a library pipeline |
| bodytrack: thread wrappers, `SynchQueue` | forward to the operating system; `SynchQueue` is not used by the program |
| canneal: task versions of the annealer, routing costs | tasks with a `taskwait` per temperature step; costs are a heuristic no property depends on |
| canneal: atomic operations | vendored assembler, taken as sequentially consistent |
| streamcluster, fluidanimate, ferret: OpenMP, OmpSs, TBB and serial versions | the same phases as parallel loops or library pipelines |
| fluidanimate: forces, collisions, positions | numeric; forces are added up like densities, the rest touches one particle |
| ferret: image search, `tpool.c` beyond creation and cancellation | numeric work on one query; `tpool_join` is not called |
| facesim: queues as linked lists and as grids, statistics, physics | another representation of the same queues; floating point |
| freqmine, blackscholes, swaptions | numeric work on independent items |
| x264, parseclibs, scripts | vendored or not part of the programs' logic |

## 8. Plan

Done first, because most rests on it: dedup's queue, then the pipeline on top of it, then the data structures and
the other versions, bodytrack and canneal; after that the programs that work in phases (PARSEC barrier,
streamcluster, fluidanimate) and those that hand out tasks (ferret, facesim).

The first proofs were those about single mechanisms: queue, ring buffer, memory blocks, atomic pointer, PARSEC
barrier, task queues; then those about the programs built of them: the annealing threads, the thread library of
bodytrack, the pipeline of dedup, its task version and its cutting, and the pipeline of ferret.

Then those about sums, which need induction: the stream of streamcluster, the division of facesim's grids, and the
frames of fluidanimate.

The last ones go phase by phase between barriers, as in fluidanimate: the first solution of streamcluster, and
then its search; and the two refinements of `DedupArchive`, which need what flattening the input gives. What is
left are the properties section 5 names as out of the prover's reach.
