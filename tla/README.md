# A TLA+ verification project for the modular transfer

This directory holds TLA+ models of the programs under `src/`, the TLC
configurations that check them on small instances, and theorems about them that
the TLA+ proof system (TLAPS) has checked. The modules are translated from the
C and C++ sources; where a doc or comment says something else, the model follows
the code and a run shows the difference (section 7).

    tlc -workers 2 -config MCPipeline_shipped.cfg MCPipeline   # check a run
    tlc -workers 2 -config MCHttpTransfer.cfg MCHttpTransfer
    tlapm Pipeline_proofs.tla                                  # check proofs

## 1. The system

`main(queue).cpp` (target `test_queue`) moves a directory of files to an HTTP
server in three stages that work at the same time: **read**, **compress**,
**send**. `main(single).cpp` (target `test_single`) runs the same stages one after
the other. Everything below is about shared memory and threads; nothing is stored
that would survive a restart.

| component | state it keeps | operations | hard about it |
|---|---|---|---|
| Feeders (`trave_dir`/`addFile`, `run_compressQueue1`, `run_transferQueue1`) | position in the input, `add{1,2,3}_end`, `block{1,2,3}Storage`, `compressQueue1`, `transferQueue1` | cut a block, wait for credit, count it, submit a job; at the end an end job | the end of input must overtake nothing; tests of a flag and a counter are stale when the pop that follows blocks |
| Jobs (`readFile`, `compress_func`, `transfer`) | `block{1,2,3}_cnt`, `read_end`, `compress_end`, `transfer_end`, `compressTSQ_cnt`, `transferTSQ_cnt` | process a block, push it, leave; the last one to leave raises the end flag and pushes `-1` | who is last is a race between jobs, feeder and end job; the push of `-1` blocks with two mutexes held |
| Monitor (`monitor`, `finish`, `setControl1/2/3`) | `control1/2/3`, the period | grant credit, choose pools, quit at `add3_end` | nested locks with feeders and jobs; feeders spin for credit that only it can grant |
| Policy (`Model::solveCT`, `solve`) | a table of speeds, `controlMethod` | compute three periods of grants per codec, choose a plan; `monitor` deals the periods out | times that come out negative, grants that are refused whole, pauses with credit left |
| Client ports (`transfer`) | `clientPort_flag`, `port_mutex`, `clientSet` | scan for a free port, POST, release | one pass over a table that others change meanwhile |
| `ThreadSafeQueue` | `mQueue`, a mutex, two condition variables | `push`, `pop` | lost wake-ups: `notify_one` after the unlock |
| C thread pool (`thpool.cpp`) | job queue, binary semaphore, two counters, one flag for all pools | init, add work, wait, destroy | the semaphore forgets posts; `thpool_wait` reads the length without its lock; destroy polls and frees |
| HTTP client (`ClientImpl` of `httplib.h`) | the kept socket of each of `clientSet`, the `Result` of a call | create a socket, connect, write a request, read a reply, keep or close the socket | sockets reused by number, late and broken replies, several addresses behind one error variable, timeouts |
| Frame format, `test1`–`test3` | records in block1, frames in block2, cut into block3 | serialise, refuse what a queue has no room for, compress, cut, fetch, put together | frames spread over blocks, blocks in any order, sizes from unparenthesised macros |
| Sequential program (`main(single).cpp`) | the same storages and queues, allocated and freed stage by stage | three loops and three pools | jobs beside `free_memory`, neighbouring outputs in one buffer |
| gzip wrapper | none | `gzcompress`, `gzdecompress` | returns 0 for broken data |
| C++ thread pool (`ThreadPool.h`) | task queue, semaphore-like counters | not used by any program | |
| CPU sampling | none shared | shell script | input and output only |

How they interact: feeders submit jobs to thread pools with `thpool_add_work`
(shared job queue); jobs of one stage hand block numbers to the next feeder through
a `ThreadSafeQueue` and a counter; the monitor and the feeders share `control`;
the monitor and the feeders and jobs share `add_end`; `main` waits for the pools in
a fixed order and then destroys them. There are no callbacks besides the jobs.
Failures the code meets are full storages and queues (a silent drop, or a `NULL`
that is then used), a POST that fails (reported at most), and an open that fails.

What makes the components correct:

* pipeline: the counters count what they should at the moments they are read; an end
  flag is raised after the last block is handed on and never before; a feeder leaves
  its loop only when nothing is on its way to it; each block is handed on once; the
  program ends, with all bytes sent, and with all threads idle when `main` frees them;
* monitor: it goes on until no feeder will need credit; a stage overspends by less
  than a block;
* queue: no notification is lost, and `push` and `pop` act as one step;
* thread pool: no job is left behind, a wait returns only when all is done, and it
  does return; destroy ends;
* ports: every job finds a port, no port is used twice;
* HTTP client: every descriptor has one owner, a reply is taken for the request it
  answers, a `Result` has either a response or an error, every POST ends;
* data: what the tests put together is the input, in whatever order blocks arrive and
  whatever codec each got; what did not reach the server is noticed;
* policy: a plan grants what the data need and expects no time that cannot be kept; the
  periods never go round for ever without helping.

The list of hazards, each at its line, is in `PROJECT.json`.

## 2. Modules

| module | models | role |
|---|---|---|
| `Pipeline` | feeders, jobs, monitor, `main`'s waits | the detailed specification; composes all of it over abstract queues and pools |
| `HandOff` | what a stage promises the next | abstract; `Pipeline` implements it twice |
| `MCPipeline` | instances of `Pipeline` | traversals, sizes and policies for TLC |
| `TSQueue` | `thread_safe_queue.h` | `push` and `pop` down to mutex and condition variables |
| `BlockingQueue` | what a queue promises | abstract; `TSQueue` implements it, `Pipeline` uses a queue this way |
| `ThPool` | `thpool.cpp` | pool threads, adders and `main` down to locks, semaphore, condition variable |
| `JobPool` | what `thpool.h` promises | abstract; `ThPool` implements it, `Pipeline` uses a pool this way |
| `PortTable` | the port scan of `transfer` | one or several transfer pools at work; abstract for `HttpTransfer` |
| `HttpTransfer` | `ClientImpl::Post` as `transfer` calls it | refines `PortTable`: its step `Post` is opened up; `MCHttpTransfer` instantiates it |
| `Frames` | records, frames, pieces, codecs, and the parsers of the tests | operators both programs use |
| `SingleRun` | `main(single).cpp` | the sequential program over `Frames`; `MCSingleRun` instantiates it |
| `QueueRoundTrip` | data of `main(queue).cpp` and `test3` | blocks that arrive in any order, over `Frames`; `MCQueueRoundTrip` instantiates it |
| `Policy` | `Model`, `monitor`, `finish` | the plans, and three stages that spend them; `MCPolicy` instantiates it |
| `Pipeline_proofs` | | theorems about `Pipeline`: types, credit, the end and the hand-over; that it implements `HandOff`, and that all bytes are sent (section 6) |
| `Frames_proofs` | | lemmas about `Frames`: what each parser makes of what was written for it; `SingleRun_proofs` and `QueueRoundTrip_proofs` build on them |
| `TSQueue_proofs`, `ThPool_proofs`, `HttpTransfer_proofs`, `SingleRun_proofs`, `QueueRoundTrip_proofs`, `Policy_proofs` | | theorems about the module of that name (section 6) |

The composition is by layers: `TSQueue` and `ThPool` show that a queue and a pool act
as the one-step operations that `Pipeline` takes them for (`PushBlock`, `PushEnd`,
`Pop`; `Submit`, `CanStart`, `MainWait`). `HttpTransfer` EXTENDS `PortTable` and has its
specification as the property `ActsAsPortTable`. `Pipeline` keeps sizes and threads and
leaves out contents; `QueueRoundTrip` keeps contents and takes from `Pipeline` that jobs
finish in any order; `Policy` keeps bytes per stage and takes from `Pipeline` how a stage
spends credit.

`PROJECT.json` maps every definition to its lines. Operators whose comment says
`fault` are not part of a specification: each is a definition changed the way a
bug would change it, and makes the property it is listed with fail.

### Pipeline

The three stages repeat one protocol over numbered globals, so a variable is a
function of the stage: `block_cnt[1]` is `block1_cnt`, `end_flag[1]` is `read_end`,
`TSQ[1]` is `compressTSQ`, `credit[2]` is `control2[2]`. A job is named by its number
in the order of cutting, `at[s][n]` says where it is. A step is one critical section
of the code, which is sound as long as each shared variable is touched only under
its mutex; that is so in the code except for reads of sizes that one thread writes. Two
steps stand for more than one: a job's first critical section goes with its being pulled
from the pool (`CanStart` lets as many jobs be pulled as the pool has threads, in order,
so that a job pulled later may still come first), and the waits for the pools of one stage,
one after another in the code, are one look at all of them (`WaitOver`), since no job
is submitted any more when the feeders are done.

Locks are visible only where a thread can block while it holds them: a job in
`pushEnd` holds `block_mutex` and `add_mutex` (`AddMutexFree`), the monitor in
`finish` holds `control_mutex` while it waits for `add_mutex` (`ControlMutexFree`).
All other critical sections end without waiting, so they are atomic.

Data are sizes. A codec is the size of what it produces (any of `CompressedSizes`),
a POST is its outcome (`PostOutcomes`), the byte streams `compressQueue1` and
`transferQueue1` are the number of bytes pushed and popped. When a block storage is
full, stage 1 cuts a job without data (the code sees the `NULL`), and stages 2 and 3
access memory outside the storage: the model stops there (`Overrun`), since what
happens then is undefined. `Traversal` lists what `trave_dir` meets; each directory,
not only the root, ends with `DirEnd`, because each call of `trave_dir` announces the
end of input.

### TSQueue, ThPool, PortTable

Each step is a critical section of a mutex, or an access outside of one. Waiting on a
condition variable, being woken (also for no reason) and taking the mutex again are
separate steps. In `ThPool` a lock that is held across two steps is represented by the
place of its holder: `thpool_wait` between its two tests and a thread about to unlock
for the last time hold `thcount_lock` (`CountLockFree`), a thread about to post the
semaphore holds `rwmutex` (`QueueLockFree`). `threads_keepalive` is one flag for all
pools, so `thpool_destroy` may leave `main` in `"use"`: it has destroyed another pool
first. The program adds no job before `thpool_init` returns nor after the first
destroy.

### HttpTransfer

`ClientImpl` has no state machine of its own: `phase[t]` is where thread `t` is in the
nest of calls `send_` → `create_socket` → `process_request` → `read_response_line` →
`read_headers` → `read_content`. `fds` is the descriptor table of the process; the
lowest closed number is given out first, as POSIX says, so numbers are reused at once.
A connection holds what the server has not read (`out`) and the client has not read
(`in`). A server is free to answer or not, in whole or in part, before or after an
interim `100`, and to close at any time; a reply is one of `Replies`. A wait with a
timeout (`connect`, `select_read`, `select_write`) may fail at any time while nothing has
arrived. `main` leaves `keep_alive_` false, so each POST closes its socket; the model
also takes it true, since the code that keeps a socket is there and `is_socket_alive`
is the delicate part of it.

### Frames, SingleRun, QueueRoundTrip

A byte is a record that says where it comes from (file and offset), the fields before a
buffer and the header of a frame are one byte each, and memory nobody wrote is `NoByte`.
A parser that reads a header at a wrong place takes what is there for a size, as the code
does: 0 for memory nobody wrote, `Garbage` for other data (`headerSize`), and goes on; only
a last frame that runs past the end is an `Exit`. A codec yields a sequence of bytes which only together give the
block back, of any of `CompressedSizes`. `Refuses` is the test of both `push` functions,
with `>=`; in `transferQueue` header and body are tested apart.

`SingleRun` takes one step per turn of a loop of `main` and per job, with the codec and
the copy of its output apart, since jobs on other threads write to the same
`compressedBuffer` in between. The tests are pure functions of what the stages left
(`test1`, `test2`, `test3`; `main` has their calls commented out, each where its data are
still there), evaluated when the program is over.

`QueueRoundTrip` lets blocks arrive in any order, each with any codec, and lets the
server hold any part of what was sent; its `test3` is the one of `main(queue).cpp`. A job
of stage 2 is two steps there: the codec writes into `compressedBuffer` (`CompressBlock`),
or ends the program with an output longer than `BLOCK2_MAX_SIZE`; then the job copies what
by then is at its place (`CopyBlock`). Up to `threads` jobs are between the two. Their
places (`dst`) are `block2Size` apart, so an output longer than that overwrites
the beginning of its neighbour's.

### Policy

`double` becomes exact fractions (`Frac`), and the assignment to `long long` truncates
(`Trunc`). So the bound of three bytes in `CoversData` is exact for the fractions; a product
of doubles that comes out just below a whole number is cut one byte lower in the code. `solveCT` is a function from a setting and a codec to `T` and three periods;
`solve` takes the best of four. A plan has, besides, the lengths of its
three periods (`times`), which the code computes and does not keep. `IsSetting` rules out a
table in which two threads are half as fast as one, where the third case divides by zero. The stages are those of `Pipeline` reduced to how many bytes
wait for each: `Take` spends credit on a block, `AddEnd` is the end job, which waits for
credit too. `monitor` deals out the next period when `finish` holds, and `SetControl`
refuses a negative grant whole, its pool included, as the code does.

What the run showed while the properties were written, for whoever enables
`model.solve()`:

* `t2` is negative whenever the disk is slower than one compressing thread (`V1 < C[cT][1]`),
  always for the types 0 and 3 with the table of `Model::init`. `setControl2` and
  `setControl3` then refuse the second period, and the expected `T` is lower than the
  time stage 1 or stage 3 needs alone; `solve` may prefer such a plan. The same
  happens in the second case when `x` is negative. So `BeatsNoStage` speaks of
  plans in which no period has a negative length. That no grant is refused would not be
  enough: a negative time worth less than a byte is cut to a grant of 0.
* A plan can stall the program for good: a paused stage keeps credit, `finish` waits for
  that stage, and the others have run dry. `StalledOnlyByPause` says this is the only
  way, `SentOrStalled` that the program otherwise ends.
* Stage 3 is granted `alpha` times what the compressed stream needs, so `CoversData` is
  about stages 1 and 2, for which it is tight.

## 3. Runs

| run | configuration | shows |
|---|---|---|
| `shipped` | one file of 3 bytes (a full and a short block), pools as in `monitor()`, fair threads | `HandOffInv` (the inductive invariant of the proofs), `MonitorOutlivesFeeders`, `OverMeansIdle`, `EverythingSent`, that both hand-overs implement `HandOff`, and `Termination` |
| `throttled` | two files, one refused by `fileStorage`; storages with room for one or two blocks, the access past `block3Storage` included; a policy that pauses a stage, changes pools and grants less than a block; POSTs that fail | the counters and flags stay right, overdraft below one block |
| `tsqueue` | 2 producers, 2 consumers, capacity 2 | `PopsAwake`, `PushesAwake`, and that it is a `BlockingQueue`, its liveness included |
| `thpool` | 3 pool threads, 2 adders, 2 jobs | `NoJobStranded`, `WaiterWillBeWoken`, that it is a `JobPool`, its liveness included, and `DestroyEnds` |
| `transfer` | 2 threads, 2 ports, 2 blocks, a server with two addresses, three replies, sockets kept or not | `ExclusivePort`, `AlwaysAPort`, `AnsweredMeansStored`, `NullIffError`, `OneOwner`, that a POST is one step of `PortTable`, and `JobsEnd` |
| `single` | three files (two blocks, one short block, none), 1 or 2 threads, 7 settings of the storages, POSTs that fail | `RoundTrip`, `NoUseAfterFree`, `Ends` |
| `roundtrip` | two files, 5 settings of the storages, two codecs, 1 or 2 jobs that compress at once, outputs that fit a slot, reach the next, or are too long | `RestoredInAnyOrder` (for outputs that fit, or one job at a time), `LossIsNoticed` |
| `policy` | six settings of disk and network, computed plan or shipped method | `CoversData`, `BeatsNoStage`, `StalledOnlyByPause`, `SentOrStalled` |
| `nested`, `sizing`, `thpool_free`, `ports_pools` | | the four differences of section 7 |

Each property of a passing run has a `fault` operator that breaks it.

## 4. Bounds, and why they are enough

* `MaxJobs` (2 to 4 jobs per stage, end job included). The end-of-input protocol
  distinguishes the last block, the ones before it, and the end job. Stage 1 of
  `shipped` has two data blocks and the end job, which show every order of these. The
  guard `n \in JobIds` of `Make` does not cut off behaviour in `shipped` and
  `throttled`: deadlock is checked there, and a feeder that could cut no more would
  stop for ever.
* `QueueCapacity` 2 instead of 1000. The queues fill up, so blocking pushes
  happen. Two `-1` can be in flight at once (two jobs that leave can both see
  the counter at zero with the flag set), and the feeder pops one at most after its
  last block: with capacity 1, which the code never builds, the second push would not end.
* `CreditCap` bounds a balance from above; the code has no bound. With 1, the smallest, a
  balance is 1 after each grant and a feeder has to wait for the monitor before every block
  but its first, end job included, where the shipped 500 MB for 134 MB of data let no feeder
  wait a second time. As to credit this is the harder case: a monitor that quits too early
  shows at every block. It is not the hardest for the locks. A job that pushes `-1` to a
  full queue holds `add_mutex`, on which the monitor waits in `finish` with `control_mutex`
  held, while the next feeder waits for credit and pops nothing: then nobody moves.
  With the two blocks of `shipped` the queue has room again before feeder 2
  waits for credit. With three blocks (a file of 5 bytes, `MaxJobs` 4, blocks of 3 bytes in
  stage 2, else as in `shipped`) TLC reaches that deadlock. So `Termination` holds of
  the code because its grants exceed the data set and its queues hold 1000 elements, and
  not for smaller ones.
* Sizes are scaled. In `shipped` a block read is 2 bytes and its record 3, and a block of the
  next stage holds what one block becomes; in `throttled` and `sizing` records spread
  over blocks and the last block of each stage is short.
* `TSQueue`: with two threads on each side, a notify can wake one of two waiters
  and two threads can race for one place. `ThPool`: three threads let one sleep, one
  hold the token and one run. Their invariants are proved for all numbers.
* `HttpTransfer`: two threads contend for ports and descriptors; with two blocks and two
  ports a client gets a second POST on a kept socket, after a first that ended in any way.
  Two addresses let one fail before another answers. A plain reply, one that ends with the
  connection and one without content take the three ways through `read_content`. That one
  port is free when two threads scan two is the case of `AlwaysAPort`; its theorem covers
  all numbers.
* `SingleRun`: records of three bytes and blocks of four, so that a record spreads over two
  blocks; outputs smaller than, equal to and larger than a block, with one thread and with
  two. The capacities are ample, exactly full, or short, for each storage in turn.
* `QueueRoundTrip`: three or four records and as many blocks, of which the last is
  short; every order of arrival is taken. Slots are 6 bytes apart and `BLOCK2_MAX_SIZE` is 7:
  outputs of 4 bytes fit, of 7 reach the next slot, of 8 end the program. Without the last
  part of its condition (one job at a time, or outputs of at most `block2Size`)
  `RestoredInAnyOrder` is violated in this instance.
* `Policy`: the table of `Model::init` in whole MB/s; disk speeds 10 and 38, network speeds
  1, 4 and 16 reach all three cases of `solveCT`. `Input` is 64 in blocks of 8, and
  `CreditCap` 72 lies above what any stage can spend, so that balances beyond it are alike.

## 5. Fairness

* `Pipeline`: the jobs and feeders as a whole keep running (weak fairness of `Work`), and so
  does the monitor: they are threads, and a started job ends, as codecs return and POSTs do
  (`JobsEnd` of `HttpTransfer`). All of them together run out of work, so no fairness between
  them is needed. The spin loop for credit has strong fairness: it needs `control_mutex`,
  which the monitor holds only between two sleeps of `TIMESPAN` microseconds, so it is free
  again and again while the feeder spins.
* `TSQueue`: a thread inside a call goes on unless it waits. No fairness makes a
  caller call, or a waiter wake by itself.
* `ThPool`: pool threads and `main` have strong fairness inside library calls, because
  they compete for `thcount_lock`, held for a few instructions at a time, also through
  spurious wake-ups. Nothing makes the program add, wait or destroy.
* `HttpTransfer`: some thread inside `transfer` goes on (weak fairness of their steps): each
  wait in it ends by its timeout if nothing else happens. Servers need do nothing.
* `SingleRun`: `main` and the pool's threads go on.
* `Policy`: a feeder polls for credit without sleeping, while the monitor sleeps between
  two looks; so a stage that is able to go on again and again does (strong fairness of each
  stage), and the monitor looks again and again (weak fairness).

## 6. What is proved

For every value of the constants that satisfies the named assumptions
(`SizesAssumption`, `TraversalAssumption`, `MethodAssumption`, `TSQueueAssumption`,
`ThPoolAssumption`, `PortTableAssumption`, `HttpTransferAssumption`, `FramesAssumption`,
`SingleAssumption`, `RoundTripAssumption`, `PolicyAssumption`):

* **Pipeline, types** (`Pipeline_proofs!TypeCorrect`). `TypeOK` is not inductive: that
  a feeder's job number is in range rests on `WellPlaced` (it has cut the job it works
  on, popped the block it stores, and has an item left to scan).
* **Pipeline, credit** (`OverdraftCorrect`). A feeder takes a block only from a positive
  balance, a grant is only added to a balance, and no block is larger than the block
  size of its stage (`BlocksFit`, an invariant of its own). Holds with subdirectories too.
* **Pipeline, the end** (`OverMeansIdleCorrect`). What `main` has waited for stays over
  (`WaitedFor`): the monitor, then each feeder, then each stage's pools. A pool that `main` has
  seen idle gets no job any more because a job not yet in a pool is the one its feeder works on
  (`Fresh`), and the feeders are done by then. Neither the order in which the
  stages end nor `Flat` is needed for it.
* **Pipeline, hand-over** (`Pipeline_proofs`). `HandOffInv` is inductive when the
  data set has no subdirectory (`Flat`), and gives `CountsActiveJobs`,
  `CountsBlocksOnTheWay`, `EndFlagIsFinal` and `DrainedBeforeExit`. The argument: the
  end job is the last one of its stage and is cut only after the input is over
  (`EndIsLast`); the jobs not yet counted are at most the one the feeder works on
  (`JobsInOrder`); so when a job that leaves sees `add_end` and the counter at
  zero, no block of the stage is left but those already in the queue. The
  next feeder leaves when the flag is up and the counter of blocks on the way is
  zero, and the latter counts exactly those. `MonitorOutlivesFeeders` follows: `add_end`
  of stage 3 is set only behind `EndIsLast` of all three. Without `Flat` the invariant
  is false: see `nested`.
* **Pipeline implements `HandOff`** (`Pipeline_proofs`). `HandOffInv` counts
  blocks; to say that each is taken once, one has to say where each is. `QueueInv` does: a
  block that has left its job is in the queue once, or with the next feeder, or taken,
  and no two of these. With it each step of the pipeline is a `Give` (a job is cut), `Close`
  (the end job is cut), `Take` (the feeder accounts for the block it popped, or, when it
  leaves its loop, nothing is left to take: `Finish`), or none of them, at both hand-overs
  (`ReadHandsOnCorrect`, `CompressHandsOnCorrect`, under `Flat`). From it and
  `OverMeansIdle`: when `main` has passed its waits no block is left between two stages
  (`NothingLeftOverCorrect`).
* **Pipeline, everything sent** (`EverythingSentCorrect`). The bytes of the data set, and of
  each stage's output, are a sum over files or blocks. `BytesInv` says what the code never
  computes: the blocks stage 1 has cut add up to what the scan has read (`CutFromFiles`), those
  of stages 2 and 3 to what was popped from the byte stream before them (`CutFromQueue`); and
  a byte stream holds what the blocks handed on became (`StoredRecords`, `StoredFrames`). A
  feeder ends with its stream used up (`UsedUpAtEnd`), so when nothing is left over
  the sums agree. The hypotheses: no subdirectory (`Flat`), no more files than `fileStorage`
  takes (`FilesFit`), no POST fails; and that neither `block1Storage` nor the queue to stage 3
  comes to its limit (`RoomForAll`): what is refused is lost, as `sizing` shows.
* **Queue** (`TSQueue_proofs`). `PopsAwake` and `PushesAwake` are inductive over the
  types: each step that adds an element adds a thread about to notify, each notify turns
  one waiter into a woken thread, and a thread that goes to sleep does so when there is
  no element (no room). `BlockingQueueCorrect`: the queue implements the safety part of
  `BlockingQueue`. A thread is inside a call up to the critical section that moves an element;
  waiting, waking and notifying are stutters.
* **Thread pool** (`ThPool_proofs`). The two counters count threads (`Counted`), no thread
  leaves while the flag is up (`OpenWhileServing`); with these `NoJobStranded` and
  `WaiterWillBeWoken` are inductive. `JobPoolCorrect`: the pool implements the safety part of
  `JobPool`. That needs, besides, that a job is in one place (`OnePlace`: still to be added,
  once in the queue, or with one thread), so that the end of a job ends that one only, and that
  the flag is down before the pool is destroyed (`ClosedBeforeDestroy`). `thpool_wait` sees
  the pool idle at its test of the queue's length, if no thread works then: `thcount_lock`,
  held until the second test, keeps that number from changing in between.
* **Ports** (`HttpTransfer_proofs`). With no more threads than ports, a single pass finds a
  port. The strengthening is `Room`: from each port on, there are no more jobs than
  ports. A job passes a port only while another holds it and so stays behind.
  One pool never has more threads than there are ports (`OnePoolAlwaysAPort`).
* **HTTP client** (`HttpTransfer_proofs`). Each step of a POST is a step of `PortTable` or
  leaves its variables alone (`StepRefines`), so that the theorem on ports carries over
  (`ActsAsPortTableCorrect`). `HttpInv` is inductive and gives `OneOwner` and
  `NullIffError`. Besides the types it says: a thread is in a POST only while its job is at
  that step (`PhaseOK`); one thread at a time is in the POST of a client, which is what
  `request_mutex_` is for (`OneSender`); each open descriptor is kept by one client or
  tried by one thread, and by no other (`Owned`, which says of descriptors one by one what
  `OneOwner` says by counting); and the error of a POST under way agrees with how far
  it came (`ResultOK`).
* **HTTP client, answers** (`AnsweredMeansStoredCorrect`). On top of `HttpInv`, `TalkInv` says
  what each connection carries: outside of a POST the socket a client keeps is quiet, a
  descriptor no client keeps carries nothing, and during a POST the tokens on the connection are
  those of one reply, in order, to the block being sent, of which a 200 is on its way
  only if the block is stored (`Conversation`, `Answers`). So an answer that comes
  late finds its socket closed, and never a next POST.
* **Sequential program** (`SingleRun_proofs`). `SingleInv` is inductive and gives
  `NoUseAfterFree` and `TypeOK`. `StageOK` says at each place of `main` which jobs there
  can be and which storages are allocated: a pool is idle when `main` goes on to free, since
  the wait has seen it so and `main` submits nothing in between. `JobsFit` says that the
  block of a job is in its storage and the copy it makes is within `compressedBuffer`; the
  lengths of storages and queues, which `TypeOK` bounds, rest on what a record, a frame and a
  piece add to them (`Record1Bytes`, `Record2Bytes`, `PieceBytes`).
* **Records, frames and pieces** (`Frames_proofs`). Each parser undoes what its writer did, for
  every size: cutting a stream and joining the pieces gives the stream (`FlattenPieces`);
  records of one length are cut where they were joined (`PiecesFlatten`), and a structure is
  read back from its record (`UnpackRecord1`, `UnpackRecord2`, `Blocks1Back`); frames of any
  lengths are found again by their headers (`UnframeFrames`, `Blocks2Back`); and a codec gives
  back the block of its whole output (`DecompressOutput`).
* **Sequential program, round trip** (`RoundTripCorrect`). `TripInv` says what each storage and
  stream holds as long as nothing is lost: at each place of `main`, what the work done so
  far makes of the files, and for each job that has yet to run the part still missing. At
  the end these are the whole, and the lemmas above take `test1`, `test2` and `test3` back
  to the files. The hypotheses are those of the property (nothing refused, dropped or not sent;
  one thread, or outputs that fit their places) and `DifferentNames`: a test appends
  each record to the file of its name, whatever the directory it came from, so
  two files of one name end up in one.
* **Round trip in any order** (`RestoredInAnyOrderCorrect`, under `DifferentNames`). `QueueInv`
  says that, until something is refused, each stream is the records or frames of the blocks that
  arrived, in the order they did; that no block arrives twice; and that, if one job compresses at
  a time or no output is longer than `block2Size` (`Undisturbed`), a block holds the output of its
  own codec for the piece its number names (`AllCompressed`), also while it lies in
  `compressedBuffer`: places that far apart do not overlap (`Apart`). Otherwise a block may hold
  what a neighbour wrote, and the code restores nothing; the theorem does not speak of that.
  Once all have arrived the numbers are
  all different and none is too large, so each place is named by exactly one of them
  (`EveryNumber`, from the theorem that an injection of a finite set into itself is onto it),
  and `InPlace` undoes the order, whatever it was (`InPlaceIs`).
* **A loss is noticed** (`LossIsNoticedCorrect`, without `DifferentNames`, and for overwritten
  outputs, too). What test3 fetches is
  the stream with pieces taken out: its bytes were further apart before, never nearer
  (`Embeds`, `KeptEmbeds`), and there are fewer (`LessFetched`). Nothing is known of what is
  taken for a frame header then; but only the first byte of a record is a structure's
  (`OnlyHeaded`, `JoinedWhere`). If as many frames are read as there were blocks and each
  begins with a structure, these are all there were, in their order, and going back from the end
  none of their bytes can be missing (`FewerFrames`). So the count is wrong, or some frame is no
  block and some place stays unfilled, for as many blocks fill as many places only if each goes to
  one of its own (`PlaceLeft`, from `EveryNumber`); what nobody wrote no codec takes.
* **Policy** (`Policy_proofs`). `gcd` is what its recursion says (`GcdIs`), found by descending
  to the least number for which it would not be; so a fraction has a positive denominator and
  the value it is written with, and the plans can be reasoned about by cross-multiplication.
  `PolicyInv`, with the types, says that the plans stay those of the setting. `CoversDataCorrect`
  and `BeatsNoStageCorrect` go through the three cases of `solveCT`: the times of each case add
  up so that the rates multiplied by them give `D`, and each grant loses less than a byte by
  `Trunc`. `StalledOnlyByPauseCorrect`: when `finish` is false each stage has credit, so
  the first one with nothing before it that is not over is paused.

Induction over data (sums over sequences, Euclid's algorithm) is done with
least numbers: were the statement false for some number, it would be so for a least one
(`LeastNumber`, and `Climb` for the numbers up to a bound), and the step from the number before refutes that. That recursive
functions are what their definitions say is shown the same way.

Only model-checked: everything under fairness (`Termination`, `DestroyEnds`, `JobsEnd`,
`Ends`, `SentOrStalled`, the liveness part of `ActsAsBlockingQueue` and `ActsAsJobPool`),
since the prover handles neither liveness nor `ENABLED` here. Every invariant and every safety
property that a passing run checks has its theorem.

## 7. Where the code and its documentation differ

* `nested`: a subdirectory makes `trave_dir` announce the end of input while files are
  left; the monitor prints "Add all task over !" and quits too early.
* `sizing`: the sizing rule of `README.md:116-117` (block size times number above the
  data set) loses data when files are shorter than a block.
* `thpool_free`: `thpool_destroy` does not wait for the threads to finish, as `thpool.h`
  says it does: it waits for their count, which a thread lowers before its last unlock.
* `ports_pools`: changing the number of transfer threads while jobs run, as
  `README.md:7` announces, can leave a job without a port. The shipped `monitor()`
  does not change pools.

Two more weaknesses of the code have no run of their own, as no doc or comment says otherwise;
the properties exclude them by name. Outputs longer than `block2Size`, which the codecs' bounds
and the test against `BLOCK2_MAX_SIZE` allow, overwrite their neighbours in
`compressedBuffer` when two jobs compress at once (the shipped grants give stage 2 two threads):
see the conditions of `RoundTrip` and `RestoredInAnyOrder`. And the deadlock of section 4, for
grants below the data set and a full queue.

## 8. Plan

Done: `Pipeline` with `HandOff`, its invariants and the refinement proved; `TSQueue`, `ThPool`
and `PortTable` with their invariants and the safety part of what they implement proved;
`HttpTransfer` with all its safety properties proved; `Policy` likewise; `Frames` with
`SingleRun` and `QueueRoundTrip`, both with the shared `compressedBuffer`, with the round trips
and the notice of a loss proved.

Left, should the code call for it:

1. The codec that fails (`exit(1)`) in `Pipeline`, and a missing input folder.
2. The other types of `test2` and `test3` in `main(single).cpp`.

## 9. Not modelled

* `thpool_pause` and `thpool_resume`, called by no program; allocations that fail.
* `ThreadPool.h`: included by no program.
* `cpuTest.h`, `testcpu.sh`: a script that samples `/proc/stat`, and a reader of its log.
* Of `httplib.h`: everything outside of a plain POST, which is most of the file: the server
  classes, TLS, proxies, redirects, authentication, compression, multipart, and `stop()`.
  What is in `HttpTransfer` is the path of `Client::Post` with the defaults of `main`.
* zlib and the other codecs: what they make of a block, not how. In `Pipeline` a codec that
  fails (`exit(1)`) is left out.
* The compression type (`control2[1]`) in `Pipeline`, where it decides nothing else than the
  codec; `QueueRoundTrip` has it.
* Of the tests (`main` calls none of them, the calls are commented out): types 2 to 4 of
  `test2` and type 3 of `test3` in `main(single).cpp`, which differ in the library called or
  read sizes left by another test; `test1` of `main(queue).cpp`, which is that of
  `main(single).cpp`.
* `finish1_cnt` to `finish3_cnt`: written by jobs, read only by code that is commented out.
* A missing input folder (`trave_dir` returns at once and announces no end).
* `ThreadSafeQueue::size` is declared and defined nowhere.
