# TLA+ models and proofs of csim

csim simulates a computing cluster. It reads a dataset of nodes and a dataset of
jobs, gives the jobs to one of four schedulers tick by tick, and prints what
became of them. A generator beside it draws job datasets. The programs are
sequential; what makes csim hard is that its components share the same job and
node records through raw pointers, over many ticks, each relying on what the
others did before, and that loading, running and releasing rely on fields that
earlier steps may not have set.

This directory holds TLA+ modules of that code, TLC configurations that check
them on small clusters and datasets, and proofs, checked by TLAPS, of the
properties that matter most, for clusters, datasets and command lines of every
size.

Paths below are relative to the repository; `file.c:n` is line n of that file.

## 1. Inventory

| component | code | state | operations |
|---|---|---|---|
| node resources | `src/cluster/node/{check_node_for_job,put_job_to_node,remove_job_from_node}.c` | `node_t.occupation` (free memory, free threads of each core), `job_t.assigned_node`, `time_before_start` | check, put, remove |
| job sequencer | `src/cluster/job_sequencer/*.c` | `cluster_t.job_sequence`, a list of moments, each a list of jobs | one call of `cluster_add_job_moment` a line |
| simulation | `src/cluster/{simulate,simulation_step}.c`, `job/update_job.c`, `node/update_node.c` | the clock, `wait_time`, `exec_time`, `is_done`, `is_complete`, `is_everything_done`, the statistics | one tick: distribute, schedule, update the jobs, update the nodes |
| FIFO | `src/schedule_algorithms/schedule_fifo.c` | `fifo_queue_t`: head, tail, cursor | distribute, schedule |
| backfill | `schedule_backfill.c` | the chain of `sched_info` from `scheduler_t.state` | distribute (sorted insertion), schedule |
| priority | `schedule_priority.c` | two chains and a list of nodes ordered by time | init, distribute, schedule |
| round robin | `schedule_round_robin.c` | `rr_job_queues_t`: pending, running, finished, doubly linked | init, distribute, schedule, destroy |
| node network | `interconnect/node_network_from_dataset.c`, `init.c:66-93` | the interconnects, `node_count`, the registry | one interconnect, one node; populate the registry |
| life of the program | `main.c`, `init.c`, `destroy.c` | the pointers of `cluster_t`, the status, what was freed | check the arguments, load, start the scheduler, simulate, destroy |
| generator | `job_dataset_generator/main.c` | the `p_` options, the file | take an option, open, write a line |
| pipeline | `README.md:47-49` | the job dataset | generator, `sort -n`, csim |
| reservations | `node/reserve_job_on_node.c`, `update_node.c:105-132` | `node_t.reservations` | reserve, decrement |
| printing | `print_*.c` | none | output |

How they interact. `main` calls `cluster_init`, which loads the jobs, then the
nodes, lists the nodes in the registry and starts the scheduler; when one of these
fails it calls `cluster_destroy` on what there is. Then `cluster_simulate` owns the
loop. In each tick it calls
`scheduler.distribute` if the next moment's time is the current tick, then
`scheduler.schedule`; the scheduler calls check and put of the node component.
Then `cluster_simulation_step` calls `cluster_update_job` for the jobs of every
moment that has begun and is not marked done; a job that ends is removed from its
node there. Last, `cluster_update_node` counts the idle ticks. Jobs are shared
by all: the scheduler chains them by `sched_info` (a chain the sequencer has
already laid for every moment), the simulation ages them, the node holds them.

What is hard:

- *Long sequences.* Which core gets which threads is not remembered, so what a
  release does depends on every put before it.
- *Stale state.* The FIFO cursor, the mark `is_everything_done`, the queues of
  backfill and priority survive from tick to tick while the jobs in them expire,
  complete and leave their nodes elsewhere.
- *Order.* A moment is distributed only in its own tick (`simulate.c:40`), and
  the break in `simulation_step.c:21` takes the list to be sorted.
- *Timeouts.* A job expires while it waits, or while its start is delayed after
  it was put, or is put in the very tick in which its time runs out.
- *Unbounded loops.* Two loops over cores have no bound on the index
  (`put_job_to_node.c:33-59`, `remove_job_from_node.c:61-75`), the registry is
  filled by another loop than the one that counted its entries (`init.c:82`), and
  the simulation itself runs until every job is done.
- *Partial failure.* `cluster_t` is a local of `main` that nobody initialises, and
  `cluster_destroy` may be called when any part of it has not been set.
- *Wrapping.* The generator subtracts, takes modulo, adds and prints unsigned
  numbers of different widths.

What makes each component correct: the accounts of a node balance; the sequencer
loses and doubles no line; the registry holds the nodes of the file and nothing
else; a tick ages each open job once and counts each ended job once; a scheduler
loses no job, puts a job only while it is open and on a node that fits, and leaves
no job waiting beside a node that would take it; the simulation ends; nothing is
freed twice; the generator draws within its bounds and touches no file it was not
asked to.

`PROJECT.json` lists the hazards line by line with the properties aimed at them.

## 2. Modules

```
Sums                     finite sums, as the cardinality of a set of units
 +- Node                 check, put, remove
     +- NodeClient       any scheduler that checks before it puts
     +- Cluster          the tick: simulate, simulation_step, update_job, update_node
         +- SchedFifo    with schedule_fifo.c   -- implements -->  ClusterContract
         +- SchedBackfill  with schedule_backfill.c
         +- SchedPriority  with schedule_priority.c
Process                  pc, status and the unset pointers of cluster_t
 +- NodeNetwork          loading the cluster dataset, the registry
 +- JobSequence          loading the job dataset; uses MomentList (add_job_moment.c)
     +- RoundRobin       schedule_round_robin.c, as far as it runs
Program                  main, init, destroy; composes RoundRobin and NodeNetwork
Generator                job_dataset_generator/main.c
Toolchain                generator | sort -n | csim; composes Generator and Program
```

`MC*` modules give the constants of an instance. `*Theorems` modules hold the
proofs. Operators whose comment begins with "Mutant" are faulty variants of the
definition that follows them: they document which bug each property excludes and
appear in no behaviour.

**Node.** `occupation[n]` is `node_t.occupation`: `mem` and `cpu_threads` are
what is *free*. `CheckNodeForJob` is the whole of the first half of
`cluster_check_node_for_job` (the second half, the check "as if the node were
empty", is called by the priority scheduler only). The two loops of
`cluster_put_job_to_node` are one definition: both hand out `Want(j)` blocks of
`Unit(j)` threads and go to the next core when the block no longer fits, with
single threads when `cpu_count = 0` and `thread_count` threads a block otherwise.
`BlocksOn` is what core c gets, from the blocks left when the loop arrives.
`FreedByCores` and `FreedByThreads` are the two loops of
`_free_node_resources`. The second one keeps `t` where it should keep
`job_thread_count - t` (`remove_job_from_node.c:64-74`), and so does
`LeftToFree`; `t` is unsigned and `UsedOn` wraps at `SizeModulus`.
A loop that runs past the array is recorded in `overrun`. What it reads there is
heap memory behind the allocation; in the build the words it changes belong to no
modelled field, so the rest of the state is as if the loop had ended.
The linked list `node_t.jobs` is the set of jobs assigned to the node.
`_evaluate_time_before_start` draws its delay from `StartDelays`.

**NodeClient** is the most general client: put any job that the check accepts,
remove any job, in any order (`PutJob`, `RemoveJob`). What holds there holds under
every scheduler.

**MomentList, JobSequence.** A moment is `[time, jobs]`. `LessEqualMoment` is the
scan of `_get_less_equal_moment` with all its ways out, the one that returns the
last moment although it is later among them. A job is the number of its line, and
`ParseLine` is one turn of the loop over the lines. Fields read before they are
written (`job_list_head` of a new moment, `sched_info`) are modelled as NULL:
nothing has been freed when datasets are loaded, and fresh pages are zero.

**NodeNetwork.** The file is a sequence of lines of four kinds: `bus`, `p2p`,
`other` (any other line with a space in it, a node's among them) and `bare` (one
without a space, where `strchr` returns NULL). The kind counts only where an
interconnect is expected; where a node is expected, every line with a space makes
one. A node is the number of the line it was made from. `read_lines` survives a
`p2p` line, as in the code, and is added to `node_count` at the top of the next
turn, the one that meets the end of the file included. `il->next` is never set by
the code; no memory used before is handed out while the list grows, so it is NULL.
`_populate_node_registry` is `AllocateRegistry`, then one `RegisterNodes` for every
interconnect (`cons`) with its inner loop over the nodes (`registered` is the code's
`n`), then `AllRegistered`: the count that sizes the array and the loop that fills it
are different code, and the proofs are about how the two meet. An entry of the
registry that nobody wrote is `Stray`, and reading it goes astray.

**RoundRobin** ends where the code ends. The first tick hands over at most one
moment, the one of time 0, and the call after it reads `running->next` with
`running = NULL` (`schedule_round_robin.c:34`). `_place_by_wait_time` and
`_place_by_priority` are modelled with the chain and with `prev`, which one way
through them leaves unset. What stands behind that call is unreachable.

**Program.** `unset` are the pointers of `cluster_t` that still hold what was on
the stack: using one goes on by chance or crashes, and both are steps.
`DestroyJobs`, `DestroyConnections`, `DestroyRegistry` and `DestroyScheduler`
free blocks of memory, named by what they hold; `misused` records a block freed
twice. `InitScheduler` takes any status from `init_priority`, which returns none.
For FIFO, backfill and priority the simulation is one step here, since the modules
over `Cluster` are about it; that step may crash where loading left something the
simulation cannot work with (`Unworkable`).

**Generator.** A word of the command line is `[text, value]`, its text and what
`atoll` makes of it. `TakeFlag`, `TakeFileName`, `TakeNumber`, `TakeRange` are the
branches of `interpret`; a missing second bound is `atoll(NULL)`. Numbers are
kept modulo `W32` or `W64`, as their types are, and `Drawn` follows the
subtraction, the modulo, the addition and the `%u` that prints a long by its lower
half. `fopen` refuses (`"wx"`), truncates (`"w"`) or fails on a locked file.

**Toolchain** starts either from a user's files (`CsimWorlds`) or from a command
line of the generator (`PipelineWorlds`), whose lines `Feed` hands to csim, as
they are or in any order that is sorted by moment: `sort` is external, and its
order among equal moments is not relied on.

**Cluster.** One action per turn of each loop, with `pc` for the place in the
program: `loop`, `distribute`, `schedule` (and the scheduler's own), `moment`,
`job`, `nodes`. `cluster_update_job` is one action per way through it:
`AlreadyDone`, `KeepWaiting`, `Expire`, `CountDown`, `Run`, `Complete`. An action
contains everything its way changes, down to the removal from the node and the
counters. `jseq` is an index where the code has a pointer. Running averages are
floating point and are left out, but for the sample count that decides the
division in `simulate.c:152`. `exec_rate` is what `(quantum_t)` leaves of it.

**SchedFifo.** `queue` is the chain from `q->h` to `q->t`, `cursor` is `q->c`,
`c` the local of `schedule_fifo`. Skipping assigned jobs, storing the cursor and
each turn of the walk are actions of their own.

**SchedBackfill.** `queue` is the chain from `s->state`; insertion by wait time,
then priority, follows `_place_by_wait_time` and `_place_by_priority` branch by
branch. `FoldCores` is the rewriting of a job's demand in `distribute_backfill`.

**SchedPriority.** The chain is kept as pointers (`sched_info`, `by_priority`),
with one action per turn of the loops of `_place_job_by_priority` and
`schedule_priority`, because its cells are set one by one and not always to what a
queue needs. `NodeBySpeed` is the list that `init_priority` leaves the scheduler
in `node_by_speed`: what is inserted before the first node is not on it. It reads
`n[0]` whatever the number of nodes is, hence `PriorityAssumption`. `min_time_to_free` comes out
as 0 in every tick, whatever runs (`priority_urgent` shows that it is not the time it
is declared to be), so no job is ever urgent; the urgent queue, preemption and
`_place_job_by_wait_time` are unreachable and are not modelled. The guards of
`Enqueuing` and `PassOver` would turn a step that did reach them into a deadlock,
which `priority_queue` looks for. `init_priority` returns no value; the module
holds the behaviours in which its caller reads 0. Rates are naturals, so rates that
differ by a fraction are equal here.

**ClusterContract** is what a user of the simulator relies on: jobs are placed at
most once, where features, memory and threads suffice, and end exactly once. It
has no ticks, queues, cores or counters. `SchedFifo!ImplementsContract` states the
refinement: `host <- assigned_node`, `outcome` from `is_done` and `is_complete`.
The contract counts a node's *real* threads, not those that `occupation` shows.

## 3. Runs

| run | shows | instance |
|---|---|---|
| `node_multi_core` | memory balances, threads are never promised twice in total, put stays in the array; on a node of one core free threads are exact and release stays in the array too | 3 jobs of any of 7 shapes (both meanings of `cpu_count`), nodes of 2x3, 3x2 and 1x5 threads: releases drift on the first two |
| `node_free_threads` | **violated**: free threads drift on several cores | 3 jobs of 6 shapes, the two nodes of several cores |
| `node_distinct_cores` | **violated**: a job asking for k cores is packed onto fewer | the same |
| `toolchain` | every line once, line order kept, moments never swapped, sorted if the earliest line is first; the registry is the file and never overflows, unwritten entries come from `p2p` lines; round robin's queue holds its moment, sorted behind its head and only by luck from its head on; sound inputs end well; nothing is freed twice, and what is released at the end; the generator's bounds, features and files; the sorted pipeline fits the simulator | see below |
| `program_failure` | **violated**: a dataset that cannot be loaded crashes the program instead of being reported | as `toolchain` |
| `fifo_contract` | the simulation under FIFO: nothing lost, revived, counted twice; waiting is age; stalled nodes are idle, and their average has a divisor when the loop ends; work conserving; no preemption; FIFO implements the contract, jobs end, the loop ends | 3 jobs of any of 5 shapes under every order of 3 moments whose first line is the earliest, and of any of 5 more shapes (both meanings of `cpu_count`, a waiting limit of 0, no memory) under 3 patterns; nodes of 2 cores and of 1, with different rates, a feature, a random delay |
| `fifo_unsorted` | **violated**: an earlier second line is never distributed | 3 equal jobs at moments 2, 0, 3 |
| `backfill_queue` | the queue is whole, work conserving, folding keeps demand, the loop ends | 4 jobs of any of 4 shapes, 4 patterns of moments, nodes of 2 cores and 1 core |
| `backfill_zombie` | **violated**: an expired job is put on a node and stays | 3 jobs, one node |
| `priority_queue` | the queue stays in order, its head is served, the loop ends, and nothing would have to go to the urgent queue | 5 jobs of any of 4 shapes, one in every moment, 2 patterns of moments, 3 nodes of which the fastest is not listed |
| `priority_moment` | **violated**: two jobs of a moment behind a single waiting job close the queue to a circle | 4 jobs, the last two in one moment, one node |
| `priority_urgent` | **violated**: while jobs run, the time after which something becomes free is not the least time one of them has left, but 0 | as `priority_queue` |

The inputs of `toolchain`: all job datasets of five lines over four moments, so
that every place of the list is inserted at and the scan meets unsorted lists;
four jobs of one moment with every mix of three priorities, for round robin; all
cluster datasets of up to three lines of seven kinds under every scheduler, those
of four lines, and longer ones in which `read_lines` of one bus meets the next;
missing and empty files in every combination; and lists of the generator's
options: what is counted, where it goes on which disk, which bounds (regular,
empty, reversed, negative, wider than 32 bits), which features, and lists that
are cut short. `W32 = 2048` is the smallest power of two above the default of
1024 for `--mem`; `W64 = 65536` is far enough above it that a 64-bit value loses
its upper half in print; `RandMax` is below both, as RAND_MAX is.

Bounds. Nothing is cut off inside a run: there is no state constraint, and every
behaviour of an instance is finite because every job ends by `max_wait_time` or
`estimated_time` (`priority_moment` apart, where the circle is the point).
`priority_queue` takes one job in every moment because the order of the queue and
the end of the loop hold only there: with two the code goes wrong, as
`priority_moment` shows. Five jobs are the fewest with which a queue of three is
walked past its second job while another holds a node. Three jobs are the fewest
with which one holds a node, one waits and one arrives behind; two nodes are the fewest on which "first that
fits" matters; two and three cores the fewest on which the carry of the release
loop goes wrong once and twice. In the instances a job that fits no node, one
that fits only one, and one whose waiting time is one tick are always among the
shapes, so that expiry, delayed start and completion all meet. `SizeModulus = 64`
stands for 2^w: it is above every number of threads, which is all
`NodeAssumption` asks for.

No symmetry set is used: jobs are ordered by line and nodes by registry. In
`node_multi_core` a client takes jobs in any order, so of the tables that differ
by a permutation of the jobs one is given.

Fairness. `FairSpec` adds `WF_vars(Next)`: the program is a single thread that
never blocks, so it takes its next step. Nothing more is assumed; random delays
are bounded by the dataset. `toolchain` states safety only: its
loops are over files, and the simulation in it is a single step that returns. So
`SoundInputsEndWell` is about loading, dispatch and return; that a simulation ends is
`Terminates`, run by run, and that the release loop stays in the array is
`ExactOnOneCore`, for nodes of one core.

Deadlock is checked in every run; the ended programs stutter in `Terminated` and in
`Ended`, and in these instances a client of the nodes always has a job to put or to
remove.

## 4. Findings

Each violated run has its finding in `PROJECT.json`, with the line of
documentation it contradicts. More differences were seen while modelling and
have no run of their own:

- `schedule_algorithms.h:10` calls FIFO "FCFS", but a job that fits nowhere is
  passed over and later ones are put (`schedule_fifo.c:40`).
- The cursor is kept "so as not to walk over finished jobs" (`schedule_fifo.c:29`)
  but rests on a job that expired without a node for good.
- `max_exec_time` (`README.md:10`) is parsed and never enforced: `update_job.c:43`
  compares with `estimated_time` only.
- `max_wait_time = 0` is never reached by `==` (`update_job.c:34`) once the job is
  on a node; it waits out any start delay. `WaitBound` says so.
- Backfill's queue is not "sorted by wait time, then priority"
  (`schedule_backfill.c:74`): on equal times the head is never compared by
  priority, and `_place_by_priority` runs on into jobs with longer waits.
- The priority queue loses its tail: `schedule_priority.c:111` advances `rest`
  before `prev_rest` takes it, so a job put behind one that fits nowhere is
  unlinked from itself. It stays in the queue and every job behind it waits in no
  queue until it expires.
- `init_priority` keeps the head that `_place_node_by_speed` returns in a local only
  (`schedule_priority.c:140`): a node at least as fast as the first one is
  usually inserted before it and is never used.
- The scheduler is called preemptive with an EDF queue (`schedule_algorithms.h:11`),
  but preemption is dead code with the urgent queue: see `priority_urgent`.
- `init_priority` ends without a return statement, and `cluster_init` takes what
  it finds for a status: whether the simulation starts is up to the compiler.
- Round robin crashes in its first call (`schedule_round_robin.c:34`), and again in
  its destroy if there was no job, though it is offered like the others.
- Its queue is not "sorted by wait time, then priority" (`schedule_round_robin.c:100`):
  `_place_by_wait_time` compares the head with itself (line 259), so the first line
  of the moment stays in front however urgent the others are.
  `QueueSortedBehindHead` says when the comment comes true: if and only if that line
  is as urgent as any other.
- A `p2p` line makes no node and has no case (`node_network_from_dataset.c:116`):
  as the first interconnect it fails the load, after a bus it adds that bus's nodes
  to `node_count` once more.
- `lineno` in the loader's messages does not count the lines of the interconnects
  (`node_network_from_dataset.c:98`).
- A bus with equal delays is accepted and divides by zero when a job is put
  (`put_job_to_node.c:89`).
- `cluster_destroy` leaves the jobs of the last moment and the nodes of the last
  connection (`destroy.c:46`, `:76`); `ReleasedOnce` says exactly what is released.
- The generator's help asks for `--priority <min-p> <max-p>` (`main.c:273`), but the
  difference is taken the other way round (`main.c:91`): with the smaller bound first
  it wraps, and what is drawn lies above the larger bound, up to RAND_MAX and beyond.
  The default, 9 and 0, is in the order that works; `LinesInBounds` takes the bounds
  as the code does.
- A dataset without jobs divides 0 by 0 for both averages (`simulate.c:131`, `:152`).
- The generator excludes the upper bound of each range (`main.c:83-91`), prints
  64-bit values by `%u`, and with `-r` has emptied the old file before an empty
  range divides by zero.
- `defs.h:78-81` defines no `__COLD`, which the headers use: the sources compile
  with `-D__COLD=` only.

Also: an `exec_rate` below 1 truncates to 0 and the simulation never ends.

## 5. Proofs

All theorems are about the specifications the runs check, for every value of the
constants that satisfies the named assumptions:

- `NodeAssumption`: node records are of the right type, `delay_min < delay_max`
  where there is a random delay (else `rand() % 0`), a node's `thread_count` is
  below 2^w.
- `JobTablesAssumption`: the job tables are tables of jobs.
- `DatasetsAssumption`: a loaded dataset has no empty moment and each job in one
  place. That the sequencer delivers this is the theorem `EachLineIsPlacedOnce`.
- `PriorityAssumption`: the cluster has a node; `init_priority` reads the first.
- `GeneratorAssumption`: the widths are ordered as the types are, RAND_MAX is below
  2^32, and `rand` answers what it may.
- `WorldsAssumption`: the types of the files, words, disks and arguments of a user.
  Nothing is assumed about the order or the sense of the lines and words.

Two theorems of each scheduler, that a job's wait is its age and that a moment is
handed over in its tick, take the hypothesis `AscendingDatasets`: the moments ascend. That is what the sequencer makes of a file whose first line is the earliest
(`EarliestFirstSorts`), and what the pipeline of the README always delivers
(`SortedPipelineIsServed`). Without it both are false: `fifo_unsorted` shows how.

`PriorityKeepsItsOrder` takes `LoneDatasets`, one job in every moment: with two the
property is false, as `priority_moment` shows.

Every safety property of every passing run is stated by one of the theorems below.

**Data** (`DataTheorems`). Sums over disjoint sets, adding, removing, changing one value,
monotony; the least element of a set of naturals; what `InsertAt` and `Min` of the
community modules return. A sum is the cardinality of a set of units, so its facts are
facts about finite sets and need no induction. The least element stands for
induction in all modules: of a property of the naturals, the least counterexample is
one step behind something that has the property.

**Nodes** (`NodeTheorems`, lemmas on one put or remove, used by all below;
`NodeClientTheorems`).

| theorem | argument |
|---|---|
| `TypeCorrect` | inductive; no core goes below zero because a core is given at most `free \div Unit` blocks, and no release takes threads |
| `MemoryBalances` | inductive with the types |
| `PutStaysInBounds` | k cores with a free block hold at least k blocks |
| `ThreadsNeverOvercommitted` | inductive: what a node promises, the threads shown free on its cores and those its jobs hold, is moved by a put and never raised by a release, though a release does not return them to the cores they came from. What the put hands out in all is found by least counterexample over the cores |
| `OneCoreStaysExact` | needs `CoresSuffice` (no job is on a node with fewer cores than it asked for), which makes the release loop of one core return what the put took |

**The simulator** (`ClusterTheorems`, lemmas on a step of the simulator, used for
every scheduler): it keeps the types; it puts no job on a node and takes one off only
by ending it; it keeps the accounts of the nodes (`Accounts`), the counters, the
bound on waiting, and, on ascending moments, that ages are exact (`AgeInv`: the memo
`is_everything_done` is true, and what the break of `simulation_step.c:21` leaves
out has not begun) and that due moments were taken (`DueWereTaken`).

**FIFO** (`SchedFifoTheorems`).

| theorem | argument |
|---|---|
| `FifoTypeCorrect` | with `Loaded`: the cursor is a position of the queue because no moment is empty |
| `FifoMakesNoZombie`, `FifoNeverPreempts` | from `FifoStep`: jobs are put only while open, and being done is for good |
| `FifoLosesNoJob`, `FifoConservesWork` | the inductive invariant is `NoJobLost /\ SkipsNone /\ WalkLeavesNone`. The cursor may pass a job only while it is on a node, and a job that leaves its node is done; so what is behind the cursor never waits. A job passed by the walk fits no node, and putting another makes no room (`PutMakesNoRoom`) |
| `FifoQueueIsDistributed` | each job has one place in the moments (`OnePlace`), so linking a moment to the tail doubles nothing |
| `FifoKeepsNodesExact`, `FifoCountsExactly`, `FifoBoundsWaits` | the lemmas on the simulator, and that FIFO puts an open job that the check accepts |
| `FifoStallsIdleNodes` | the count of stalled nodes is taken in one step at the end of the tick, and memory balances |
| `FifoStallAverageDefined` | `EndsCounted`: the loop ends only when the counter is at the number of jobs. The counter is exact, so all jobs are done, none is on a node, and every node is stalled. It is the last tick's own update that makes it so: the divisor would be 0 on a cluster that was busy throughout if the last jobs were taken off a tick later |
| `FifoReleasesOnTime`, `FifoCountsEveryTick` | `DueWereTaken`; `AgeInv` |
| `FifoKeepsContract` | the safety part of the refinement: a step of FIFO maps to a step of `ClusterContract` or to a stutter. The contract counts real threads, so it rests on `ThreadsNeverOvercommitted`'s argument and on features and memory being checked before each put |

**Backfill** (`SchedBackfillTheorems`).

| theorem | argument |
|---|---|
| `BackfillTypeCorrect` | the demands rewritten by `FoldCores` included |
| `BackfillKeepsQueueWhole` | `WholeInv`: with it, that what has started was handed over. `_place_by_wait_time` and `_place_by_priority` insert at one place, wherever it is, and `Start` removes one |
| `BackfillConservesWork` | as under FIFO |
| `BackfillFoldsSafely` | a job's demand is rewritten when it is handed over, and no job is on a node before that |
| `BackfillKeepsNodesExact`, `BackfillCountsExactly`, `BackfillBoundsWaits`, `BackfillStallsIdleNodes`, `BackfillNeverPreempts`, `BackfillReleasesOnTime`, `BackfillCountsEveryTick` | the lemmas on the simulator, also for the jobs that are done and put all the same (`backfill_zombie`) |

**Priority** (`SchedPriorityTheorems`), all but the last whatever the chain has become,
also where a moment of several jobs closes it to a circle.

| theorem | argument |
|---|---|
| `PriorityTypeCorrect` | no pointer that is NULL is followed. The list of nodes is a recursive function: that it satisfies its equation is proved first, since TLAPS takes it for a CHOOSE |
| `PriorityServesItsHead` | `HeadPassed`: while `prev_rest` is NULL the walk is at the head, and when it has left the head the head fits nowhere; puts make no room |
| `PriorityKeepsNodesExact`, `PriorityCountsExactly`, `PriorityBoundsWaits`, `PriorityStallsIdleNodes`, `PriorityNeverPreempts`, `PriorityReleasesOnTime`, `PriorityCountsEveryTick` | the lemmas on the simulator |
| `PriorityKeepsItsOrder` | `OrderInv`: the pointers lead over some sequence of different jobs, ascending in priority, all of them handed over; a job that is still ahead points nowhere (`AheadIsFree`), which is what `PlaceBehindOnly` relies on; while a job is placed `plist` stands between two jobs of it; on the walk `prev_rest` is NULL at the head and `rest` itself behind it, so that `Unlink` takes off the head or cuts the sequence. `Link` is then shown to walk over that sequence: its recursion has that solution, and no other by least counterexample |

**Loading, the program, the generator, the pipeline** (`ToolchainTheorems`).

| theorem | argument |
|---|---|
| `MomentsHaveTheirOwnTime` | not inductive alone: in an unsorted list the scan could stop before the moment it looks for. `GapsClosed` strengthens it: no gap between two moments in order would take a moment that stands further on |
| `MomentsKeepTheLineOrder`, `EachLineIsPlacedOnce` | `LinesHeld`: a line is in the list, under its moment, if and only if it was read; every way of adding puts it behind the others of its moment, or in a moment of its own |
| `EarliestFirstSorts` | the head keeps the first line's moment, so none is earlier and each new one is inserted in place |
| `MomentsNeverSwap` | every way of adding keeps the order of the places |
| `RegistryHasRoom` | `NetInv`: `node_count` is at least the number of nodes made, and the entries written so far are those of the interconnects before `cons`; so the array has room although another loop sized it. If no `p2p` line was read the two are equal |
| `RegistryListsTheFile` | `FileInv`: the buses and their nodes tile the file, each header `1 + nodes` lines before the next; so what the turns copy, in order, is every node line of the file |
| `SoundInputsAreServed` | `EndInv`: the pointers of `cluster_t` are set in the order of the program's places, so with sound files none that is still unset is used |
| `EveryBlockIsReleasedOnce` | `Released` says at each place of `destroy.c` what was freed; the blocks of jobs and nodes are apart because every line is in one place |
| `GeneratorStaysInBounds` | with the types and widths of the options: bounds in order make the unsigned difference the true one, a remainder below it added to the base stays below the top, and what fits 32 bits is printed whole |
| `GeneratorTouchesAskedFiles` | `FilesAsked`: the flag and the name come from words that were typed, wherever they stand in the command line |
| `RoundRobinSortsBehindHead` | `QueueInv`: the insertion sort behind a head that never moves, turn by turn, with `prev` right or unset at the head only |
| `SortedPipelineIsServed` | `PipelineInv`: the lines fed to csim are those drawn, in an order that is sorted, so the first is the earliest |
| `ToolchainTypeCorrect` | `TypeInv`, which takes the invariants above: the registry, the queue and the places in the loops have their types because of how many lines were read |

Model-checked only:

- *Liveness* (`Terminates` under each scheduler; in `ImplementsContract`, that every
  job ends): the provers have no ENABLED.
- The violated runs need no proof: a counterexample is one.

What a recursive definition computes over all data cannot be stated as an induction
here. The models therefore say what such a loop computes in closed form (sums, least
elements, sets of places) wherever the proofs need it. `NodesUpTo` and `Link` of the
priority scheduler are the recursive functions left: of the first it is proved that
it lists nodes of the cluster, not in which order.

## 6. Not modelled

- Printing changes no state.
- Reservations (`reserve_job_on_node.c`): nothing calls `cluster_reserve_job_on_node`,
  so the list of reservations is empty and the loop of `update_node.c:105-132`
  does nothing.
- `fit_job.c` and `get_total_time_for_job.c` are called by nothing, and neither are the
  `_start` variants of the two loaders, which would start a thread.
- The loops of `schedule_round_robin.c` behind the crash of its first call, and
  the urgent queue and preemption of `schedule_priority.c`, are unreachable.
- Parsing of the fields of a line is left out: a job or node is a record of its
  numbers. Averages are floating point. `max_exec_time` is read by no step.

## 7. Plan

1. `NodeJobList`: the doubly linked list `node_t.jobs` as pointers (put in front,
   remove from anywhere), implementing the set `JobsOn`.
2. The safety part of the contract for the priority scheduler with one job a
   moment: what `backfill_zombie` shows of backfill, that it puts a job that is
   done, priority does as well, so it holds without that clause only.
3. The order of `NodeBySpeed`.
