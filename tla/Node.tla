-------------------------------- MODULE Node --------------------------------
(***************************************************************************)
(* The resources of the nodes of a cluster, and the three functions that   *)
(* every scheduler uses to share them out: cluster_check_node_for_job,     *)
(* cluster_put_job_to_node and cluster_remove_job_from_node.               *)
(*                                                                         *)
(* Nodes are numbered in the order of cluster_t.node_registry and jobs in  *)
(* the order of the lines of the job dataset.  A record job[j] holds the   *)
(* fields of job_t that the simulation never changes after loading.  The   *)
(* linked list node_t.jobs is the set JobsOn(n): only printing walks it.   *)
(***************************************************************************)
EXTENDS Integers, FiniteSets, Sums

CONSTANTS
  NodeCount,    \* cluster_t.node_count
  JobCount,     \* cluster_t.job_count
  Features,     \* the bits of feature_mask_t
  NodeSpec,     \* what the cluster dataset says of each node and its bus
  SizeModulus   \* 2^w for the width w of size_t

NULL  == 0
Nodes == 1..NodeCount
Jobs  == 1..JobCount

NodeSpecType ==
  [features : SUBSET Features, mem_size : Nat, cpu_count : Nat,
   thread_count : Nat, exec_rate : Nat, response_time : Nat,
   response_time_variance : Nat, delay_min : Nat, delay_max : Nat]

JobType ==
  [required_features : SUBSET Features, mem_size : Nat, cpu_count : Nat,
   thread_count : Nat, estimated_time : Nat, max_exec_time : Nat,
   max_wait_time : Nat, priority : Nat]

(***************************************************************************)
(* delay_min = delay_max # 0 makes rand() % 0, and a minimum above the     *)
(* maximum a wrapped modulus; neither dataset is considered here.          *)
(***************************************************************************)
ASSUME NodeAssumption ==
  /\ NodeCount \in Nat
  /\ JobCount \in Nat
  /\ NodeSpec \in [Nodes -> NodeSpecType]
  /\ SizeModulus \in Nat \ {0}
  /\ \A n \in Nodes : /\ NodeSpec[n].delay_max # 0 =>
                           NodeSpec[n].delay_min < NodeSpec[n].delay_max
                      /\ NodeSpec[n].thread_count < SizeModulus

VARIABLES
  job,               \* job_t: the constant fields of every job
  assigned_node,     \* job_t.assigned_node, a node or NULL
  time_before_start, \* job_t.time_before_start
  occupation,        \* node_t.occupation: what is FREE on every node
  overrun            \* which loops over cpu_threads left the array

nodeVars == <<assigned_node, time_before_start, occupation, overrun>>

Cores(n)      == 0..(NodeSpec[n].cpu_count - 1)
JobsOn(n)     == {j \in Jobs : assigned_node[j] = n}
FreeMem(n)    == occupation[n].mem
CpuThreads(n) == occupation[n].cpu_threads

OccupationType(n) == [mem : Nat, cpu_threads : [Cores(n) -> Nat]]

\* What node_network_from_dataset gives a fresh node: everything is free.
EmptyOccupation ==
  [n \in Nodes |-> [mem         |-> NodeSpec[n].mem_size,
                    cpu_threads |-> [c \in Cores(n) |-> NodeSpec[n].thread_count]]]

NodeInit ==
  /\ assigned_node     = [j \in Jobs |-> NULL]
  /\ time_before_start = [j \in Jobs |-> 0]
  /\ occupation        = EmptyOccupation
  /\ overrun           = {}

NodeTypeOK ==
  /\ job \in [Jobs -> JobType]
  /\ assigned_node \in [Jobs -> Nodes \cup {NULL}]
  /\ time_before_start \in [Jobs -> Nat]
  /\ DOMAIN occupation = Nodes
  /\ \A n \in Nodes : occupation[n] \in OccupationType(n)
  /\ overrun \subseteq {"put", "release"}

-----------------------------------------------------------------------------
(***************************************************************************)
(* cluster_check_node_for_job                                              *)
(***************************************************************************)

\* Mutant: the threads of all cores count, as in the check "as if empty".
HasThreadsInTotal(j, n) ==
  job[j].thread_count * (IF job[j].cpu_count = 0 THEN 1 ELSE job[j].cpu_count)
    <= SumOver(CpuThreads(n), Cores(n))

\* A job with cpu_count = 0 may spread its threads over any cores; one with
\* cpu_count = k wants k cores that each have all its threads free.
HasAvailableThreads(j, n) ==
  IF job[j].cpu_count # 0
    THEN job[j].cpu_count <=
           Cardinality({c \in Cores(n) : job[j].thread_count <= CpuThreads(n)[c]})
    ELSE job[j].thread_count <= SumOver(CpuThreads(n), Cores(n))

CheckNodeForJob(j, n) ==
  /\ job[j].required_features \subseteq NodeSpec[n].features
  /\ job[j].mem_size <= FreeMem(n)
  /\ HasAvailableThreads(j, n)

-----------------------------------------------------------------------------
(***************************************************************************)
(* cluster_put_job_to_node                                                 *)
(*                                                                         *)
(* Both loops hand out Want(j) blocks of Unit(j) threads, and move to the  *)
(* next core only when a block no longer fits on the current one: single   *)
(* threads when cpu_count = 0, blocks of thread_count threads when not.    *)
(***************************************************************************)
Unit(j) == IF job[j].cpu_count = 0 THEN 1 ELSE job[j].thread_count
Want(j) == IF job[j].cpu_count = 0 THEN job[j].thread_count ELSE job[j].cpu_count

\* The threads job j holds while it is on a node.
ThreadsOf(j) == Unit(j) * Want(j)

Slots(j, n) == [c \in Cores(n) |-> CpuThreads(n)[c] \div Unit(j)]

\* The blocks still to be placed when the loop arrives at core c.
LeftAt(j, n, c) == Want(j) - SumOver(Slots(j, n), 0..(c - 1))

\* Mutant: the core the loop is at takes all that is left.
BlocksOnUncapped(j, n, c) ==
  IF LeftAt(j, n, c) <= 0 THEN 0 ELSE LeftAt(j, n, c)

BlocksOn(j, n, c) ==
  IF LeftAt(j, n, c) <= 0 THEN 0
  ELSE IF LeftAt(j, n, c) <= Slots(j, n)[c] THEN LeftAt(j, n, c)
  ELSE Slots(j, n)[c]

ThreadsAfterPut(j, n) ==
  IF Unit(j) = 0
    THEN CpuThreads(n)
    ELSE [c \in Cores(n) |-> CpuThreads(n)[c] - Unit(j) * BlocksOn(j, n, c)]

\* The loop has no bound on c: with too few blocks it runs past the array.
PutOverruns(j, n) ==
  Unit(j) # 0 /\ SumOver(Slots(j, n), Cores(n)) < Want(j)

\* _evaluate_time_before_start: response_time, plus a random bus delay.
StartDelays(n) ==
  IF NodeSpec[n].delay_max = 0
    THEN {NodeSpec[n].response_time}
    ELSE {NodeSpec[n].response_time + d :
            d \in NodeSpec[n].delay_min..(NodeSpec[n].delay_max - 1)}

\* Mutant: a job that is on a node already is put on another.
PutAgain(j, n) ==
  /\ assigned_node' = [assigned_node EXCEPT ![j] = n]
  /\ \E delay \in StartDelays(n) :
       time_before_start' = [time_before_start EXCEPT ![j] = @ + delay]
  /\ occupation' = [occupation EXCEPT
       ![n] = [mem         |-> FreeMem(n) - job[j].mem_size,
               cpu_threads |-> ThreadsAfterPut(j, n)]]
  /\ overrun' = overrun \cup (IF PutOverruns(j, n) THEN {"put"} ELSE {})

PutJobToNode(j, n) ==
  IF assigned_node[j] # NULL
    THEN UNCHANGED nodeVars
    ELSE /\ assigned_node' = [assigned_node EXCEPT ![j] = n]
         /\ \E delay \in StartDelays(n) :
              time_before_start' = [time_before_start EXCEPT ![j] = @ + delay]
         /\ occupation' = [occupation EXCEPT
              ![n] = [mem         |-> FreeMem(n) - job[j].mem_size,
                      cpu_threads |-> ThreadsAfterPut(j, n)]]
         /\ overrun' = overrun \cup (IF PutOverruns(j, n) THEN {"put"} ELSE {})

-----------------------------------------------------------------------------
(***************************************************************************)
(* cluster_remove_job_from_node and _free_node_resources                   *)
(*                                                                         *)
(* The job does not remember which cores it was given, so its threads are  *)
(* handed back by a scan from core 0.                                      *)
(***************************************************************************)

\* cpu_count # 0: the first cpu_count cores with room for thread_count more
\* get thread_count back; when there are fewer of them the rest is lost.
HasRoom(j, n, c) ==
  CpuThreads(n)[c] + job[j].thread_count <= NodeSpec[n].thread_count

FreedByCores(j, n) ==
  [c \in Cores(n) |->
     IF /\ HasRoom(j, n, c)
        /\ Cardinality({d \in 0..(c - 1) : HasRoom(j, n, d)}) < job[j].cpu_count
       THEN CpuThreads(n)[c] + job[j].thread_count
       ELSE CpuThreads(n)[c]]

\* Mutant: the free threads of a core taken for the used ones.
FreeOn(n, c) == CpuThreads(n)[c]

\* cpu_count = 0: t, the threads in use on core c, an unsigned difference.
UsedOn(n, c) ==
  (NodeSpec[n].thread_count - CpuThreads(n)[c]) % SizeModulus

\* Mutant: what a core took back is not subtracted.
NothingSubtracted(j, n, c) == job[j].thread_count

\* job_thread_count when the loop is at core c: after a core that cannot
\* take everything back it is that core's t, for it gives left - t to the
\* core and keeps t for the next one.
LeftToFree(j, n, c) == IF c = 0 THEN job[j].thread_count ELSE UsedOn(n, c - 1)

\* The loop goes past core c only from a core whose t is below what is left.
GoesPast(j, n, c) == LeftToFree(j, n, c) > UsedOn(n, c)

Reaches(j, n, c) == \A d \in 0..(c - 1) : GoesPast(j, n, d)

FreedByThreads(j, n) ==
  [c \in Cores(n) |->
     IF ~Reaches(j, n, c) THEN CpuThreads(n)[c]
     ELSE IF GoesPast(j, n, c)
       THEN CpuThreads(n)[c] + (LeftToFree(j, n, c) - UsedOn(n, c))
       ELSE CpuThreads(n)[c] + LeftToFree(j, n, c)]

ReleaseOverruns(j, n) ==
  /\ job[j].cpu_count = 0
  /\ Reaches(j, n, NodeSpec[n].cpu_count)
  /\ LeftToFree(j, n, NodeSpec[n].cpu_count) # 0

\* Mutant: the memory is given back only with whole cores.
FreeMemoryOfCores(j, n) ==
  /\ occupation' = [occupation EXCEPT
       ![n] = IF job[j].cpu_count # 0
                THEN [mem         |-> FreeMem(n) + job[j].mem_size,
                      cpu_threads |-> FreedByCores(j, n)]
                ELSE [mem         |-> FreeMem(n),
                      cpu_threads |-> FreedByThreads(j, n)]]
  /\ overrun' = overrun \cup (IF ReleaseOverruns(j, n) THEN {"release"} ELSE {})

FreeNodeResources(j, n) ==
  /\ occupation' = [occupation EXCEPT
       ![n] = [mem         |-> FreeMem(n) + job[j].mem_size,
               cpu_threads |-> IF job[j].cpu_count # 0
                                 THEN FreedByCores(j, n)
                                 ELSE FreedByThreads(j, n)]]
  /\ overrun' = overrun \cup (IF ReleaseOverruns(j, n) THEN {"release"} ELSE {})

RemoveJobFromNode(j) ==
  IF assigned_node[j] = NULL
    THEN UNCHANGED <<assigned_node, occupation, overrun>>
    ELSE /\ assigned_node' = [assigned_node EXCEPT ![j] = NULL]
         /\ FreeNodeResources(j, assigned_node[j])
-----------------------------------------------------------------------------
(*****************************************************************************)
(* What the accounting promises.                                           *)
(*****************************************************************************)
\* The memory of the jobs on a node and its free memory always make up the
\* node's memory: put_job_to_node.c:27 and remove_job_from_node.c:45 balance
\* in every order of puts and removals.
MemoryExact ==
  \A n \in Nodes :
    FreeMem(n) + SumOver([j \in Jobs |-> job[j].mem_size], JobsOn(n))
      = NodeSpec[n].mem_size

\* However threads are scattered over the cores, a node never promises more
\* threads than it has: the free threads and those of the jobs on it do not
\* exceed the total.  Releases may lose threads but never invent them, though
\* single cores may end up with more free threads than they have.
NeverOvercommitted ==
  \A n \in Nodes :
    SumOver(CpuThreads(n), Cores(n))
      + SumOver([j \in Jobs |-> ThreadsOf(j)], JobsOn(n))
      <= NodeSpec[n].cpu_count * NodeSpec[n].thread_count

\* The loops of cluster_put_job_to_node have no bound on c, and need none
\* after a successful check (put_job_to_node.c:11-12, 33-59).
PutInBounds == "put" \notin overrun

\* node.h:45-49 says of node_occupation_t that it shows how many resources
\* are FREE: the free threads are the node's threads less those of its jobs.
FreeThreadsExact ==
  \A n \in Nodes :
    SumOver(CpuThreads(n), Cores(n))
      + SumOver([j \in Jobs |-> ThreadsOf(j)], JobsOn(n))
      = NodeSpec[n].cpu_count * NodeSpec[n].thread_count
=============================================================================
