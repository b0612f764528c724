---------------------------- MODULE MCNodeClient ----------------------------
(***************************************************************************)
(* Instances of NodeClient: three jobs whose shapes cover both meanings of *)
(* cpu_count, on nodes of several cores and on a node of one core.         *)
(***************************************************************************)
EXTENDS NodeClient

JobOf(features, mem, cpus, threads) ==
  [required_features |-> features, mem_size |-> mem, cpu_count |-> cpus,
   thread_count |-> threads, estimated_time |-> 1, max_exec_time |-> 1,
   max_wait_time |-> 1, priority |-> 0]

NodeOf(features, mem, cores, threads) ==
  [features |-> features, mem_size |-> mem, cpu_count |-> cores,
   thread_count |-> threads, exec_rate |-> 1, response_time |-> 0,
   response_time_variance |-> 0,
   delay_min |-> 0, delay_max |-> 0]

\* Every mix of these shapes: spread over cores, on one core, on two cores.
Shapes == {JobOf({}, 1, 0, 3), JobOf({}, 2, 0, 2), JobOf({}, 0, 1, 2),
           JobOf({}, 1, 2, 1), JobOf({}, 3, 2, 2), JobOf({"tpu"}, 1, 1, 1)}

MCJobTables == [Jobs -> Shapes]

\* A node with two cores of three threads and one with three cores of two.
MultiCoreNodes == <<NodeOf({}, 4, 2, 3), NodeOf({"tpu"}, 3, 3, 2)>>

\* One core more, in the shape of the nodes of example_cluster_dataset.txt.
MixedNodes == <<NodeOf({}, 4, 2, 3), NodeOf({"tpu"}, 3, 3, 2), NodeOf({}, 4, 1, 5)>>

\* A client takes jobs in any order, so tables that differ by a permutation of
\* the jobs are alike: one of each is enough.
Ranked == <<JobOf({}, 1, 0, 3), JobOf({}, 2, 0, 2), JobOf({}, 0, 1, 2), JobOf({}, 3, 1, 1),
            JobOf({}, 1, 2, 1), JobOf({}, 3, 2, 2), JobOf({"tpu"}, 1, 1, 1)>>

MixedTables ==
  {[j \in Jobs |-> Ranked[rank[j]]] :
     rank \in {r \in [Jobs -> DOMAIN Ranked] : \A i, k \in Jobs : i <= k => r[i] <= r[k]}}
=============================================================================
