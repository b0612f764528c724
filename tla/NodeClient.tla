----------------------------- MODULE NodeClient -----------------------------
(***************************************************************************)
(* The most general scheduler: it puts any job on any node that            *)
(* cluster_check_node_for_job accepts, in any order, and jobs end at any   *)
(* time.  Whatever holds here of a node's resources holds under every      *)
(* scheduler that checks before it puts, whatever its queues look like.    *)
(***************************************************************************)
EXTENDS Node

CONSTANT JobTables   \* the datasets of jobs to consider

ASSUME JobTablesAssumption == JobTables \subseteq [Jobs -> JobType]

vars == <<job, nodeVars>>

Init == /\ job \in JobTables
        /\ NodeInit

\* The delay before a start is the business of module Cluster.
PutJob(j, n) ==
  /\ CheckNodeForJob(j, n)
  /\ assigned_node[j] = NULL
  /\ PutJobToNode(j, n)
  /\ UNCHANGED job

RemoveJob(j) ==
  /\ assigned_node[j] # NULL
  /\ RemoveJobFromNode(j)
  /\ UNCHANGED <<job, time_before_start>>

Next == \E j \in Jobs : (\E n \in Nodes : PutJob(j, n)) \/ RemoveJob(j)

Spec == Init /\ [][Next]_vars

-----------------------------------------------------------------------------
TypeOK == NodeTypeOK

OneCore(n) == NodeSpec[n].cpu_count = 1

\* On a node of one core, as those of example_cluster_dataset.txt, nothing
\* drifts: free threads are exact whatever happened (remove_job_from_node.c:48),
\* and the loop that gives them back never leaves the array, whichever job is
\* removed next (remove_job_from_node.c:61-75).
ExactOnOneCore ==
  /\ \A n \in Nodes : OneCore(n) =>
       CpuThreads(n)[0] + SumOver([j \in Jobs |-> ThreadsOf(j)], JobsOn(n))
         = NodeSpec[n].thread_count
  /\ \A j \in Jobs :
       assigned_node[j] # NULL /\ OneCore(assigned_node[j])
         => ~ReleaseOverruns(j, assigned_node[j])

\* README.md:16 and check_node_for_job.c:25: a job with cpu_count = k # 0
\* occupies thread_count threads on each of k cores.  PutJob takes those
\* threads from k different cores of the node.
PutTakesDistinctCores ==
  [][\A j \in Jobs, n \in Nodes :
       /\ assigned_node[j] = NULL
       /\ assigned_node'[j] = n
       /\ job[j].cpu_count # 0
       /\ job[j].thread_count # 0
       => Cardinality({c \in Cores(n) : CpuThreads(n)[c] # CpuThreads(n)'[c]})
            = job[j].cpu_count]_vars
=============================================================================
