----------------------------- MODULE SchedFifo -----------------------------
(***************************************************************************)
(* The simulator with the FIFO scheduler (schedule_fifo.c).                *)
(*                                                                         *)
(* The queue is the chain of sched_info from fifo_queue_t.h to .t.  Jobs   *)
(* are never taken out of it; q->c is the position of the first job that   *)
(* may still want a node.  Position NULL is the null pointer.              *)
(***************************************************************************)
EXTENDS Cluster

VARIABLES
  queue,    \* the jobs from q->h to q->t; s->state is NULL when it is empty
  cursor,   \* q->c
  c         \* the local c of schedule_fifo

fifoVars == <<queue, cursor, c>>
vars     == <<clusterVars, fifoVars>>

Init == /\ ClusterInit
        /\ queue = <<>>
        /\ cursor = NULL
        /\ c = NULL

\* Mutants: one past the tail, or back to the head.
FollowingPastTail(p) == p + 1
FollowingInCircle(p) == IF p < Len(queue) THEN p + 1 ELSE 1

\* c->sched_info
Following(p) == IF p < Len(queue) THEN p + 1 ELSE NULL

-----------------------------------------------------------------------------
\* Mutants: the tail is not linked to the new jobs; a cursor that has reached
\* the end stays there.
DistributeUnlinked ==
  \/ /\ MomentTaken
     /\ queue' = IF queue = <<>> THEN moments[jseq].jobs ELSE queue
     /\ cursor' = IF queue = <<>> THEN 1 ELSE cursor
     /\ UNCHANGED c
  \/ NoMomentDue /\ UNCHANGED fifoVars

DistributeBehind ==
  \/ /\ MomentTaken
     /\ queue' = queue \o moments[jseq].jobs
     /\ cursor' = IF queue = <<>> THEN 1 ELSE cursor
     /\ UNCHANGED c
  \/ NoMomentDue /\ UNCHANGED fifoVars

\* distribute_fifo
Distribute ==
  \/ /\ MomentTaken
     /\ queue' = queue \o moments[jseq].jobs
     /\ cursor' = IF cursor = NULL THEN Len(queue) + 1 ELSE cursor
     /\ UNCHANGED c
  \/ /\ NoMomentDue
     /\ UNCHANGED fifoVars

(***************************************************************************)
(* schedule_fifo: it returns at once before anything was distributed; then *)
(* it moves c over the jobs that are on a node and keeps it in q->c; then  *)
(* it walks the rest of the queue and puts what fits.                      *)
(***************************************************************************)
FifoFrame == UNCHANGED <<jobVars, statVars, datasetVars, everything_done, jl,
                         all_done, t, jseq, queue>>

NothingQueued ==
  /\ pc = "schedule"
  /\ queue = <<>>
  /\ StepStarts
  /\ FifoFrame /\ UNCHANGED <<nodeVars, cursor, c>>

StartSkipping ==
  /\ pc = "schedule"
  /\ queue # <<>>
  /\ c' = cursor
  /\ pc' = "skip"
  /\ FifoFrame /\ UNCHANGED <<nodeVars, jm, cursor>>

SkipAssigned ==
  /\ pc = "skip"
  /\ c # NULL
  /\ assigned_node[queue[c]] # NULL
  /\ c' = Following(c)
  /\ FifoFrame /\ UNCHANGED <<nodeVars, jm, pc, cursor>>

StoreCursor ==
  /\ pc = "skip"
  /\ c # NULL => assigned_node[queue[c]] = NULL
  /\ cursor' = c
  /\ pc' = "visit"
  /\ FifoFrame /\ UNCHANGED <<nodeVars, jm, c>>

\* _pick_node: the first node of the registry that the check accepts.
PickNode(j) ==
  CHOOSE n \in Nodes : /\ CheckNodeForJob(j, n)
                       /\ \A m \in 1..(n - 1) : ~CheckNodeForJob(j, m)

Visit ==
  /\ pc = "visit"
  /\ c # NULL
  /\ c' = Following(c)
  /\ FifoFrame /\ UNCHANGED <<jm, pc, cursor>>

\* Mutant: the walk ends at a job that fits nowhere.
StopAtMisfit ==
  /\ pc = "visit"
  /\ c # NULL
  /\ \/ is_done[queue[c]]
     \/ \A n \in Nodes : ~CheckNodeForJob(queue[c], n)
  /\ c' = IF is_done[queue[c]] THEN Following(c) ELSE NULL
  /\ FifoFrame /\ UNCHANGED <<jm, pc, cursor, nodeVars>>

PassOver ==
  /\ Visit
  /\ \/ is_done[queue[c]]
     \/ \A n \in Nodes : ~CheckNodeForJob(queue[c], n)
  /\ UNCHANGED nodeVars

\* Mutant: a job that is done is put all the same.
PutDone ==
  /\ Visit
  /\ \E n \in Nodes : CheckNodeForJob(queue[c], n)
  /\ PutJobToNode(queue[c], PickNode(queue[c]))

\* A job that is on a node already is put again, and cluster_put_job_to_node
\* returns at once.
PutFirstFit ==
  /\ Visit
  /\ ~is_done[queue[c]]
  /\ \E n \in Nodes : CheckNodeForJob(queue[c], n)
  /\ PutJobToNode(queue[c], PickNode(queue[c]))

QueueWalked ==
  /\ pc = "visit"
  /\ c = NULL
  /\ StepStarts
  /\ FifoFrame /\ UNCHANGED <<nodeVars, cursor, c>>

Schedule ==
  \/ NothingQueued \/ StartSkipping \/ SkipAssigned \/ StoreCursor
  \/ PassOver \/ PutFirstFit \/ QueueWalked

Next ==
  \/ SimulatorStep /\ UNCHANGED fifoVars
  \/ Distribute
  \/ Schedule

Spec == Init /\ [][Next]_vars

\* One thread, which is never blocked: as long as it can take a step it does.
FairSpec == Spec /\ WF_vars(Next)

-----------------------------------------------------------------------------
TypeOK ==
  /\ ClusterTypeOK
  /\ queue \in Seq(Jobs)
  /\ cursor \in 0..Len(queue)
  /\ c \in 0..Len(queue)

\* What was distributed is queued, each job once, and the others are not.
QueueIsDistributed ==
  /\ \A p, q \in DOMAIN queue : queue[p] = queue[q] => p = q
  /\ \A p \in DOMAIN moments : \A i \in DOMAIN moments[p].jobs :
       (\E q \in DOMAIN queue : queue[q] = moments[p].jobs[i]) <=> p < jseq

\* The cursor never passes a job that still needs a node: every queued job
\* that is neither done nor on a node is at q->c or after it, even though jobs
\* leave their nodes long after the cursor went over them.
NoJobLost ==
  \A p \in DOMAIN queue :
    ~is_done[queue[p]] /\ assigned_node[queue[p]] = NULL
      => cursor # NULL /\ cursor <= p

\* When schedule_fifo returns no queued job fits any node: a walk that only
\* takes resources away has not to be repeated.
WorkConserving ==
  pc = "visit" /\ c = NULL =>
    \A p \in DOMAIN queue :
      ~is_done[queue[p]] /\ assigned_node[queue[p]] = NULL
        => \A n \in Nodes : ~CheckNodeForJob(queue[p], n)

\* A job leaves its node only when it is done: FIFO neither preempts nor moves.
NeverPreempts ==
  [][\A j \in Jobs :
       assigned_node[j] # NULL /\ assigned_node'[j] # assigned_node[j]
         => is_done'[j]]_vars

-----------------------------------------------------------------------------
(***************************************************************************)
(* The refinement: the contract's node is assigned_node and its outcome is *)
(* read from is_done and is_complete.  Its threads are a node's real ones, *)
(* not what occupation shows.                                              *)
(***************************************************************************)
Outcome == [j \in Jobs |-> IF is_complete[j] THEN "complete"
                           ELSE IF is_done[j] THEN "expired" ELSE "open"]

Capacity == [n \in Nodes |->
  [features |-> NodeSpec[n].features,
   mem      |-> NodeSpec[n].mem_size,
   threads  |-> NodeSpec[n].cpu_count * NodeSpec[n].thread_count]]

Demand == [j \in Jobs |->
  [features |-> job[j].required_features,
   mem      |-> job[j].mem_size,
   threads  |-> ThreadsOf(j)]]

Contract == INSTANCE ClusterContract WITH
  JobSet <- Jobs, NodeSet <- Nodes, Absent <- NULL,
  capacity <- Capacity, demand <- Demand,
  host <- assigned_node, outcome <- Outcome

\* Every run is one the contract allows, and every job ends in it.
ImplementsContract == Contract!Spec

\* simulate.c:30 ends: the simulation reaches its results.
Terminates == <>(pc = "end")
=============================================================================
