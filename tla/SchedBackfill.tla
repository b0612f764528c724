--------------------------- MODULE SchedBackfill ---------------------------
(***************************************************************************)
(* The simulator with the backfill scheduler (schedule_backfill.c).        *)
(*                                                                         *)
(* scheduler_t.state is the head of a chain of sched_info, here the        *)
(* sequence queue.  A job leaves it when it is put on a node, and in no    *)
(* other way: nothing in this scheduler looks at is_done.                  *)
(***************************************************************************)
EXTENDS Cluster, SequencesExt

VARIABLES
  queue,  \* the jobs from s->state on
  i       \* the position of the local pointer of the loop that is running

backfillVars == <<queue, i>>
vars         == <<clusterVars, backfillVars>>

Init == /\ ClusterInit
        /\ queue = <<>>
        /\ i = 1

Priority(j) == job[j].priority

-----------------------------------------------------------------------------
(***************************************************************************)
(* distribute_backfill, a turn of its loop for each job of the moment      *)
(***************************************************************************)

\* _place_by_priority, from position k on: before the first job there that
\* priority does not put ahead of j, or else at the end.
PlaceByPriority(q, j, k) ==
  LET behind == {p \in k..Len(q) : Priority(j) <= Priority(q[p])}
      at     == IF behind = {} THEN Len(q) + 1 ELSE Min(behind)
  IN  InsertAt(q, at, j)

\* _place_by_wait_time: the head is passed on a tie, every other job is not.
PlaceByWaitTime(q, j) ==
  LET notBefore == {p \in 2..Len(q) : wait_time[j] <= wait_time[q[p]]}
  IN  IF wait_time[j] < wait_time[q[1]]
        THEN <<j>> \o q
        ELSE IF notBefore = {} THEN Append(q, j)
        ELSE PlaceByPriority(q, j, Min(notBefore))

\* Mutant: cpu_count is not reset.
FoldTwice(j) ==
  IF job[j].cpu_count = 0 THEN job[j]
  ELSE [job[j] EXCEPT !.thread_count = @ * job[j].cpu_count]

\* The cores a job asks for become plain threads, for good.
FoldCores(j) ==
  IF job[j].cpu_count = 0 THEN job[j]
  ELSE [job[j] EXCEPT !.thread_count = @ * job[j].cpu_count, !.cpu_count = 0]

BackfillFrame == UNCHANGED <<jobVars, statVars, moments, everything_done, jl,
                             all_done, t>>

StartDistribute ==
  /\ pc = "distribute"
  /\ MomentDue
  /\ i' = 1
  /\ pc' = "enqueue"
  /\ BackfillFrame /\ UNCHANGED <<nodeVars, job, jm, jseq, queue>>

Enqueue ==
  /\ pc = "enqueue"
  /\ i <= Len(moments[jseq].jobs)
  /\ LET j == moments[jseq].jobs[i]
     IN  /\ job' = [job EXCEPT ![j] = FoldCores(j)]
         /\ queue' = IF queue = <<>> THEN <<j>> ELSE PlaceByWaitTime(queue, j)
  /\ i' = i + 1
  /\ BackfillFrame /\ UNCHANGED <<nodeVars, jm, jseq, pc>>

Distributed ==
  /\ pc = "enqueue"
  /\ i > Len(moments[jseq].jobs)
  /\ jseq' = jseq + 1
  /\ pc' = "schedule"
  /\ BackfillFrame /\ UNCHANGED <<nodeVars, job, jm, backfillVars>>

Distribute ==
  \/ StartDistribute \/ Enqueue \/ Distributed
  \/ NoMomentDue /\ UNCHANGED backfillVars

-----------------------------------------------------------------------------
(***************************************************************************)
(* schedule_backfill: one walk over the queue that puts what fits          *)
(***************************************************************************)
StartWalk ==
  /\ pc = "schedule"
  /\ i' = 1
  /\ pc' = "visit"
  /\ BackfillFrame /\ UNCHANGED <<nodeVars, job, jm, jseq, queue>>

Visit ==
  /\ pc = "visit"
  /\ i <= Len(queue)
  /\ BackfillFrame /\ UNCHANGED <<job, jm, jseq, pc>>

\* Mutant: the pointer stays on a job that fits nowhere.
StayOnMisfit ==
  /\ Visit
  /\ \A n \in Nodes : ~CheckNodeForJob(queue[i], n)
  /\ UNCHANGED <<i, nodeVars, queue>>

NoNodeFits ==
  /\ Visit
  /\ \A n \in Nodes : ~CheckNodeForJob(queue[i], n)
  /\ i' = i + 1
  /\ UNCHANGED <<nodeVars, queue>>

\* Mutants: the chain is cut at the removed job; the job behind it is skipped.
AllocateCutting(n) ==
  /\ Visit
  /\ CheckNodeForJob(queue[i], n)
  /\ \A m \in 1..(n - 1) : ~CheckNodeForJob(queue[i], m)
  /\ PutJobToNode(queue[i], n)
  /\ queue' = SubSeq(queue, 1, i - 1)
  /\ UNCHANGED i

AllocateSkipping(n) ==
  /\ Visit
  /\ CheckNodeForJob(queue[i], n)
  /\ \A m \in 1..(n - 1) : ~CheckNodeForJob(queue[i], m)
  /\ PutJobToNode(queue[i], n)
  /\ queue' = RemoveAt(queue, i)
  /\ i' = i + 1

\* _try_allocate_first_job takes the first node of the registry that fits,
\* and _remove_job_from_queue leaves the pointer on the next job.
Allocate(n) ==
  /\ Visit
  /\ CheckNodeForJob(queue[i], n)
  /\ \A m \in 1..(n - 1) : ~CheckNodeForJob(queue[i], m)
  /\ PutJobToNode(queue[i], n)
  /\ queue' = RemoveAt(queue, i)
  /\ UNCHANGED i

QueueWalked ==
  /\ pc = "visit"
  /\ i > Len(queue)
  /\ StepStarts
  /\ BackfillFrame /\ UNCHANGED <<nodeVars, job, jseq, backfillVars>>

Schedule ==
  \/ StartWalk \/ NoNodeFits \/ QueueWalked
  \/ \E n \in Nodes : Allocate(n)

Next ==
  \/ SimulatorStep /\ UNCHANGED backfillVars
  \/ Distribute
  \/ Schedule

Spec == Init /\ [][Next]_vars

\* One thread, which is never blocked: as long as it can take a step it does.
FairSpec == Spec /\ WF_vars(Next)

-----------------------------------------------------------------------------
Queued == {queue[p] : p \in DOMAIN queue}

\* The jobs of the moments handed over so far, counting those of the moment
\* whose distribution is under way.
HandedOver ==
  {j \in Jobs :
     \E p \in DOMAIN moments : \E k \in DOMAIN moments[p].jobs :
       /\ moments[p].jobs[k] = j
       /\ p < jseq \/ (p = jseq /\ pc = "enqueue" /\ k < i)}

\* Insertion and removal keep the chain whole: no job is in it twice, a job
\* in it is on no node, and one that was handed over and neither ended nor
\* started is in it, so the scheduler will meet it again.
QueueIsWhole ==
  /\ \A p, q \in DOMAIN queue : queue[p] = queue[q] => p = q
  /\ \A j \in Queued : j \in HandedOver /\ assigned_node[j] = NULL
  /\ \A j \in HandedOver :
       j \in Queued \/ is_done[j] \/ assigned_node[j] # NULL

\* When schedule_backfill returns no queued job fits any node.
WorkConserving ==
  pc = "visit" /\ i > Len(queue) =>
    \A j \in Queued, n \in Nodes : ~CheckNodeForJob(j, n)

\* Folding cores into threads changes no job's demand, and only the moment a
\* job is handed over: a job on a node gives back what it took.
FoldKeepsDemand ==
  [][\A j \in Jobs :
       /\ ThreadsOf(j)' = ThreadsOf(j)
       /\ assigned_node[j] # NULL => job'[j] = job[j]]_vars

\* simulate.c:30 ends, whatever the scheduler leaves on the nodes.
Terminates == <>(pc = "end")
=============================================================================
