----------------------------- MODULE RoundRobin -----------------------------
(***************************************************************************)
(* The round-robin scheduler (schedule_round_robin.c), as far as it goes.  *)
(* The first tick hands it the moment of time 0, if there is one, and then *)
(* calls schedule_round_robin, which reads running->next while no job has  *)
(* ever run: running is NULL.  So one moment at most is queued, all of its *)
(* jobs with a wait time of 0, and nothing behind that call is reached.    *)
(***************************************************************************)
EXTENDS JobSequence

VARIABLES
  pending,  \* rr_job_queues_t.pending, the chain of next
  prev,     \* rr_job_ll_t.prev of every queued job; 0 is NULL
  jlist     \* the local of distribute_round_robin: its place in the moment

roundRobinVars == <<pending, prev, jlist>>

FirstMoment == job_sequence[1].jobs

\* job_t.wait_time before the first update, as the loader sets it.
WaitTime(j) == 0

Priority(j) == job_file.lines[j].priority

InitRoundRobin == pending' = <<>> /\ prev' = <<>> /\ jlist' = 1

-----------------------------------------------------------------------------
(***************************************************************************)
(* The two placings answer with the chain and its prev pointers.           *)
(***************************************************************************)

Behind(queue, before, j) ==
  [chain |-> Append(queue, j),
   prev  |-> [i \in DOMAIN before \cup {j} |-> IF i = j THEN Last(queue) ELSE before[i]]]

\* Mutant: it stops at a job that is no less urgent.
StopsAtHigher(j, i) == Priority(j) >= Priority(i)

\* _place_by_priority stops at a job that is no more urgent.
StopsAtPriority(j, i) == Priority(j) <= Priority(i)

\* _place_by_priority on the part of the queue from place p on.  In front of
\* that part the new job gets no prev, whatever stands before it.
PlaceByPriority(queue, before, p, j) ==
  LET q == SelectInSubSeq(queue, p, Len(queue), LAMBDA i : StopsAtPriority(j, i))
  IN  IF q = 0 THEN Behind(queue, before, j)
      ELSE [chain |-> InsertAt(queue, q, j),
            prev  |-> [i \in DOMAIN before \cup {j} |->
                         IF i = j THEN (IF q = p THEN 0 ELSE queue[q - 1])
                         ELSE IF i = queue[q] THEN j ELSE before[i]]]

\* _place_by_wait_time takes the head's wait time for that of the new job: it
\* compares the head with itself, so no job goes before it.
PlaceByWaitTime(queue, before, j) ==
  LET p == SelectInSubSeq(queue, 2, Len(queue),
                          LAMBDA i : WaitTime(Head(queue)) <= WaitTime(i))
  IN  IF p = 0 THEN Behind(queue, before, j)
      ELSE PlaceByPriority(queue, before, p, j)

-----------------------------------------------------------------------------
(***************************************************************************)
(* cluster_simulate with this scheduler: its first tick.                   *)
(***************************************************************************)
RoundRobinFrame == UNCHANGED <<job_file, sequenceVars, status, unset>>

\* simulate.c:40: a moment is handed over only in the tick that equals its time.
FirstTick ==
  /\ pc = "tick"
  /\ pc' = IF job_sequence[1].time = 0 THEN "distribute" ELSE "schedule"
  /\ RoundRobinFrame
  /\ UNCHANGED roundRobinVars

\* The head of an empty queue is taken as it is.
Distribute ==
  /\ pc = "distribute"
  /\ jlist <= Len(FirstMoment)
  /\ jlist' = jlist + 1
  /\ LET j == FirstMoment[jlist]
         placed == IF pending = <<>>
                     THEN [chain |-> <<j>>, prev |-> [i \in {j} |-> 0]]
                     ELSE PlaceByWaitTime(pending, prev, j)
     IN  pending' = placed.chain /\ prev' = placed.prev
  /\ RoundRobinFrame
  /\ UNCHANGED pc

Distributed ==
  /\ pc = "distribute"
  /\ jlist > Len(FirstMoment)
  /\ pc' = "schedule"
  /\ RoundRobinFrame
  /\ UNCHANGED roundRobinVars

\* running is NULL, whatever was distributed.
Schedule ==
  /\ pc = "schedule"
  /\ Crash
  /\ UNCHANGED <<job_file, sequenceVars, unset, roundRobinVars>>

RunRoundRobin == FirstTick \/ Distribute \/ Distributed \/ Schedule

-----------------------------------------------------------------------------
RoundRobinTypeOK ==
  /\ pending \in Seq(Jobs)
  /\ DOMAIN prev = ToSet(pending)
  /\ \A j \in DOMAIN prev : prev[j] \in Jobs \cup {0}
  /\ jlist \in Nat \ {0}

Ahead(j, k) ==
  \/ WaitTime(j) < WaitTime(k)
  \/ WaitTime(j) = WaitTime(k) /\ Priority(j) <= Priority(k)

SortedFrom(place) ==
  \A p, q \in place..Len(pending) : p < q => Ahead(pending[p], pending[q])

\* schedule_round_robin.c:100: "here we plainly sort the jobs first by wait time,
\* then by priority".  When the moment is distributed the queue holds each of
\* its jobs once and is sorted behind its head.  All of it is sorted, as the
\* comment says, only if the moment's first line happens to be as urgent as any
\* other: no job ever goes before it (line 259).  The way back, which
\* _move_job_to_queue would follow, is broken behind the head at most:
\* _place_by_priority sets no prev in front of the part it was given.
QueueSortedBehindHead ==
  pc = "schedule" /\ pending # <<>> =>
    /\ Len(pending) = Len(FirstMoment)
    /\ ToSet(pending) = ToSet(FirstMoment)
    /\ SortedFrom(2)
    /\ SortedFrom(1) <=> \A j \in ToSet(FirstMoment) : Ahead(Head(FirstMoment), j)
    /\ \A p \in DOMAIN pending :
         \/ prev[pending[p]] = (IF p = 1 THEN 0 ELSE pending[p - 1])
         \/ p = 2 /\ prev[pending[p]] = 0
=============================================================================
