---------------------------- MODULE JobSequence ----------------------------
(***************************************************************************)
(* Loading the job dataset (job_sequence_from_dataset.c): one job a line,  *)
(* each handed to cluster_add_job_moment with the moment on its line.      *)
(* A job is the number of its line.                                        *)
(***************************************************************************)
EXTENDS Process, MomentList, FiniteSets

VARIABLES
  job_file,      \* the dataset: [openable, lines], lines of [moment, priority]
  job_count,     \* cluster_t.job_count, the lines read so far
  job_sequence   \* cluster_t.job_sequence

sequenceVars == <<job_count, job_sequence>>

JobLine == [moment : Nat, priority : Nat]
Jobs    == DOMAIN job_file.lines
Moment(j) == job_file.lines[j].moment

\* cluster_job_sequence_from_dataset
OpenJobs ==
  /\ pc = "open_jobs"
  /\ job_sequence' = <<>>
  /\ job_count' = 0
  /\ SetPointer("job_sequence")
  /\ Open(job_file, "job_line")
  /\ UNCHANGED job_file

\* One turn of the loop of _parse_lines.
ParseLine ==
  /\ pc = "job_line"
  /\ job_count < Len(job_file.lines)
  /\ job_count' = job_count + 1
  /\ job_sequence' = AddJobMoment(job_sequence, job_count', Moment(job_count'))
  /\ UNCHANGED <<job_file, processVars>>

\* fgets returns NULL: the dataset is loaded.
EndOfJobs ==
  /\ pc = "job_line"
  /\ job_count = Len(job_file.lines)
  /\ Goto("open_nodes")
  /\ UNCHANGED <<job_file, sequenceVars, unset>>

LoadJobs == OpenJobs \/ ParseLine \/ EndOfJobs

-----------------------------------------------------------------------------
Position == DOMAIN job_sequence

SequenceTypeOK ==
  /\ job_file \in [openable : BOOLEAN, lines : Seq(JobLine)]
  /\ job_count \in 0..Len(job_file.lines)
  /\ job_sequence \in Seq([time : Nat, jobs : Seq(Jobs)])

\* No two moments have the same time.  simulate.c:40 compares t with one
\* moment at a tick, so the jobs of a second one would never be distributed.
TimesDistinct ==
  \A p, q \in Position :
    job_sequence[p].time = job_sequence[q].time => p = q

\* Every line read is in exactly one place of the list, under its own moment,
\* and no place holds anything else: _add_job_to_moment neither drops a job
\* nor leaves it in two lists.
EachLineOnce ==
  /\ \A j \in 1..job_count :
       \E p \in Position : \E i \in DOMAIN job_sequence[p].jobs :
         /\ job_sequence[p].jobs[i] = j
         /\ job_sequence[p].time = Moment(j)
         /\ \A q \in Position : \A k \in DOMAIN job_sequence[q].jobs :
              job_sequence[q].jobs[k] = j => q = p /\ k = i
  /\ \A p \in Position :
       ToSet(job_sequence[p].jobs) \subseteq 1..job_count

\* Jobs of one moment stay in the order of their lines, the order in which
\* FIFO queues them (schedule_fifo.c:77 follows sched_info).
LineOrderKept ==
  \A p \in Position : \A i, k \in DOMAIN job_sequence[p].jobs :
    i < k => job_sequence[p].jobs[i] < job_sequence[p].jobs[k]

\* When the first line has the earliest moment the list is sorted, whatever
\* the order of the other lines (example_job_dataset.txt is not sorted): the
\* condition under which the simulator meets every moment in its time.
SortedAfterEarliestFirst ==
  (\A j \in 1..job_count : Moment(1) <= Moment(j))
    => \A p, q \in Position : p < q => job_sequence[p].time < job_sequence[q].time

\* Lines read later never swap moments that are already in the list.
NeverReorders ==
  [][\A p, q \in Position : p < q =>
       \E r, s \in DOMAIN job_sequence' :
         /\ r < s
         /\ job_sequence'[r].time = job_sequence[p].time
         /\ job_sequence'[s].time = job_sequence[q].time]_sequenceVars
=============================================================================
