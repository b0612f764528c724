----------------------------- MODULE MomentList -----------------------------
(***************************************************************************)
(* The list of moments of the job sequencer (add_job_moment.c).  A moment  *)
(* is a record [time, jobs]: its jobs are chained in the order in which    *)
(* they were added, by job_list_t.next and, identically, by sched_info.    *)
(*                                                                         *)
(* Two fields are read before they are set: job_list_head of a moment that *)
(* _insert_moment_after_moment makes, and sched_info of the only job of    *)
(* the first moment.  Nothing has been freed when the dataset is loaded,   *)
(* so malloc returns zeroed pages and both read as NULL, as modelled.      *)
(***************************************************************************)
EXTENDS Naturals, Sequences, SequencesExt

\* Mutant: the list head that was not set is taken for a job.
NewMomentWithHead(j, m) == [time |-> m, jobs |-> <<0, j>>]

NewMoment(j, m) == [time |-> m, jobs |-> <<j>>]

\* Mutant: a moment between the first and the last is not recognised.
StopsBetween(jseq, m, i) == i > 1 /\ jseq[i - 1].time < m /\ m < jseq[i].time

\* The scan stops at position i when the moment there is the one sought, or
\* when m falls strictly between the moments at i - 1 and i.
StopsAt(jseq, m, i) ==
  \/ jseq[i].time = m
  \/ i > 1 /\ jseq[i - 1].time < m /\ m < jseq[i].time

\* _get_less_equal_moment: the position of the moment it returns.  When the
\* scan stops nowhere that is the last one, even if all of them are later.
LessEqualMoment(jseq, m) ==
  IF \A i \in DOMAIN jseq : ~StopsAt(jseq, m, i)
    THEN Len(jseq)
    ELSE LET i == CHOOSE i \in DOMAIN jseq :
                    /\ StopsAt(jseq, m, i)
                    /\ \A k \in 1..(i - 1) : ~StopsAt(jseq, m, k)
         IN  IF jseq[i].time = m THEN i ELSE i - 1

\* Mutants: the job replaces its moment's jobs, or is put in front of them;
\* the moment goes before the one found, or its next is NULL.
AddReplacing(jseq, j, m) ==
  LET p == LessEqualMoment(jseq, m)
  IN  IF jseq = <<>> THEN <<NewMoment(j, m)>>
      ELSE IF jseq[p].time = m THEN [jseq EXCEPT ![p].jobs = <<j>>]
      ELSE InsertAt(jseq, p + 1, NewMoment(j, m))

AddInFront(jseq, j, m) ==
  LET p == LessEqualMoment(jseq, m)
  IN  IF jseq = <<>> THEN <<NewMoment(j, m)>>
      ELSE IF jseq[p].time = m THEN [jseq EXCEPT ![p].jobs = <<j>> \o @]
      ELSE InsertAt(jseq, p + 1, NewMoment(j, m))

AddBefore(jseq, j, m) ==
  LET p == LessEqualMoment(jseq, m)
  IN  IF jseq = <<>> THEN <<NewMoment(j, m)>>
      ELSE IF jseq[p].time = m THEN [jseq EXCEPT ![p].jobs = Append(@, j)]
      ELSE InsertAt(jseq, p, NewMoment(j, m))

AddCutting(jseq, j, m) ==
  LET p == LessEqualMoment(jseq, m)
  IN  IF jseq = <<>> THEN <<NewMoment(j, m)>>
      ELSE IF jseq[p].time = m THEN [jseq EXCEPT ![p].jobs = Append(@, j)]
      ELSE Append(SubSeq(jseq, 1, p), NewMoment(j, m))

\* cluster_add_job_moment
AddJobMoment(jseq, j, m) ==
  IF jseq = <<>>
    THEN <<NewMoment(j, m)>>
    ELSE LET p == LessEqualMoment(jseq, m)
         IN  IF jseq[p].time = m
               THEN [jseq EXCEPT ![p].jobs = Append(@, j)]
               ELSE InsertAt(jseq, p + 1, NewMoment(j, m))
=============================================================================
