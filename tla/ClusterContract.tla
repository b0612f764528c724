--------------------------- MODULE ClusterContract ---------------------------
(***************************************************************************)
(* What a user of the simulator relies on, whatever the scheduler: a job   *)
(* is placed at most once, on a node that has the features it requires and *)
(* the memory and threads to spare for it, and it ends exactly once.  It   *)
(* completes from a node or expires from anywhere; once ended it is on no  *)
(* node.  Every job ends.                                                  *)
(*                                                                         *)
(* Nothing here knows of ticks, queues, cores or counters.                 *)
(***************************************************************************)
EXTENDS Naturals, Sums

CONSTANTS JobSet, NodeSet, Absent

VARIABLES
  capacity,  \* [features, mem, threads] of every node, constant
  demand,    \* [features, mem, threads] of every job, constant
  host,      \* the node a job is on, or Absent
  outcome    \* "open", "complete" or "expired"

vars == <<capacity, demand, host, outcome>>

Guests(n) == {j \in JobSet : host[j] = n}

Init == /\ host = [j \in JobSet |-> Absent]
        /\ outcome = [j \in JobSet |-> "open"]

Fits(j, n) ==
  LET after == Guests(n) \cup {j}
  IN  /\ demand[j].features \subseteq capacity[n].features
      /\ SumOver([i \in JobSet |-> demand[i].mem], after) <= capacity[n].mem
      /\ SumOver([i \in JobSet |-> demand[i].threads], after) <= capacity[n].threads

Place(j, n) == /\ outcome[j] = "open"
               /\ host[j] = Absent
               /\ Fits(j, n)
               /\ host' = [host EXCEPT ![j] = n]
               /\ UNCHANGED <<capacity, demand, outcome>>

End(j, how) == /\ outcome[j] = "open"
               /\ how = "complete" => host[j] # Absent
               /\ host' = [host EXCEPT ![j] = Absent]
               /\ outcome' = [outcome EXCEPT ![j] = how]
               /\ UNCHANGED <<capacity, demand>>

Ends(j) == \E how \in {"complete", "expired"} : End(j, how)

Next == \E j \in JobSet : Ends(j) \/ \E n \in NodeSet : Place(j, n)

Safe == Init /\ [][Next]_vars

Spec == Safe /\ \A j \in JobSet : WF_vars(Ends(j))
=============================================================================
