------------------------------- MODULE Process -------------------------------
(***************************************************************************)
(* What the parts of csim's life share: where the program is, the status   *)
(* it is going to return, and the fields of main's cluster_t that have not *)
(* been given a value yet.  cluster_t is a local of main that nobody       *)
(* initialises: an unset pointer is whatever was on the stack.             *)
(***************************************************************************)
EXTENDS Naturals

EXIT_SUCCESS == 0
EXIT_FAILURE == 1

\* The pointers of cluster_t that cluster_destroy looks at.
Pointers == {"job_sequence", "connections", "node_registry", "scheduler"}

VARIABLES
  pc,       \* where the program is
  status,   \* what it will return
  unset     \* the pointers of cluster_t that hold what was on the stack

processVars == <<pc, status, unset>>

Goto(place) == pc' = place /\ UNCHANGED status

\* A null or stray pointer is followed: the program is gone.
Crash == Goto("crashed")

\* _cluster_init_failure: what was loaded is destroyed and a failure returned.
Fail == pc' = "destroy_jobs" /\ status' = EXIT_FAILURE

\* _cluster_parse_file_wrapper: the file is opened for update, or it fails.
Open(file, place) == IF file.openable THEN Goto(place) ELSE Fail

SetPointer(field) == unset' = unset \ {field}
=============================================================================
