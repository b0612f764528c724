-------------------------------- MODULE Sums --------------------------------
(***************************************************************************)
(* The sum of a function's values over a finite set of its arguments.      *)
(* It is written as the cardinality of a set of units, not as a recursion, *)
(* so that the facts of FiniteSetTheorems apply to it directly; the lemmas *)
(* are in DataTheorems.                                                    *)
(***************************************************************************)
EXTENDS Naturals, FiniteSets

\* One pair <<i, k>> for each of the f[i] units that i contributes.
UnitsOf(f, S) == UNION {{i} \X (1..f[i]) : i \in S}

SumOver(f, S) == Cardinality(UnitsOf(f, S))
=============================================================================
