------------------------------ MODULE MCExecutor ------------------------------
(***************************************************************************)
(* Small instances of the executor for TLC.                                *)
(***************************************************************************)
EXTENDS Executor, TLC

CONSTANTS p1, p2, d1, d2

\* One process, the deployment of Phase 1.
OneJournal == [p \in {p1} |-> "a"]

\* Two processes on one machine open the same database file.
SharedJournal == [p \in {p1, p2} |-> "a"]

Symmetric == Permutations({d1, d2})
=============================================================================
