----------------------------- MODULE MCTaskDeps -----------------------------
(* Small instances of TaskDeps for TLC. *)
EXTENDS TaskDeps, TLC

CONSTANTS t4, p1, p2

\* One task lives in a project of its own.
OneApart == [t \in Task |-> IF t = t4 THEN p2 ELSE p1]

Symmetry == Permutations(Task \ {t4}) \cup Permutations(Adder)
=============================================================================
