------------------------------ MODULE MCServer -------------------------------
(* Small instances of Server for TLC. *)
EXTENDS Server, TLC

CONSTANTS p1

OneServes == [c \in Caller |-> p1]

\* Two processes are followed as long as they start, one as long as it serves.
StartingOrServing ==
  \/ \A c \in Caller : ~Busy(c)
  \/ \A p \in Process \ {p1} : proc[p] = Off

Symmetry == Permutations(Caller)
=============================================================================
