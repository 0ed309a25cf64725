---------------------------- MODULE MCWorkGraph ----------------------------
(* Small instances of WorkGraph for TLC. *)
EXTENDS WorkGraph, TLC

CONSTANTS plan, build, gate

\* A chain, and a gate behind one node.
ChainDependsOn == (plan :> {}) @@ (build :> {plan}) @@ (gate :> {build})
GateDependsOn == (build :> {}) @@ (gate :> {build})

Symmetry == Permutations(Ask) \cup Permutations(Caller)
=============================================================================
