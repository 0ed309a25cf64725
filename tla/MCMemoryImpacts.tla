-------------------------- MODULE MCMemoryImpacts ----------------------------
(* Small instances of MemoryImpacts for TLC: no notes and no relations. *)
EXTENDS MemoryImpacts, TLC

CONSTANTS k1, k2

\* Contexts hold two capsules that nobody reports on; reports and recalls are about
\* one capsule, and an edit of it meets one of them.
OneSubject ==
  \/ /\ \A c \in Caller : ~Busy(c)
     /\ \A r \in Reporter : job[r].at \notin {"find", "check", "update", "usage", "stale", "write"}
     /\ \A k \in Capsule : Kept(k) => capsule[k].updated = 1
  \/ /\ ~Kept(k1) /\ snapshot = [t \in Task |-> None]
     /\ \/ \A c \in Caller : ~Busy(c)
        \/ done = {} /\ Cardinality({r \in Reporter : Working(r)}) <= 1

Symmetry == Permutations(Reporter)
=============================================================================
