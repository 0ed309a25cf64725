----------------------------- MODULE MCMemory -------------------------------
(* Small instances of Memory for TLC. *)
EXTENDS Memory, TLC

CONSTANTS k1, k2, k3

Rel(s, ty, t) == [source |-> s, type |-> ty, target |-> t]

\* Three capsules that can supersede each other in a circle.
Circle == {Rel(k1, "supersedes", k2), Rel(k2, "supersedes", k3), Rel(k3, "supersedes", k1)}

\* and two that conflict.
Rivals == {Rel(k1, "conflicts-with", k2), Rel(k2, "conflicts-with", k1)}
CircleAndRivals == Circle \cup Rivals

Editing == \E c \in Caller : req[c].at = "capsule"

\* Notes meet relations and edits in the capsules only, relations of different types
\* each other nowhere; races are explored on one relation, edits on the first, cycles
\* without them.
OneSubject ==
  /\ \/ \A n \in Note : note[n] = Unborn
     \/ link = [i \in Link |-> NoLink] /\ Relating = {} /\ ~Editing
  /\ \A r, s \in Relations : r.type = s.type
  /\ Cardinality(Relations) > 1 => ~raced
  /\ Editing => ~raced /\ Cardinality({i \in Link : link[i] # NoLink}) <= 1

Symmetry == Permutations(Caller) \cup Permutations(Link)
=============================================================================
