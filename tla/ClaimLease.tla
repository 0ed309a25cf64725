----------------------------- MODULE ClaimLease -----------------------------
(***************************************************************************)
(* What a claim promises, with no table, clock or request in sight: a task *)
(* has at most one live holder, and it never passes from one agent to      *)
(* another without being free in between.                                  *)
(***************************************************************************)
CONSTANTS Task, Agent, NoAgent

VARIABLE holder   \* the agent whose lease on a task is running, if any

Init == holder = [t \in Task |-> NoAgent]

\* A free task gets a holder.
Acquire(t, a) ==
  /\ holder[t] = NoAgent
  /\ holder' = [holder EXCEPT ![t] = a]

\* Some claims end: released, run out, or gone with their task.
Lapse(T) ==
  /\ T # {}
  /\ holder' = [t \in Task |-> IF t \in T THEN NoAgent ELSE holder[t]]

Next ==
  \/ \E t \in Task, a \in Agent : Acquire(t, a)
  \/ \E T \in SUBSET Task : Lapse(T)

Spec == Init /\ [][Next]_holder
=============================================================================
