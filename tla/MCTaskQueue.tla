---------------------------- MODULE MCTaskQueue -----------------------------
(* Small instances of TaskQueue for TLC. *)
EXTENDS TaskQueue, TLC

CONSTANTS p1, t1, a, b

OneProject == [t \in Task |-> p1]

Symmetry == Permutations(Worker)

\* A PATCH that changes nothing unless told otherwise.
Patch(t, by) == [task |-> t, agent |-> by, state |-> Nil, prio |-> Nil,
                 ifState |-> Nil, force |-> FALSE]

\* The owner finishes a task; somebody reprioritises it and moves it by force.
OwnersAndOthers ==
  {[Patch(t1, a) EXCEPT !.state = "done"],
   [Patch(t1, b) EXCEPT !.prio = 1],
   [Patch(t1, NoAgent) EXCEPT !.state = "start", !.force = TRUE]}

\* The dashboard finishes, reopens and reprioritises any task, each time
\* conditional on the state it shows, and reprioritises t1 whatever it shows.
ConditionalEdits ==
  UNION {{[Patch(t, NoAgent) EXCEPT !.state = "done", !.ifState = "start", !.force = TRUE],
          [Patch(t, NoAgent) EXCEPT !.state = "start", !.ifState = "done", !.force = TRUE],
          [Patch(t, NoAgent) EXCEPT !.prio = 1, !.ifState = "start", !.force = TRUE]} :
            t \in Task}
    \cup {[Patch(t1, NoAgent) EXCEPT !.prio = 1, !.force = TRUE]}
=============================================================================
