----------------------------- MODULE HumanGate ------------------------------
(***************************************************************************)
(* What the gates of a work graph promise to the people who are asked,     *)
(* with no request, copy or clock in sight.  A question is put about a     *)
(* node that has none open, and settled once, by a reply or by its         *)
(* withdrawal.  The agent that does the work never settles a question      *)
(* about a gate, and a gate is passed only when one has been answered.     *)
(***************************************************************************)
CONSTANTS
  Node, Gate,          \* the nodes, and those that wait for a person
  Ask,                 \* the questions
  Actor, Executor,     \* who replies, and who does the work
  Nobody               \* a question not replied to

VARIABLES
  question,    \* the state of each question, its node, who replied
  passed       \* the gates that are passed

Unasked == [status |-> "none"]
Open(i) == question[i].status = "pending"
Answered(g) == \E i \in Ask : question[i].status = "answered" /\ question[i].node = g

Init ==
  /\ question = [i \in Ask |-> Unasked]
  /\ passed = {}

Put(i, n) ==
  /\ question[i] = Unasked
  /\ \A j \in Ask : Open(j) => question[j].node # n
  /\ question' = [question EXCEPT ![i] = [status |-> "pending", node |-> n, by |-> Nobody]]
  /\ UNCHANGED passed

Reply(i, to, who) ==
  /\ Open(i)
  /\ question[i].node \in Gate => who # Executor
  /\ question' = [question EXCEPT ![i].status = to, ![i].by = who]
  /\ UNCHANGED passed

Withdraw(i) ==
  /\ Open(i)
  /\ question' = [question EXCEPT ![i].status = "rejected"]
  /\ UNCHANGED passed

Pass(g) ==
  /\ Answered(g)
  /\ passed' = passed \cup {g}
  /\ UNCHANGED question

\* The way back upstream.
Reopen(g) ==
  /\ passed' = passed \ {g}
  /\ UNCHANGED question

Next ==
  \/ \E i \in Ask, n \in Node : Put(i, n)
  \/ \E i \in Ask, to \in {"answered", "rejected"}, who \in Actor : Reply(i, to, who)
  \/ \E i \in Ask : Withdraw(i)
  \/ \E g \in Gate : Pass(g) \/ Reopen(g)

Spec == Init /\ [][Next]_<<question, passed>>
=============================================================================
