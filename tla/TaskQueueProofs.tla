--------------------------- MODULE TaskQueueProofs --------------------------
(***************************************************************************)
(* What TaskQueue guarantees for any tasks, agents, workers, edits and     *)
(* lease lengths, and for a clock that never stops.                        *)
(***************************************************************************)
EXTENDS TaskQueue, TaskDepsProofs

\* A request that carries a stamp took it from the clock, so the stamp is not
\* ahead of it; the end of the lease it asks for lies after the stamp.
StampsArePast ==
  \A w \in Worker :
    /\ req[w].op # "idle" => req[w].now \in 1 .. clock
    /\ req[w].op \in {"claim", "heartbeat", "next"} => req[w].until > req[w].now

\* What an edit read still satisfies, when it writes, the checks made on it.
CopiesAreChecked ==
  \A w \in Worker :
    req[w].op = "write" =>
      /\ req[w].cur.state = "done" <=> req[w].cur.completed # 0
      /\ OwnerAllows(req[w].edit, req[w].cur)
      /\ IfStateHolds(req[w].edit, req[w].cur)

QueueInv ==
  /\ TypeOK
  /\ clock >= 1
  /\ StampsArePast
  /\ CopiesAreChecked
  /\ CompletedIffDone

-----------------------------------------------------------------------------

\* Seen from the dependency table, every step is a step of TaskDeps.
LEMMA QueueStepsAreDepsSteps == [Next]_vars => [DepsNext]_depsVars
BY DEF Next, vars, depsVars, queueVars, DepsNext, GraphStep, RowStep, WorkerStep, Tick,
       NewTask, RemoveTask, RemoveProject, ReleaseTask, BeginClaim, BeginNext, BeginEdit,
       ClaimTask, ClaimNextTask, HeartbeatTask, ReadRow, WriteRow, Abandon

\* The queue composes the dependency table without disturbing it.
THEOREM QueueImplementsDeps == Spec => DepsSpec
<1>1. Init => DepsInit
  BY DEF Init
<1>2. QED
  BY <1>1, QueueStepsAreDepsSteps, PTL DEF Spec, DepsSpec

\* The row of a new task is a row.
LEMMA UnclaimedIsARow ==
  ASSUME NEW s \in TaskState, NEW p \in Priority, NEW n \in Nat
  PROVE  Unclaimed(s, p, n) \in Row
BY DEF Unclaimed, Row

\* A PATCH writes a well-typed row, done exactly when it is stamped.
LEMMA WrittenRowIsARow ==
  ASSUME NEW q \in WriteReq, NEW r \in Row
  PROVE  WrittenRow(r, q) \in Row
<1>1. NewState(q) \in TaskState /\ NewCompleted(q) \in Nat
  BY QueueAssumption DEF NewState, NewCompleted, WriteReq, Edit, Row
<1>2. q.now + DefaultLease \in Nat
  BY QueueAssumption DEF WriteReq
<1>3. QED
  BY <1>1, <1>2, QueueAssumption DEF WrittenRow, WriteReq, Edit, Row

\* Claiming a row leaves a row.
LEMMA ClaimedRowIsARow ==
  ASSUME NEW q \in ClaimReq \cup NextReq, NEW r \in Row
  PROVE  ClaimedBy(r, q) \in Row
BY DEF ClaimedBy, ClaimReq, NextReq, Row

\* Every step keeps rows and requests well typed.
LEMMA TypeStep == TypeOK /\ [Next]_vars => TypeOK'
<1> SUFFICES ASSUME TypeOK, [Next]_vars PROVE TypeOK'
  OBVIOUS
<1>d. DepsTypeOK'
  BY QueueStepsAreDepsSteps, DepsTypeStep DEF TypeOK
<1>i. Idle \in Request
  BY DEF Request
<1>1. CASE GraphStep
  BY <1>1, <1>d DEF GraphStep, queueVars, TypeOK
<1>2. CASE RowStep
  <2>1. ASSUME NEW t \in Task, NEW p \in Priority, NEW s \in {"pending", "start"},
               NewTask(t, p, s)
        PROVE TypeOK'
    <3>1. Unclaimed(s, p, clock) \in Row
      BY UnclaimedIsARow, QueueAssumption DEF TaskState, TypeOK
    <3>2. QED
      BY <2>1, <3>1, <1>d DEF NewTask, TypeOK
  <2>2. Absent \in Row
    BY UnclaimedIsARow, QueueAssumption DEF TaskState, Absent
  <2>3. ASSUME NEW t \in Task, RemoveTask(t) PROVE TypeOK'
    BY <2>2, <2>3, <1>d DEF RemoveTask, TypeOK
  <2>4. ASSUME NEW p \in Project, RemoveProject(p) PROVE TypeOK'
    BY <2>2, <2>4, <1>d DEF RemoveProject, TypeOK
  <2>5. ASSUME NEW t \in Task, NEW a \in Agent \cup {NoAgent}, NEW force \in BOOLEAN,
               ReleaseTask(t, a, force)
        PROVE TypeOK'
    <3>1. [row[t] EXCEPT !.owner = NoAgent, !.claimed = 0, !.lease = 0] \in Row
      BY DEF Row, TypeOK
    <3>2. QED
      BY <2>5, <3>1, <1>d DEF ReleaseTask, TypeOK
  <2>6. QED
    BY <1>2, <2>1, <2>3, <2>4, <2>5 DEF RowStep
<1>3. CASE Tick
  BY <1>3, <1>d DEF Tick, TypeOK
<1>4. ASSUME NEW w \in Worker, WorkerStep(w) PROVE TypeOK'
  <2>1. ASSUME NEW op \in {"claim", "heartbeat"}, NEW a \in Agent, NEW t \in Task,
               NEW d \in LeaseLength, BeginClaim(w, op, a, t, d)
        PROVE TypeOK'
    <3>1. [op |-> op, agent |-> a, task |-> t, now |-> clock, until |-> clock + d]
            \in ClaimReq
      BY QueueAssumption DEF ClaimReq, TypeOK
    <3>2. QED
      BY <2>1, <3>1, <1>d DEF BeginClaim, TypeOK, Request
  <2>2. ASSUME NEW a \in Agent, NEW p \in Project, NEW d \in LeaseLength,
               BeginNext(w, a, p, d)
        PROVE TypeOK'
    <3>1. [op |-> "next", agent |-> a, project |-> p, now |-> clock, until |-> clock + d]
            \in NextReq
      BY QueueAssumption DEF NextReq, TypeOK
    <3>2. QED
      BY <2>2, <3>1, <1>d DEF BeginNext, TypeOK, Request
  <2>3. ASSUME NEW e \in Edits, BeginEdit(w, e) PROVE TypeOK'
    <3>1. [op |-> "edit", edit |-> e, now |-> clock] \in EditReq
      BY QueueAssumption DEF EditReq, TypeOK
    <3>2. QED
      BY <2>3, <3>1, <1>d DEF BeginEdit, TypeOK, Request
  <2>4. CASE ClaimTask(w)
    <3>1. req[w] \in ClaimReq
      BY <2>4 DEF ClaimTask, TypeOK, Request, Idle, ClaimReq, NextReq, EditReq, WriteReq
    <3>2. ClaimedBy(row[req[w].task], req[w]) \in Row
      BY <3>1, ClaimedRowIsARow DEF TypeOK, ClaimReq
    <3>3. QED
      BY <2>4, <3>1, <3>2, <1>d, <1>i DEF ClaimTask, Finish, TypeOK
  <2>5. CASE ClaimNextTask(w)
    <3>1. req[w] \in NextReq
      BY <2>5 DEF ClaimNextTask, TypeOK, Request, Idle, ClaimReq, NextReq, EditReq, WriteReq
    <3>2. \/ row' = row
          \/ \E t \in Task : row' = [row EXCEPT ![t] = ClaimedBy(row[t], req[w])]
      BY <2>5 DEF ClaimNextTask
    <3>3. \A t \in Task : ClaimedBy(row[t], req[w]) \in Row
      BY <3>1, ClaimedRowIsARow DEF TypeOK
    <3>4. QED
      BY <2>5, <3>2, <3>3, <1>d, <1>i DEF ClaimNextTask, Finish, TypeOK
  <2>6. CASE HeartbeatTask(w)
    <3>1. req[w] \in ClaimReq
      BY <2>6 DEF HeartbeatTask, TypeOK, Request, Idle, ClaimReq, NextReq, EditReq, WriteReq
    <3>2. [row[req[w].task] EXCEPT !.lease = req[w].until] \in Row
      BY <3>1 DEF TypeOK, ClaimReq, Row
    <3>3. QED
      BY <2>6, <3>1, <3>2, <1>d, <1>i DEF HeartbeatTask, Finish, TypeOK
  <2>7. CASE ReadRow(w)
    <3>1. req[w] \in EditReq
      BY <2>7 DEF ReadRow, TypeOK, Request, Idle, ClaimReq, NextReq, EditReq, WriteReq
    <3>2. ASSUME NEW n \in Nat
          PROVE  [op |-> "write", edit |-> req[w].edit, cur |-> row[req[w].edit.task],
                  now |-> n] \in Request
      BY <3>1 DEF EditReq, WriteReq, Request, Edit, TypeOK
    <3>3. clock \in Nat /\ \A n \in req[w].now .. clock : n \in Nat
      BY <3>1 DEF TypeOK, EditReq
    <3>4. QED
      BY <2>7, <3>2, <3>3, <1>d, <1>i DEF ReadRow, Finish, TypeOK
  <2>8. CASE WriteRow(w)
    <3>1. req[w] \in WriteReq
      BY <2>8 DEF WriteRow, TypeOK, Request, Idle, ClaimReq, NextReq, EditReq, WriteReq
    <3>2. WrittenRow(row[req[w].edit.task], req[w]) \in Row
      BY <3>1, WrittenRowIsARow DEF TypeOK, WriteReq, Edit
    <3>3. QED
      BY <2>8, <3>1, <3>2, <1>d, <1>i DEF WriteRow, Finish, TypeOK
  <2>9. CASE Abandon(w)
    BY <2>9, <1>d, <1>i DEF Abandon, Finish, TypeOK
  <2>10. QED
    BY <1>4, <2>1, <2>2, <2>3, <2>4, <2>5, <2>6, <2>7, <2>8, <2>9 DEF WorkerStep
<1>5. CASE UNCHANGED vars
  BY <1>5, <1>d DEF vars, queueVars, TypeOK
<1>6. QED
  BY <1>1, <1>2, <1>3, <1>4, <1>5 DEF Next

-----------------------------------------------------------------------------

\* A stamp, once taken, stays behind the clock.
LEMMA StampsStep ==
  ASSUME TypeOK, TypeOK', clock >= 1, StampsArePast, [Next]_vars
  PROVE  StampsArePast' /\ clock' >= 1
<1>1. CASE GraphStep \/ RowStep \/ UNCHANGED vars
  <2>1. req' = req /\ clock' = clock
    BY <1>1 DEF GraphStep, RowStep, NewTask, RemoveTask, RemoveProject, ReleaseTask,
                vars, queueVars
  <2>2. QED
    BY <2>1 DEF StampsArePast
<1>2. CASE Tick
  BY <1>2 DEF Tick, StampsArePast, TypeOK
<1>3. ASSUME NEW w \in Worker, WorkerStep(w) PROVE StampsArePast' /\ clock' >= 1
  <2>1. clock' = clock /\ \A v \in Worker \ {w} : req'[v] = req[v]
    BY <1>3 DEF WorkerStep, BeginClaim, BeginNext, BeginEdit, ClaimTask, ClaimNextTask,
                HeartbeatTask, ReadRow, WriteRow, Abandon, Finish, TypeOK
  <2> DEFINE Stamped(q) == /\ q.op # "idle" => q.now \in 1 .. clock
                           /\ q.op \in {"claim", "heartbeat", "next"} => q.until > q.now
  <2>2. Stamped(Idle)
    BY DEF Idle
  <2>3. Stamped(req'[w])
    <3>1. ASSUME NEW op \in {"claim", "heartbeat"}, NEW a \in Agent, NEW t \in Task,
                 NEW d \in LeaseLength, BeginClaim(w, op, a, t, d)
          PROVE Stamped(req'[w])
      BY <3>1, QueueAssumption DEF BeginClaim, TypeOK
    <3>2. ASSUME NEW a \in Agent, NEW p \in Project, NEW d \in LeaseLength,
                 BeginNext(w, a, p, d)
          PROVE Stamped(req'[w])
      BY <3>2, QueueAssumption DEF BeginNext, TypeOK
    <3>3. ASSUME NEW e \in Edits, BeginEdit(w, e) PROVE Stamped(req'[w])
      BY <3>3 DEF BeginEdit, TypeOK
    <3>4. CASE ReadRow(w)
      <4>1. req[w].now \in 1 .. clock
        BY <3>4 DEF ReadRow, StampsArePast
      <4>2. clock \in 1 .. clock /\ \A n \in req[w].now .. clock : n \in 1 .. clock
        BY <4>1 DEF TypeOK
      <4>3. CASE req'[w] = Idle
        BY <4>3, <2>2
      <4>4. CASE \E n \in 1 .. clock : req'[w] =
                   [op |-> "write", edit |-> req[w].edit,
                    cur |-> row[req[w].edit.task], now |-> n]
        BY <4>4
      <4>5. QED
        BY <3>4, <4>2, <4>3, <4>4 DEF ReadRow, Finish, TypeOK
    <3>5. CASE \/ ClaimTask(w) \/ ClaimNextTask(w) \/ HeartbeatTask(w)
               \/ WriteRow(w) \/ Abandon(w)
      BY <3>5, <2>2 DEF ClaimTask, ClaimNextTask, HeartbeatTask, WriteRow, Abandon,
                        Finish, TypeOK
    <3>6. QED
      BY <1>3, <3>1, <3>2, <3>3, <3>4, <3>5 DEF WorkerStep
  <2>4. QED
    BY <2>1, <2>3 DEF StampsArePast
<1>4. QED
  BY <1>1, <1>2, <1>3 DEF Next

\* The copy an edit reads is a row of a table where CompletedIffDone holds.
LEMMA CopiesStep ==
  ASSUME TypeOK, CopiesAreChecked, CompletedIffDone, [Next]_vars
  PROVE  CopiesAreChecked'
<1>1. CASE req' = req
  BY <1>1 DEF CopiesAreChecked
<1>2. ASSUME NEW w \in Worker, WorkerStep(w) PROVE CopiesAreChecked'
  <2>1. \A v \in Worker \ {w} : req'[v] = req[v]
    BY <1>2 DEF WorkerStep, BeginClaim, BeginNext, BeginEdit, ClaimTask, ClaimNextTask,
                HeartbeatTask, ReadRow, WriteRow, Abandon, Finish, TypeOK
  <2>2. CASE ReadRow(w)
    <3>1. \/ req'[w] = Idle
          \/ /\ \E n \in Nat : req'[w] = [op |-> "write", edit |-> req[w].edit,
                                        cur |-> row[req[w].edit.task], now |-> n]
             /\ req[w].edit.task \in live
             /\ OwnerAllows(req[w].edit, row[req[w].edit.task])
             /\ IfStateHolds(req[w].edit, row[req[w].edit.task])
      <4>1. req[w].now \in Nat
        BY <2>2 DEF ReadRow, TypeOK, Request, Idle, ClaimReq, NextReq, EditReq, WriteReq
      <4>2. clock \in Nat /\ \A n \in req[w].now .. clock : n \in Nat
        BY <4>1 DEF TypeOK
      <4>3. QED
        BY <2>2, <4>2 DEF ReadRow, Finish, TypeOK
    <3>2. CASE req'[w] = Idle
      BY <2>1, <3>2 DEF CopiesAreChecked, OwnerAllows, IfStateHolds, Idle
    <3>3. CASE req'[w] # Idle
      <4>n. PICK n \in Nat : req'[w] = [op |-> "write", edit |-> req[w].edit,
                                      cur |-> row[req[w].edit.task], now |-> n]
        BY <3>1, <3>3
      <4>1. /\ req'[w].edit = req[w].edit
            /\ req'[w].cur = row[req[w].edit.task]
        BY <4>n
      <4>2. OwnerAllows(req'[w].edit, req'[w].cur) /\ IfStateHolds(req'[w].edit, req'[w].cur)
        BY <3>1, <3>3, <4>1
      <4>3. req'[w].cur.state = "done" <=> req'[w].cur.completed # 0
        BY <3>1, <3>3, <4>1 DEF CompletedIffDone
      <4>4. QED
        BY <2>1, <4>2, <4>3 DEF CopiesAreChecked, OwnerAllows, IfStateHolds
    <3>4. QED
      BY <3>2, <3>3
  <2>3. CASE ~ReadRow(w)
    <3>1. req'[w].op # "write"
      BY <1>2, <2>3 DEF WorkerStep, BeginClaim, BeginNext, BeginEdit, ClaimTask,
                  ClaimNextTask, HeartbeatTask, WriteRow, Abandon, Finish, TypeOK, Idle
    <3>2. QED
      BY <2>1, <3>1 DEF CopiesAreChecked, OwnerAllows, IfStateHolds
  <2>4. QED
    BY <2>2, <2>3
<1>3. QED
  BY <1>1, <1>2 DEF Next, GraphStep, RowStep, Tick, NewTask, RemoveTask, RemoveProject,
                    ReleaseTask, vars, queueVars

\* An edit writes a row that is done exactly when it is stamped.
LEMMA WrittenRowKeepsCompletion ==
  ASSUME NEW q \in WriteReq, NEW r \in Row, q.now # 0,
         q.cur.state = "done" <=> q.cur.completed # 0
  PROVE  WrittenRow(r, q).state = "done" <=> WrittenRow(r, q).completed # 0
BY QueueAssumption DEF WrittenRow, NewState, NewCompleted, WriteReq, Edit, Row

\* No step separates the done state from its stamp.
LEMMA CompletedStep ==
  ASSUME TypeOK, StampsArePast, CopiesAreChecked, CompletedIffDone, [Next]_vars
  PROVE  CompletedIffDone'
<1>1. CASE GraphStep \/ Tick \/ UNCHANGED vars
  BY <1>1 DEF GraphStep, EdgeStep, BeginAdd, WalkStep, InsertEdge, AbandonAdd,
              DeleteDependency, Tick, vars, depsVars, queueVars, CompletedIffDone
<1>2. CASE RowStep
  <2>1. ASSUME NEW t \in Task, NEW p \in Priority, NEW s \in {"pending", "start"},
               NewTask(t, p, s)
        PROVE CompletedIffDone'
    BY <2>1 DEF NewTask, CreateTask, Unclaimed, CompletedIffDone, TypeOK
  <2>2. ASSUME NEW t \in Task, RemoveTask(t) PROVE CompletedIffDone'
    BY <2>2 DEF RemoveTask, DeleteTask, CompletedIffDone, TypeOK, DepsTypeOK
  <2>3. ASSUME NEW p \in Project, RemoveProject(p) PROVE CompletedIffDone'
    BY <2>3 DEF RemoveProject, DeleteProject, CompletedIffDone, TypeOK, DepsTypeOK
  <2>4. ASSUME NEW t \in Task, NEW a \in Agent \cup {NoAgent}, NEW force \in BOOLEAN,
               ReleaseTask(t, a, force)
        PROVE CompletedIffDone'
    <3>1. live' = live /\ \A u \in live : /\ row'[u].state = row[u].state
                                        /\ row'[u].completed = row[u].completed
      BY <2>4 DEF ReleaseTask, depsVars, TypeOK, DepsTypeOK, Row
    <3>2. QED
      BY <3>1 DEF CompletedIffDone
  <2>5. QED
    BY <1>2, <2>1, <2>2, <2>3, <2>4 DEF RowStep
<1>3. ASSUME NEW w \in Worker, WorkerStep(w) PROVE CompletedIffDone'
  <2>1. CASE row' = row /\ live' = live
    BY <2>1 DEF CompletedIffDone
  <2>2. CASE /\ live' = live
             /\ \E t \in Task, r \in Row :
                  /\ row' = [row EXCEPT ![t] = r]
                  /\ r.state = row[t].state /\ r.completed = row[t].completed
    BY <2>2 DEF CompletedIffDone, TypeOK, DepsTypeOK
  <2>3. CASE WriteRow(w)
    <3>1. req[w] \in WriteReq /\ req[w].now # 0
      BY <2>3 DEF WriteRow, StampsArePast, TypeOK, Request, Idle, ClaimReq, NextReq,
                  EditReq, WriteReq
    <3>2. req[w].edit.task \in Task /\ row[req[w].edit.task] \in Row
      BY <3>1 DEF TypeOK, WriteReq, Edit
    <3> DEFINE new == WrittenRow(row[req[w].edit.task], req[w])
    <3>3. new.state = "done" <=> new.completed # 0
      BY <2>3, <3>1, <3>2, WrittenRowKeepsCompletion DEF WriteRow, CopiesAreChecked
    <3>4. live' = live /\ (row' = row \/ row' = [row EXCEPT ![req[w].edit.task] = new])
      BY <2>3 DEF WriteRow, depsVars
    <3>5. QED
      BY <3>2, <3>3, <3>4 DEF CompletedIffDone, TypeOK, DepsTypeOK
  <2>4. CASE ClaimTask(w)
    <3>1. req[w] \in ClaimReq
      BY <2>4 DEF ClaimTask, TypeOK, Request, Idle, ClaimReq, NextReq, EditReq, WriteReq
    <3>2. req[w].task \in Task
      BY <3>1 DEF ClaimReq
    <3>3. \/ row' = row
          \/ row' = [row EXCEPT ![req[w].task] = ClaimedBy(row[req[w].task], req[w])]
      BY <2>4 DEF ClaimTask
    <3>4. \A t \in Task : /\ ClaimedBy(row[t], req[w]) \in Row
                          /\ ClaimedBy(row[t], req[w]).state = row[t].state
                          /\ ClaimedBy(row[t], req[w]).completed = row[t].completed
      BY <3>1, ClaimedRowIsARow DEF TypeOK, ClaimedBy, Row
    <3>5. live' = live
      BY <2>4 DEF ClaimTask, depsVars
    <3>6. QED
      BY <2>1, <2>2, <3>2, <3>3, <3>4, <3>5
  <2>5. CASE ClaimNextTask(w)
    <3>1. req[w] \in NextReq
      BY <2>5 DEF ClaimNextTask, TypeOK, Request, Idle, ClaimReq, NextReq, EditReq, WriteReq
    <3>2. \/ row' = row
          \/ \E t \in Task : row' = [row EXCEPT ![t] = ClaimedBy(row[t], req[w])]
      BY <2>5 DEF ClaimNextTask
    <3>3. \A t \in Task : /\ ClaimedBy(row[t], req[w]) \in Row
                          /\ ClaimedBy(row[t], req[w]).state = row[t].state
                          /\ ClaimedBy(row[t], req[w]).completed = row[t].completed
      BY <3>1, ClaimedRowIsARow DEF TypeOK, ClaimedBy, Row
    <3>4. live' = live
      BY <2>5 DEF ClaimNextTask, depsVars
    <3>5. QED
      BY <2>1, <2>2, <3>2, <3>3, <3>4
  <2>6. CASE HeartbeatTask(w)
    BY <2>6 DEF HeartbeatTask, depsVars, CompletedIffDone, TypeOK, Row
  <2>7. QED
    BY <1>3, <2>1, <2>3, <2>4, <2>5, <2>6
       DEF WorkerStep, BeginClaim, BeginNext, BeginEdit, ReadRow, Abandon, depsVars
<1>4. QED
  BY <1>1, <1>2, <1>3 DEF Next

\* The invariant is inductive.
LEMMA QueueInvStep == QueueInv /\ [Next]_vars => QueueInv'
BY TypeStep, StampsStep, CopiesStep, CompletedStep DEF QueueInv

\* The inductive invariant: a write in flight carries a copy that passed its
\* checks and a stamp of the past, which is what the table needs of it.
THEOREM QueueInvariant == Spec => []QueueInv
<1>1. Init => QueueInv
  <2>1. Absent \in Row
    BY UnclaimedIsARow, QueueAssumption DEF TaskState, Absent
  <2>2. QED
    BY <2>1 DEF Init, DepsInit, QueueInv, TypeOK, DepsTypeOK, StampsArePast,
         CopiesAreChecked, CompletedIffDone, Request, Idle
<1>2. QED
  BY <1>1, QueueInvStep, PTL DEF Spec

\* Every column and every request keeps its type.
THEOREM QueueTypeCorrect == Spec => []TypeOK
BY QueueInvariant, PTL DEF QueueInv

\* completed_at is set exactly on done tasks.
THEOREM CompletedExactlyWhenDone == Spec => []CompletedIffDone
BY QueueInvariant, PTL DEF QueueInv

-----------------------------------------------------------------------------
\* Who owns a task.

\* Only a claim installs an owner, and it does so where the statement's WHERE
\* clause holds in the very state it changes.
LEMMA NewOwnerClaims ==
  ASSUME TypeOK, [Next]_vars, NEW t \in Task,
         row'[t].owner \notin {NoAgent, row[t].owner}
  PROVE  \E w \in Worker : /\ req[w].op \in {"claim", "next"}
                           /\ req[w].agent = row'[t].owner
                           /\ Claimable(t, req[w].agent, req[w].now)
<1>1. row[t] \in Row /\ row' # row
  BY DEF TypeOK
<1>2. CASE RowStep
  <2>1. ASSUME NEW u \in Task, NEW p \in Priority, NEW s \in {"pending", "start"},
               NewTask(u, p, s)
        PROVE FALSE
    BY <2>1 DEF NewTask, Unclaimed, TypeOK
  <2>2. ASSUME NEW u \in Task, RemoveTask(u) PROVE FALSE
    BY <2>2 DEF RemoveTask, Absent, Unclaimed, TypeOK
  <2>3. ASSUME NEW p \in Project, RemoveProject(p) PROVE FALSE
    BY <2>3 DEF RemoveProject, Absent, Unclaimed, TypeOK
  <2>4. ASSUME NEW u \in Task, NEW a \in Agent \cup {NoAgent}, NEW force \in BOOLEAN,
               ReleaseTask(u, a, force)
        PROVE FALSE
    <3>1. row'[t].owner = IF t = u THEN NoAgent ELSE row[t].owner
      BY <1>1, <2>4 DEF ReleaseTask, TypeOK, Row
    <3>2. QED
      BY <3>1
  <2>5. QED
    BY <1>2, <2>1, <2>2, <2>3, <2>4 DEF RowStep
<1>3. ASSUME NEW w \in Worker, WorkerStep(w)
      PROVE /\ req[w].op \in {"claim", "next"}
            /\ req[w].agent = row'[t].owner
            /\ Claimable(t, req[w].agent, req[w].now)
  <2>1. CASE ClaimTask(w)
    <3>1. req[w] \in ClaimReq
      BY <2>1 DEF ClaimTask, TypeOK, Request, Idle, ClaimReq, NextReq, EditReq, WriteReq
    <3>2. /\ Claimable(req[w].task, req[w].agent, req[w].now)
          /\ row' = [row EXCEPT ![req[w].task] = ClaimedBy(row[req[w].task], req[w])]
      BY <2>1, <1>1 DEF ClaimTask
    <3>3. t = req[w].task
      BY <3>1, <3>2 DEF TypeOK
    <3>4. row'[t].owner = req[w].agent
      BY <1>1, <3>2, <3>3 DEF ClaimedBy, TypeOK, Row
    <3>5. QED
      BY <2>1, <3>2, <3>3, <3>4 DEF ClaimTask
  <2>2. CASE ClaimNextTask(w)
    <3>1. PICK u \in Task : /\ Claimable(u, req[w].agent, req[w].now)
                           /\ row' = [row EXCEPT ![u] = ClaimedBy(row[u], req[w])]
      BY <2>2, <1>1 DEF ClaimNextTask
    <3>2. t = u
      BY <3>1 DEF TypeOK
    <3>3. row'[t].owner = req[w].agent
      BY <1>1, <3>1, <3>2 DEF ClaimedBy, TypeOK, Row
    <3>4. QED
      BY <2>2, <3>1, <3>2, <3>3 DEF ClaimNextTask
  <2>3. CASE HeartbeatTask(w)
    BY <2>3, <1>1 DEF HeartbeatTask, TypeOK, Row
  <2>4. CASE WriteRow(w)
    <3>1. row'[t] = row[t] \/ row'[t] = WrittenRow(row[t], req[w])
      BY <2>4 DEF WriteRow, TypeOK
    <3>2. QED
      BY <1>1, <3>1 DEF WrittenRow, Row
  <2>5. QED
    BY <1>1, <1>3, <2>1, <2>2, <2>3, <2>4
       DEF WorkerStep, BeginClaim, BeginNext, BeginEdit, ReadRow, Abandon
<1>4. QED
  BY <1>1, <1>2, <1>3 DEF Next, GraphStep, Tick, vars, queueVars

\* A claim is never taken over while its lease runs, however late the
\* claimer's statement executes: an old stamp only makes it more cautious.
THEOREM HandoverNeedsExpiry == Spec => HandoverOnlyAfterExpiry
<1> DEFINE Handover ==
      \A t \in live \cap live' :
        LET old == row[t]
            new == row'[t] IN
        old.owner # new.owner /\ NoAgent \notin {old.owner, new.owner}
          => old.lease <= clock
<1>1. ASSUME QueueInv, [Next]_vars PROVE Handover
  <2>1. SUFFICES ASSUME NEW t \in live,
                        row[t].owner # row'[t].owner,
                        NoAgent \notin {row[t].owner, row'[t].owner}
                 PROVE  row[t].lease <= clock
    OBVIOUS
  <2>2. t \in Task /\ TypeOK
    BY <1>1 DEF QueueInv, TypeOK, DepsTypeOK
  <2>3. PICK w \in Worker : /\ req[w].op \in {"claim", "next"}
                           /\ req[w].agent = row'[t].owner
                           /\ Claimable(t, req[w].agent, req[w].now)
    BY <1>1, <2>1, <2>2, NewOwnerClaims
  <2>4. row[t].lease <= req[w].now
    BY <2>1, <2>3 DEF Claimable, Free
  <2>5. req[w].now \in 1 .. clock
    BY <1>1, <2>3 DEF QueueInv, StampsArePast
  <2>6. QED
    BY <2>2, <2>4, <2>5 DEF TypeOK, Row
<1>2. QED
  BY <1>1, QueueInvariant, PTL DEF Spec, HandoverOnlyAfterExpiry

\* Nobody comes to own a task that is parked, done or waiting: the WHERE
\* clause is evaluated by the statement that writes the claim.
THEOREM OnlyRunnableIsClaimed == Spec => ClaimsOnlyRunnable
<1> DEFINE Claims ==
      \A t \in Task : row'[t].owner \notin {NoAgent, row[t].owner} => Runnable(t)
<1>1. ASSUME QueueInv, [Next]_vars PROVE Claims
  BY <1>1, NewOwnerClaims DEF QueueInv, Claimable
<1>2. QED
  BY <1>1, QueueInvariant, PTL DEF Spec, ClaimsOnlyRunnable

\* Only the UPDATE of an edit changes the state or priority of a live task.
LEMMA ContentChangesByEdit ==
  ASSUME TypeOK, [Next]_vars, NEW t \in live \cap live',
         <<row'[t].state, row'[t].prio>> # <<row[t].state, row[t].prio>>
  PROVE  \E w \in Worker : /\ req[w].op = "write" /\ req[w].edit.task = t
                           /\ WriteMatches(req[w])
                           /\ row'[t] = WrittenRow(row[t], req[w])
<1>1. t \in Task /\ t \notin unborn /\ row[t] \in Row /\ row' # row
  BY DEF TypeOK, DepsTypeOK
<1>2. CASE RowStep
  <2>1. ASSUME NEW p \in Project, RemoveProject(p) PROVE FALSE
    <3>1. t \in live'
      OBVIOUS
    <3>2. ProjectOf[t] # p
      BY <1>1, <2>1, <3>1 DEF RemoveProject, DeleteProject
    <3>3. row'[t] = row[t]
      BY <1>1, <2>1, <3>2 DEF RemoveProject
    <3>4. QED
      BY <3>3
  <2>2. ASSUME NEW u \in Task, NEW p \in Priority, NEW s \in {"pending", "start"},
               NewTask(u, p, s)
        PROVE FALSE
    <3>1. u # t
      BY <2>2 DEF NewTask, CreateTask, TypeOK, DepsTypeOK
    <3>2. QED
      BY <2>2, <3>1 DEF NewTask, TypeOK
  <2>3. ASSUME NEW u \in Task, RemoveTask(u) PROVE FALSE
    <3>1. u # t
      BY <2>3 DEF RemoveTask, DeleteTask
    <3>2. QED
      BY <2>3, <3>1 DEF RemoveTask, TypeOK
  <2>4. ASSUME NEW u \in Task, NEW a \in Agent \cup {NoAgent}, NEW force \in BOOLEAN,
               ReleaseTask(u, a, force)
        PROVE FALSE
    <3>1. row'[t].state = row[t].state /\ row'[t].prio = row[t].prio
      BY <1>1, <2>4 DEF ReleaseTask, TypeOK, Row
    <3>2. QED
      BY <3>1
  <2>5. QED
    BY <1>2, <2>1, <2>2, <2>3, <2>4 DEF RowStep
<1>3. ASSUME NEW w \in Worker, WorkerStep(w)
      PROVE /\ req[w].op = "write" /\ req[w].edit.task = t
            /\ WriteMatches(req[w])
            /\ row'[t] = WrittenRow(row[t], req[w])
  <2>1. CASE ClaimTask(w) \/ ClaimNextTask(w)
    <3>1. row'[t] \in {row[t], ClaimedBy(row[t], req[w])}
      BY <1>1, <2>1 DEF ClaimTask, ClaimNextTask, TypeOK
    <3>2. QED
      BY <1>1, <3>1 DEF ClaimedBy, Row
  <2>2. CASE HeartbeatTask(w)
    BY <2>2, <1>1 DEF HeartbeatTask, TypeOK, Row
  <2>3. CASE WriteRow(w)
    BY <2>3, <1>1 DEF WriteRow, TypeOK
  <2>4. QED
    BY <1>1, <1>3, <2>1, <2>2, <2>3
       DEF WorkerStep, BeginClaim, BeginNext, BeginEdit, ReadRow, Abandon
<1>4. QED
  BY <1>1, <1>2, <1>3 DEF Next, GraphStep, Tick, vars, queueVars

\* Without force an edit never lands on a task that another agent owns when
\* it lands: the owner column it compares is the one its checks were made on.
THEOREM EditsNeedOwnership == Spec => EditsRespectOwner
<1> DEFINE Respect ==
      \A t \in live \cap live' :
        <<row'[t].state, row'[t].prio>> # <<row[t].state, row[t].prio>> =>
          \E w \in Worker :
            /\ req[w].op = "write" /\ req[w].edit.task = t
            /\ OwnerAllows(req[w].edit, row[t])
<1>1. ASSUME QueueInv, [Next]_vars PROVE Respect
  <2>1. SUFFICES ASSUME NEW t \in live \cap live',
                        <<row'[t].state, row'[t].prio>> # <<row[t].state, row[t].prio>>
                 PROVE \E w \in Worker :
                         /\ req[w].op = "write" /\ req[w].edit.task = t
                         /\ OwnerAllows(req[w].edit, row[t])
    OBVIOUS
  <2>2. PICK w \in Worker :
          req[w].op = "write" /\ req[w].edit.task = t /\ WriteMatches(req[w])
    BY <1>1, <2>1, ContentChangesByEdit DEF QueueInv
  <2>3. OwnerAllows(req[w].edit, req[w].cur)
    BY <1>1, <2>2 DEF QueueInv, CopiesAreChecked
  <2>4. OwnerAllows(req[w].edit, row[t])
    BY <2>2, <2>3 DEF OwnerAllows, WriteMatches
  <2>5. QED
    BY <2>2, <2>4
<1>2. QED
  BY <1>1, QueueInvariant, PTL DEF Spec, EditsRespectOwner

\* A state is only moved to where a request in flight wants it.  An edit that
\* names the state it expects found it in the row it read and finds it again in
\* the row it writes, so what it carries back is what is there.
THEOREM StatesMoveAsAsked == Spec => StateMovesOnlyAsAsked
<1> DEFINE Moves ==
      \A t \in live \cap live' :
        row'[t].state # row[t].state =>
          \E w \in Worker :
            /\ req[w].op = "write" /\ req[w].edit.task = t
            /\ row'[t].state = NewState(req[w])
            /\ req[w].edit.state = Nil => req[w].edit.ifState = Nil
<1>1. ASSUME QueueInv, [Next]_vars PROVE Moves
  <2>1. SUFFICES ASSUME NEW t \in live \cap live', row'[t].state # row[t].state
                 PROVE \E w \in Worker :
                         /\ req[w].op = "write" /\ req[w].edit.task = t
                         /\ row'[t].state = NewState(req[w])
                         /\ req[w].edit.state = Nil => req[w].edit.ifState = Nil
    OBVIOUS
  <2>2. PICK w \in Worker : /\ req[w].op = "write" /\ req[w].edit.task = t
                           /\ WriteMatches(req[w])
                           /\ row'[t] = WrittenRow(row[t], req[w])
    BY <1>1, <2>1, ContentChangesByEdit DEF QueueInv
  <2>3. row'[t].state = NewState(req[w])
    BY <1>1, <2>2 DEF WrittenRow, QueueInv, TypeOK, DepsTypeOK, Row
  <2>4. ASSUME req[w].edit.state = Nil, req[w].edit.ifState # Nil PROVE FALSE
    <3>1. req[w].cur.state = req[w].edit.ifState
      BY <1>1, <2>2, <2>4 DEF QueueInv, CopiesAreChecked, IfStateHolds
    <3>2. row[t].state = req[w].edit.ifState
      BY <2>2, <2>4 DEF WriteMatches, IfStateHolds
    <3>3. QED
      BY <2>1, <2>3, <2>4, <3>1, <3>2 DEF NewState
  <2>5. QED
    BY <2>2, <2>3, <2>4
<1>2. QED
  BY <1>1, QueueInvariant, PTL DEF Spec, StateMovesOnlyAsAsked

\* What can move the lease of a live, owned task that stays with its owner:
\* a claim or heartbeat of the owner, or an UPDATE that renews it.
LEMMA LeaseMoves ==
  ASSUME TypeOK, [Next]_vars, NEW t \in live \cap live',
         row[t].owner # NoAgent, row'[t].owner = row[t].owner,
         row'[t].lease # row[t].lease
  PROVE  \E w \in Worker :
           \/ /\ req[w].op \in {"claim", "next", "heartbeat"}
              /\ req[w].agent = row[t].owner
           \/ /\ req[w].op = "write" /\ req[w].edit.task = t
              /\ WriteMatches(req[w]) /\ RenewsLease(req[w])
<1>1. t \in Task /\ t \notin unborn /\ row[t] \in Row /\ row' # row
  BY DEF TypeOK, DepsTypeOK
<1>2. CASE RowStep
  <2>1. ASSUME NEW p \in Project, RemoveProject(p) PROVE FALSE
    <3>1. ProjectOf[t] # p
      BY <1>1, <2>1 DEF RemoveProject, DeleteProject
    <3>2. QED
      BY <1>1, <2>1, <3>1 DEF RemoveProject
  <2>2. ASSUME NEW u \in Task, NEW p \in Priority, NEW s \in {"pending", "start"},
               NewTask(u, p, s)
        PROVE FALSE
    <3>1. u # t
      BY <2>2 DEF NewTask, CreateTask, TypeOK, DepsTypeOK
    <3>2. QED
      BY <2>2, <3>1 DEF NewTask, TypeOK
  <2>3. ASSUME NEW u \in Task, RemoveTask(u) PROVE FALSE
    <3>1. u # t
      BY <2>3 DEF RemoveTask, DeleteTask
    <3>2. QED
      BY <2>3, <3>1 DEF RemoveTask, TypeOK
  <2>4. ASSUME NEW u \in Task, NEW a \in Agent \cup {NoAgent}, NEW force \in BOOLEAN,
               ReleaseTask(u, a, force)
        PROVE FALSE
    <3>1. row'[t].owner = IF t = u THEN NoAgent ELSE row[t].owner
      BY <1>1, <2>4 DEF ReleaseTask, TypeOK, Row
    <3>2. u # t
      BY <3>1
    <3>3. QED
      BY <1>1, <2>4, <3>2 DEF ReleaseTask, TypeOK
  <2>5. QED
    BY <1>2, <2>1, <2>2, <2>3, <2>4 DEF RowStep
<1>3. ASSUME NEW w \in Worker, WorkerStep(w)
      PROVE \/ /\ req[w].op \in {"claim", "next", "heartbeat"}
               /\ req[w].agent = row[t].owner
            \/ /\ req[w].op = "write" /\ req[w].edit.task = t
               /\ WriteMatches(req[w]) /\ RenewsLease(req[w])
  <2>1. CASE ClaimTask(w) \/ ClaimNextTask(w)
    <3>1. row'[t] \in {row[t], ClaimedBy(row[t], req[w])}
      BY <1>1, <2>1 DEF ClaimTask, ClaimNextTask, TypeOK
    <3>2. row'[t].owner = req[w].agent
      BY <1>1, <3>1 DEF ClaimedBy, Row
    <3>3. QED
      BY <2>1, <3>2 DEF ClaimTask, ClaimNextTask
  <2>2. CASE HeartbeatTask(w)
    BY <2>2, <1>1 DEF HeartbeatTask, TypeOK, Row
  <2>3. CASE WriteRow(w)
    <3>1. /\ req[w].op = "write" /\ req[w].edit.task = t /\ WriteMatches(req[w])
          /\ row'[t] = WrittenRow(row[t], req[w])
      BY <1>1, <2>3 DEF WriteRow, TypeOK
    <3>2. RenewsLease(req[w])
      BY <1>1, <3>1 DEF WrittenRow, Row
    <3>3. QED
      BY <3>1, <3>2
  <2>4. QED
    BY <1>1, <1>3, <2>1, <2>2, <2>3
       DEF WorkerStep, BeginClaim, BeginNext, BeginEdit, ReadRow, Abandon
<1>4. QED
  BY <1>1, <1>2, <1>3 DEF Next, GraphStep, Tick, vars, queueVars

\* A lease answers to its owner: an edit renews it only if the agent owned the
\* row it read, and without force it only lands while that owner is the owner.
THEOREM LeasesAnswerToTheOwner == Spec => LeasesMoveForTheirOwner
<1> DEFINE Moves ==
      \A t \in live \cap live' :
        /\ row[t].owner # NoAgent /\ row'[t].owner = row[t].owner
        /\ row'[t].lease # row[t].lease
        => \E w \in Worker :
             \/ /\ req[w].op \in {"claim", "next", "heartbeat"}
                /\ req[w].agent = row[t].owner
             \/ /\ req[w].op = "write" /\ req[w].edit.task = t
                /\ req[w].edit.force \/ req[w].edit.agent = row[t].owner
<1>1. ASSUME QueueInv, [Next]_vars PROVE Moves
  <2>1. SUFFICES ASSUME NEW t \in live \cap live',
                        row[t].owner # NoAgent, row'[t].owner = row[t].owner,
                        row'[t].lease # row[t].lease
                 PROVE  \E w \in Worker :
                          \/ /\ req[w].op \in {"claim", "next", "heartbeat"}
                             /\ req[w].agent = row[t].owner
                          \/ /\ req[w].op = "write" /\ req[w].edit.task = t
                             /\ req[w].edit.force \/ req[w].edit.agent = row[t].owner
    OBVIOUS
  <2>2. ASSUME NEW w \in Worker, req[w].edit.task = t,
               WriteMatches(req[w]), RenewsLease(req[w])
        PROVE  req[w].edit.force \/ req[w].edit.agent = row[t].owner
    BY <2>2 DEF WriteMatches, RenewsLease
  <2>3. QED
    BY <1>1, <2>1, <2>2, LeaseMoves DEF QueueInv
<1>2. QED
  BY <1>1, QueueInvariant, PTL DEF Spec, LeasesMoveForTheirOwner

-----------------------------------------------------------------------------
\* The tables implement the abstract claim of ClaimLease.

\* The holder of a lease is an agent or nobody.
LEMMA HolderIsAgent ==
  ASSUME TypeOK PROVE \A t \in Task : Holder[t] \in Agent \cup {NoAgent}
BY DEF Holder, TypeOK, Row

\* Claims that end, together or one by one, are a lapse.
LEMMA FewerHoldersLapse ==
  ASSUME \A t \in Task : Holder'[t] \in {Holder[t], NoAgent}
  PROVE  [Lease!Next]_Holder
<1> DEFINE T == {t \in Task : Holder'[t] # Holder[t]}
<1>1. Holder' = [t \in Task |-> IF t \in T THEN NoAgent ELSE Holder[t]]
  BY DEF Holder
<1>2. CASE T = {}
  BY <1>1, <1>2 DEF Holder
<1>3. CASE T # {}
  BY <1>1, <1>3 DEF Lease!Next, Lease!Lapse
<1>4. QED
  BY <1>2, <1>3

\* Changing one row acquires, ends or keeps one claim, unless it moves a
\* running claim to somebody else.
LEMMA OneRowIsALeaseStep ==
  ASSUME TypeOK, NEW t \in Task, NEW r \in Row,
         live' = live, clock' = clock, row' = [row EXCEPT ![t] = r],
         Holder[t] # NoAgent => r.owner \in {NoAgent, row[t].owner}
  PROVE  [Lease!Next]_Holder
<1>1. \A u \in Task \ {t} : Holder'[u] = Holder[u]
  BY DEF Holder, TypeOK
<1>2. Holder'[t] \in {NoAgent, r.owner}
  BY DEF Holder, TypeOK
<1>3. CASE Holder[t] = NoAgent /\ Holder'[t] # NoAgent
  <2>1. Holder'[t] \in Agent
    BY <1>2, <1>3 DEF Row
  <2>2. Holder' = [Holder EXCEPT ![t] = Holder'[t]]
    <3>1. /\ Holder = [u \in Task |-> Holder[u]]
          /\ Holder' = [u \in Task |-> Holder'[u]]
      BY DEF Holder
    <3>2. QED
      BY <1>1, <3>1
  <2>3. QED
    BY <1>3, <2>1, <2>2 DEF Lease!Next, Lease!Acquire
<1>4. CASE Holder[t] # NoAgent \/ Holder'[t] = NoAgent
  <2>1. Holder[t] # NoAgent => Holder[t] = row[t].owner
    BY DEF Holder
  <2>2. \A u \in Task : Holder'[u] \in {Holder[u], NoAgent}
    BY <1>1, <1>2, <1>4, <2>1
  <2>3. QED
    BY <2>2, FewerHoldersLapse
<1>5. QED
  BY <1>3, <1>4

\* Where a claim's WHERE clause holds, no other agent's lease is running.
LEMMA ClaimableIsNotHeld ==
  ASSUME TypeOK, NEW t \in Task, NEW a \in Agent, NEW now \in 1 .. clock,
         Claimable(t, a, now), Holder[t] # NoAgent
  PROVE  row[t].owner = a
BY DEF Claimable, Free, Holder, TypeOK, Row

\* Every step is a step of the abstract lease, or leaves the holders alone.
LEMMA LeaseStep == QueueInv /\ [Next]_vars => [Lease!Next]_Holder
<1> SUFFICES ASSUME QueueInv, [Next]_vars PROVE [Lease!Next]_Holder
  OBVIOUS
<1>t. TypeOK /\ clock \in Nat /\ clock >= 1
  BY DEF QueueInv, TypeOK
<1>1. CASE row' = row /\ live' = live /\ clock' = clock
  BY <1>1 DEF Holder
<1>2. CASE Tick
  <2>1. \A t \in Task : Holder'[t] \in {Holder[t], NoAgent}
    BY <1>t, <1>2 DEF Tick, Holder, depsVars, TypeOK, Row
  <2>2. QED
    BY <2>1, FewerHoldersLapse
<1>3. CASE RowStep
  <2>1. ASSUME NEW t \in Task, NEW p \in Priority, NEW s \in {"pending", "start"},
               NewTask(t, p, s)
        PROVE \A u \in Task : Holder'[u] \in {Holder[u], NoAgent}
    <3>1. /\ clock' = clock /\ live' = live \cup {t}
          /\ \A u \in Task \ {t} : row'[u] = row[u]
      BY <1>t, <2>1 DEF NewTask, CreateTask, TypeOK
    <3>2. row'[t].owner = NoAgent
      BY <1>t, <2>1 DEF NewTask, Unclaimed, TypeOK
    <3>3. QED
      BY <3>1, <3>2 DEF Holder
  <2>2. ASSUME NEW t \in Task, RemoveTask(t)
        PROVE \A u \in Task : Holder'[u] \in {Holder[u], NoAgent}
    BY <1>t, <2>2 DEF RemoveTask, DeleteTask, Holder, TypeOK
  <2>3. ASSUME NEW p \in Project, RemoveProject(p)
        PROVE \A u \in Task : Holder'[u] \in {Holder[u], NoAgent}
    BY <1>t, <2>3 DEF RemoveProject, DeleteProject, Holder, TypeOK
  <2>4. ASSUME NEW t \in Task, NEW a \in Agent \cup {NoAgent}, NEW force \in BOOLEAN,
               ReleaseTask(t, a, force)
        PROVE \A u \in Task : Holder'[u] \in {Holder[u], NoAgent}
    <3>1. /\ clock' = clock /\ live' = live
          /\ \A u \in Task \ {t} : row'[u] = row[u]
      BY <1>t, <2>4 DEF ReleaseTask, depsVars, TypeOK
    <3>2. row'[t].owner = NoAgent
      BY <1>t, <2>4 DEF ReleaseTask, TypeOK, Row
    <3>3. QED
      BY <3>1, <3>2 DEF Holder
  <2>5. QED
    BY <1>3, <2>1, <2>2, <2>3, <2>4, FewerHoldersLapse DEF RowStep
<1>4. ASSUME NEW w \in Worker, WorkerStep(w) PROVE [Lease!Next]_Holder
  <2>u. live' = live /\ clock' = clock
    BY <1>4 DEF WorkerStep, BeginClaim, BeginNext, BeginEdit, ClaimTask, ClaimNextTask,
                HeartbeatTask, ReadRow, WriteRow, Abandon, depsVars
  <2>1. CASE ClaimTask(w)
    <3>1. req[w] \in ClaimReq /\ req[w].now \in 1 .. clock
      BY <2>1 DEF ClaimTask, QueueInv, StampsArePast, TypeOK, Request, Idle, ClaimReq,
                  NextReq, EditReq, WriteReq
    <3>2. CASE Claimable(req[w].task, req[w].agent, req[w].now)
      <4> DEFINE r == ClaimedBy(row[req[w].task], req[w])
      <4>1. req[w].task \in Task /\ r \in Row /\ req[w].agent \in Agent
        BY <1>t, <3>1, ClaimedRowIsARow DEF ClaimReq, TypeOK
      <4>2. r.owner = req[w].agent
        BY <1>t, <4>1 DEF ClaimedBy, TypeOK, Row
      <4>3. row' = [row EXCEPT ![req[w].task] = r]
        BY <2>1, <3>2 DEF ClaimTask
      <4>4. QED
        BY <1>t, <2>u, <3>1, <3>2, <4>1, <4>2, <4>3, ClaimableIsNotHeld, OneRowIsALeaseStep
    <3>3. QED
      BY <1>1, <2>1, <2>u, <3>2 DEF ClaimTask
  <2>2. CASE ClaimNextTask(w)
    <3>1. req[w] \in NextReq /\ req[w].now \in 1 .. clock
      BY <2>2 DEF ClaimNextTask, QueueInv, StampsArePast, TypeOK, Request, Idle, ClaimReq,
                  NextReq, EditReq, WriteReq
    <3>2. CASE row' # row
      <4>1. PICK u \in Task : /\ Claimable(u, req[w].agent, req[w].now)
                             /\ row' = [row EXCEPT ![u] = ClaimedBy(row[u], req[w])]
        BY <2>2, <3>2 DEF ClaimNextTask
      <4> DEFINE r == ClaimedBy(row[u], req[w])
      <4>2. r \in Row /\ req[w].agent \in Agent
        BY <1>t, <3>1, ClaimedRowIsARow DEF NextReq, TypeOK
      <4>3. r.owner = req[w].agent
        BY <1>t DEF ClaimedBy, TypeOK, Row
      <4>4. QED
        BY <1>t, <2>u, <3>1, <4>1, <4>2, <4>3, ClaimableIsNotHeld, OneRowIsALeaseStep
    <3>3. QED
      BY <1>1, <2>u, <3>2
  <2>3. CASE HeartbeatTask(w) /\ row' # row
    <3>1. req[w] \in ClaimReq
      BY <2>3 DEF HeartbeatTask, TypeOK, QueueInv, Request, Idle, ClaimReq, NextReq,
                  EditReq, WriteReq
    <3> DEFINE r == [row[req[w].task] EXCEPT !.lease = req[w].until]
    <3>2. req[w].task \in Task /\ r \in Row /\ r.owner = row[req[w].task].owner
      BY <1>t, <3>1 DEF ClaimReq, TypeOK, Row
    <3>3. row' = [row EXCEPT ![req[w].task] = r]
      BY <2>3 DEF HeartbeatTask
    <3>4. QED
      BY <1>t, <2>u, <3>2, <3>3, OneRowIsALeaseStep
  <2>4. CASE WriteRow(w) /\ row' # row
    <3>1. req[w] \in WriteReq
      BY <2>4 DEF WriteRow, TypeOK, QueueInv, Request, Idle, ClaimReq, NextReq, EditReq,
                  WriteReq
    <3> DEFINE t == req[w].edit.task
               r == WrittenRow(row[t], req[w])
    <3>2. t \in Task /\ row[t] \in Row
      BY <1>t, <3>1 DEF WriteReq, Edit, TypeOK
    <3>3. r \in Row /\ r.owner = row[t].owner
      BY <3>1, <3>2, WrittenRowIsARow DEF WrittenRow, Row
    <3>4. row' = [row EXCEPT ![t] = r]
      BY <2>4 DEF WriteRow
    <3>5. QED
      BY <1>t, <2>u, <3>2, <3>3, <3>4, OneRowIsALeaseStep
  <2>5. QED
    BY <1>1, <1>4, <2>u, <2>1, <2>2, <2>3, <2>4
       DEF WorkerStep, BeginClaim, BeginNext, BeginEdit, ReadRow, Abandon
<1>5. QED
  BY <1>1, <1>2, <1>3, <1>4 DEF Next, GraphStep, EdgeStep, BeginAdd, WalkStep, InsertEdge,
     AbandonAdd, DeleteDependency, vars, depsVars, queueVars

\* Whatever the stamps, heartbeats and edits in flight, the table behaves like
\* the abstract lease: one holder per task, free before the next one.
THEOREM QueueImplementsLease == Spec => ImplementsLease
<1>1. Init => Lease!Init
  BY DEF Init, DepsInit, Lease!Init, Holder
<1>2. QED
  BY <1>1, LeaseStep, QueueInvariant, PTL DEF Spec, ImplementsLease, Lease!Spec
=============================================================================
