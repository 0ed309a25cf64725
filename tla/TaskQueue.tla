----------------------------- MODULE TaskQueue ------------------------------
(***************************************************************************)
(* The tasks table: agents claim runnable tasks under a lease, renew and   *)
(* release them, and edit them, while TaskDeps decides what is runnable.   *)
(*                                                                         *)
(* Handler goroutines run concurrently and one SQLite connection           *)
(* serialises their statements, so a step of this module is one statement  *)
(* or one transaction.  The service reads the wall clock before the        *)
(* statement runs: the "now" of a request may be old when it takes effect. *)
(*                                                                         *)
(* The definitions FreeSinceClaimed, ClaimableUnchecked, ClaimableByAnyone,*)
(* NewStateEvenIfAbsent, NewCompletedKept, WriteMatchesAnyOwner and        *)
(* WriteMatchesAnyState are slips that the properties must notice; nothing *)
(* uses them.                                                              *)
(***************************************************************************)
EXTENDS TaskDeps

CONSTANTS
  Agent, NoAgent,   \* registered agents, and the empty owner
  Worker,           \* handler goroutines serving claims and edits
  WorkStage,        \* the pipeline states in use between pending and done
  Priority,         \* task priorities
  LeaseLength,      \* lease lengths clients ask for, in clock ticks
  DefaultLease,     \* the lease an edit by the owner renews (6h)
  Edits,            \* the PATCH bodies clients send
  Nil,              \* a field absent from a PATCH body
  MaxClock          \* bound of the model on the wall clock

Stages == {"start", "spec", "dev", "test", "review"}
TaskState == {"pending", "done"} \cup WorkStage

\* A PATCH /tasks/:id request with its caller: the fields to change, the
\* optional if_state, and force.
Edit == [task: Task, agent: Agent \cup {NoAgent}, state: TaskState \cup {Nil},
         prio: Priority \cup {Nil}, ifState: TaskState \cup {Nil}, force: BOOLEAN]

ASSUME QueueAssumption ==
  /\ NoAgent \notin Agent
  /\ "start" \in WorkStage /\ WorkStage \subseteq Stages
  /\ Priority \subseteq Nat /\ 0 \in Priority
  /\ LeaseLength \subseteq Nat \ {0}
  /\ DefaultLease \in Nat \ {0}
  /\ Nil \notin TaskState /\ Nil \notin Priority
  /\ Edits \subseteq Edit
  /\ MaxClock \in Nat \ {0}

VARIABLES
  clock,       \* wall clock in ms; 0 means "unset" in every column
  row,         \* the row of each task; Absent for an id that is not live
  req          \* the request each worker is in the middle of

queueVars == <<clock, row, req>>
vars == <<depsVars, queueVars>>

-----------------------------------------------------------------------------

Row == [state: TaskState, prio: Priority, created: Nat, completed: Nat,
        owner: Agent \cup {NoAgent}, claimed: Nat, lease: Nat]

Unclaimed(s, p, now) ==
  [state |-> s, prio |-> p, created |-> now, completed |-> 0,
   owner |-> NoAgent, claimed |-> 0, lease |-> 0]
Absent == Unclaimed("pending", 0, 0)

Idle == [op |-> "idle"]
ClaimReq == [op: {"claim", "heartbeat"}, agent: Agent, task: Task, now: Nat, until: Nat]
NextReq == [op: {"next"}, agent: Agent, project: Project, now: Nat, until: Nat]
EditReq == [op: {"edit"}, edit: Edit, now: Nat]
WriteReq == [op: {"write"}, edit: Edit, now: Nat, cur: Row]
Request == {Idle} \cup ClaimReq \cup NextReq \cup EditReq \cup WriteReq

DependenciesDone(t) == \A d \in DependenciesOf(t) : row[d].state = "done"

\* The WHERE clause shared by task next and task claim: in the pipeline, not
\* waiting for anything, and free, already the caller's, or run out.
Runnable(t) ==
  /\ t \in live
  /\ row[t].state \notin {"pending", "done"}
  /\ DependenciesDone(t)
FreeSinceClaimed(t, a, now) == row[t].owner \in {NoAgent, a} \/ row[t].claimed < now
Free(t, a, now) == row[t].owner \in {NoAgent, a} \/ row[t].lease <= now
ClaimableUnchecked(t, a, now) == t \in live /\ Free(t, a, now)
ClaimableByAnyone(t, a, now) == Runnable(t)
Claimable(t, a, now) == Runnable(t) /\ Free(t, a, now)

\* The order task next offers work in: one's own first, then priority, then age.
Before(t, u, a) ==
  LET mine(x) == IF row[x].owner = a THEN 0 ELSE 1 IN
  \/ mine(t) < mine(u)
  \/ /\ mine(t) = mine(u)
     /\ \/ row[t].prio > row[u].prio
        \/ row[t].prio = row[u].prio /\ row[t].created < row[u].created

Init ==
  /\ DepsInit
  /\ clock = 1
  /\ row = [t \in Task |-> Absent]
  /\ req = [w \in Worker |-> Idle]

Finish(w) == req' = [req EXCEPT ![w] = Idle]

-----------------------------------------------------------------------------
\* Rows come and go.

\* A new task is parked in pending, or put at start when auto_start is set.
NewTask(t, p, s) ==
  /\ CreateTask(t)
  /\ row' = [row EXCEPT ![t] = Unclaimed(s, p, clock)]
  /\ UNCHANGED <<clock, req>>

RemoveTask(t) ==
  /\ DeleteTask(t)
  /\ row' = [row EXCEPT ![t] = Absent]
  /\ UNCHANGED <<clock, req>>

RemoveProject(p) ==
  /\ DeleteProject(p)
  /\ row' = [t \in Task |-> IF ProjectOf[t] = p THEN Absent ELSE row[t]]
  /\ UNCHANGED <<clock, req>>

-----------------------------------------------------------------------------
\* Claims.  The service stamps the request with the clock, the statement that
\* uses the stamp runs later.

BeginClaim(w, op, a, t, d) ==
  /\ req[w] = Idle
  /\ req' = [req EXCEPT ![w] =
       [op |-> op, agent |-> a, task |-> t, now |-> clock, until |-> clock + d]]
  /\ UNCHANGED <<depsVars, clock, row>>

BeginNext(w, a, p, d) ==
  /\ req[w] = Idle
  /\ req' = [req EXCEPT ![w] =
       [op |-> "next", agent |-> a, project |-> p, now |-> clock, until |-> clock + d]]
  /\ UNCHANGED <<depsVars, clock, row>>

\* The columns a claim writes.
ClaimedBy(r, q) ==
  [r EXCEPT !.owner = q.agent, !.claimed = q.now, !.lease = q.until]

\* ClaimTask: one guarded UPDATE; no row matched is a conflict.
ClaimTask(w) ==
  /\ req[w].op = "claim"
  /\ LET q == req[w] IN
     row' = IF Claimable(q.task, q.agent, q.now)
            THEN [row EXCEPT ![q.task] = ClaimedBy(@, q)] ELSE row
  /\ Finish(w)
  /\ UNCHANGED <<depsVars, clock>>

\* ClaimNextTask: one transaction picks the first claimable task and claims it.
ClaimNextTask(w) ==
  /\ req[w].op = "next"
  /\ LET q == req[w]
         offered == {t \in Task : ProjectOf[t] = q.project
                                  /\ Claimable(t, q.agent, q.now)}
         best == {t \in offered : \A u \in offered : ~Before(u, t, q.agent)} IN
     IF offered = {} THEN UNCHANGED row
     ELSE \E t \in best : row' = [row EXCEPT ![t] = ClaimedBy(@, q)]
  /\ Finish(w)
  /\ UNCHANGED <<depsVars, clock>>

\* HeartbeatTask: the owner's lease is renewed, run out or not.
HeartbeatTask(w) ==
  /\ req[w].op = "heartbeat"
  /\ LET q == req[w] IN
     row' = IF q.task \in live /\ row[q.task].owner = q.agent
            THEN [row EXCEPT ![q.task].lease = q.until] ELSE row
  /\ Finish(w)
  /\ UNCHANGED <<depsVars, clock>>

\* ReleaseTask: one guarded UPDATE that uses no stamp (only updated_at does).
ReleaseTask(t, a, force) ==
  /\ a # NoAgent \/ force
  /\ t \in live
  /\ force \/ row[t].owner = a
  /\ row' = [row EXCEPT ![t].owner = NoAgent, ![t].claimed = 0, ![t].lease = 0]
  /\ UNCHANGED <<depsVars, clock, req>>

-----------------------------------------------------------------------------
\* Edits: the service reads the task and checks, the store reads it again,
\* checks again and writes the whole row back under a guard.

\* The checks of updateTaskOnce, and of UpdateTask when the state is to change.
IfStateHolds(e, r) == e.ifState # Nil => r.state = e.ifState
OwnerAllows(e, r) == e.force \/ r.owner = NoAgent \/ e.agent = r.owner

\* service.UpdateTask up to the call of the store.
BeginEdit(w, e) ==
  /\ req[w] = Idle
  /\ e.task \in live
  /\ e.state # Nil => IfStateHolds(e, row[e.task]) /\ OwnerAllows(e, row[e.task])
  /\ req' = [req EXCEPT ![w] = [op |-> "edit", edit |-> e, now |-> clock]]
  /\ UNCHANGED <<depsVars, clock, row>>

\* updateTaskOnce reads the row it will write back.  The service stamped the
\* edit of an agent some time after its own read; without an agent the store
\* takes the stamp now.
ReadRow(w) ==
  /\ req[w].op = "edit"
  /\ LET e == req[w].edit
         r == row[e.task] IN
     IF e.task \in live /\ IfStateHolds(e, r) /\ OwnerAllows(e, r)
     THEN \E stamp \in IF e.agent = NoAgent THEN {clock} ELSE req[w].now .. clock :
            req' = [req EXCEPT ![w] =
              [op |-> "write", edit |-> e, cur |-> r, now |-> stamp]]
     ELSE Finish(w)
  /\ UNCHANGED <<depsVars, clock, row>>

\* The state and the completion stamp the edit leaves, from the row it read.
NewStateEvenIfAbsent(q) == q.edit.state
NewState(q) == IF q.edit.state = Nil THEN q.cur.state ELSE q.edit.state
NewCompletedKept(q) == IF q.edit.state = "done" THEN q.now ELSE q.cur.completed
NewCompleted(q) ==
  IF q.edit.state = Nil THEN q.cur.completed
  ELSE IF q.edit.state = "done" /\ q.cur.state # "done" THEN q.now
  ELSE IF q.edit.state # "done" /\ q.cur.state = "done" THEN 0
  ELSE q.cur.completed
RenewsLease(q) == q.edit.agent # NoAgent /\ q.cur.owner = q.edit.agent

\* The columns the UPDATE writes: all but the claim's, and the lease of an
\* owner who edits its own task.
WrittenRow(r, q) ==
  [r EXCEPT
     !.state = NewState(q),
     !.completed = NewCompleted(q),
     !.prio = IF q.edit.prio = Nil THEN q.cur.prio ELSE q.edit.prio,
     !.lease = IF RenewsLease(q) THEN q.now + DefaultLease ELSE @]

\* The WHERE clause of the UPDATE.
WriteMatchesAnyOwner(q) == q.edit.task \in live /\ IfStateHolds(q.edit, row[q.edit.task])
WriteMatchesAnyState(q) ==
  /\ q.edit.task \in live
  /\ q.edit.force \/ row[q.edit.task].owner = q.cur.owner
WriteMatches(q) ==
  /\ q.edit.task \in live
  /\ IfStateHolds(q.edit, row[q.edit.task])
  /\ q.edit.force \/ row[q.edit.task].owner = q.cur.owner

WriteRow(w) ==
  /\ req[w].op = "write"
  /\ LET q == req[w] IN
     row' = IF WriteMatches(q)
            THEN [row EXCEPT ![q.edit.task] = WrittenRow(@, q)] ELSE row
  /\ Finish(w)
  /\ UNCHANGED <<depsVars, clock>>

-----------------------------------------------------------------------------

\* A request ends between two statements: cancelled, failed, server stopped.
\* Everything a restart needs is in the tables.
Abandon(w) ==
  /\ req[w] # Idle
  /\ Finish(w)
  /\ UNCHANGED <<depsVars, clock, row>>

Tick ==
  /\ clock < MaxClock
  /\ clock' = clock + 1
  /\ UNCHANGED <<depsVars, row, req>>

\* The graph's own operations do not touch a task row.
GraphStep == EdgeStep /\ UNCHANGED queueVars

RowStep ==
  \/ \E t \in Task, p \in Priority, s \in {"pending", "start"} : NewTask(t, p, s)
  \/ \E t \in Task : RemoveTask(t)
  \/ \E p \in Project : RemoveProject(p)
  \/ \E t \in Task, a \in Agent \cup {NoAgent}, force \in BOOLEAN : ReleaseTask(t, a, force)

WorkerStep(w) ==
  \/ \E op \in {"claim", "heartbeat"}, a \in Agent, t \in Task, d \in LeaseLength :
       BeginClaim(w, op, a, t, d)
  \/ \E a \in Agent, p \in Project, d \in LeaseLength : BeginNext(w, a, p, d)
  \/ \E e \in Edits : BeginEdit(w, e)
  \/ ClaimTask(w)
  \/ ClaimNextTask(w)
  \/ HeartbeatTask(w)
  \/ ReadRow(w)
  \/ WriteRow(w)
  \/ Abandon(w)

Next == GraphStep \/ RowStep \/ Tick \/ \E w \in Worker : WorkerStep(w)

Spec == Init /\ [][Next]_vars

-----------------------------------------------------------------------------

\* Rows and requests keep their types; a request's stamp is never ahead of
\* the clock.
TypeOK ==
  /\ DepsTypeOK
  /\ clock \in Nat
  /\ row \in [Task -> Row]
  /\ req \in [Worker -> Request]

\* A claim passes from one agent straight to another only once its lease has
\* run out by the clock, although the claimer compares it with an old stamp.
HandoverOnlyAfterExpiry ==
  [][\A t \in live \cap live' :
       LET old == row[t]
           new == row'[t] IN
       old.owner # new.owner /\ NoAgent \notin {old.owner, new.owner}
         => old.lease <= clock]_vars

\* Nobody becomes the owner of a task that is parked, done or waiting, even
\* when a dependency or a state changed after the client looked at the queue.
ClaimsOnlyRunnable ==
  [][\A t \in Task :
       row'[t].owner \notin {NoAgent, row[t].owner} => Runnable(t)]_vars

\* completed_at is set exactly while the task is done, although an edit
\* writes back a state and a stamp it read before other edits.
CompletedIffDone ==
  \A t \in live : row[t].state = "done" <=> row[t].completed # 0

\* Without force nobody changes a task another agent owns at that moment,
\* whoever owned it when the edit was checked.
EditsRespectOwner ==
  [][\A t \in live \cap live' :
       <<row'[t].state, row'[t].prio>> # <<row[t].state, row[t].prio>> =>
         \E w \in Worker :
           /\ req[w].op = "write" /\ req[w].edit.task = t
           /\ OwnerAllows(req[w].edit, row[t])]_vars

\* A task's state moves only to the state a request in flight asked for.  Only a
\* PATCH that names no state at all, neither one to set nor one to expect, may
\* carry the state it read back over a newer one.
StateMovesOnlyAsAsked ==
  [][\A t \in live \cap live' :
       row'[t].state # row[t].state =>
         \E w \in Worker :
           /\ req[w].op = "write" /\ req[w].edit.task = t
           /\ row'[t].state = NewState(req[w])
           /\ req[w].edit.state = Nil => req[w].edit.ifState = Nil]_vars

\* The lease of an owner moves only at a request of that owner, or by force: what
\* a former owner sent before the task passed on no longer prolongs or cuts it.
LeasesMoveForTheirOwner ==
  [][\A t \in live \cap live' :
       /\ row[t].owner # NoAgent /\ row'[t].owner = row[t].owner
       /\ row'[t].lease # row[t].lease
       => \E w \in Worker :
            \/ /\ req[w].op \in {"claim", "next", "heartbeat"}
               /\ req[w].agent = row[t].owner
            \/ /\ req[w].op = "write" /\ req[w].edit.task = t
               /\ req[w].edit.force \/ req[w].edit.agent = row[t].owner]_vars

\* The agent whose lease on t is running.
Holder == [t \in Task |-> IF t \in live /\ row[t].lease > clock
                          THEN row[t].owner ELSE NoAgent]

\* The tables implement the abstract claim.
Lease == INSTANCE ClaimLease WITH holder <- Holder
ImplementsLease == Lease!Spec
=============================================================================
