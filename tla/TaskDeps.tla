------------------------------ MODULE TaskDeps ------------------------------
(***************************************************************************)
(* The task_deps table: which task waits for which, and the cycle check    *)
(* AddDependency makes before it inserts an edge.                          *)
(*                                                                         *)
(* The store has one SQLite connection, so a statement is atomic and two   *)
(* statements of one request are not: any other request's statement can    *)
(* run in between.  AddDependency is a chain of statements (one SELECT per *)
(* task it walks, then an INSERT), so it is modelled as a chain of steps.  *)
(*                                                                         *)
(* WalkStepShallow, WalkStepForgetful and InsertEdgeUnchecked are slips    *)
(* that the properties must notice; nothing uses them.                     *)
(***************************************************************************)
EXTENDS Naturals, FiniteSets

CONSTANTS
  Task,        \* the ids the server ever hands out; newID never repeats one
  Project,     \* the projects
  ProjectOf,   \* the project a task belongs to
  Adder        \* the handler goroutines that serve POST /tasks/:id/deps

ASSUME ProjectOfAssumption == ProjectOf \in [Task -> Project]

VARIABLES
  unborn,      \* ids that can still be handed out
  live,        \* ids with a row in the tasks table
  deps,        \* the rows <<task_id, depends_on_task_id>> of task_deps
  add          \* what each adder is doing

depsVars == <<unborn, live, deps, add>>

-----------------------------------------------------------------------------

\* An adder between requests, and one that walks the graph for the edge
\* <<task, on>>.  "todo" is the stack of dependsOn; the order in which the
\* stack is popped is left open.
Resting == [op |-> "rest"]
Walking(t, d, todo, visited) ==
  [op |-> "walk", task |-> t, on |-> d, todo |-> todo, visited |-> visited]
Walk == [op: {"walk"}, task: Task, on: Task, todo: SUBSET Task,
         visited: SUBSET Task]
Busy(h) == add[h].op = "walk"

\* The tasks t waits for.
DependenciesOf(t) == {d \in Task : <<t, d>> \in deps}

\* The edges left once the tasks in T have gone (ON DELETE CASCADE, both ends).
EdgesWithout(T) == {e \in deps : e[1] \notin T /\ e[2] \notin T}

DepsInit ==
  /\ unborn = Task
  /\ live = {}
  /\ deps = {}
  /\ add = [h \in Adder |-> Resting]

-----------------------------------------------------------------------------

\* INSERT INTO tasks under a fresh id.
CreateTask(t) ==
  /\ t \in unborn
  /\ unborn' = unborn \ {t}
  /\ live' = live \cup {t}
  /\ UNCHANGED <<deps, add>>

\* DELETE FROM tasks: the foreign keys of task_deps remove its edges.
DeleteTask(t) ==
  /\ t \in live
  /\ live' = live \ {t}
  /\ deps' = EdgesWithout({t})
  /\ UNCHANGED <<unborn, add>>

\* One transaction deletes the project row and, by cascade, its tasks.  No
\* task can be created under the deleted project any more.
DeleteProject(p) ==
  LET gone == {t \in Task : ProjectOf[t] = p} IN
  /\ unborn' = unborn \ gone
  /\ live' = live \ gone
  /\ deps' = EdgesWithout(gone)
  /\ UNCHANGED add

\* AddDependency finds both tasks and starts the walk from the new target.
\* A self-dependency is refused at once.
BeginAdd(h, t, d) ==
  /\ ~Busy(h)
  /\ t \in live /\ d \in live
  /\ t # d
  /\ add' = [add EXCEPT ![h] = Walking(t, d, {d}, {})]
  /\ UNCHANGED <<unborn, live, deps>>

\* A slip: only the direct dependencies of the new target are looked at.
WalkStepShallow(h) ==
  /\ Busy(h)
  /\ \E cur \in add[h].todo :
       add' = [add EXCEPT ![h] =
         IF <<cur, add[h].task>> \in deps THEN Resting
         ELSE Walking(add[h].task, add[h].on, add[h].todo \ {cur}, {cur})]
  /\ UNCHANGED <<unborn, live, deps>>

\* A slip: the walk does not remember where it has been.
WalkStepForgetful(h) ==
  /\ Busy(h)
  /\ \E cur \in add[h].todo :
       add' = [add EXCEPT ![h] =
         IF cur = add[h].task THEN Resting
         ELSE Walking(add[h].task, add[h].on,
                      (add[h].todo \ {cur}) \cup DependenciesOf(cur), {cur})]
  /\ UNCHANGED <<unborn, live, deps>>

\* dependsOn pops one task.  It is either the task the edge starts from (the
\* edge would close a cycle, the request ends with a conflict) or a task
\* whose own dependencies one SELECT pushes.
WalkStep(h) ==
  /\ Busy(h)
  /\ \E cur \in add[h].todo :
       add' = [add EXCEPT ![h] =
         IF cur = add[h].task THEN Resting
         ELSE LET seen == add[h].visited \cup {cur} IN
              Walking(add[h].task, add[h].on,
                      (add[h].todo \cup DependenciesOf(cur)) \ seen, seen)]
  /\ UNCHANGED <<unborn, live, deps>>

\* A slip: foreign keys are not enforced.
InsertEdgeUnchecked(h) ==
  /\ Busy(h)
  /\ add[h].todo = {}
  /\ deps' = deps \cup {<<add[h].task, add[h].on>>}
  /\ add' = [add EXCEPT ![h] = Resting]
  /\ UNCHANGED <<unborn, live>>

\* The walk found no path back: INSERT.  The foreign keys refuse the edge when
\* a task has gone meanwhile; an edge already there is an idempotent success.
InsertEdge(h) ==
  /\ Busy(h)
  /\ add[h].todo = {}
  /\ deps' = IF add[h].task \in live /\ add[h].on \in live
             THEN deps \cup {<<add[h].task, add[h].on>>}
             ELSE deps
  /\ add' = [add EXCEPT ![h] = Resting]
  /\ UNCHANGED <<unborn, live>>

\* The request dies between two statements: its context is cancelled, a
\* statement fails, or the server stops.
AbandonAdd(h) ==
  /\ Busy(h)
  /\ add' = [add EXCEPT ![h] = Resting]
  /\ UNCHANGED <<unborn, live, deps>>

DeleteDependency(t, d) ==
  /\ <<t, d>> \in deps
  /\ deps' = deps \ {<<t, d>>}
  /\ UNCHANGED <<unborn, live, add>>

\* The operations that touch only this table.
EdgeStep ==
  \/ \E h \in Adder, t, d \in Task : BeginAdd(h, t, d)
  \/ \E h \in Adder : WalkStep(h)
  \/ \E h \in Adder : InsertEdge(h)
  \/ \E h \in Adder : AbandonAdd(h)
  \/ \E t, d \in Task : DeleteDependency(t, d)

DepsNext ==
  \/ \E t \in Task : CreateTask(t)
  \/ \E t \in Task : DeleteTask(t)
  \/ \E p \in Project : DeleteProject(p)
  \/ EdgeStep

DepsSpec == DepsInit /\ [][DepsNext]_depsVars

\* A handler goroutine keeps running until its request ends: the connection
\* serves waiting statements in turn and nothing in the walk waits for a client.
FairDepsSpec ==
  DepsSpec /\ \A h \in Adder : WF_depsVars(WalkStep(h) \/ InsertEdge(h))

\* The code puts no lock around AddDependency.  OneAdder says that the
\* clients happen to send one dependency request at a time.
OneAdder == \A g, h \in Adder : Busy(g) /\ Busy(h) => g = h

-----------------------------------------------------------------------------

\* Every table holds what its schema admits, and an adder's walk is a walk.
DepsTypeOK ==
  /\ unborn \subseteq Task
  /\ live \subseteq Task \ unborn
  /\ deps \subseteq Task \X Task
  /\ add \in [Adder -> {Resting} \cup Walk]

\* A dependency never outlives either of its tasks, whatever an adder read
\* before a delete: otherwise a task could wait for a row that is gone.
EdgesJoinLiveTasks == deps \subseteq live \X live

\* AddDependency: "the resulting graph must remain acyclic".  A set of tasks
\* each of which waits for another of the set could never be worked on.
DepsAcyclic ==
  ~ \E S \in SUBSET Task :
      S # {} /\ \A t \in S : \E d \in S : <<t, d>> \in deps

\* Where the walk and the INSERT of every request are done before the next request
\* begins, no cycle appears, although edges and tasks disappear under the walk.
AcyclicUnlessRaced == []OneAdder => []DepsAcyclic

\* A walk looks at no task twice, even on a graph that a race has made cyclic or
\* whose edges come and go: one SELECT per task bounds every request.
WalksNeverTurnBack ==
  [][\A h \in Adder :
       Busy(h) /\ Busy(h)' /\ add'[h] # add[h]
         => \E cur \in Task \ add[h].visited :
              add'[h].visited = add[h].visited \cup {cur}]_depsVars

\* Every dependency request ends, although edges come and go under the walk
\* and two racing requests can have closed a cycle it then walks into.
AddsEnd == \A h \in Adder : Busy(h) ~> ~Busy(h)

=============================================================================
