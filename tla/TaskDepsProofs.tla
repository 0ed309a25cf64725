--------------------------- MODULE TaskDepsProofs ---------------------------
(***************************************************************************)
(* What TaskDeps guarantees for any number of tasks, projects and adders.  *)
(* The foreign keys keep the edges between live tasks under any            *)
(* interleaving.  The graph stays acyclic when dependency requests do not  *)
(* overlap (OneAdder); the run deps_race shows that it does not stay       *)
(* acyclic without that.                                                   *)
(***************************************************************************)
EXTENDS TaskDeps, TLAPS

\* What a walk knows: it has visited only tasks other than the one the edge
\* starts from, and every dependency of a visited task is visited or waiting
\* on the stack.  Deletions only remove edges, so they cannot disturb it.
WalkKnows(h) ==
  Busy(h) =>
    /\ add[h].task # add[h].on
    /\ add[h].on \in add[h].visited \cup add[h].todo
    /\ add[h].task \notin add[h].visited
    /\ \A x \in add[h].visited :
         DependenciesOf(x) \subseteq add[h].visited \cup add[h].todo

SerialInv ==
  /\ DepsTypeOK
  /\ OneAdder
  /\ \A h \in Adder : WalkKnows(h)
  /\ DepsAcyclic

USE DEF Busy

-----------------------------------------------------------------------------

\* Every step keeps the tables and the walks well typed.
LEMMA DepsTypeStep == DepsTypeOK /\ [DepsNext]_depsVars => DepsTypeOK'
<1> SUFFICES ASSUME DepsTypeOK, [DepsNext]_depsVars PROVE DepsTypeOK'
  OBVIOUS
<1> USE DEF DepsTypeOK
<1>1. ASSUME NEW t \in Task, CreateTask(t) PROVE DepsTypeOK'
  BY <1>1 DEF CreateTask
<1>2. ASSUME NEW t \in Task, DeleteTask(t) PROVE DepsTypeOK'
  BY <1>2 DEF DeleteTask, EdgesWithout
<1>3. ASSUME NEW p \in Project, DeleteProject(p) PROVE DepsTypeOK'
  BY <1>3 DEF DeleteProject, EdgesWithout
<1>4. ASSUME NEW h \in Adder, NEW t \in Task, NEW d \in Task, BeginAdd(h, t, d)
      PROVE DepsTypeOK'
  BY <1>4 DEF BeginAdd, Walking, Walk
<1>5. ASSUME NEW h \in Adder, WalkStep(h) PROVE DepsTypeOK'
  <2>1. add[h] \in Walk
    BY <1>5 DEF WalkStep, Resting, Walk
  <2>2. PICK cur \in add[h].todo : add' = [add EXCEPT ![h] =
         IF cur = add[h].task THEN Resting
         ELSE Walking(add[h].task, add[h].on,
                      (add[h].todo \cup DependenciesOf(cur)) \ (add[h].visited \cup {cur}),
                      add[h].visited \cup {cur})]
    BY <1>5 DEF WalkStep
  <2>3. Walking(add[h].task, add[h].on,
                (add[h].todo \cup DependenciesOf(cur)) \ (add[h].visited \cup {cur}),
                add[h].visited \cup {cur}) \in Walk
    BY <2>1, <2>2 DEF Walking, Walk, DependenciesOf
  <2>4. QED
    BY <1>5, <2>2, <2>3 DEF WalkStep
<1>6. ASSUME NEW h \in Adder, InsertEdge(h) PROVE DepsTypeOK'
  BY <1>6 DEF InsertEdge, Walk, Resting
<1>7. ASSUME NEW h \in Adder, AbandonAdd(h) PROVE DepsTypeOK'
  BY <1>7 DEF AbandonAdd
<1>8. ASSUME NEW t \in Task, NEW d \in Task, DeleteDependency(t, d)
      PROVE DepsTypeOK'
  BY <1>8 DEF DeleteDependency
<1>9. CASE UNCHANGED depsVars
  BY <1>9 DEF depsVars
<1>10. QED
  BY <1>1, <1>2, <1>3, <1>4, <1>5, <1>6, <1>7, <1>8, <1>9 DEF DepsNext, EdgeStep

\* The tables keep their types, whatever the clients send.
THEOREM DepsTypeCorrect == DepsSpec => []DepsTypeOK
<1>1. DepsInit => DepsTypeOK
  BY DEF DepsInit, DepsTypeOK, Resting
<1>2. QED
  BY <1>1, DepsTypeStep, PTL DEF DepsSpec

\* No step leaves an edge whose task has gone.
LEMMA EdgesJoinStep ==
  DepsTypeOK /\ EdgesJoinLiveTasks /\ [DepsNext]_depsVars => EdgesJoinLiveTasks'
<1> SUFFICES ASSUME DepsTypeOK, EdgesJoinLiveTasks, [DepsNext]_depsVars
             PROVE EdgesJoinLiveTasks'
  OBVIOUS
<1> USE DEF EdgesJoinLiveTasks
<1>1. ASSUME NEW t \in Task, CreateTask(t) PROVE EdgesJoinLiveTasks'
  BY <1>1 DEF CreateTask
<1>2. ASSUME NEW t \in Task, DeleteTask(t) PROVE EdgesJoinLiveTasks'
  BY <1>2 DEF DeleteTask, EdgesWithout
<1>3. ASSUME NEW p \in Project, DeleteProject(p) PROVE EdgesJoinLiveTasks'
  BY <1>3 DEF DeleteProject, EdgesWithout
<1>4. ASSUME NEW h \in Adder, InsertEdge(h) PROVE EdgesJoinLiveTasks'
  BY <1>4 DEF InsertEdge
<1>5. CASE live' = live /\ deps' \subseteq deps
  BY <1>5
<1>6. QED
  BY <1>1, <1>2, <1>3, <1>4, <1>5
     DEF DepsNext, EdgeStep, BeginAdd, WalkStep, AbandonAdd, DeleteDependency, depsVars

\* No dependency outlives a task: an INSERT that races a delete is refused by
\* the foreign key and the delete takes the edges of both ends with it.
THEOREM EdgesAlwaysJoinLiveTasks == DepsSpec => []EdgesJoinLiveTasks
<1>1. DepsInit => EdgesJoinLiveTasks
  BY DEF DepsInit, EdgesJoinLiveTasks
<1>2. QED
  BY <1>1, EdgesJoinStep, DepsTypeCorrect, PTL DEF DepsSpec

-----------------------------------------------------------------------------

\* Removing edges cannot make a cycle.
LEMMA FewerEdgesStayAcyclic ==
  ASSUME DepsAcyclic, deps' \subseteq deps
  PROVE  DepsAcyclic'
BY DEF DepsAcyclic

\* A finished walk justifies its edge.  A set of tasks that wait for each
\* other through the new edge contains both of its ends; its part inside the
\* visited set would already be such a set without the edge.
LEMMA FinishedWalkAddsNoCycle ==
  ASSUME DepsTypeOK, DepsAcyclic,
         NEW h \in Adder, Busy(h), add[h].todo = {}, WalkKnows(h),
         deps' \subseteq deps \cup {<<add[h].task, add[h].on>>}
  PROVE  DepsAcyclic'
<1> DEFINE t == add[h].task
           d == add[h].on
           V == add[h].visited
<1>1. /\ d \in V /\ t \notin V /\ V \subseteq Task
      /\ \A x \in V : DependenciesOf(x) \subseteq V
  BY DEF WalkKnows, DepsTypeOK, Walk, Resting
<1>2. SUFFICES ASSUME NEW S \in SUBSET Task, S # {},
                      \A x \in S : \E y \in S : <<x, y>> \in deps'
               PROVE FALSE
  BY DEF DepsAcyclic
<1>3. d \in S
  <2>1. SUFFICES ASSUME d \notin S PROVE FALSE
    OBVIOUS
  <2>2. \A x \in S : \E y \in S : <<x, y>> \in deps
    BY <1>2, <2>1
  <2>3. QED
    BY <1>2, <2>2 DEF DepsAcyclic
<1> DEFINE C == S \cap V
<1>4. C # {} /\ C \in SUBSET Task
  BY <1>1, <1>3
<1>5. ASSUME NEW x \in C PROVE \E y \in C : <<x, y>> \in deps
  <2>1. PICK y \in S : <<x, y>> \in deps'
    BY <1>2
  <2>2. <<x, y>> \in deps
    BY <1>1, <2>1
  <2>3. y \in DependenciesOf(x)
    BY <2>2 DEF DependenciesOf
  <2>4. QED
    BY <1>1, <2>2, <2>3
<1>6. QED
  BY <1>4, <1>5 DEF DepsAcyclic

\* A step that inserts no edge and leaves the walk of h alone keeps what it knows.
LEMMA WalkKeepsKnowing ==
  ASSUME NEW h \in Adder, WalkKnows(h), add'[h] = add[h], deps' \subseteq deps
  PROVE  WalkKnows(h)'
BY DEF WalkKnows, DependenciesOf

\* Popping a task moves its dependencies to the stack or finds them visited.
LEMMA WalkStepKnows ==
  ASSUME DepsTypeOK, NEW h \in Adder, WalkKnows(h), WalkStep(h)
  PROVE  WalkKnows(h)'
<1>1. add[h] \in Walk /\ deps' = deps
  BY DEF WalkStep, DepsTypeOK, Resting, Walk
<1>2. PICK cur \in add[h].todo : add' = [add EXCEPT ![h] =
         IF cur = add[h].task THEN Resting
         ELSE Walking(add[h].task, add[h].on,
                      (add[h].todo \cup DependenciesOf(cur)) \ (add[h].visited \cup {cur}),
                      add[h].visited \cup {cur})]
  BY DEF WalkStep
<1>3. CASE cur = add[h].task
  BY <1>2, <1>3 DEF WalkKnows, DepsTypeOK, Resting
<1>4. CASE cur # add[h].task
  <2>1. add'[h] = Walking(add[h].task, add[h].on,
                     (add[h].todo \cup DependenciesOf(cur)) \ (add[h].visited \cup {cur}),
                     add[h].visited \cup {cur})
    BY <1>2, <1>4 DEF DepsTypeOK
  <2>2. /\ add'[h].task = add[h].task /\ add'[h].on = add[h].on
        /\ add'[h].visited = add[h].visited \cup {cur}
        /\ add'[h].visited \cup add'[h].todo
             = add[h].visited \cup add[h].todo \cup {cur} \cup DependenciesOf(cur)
    BY <2>1 DEF Walking
  <2>3. \A x : DependenciesOf(x)' = DependenciesOf(x)
    BY <1>1 DEF DependenciesOf
  <2>4. Busy(h)
    BY DEF WalkStep
  <2>5. QED
    BY <1>4, <2>2, <2>3, <2>4 DEF WalkKnows
<1>5. QED
  BY <1>3, <1>4

\* With one walk at a time every step keeps the graph acyclic and the walk honest.
LEMMA SerialStep ==
  SerialInv /\ [DepsNext /\ OneAdder']_depsVars => SerialInv'
<1> SUFFICES ASSUME SerialInv, [DepsNext /\ OneAdder']_depsVars
             PROVE SerialInv'
  OBVIOUS
<1>t. DepsTypeOK /\ DepsTypeOK'
  BY DepsTypeStep DEF SerialInv
<1>o. OneAdder /\ OneAdder'
  BY DEF SerialInv, OneAdder, depsVars
<1>k. DepsAcyclic /\ \A h \in Adder : WalkKnows(h)
  BY DEF SerialInv
<1>1. CASE deps' \subseteq deps /\ add' = add
  BY <1>1, <1>t, <1>o, <1>k, FewerEdgesStayAcyclic, WalkKeepsKnowing DEF SerialInv
<1>2. ASSUME NEW h \in Adder, NEW t \in Task, NEW d \in Task, BeginAdd(h, t, d)
      PROVE SerialInv'
  <2>1. deps' = deps
    BY <1>2 DEF BeginAdd
  <2>2. DepsAcyclic'
    BY <2>1, <1>k, FewerEdgesStayAcyclic
  <2>3. WalkKnows(h)'
    BY <1>2, <1>t DEF BeginAdd, Walking, WalkKnows, DepsTypeOK
  <2>4. \A g \in Adder : g # h => WalkKnows(g)'
    BY <1>2, <1>t, <1>k, <2>1, WalkKeepsKnowing DEF BeginAdd, DepsTypeOK
  <2>5. QED
    BY <1>t, <1>o, <2>2, <2>3, <2>4 DEF SerialInv
<1>3. ASSUME NEW h \in Adder, WalkStep(h) PROVE SerialInv'
  <2>1. deps' = deps
    BY <1>3 DEF WalkStep
  <2>2. DepsAcyclic'
    BY <2>1, <1>k, FewerEdgesStayAcyclic
  <2>3. WalkKnows(h)'
    BY <1>3, <1>t, <1>k, WalkStepKnows
  <2>4. \A g \in Adder : g # h => WalkKnows(g)'
    BY <1>3, <1>t, <1>k, <2>1, WalkKeepsKnowing DEF WalkStep, DepsTypeOK
  <2>5. QED
    BY <1>t, <1>o, <2>2, <2>3, <2>4 DEF SerialInv
<1>4. ASSUME NEW h \in Adder, InsertEdge(h) PROVE SerialInv'
  <2>1. DepsAcyclic'
    BY <1>4, <1>t, <1>k, FinishedWalkAddsNoCycle DEF InsertEdge
  <2>2. ~Busy(h)'
    BY <1>4, <1>t DEF InsertEdge, DepsTypeOK, Resting
  <2>3. \A g \in Adder : g # h => ~Busy(g)'
    BY <1>4, <1>t, <1>o DEF InsertEdge, DepsTypeOK, OneAdder
  <2>4. \A g \in Adder : WalkKnows(g)'
    BY <2>2, <2>3 DEF WalkKnows
  <2>5. QED
    BY <1>t, <1>o, <2>1, <2>4 DEF SerialInv
<1>5. ASSUME NEW h \in Adder, AbandonAdd(h) PROVE SerialInv'
  <2>1. deps' = deps
    BY <1>5 DEF AbandonAdd
  <2>2. DepsAcyclic'
    BY <2>1, <1>k, FewerEdgesStayAcyclic
  <2>3. WalkKnows(h)'
    BY <1>5, <1>t DEF AbandonAdd, WalkKnows, DepsTypeOK, Resting
  <2>4. \A g \in Adder : g # h => WalkKnows(g)'
    BY <1>5, <1>t, <1>k, <2>1, WalkKeepsKnowing DEF AbandonAdd, DepsTypeOK
  <2>5. QED
    BY <1>t, <1>o, <2>2, <2>3, <2>4 DEF SerialInv
<1>6. QED
  BY <1>1, <1>2, <1>3, <1>4, <1>5
     DEF DepsNext, EdgeStep, CreateTask, DeleteTask, DeleteProject, EdgesWithout,
         DeleteDependency, depsVars

\* Behaviours in which dependency requests come one at a time: the graph stays
\* acyclic, however long the walk and whatever is created or deleted while it runs.
THEOREM SerialAddsStayAcyclic == DepsSpec => AcyclicUnlessRaced
<1>1. DepsInit => SerialInv
  BY DEF DepsInit, SerialInv, DepsTypeOK, OneAdder, WalkKnows, Resting, DepsAcyclic
<1>2. SerialInv => DepsAcyclic
  BY DEF SerialInv
<1>3. [DepsNext]_depsVars /\ OneAdder' => [DepsNext /\ OneAdder']_depsVars
  OBVIOUS
<1>4. QED
  BY <1>1, <1>2, <1>3, SerialStep, PTL DEF DepsSpec, AcyclicUnlessRaced

-----------------------------------------------------------------------------

\* What is on the stack of a walk has not been visited.
StackIsNew == \A h \in Adder : Busy(h) => add[h].todo \cap add[h].visited = {}

\* A task that is popped joins the visited ones, and what is pushed is taken from
\* the others.
LEMMA WalkVisits ==
  ASSUME DepsTypeOK, StackIsNew, NEW h \in Adder, WalkStep(h), Busy(h)'
  PROVE  /\ \E cur \in Task \ add[h].visited :
              add'[h].visited = add[h].visited \cup {cur}
         /\ add'[h].todo \cap add'[h].visited = {}
<1>1. add[h] \in Walk
  BY DEF WalkStep, DepsTypeOK, Resting, Walk
<1>2. PICK cur \in add[h].todo : add' = [add EXCEPT ![h] =
         IF cur = add[h].task THEN Resting
         ELSE Walking(add[h].task, add[h].on,
                      (add[h].todo \cup DependenciesOf(cur)) \ (add[h].visited \cup {cur}),
                      add[h].visited \cup {cur})]
  BY DEF WalkStep
<1>3. add'[h] = Walking(add[h].task, add[h].on,
                   (add[h].todo \cup DependenciesOf(cur)) \ (add[h].visited \cup {cur}),
                   add[h].visited \cup {cur})
  BY <1>2 DEF DepsTypeOK, Resting
<1>4. /\ add'[h].visited = add[h].visited \cup {cur}
      /\ add'[h].todo = (add[h].todo \cup DependenciesOf(cur)) \ (add[h].visited \cup {cur})
  BY <1>3 DEF Walking
<1>5. cur \in Task \ add[h].visited
  BY <1>1 DEF StackIsNew, Walk
<1>6. QED
  BY <1>4, <1>5

\* Only its own steps touch the walk of an adder that stays busy.
LEMMA WalkingOn ==
  ASSUME DepsTypeOK, [DepsNext]_depsVars, NEW h \in Adder, Busy(h), Busy(h)'
  PROVE  add'[h] = add[h] \/ WalkStep(h)
<1>1. ASSUME NEW g \in Adder, NEW t \in Task, NEW d \in Task, BeginAdd(g, t, d)
      PROVE add'[h] = add[h]
  BY <1>1 DEF BeginAdd, DepsTypeOK
<1>2. ASSUME NEW g \in Adder, WalkStep(g) PROVE add'[h] = add[h] \/ WalkStep(h)
  BY <1>2 DEF WalkStep, DepsTypeOK
<1>3. ASSUME NEW g \in Adder, InsertEdge(g) \/ AbandonAdd(g) PROVE add'[h] = add[h]
  BY <1>3 DEF InsertEdge, AbandonAdd, DepsTypeOK, Resting
<1>4. QED
  BY <1>1, <1>2, <1>3 DEF DepsNext, EdgeStep, CreateTask, DeleteTask, DeleteProject,
                          DeleteDependency, depsVars

\* Every walk leads on to tasks it has not seen, so however the edges change
\* under it there are at most as many steps as tasks: what AddsEnd rests on.
THEOREM WalksLeadOn == DepsSpec => WalksNeverTurnBack
<1> DEFINE LeadsOn ==
      \A h \in Adder :
        Busy(h) /\ Busy(h)' /\ add'[h] # add[h]
          => \E cur \in Task \ add[h].visited :
               add'[h].visited = add[h].visited \cup {cur}
<1>1. DepsInit => StackIsNew
  BY DEF DepsInit, StackIsNew, Resting
<1>2. DepsTypeOK /\ StackIsNew /\ [DepsNext]_depsVars => StackIsNew'
  <2>1. SUFFICES ASSUME DepsTypeOK, StackIsNew, [DepsNext]_depsVars,
                        NEW h \in Adder, Busy(h)'
                 PROVE  add'[h].todo \cap add'[h].visited = {}
    BY DEF StackIsNew
  <2>2. CASE Busy(h)
    BY <2>1, <2>2, WalkingOn, WalkVisits DEF StackIsNew
  <2>3. CASE ~Busy(h)
    <3>1. ASSUME NEW g \in Adder, NEW t \in Task, NEW d \in Task, BeginAdd(g, t, d)
          PROVE add'[h].todo \cap add'[h].visited = {}
      BY <2>1, <2>3, <3>1 DEF BeginAdd, Walking, DepsTypeOK
    <3>2. ASSUME NEW g \in Adder, WalkStep(g) \/ InsertEdge(g) \/ AbandonAdd(g) PROVE FALSE
      BY <2>1, <2>3, <3>2 DEF WalkStep, InsertEdge, AbandonAdd, DepsTypeOK, Resting
    <3>3. QED
      BY <2>1, <2>3, <3>1, <3>2 DEF DepsNext, EdgeStep, CreateTask, DeleteTask,
                                    DeleteProject, DeleteDependency, depsVars
  <2>4. QED
    BY <2>2, <2>3
<1>3. DepsTypeOK /\ StackIsNew /\ [DepsNext]_depsVars => LeadsOn
  BY WalkingOn, WalkVisits
<1>4. QED
  BY <1>1, <1>2, <1>3, DepsTypeCorrect, PTL DEF DepsSpec, WalksNeverTurnBack
=============================================================================
