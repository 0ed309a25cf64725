----------------------------- MODULE WorkGraph -----------------------------
(***************************************************************************)
(* The work graph of one run: its nodes (run_nodes), the questions asked   *)
(* about them (run_interrupts), and the requests that move them.           *)
(*                                                                         *)
(* A request is a chain of statements.  It reads, decides on what it read, *)
(* and writes all mutable columns of a node back "WHERE id=?"; an update   *)
(* then repairs the rest of the graph one row at a time.  Nothing locks    *)
(* the graph in between.                                                   *)
(*                                                                         *)
(* Summaries, evidence, artifacts and fingerprints are left out: nothing   *)
(* but an empty summary decides on them, and that only refuses.  The claim *)
(* that a request checks is AgentRun's: a request that fails it does not   *)
(* begin.                                                                  *)
(*                                                                         *)
(* DownstreamDirect, AnsweredAtAll, ReadyOnceReady, NewAskUnstamped,       *)
(* AnybodyAnswers and ReadOpenUnseen are slips that the properties must    *)
(* notice; nothing uses them.                                              *)
(***************************************************************************)
EXTENDS Naturals, FiniteSets

CONSTANTS
  Node,        \* the nodes of the workflow definition
  DependsOn,   \* the nodes a node waits for
  Human,       \* the nodes of kind "human": the gates
  Ask,         \* ids of interrupts, never handed out twice
  Caller,      \* handler goroutines
  Actor,       \* who may answer
  Executor,    \* the agent of the run, who asks
  Nobody,
  UpdateTo,    \* bound: the statuses that updates of nodes ask for
  AskAbout,    \* bound: the nodes that questions are asked about
  RunTo,       \* bound: the statuses that updates of the run ask for
  MaxClock     \* bound: the clock stops there

\* RunNodeStatus, and RunStatus, of which "blocked" acts like "running".
Status == {"pending", "ready", "running", "waiting", "completed", "failed", "skipped"}
RunStatus == {"running", "completed", "failed"}

\* validateWorkflowDefinition has refused cycles and unknown nodes.
ASSUME GraphAssumption ==
  /\ DependsOn \in [Node -> SUBSET Node]
  /\ \A S \in SUBSET Node : S # {} => \E n \in S : DependsOn[n] \cap S = {}
  /\ Human \subseteq Node
  /\ Executor \in Actor /\ Nobody \notin Actor
  /\ AskAbout \subseteq Node /\ UpdateTo \subseteq Status /\ RunTo \subseteq RunStatus
  /\ MaxClock \in Nat \ {0}

VARIABLES
  clock,       \* the wall clock; 0 is the unset time stamp
  run,         \* the status of the run
  node,        \* the row of each node
  ask,         \* the row of each interrupt; NoAsk if there is none
  req          \* what each caller is in the middle of

graphVars == <<clock, run, node, ask, req>>

-----------------------------------------------------------------------------

Time == 0..MaxClock
Stamp == Time \ {0}
NodeRow == [status: Status, started: Time, completed: Time]

NoAsk == [status |-> "none"]
\* "by" is the actor who replied; the server's own rejections leave it.
AskRow == [status: {"pending", "answered", "rejected"}, node: Node, created: Stamp,
           by: Actor \cup {Nobody}]

Terminal(s) == s \in {"completed", "failed"}

SatisfiesDependency(s) == s \in {"completed", "skipped"}
Met(n) == \A d \in DependsOn[n] : SatisfiesDependency(node[d].status)
Whole == \A n \in Node : SatisfiesDependency(node[n].status)

Pending(i) == ask[i].status = "pending"
PendingAt(n) == {i \in Ask : Pending(i) /\ ask[i].node = n}

\* A slip: only the nodes that name n.
DownstreamDirect(n) == {m \in Node : n \in DependsOn[m]}

\* The nodes that depend on n, directly or not.
Downstream(n) ==
  LET Closed(S) == n \in S /\ \A m \in Node : DependsOn[m] \cap S # {} => m \in S IN
  {m \in Node : \A S \in SUBSET Node : Closed(S) => m \in S} \ {n}

Unstarted == [status |-> "pending", started |-> 0, completed |-> 0]

\* A request's stages, named after the statement that comes next.
Idle == [at |-> "idle"]
Busy(c) == req[c] # Idle
Change == [node: Node, row: NodeRow]
Stage ==
  {Idle}
  \cup [at: {"nodes"}, node: Node, to: Status]
  \cup [at: {"answers", "write"}, node: Node, to: Status, copy: NodeRow, since: Stamp]
  \cup [at: {"invalidate"}, node: Node, todo: SUBSET Node]
  \cup [at: {"pending"}, node: Node]
  \cup [at: {"reject"}, todo: SUBSET Ask]
  \cup [at: {"refresh"}]
  \cup [at: {"ready"}, todo: SUBSET Change]
  \cup [at: {"node"}, node: Node]
  \cup [at: {"deps", "waits"}, node: Node, copy: NodeRow]
  \cup [at: {"insert"}, node: Node, copy: NodeRow, since: Stamp]
  \cup [at: {"wait"}, node: Node, copy: NodeRow, created: Stamp]
  \cup [at: {"reply"}, ask: Ask, node: Node, to: {"answered", "rejected"}, by: Actor]
  \cup [at: {"answer"}, ask: Ask, node: Node, to: {"answered", "rejected"}, by: Actor,
        copy: NodeRow, since: Stamp]
  \cup [at: {"resume"}, node: Node, copy: NodeRow, resolved: Stamp]
  \cup [at: {"graph", "open", "finish"}, to: RunStatus]

Become(c, stage) == req' = [req EXCEPT ![c] = stage]
ReadOnly == UNCHANGED <<clock, run, node, ask>>
SetNode(n, row) ==
  /\ node' = [node EXCEPT ![n] = row]
  /\ UNCHANGED <<clock, run, ask>>
SetAsk(i, row) ==
  /\ ask' = [ask EXCEPT ![i] = row]
  /\ UNCHANGED <<clock, run, node>>

GraphInit ==
  /\ clock = 1
  /\ run = "running"
  /\ node = [n \in Node |->
       [Unstarted EXCEPT !.status = IF DependsOn[n] = {} THEN "ready" ELSE "pending"]]
  /\ ask = [i \in Ask |-> NoAsk]
  /\ req = [c \in Caller |-> Idle]

-----------------------------------------------------------------------------
\* UpdateRunNode: read, check, write the node, repair the graph.

BeginUpdate(c, n, to) ==
  /\ ~Busy(c)
  /\ ~Terminal(run)
  /\ Become(c, [at |-> "nodes", node |-> n, to |-> to])
  /\ ReadOnly

\* Work needs its dependencies; a human gate is not skipped, and not completed
\* before it was started.
Allowed(n, to) ==
  /\ to \in {"running", "waiting", "completed", "skipped"} => Met(n)
  /\ n \in Human => to # "skipped"
  /\ n \in Human /\ to = "completed" => node[n].started # 0

ReadNodes(c) ==
  /\ req[c].at = "nodes"
  /\ LET q == req[c] IN
     IF Allowed(q.node, q.to)
     THEN Become(c, [at |-> IF q.node \in Human /\ q.to = "completed"
                            THEN "answers" ELSE "write",
                     node |-> q.node, to |-> q.to, copy |-> node[q.node],
                     since |-> clock])
     ELSE Become(c, Idle)
  /\ ReadOnly

\* A slip: any answer will do.
AnsweredAtAll(n, t) == \E i \in Ask : ask[i].status = "answered" /\ ask[i].node = n

\* HasAnsweredRunInterruptSince.
AnsweredSince(n, t) ==
  \E i \in Ask : ask[i].status = "answered" /\ ask[i].node = n /\ ask[i].created >= t

ReadAnswers(c) ==
  /\ req[c].at = "answers"
  /\ Become(c, IF AnsweredSince(req[c].node, req[c].copy.started)
               THEN [req[c] EXCEPT !.at = "write", !.since = clock] ELSE Idle)
  /\ ReadOnly

Updated(copy, to, now) ==
  LET starts == to \in {"completed", "skipped"} \/ (to = "running" /\ copy.status # to) IN
  [status |-> to,
   started |-> IF copy.started = 0 /\ starts THEN now ELSE copy.started,
   completed |-> IF SatisfiesDependency(to) THEN now ELSE 0]

Refreshing == [at |-> "refresh"]
Invalidating(n, todo) ==
  IF todo = {} THEN [at |-> "pending", node |-> n]
  ELSE [at |-> "invalidate", node |-> n, todo |-> todo]

WriteNode(c) ==
  /\ req[c].at = "write"
  /\ LET q == req[c] IN
     /\ \E now \in q.since..clock : SetNode(q.node, Updated(q.copy, q.to, now))
     /\ Become(c, IF SatisfiesDependency(q.copy.status) /\ ~SatisfiesDependency(q.to)
                  THEN Invalidating(q.node, Downstream(q.node)) ELSE Refreshing)

\* UpdateRunInterrupt resolves "WHERE id=? AND status='pending'".
StillOpen(i) == Pending(i)

\* invalidateDependentNodes: everything downstream starts over,
InvalidateNode(c) ==
  /\ req[c].at = "invalidate"
  /\ LET q == req[c] IN
     \E m \in q.todo : /\ SetNode(m, Unstarted)
                       /\ Become(c, Invalidating(q.node, q.todo \ {m}))

\* and the questions pending there are rejected.  One answered meanwhile ends
\* the request with a conflict.
Rejecting(todo) == IF todo = {} THEN Refreshing ELSE [at |-> "reject", todo |-> todo]

ReadPending(c) ==
  /\ req[c].at = "pending"
  /\ LET n == req[c].node IN
     Become(c, Rejecting(UNION {PendingAt(m) : m \in {n} \cup Downstream(n)}))
  /\ ReadOnly

RejectAsk(c) ==
  /\ req[c].at = "reject"
  /\ \E i \in req[c].todo :
       IF StillOpen(i)
       THEN /\ SetAsk(i, [ask[i] EXCEPT !.status = "rejected"])
            /\ Become(c, Rejecting(req[c].todo \ {i}))
       ELSE Become(c, Idle) /\ ReadOnly

\* A slip: a ready node is never taken back.
ReadyOnceReady(n) == IF Met(n) \/ node[n].status = "ready" THEN "ready" ELSE "pending"

\* refreshRunNodeReadiness: what is not under way is ready exactly when its
\* dependencies are met.
Readiness(n) == IF Met(n) THEN "ready" ELSE "pending"
Unready ==
  {n \in Node : node[n].status \in {"pending", "ready"} /\ node[n].status # Readiness(n)}
Readying(todo) == IF todo = {} THEN Idle ELSE [at |-> "ready", todo |-> todo]

RefreshReadiness(c) ==
  /\ req[c].at = "refresh"
  /\ Become(c, Readying({[node |-> n, row |-> [node[n] EXCEPT !.status = Readiness(n)]] :
                         n \in Unready}))
  /\ ReadOnly

WriteReadiness(c) ==
  /\ req[c].at = "ready"
  /\ \E u \in req[c].todo : /\ SetNode(u.node, u.row)
                            /\ Become(c, Readying(req[c].todo \ {u}))

-----------------------------------------------------------------------------
\* CreateRunInterrupt: four reads, the INSERT, and the node waits.

BeginAsk(c, n) ==
  /\ ~Busy(c)
  /\ ~Terminal(run)
  /\ \E i \in Ask : ask[i] = NoAsk              \* bound: ids are left
  /\ Become(c, [at |-> "node", node |-> n])
  /\ ReadOnly

ReadNode(c) ==
  /\ req[c].at = "node"
  /\ LET n == req[c].node IN
     Become(c, IF node[n].status \in {"ready", "running", "failed"}
               THEN [at |-> "deps", node |-> n, copy |-> node[n]] ELSE Idle)
  /\ ReadOnly

ReadDependencies(c) ==
  /\ req[c].at = "deps"
  /\ Become(c, IF Met(req[c].node) THEN [req[c] EXCEPT !.at = "waits"] ELSE Idle)
  /\ ReadOnly

ReadWaits(c) ==
  /\ req[c].at = "waits"
  /\ LET q == req[c] IN
     Become(c, IF PendingAt(q.node) = {}
               THEN [at |-> "insert", node |-> q.node, copy |-> q.copy, since |-> clock]
               ELSE Idle)
  /\ ReadOnly

\* A slip: no created_at.
NewAskUnstamped(n, now) ==
  [status |-> "pending", node |-> n, created |-> 0, by |-> Nobody]

NewAsk(n, now) == [status |-> "pending", node |-> n, created |-> now, by |-> Nobody]

\* The unique index on pending interrupts refuses a second one of the node.
RefusedByIndex(n) == PendingAt(n) # {}

InsertAsk(c) ==
  /\ req[c].at = "insert"
  /\ LET q == req[c] IN
     IF RefusedByIndex(q.node) THEN Become(c, Idle) /\ ReadOnly
     ELSE \E i \in Ask, now \in q.since..clock :
            /\ ask[i] = NoAsk
            /\ SetAsk(i, NewAsk(q.node, now))
            /\ Become(c, [at |-> "wait", node |-> q.node, copy |-> q.copy, created |-> now])

StartedBy(copy, now) == IF copy.started = 0 THEN now ELSE copy.started

WriteWaiting(c) ==
  /\ req[c].at = "wait"
  /\ LET q == req[c] IN
     SetNode(q.node, [status |-> "waiting", completed |-> 0,
                      started |-> StartedBy(q.copy, q.created)])
  /\ Become(c, Idle)

-----------------------------------------------------------------------------
\* ResolveRunInterrupt: anybody answers, but the executor not at a gate; the
\* node, if it waited when it was read, goes on.

BeginReply(c, i, to, who) ==
  /\ ~Busy(c)
  /\ Pending(i)
  /\ Become(c, [at |-> "reply", ask |-> i, node |-> ask[i].node, to |-> to, by |-> who])
  /\ ReadOnly

\* A slip: the executor approves itself.
AnybodyAnswers(n, who) == TRUE

MayAnswer(n, who) == n \in Human => who # Executor

ReadReplyNode(c) ==
  /\ req[c].at = "reply"
  /\ LET q == req[c] IN
     Become(c, IF MayAnswer(q.node, q.by)
               THEN [at |-> "answer", ask |-> q.ask, node |-> q.node, to |-> q.to,
                     by |-> q.by, copy |-> node[q.node], since |-> clock]
               ELSE Idle)
  /\ ReadOnly

ResolveAsk(c) ==
  /\ req[c].at = "answer"
  /\ LET q == req[c] IN
     IF ~StillOpen(q.ask) THEN Become(c, Idle) /\ ReadOnly
     ELSE /\ SetAsk(q.ask, [ask[q.ask] EXCEPT !.status = q.to, !.by = q.by])
          /\ IF q.copy.status # "waiting" THEN Become(c, Idle)
             ELSE \E now \in q.since..clock :
                    Become(c, [at |-> "resume", node |-> q.node, copy |-> q.copy,
                               resolved |-> now])

WriteResumed(c) ==
  /\ req[c].at = "resume"
  /\ LET q == req[c] IN
     SetNode(q.node, [q.copy EXCEPT !.status = "running",
                                    !.started = StartedBy(q.copy, q.resolved)])
  /\ Become(c, Idle)

-----------------------------------------------------------------------------
\* FinishRun and SaveRunCheckpoint: completing a run reads the nodes and the
\* pending questions first.

BeginRunUpdate(c, to) ==
  /\ ~Busy(c)
  /\ ~Terminal(run)
  /\ Become(c, [at |-> IF to = "completed" THEN "graph" ELSE "finish", to |-> to])
  /\ ReadOnly

ReadGraph(c) ==
  /\ req[c].at = "graph"
  /\ Become(c, IF Whole THEN [req[c] EXCEPT !.at = "open"] ELSE Idle)
  /\ ReadOnly

\* A slip: open questions do not count.
ReadOpenUnseen(c) ==
  /\ req[c].at = "open"
  /\ Become(c, [req[c] EXCEPT !.at = "finish"])
  /\ ReadOnly

ReadOpen(c) ==
  /\ req[c].at = "open"
  /\ Become(c, IF \E i \in Ask : Pending(i) THEN Idle ELSE [req[c] EXCEPT !.at = "finish"])
  /\ ReadOnly

WriteRun(c) ==
  /\ req[c].at = "finish"
  /\ run' = req[c].to
  /\ Become(c, Idle)
  /\ UNCHANGED <<clock, node, ask>>

-----------------------------------------------------------------------------

\* A request ends between two statements.
Abandon(c) ==
  /\ Busy(c)
  /\ Become(c, Idle)
  /\ ReadOnly

Tick ==
  /\ clock < MaxClock
  /\ clock' = clock + 1
  /\ UNCHANGED <<run, node, ask, req>>

UpdateStep(c) ==
  \/ \E n \in Node, to \in UpdateTo : BeginUpdate(c, n, to)
  \/ ReadNodes(c) \/ ReadAnswers(c) \/ WriteNode(c)
  \/ InvalidateNode(c) \/ ReadPending(c) \/ RejectAsk(c)
  \/ RefreshReadiness(c) \/ WriteReadiness(c)

AskStep(c) ==
  \/ \E n \in AskAbout : BeginAsk(c, n)
  \/ ReadNode(c) \/ ReadDependencies(c) \/ ReadWaits(c) \/ InsertAsk(c) \/ WriteWaiting(c)

ReplyStep(c) ==
  \/ \E i \in Ask, to \in {"answered", "rejected"}, who \in Actor : BeginReply(c, i, to, who)
  \/ ReadReplyNode(c) \/ ResolveAsk(c) \/ WriteResumed(c)

RunStep(c) ==
  \/ \E to \in RunTo : BeginRunUpdate(c, to)
  \/ ReadGraph(c) \/ ReadOpen(c) \/ WriteRun(c)

Step(c) == UpdateStep(c) \/ AskStep(c) \/ ReplyStep(c) \/ RunStep(c)

GraphNext == Tick \/ \E c \in Caller : Step(c) \/ Abandon(c)

GraphSpec == GraphInit /\ [][GraphNext]_graphVars

\* Requests that run to their end.  With one caller it is what the server does for
\* a client that waits for each answer; the code enforces neither.
PatientNext == Tick \/ \E c \in Caller : Step(c)
PatientGraphSpec == GraphInit /\ [][PatientNext]_graphVars

-----------------------------------------------------------------------------

\* Rows and requests keep their types.
GraphTypeOK ==
  /\ clock \in Stamp
  /\ run \in RunStatus
  /\ node \in [Node -> NodeRow]
  /\ ask \in [Ask -> {NoAsk} \cup AskRow]
  /\ req \in [Caller -> Stage]

\* "Human gates require a fresh response from an actor other than the executing
\* Agent": a completed gate has one, given to a question asked since the gate's
\* started_at, whatever copies of the gate other requests write back.  (Reopening
\* a gate keeps started_at; only an invalidation clears it.)
GateNeedsAnswer ==
  \A n \in Human : node[n].status = "completed" =>
    \E i \in Ask : /\ ask[i].status = "answered" /\ ask[i].node = n
                   /\ ask[i].by # Executor
                   /\ ask[i].created >= node[n].started

\* A node has one open question at most, although two requests may both have
\* found none.
OnePendingAsk == \A n \in Node : \A i, j \in PendingAt(n) : i = j

\* A resolved question is never resolved again, neither by a second answer nor
\* by an invalidation that listed it while it was pending.
AnswersStand ==
  [][\A i \in Ask : ask[i] # NoAsk /\ ~Pending(i) => ask'[i] = ask[i]]_graphVars

AtRest == \A c \in Caller : ~Busy(c)

\* With one request at a time, work is under way or finished only on nodes whose
\* dependencies are finished: "The server rejects dependency skips", and going
\* back upstream takes back everything downstream.
ReceiptsInOrder ==
  AtRest => \A n \in Node :
    node[n].status \in {"running", "waiting", "completed", "skipped"} => Met(n)

\* With one request at a time, a node that is not under way is ready exactly when
\* its dependencies are met.
ReadyExactlyWhenMet ==
  AtRest => \A n \in Node : /\ node[n].status = "ready" => Met(n)
                            /\ node[n].status = "pending" => ~Met(n)

\* With one request at a time, "the server rejects completion while a node or
\* human interrupt remains open", and nothing opens one afterwards.
CompletedRunIsWhole ==
  run = "completed" => Whole /\ \A i \in Ask : ~Pending(i)

\* "Changing an upstream result invalidates all downstream receipts
\* automatically": no finished node was finished before what it depends on.
ReceiptsAreCurrent ==
  AtRest => \A n \in Node : SatisfiesDependency(node[n].status) =>
    \A d \in DependsOn[n] : node[d].completed <= node[n].completed

\* The questions without their dates, and the gates that are passed.
Questions == [i \in Ask |-> IF ask[i] = NoAsk THEN NoAsk
                            ELSE [status |-> ask[i].status, node |-> ask[i].node,
                                  by |-> ask[i].by]]
Passed == {n \in Human : node[n].status = "completed"}

\* The rows of nodes and interrupts implement the gates.
Gates == INSTANCE HumanGate WITH Gate <- Human, question <- Questions, passed <- Passed
ImplementsGates == Gates!Spec
=============================================================================
