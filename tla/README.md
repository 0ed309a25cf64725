# RunEngram in TLA+

TLA+ models of the RunEngram server, checked with TLC on small instances and
proved about with TLAPS for all instances. Paths below are relative to the
repository.

## The system

RunEngram is a task queue and engineering memory for coding agents. A Go server
(`server/`) keeps everything in one SQLite file; a CLI (`cli/`) and a web
console (`web/`) are clients of its REST API. Inside the server a request goes
handler (`server/api/handler`) -> service (`server/internal/service`, the
rules) -> store (`server/internal/store`, the SQL).

Three facts shape every model:

* **Statements are atomic, requests are not.** The store opens one connection
  (`db.SetMaxOpenConns(1)`, `store.go:150`), so a statement, and a transaction,
  runs alone. Handlers run in goroutines of their own and take no lock, so
  between two statements of a request any statement of any other request can
  run. A step of a model is therefore one statement or one transaction,
  together with the Go code that follows it up to the next statement.
* **All state is in tables.** A request that dies (client gone, statement
  failed, server stopped) leaves what its completed statements wrote; a
  restarted server starts from the tables alone. `Abandon` actions model both.
* **The clock is read before the statement that uses it.** Leases are compared
  with a stamp that may be old when the UPDATE runs.

### Inventory

| part | state | operations | how it interacts | hard behaviour | correct when |
|---|---|---|---|---|---|
| task dependencies | `task_deps` | AddDependency, DeleteDependency, cascades | decides what the queue offers | cycle check in many statements | acyclic, no edge of a deleted task, every walk ends |
| task queue | `tasks` | create, claim, claim next, heartbeat, release, edit, delete | the claim gates runs, notes, recall | old stamps, whole-row writes, handover | one live holder, only runnable work is claimed, edits respect owners and each other |
| agent runs | `agent_runs` | start/resume, checkpoint, record event, finish | needs the claim; completes only with a complete graph | racing starts, stale copies | one active run per task, finished stays finished |
| work graph | `run_nodes`, `run_interrupts` | update node, invalidate, refresh readiness, ask, answer | belongs to a run; gates its completion | multi-statement propagation, human gates | work follows its dependencies; a gate needs an answer of somebody else; one open question per node; a completed run is whole |
| workflow definitions | none | validate | seeds the graph | cycle detection | accepted definitions are acyclic |
| learning notes | `learning_notes` | capture, promote, reject, edit | promotion creates a capsule | repeated and racing resolutions | resolved once, promoted note has its capsule |
| capsules, memory graph | `exploration_capsules`, `memory_relations` | create, edit, relate | supersedes makes a capsule stale | whole-row writes, cycle check then insert | superseded is stale, no supersedes cycle |
| memory impacts | `memory_impacts`, `capsule_usages` | recall receipt, record, mark unconfirmed | finishing a task marks impacts | compare-and-set on a time stamp, second table | impact and usage agree, final is final |
| context snapshots | `context_snapshots` | get or create | freezes recall for a task | racing creators | one snapshot, receipts match it |
| attachments | rows and files | add, update, delete | cascades remove rows only | two steps, two media | a row has its file |
| history | `task_events` | append, list | written after the change | crash in between | append-only |
| migrations | `user_version` | apply at start | before everything | crash between steps | each step once, in order |
| agents, configuration, search, GitHub verifier, CLI, web, plugins | | | | | |

The hazards of each part, with their lines and the properties that watch them,
are listed in `PROJECT.json`.

## Modules

| module | models |
|---|---|
| `TaskDeps` | the dependency table and the cycle check |
| `ClaimLease` | the promise of a claim: an abstract specification |
| `TaskQueue` | the tasks table; composes `TaskDeps`, implements `ClaimLease` |
| `AgentRun` | the runs of agents, on top of `ClaimLease` |
| `HumanGate` | the promise of the gates to those who are asked: an abstract specification |
| `WorkGraph` | the nodes and questions of one run; implements `HumanGate` |
| `Memory` | learning notes, capsules and the relations between capsules |
| `MemoryImpacts` | contexts, recall, reports and usages; extends `Memory` |
| `Migrations` | server processes bringing the database up to date |
| `Attachments` | documents and images, rows and files |
| `Server` | composes `Migrations` and `Attachments`: requests of processes that stop |
| `MC...` | constants, constraints and symmetry for TLC |
| `...Proofs` | theorems about the module of that name |

`PROJECT.json` maps every definition to the lines it stands for. Definitions
announced as *slips* at the head of a module (for example `WalkStepShallow`) are
plausible mistakes with the shape of a real definition. No specification uses
them; substituting one for the real definition must break a property, which
shows that the property looks at the code it is about.

### TaskDeps

`live` is the set of task rows, `deps` the edges, `add[h]` what the handler
goroutine `h` is doing. `Service.AddDependency` looks both tasks up (`BeginAdd`),
`Store.dependsOn` pops one task per step and reads its dependencies (`WalkStep`),
and `Store.AddDependency` inserts (`InsertEdge`), where the foreign keys may
refuse and an existing edge is a success. The two look-ups and the first pop are
folded into `BeginAdd` because ids are never reused (`unborn`) and a task that
goes later is caught by the foreign key. The order of the stack is left open.
`DeleteTask` and `DeleteProject` cascade at both ends of an edge.

### TaskQueue

`row` is the tasks table, `req[w]` the request a worker is in the middle of,
`clock` the wall clock. Claims and heartbeats are two steps: the service takes
the stamp (`BeginClaim`, `BeginNext`), one guarded statement uses it
(`ClaimTask`, `HeartbeatTask`) or one transaction does (`ClaimNextTask`, whose
retry loop is for a conflict a single connection cannot produce). `ReleaseTask`
uses no stamp and is one step. An edit is three: the service reads and checks
(`BeginEdit`), the store reads again and checks again (`ReadRow`), and the UPDATE
writes the row back under its guard (`WriteRow`). The stamp of an edit lies
anywhere between the two reads, as in the code.

Left out of the edit: title, description, type and labels, which no other
operation looks at, and with them the eight retries of label and append edits. A
state entry rule can only refuse; none is installed by default.

### ClaimLease and AgentRun

A run request needs one thing of the queue: that the agent holds a running lease
at the moment the task is read (`requireLiveOwner`). `ClaimLease` says how
holders may change, `TaskQueue` implements it (property `ImplementsLease`,
theorem `QueueImplementsLease`), and `AgentRun` is written against it, so that
runs need not be explored together with clocks and stamps. A claim ends whenever
it likes in `AgentRun`, which covers expiry, release and forced release. What the
runs do in turn leaves the holders alone (theorem `RunsKeepTheLease`): an agent run
extends the lease and nothing else.

A request is again a chain of statements. `StartOrResumeRun`: check the claim
(`BeginStart`), look for an active run (`LookForRun`), then either insert one
(`InsertRun`, one transaction, refused by the foreign key or by the unique index
on active runs) or write the found row back as running (`WriteRun`).
`SaveRunCheckpoint` and `FinishRun`: read the run (`BeginOwned`), read the task
and check (`CheckOwner`), for a completed run with a work graph read the graph
(`ReadGraph`, whose answer is left open), and write the row (`WriteRun`).
`UpdateAgentRun` writes all columns `WHERE id=?`: the copy it carries is part of
the model, the row's present value does not matter to it, and the unique index
can refuse it. Agent tool, summary and next step are left out: nothing decides
on them.

### WorkGraph

`node` holds the rows of `run_nodes` of one run, `ask` those of `run_interrupts`,
`run` the run's status, `clock` the wall clock, `req[c]` what request `c` carries
to its next statement. `req[c].at` is the stage a request is at:

| request | its statements |
|---|---|
| `Service.UpdateRunNode` | run and task (`BeginUpdate`), all nodes (`ReadNodes`), for the completion of a gate `HasAnsweredRunInterruptSince` (`ReadAnswers`), the node's UPDATE (`WriteNode`); if the node leaves completed or skipped `invalidateDependentNodes`: one UPDATE per node downstream (`InvalidateNode`), the pending interrupts (`ReadPending`), one UPDATE per rejection (`RejectAsk`); always `refreshRunNodeReadiness`: all nodes (`RefreshReadiness`), one UPDATE per node that changes (`WriteReadiness`) |
| `Service.CreateRunInterrupt` | run and task (`BeginAsk`), node (`ReadNode`), all nodes (`ReadDependencies`), pending interrupts (`ReadWaits`), INSERT (`InsertAsk`), the node's UPDATE (`WriteWaiting`) |
| `Service.ResolveRunInterrupt` | interrupt (`BeginReply`), node (`ReadReplyNode`), interrupt's UPDATE (`ResolveAsk`), the node's UPDATE if it waited when it was read (`WriteResumed`) |
| `FinishRun`, `SaveRunCheckpoint` | run and task (`BeginRunUpdate`), to complete it all nodes (`ReadGraph`) and the pending interrupts (`ReadOpen`), the run's UPDATE (`WriteRun`) |

`Store.UpdateRunNode` writes all mutable columns `WHERE id=?`: a request writes
the copy it read, whatever the row has become, and the copies are part of the
model. `Store.UpdateRunInterrupt` is guarded by `status='pending'`, and a partial
unique index refuses a second pending interrupt of a node. `depends_on` never
changes, so `Downstream` is a fixed set: the smallest one closed under dependence,
which the loop of `invalidateDependentNodes` computes; the order in which it
writes, and that of rejections and of the refresh, is left open. Stamps lie
anywhere between the read before them and the write that uses them. `Abandon`
ends a request between two statements.

The look-up of the task's claim is folded into the first step: the lease is
`AgentRun`'s matter, and one that fails refuses the request. All questions are
asked by `Executor`, the agent of the run, as `ownedRun` demands; anybody replies.
`HumanGate` says what this comes to for the people who are asked. It keeps the
questions without their dates (`Questions`: state, node, who replied) and the set of
completed gates (`Passed`), and leaves requests, copies and the clock out. INSERT is
`Put`; the UPDATE of a question is `Reply`, or `Withdraw` when an invalidation rejects
it; a node row written completed is `Pass`, and one that takes a completed gate back,
by invalidation or by a request that went upstream, is `Reopen`. All other steps map
to nothing.

Left out: summaries, next steps, evidence, artifacts, attempts and fingerprints
(an empty summary or a foreign artifact refuses, nothing else looks at them), the
kind and options of a question, the history, and the cascade that removes nodes
and questions with their run.

### Memory

`capsule`, `note` and `link` are the rows of `exploration_capsules`,
`learning_notes` and `memory_relations`, `event` what the history says of a note,
`req[c]` the request of `c`. `updated` of a capsule stands for `updated_at`, taken
for a version: two writes within a millisecond of each other do not occur.

| request | its statements |
|---|---|
| note captured | INSERT (`InsertNote`), event (`AppendEvent`) |
| promote, reject, edit of a note | read the note and refuse (`BeginResolve`), then one guarded statement or transaction (`Promote`, `Reject`, `Rewrite`), then the event |
| `CreateMemoryRelation` | `BeginRelate`; all relations (`ReadRelations`), the path check and the target (`CheckTarget`), INSERT (`InsertRelation`); for supersedes read the target (`ReadSuperseded`) and write it stale (`WriteCapsule`), or, if that fails (`MarkFails`), delete the relation again (`UndoRelation`) |
| edit of a capsule, archive | `BeginEdit`, read (`ReadCapsule`), whole-row UPDATE (`WriteCapsule`), guarded by `updated_at` when the request names one (`CopyFresh`) |

`Promote` of a note that is promoted already answers with its capsule, as the code
does, and the event is appended again; hence `event` is a set and
`HistoryTellsTheOutcome` asks that it be true and complete. The columns `from` and
`revived` of a capsule are history: the note it came from, and whether it is active
because an edit asked for that or carried it back (`Revives`). `raced` records that two requests to relate were in flight at once and
`cut` that a request died between two statements: the properties that the code does
not keep through those say so. Left out: texts, kinds, labels, and relations to
tasks, artifacts and scopes, which are rows nothing looks at.

`expected_updated_at` is optional: the console and `capsule edit` send it, `capsule
archive` does not, and other clients of the REST API choose. The model has edits of both
kinds, of the texts alone (`to = None`) and of the status. An edit of the texts that
names no stamp writes the status it read, so one that read an active capsule revives it
after it was superseded or reported stale (`CarriesBack`). `SupersededIsRetired` and
`StaleIsRetired` except that edit and the ones that ask for "active", as long as the
capsule stays active by it, and hold of all others: an edit with a stamp writes back no
status but the row's. The marking by supersedes and a stale report name no stamp either,
but set the status themselves.

### MemoryImpacts

`snapshot[t]` is the context of a task, `impact[t, k]` the receipt for a capsule shown
to it, `usage[t, k]` its row in `capsule_usages`, `job[r]` the request of `r`; the
capsules are those of `Memory`, whose requests run at the same time.

| request | its statements |
|---|---|
| context | stored one, or check the claim (`BeginContext`), list the capsules (`ListCapsules`), INSERT ... ON CONFLICT DO NOTHING and read back (`StoreSnapshot`), one receipt per capsule (`RecordReceipt`), answer (`AnswerRecall`) |
| recall | the same without a snapshot (`BeginRecall`) |
| usage, feedback | the impact, inserted if missing (`FindImpact`), then a report |
| report on an impact | read and check the progression (`CheckReport`), UPDATE under `updated_at` (`UpdateImpact`), usage (`UpsertUsage`), and for "stale" read and write the capsule (`ReadStale`, `WriteStale`) |
| metrics, listings | snapshots, then a receipt for each capsule they hold (`BeginReconcile`, `RecordReceipt`, `CountImpacts`) |
| completion of a task | the task (`CompleteTask`), then one UPDATE of its open impacts (`MarkUnconfirmed`) |

Which capsules a recall shows is any subset of the active, undisputed ones: text
matching, scores and budgets only choose among them. `told` is history, the contexts
each task was answered with; `crossed` records that a report reached an impact while
an earlier one was on its way to the usages. After a crossing or a death (`cut`) the
usages may keep an older outcome, and nothing repairs them.

A marking that fails or is cut off leaves the impacts of a done task open for good:
`UpdateTask` drops the error, and `ReconcileMemoryImpacts` only writes receipts,
although the design document
(`docs/superpowers/specs/2026-07-30-memory-impact-receipts-design.md:392`) expects the
reconciliation to retry. The model shows it (`AbandonJob` after `CompleteTask`); no
property states that it does not happen.

### Migrations, Attachments, Server

`version` is `user_version`, `applied` how often each migration ran, `proc[p]` what a
server process does. `Start` reads the stamp once, `ApplyOneMigration` is one
transaction with its stamp, `Serve` follows the last one, and `Exit` may come at any
point. Some migrations fail when repeated and some do not (`Repeatable`, among them the
first three). `overlap` records that two processes were starting at once. In that case
on a new database the second repeats the first three, sets the stamp back, and with the
rebuild of the tasks table drops the columns added since; `EachMigrationOnce` is stated
without it.

`row` and `file` are the two halves of a document or image, `temp` the temporary
files, `work[c]` the request of `c`. Adding: file (`SaveFile`), row (`InsertRow`),
event (`AppendAdded`), and on an error the file goes (`Discard`). Updating: temporary
file (`BeginUpdate`), row (`UpdateRow`), event (`AppendUpdated`), rename
(`CommitContent`), or on an error `DropTemp`. Removing: row (`BeginRemove`), event,
file (`Unlink`). `DeleteTask` cascades over rows and leaves files;
`DeleteProject` lists attachments first, deletes, then unlinks what it listed. A
revision stands for a content.

Three histories name what the code lets happen: `hollow` (the event of an addition
failed: the file is removed and the row stays), `torn` (two updates of one document
overtook each other, or one was cut short after its row was written), `crashed`. The
model also has an update that meets a deletion: `CommitContent` renames whatever has
become of the row, and leaves a file without one.

In `Server` a request belongs to a process (`Home`) that must be serving;
`StopServer` ends the process and its requests and keeps rows and files. Left out:
links (rows without files), titles, and the half file a full disk leaves.

## Runs

| run | instance | shows |
|---|---|---|
| `deps_concurrent` | 3 tasks, 2 projects, 2 adders | `EdgesJoinLiveTasks`, `AcyclicUnlessRaced`, `WalksNeverTurnBack`, `AddsEnd` (liveness) |
| `deps_race` | 3 tasks, 2 adders | `DepsAcyclic` **fails** |
| `queue_claims` | 1 task, 2 agents, 2 workers, clock to 3, 3 edits | `TypeOK`, `CompletedIffDone`, `HandoverOnlyAfterExpiry`, `EditsRespectOwner`, `LeasesMoveForTheirOwner`, `ImplementsLease` |
| `queue_runnable` | 2 tasks, 1 agent, 2 workers, 1 adder, edits with `if_state` and one without | `ClaimsOnlyRunnable`, `StateMovesOnlyAsAsked` |
| `run_loop` | 1 task, 2 agents, 2 runs, 2 requests, 2 templates | `RunTypeOK`, `OneActiveRun`, `FinishedIffTerminal`, `RunsGoWithTheirTask` |
| `run_finished` | the same | `FinishedStaysFinished` **fails** |
| `graph_serial` | chain of 3 nodes, the last a gate, 2 questions, all statuses, one request at a time, no ticks | `ReceiptsInOrder`, `ReadyExactlyWhenMet`, `CompletedRunIsWhole` |
| `graph_concurrent` | a node and its gate, 2 questions about the gate, 2 requests that may stop, clock to 2 | `GraphTypeOK`, `GateNeedsAnswer`, `ImplementsGates` |
| `graph_receipts` | as `graph_serial`, clock to 3 | `ReceiptsAreCurrent` **fails** |
| `memory` | 3 capsules, 1 note, 3 relations, 2 requests; supersession in a circle, conflicts both ways, edits of the texts and to active and archived, each with and without a stamp | `MemoryTypeOK`, `ResolvedNotesStand`, `OneCapsulePerNote`, `SupersedesAcyclic`, `ConflictsOneWay`, `SupersededIsRetired`, `HistoryTellsTheOutcome` |
| `impacts` | 1 task, 2 capsules, 2 reporters, 1 editor with and without a stamp, outcomes applied, helpful, stale | `ImpactsTypeOK`, `ContextIsFrozen`, `EveryContextIsCounted`, `FinalsAreMirrored`, `StaleIsRetired`, `AgentsKeepFinals` |
| `server` | 2 processes, 4 migrations, 1 document, 1 image, 2 requests, 3 contents | `ServerTypeOK`, `EachMigrationOnce`, `RowsHaveFiles`, `TempsAreCleaned`, `ContentMatchesRow` |

The three failing runs are findings:

* **A cycle of dependencies.** Requests for `a -> b` and `b -> a` in flight at the
  same time both find no path back and both insert. The comment on
  `Service.AddDependency` says "the resulting graph must remain acyclic". In the
  behaviours whose requests come one at a time it does: `AcyclicUnlessRaced`, in
  `deps_concurrent` and for any number of tasks by `SerialAddsStayAcyclic`.
* **A finished run that runs again.** A checkpoint or a resume that read the run
  before it was finished writes `running` over `failed` or `completed`. With requests
  one at a time it does not happen (`SerialFinishIsFinal`), so it is the copy in flight
  that revives a run. What does
  hold, whatever copies are in flight, is that a task has one active run and that
  the completion stamp follows the status (`run_loop`, and the theorems).
* **A receipt older than what it depends on.** `UpdateRunNode` invalidates what is
  downstream when a node *leaves* completed or skipped. A completed node completed
  again with a new result stays completed, and everything built on the old one
  stays completed too. The skill says that "changing an upstream result invalidates
  all downstream receipts automatically".

An edit of the priority alone writes every column of the row it read, although
`TaskUpdate` (`store.go:924`) calls absent fields unchanged, and can carry an old state
back. `StateMovesOnlyAsAsked` speaks of all edits and excepts only that one: an edit
that moves the state names the state it moves to, or names neither a state to set nor
one to expect. `queue_runnable` makes such an edit beside those that name `if_state`
(`ConditionalEdits`).

`graph_serial` speaks of requests one at a time that run to
their end (`PatientGraphSpec` with one caller). The code enforces neither; it is how one agent
with one claim drives a run. For any acyclic graph and any statuses asked for, the three are theorems
(`SerialReceiptsInOrder`, `SerialReadyExactlyWhenMet`, `SerialCompletedRunIsWhole`).
With a second request between the statements of the first, or a request that
stops half-way, all three of its properties can be broken: a node completes on
dependencies that are invalidated meanwhile, a run completes on a graph that a
node has left. No property claims otherwise; what survives any interleaving and
any stop is in `graph_concurrent` and in the theorems.

### Bounds

`Task`, `Agent`, `Run`, `Worker`, `Caller`, `Adder` are finite sets in the
configurations and arbitrary in the specifications. `MaxClock` bounds the clock;
three ticks give a lease of one tick that expires, a handover and a stamp older
than the lease it is compared with. Time stamps are abstracted to ticks, lease
lengths to one tick for a claim and two (one in `queue_runnable`, where nothing
expires) for the default lease an edit renews, so that an edit's lease outlives a
claim's. Two workers suffice for a race between the statements of two requests;
releases, graph edits, creations and deletions come on top, without occupying a
worker. A task id or run id is handed out once (`unborn`, `fresh`), as a UUID is:
two runs allow one that is finished and one that is active, or two racing
inserts. In `queue_*` the pipeline has one stage between pending and done, since
every statement tests only for `pending` and `done`. `queue_claims` has no
dependencies and one task because its properties speak of one task at a time;
`queue_runnable` has two tasks and the graph, and no ticks. Symmetry is over
workers, adders, callers, questions and tasks that no definition names, and only in
runs without liveness properties.

In `graph_*` the bounds are `UpdateTo`, `AskAbout` and `RunTo` (what requests ask
for), `MaxClock` and the ids in `Ask`. A chain of three has a node that depends on
the invalidated one only indirectly; a wider graph adds nodes that do not meet.
`graph_serial` needs no ticks, since its properties compare no stamps, and asks for
every status. `graph_concurrent` has what a gate needs: running and completed as
targets (running takes the upstream node back, which invalidates the gate), two
questions, so that one can be stale, and two ticks, so that an old question is
older than a new start.

The runs of the memory and the server follow one subject at a time (`OneSubject`,
`StartingOrServing`), since the product of subjects that touch different rows shows
nothing more. In `memory`, notes and relations meet only in the capsules a promotion
makes; relations of different types never look at each other; a race of two requests
to relate is followed on one relation (that it can close a circle is known, and the
properties exclude it); edits and marking meet on one relation and the capsule `k2`.
Three capsules make a circle no single step closes. In `impacts`, contexts hold two
capsules nobody reports on, so that one request is among its receipts when the other
stores; reports, completions, recalls and edits meet on one capsule. `MaxStamp` and
`MaxVersion` bound how often a row changes before the last requests begin, and not
what those that are in flight do. The theorems about both modules have none of these
constraints. In `server` two processes are followed while they start, one while it
serves: requests of two processes interleave like those of one. Four migrations
are two repeatable ones among two that are not; three contents allow two updates of
one document at once on top of its first content. `MaxRevision` and the ids are used
up in the end, where the deadlock check is off.

### Deadlock and fairness

The runs of `WorkGraph`, `Memory`, `MemoryImpacts` and `Server` disable the deadlock
check: a completed or failed run accepts no request, a note is resolved and a
capsule past its bound not edited again, and ids run out. The others keep it: in every reachable state some request can
begin or a claim can lapse, except where every id has been used and every row
deleted; there `DeleteProject`, the clock or a lapse of no effect remains.

The only liveness property is `AddsEnd`. Its fairness is weak fairness of the
next statement of a request that walks the graph: the goroutine waits for nothing
but the connection, which serves waiting statements. The termination argument is
the visited set, which matters because the race above can close a cycle.

## Proofs

All theorems hold for arbitrary constants under the named assumptions
`ProjectOfAssumption`, `QueueAssumption`, `RunAssumption`, `GraphAssumption`,
`MemoryAssumption`, `ImpactAssumption`, `MigrationsAssumption`, `AttachmentsAssumption`
and `ServerAssumption` (sets are disjoint from their null values, lease lengths are
positive, and so on), which TLC evaluates in the runs of the modules that state them.

* **`TaskDepsProofs`.** `DepsTypeCorrect` and `EdgesAlwaysJoinLiveTasks` are
  inductive as they stand. `SerialAddsStayAcyclic` needs to know what a walk has
  learnt: `WalkKnows` says that the target is visited or on the stack, that the
  task the edge starts from is not visited, and that the dependencies of visited
  tasks are visited or on the stack. Deletions keep it, since they only remove edges.
  When the stack is empty the visited set is closed, so a set of tasks waiting for
  each other through the new edge would contain, inside the visited set, one that
  exists already (`FinishedWalkAddsNoCycle`). An insert by somebody else would break
  `WalkKnows`: that is the race. `WalksLeadOn` proves what makes every walk end, race or
  not: no step of a walk returns to a visited task. It needs that what is on the stack
  is not visited (`StackIsNew`), and with finitely many tasks gives the measure behind
  `AddsEnd`.
* **`TaskQueueProofs`.** `QueueInv` adds two facts about requests in flight:
  `StampsArePast` (a stamp is not ahead of the clock, a requested lease ends after
  its stamp) and `CopiesAreChecked` (the copy an edit will write from satisfies the
  ownership check and the `if_state` it names, and has a consistent completion stamp). From it follow
  `QueueTypeCorrect`, `CompletedExactlyWhenDone` and the action properties
  `HandoverNeedsExpiry`, `OnlyRunnableIsClaimed`, `EditsNeedOwnership`, and two about
  what a step may take from an old copy: `StatesMoveAsAsked` (the state an edit expects
  is the state of its copy, and the UPDATE compares it with the row) and
  `LeasesAnswerToTheOwner` (an agent's edit compares the owner again, so a lease moves at
  a request of the agent that owns the task when it moves, or by force; `LeaseMoves`
  lists the steps that move one).
  `QueueImplementsLease` is the refinement: the mapping sends a task to its owner
  while the lease runs and to nobody otherwise; a claim maps to `Acquire`, or to
  nothing when the requested lease is over already; ticks, releases and deletions
  map to `Lapse` of a set of tasks. The interesting step is a heartbeat or an edit
  that revives a lease that had run out: it maps to `Acquire` by the old owner.
  `QueueImplementsDeps` carries the theorems of `TaskDeps` over.
* **`AgentRunProofs`.** `RunInv` adds `CarriedRowsFit` (the row a request will write
  is stamped exactly when terminal and names the task its run has) and
  `FreshIdsUnknown` (no request knows an id that is not handed out). Without the
  first, a stale write could move a run to another task past the unique index;
  without the second, an insert could land under a request's stale copy.
  `RunsKeepTheLease` is the refinement of `ClaimLease` by the module that is written on
  top of it. `SerialFinishIsFinal` assumes one caller and shows with `CopiesAreCurrent`
  that a copy that passed the check is the row itself, and that a run about to be
  written is still active: a deletion removes a run but changes none.
* **`WorkGraphProofs`.** `GraphTypeCorrect` is inductive. `AskEffects` reduces a step
  to what it does to the questions: nothing, ask one where none is pending, reject a
  pending one, resolve a pending one; `OneOpenQuestion` and `ResolvedQuestionsStand`
  follow. `GateAlwaysAnswered` is the theorem about whole-row writes: a completed gate
  has an answer, not the executor's, to a question no older than its start. `GateInv`
  adds who answered (`AnsweredByOthers`, and for it `RepliesAllowed` about replies in
  flight), that a request about to complete a gate carries a start and has seen an
  answer to it (`CompletionsApproved`), and that a readiness refresh writes back no
  finished row (`RefreshesUnfinished`). `NodeEffects` says that a row is written
  completed only with its approval; that approvals outlive every step is
  `ApprovedKept`, from the lemma that resolved questions stand.
  `SerialCompletedRunIsWhole` assumes one caller: `CompletionInv` records what the
  request that completes the run has seen at each stage, and that a completed run has
  no request in flight and lets none begin. `SerialGraphInvariant`, on which
  `SerialReceiptsInOrder` and `SerialReadyExactlyWhenMet` rest, says in the middle of a
  request who is to blame for each node: one whose dependencies are not met is under way
  only if the request is about to take it back (`Invalidates`), and one that is not under
  way shows its readiness or the request will still come to it (`Repairs`). The request
  must know that what it has read still holds (`ReadsHold`), and that invalidation
  reaches everything that depends on a node it reached and never the node it started
  from (`DownstreamFacts`, from the acyclicity in `GraphAssumption`).
  `GraphImplementsGates` maps each statement to an action of `HumanGate` or to none, with
  `AskEffects` for the questions and `GateInv` for the gates; requests may interleave
  and stop anywhere.

* **`MemoryProofs`.** `MemoryInv` adds to the types what a request knows of the rows it
  holds (`Fits`): a note it read as resolved is still resolved, the copy of a capsule
  has a version no later than the row's, and *is* the row when the versions agree.
  `StillFits` carries that through every step for which `RowsAge` holds (versions grow
  with every change, resolved notes stay, relation ids come once). From it follow
  `ResolvedOnce` and, through `CopyFresh`, that an edit with a stamp writes back the current
  status. `PromotedOnce` adds that a note and the capsules that come from it name each
  other (`NotesOwn`); `HistoryIsTrue` that only what happened is about to be recorded,
  and by whom. `SupersessionHasNoCircle` says what the request on its way to INSERT
  knows: the relations it saw include all there are, because without a race nobody adds
  any and deletions only remove them (`AdmittedStaysAcyclic`).
  `SupersededCapsulesRetire` follows the one request that made a relation until its
  target is written or the relation is gone (`WorksOn`); an update on the way leaves a
  retired capsule retired, or counts as reviving it (`UpdatesRetire`).
* **`MemoryImpactsProofs`.** `ImpactsInv` contains `MemoryInv`, which the composition
  keeps since a stale report changes a capsule as an update does. `JobFits` is what a
  request knows: the version it names is not ahead of the row's, and while it is the
  row's, the report has been allowed of the state the row has. Hence `FinalsStand`: an
  agent's report that was checked before the impact became final names a version that is
  gone. `ContextStaysFrozen` needs that an answer is what is stored;
  `ContextsAreCounted` that each capsule of a snapshot is recalled or on the list of
  the request that stored it; `FinalsReachTheUsages` that, without crossings, a request
  on its way to the usages carries the outcome the impact has (`MirrorInv`);
  `StaleMemoriesRetire` that a retired capsule becomes active by no step that does not
  count as reviving it (`RetiredStays`). `ReportsKeepTheMemory`
  takes the theorems about notes, supersession and conflicts from `Memory` to the
  composition, where a stale report writes a whole capsule row with no version to
  guard it (`WriteStale`): it makes no capsule, keeps the note the row came from, and
  leaves a retired capsule retired (`ReportsLeave`, `ReportsMakeNone`), which is all the
  invariants of `Memory` need of it (`KeptInv`).
* **`AttachmentsProofs`, `ServerProofs`.** `MigrationsRunOnce` rests on `StampLeads`: at
  most one process is starting, and its next migration follows the stamp.
  `AttachmentsReadable`, `TemporariesGo`, `DocumentsKeepTheirContent` and `ServerTypes`
  are proved of the composition, whose stops end an arbitrary set of requests: the
  lemmas of `AttachmentsProofs` are about `StopRequests(cs)` for any `cs`. A file has one request
  that knows about it before its row exists (`RequestsKnow`), an unborn id is inserted
  by one (`OneInsert`), and a document that is not torn has at most one request past its row, with
  the revision the row tells of (`ContentInv`).

Only model-checked: `AddsEnd`, since liveness under fairness is beyond the prover, and
the violations of the three failing runs, which are counterexamples. Every other property
of a run is a theorem. The other way round, three theorems state what no run repeats:
`DepsTypeOK` is part of `TypeOK`, and `OnePendingAsk` and `AnswersStand`, stated of the
rows, say what `Put`, `Reply` and `Withdraw` say of questions in `ImplementsGates`.

## Not modelled

* **Workflow definitions.** Pure checks of an uploaded text, with no state. `WorkGraph`
  takes their result, an acyclic `DependsOn`, as its assumption.
* **Search ranker, text matching, budgets.** They order and select; `MemoryImpacts`
  allows every selection.
* **Agents and tokens, state entry rules, GitHub verifier.** The authenticated agent is
  an input. A rule can only refuse an edit, and none is installed.
* **Configuration, CLI, web console, plugins, scripts.** Clients; their requests are the
  inputs of the models.
* **History** beyond notes and attachments: nothing reads it to decide.
* Titles, descriptions, labels and the eight retries of label edits, links, relations
  to anything but capsules: single rows no modelled decision depends on.

Known behaviours that no property forbids, since no document promises otherwise: after a
handover the new owner cannot start a run while the former owner's is active; a
human gate that is reopened and completed again finds its first answer
(`started_at` is kept); a forced edit writes the lease it read, also over a newer one
(an edit without force does not: `LeasesMoveForTheirOwner`); an edit of a capsule that
names neither a status nor `expected_updated_at` can undo its retirement (the command
line requires the stamp, the REST API does not); deleting a task leaves its files.

## Plan

Done: dependencies, queue, lease, runs, work graph, memory, impacts, migrations,
attachments, and the composition of the last two, with their proofs; two abstract
specifications, `ClaimLease` and `HumanGate`, and the refinements of both. Left, in this
order:

1. The graph as a refinement of `ReadGraph` of `AgentRun`.
2. Workflow validation (Kahn's algorithm) against a reference definition, label
   operations as a retry loop.
3. The stop of `Server` under the queue and the memory, which model the death of a
   request today, but not that of all requests at once.
