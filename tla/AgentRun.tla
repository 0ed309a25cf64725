------------------------------ MODULE AgentRun ------------------------------
(***************************************************************************)
(* The agent_runs table: an agent that holds the claim of a task starts a  *)
(* run of it, checkpoints, resumes and finishes it.                        *)
(*                                                                         *)
(* Of the claims this module needs only what ClaimLease says, which        *)
(* TaskQueue implements.  A request is a chain of statements: it reads the *)
(* run, reads the task to check the claim, and writes all of the run's     *)
(* columns back under "WHERE id=?".  The event it appends to the history   *)
(* afterwards is read by no other request and is left out.                 *)
(*                                                                         *)
(* NewRunAsAsked, RefusedByIndexOnly, WrittenStatusOnly and NeverClashes   *)
(* are slips that the properties must notice; nothing uses them.           *)
(***************************************************************************)
EXTENDS ClaimLease, FiniteSets

CONSTANTS
  Run,                     \* the ids of runs, never handed out twice
  Caller,                  \* handler goroutines serving the run endpoints
  Template, SingleLoop,    \* workflow templates, and the one without a graph
  AnyTemplate              \* a start request that names no template

ASSUME RunAssumption ==
  /\ NoAgent \notin Agent
  /\ SingleLoop \in Template /\ AnyTemplate \notin Template

VARIABLES
  gone,        \* deleted tasks
  fresh,       \* run ids not handed out yet
  run,         \* the row of each run; NoRun if there is none
  call         \* what each caller is in the middle of

runVars == <<gone, fresh, run, call>>
vars == <<holder, runVars>>

-----------------------------------------------------------------------------

Active == {"running", "blocked"}
Terminal == {"completed", "failed"}

NoRun == [status |-> "none"]
RunRow == [task: Task, agent: Agent, template: Template, status: Active \cup Terminal,
           finished: BOOLEAN]     \* finished: completed_at # 0
Exists(r) == run[r].status # "none"
ActiveRuns(t) == {r \in Run : Exists(r) /\ run[r].task = t /\ run[r].status \in Active}

\* A request's stages.  "new" is the row an update will write, built from the
\* copy of the run that the request read first.
Idle == [at |-> "idle"]
Started == [at: {"look", "insert"}, task: Task, agent: Agent,
            template: Template \cup {AnyTemplate}]
Owned == [at: {"owner"}, op: Active \cup Terminal, agent: Agent, id: Run, copy: RunRow]
Updating == [at: {"graph", "write"}, id: Run, new: RunRow]
Call == {Idle} \cup Started \cup Owned \cup Updating

RunInit ==
  /\ Init
  /\ gone = {}
  /\ fresh = Run
  /\ run = [r \in Run |-> NoRun]
  /\ call = [c \in Caller |-> Idle]

Become(c, stage) == call' = [call EXCEPT ![c] = stage]

\* requireLiveOwner.
LiveOwner(t, a) == holder[t] = a

-----------------------------------------------------------------------------
\* Claims and tasks.

Claim(t, a) ==
  /\ t \notin gone
  /\ Acquire(t, a)
  /\ UNCHANGED runVars

LoseClaims(T) ==
  /\ Lapse(T)
  /\ UNCHANGED runVars

\* Deleting tasks ends their claims and, by cascade, their runs.
DeleteTasks(T) ==
  /\ Lapse(T)
  /\ gone' = gone \cup T
  /\ run' = [r \in Run |-> IF Exists(r) /\ run[r].task \in T THEN NoRun ELSE run[r]]
  /\ UNCHANGED <<fresh, call>>

-----------------------------------------------------------------------------
\* StartOrResumeRun.

BeginStart(c, t, a, asked) ==
  /\ call[c] = Idle
  /\ LiveOwner(t, a)
  /\ Become(c, [at |-> "look", task |-> t, agent |-> a, template |-> asked])
  /\ UNCHANGED <<holder, gone, fresh, run>>

\* GetActiveAgentRun: somebody else's run, or one of another template, is a
\* conflict; one's own is set to running again.
LookForRun(c) ==
  /\ call[c].at = "look"
  /\ LET q == call[c] IN
     IF ActiveRuns(q.task) = {} THEN Become(c, [q EXCEPT !.at = "insert"])
     ELSE \E r \in ActiveRuns(q.task) :
            IF run[r].agent = q.agent /\ q.template \in {AnyTemplate, run[r].template}
            THEN Become(c, [at |-> "write", id |-> r,
                            new |-> [run[r] EXCEPT !.status = "running"]])
            ELSE Become(c, Idle)
  /\ UNCHANGED <<holder, gone, fresh, run>>

NewRunAsAsked(q) ==
  [task |-> q.task, agent |-> q.agent, status |-> "running", finished |-> FALSE,
   template |-> q.template]

NewRun(q) ==
  [task |-> q.task, agent |-> q.agent, status |-> "running", finished |-> FALSE,
   template |-> IF q.template = AnyTemplate THEN SingleLoop ELSE q.template]

\* CreateAgentRunWithNodes: one transaction; the foreign key and the unique
\* index on active runs can refuse it.
RefusedByIndexOnly(q) == ActiveRuns(q.task) # {}
Refused(q) == q.task \in gone \/ ActiveRuns(q.task) # {}

InsertRun(c) ==
  /\ call[c].at = "insert"
  /\ LET q == call[c] IN
     IF Refused(q) THEN UNCHANGED <<fresh, run>>
     ELSE \E r \in fresh : /\ fresh' = fresh \ {r}
                           /\ run' = [run EXCEPT ![r] = NewRun(q)]
  /\ Become(c, Idle)
  /\ UNCHANGED <<holder, gone>>

-----------------------------------------------------------------------------
\* SaveRunCheckpoint (op running, blocked) and FinishRun (completed, failed).
\* RecordRunEvent takes the steps up to CheckOwner and changes no run.

\* ownedRun reads the run,
BeginOwned(c, op, a, r) ==
  /\ call[c] = Idle
  /\ Exists(r)
  /\ Become(c, [at |-> "owner", op |-> op, agent |-> a, id |-> r, copy |-> run[r]])
  /\ UNCHANGED <<holder, gone, fresh, run>>

\* the row an update writes, from the copy it read,
NewRow(q) == [q.copy EXCEPT !.status = q.op, !.finished = (q.op \in Terminal) \/ @]

\* then the task, and checks the claim; a run found finished is left alone.
MayNotUpdate(q) ==
  \/ ~LiveOwner(q.copy.task, q.agent)
  \/ q.copy.agent # q.agent
  \/ q.copy.status \in Terminal

CheckOwner(c) ==
  /\ call[c].at = "owner"
  /\ LET q == call[c]
         next == IF q.op = "completed" /\ q.copy.template # SingleLoop
                 THEN "graph" ELSE "write" IN
     Become(c,
       IF MayNotUpdate(q) THEN Idle
       ELSE [at |-> next, id |-> q.id, new |-> NewRow(q)])
  /\ UNCHANGED <<holder, gone, fresh, run>>

\* A run with a work graph is completed only when GetRunWorkGraph shows no open
\* node or interrupt.  The graph is not part of this module: either answer.
ReadGraph(c) ==
  /\ call[c].at = "graph"
  /\ \/ Become(c, Idle)
     \/ Exists(call[c].id) /\ Become(c, [call[c] EXCEPT !.at = "write"])
  /\ UNCHANGED <<holder, gone, fresh, run>>

\* UpdateAgentRun writes every column of the copy back, whatever the row has
\* become; the unique index refuses a second active run of the task.
WrittenStatusOnly(q) == [run[q.id] EXCEPT !.status = q.new.status]
Written(q) == q.new
NeverClashes(q) == FALSE
Clashes(q) == q.new.status \in Active /\ ActiveRuns(q.new.task) \ {q.id} # {}

WriteRun(c) ==
  /\ call[c].at = "write"
  /\ LET q == call[c] IN
     run' = IF Exists(q.id) /\ ~Clashes(q) THEN [run EXCEPT ![q.id] = Written(q)] ELSE run
  /\ Become(c, Idle)
  /\ UNCHANGED <<holder, gone, fresh>>

\* The request ends between two statements.
Abandon(c) ==
  /\ call[c] # Idle
  /\ Become(c, Idle)
  /\ UNCHANGED <<holder, gone, fresh, run>>

CallStep(c) ==
  \/ \E t \in Task, a \in Agent, asked \in Template \cup {AnyTemplate} :
       BeginStart(c, t, a, asked)
  \/ LookForRun(c)
  \/ InsertRun(c)
  \/ \E op \in Active \cup Terminal, a \in Agent, r \in Run :
       BeginOwned(c, op, a, r)
  \/ CheckOwner(c)
  \/ ReadGraph(c)
  \/ WriteRun(c)
  \/ Abandon(c)

RunNext ==
  \/ \E t \in Task, a \in Agent : Claim(t, a)
  \/ \E T \in SUBSET Task : LoseClaims(T)
  \/ \E T \in SUBSET Task : DeleteTasks(T)
  \/ \E c \in Caller : CallStep(c)

RunSpec == RunInit /\ [][RunNext]_vars

-----------------------------------------------------------------------------

\* Rows and requests keep their types.
RunTypeOK ==
  /\ holder \in [Task -> Agent \cup {NoAgent}]
  /\ gone \subseteq Task
  /\ fresh \subseteq Run
  /\ run \in [Run -> {NoRun} \cup RunRow]
  /\ call \in [Caller -> Call]

\* At most one resumable run per task, although two requests may both have
\* found none before they insert, and a late update may turn an old run back.
OneActiveRun ==
  \A r, s \in Run :
    Exists(r) /\ Exists(s) /\ run[r].task = run[s].task
      /\ run[r].status \in Active /\ run[s].status \in Active => r = s

\* completed_at is set exactly on finished runs, whatever copy of the row an
\* update writes back.
FinishedIffTerminal ==
  \A r \in Run : Exists(r) => (run[r].finished <=> run[r].status \in Terminal)

\* No run outlives its task: none is inserted for a task deleted after the
\* start request looked at it.
RunsGoWithTheirTask == \A r \in Run : Exists(r) => run[r].task \notin gone

\* A completed or failed run is never running or blocked again: the manual
\* keeps "run finish --status failed" for runs that "should not be resumed".
FinishedStaysFinished ==
  [][\A r \in Run :
       run[r].status \in Terminal => run'[r].status \notin Active]_vars
=============================================================================
