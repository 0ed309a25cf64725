---------------------------- MODULE MemoryImpacts ----------------------------
(***************************************************************************)
(* What tasks are told from the engineering memory and what they report    *)
(* back: context snapshots, recall, memory impacts, capsule usages, and    *)
(* the completion of a task as far as it concerns them.                    *)
(*                                                                         *)
(* A context snapshot is built once per task and frozen; every recall      *)
(* leaves a receipt (a row of memory_impacts) per capsule it shows, one    *)
(* statement each.  A report reads the row, checks the progression, writes *)
(* under a compare-and-set on updated_at, and then mirrors the outcome in  *)
(* capsule_usages and, for "stale", in the capsule.                        *)
(*                                                                         *)
(* Relevance and budgets only choose which capsules a recall shows: any    *)
(* subset of those that may be shown.  Claims and the state of a task      *)
(* change as TaskQueue says; here they just change.  Snapshots, impacts    *)
(* and usages outlive their task, so its deletion is left out.  updated_at *)
(* is taken for a version of its row, as in Memory; recalls and the        *)
(* completion of a task write plain now() to it, which is a new version    *)
(* unless the row was written in the same millisecond.                     *)
(*                                                                         *)
(* StoredByLast, FirstReceiptOnly, UpdatesAlways, ResolvedKept,            *)
(* MirroredIfGood and StaleForgotten are slips that the properties must    *)
(* notice; nothing uses them.                                              *)
(***************************************************************************)
EXTENDS Memory

CONSTANTS
  Task,          \* ids of tasks
  Reporter,      \* handler goroutines that serve these requests
  ReportAbout,   \* bound: the capsules that are reported on
  ReportTo,      \* bound: the states that reports ask for
  MaxStamp       \* bound: with an impact past it, no request begins that writes impacts

FinalStates == {"helpful", "rejected", "stale"}
ImpactState == FinalStates \cup {"recalled", "applied", "ignored", "unconfirmed"}

ASSUME ImpactAssumption ==
  /\ ReportAbout \subseteq Capsule /\ ReportTo \subseteq ImpactState
  /\ MaxStamp \in Nat
  /\ \A S \in SUBSET Capsule : S # None

VARIABLES
  live,        \* the tasks under a live claim
  done,        \* the tasks that are done
  snapshot,    \* what the context of each task holds; None if there is none
  impact,      \* the impact of each capsule on each task; NoImpact if none
  usage,       \* the usage of each capsule by each task; "none" if none
  job,         \* what each reporter is in the middle of
  told,        \* history: the contexts that each task has been answered with
  crossed      \* history: two reports have overtaken each other

impactRows == <<live, done, snapshot, impact, usage, told>>
impactVars == <<impactRows, job, crossed>>
impactsVars == <<memoryVars, impactVars>>

-----------------------------------------------------------------------------

Pair == Task \X Capsule
Row == {r \in [state: ImpactState, updated: Nat, resolved: BOOLEAN] :
          r.resolved <=> r.state \in FinalStates}
NoImpact == [state |-> "none"]
Recalled(p) == impact[p] # NoImpact
Final(p) == impact[p].state \in FinalStates

Outcomes == {"used", "helpful", "rejected", "stale"}
Context == (SUBSET Capsule) \cup {None}

Free == [at |-> "free"]
Job ==
  {Free}
  \cup [at: {"list"}, task: Task, context: BOOLEAN]
  \cup [at: {"store"}, task: Task, recall: SUBSET Capsule]
  \cup [at: {"receipts"}, todo: SUBSET Pair, task: Task \cup {None}, answer: Context]
  \cup [at: {"backfill"}, todo: SUBSET Pair, listed: SUBSET Pair]
  \cup [at: {"find"}, pair: Pair, to: ImpactState, agent: BOOLEAN]
  \cup [at: {"check", "update"}, pair: Pair, to: ImpactState, agent: BOOLEAN, expected: Nat]
  \cup [at: {"usage"}, pair: Pair, to: ImpactState]
  \cup [at: {"stale"}, capsule: Capsule]
  \cup [at: {"write"}, capsule: Capsule, to: {"stale"}, copy: CapsuleRow]
  \cup [at: {"mark"}, task: Task]

Working(r) == job[r] # Free
Calm == \A p \in Pair : Recalled(p) => impact[p].updated <= MaxStamp    \* bound
Ready(r) == ~Working(r) /\ Calm
Turn(r, stage) == job' = [job EXCEPT ![r] = stage]
Finish(r) == Turn(r, Free)

ImpactsInit ==
  /\ MemoryInit
  /\ live = {}
  /\ done = {}
  /\ snapshot = [t \in Task |-> None]
  /\ impact = [p \in Pair |-> NoImpact]
  /\ usage = [p \in Pair |-> "none"]
  /\ job = [r \in Reporter |-> Free]
  /\ told = [t \in Task |-> {}]
  /\ crossed = FALSE

-----------------------------------------------------------------------------
\* Context and recall.

\* A stored snapshot is the answer, after its receipts; a new one needs a live
\* claim.
BeginContext(r, t) ==
  /\ Ready(r)
  /\ \/ /\ snapshot[t] # None
        /\ Turn(r, [at |-> "receipts", todo |-> {t} \X snapshot[t], task |-> t,
                    answer |-> snapshot[t]])
     \/ /\ snapshot[t] = None /\ t \in live
        /\ Turn(r, [at |-> "list", task |-> t, context |-> TRUE])
  /\ UNCHANGED <<memoryVars, impactRows, crossed>>

\* RecallTaskMemory: for the live owner only, and not stored.
BeginRecall(r, t) ==
  /\ Ready(r)
  /\ t \in live
  /\ Turn(r, [at |-> "list", task |-> t, context |-> FALSE])
  /\ UNCHANGED <<memoryVars, impactRows, crossed>>

\* memoryValidation: more rejections than helpful outcomes, and two at least.
Times(k, outcome) == Cardinality({t \in Task : usage[t, k] = outcome})
Disputed(k) == Times(k, "rejected") > Times(k, "helpful") /\ Times(k, "rejected") >= 2

Recallable == {k \in Capsule : capsule[k].status = "active" /\ ~Disputed(k)}

ListCapsules(r) ==
  /\ job[r].at = "list"
  /\ \E recall \in SUBSET Recallable :
       Turn(r, IF job[r].context
               THEN [at |-> "store", task |-> job[r].task, recall |-> recall]
               ELSE [at |-> "receipts", todo |-> {job[r].task} \X recall,
                     task |-> None, answer |-> None])
  /\ UNCHANGED <<memoryVars, impactRows, crossed>>

\* A slip: ON CONFLICT DO UPDATE.
StoredByLast(t, recall) == recall

\* ON CONFLICT(task_id) DO NOTHING, and the stored one is read back.
Stored(t, recall) == IF snapshot[t] = None THEN recall ELSE snapshot[t]

\* The receipts are for what this request recalled, the answer is what is stored.
StoreSnapshot(r) ==
  /\ job[r].at = "store"
  /\ LET t == job[r].task
         kept == Stored(t, job[r].recall) IN
     /\ snapshot' = [snapshot EXCEPT ![t] = kept]
     /\ Turn(r, [at |-> "receipts", todo |-> {t} \X job[r].recall, task |-> t,
                 answer |-> kept])
  /\ UNCHANGED <<memoryVars, live, done, impact, usage, told, crossed>>

\* UpsertMemoryImpactRecall: whatever has been decided stays.
Upserted(p) ==
  IF Recalled(p) THEN [impact[p] EXCEPT !.updated = @ + 1]
                 ELSE [state |-> "recalled", updated |-> 1, resolved |-> FALSE]

\* A slip: the first capsule only.
FirstReceiptOnly(todo, p) == {}

Remaining(todo, p) == todo \ {p}

RecordReceipt(r) ==
  /\ job[r].at \in {"receipts", "backfill"}
  /\ \E p \in job[r].todo :
       /\ impact' = [impact EXCEPT ![p] = Upserted(p)]
       /\ Turn(r, [job[r] EXCEPT !.todo = Remaining(@, p)])
  /\ UNCHANGED <<memoryVars, live, done, snapshot, usage, told, crossed>>

AnswerRecall(r) ==
  /\ job[r].at = "receipts" /\ job[r].todo = {}
  /\ told' = IF job[r].answer = None THEN told
             ELSE [told EXCEPT ![job[r].task] = @ \cup {job[r].answer}]
  /\ Finish(r)
  /\ UNCHANGED <<memoryVars, live, done, snapshot, impact, usage, crossed>>

\* ReconcileMemoryImpacts comes before metrics and listings: receipts for all that
\* the snapshots hold.
Owed == {p \in Pair : snapshot[p[1]] # None /\ p[2] \in snapshot[p[1]]}

BeginReconcile(r) ==
  /\ Ready(r)
  /\ Turn(r, [at |-> "backfill", todo |-> Owed, listed |-> Owed])
  /\ UNCHANGED <<memoryVars, impactRows, crossed>>

CountImpacts(r) ==
  /\ job[r].at = "backfill" /\ job[r].todo = {}
  /\ Finish(r)
  /\ UNCHANGED <<memoryVars, impactRows, crossed>>

-----------------------------------------------------------------------------
\* Reports.

\* The compatible form names the capsule and the task,
BeginUsage(r, p, to, agent) ==
  /\ Ready(r)
  /\ Kept(p[2])
  /\ Turn(r, [at |-> "find", pair |-> p, to |-> to, agent |-> agent])
  /\ UNCHANGED <<memoryVars, impactRows, crossed>>

\* and takes the impact as it finds it; a missing one is inserted and read back.
FindImpact(r) ==
  /\ job[r].at = "find"
  /\ LET q == job[r] IN
     \/ /\ Recalled(q.pair)
        /\ Turn(r, [at |-> "check", pair |-> q.pair, to |-> q.to, agent |-> q.agent,
                    expected |-> impact[q.pair].updated])
        /\ UNCHANGED impact
     \/ /\ ~Recalled(q.pair)
        /\ impact' = [impact EXCEPT ![q.pair] = Upserted(q.pair)]
        /\ UNCHANGED job
  /\ UNCHANGED <<memoryVars, live, done, snapshot, usage, told, crossed>>

\* The other names the impact and an updated_at that the caller has seen.
BeginReport(r, p, to, agent, seen) ==
  /\ Ready(r)
  /\ Recalled(p)
  /\ seen \in 1..impact[p].updated
  /\ Turn(r, [at |-> "check", pair |-> p, to |-> to, agent |-> agent, expected |-> seen])
  /\ UNCHANGED <<memoryVars, impactRows, crossed>>

\* CanTransitionTo, of states that are not final.
MayFollow(from, to) ==
  \/ from = to
  \/ from # "applied" /\ to \notin {"recalled", "unconfirmed"}
  \/ from = "applied" /\ to \in FinalStates
  \/ from = "recalled" /\ to = "unconfirmed"

\* RecordMemoryImpact: a final impact is corrected by developers only.
MayReport(q) ==
  LET from == impact[q.pair].state IN
  IF from \in FinalStates /\ from # q.to THEN ~q.agent ELSE MayFollow(from, q.to)

CheckReport(r) ==
  /\ job[r].at = "check"
  /\ Turn(r, IF MayReport(job[r]) THEN [job[r] EXCEPT !.at = "update"] ELSE Free)
  /\ UNCHANGED <<memoryVars, impactRows, crossed>>

\* A slip: WHERE id=? alone.
UpdatesAlways(q) == TRUE

\* WHERE id=? AND updated_at=?
Expected(q) == impact[q.pair].updated = q.expected

\* A slip: the stamp of a final outcome outlives it.
ResolvedKept(row, to) ==
  [state |-> to, updated |-> row.updated + 1, resolved |-> row.resolved \/ to \in FinalStates]

Reported(row, to) ==
  [state |-> to, updated |-> row.updated + 1, resolved |-> to \in FinalStates]

\* A slip: only good news is mirrored.
MirroredIfGood(to) == to \in {"applied", "helpful"}

\* memoryImpactOutcome
Mirrored(to) == to \in FinalStates \cup {"applied"}
UsageOutcome(to) == IF to = "applied" THEN "used" ELSE to

Mirroring(p) == {r \in Reporter : job[r].at = "usage" /\ job[r].pair = p}

UpdateImpact(r) ==
  /\ job[r].at = "update"
  /\ LET q == job[r] IN
     \/ /\ Expected(q)
        /\ impact' = [impact EXCEPT ![q.pair] = Reported(@, q.to)]
        /\ Turn(r, IF Mirrored(q.to) THEN [at |-> "usage", pair |-> q.pair, to |-> q.to]
                   ELSE Free)
        /\ crossed' = (crossed \/ Mirroring(q.pair) # {})
     \/ /\ ~Expected(q)
        /\ Finish(r)
        /\ UNCHANGED <<impact, crossed>>
  /\ UNCHANGED <<memoryVars, live, done, snapshot, usage, told>>

\* A slip: the capsule is not told.
StaleForgotten(q) == Free

\* A stale memory is marked stale as well.
AfterUsage(q) ==
  IF q.to = "stale" THEN [at |-> "stale", capsule |-> q.pair[2]] ELSE Free

UpsertUsage(r) ==
  /\ job[r].at = "usage"
  /\ usage' = [usage EXCEPT ![job[r].pair] = UsageOutcome(job[r].to)]
  /\ Turn(r, AfterUsage(job[r]))
  /\ UNCHANGED <<memoryVars, live, done, snapshot, impact, told, crossed>>

\* UpdateCapsule with a status and without expected_updated_at: the row is read,
\* and all of it written.
ReadStale(r) ==
  /\ job[r].at = "stale"
  /\ LET k == job[r].capsule IN
     Turn(r, [at |-> "write", capsule |-> k, to |-> "stale", copy |-> capsule[k]])
  /\ UNCHANGED <<memoryVars, impactRows, crossed>>

WriteStale(r) ==
  /\ job[r].at = "write"
  /\ capsule' = [capsule EXCEPT ![job[r].capsule] = Written(job[r])]
  /\ Finish(r)
  /\ UNCHANGED <<note, link, event, req, raced, cut, impactRows, crossed>>

-----------------------------------------------------------------------------
\* Tasks.

ClaimChanges(t) ==
  /\ live' = IF t \in live THEN live \ {t} ELSE live \cup {t}
  /\ UNCHANGED <<memoryVars, done, snapshot, impact, usage, job, told, crossed>>

Reopen(t) ==
  /\ t \in done
  /\ done' = done \ {t}
  /\ UNCHANGED <<memoryVars, live, snapshot, impact, usage, job, told, crossed>>

\* UpdateTask: once the task is done,
CompleteTask(r, t) ==
  /\ Ready(r)
  /\ t \notin done
  /\ done' = done \cup {t}
  /\ Turn(r, [at |-> "mark", task |-> t])
  /\ UNCHANGED <<memoryVars, live, snapshot, impact, usage, told, crossed>>

\* what nobody has reported on becomes unconfirmed.
Unresolved(p) == impact[p].state \in {"recalled", "applied"}

MarkUnconfirmed(r) ==
  /\ job[r].at = "mark"
  /\ impact' = [p \in Pair |->
       IF p[1] = job[r].task /\ Unresolved(p)
       THEN [state |-> "unconfirmed", updated |-> impact[p].updated + 1, resolved |-> FALSE]
       ELSE impact[p]]
  /\ Finish(r)
  /\ UNCHANGED <<memoryVars, live, done, snapshot, usage, told, crossed>>

\* A request ends between two statements, or an error does: UpdateTask drops the
\* error of its marking.
AbandonJob(r) ==
  /\ Working(r)
  /\ Finish(r)
  /\ cut' = TRUE
  /\ UNCHANGED <<rows, req, raced, impactRows, crossed>>

ReporterStep(r) ==
  \/ \E t \in Task : BeginContext(r, t) \/ BeginRecall(r, t) \/ CompleteTask(r, t)
  \/ ListCapsules(r) \/ StoreSnapshot(r) \/ RecordReceipt(r) \/ AnswerRecall(r)
  \/ BeginReconcile(r) \/ CountImpacts(r)
  \/ \E p \in Task \X ReportAbout, to \in ReportTo, agent \in BOOLEAN :
       \/ BeginUsage(r, p, to, agent)
       \/ \E seen \in 1..MaxStamp : BeginReport(r, p, to, agent, seen)
  \/ FindImpact(r) \/ CheckReport(r) \/ UpdateImpact(r) \/ UpsertUsage(r)
  \/ ReadStale(r) \/ WriteStale(r) \/ MarkUnconfirmed(r) \/ AbandonJob(r)

ImpactsNext ==
  \/ MemoryNext /\ UNCHANGED impactVars
  \/ \E t \in Task : ClaimChanges(t) \/ Reopen(t)
  \/ \E r \in Reporter : ReporterStep(r)

ImpactsSpec == ImpactsInit /\ [][ImpactsNext]_impactsVars

-----------------------------------------------------------------------------

\* Rows and jobs keep their types; resolved_at is set as long as the state is final.
ImpactsTypeOK ==
  /\ live \subseteq Task /\ done \subseteq Task
  /\ snapshot \in [Task -> Context]
  /\ impact \in [Pair -> {NoImpact} \cup Row]
  /\ usage \in [Pair -> {"none"} \cup Outcomes]
  /\ job \in [Reporter -> Job]
  /\ told \in [Task -> SUBSET SUBSET Capsule]
  /\ crossed \in BOOLEAN

\* "An Agent cannot silently replace a different final result": only a developer
\* changes a final impact, and names the updated_at it has; no recall, no late report
\* checked before it was final and no completion of the task does.
AgentsKeepFinals ==
  [][\A p \in Pair : Final(p) /\ impact'[p].state # impact[p].state =>
       \E r \in Reporter : /\ job[r].at = "update" /\ job[r].pair = p
                           /\ ~job[r].agent /\ job[r].expected = impact[p].updated]_impactsVars

\* "the immutable task-start snapshot": requests that build a context at the same
\* time answer with one and the same, and so does every later one.
ContextIsFrozen == \A t \in Task : told[t] \subseteq {snapshot[t]}

\* "Context reads create recalled memory_impacts": when no request is at it, every
\* capsule of a context has its receipt although the request that stored it and those
\* that lost against it write them one by one; and the metrics count it even if that
\* request died.
EveryContextIsCounted ==
  /\ \A p \in Owed : \/ Recalled(p) \/ cut
                     \/ \E r \in Reporter : job[r].at = "receipts" /\ p \in job[r].todo
  /\ \A r \in Reporter : job[r].at = "backfill" /\ job[r].todo = {} =>
       \A p \in job[r].listed : Recalled(p)

\* "helpful, rejected, and stale remain mirrored into existing capsule_usages": if no
\* report died and none overtook another between its two writes.
FinalsAreMirrored ==
  ~cut /\ ~crossed => \A p \in Pair :
    Final(p) => usage[p] = impact[p].state \/ Mirroring(p) # {}

\* A memory reported stale is offered no longer, unless it is revived (by an edit that
\* asks for "active", or one that names neither a status nor a stamp and read the row
\* before), although the capsule is written long after the impact and other edits come
\* in between.
Retiring(k) ==
  \E r \in Reporter : \/ job[r].at = "usage" /\ job[r].to = "stale" /\ job[r].pair[2] = k
                      \/ job[r].at \in {"stale", "write"} /\ job[r].capsule = k
StaleIsRetired ==
  ~cut => \A p \in Pair : impact[p].state = "stale" =>
    \/ capsule[p[2]].status # "active" \/ capsule[p[2]].revived
    \/ Retiring(p[2])
=============================================================================
