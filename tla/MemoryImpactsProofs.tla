-------------------------- MODULE MemoryImpactsProofs --------------------------
(***************************************************************************)
(* What the context, recall and reports guarantee for any number of tasks, *)
(* capsules and requests.                                                  *)
(***************************************************************************)
EXTENDS MemoryImpacts, MemoryProofs

-----------------------------------------------------------------------------
\* Jobs.

LEMMA JobKinds ==
  ASSUME NEW q \in Job
  PROVE  /\ q.at = "list" => q \in [at: {"list"}, task: Task, context: BOOLEAN]
         /\ q.at = "store" => q \in [at: {"store"}, task: Task, recall: SUBSET Capsule]
         /\ q.at = "receipts" =>
              q \in [at: {"receipts"}, todo: SUBSET Pair, task: Task \cup {None}, answer: Context]
         /\ q.at = "backfill" =>
              q \in [at: {"backfill"}, todo: SUBSET Pair, listed: SUBSET Pair]
         /\ q.at = "find" =>
              q \in [at: {"find"}, pair: Pair, to: ImpactState, agent: BOOLEAN]
         /\ q.at \in {"check", "update"} =>
              q \in [at: {"check", "update"}, pair: Pair, to: ImpactState, agent: BOOLEAN,
                     expected: Nat]
         /\ q.at = "usage" => q \in [at: {"usage"}, pair: Pair, to: ImpactState]
         /\ q.at = "stale" => q \in [at: {"stale"}, capsule: Capsule]
         /\ q.at = "write" =>
              q \in [at: {"write"}, capsule: Capsule, to: {"stale"}, copy: CapsuleRow]
         /\ q.at = "mark" => q \in [at: {"mark"}, task: Task]
BY DEF Job, Free

LEMMA JobFields ==
  ASSUME NEW q \in Job
  PROVE  /\ q.at \in {"list", "store", "mark"} => q.task \in Task
         /\ q.at = "list" => q.context \in BOOLEAN
         /\ q.at = "store" => q.recall \in SUBSET Capsule
         /\ q.at \in {"receipts", "backfill"} => q.todo \in SUBSET Pair
         /\ q.at = "receipts" => q.task \in Task \cup {None} /\ q.answer \in Context
         /\ q.at = "backfill" => q.listed \in SUBSET Pair
         /\ q.at \in {"find", "check", "update", "usage"} =>
              q.pair \in Pair /\ q.to \in ImpactState
         /\ q.at \in {"find", "check", "update"} => q.agent \in BOOLEAN
         /\ q.at \in {"check", "update"} => q.expected \in Nat
         /\ q.at \in {"stale", "write"} => q.capsule \in Capsule
         /\ q.at = "write" => q.to = "stale" /\ q.copy \in CapsuleRow
BY JobKinds

LEMMA PairParts ==
  ASSUME NEW p \in Pair
  PROVE  p[1] \in Task /\ p[2] \in Capsule /\ p = <<p[1], p[2]>>
BY DEF Pair

LEMMA RowFields ==
  ASSUME NEW row \in Row
  PROVE  /\ row.state \in ImpactState /\ row.updated \in Nat /\ row # NoImpact
         /\ row.resolved \in BOOLEAN
         /\ row.resolved <=> row.state \in FinalStates
BY DEF Row, NoImpact, ImpactState, FinalStates

LEMMA MakeRow ==
  ASSUME NEW s \in ImpactState, NEW u \in Nat, NEW f \in BOOLEAN, f <=> s \in FinalStates
  PROVE  [state |-> s, updated |-> u, resolved |-> f] \in Row
BY DEF Row

LEMMA Turns ==
  ASSUME job \in [Reporter -> Job], NEW r \in Reporter, NEW stage \in Job, Turn(r, stage)
  PROVE  /\ job' \in [Reporter -> Job] /\ job'[r] = stage
         /\ \A s \in Reporter \ {r} : job'[s] = job[s]
BY DEF Turn

-----------------------------------------------------------------------------
\* The inductive invariant.

\* MayReport, of a given state.
Allowed(q, from) ==
  IF from \in FinalStates /\ from # q.to THEN ~q.agent ELSE MayFollow(from, q.to)

\* What a request knows of the rows it works on: cs are the capsules, sn the snapshots
\* and im the impacts.
JobFits(q, cs, sn, im) ==
  /\ q.at = "store" => \A k \in q.recall : cs[k] # NoCapsule
  /\ q.at \in {"receipts", "backfill"} => \A p \in q.todo : cs[p[2]] # NoCapsule
  /\ q.at = "receipts" /\ q.answer # None => q.task \in Task /\ sn[q.task] = q.answer
  /\ q.at = "backfill" => \A p \in q.listed : p \in q.todo \/ im[p] # NoImpact
  /\ q.at \in {"find", "usage"} => cs[q.pair[2]] # NoCapsule
  /\ q.at \in {"check", "update"} =>
       im[q.pair] # NoImpact /\ q.expected <= im[q.pair].updated
  /\ q.at = "update" /\ im[q.pair].updated = q.expected => Allowed(q, im[q.pair].state)
  /\ q.at = "usage" => Mirrored(q.to)
  /\ q.at = "stale" => cs[q.capsule] # NoCapsule
  /\ q.at = "write" => cs[q.capsule] # NoCapsule /\ q.copy.from = cs[q.capsule].from

JobsFit == \A r \in Reporter : JobFits(job[r], capsule, snapshot, impact)

\* Only a capsule that is there is recalled, and it stays.
OnlyKept ==
  /\ \A p \in Pair : Recalled(p) => Kept(p[2])
  /\ \A t \in Task : snapshot[t] # None => \A k \in snapshot[t] : Kept(k)

RowsTypeOK ==
  /\ live \subseteq Task /\ done \subseteq Task
  /\ snapshot \in [Task -> Context]
  /\ impact \in [Pair -> {NoImpact} \cup Row]
  /\ usage \in [Pair -> {"none"} \cup Outcomes]
  /\ told \in [Task -> SUBSET SUBSET Capsule]
  /\ crossed \in BOOLEAN

ImpactsInv ==
  /\ MemoryInv
  /\ RowsTypeOK /\ job \in [Reporter -> Job]
  /\ JobsFit /\ OnlyKept /\ ContextIsFrozen

\* Capsules stay, snapshots stand, and an impact changes with its version.
RowsGrow ==
  /\ \A k \in Capsule : Kept(k) => Kept(k)' /\ capsule'[k].from = capsule[k].from
  /\ \A t \in Task : snapshot[t] # None => snapshot'[t] = snapshot[t]
  /\ \A p \in Pair : Recalled(p) =>
       /\ Recalled(p)'
       /\ impact'[p] = impact[p] \/ impact'[p].updated = impact[p].updated + 1

LEMMA RecallTypes ==
  ASSUME ImpactsInv
  PROVE  \A p \in Pair : Recalled(p) => impact[p] \in Row /\ impact[p].updated \in Nat
BY RowFields DEF ImpactsInv, RowsTypeOK, Recalled

LEMMA JobStillFits ==
  ASSUME ImpactsInv, RowsGrow, NEW q \in Job, JobFits(q, capsule, snapshot, impact)
  PROVE  JobFits(q, capsule', snapshot', impact')
<1>f. /\ q.at = "store" => q.recall \subseteq Capsule
      /\ q.at \in {"receipts", "backfill"} => \A p \in q.todo : p \in Pair /\ p[2] \in Capsule
      /\ q.at = "backfill" => q.listed \subseteq Pair
      /\ q.at \in {"find", "check", "update", "usage"} =>
           q.pair \in Pair /\ q.pair[2] \in Capsule
      /\ q.at \in {"check", "update"} => q.expected \in Nat
      /\ q.at \in {"stale", "write"} => q.capsule \in Capsule
  BY JobFields, PairParts
<1>k. \A k \in Capsule : capsule[k] # NoCapsule =>
        capsule'[k] # NoCapsule /\ capsule'[k].from = capsule[k].from
  BY DEF RowsGrow, Kept
<1>p. \A p \in Pair : impact[p] # NoImpact =>
        /\ impact'[p] # NoImpact
        /\ impact[p].updated \in Nat
        /\ impact'[p] = impact[p] \/ impact'[p].updated = impact[p].updated + 1
  BY RecallTypes DEF RowsGrow, Recalled
<1>1. /\ q.at = "store" => \A k \in q.recall : capsule'[k] # NoCapsule
      /\ q.at \in {"receipts", "backfill"} => \A p \in q.todo : capsule'[p[2]] # NoCapsule
      /\ q.at \in {"find", "usage"} => capsule'[q.pair[2]] # NoCapsule
      /\ q.at = "stale" => capsule'[q.capsule] # NoCapsule
      /\ q.at = "write" =>
           capsule'[q.capsule] # NoCapsule /\ q.copy.from = capsule'[q.capsule].from
  BY <1>f, <1>k DEF JobFits
<1>m. q.at = "usage" => Mirrored(q.to)
  BY DEF JobFits
<1>2. ASSUME q.at = "receipts", q.answer # None
      PROVE  q.task \in Task /\ snapshot'[q.task] = q.answer
  BY <1>2 DEF JobFits, RowsGrow
<1>3. ASSUME q.at = "backfill", NEW p \in q.listed
      PROVE  p \in q.todo \/ impact'[p] # NoImpact
  BY <1>3, <1>f, <1>p DEF JobFits
<1>4. ASSUME q.at \in {"check", "update"}
      PROVE  /\ impact'[q.pair] # NoImpact /\ q.expected <= impact'[q.pair].updated
             /\ q.at = "update" /\ impact'[q.pair].updated = q.expected =>
                  Allowed(q, impact'[q.pair].state)
  <2>1. /\ impact[q.pair] # NoImpact /\ q.expected <= impact[q.pair].updated
        /\ q.at = "update" /\ impact[q.pair].updated = q.expected =>
             Allowed(q, impact[q.pair].state)
    BY <1>4 DEF JobFits
  <2>2. q.pair \in Pair /\ q.expected \in Nat /\ impact[q.pair].updated \in Nat
    BY <1>4, <1>f, <1>p, <2>1
  <2>3. CASE impact'[q.pair] = impact[q.pair]
    BY <2>1, <2>3
  <2>4. CASE impact'[q.pair].updated = impact[q.pair].updated + 1
    BY <1>p, <2>1, <2>2, <2>4, Versions
  <2>5. QED
    BY <1>p, <2>1, <2>2, <2>3, <2>4
<1>5. QED
  BY <1>1, <1>2, <1>3, <1>4, <1>m DEF JobFits

\* One request goes on and the rows grow.
LEMMA Proceeds ==
  ASSUME ImpactsInv, NEW r \in Reporter, NEW stage \in Job, Turn(r, stage),
         RowsGrow, MemoryInv', RowsTypeOK', OnlyKept', ContextIsFrozen',
         JobFits(stage, capsule', snapshot', impact')
  PROVE  ImpactsInv' /\ RowsGrow
<1>1. job \in [Reporter -> Job] /\ \A s \in Reporter : JobFits(job[s], capsule, snapshot, impact)
  BY DEF ImpactsInv, JobsFit
<1>2. /\ job' \in [Reporter -> Job] /\ job'[r] = stage
      /\ \A s \in Reporter \ {r} : job'[s] = job[s]
  BY <1>1, Turns
<1>3. \A s \in Reporter : JobFits(job[s], capsule', snapshot', impact')
  BY <1>1, JobStillFits
<1>4. JobsFit'
  BY <1>2, <1>3 DEF JobsFit
<1>5. QED
  BY <1>2, <1>4 DEF ImpactsInv

LEMMA RowsStay ==
  ASSUME UNCHANGED <<capsule, snapshot, impact>>
  PROVE  RowsGrow
BY DEF RowsGrow, Kept, Recalled

LEMMA OnlyKeptStays ==
  ASSUME ImpactsInv, RowsGrow, UNCHANGED <<snapshot, impact>>
  PROVE  OnlyKept'
<1>1. \A k \in Capsule : Kept(k) => Kept(k)'
  BY DEF RowsGrow
<1>2. ASSUME NEW p \in Pair, Recalled(p)' PROVE Kept(p[2])'
  <2>1. p[2] \in Capsule /\ Kept(p[2])
    BY <1>2, PairParts DEF ImpactsInv, OnlyKept, Recalled
  <2>2. QED
    BY <1>1, <2>1 DEF Kept
<1>3. ASSUME NEW t \in Task, snapshot'[t] # None, NEW k \in snapshot'[t] PROVE Kept(k)'
  <2>1. k \in Capsule /\ Kept(k)
    BY <1>3 DEF ImpactsInv, OnlyKept, RowsTypeOK, Context
  <2>2. QED
    BY <1>1, <2>1 DEF Kept
<1>4. QED
  BY <1>2, <1>3 DEF OnlyKept

LEMMA ProceedsInPlace ==
  ASSUME ImpactsInv, NEW r \in Reporter, NEW stage \in Job, Turn(r, stage),
         UNCHANGED <<memoryVars, impactRows, crossed>>,
         JobFits(stage, capsule, snapshot, impact)
  PROVE  ImpactsInv' /\ RowsGrow
<1>1. MemoryInv /\ RowsTypeOK /\ OnlyKept /\ ContextIsFrozen
  BY DEF ImpactsInv
<1>2. /\ UNCHANGED memoryVars
      /\ UNCHANGED <<capsule, live, done, snapshot, impact, usage, told, crossed>>
  BY DEF memoryVars, impactRows
<1>3. MemoryInv'
  BY <1>1, <1>2, MemoryInvStep
<1>4. RowsTypeOK' /\ OnlyKept' /\ ContextIsFrozen'
  BY <1>1, <1>2 DEF RowsTypeOK, OnlyKept, ContextIsFrozen, Recalled, Kept
<1>5. RowsGrow /\ JobFits(stage, capsule', snapshot', impact')
  BY <1>2, RowsStay
<1>6. QED
  BY <1>3, <1>4, <1>5, Proceeds

LEMMA FreeFits ==
  ASSUME NEW cs, NEW sn, NEW im
  PROVE  Free \in Job /\ JobFits(Free, cs, sn, im)
BY DEF Job, Free, JobFits

-----------------------------------------------------------------------------
\* Context and recall.

LEMMA ContextStepInv ==
  ASSUME ImpactsInv, NEW r \in Reporter,
         \/ \E t \in Task : BeginContext(r, t) \/ BeginRecall(r, t)
         \/ ListCapsules(r) \/ AnswerRecall(r) \/ BeginReconcile(r) \/ CountImpacts(r)
  PROVE  ImpactsInv' /\ RowsGrow
<1> DEFINE q == job[r]
<1>t. /\ snapshot \in [Task -> Context]
      /\ told \in [Task -> SUBSET SUBSET Capsule]
      /\ OnlyKept /\ ContextIsFrozen /\ MemoryInv /\ RowsTypeOK
  BY DEF ImpactsInv, RowsTypeOK
<1>q. q \in Job /\ JobFits(q, capsule, snapshot, impact)
  BY DEF ImpactsInv, JobsFit
<1>1. ASSUME NEW t \in Task, BeginContext(r, t) PROVE ImpactsInv' /\ RowsGrow
  <2> DEFINE stored == [at |-> "receipts", todo |-> {t} \X snapshot[t], task |-> t,
                        answer |-> snapshot[t]]
             list == [at |-> "list", task |-> t, context |-> TRUE]
  <2>1. CASE snapshot[t] # None /\ Turn(r, stored)
    <3>1. snapshot[t] \in SUBSET Capsule /\ \A k \in snapshot[t] : Kept(k)
      BY <1>t, <2>1 DEF Context, OnlyKept
    <3>2. stored \in Job
      BY <3>1 DEF Job, Pair, Context
    <3>3. JobFits(stored, capsule, snapshot, impact)
      BY <3>1 DEF JobFits, Kept
    <3>4. QED
      BY <1>1, <2>1, <3>2, <3>3, ProceedsInPlace DEF BeginContext
  <2>2. CASE Turn(r, list)
    <3>1. list \in Job /\ JobFits(list, capsule, snapshot, impact)
      BY DEF Job, JobFits
    <3>2. QED
      BY <1>1, <2>2, <3>1, ProceedsInPlace DEF BeginContext
  <2>3. QED
    BY <1>1, <2>1, <2>2 DEF BeginContext
<1>2. ASSUME NEW t \in Task, BeginRecall(r, t) PROVE ImpactsInv' /\ RowsGrow
  <2> DEFINE list == [at |-> "list", task |-> t, context |-> FALSE]
  <2>1. list \in Job /\ JobFits(list, capsule, snapshot, impact)
    BY DEF Job, JobFits
  <2>2. QED
    BY <1>2, <2>1, ProceedsInPlace DEF BeginRecall
<1>3. CASE ListCapsules(r)
  <2> DEFINE store(recall) == [at |-> "store", task |-> q.task, recall |-> recall]
             show(recall) == [at |-> "receipts", todo |-> {q.task} \X recall,
                              task |-> None, answer |-> None]
  <2>1. PICK recall \in SUBSET Recallable :
          Turn(r, IF q.context THEN store(recall) ELSE show(recall))
    BY <1>3 DEF ListCapsules
  <2>2. recall \in SUBSET Capsule /\ \A k \in recall : capsule[k] # NoCapsule
    BY DEF Recallable, NoCapsule
  <2>3. q.task \in Task
    BY <1>3, <1>q, JobFields DEF ListCapsules
  <2>4. store(recall) \in Job /\ show(recall) \in Job
    BY <2>2, <2>3 DEF Job, Pair, Context
  <2>5. /\ JobFits(store(recall), capsule, snapshot, impact)
        /\ JobFits(show(recall), capsule, snapshot, impact)
    BY <2>2 DEF JobFits
  <2>6. UNCHANGED <<memoryVars, impactRows, crossed>>
    BY <1>3 DEF ListCapsules
  <2>7. CASE q.context
    BY <2>1, <2>4, <2>5, <2>6, <2>7, ProceedsInPlace
  <2>8. CASE ~q.context
    BY <2>1, <2>4, <2>5, <2>6, <2>8, ProceedsInPlace
  <2>9. QED
    BY <2>7, <2>8
<1>4. CASE AnswerRecall(r)
  <2>1. /\ UNCHANGED <<memoryVars, live, done, snapshot, impact, usage, crossed>>
        /\ Turn(r, Free) /\ q.at = "receipts"
        /\ told' = IF q.answer = None THEN told
                   ELSE [told EXCEPT ![q.task] = @ \cup {q.answer}]
    BY <1>4 DEF AnswerRecall, Finish
  <2>2. UNCHANGED capsule
    BY <2>1 DEF memoryVars
  <2>3. MemoryInv'
    BY <1>t, <2>1, MemoryInvStep
  <2>4. RowsGrow
    BY <2>1, <2>2, RowsStay
  <2>5. /\ told' \in [Task -> SUBSET SUBSET Capsule]
        /\ \A t \in Task : told'[t] \subseteq {snapshot[t]}
    <3>1. CASE q.answer = None
      BY <1>t, <2>1, <3>1 DEF ContextIsFrozen
    <3>2. CASE q.answer # None
      <4>1. q.task \in Task /\ snapshot[q.task] = q.answer /\ q.answer \in SUBSET Capsule
        BY <1>q, <2>1, <3>2, JobFields DEF JobFits, Context
      <4>2. told' = [told EXCEPT ![q.task] = @ \cup {q.answer}]
        BY <2>1, <3>2
      <4>3. told' \in [Task -> SUBSET SUBSET Capsule]
        BY <1>t, <4>1, <4>2
      <4>4. ASSUME NEW t \in Task PROVE told'[t] \subseteq {snapshot[t]}
        <5>1. CASE t = q.task
          BY <1>t, <4>1, <4>2, <5>1 DEF ContextIsFrozen
        <5>2. CASE t # q.task
          BY <1>t, <4>1, <4>2, <5>2 DEF ContextIsFrozen
        <5>3. QED
          BY <5>1, <5>2
      <4>5. QED
        BY <4>3, <4>4
    <3>3. QED
      BY <3>1, <3>2
  <2>6. RowsTypeOK' /\ OnlyKept' /\ ContextIsFrozen'
    BY <1>t, <2>1, <2>2, <2>5 DEF RowsTypeOK, OnlyKept, ContextIsFrozen, Recalled, Kept
  <2>7. QED
    BY <2>1, <2>3, <2>4, <2>6, FreeFits, Proceeds
<1>5. CASE BeginReconcile(r)
  <2> DEFINE stage == [at |-> "backfill", todo |-> Owed, listed |-> Owed]
  <2>1. Owed \in SUBSET Pair /\ \A p \in Owed : capsule[p[2]] # NoCapsule
    BY <1>t, PairParts DEF Owed, OnlyKept, Kept
  <2>2. stage \in Job
    BY <2>1 DEF Job
  <2>3. JobFits(stage, capsule, snapshot, impact)
    BY <2>1 DEF JobFits
  <2>4. QED
    BY <1>5, <2>2, <2>3, ProceedsInPlace DEF BeginReconcile
<1>6. CASE CountImpacts(r)
  BY <1>6, FreeFits, ProceedsInPlace DEF CountImpacts, Finish
<1>7. QED
  BY <1>1, <1>2, <1>3, <1>4, <1>5, <1>6

LEMMA StoreSnapshotInv ==
  ASSUME ImpactsInv, NEW r \in Reporter, StoreSnapshot(r)
  PROVE  ImpactsInv' /\ RowsGrow
<1> DEFINE q == job[r]
           t == q.task
           kept == Stored(t, q.recall)
           stage == [at |-> "receipts", todo |-> {t} \X q.recall, task |-> t, answer |-> kept]
<1>t. /\ snapshot \in [Task -> Context]
      /\ told \in [Task -> SUBSET SUBSET Capsule]
      /\ OnlyKept /\ ContextIsFrozen /\ MemoryInv /\ RowsTypeOK
  BY DEF ImpactsInv, RowsTypeOK
<1>q. q \in Job /\ JobFits(q, capsule, snapshot, impact)
  BY DEF ImpactsInv, JobsFit
<1>1. /\ q.at = "store" /\ Turn(r, stage)
      /\ snapshot' = [snapshot EXCEPT ![t] = kept]
      /\ UNCHANGED <<memoryVars, live, done, impact, usage, told, crossed>>
  BY DEF StoreSnapshot
<1>2. t \in Task /\ q.recall \in SUBSET Capsule /\ \A k \in q.recall : Kept(k)
  BY <1>1, <1>q, JobFields DEF JobFits, Kept
<1>3. /\ kept \in SUBSET Capsule /\ kept # None /\ \A k \in kept : Kept(k)
      /\ snapshot[t] # None => kept = snapshot[t]
  BY <1>t, <1>2, ImpactAssumption DEF Stored, OnlyKept, Context
<1> HIDE DEF kept, t
<1>4. /\ snapshot' \in [Task -> Context] /\ snapshot'[t] = kept
      /\ \A u \in Task \ {t} : snapshot'[u] = snapshot[u]
  BY <1>t, <1>1, <1>2, <1>3 DEF Context
<1>5. UNCHANGED capsule
  BY <1>1 DEF memoryVars
<1>6. MemoryInv'
  BY <1>t, <1>1, MemoryInvStep
<1>7. RowsGrow
  BY <1>1, <1>2, <1>3, <1>4, <1>5 DEF RowsGrow, Kept, Recalled
<1>8. OnlyKept'
  BY <1>t, <1>1, <1>2, <1>3, <1>4, <1>5 DEF OnlyKept, Kept, Recalled
<1>9. ContextIsFrozen'
  <2> SUFFICES ASSUME NEW u \in Task, NEW x \in told[u] PROVE x = snapshot'[u]
    BY <1>1 DEF ContextIsFrozen
  <2>1. x = snapshot[u] /\ x \in SUBSET Capsule
    BY <1>t DEF ContextIsFrozen
  <2>2. x # None
    BY <2>1, ImpactAssumption
  <2>3. QED
    BY <1>3, <1>4, <2>1, <2>2
<1>10. RowsTypeOK'
  BY <1>t, <1>1, <1>4 DEF RowsTypeOK
<1>11. stage \in Job
  BY <1>2, <1>3 DEF Job, Pair, Context
<1>12. JobFits(stage, capsule', snapshot', impact')
  BY <1>1, <1>2, <1>4, <1>5 DEF JobFits, Kept
<1>13. QED
  BY <1>1, <1>6, <1>7, <1>8, <1>9, <1>10, <1>11, <1>12, Proceeds

-----------------------------------------------------------------------------
\* Receipts and reports.

\* A request writes one impact and goes on.
LEMMA WritesImpact ==
  ASSUME ImpactsInv, NEW r \in Reporter, NEW stage \in Job, Turn(r, stage),
         NEW p \in Pair, Kept(p[2]), NEW row \in Row,
         Recalled(p) => row.updated = impact[p].updated + 1,
         impact' = [impact EXCEPT ![p] = row],
         UNCHANGED <<memoryVars, live, done, snapshot, usage, told>>, crossed' \in BOOLEAN,
         JobFits(stage, capsule, snapshot, impact')
  PROVE  ImpactsInv' /\ RowsGrow
<1>t. /\ impact \in [Pair -> {NoImpact} \cup Row]
      /\ OnlyKept /\ ContextIsFrozen /\ MemoryInv /\ RowsTypeOK
  BY DEF ImpactsInv, RowsTypeOK
<1>1. /\ impact' \in [Pair -> {NoImpact} \cup Row] /\ impact'[p] = row
      /\ \A o \in Pair \ {p} : impact'[o] = impact[o]
  BY <1>t
<1>2. row # NoImpact
  BY RowFields
<1>3. UNCHANGED capsule
  BY DEF memoryVars
<1>4. MemoryInv'
  BY <1>t, MemoryInvStep
<1>5. RowsGrow
  BY <1>1, <1>2, <1>3 DEF RowsGrow, Kept, Recalled
<1>6. OnlyKept'
  BY <1>t, <1>1, <1>3 DEF OnlyKept, Kept, Recalled
<1>7. RowsTypeOK' /\ ContextIsFrozen'
  BY <1>t, <1>1 DEF RowsTypeOK, ContextIsFrozen
<1>8. JobFits(stage, capsule', snapshot', impact')
  BY <1>3
<1>9. QED
  BY <1>4, <1>5, <1>6, <1>7, <1>8, Proceeds

\* A receipt keeps what has been decided.
LEMMA UpsertedRow ==
  ASSUME ImpactsInv, NEW p \in Pair
  PROVE  /\ Upserted(p) \in Row
         /\ Recalled(p) => /\ Upserted(p).updated = impact[p].updated + 1
                           /\ Upserted(p).state = impact[p].state
         /\ ~Recalled(p) => Upserted(p).state = "recalled"
<1>1. CASE Recalled(p)
  <2> DEFINE u == impact[p].updated + 1
  <2>1. impact[p] \in Row /\ u \in Nat
    BY <1>1, RecallTypes
  <2>2. Upserted(p) = [impact[p] EXCEPT !.updated = u]
    BY <1>1 DEF Upserted
  <2> HIDE DEF u
  <2>3. /\ Upserted(p) \in Row
        /\ Upserted(p).updated = u /\ Upserted(p).state = impact[p].state
    BY <2>1, <2>2 DEF Row
  <2>4. QED
    BY <1>1, <2>3 DEF u
<1>2. CASE ~Recalled(p)
  <2>1. Upserted(p) = [state |-> "recalled", updated |-> 1, resolved |-> FALSE]
    BY <1>2 DEF Upserted
  <2>2. "recalled" \in ImpactState /\ ~("recalled" \in FinalStates) /\ 1 \in Nat
    BY DEF ImpactState, FinalStates
  <2>3. QED
    BY <1>2, <2>1, <2>2 DEF Row
<1>3. QED
  BY <1>1, <1>2

LEMMA RecordReceiptInv ==
  ASSUME ImpactsInv, NEW r \in Reporter, RecordReceipt(r)
  PROVE  ImpactsInv' /\ RowsGrow
<1> DEFINE q == job[r]
<1>q. q \in Job /\ JobFits(q, capsule, snapshot, impact)
  BY DEF ImpactsInv, JobsFit
<1>t. impact \in [Pair -> {NoImpact} \cup Row]
  BY DEF ImpactsInv, RowsTypeOK
<1>1. PICK p \in q.todo :
        /\ impact' = [impact EXCEPT ![p] = Upserted(p)]
        /\ Turn(r, [q EXCEPT !.todo = Remaining(@, p)])
  BY DEF RecordReceipt
<1>2. /\ q.at \in {"receipts", "backfill"}
      /\ UNCHANGED <<memoryVars, live, done, snapshot, usage, told, crossed>>
  BY DEF RecordReceipt
<1>3. /\ q.todo \in SUBSET Pair /\ p \in Pair
      /\ \A o \in q.todo : capsule[o[2]] # NoCapsule
  BY <1>2, <1>q, JobFields DEF JobFits
<1>4. /\ Upserted(p) \in Row
      /\ Recalled(p) => Upserted(p).updated = impact[p].updated + 1
  BY <1>3, UpsertedRow
<1>5. Kept(p[2]) /\ crossed' \in BOOLEAN
  BY <1>2, <1>3 DEF Kept, ImpactsInv, RowsTypeOK
<1> DEFINE stage == [q EXCEPT !.todo = @ \ {p}]
<1>6. Turn(r, stage)
  BY <1>1 DEF Remaining
<1>7. /\ stage \in Job /\ stage.at = q.at /\ stage.todo = q.todo \ {p}
      /\ q.at = "receipts" => stage.task = q.task /\ stage.answer = q.answer
      /\ q.at = "backfill" => stage.listed = q.listed
  <2>1. CASE q.at = "receipts"
    <3>1. q \in [at: {"receipts"}, todo: SUBSET Pair, task: Task \cup {None}, answer: Context]
      BY <2>1, <1>q, JobKinds
    <3>2. /\ stage \in [at: {"receipts"}, todo: SUBSET Pair, task: Task \cup {None},
                        answer: Context]
          /\ stage.at = q.at /\ stage.todo = q.todo \ {p}
          /\ stage.task = q.task /\ stage.answer = q.answer
      BY <3>1
    <3>3. QED
      BY <2>1, <3>2 DEF Job
  <2>2. CASE q.at = "backfill"
    <3>1. q \in [at: {"backfill"}, todo: SUBSET Pair, listed: SUBSET Pair]
      BY <2>2, <1>q, JobKinds
    <3>2. /\ stage \in [at: {"backfill"}, todo: SUBSET Pair, listed: SUBSET Pair]
          /\ stage.at = q.at /\ stage.todo = q.todo \ {p} /\ stage.listed = q.listed
      BY <3>1
    <3>3. QED
      BY <2>2, <3>2 DEF Job
  <2>3. QED
    BY <1>2, <2>1, <2>2
<1> HIDE DEF stage
<1>8. \A o \in Pair : impact'[o] = IF o = p THEN Upserted(p) ELSE impact[o]
  BY <1>t, <1>1, <1>3
<1>9. Upserted(p) # NoImpact
  BY <1>4, RowFields
<1>10. JobFits(stage, capsule, snapshot, impact')
  <2>1. CASE q.at = "receipts"
    BY <1>3, <1>7, <1>q, <2>1 DEF JobFits
  <2>2. CASE q.at = "backfill"
    <3>1. \A o \in q.listed : o \in Pair /\ (o \in q.todo \/ impact[o] # NoImpact)
      BY <1>q, <2>2, JobFields DEF JobFits
    <3>2. \A o \in q.listed : o \in stage.todo \/ impact'[o] # NoImpact
      BY <1>7, <1>8, <1>9, <3>1
    <3>3. QED
      BY <1>3, <1>7, <2>2, <3>2 DEF JobFits
  <2>3. QED
    BY <1>2, <2>1, <2>2
<1>11. QED
  BY <1>1, <1>2, <1>3, <1>4, <1>5, <1>6, <1>7, <1>10, WritesImpact

LEMMA AllowedIsMayReport ==
  ASSUME NEW q PROVE MayReport(q) <=> Allowed(q, impact[q.pair].state)
BY DEF MayReport, Allowed

LEMMA BeginReportsInv ==
  ASSUME ImpactsInv, NEW r \in Reporter, NEW p \in Task \X ReportAbout, NEW to \in ReportTo,
         NEW agent \in BOOLEAN,
         BeginUsage(r, p, to, agent) \/ \E seen \in 1..MaxStamp : BeginReport(r, p, to, agent, seen)
  PROVE  ImpactsInv' /\ RowsGrow
<1>1. p \in Pair /\ p[2] \in Capsule /\ to \in ImpactState
  BY ImpactAssumption DEF Pair
<1>2. CASE BeginUsage(r, p, to, agent)
  <2> DEFINE stage == [at |-> "find", pair |-> p, to |-> to, agent |-> agent]
  <2>1. stage \in Job
    BY <1>1 DEF Job
  <2>2. JobFits(stage, capsule, snapshot, impact)
    BY <1>2 DEF BeginUsage, Kept, JobFits
  <2>3. QED
    BY <1>2, <2>1, <2>2, ProceedsInPlace DEF BeginUsage
<1>3. ASSUME NEW seen \in 1..MaxStamp, BeginReport(r, p, to, agent, seen)
      PROVE  ImpactsInv' /\ RowsGrow
  <2> DEFINE stage == [at |-> "check", pair |-> p, to |-> to, agent |-> agent,
                       expected |-> seen]
  <2>1. Recalled(p) /\ seen \in 1..impact[p].updated /\ impact[p].updated \in Nat
    BY <1>1, <1>3, RecallTypes DEF BeginReport
  <2>2. seen \in Nat /\ seen <= impact[p].updated
    BY <2>1
  <2>3. stage \in Job
    BY <1>1, <2>2 DEF Job
  <2>4. JobFits(stage, capsule, snapshot, impact)
    BY <2>1, <2>2 DEF JobFits, Recalled
  <2>5. QED
    BY <1>3, <2>3, <2>4, ProceedsInPlace DEF BeginReport
<1>4. QED
  BY <1>2, <1>3

LEMMA FindImpactInv ==
  ASSUME ImpactsInv, NEW r \in Reporter, FindImpact(r)
  PROVE  ImpactsInv' /\ RowsGrow
<1> DEFINE q == job[r]
<1>q. q \in Job /\ JobFits(q, capsule, snapshot, impact) /\ job \in [Reporter -> Job]
  BY DEF ImpactsInv, JobsFit
<1>1. q.at = "find" /\ UNCHANGED <<memoryVars, live, done, snapshot, usage, told, crossed>>
  BY DEF FindImpact
<1>2. /\ q.pair \in Pair /\ q.to \in ImpactState /\ q.agent \in BOOLEAN
      /\ Kept(q.pair[2])
  BY <1>1, <1>q, JobFields DEF JobFits, Kept
<1> DEFINE check == [at |-> "check", pair |-> q.pair, to |-> q.to, agent |-> q.agent,
                     expected |-> impact[q.pair].updated]
<1>3. CASE Recalled(q.pair) /\ Turn(r, check) /\ UNCHANGED impact
  <2>1. impact[q.pair].updated \in Nat
    BY <1>2, <1>3, RecallTypes
  <2>2. check \in Job
    BY <1>2, <2>1 DEF Job
  <2>3. impact[q.pair].updated <= impact[q.pair].updated
    BY <2>1
  <2>4. JobFits(check, capsule, snapshot, impact)
    BY <1>3, <2>3 DEF JobFits, Recalled
  <2>5. UNCHANGED <<memoryVars, impactRows, crossed>>
    BY <1>1, <1>3 DEF impactRows
  <2>6. QED
    BY <1>3, <2>2, <2>4, <2>5, ProceedsInPlace
<1>4. CASE /\ ~Recalled(q.pair)
           /\ impact' = [impact EXCEPT ![q.pair] = Upserted(q.pair)]
           /\ UNCHANGED job
  <2>1. Upserted(q.pair) \in Row
    BY <1>2, UpsertedRow
  <2>2. Turn(r, q)
    BY <1>4, <1>q DEF Turn
  <2>3. JobFits(q, capsule, snapshot, impact')
    BY <1>1, <1>q DEF JobFits
  <2>4. crossed' \in BOOLEAN
    BY <1>1 DEF ImpactsInv, RowsTypeOK
  <2>5. QED
    BY <1>1, <1>2, <1>4, <1>q, <2>1, <2>2, <2>3, <2>4, WritesImpact
<1>5. QED
  BY <1>3, <1>4 DEF FindImpact

LEMMA CheckReportInv ==
  ASSUME ImpactsInv, NEW r \in Reporter, CheckReport(r)
  PROVE  ImpactsInv' /\ RowsGrow
<1> DEFINE q == job[r]
           stage == [q EXCEPT !.at = "update"]
<1>q. q \in Job /\ JobFits(q, capsule, snapshot, impact)
  BY DEF ImpactsInv, JobsFit
<1>1. /\ q.at = "check" /\ Turn(r, IF MayReport(q) THEN stage ELSE Free)
      /\ UNCHANGED <<memoryVars, impactRows, crossed>>
  BY DEF CheckReport
<1>2. CASE MayReport(q)
  <2>1. q \in [at: {"check", "update"}, pair: Pair, to: ImpactState, agent: BOOLEAN,
               expected: Nat]
    BY <1>1, <1>q, JobKinds
  <2>2. /\ stage \in [at: {"check", "update"}, pair: Pair, to: ImpactState, agent: BOOLEAN,
                      expected: Nat]
        /\ stage.at = "update" /\ stage.pair = q.pair /\ stage.to = q.to
        /\ stage.agent = q.agent /\ stage.expected = q.expected
    BY <2>1
  <2> HIDE DEF stage
  <2>3. stage \in Job
    BY <2>2 DEF Job
  <2>4. Allowed(stage, impact[stage.pair].state)
    BY <1>2, <2>2, AllowedIsMayReport DEF Allowed
  <2>5. JobFits(stage, capsule, snapshot, impact)
    BY <1>1, <1>q, <2>2, <2>4 DEF JobFits
  <2>6. QED
    BY <1>1, <1>2, <2>3, <2>5, ProceedsInPlace
<1>3. CASE ~MayReport(q)
  BY <1>1, <1>3, FreeFits, ProceedsInPlace
<1>4. QED
  BY <1>2, <1>3

LEMMA ReportedRow ==
  ASSUME NEW row \in Row, NEW to \in ImpactState
  PROVE  /\ Reported(row, to) \in Row
         /\ Reported(row, to).state = to
         /\ Reported(row, to).updated = row.updated + 1
<1> DEFINE u == row.updated + 1
           f == to \in FinalStates
<1>1. u \in Nat /\ f \in BOOLEAN /\ (f <=> to \in FinalStates)
  BY RowFields
<1>2. Reported(row, to) = [state |-> to, updated |-> u, resolved |-> f]
  BY DEF Reported
<1> HIDE DEF u, f
<1>3. [state |-> to, updated |-> u, resolved |-> f] \in Row
  BY <1>1, MakeRow
<1>4. QED
  BY <1>2, <1>3 DEF u

LEMMA UpdateImpactInv ==
  ASSUME ImpactsInv, NEW r \in Reporter, UpdateImpact(r)
  PROVE  ImpactsInv' /\ RowsGrow
<1> DEFINE q == job[r]
           mirror == [at |-> "usage", pair |-> q.pair, to |-> q.to]
<1>q. q \in Job /\ JobFits(q, capsule, snapshot, impact) /\ job \in [Reporter -> Job]
  BY DEF ImpactsInv, JobsFit
<1>1. q.at = "update" /\ UNCHANGED <<memoryVars, live, done, snapshot, usage, told>>
  BY DEF UpdateImpact
<1>2. /\ q.pair \in Pair /\ q.to \in ImpactState /\ Recalled(q.pair)
      /\ Kept(q.pair[2]) /\ impact[q.pair] \in Row
  BY <1>1, <1>q, JobFields, RecallTypes DEF JobFits, Recalled, ImpactsInv, OnlyKept
<1>3. CASE /\ impact' = [impact EXCEPT ![q.pair] = Reported(@, q.to)]
           /\ Turn(r, IF Mirrored(q.to) THEN mirror ELSE Free)
           /\ crossed' = (crossed \/ Mirroring(q.pair) # {})
  <2>1. /\ Reported(impact[q.pair], q.to) \in Row
        /\ Reported(impact[q.pair], q.to).updated = impact[q.pair].updated + 1
    BY <1>2, ReportedRow
  <2>2. crossed' \in BOOLEAN
    BY <1>3 DEF ImpactsInv, RowsTypeOK
  <2>3. impact' = [impact EXCEPT ![q.pair] = Reported(impact[q.pair], q.to)]
    BY <1>3
  <2>4. CASE Mirrored(q.to)
    <3>1. mirror \in Job
      BY <1>2 DEF Job
    <3>2. JobFits(mirror, capsule, snapshot, impact')
      BY <1>2, <2>4 DEF JobFits, Kept
    <3>3. Turn(r, mirror)
      BY <1>3, <2>4
    <3> HIDE DEF mirror
    <3>4. QED
      BY <1>1, <1>2, <2>1, <2>2, <2>3, <3>1, <3>2, <3>3, WritesImpact
  <2>5. CASE ~Mirrored(q.to)
    BY <1>1, <1>2, <1>3, <2>1, <2>2, <2>3, <2>5, FreeFits, WritesImpact
  <2>6. QED
    BY <2>4, <2>5
<1>4. CASE Finish(r) /\ UNCHANGED <<impact, crossed>>
  <2>1. Turn(r, Free) /\ UNCHANGED <<memoryVars, impactRows, crossed>>
    BY <1>1, <1>4 DEF Finish, impactRows
  <2>2. QED
    BY <2>1, FreeFits, ProceedsInPlace
<1>5. QED
  BY <1>3, <1>4 DEF UpdateImpact

-----------------------------------------------------------------------------
\* What follows a report, and the other steps.

LEMMA UpsertUsageInv ==
  ASSUME ImpactsInv, NEW r \in Reporter, UpsertUsage(r)
  PROVE  ImpactsInv' /\ RowsGrow
<1> DEFINE q == job[r]
           stage == AfterUsage(q)
<1>q. q \in Job /\ JobFits(q, capsule, snapshot, impact)
  BY DEF ImpactsInv, JobsFit
<1>t. MemoryInv /\ RowsTypeOK /\ OnlyKept /\ ContextIsFrozen
  BY DEF ImpactsInv
<1>1. /\ q.at = "usage" /\ Turn(r, stage)
      /\ usage' = [usage EXCEPT ![q.pair] = UsageOutcome(q.to)]
      /\ UNCHANGED <<memoryVars, live, done, snapshot, impact, told, crossed>>
  BY DEF UpsertUsage
<1>2. q.pair \in Pair /\ Kept(q.pair[2]) /\ Mirrored(q.to) /\ q.pair[2] \in Capsule
  BY <1>1, <1>q, JobFields, PairParts DEF JobFits, Kept
<1>3. UsageOutcome(q.to) \in Outcomes
  BY <1>2 DEF Mirrored, UsageOutcome, Outcomes, FinalStates
<1>4. RowsTypeOK'
  BY <1>t, <1>1, <1>3 DEF RowsTypeOK
<1>5. UNCHANGED capsule
  BY <1>1 DEF memoryVars
<1>6. MemoryInv' /\ RowsGrow
  BY <1>t, <1>1, <1>5, MemoryInvStep, RowsStay
<1>7. OnlyKept' /\ ContextIsFrozen'
  BY <1>t, <1>1, <1>5 DEF OnlyKept, ContextIsFrozen, Recalled, Kept
<1>8. stage \in Job
  BY <1>2, FreeFits DEF AfterUsage, Job
<1>9. JobFits(stage, capsule', snapshot', impact')
  <2>1. CASE q.to = "stale"
    BY <1>2, <1>5, <2>1 DEF AfterUsage, JobFits, Kept
  <2>2. CASE q.to # "stale"
    BY <2>2, FreeFits DEF AfterUsage
  <2>3. QED
    BY <2>1, <2>2
<1>10. QED
  BY <1>1, <1>4, <1>6, <1>7, <1>8, <1>9, Proceeds

LEMMA ReadStaleInv ==
  ASSUME ImpactsInv, NEW r \in Reporter, ReadStale(r)
  PROVE  ImpactsInv' /\ RowsGrow
<1> DEFINE q == job[r]
           k == q.capsule
           stage == [at |-> "write", capsule |-> k, to |-> "stale", copy |-> capsule[k]]
<1>q. q \in Job /\ JobFits(q, capsule, snapshot, impact)
  BY DEF ImpactsInv, JobsFit
<1>1. q.at = "stale" /\ Turn(r, stage) /\ UNCHANGED <<memoryVars, impactRows, crossed>>
  BY DEF ReadStale
<1>2. k \in Capsule /\ capsule[k] # NoCapsule
  BY <1>1, <1>q, JobFields DEF JobFits
<1>3. capsule[k] \in CapsuleRow
  BY <1>2 DEF ImpactsInv, MemoryInv, MemoryTypeOK
<1>4. stage \in Job
  BY <1>2, <1>3 DEF Job
<1>5. JobFits(stage, capsule, snapshot, impact)
  BY <1>2 DEF JobFits
<1>6. QED
  BY <1>1, <1>4, <1>5, ProceedsInPlace

\* The row that a stale report writes.
LEMMA StaleRow ==
  ASSUME ImpactsInv, NEW r \in Reporter, job[r].at = "write"
  PROVE  LET q == job[r] IN
         /\ q.capsule \in Capsule /\ Kept(q.capsule)
         /\ Written(q) \in CapsuleRow
         /\ Written(q).status = "stale"
         /\ Written(q).from = capsule[q.capsule].from
         /\ Written(q).updated = capsule[q.capsule].updated + 1
<1> DEFINE q == job[r]
           u == capsule[q.capsule].updated + 1
<1>q. q \in Job /\ JobFits(q, capsule, snapshot, impact)
  BY DEF ImpactsInv, JobsFit
<1>1. /\ q.capsule \in Capsule /\ Kept(q.capsule) /\ q.to = "stale" /\ q.copy \in CapsuleRow
      /\ q.copy.from = capsule[q.capsule].from
  BY <1>q, JobFields DEF JobFits, Kept
<1>2. "stale" # None /\ "stale" \in CapsuleStatus /\ "stale" # "active"
  BY MemoryAssumption DEF CapsuleStatus
<1>3. capsule[q.capsule] \in CapsuleRow
  BY <1>1 DEF ImpactsInv, MemoryInv, MemoryTypeOK, Kept
<1>4. u \in Nat
  BY <1>3, CapsuleFields
<1>5. Written(q) = [q.copy EXCEPT !.status = "stale", !.revived = FALSE, !.updated = u]
  <2>1. Revives(q) = FALSE
    BY <1>1, <1>2 DEF Revives, CarriesBack
  <2>2. QED
    BY <1>1, <1>2, <2>1 DEF Written
<1> HIDE DEF u
<1>6. /\ Written(q) \in CapsuleRow
      /\ Written(q).status = "stale" /\ Written(q).updated = u
      /\ Written(q).from = q.copy.from
  BY <1>1, <1>2, <1>4, <1>5 DEF CapsuleRow
<1>7. QED
  BY <1>1, <1>6 DEF u

LEMMA WriteStaleInv ==
  ASSUME ImpactsInv, NEW r \in Reporter, WriteStale(r)
  PROVE  ImpactsInv' /\ RowsGrow
<1> DEFINE q == job[r]
<1>t. /\ MemoryInv /\ MemoryTypeOK /\ RowsTypeOK /\ OnlyKept /\ ContextIsFrozen
      /\ capsule \in [Capsule -> {NoCapsule} \cup CapsuleRow]
      /\ \A b \in Caller : req[b] \in Stage /\ Fits(req[b], capsule, note, link)
  BY DEF ImpactsInv, MemoryInv, MemoryTypeOK, StagesFit
<1>1. /\ q.at = "write" /\ Turn(r, Free)
      /\ capsule' = [capsule EXCEPT ![q.capsule] = Written(q)]
      /\ UNCHANGED <<note, link, event, req, raced, cut>>
      /\ UNCHANGED <<live, done, snapshot, impact, usage, told, crossed>>
  BY DEF WriteStale, Finish, impactRows
<1>2. /\ q.capsule \in Capsule /\ Kept(q.capsule) /\ Written(q) \in CapsuleRow
      /\ Written(q).from = capsule[q.capsule].from
      /\ Written(q).updated = capsule[q.capsule].updated + 1
  BY <1>1, StaleRow
<1>3. /\ capsule' \in [Capsule -> {NoCapsule} \cup CapsuleRow]
      /\ capsule'[q.capsule] = Written(q)
      /\ \A k \in Capsule \ {q.capsule} : capsule'[k] = capsule[k]
  BY <1>t, <1>1, <1>2
<1>4. RowsAge
  BY <1>t, <1>1, <1>2, <1>3 DEF RowsAge, Kept
<1>5. \A b \in Caller : Fits(req[b], capsule', note', link')
  BY <1>t, <1>4, StillFits
<1>6. MemoryTypeOK'
  BY <1>t, <1>1, <1>3 DEF MemoryTypeOK
<1>7. MemoryInv'
  BY <1>1, <1>5, <1>6 DEF MemoryInv, StagesFit
<1>8. \A k \in Capsule : Kept(k) => Kept(k)' /\ capsule'[k].from = capsule[k].from
  BY <1>4, CapsuleFields DEF RowsAge, Kept
<1>9. RowsGrow
  BY <1>1, <1>8 DEF RowsGrow, Recalled
<1>10. OnlyKept'
  BY <1>1, <1>9, OnlyKeptStays
<1>11. RowsTypeOK' /\ ContextIsFrozen'
  BY <1>t, <1>1 DEF RowsTypeOK, ContextIsFrozen
<1>12. QED
  BY <1>1, <1>7, <1>9, <1>10, <1>11, FreeFits, Proceeds

\* A step outside any request of a reporter.
LEMMA Stands ==
  ASSUME ImpactsInv, UNCHANGED job, RowsGrow, MemoryInv', RowsTypeOK', OnlyKept',
         ContextIsFrozen'
  PROVE  ImpactsInv' /\ RowsGrow
<1>1. \A s \in Reporter : job[s] \in Job /\ JobFits(job[s], capsule, snapshot, impact)
  BY DEF ImpactsInv, JobsFit
<1>2. \A s \in Reporter : JobFits(job[s], capsule', snapshot', impact')
  BY <1>1, JobStillFits
<1>3. QED
  BY <1>2 DEF ImpactsInv, JobsFit

LEMMA TaskStepInv ==
  ASSUME ImpactsInv, NEW t \in Task, ClaimChanges(t) \/ Reopen(t)
  PROVE  ImpactsInv' /\ RowsGrow
<1>t. MemoryInv /\ RowsTypeOK /\ OnlyKept /\ ContextIsFrozen
  BY DEF ImpactsInv
<1>1. UNCHANGED <<memoryVars, snapshot, impact, usage, job, told, crossed>>
  BY DEF ClaimChanges, Reopen
<1>2. MemoryInv' /\ UNCHANGED capsule
  BY <1>t, <1>1, MemoryInvStep DEF memoryVars
<1>3. RowsGrow
  BY <1>1, <1>2, RowsStay
<1>4. live' \subseteq Task /\ done' \subseteq Task
  BY <1>t DEF ClaimChanges, Reopen, RowsTypeOK
<1>5. RowsTypeOK' /\ ContextIsFrozen'
  BY <1>t, <1>1, <1>4 DEF RowsTypeOK, ContextIsFrozen
<1>6. QED
  BY <1>1, <1>2, <1>3, <1>5, OnlyKeptStays, Stands

LEMMA CompleteTaskInv ==
  ASSUME ImpactsInv, NEW r \in Reporter, NEW t \in Task, CompleteTask(r, t)
  PROVE  ImpactsInv' /\ RowsGrow
<1> DEFINE stage == [at |-> "mark", task |-> t]
<1>t. MemoryInv /\ RowsTypeOK /\ ContextIsFrozen
  BY DEF ImpactsInv
<1>1. /\ Turn(r, stage) /\ done' = done \cup {t}
      /\ UNCHANGED <<memoryVars, live, snapshot, impact, usage, told, crossed>>
  BY DEF CompleteTask
<1>2. MemoryInv' /\ UNCHANGED capsule
  BY <1>t, <1>1, MemoryInvStep DEF memoryVars
<1>3. RowsGrow
  BY <1>1, <1>2, RowsStay
<1>4. RowsTypeOK' /\ ContextIsFrozen'
  BY <1>t, <1>1 DEF RowsTypeOK, ContextIsFrozen
<1>5. stage \in Job /\ JobFits(stage, capsule', snapshot', impact')
  BY DEF Job, JobFits
<1>6. OnlyKept'
  BY <1>1, <1>3, OnlyKeptStays
<1>7. QED
  BY <1>1, <1>2, <1>3, <1>4, <1>5, <1>6, Proceeds

\* What the completion of a task makes of an impact.
Unconfirmed(row) == [state |-> "unconfirmed", updated |-> row.updated + 1, resolved |-> FALSE]

LEMMA MarkedRows ==
  ASSUME ImpactsInv, NEW r \in Reporter, MarkUnconfirmed(r), NEW p \in Pair
  PROVE  \/ impact'[p] = impact[p]
         \/ /\ p[1] = job[r].task /\ Unresolved(p) /\ Recalled(p)
            /\ impact'[p] = Unconfirmed(impact[p])
            /\ impact'[p] \in Row
            /\ impact'[p].state = "unconfirmed"
            /\ impact'[p].updated = impact[p].updated + 1
<1>1. impact'[p] = IF p[1] = job[r].task /\ Unresolved(p) THEN Unconfirmed(impact[p])
                                                          ELSE impact[p]
  BY DEF MarkUnconfirmed, Unconfirmed
<1>2. ASSUME Unresolved(p)
      PROVE  /\ Recalled(p) /\ Unconfirmed(impact[p]) \in Row
             /\ Unconfirmed(impact[p]).state = "unconfirmed"
             /\ Unconfirmed(impact[p]).updated = impact[p].updated + 1
  <2> DEFINE u == impact[p].updated + 1
  <2>1. Recalled(p)
    BY <1>2 DEF Unresolved, Recalled, NoImpact
  <2>2. u \in Nat
    BY <2>1, RecallTypes
  <2>3. Unconfirmed(impact[p]) = [state |-> "unconfirmed", updated |-> u, resolved |-> FALSE]
    BY DEF Unconfirmed
  <2> HIDE DEF u
  <2>4. "unconfirmed" \in ImpactState /\ ~("unconfirmed" \in FinalStates)
    BY DEF ImpactState, FinalStates
  <2>5. Unconfirmed(impact[p]) \in Row
    BY <2>2, <2>3, <2>4 DEF Row
  <2>6. QED
    BY <2>1, <2>3, <2>5 DEF u
<1>3. QED
  BY <1>1, <1>2

LEMMA MarkUnconfirmedInv ==
  ASSUME ImpactsInv, NEW r \in Reporter, MarkUnconfirmed(r)
  PROVE  ImpactsInv' /\ RowsGrow
<1>t. /\ MemoryInv /\ RowsTypeOK /\ OnlyKept /\ ContextIsFrozen
      /\ impact \in [Pair -> {NoImpact} \cup Row]
  BY DEF ImpactsInv, RowsTypeOK
<1>1. Turn(r, Free) /\ UNCHANGED <<memoryVars, live, done, snapshot, usage, told, crossed>>
  BY DEF MarkUnconfirmed, Finish
<1>2. MemoryInv' /\ UNCHANGED capsule
  BY <1>t, <1>1, MemoryInvStep DEF memoryVars
<1>3. \A p \in Pair :
        /\ impact'[p] \in {NoImpact} \cup Row
        /\ Recalled(p)' <=> Recalled(p)
        /\ impact'[p] = impact[p] \/ impact'[p].updated = impact[p].updated + 1
  <2> SUFFICES ASSUME NEW p \in Pair
               PROVE  /\ impact'[p] \in {NoImpact} \cup Row
                      /\ Recalled(p)' <=> Recalled(p)
                      /\ impact'[p] = impact[p] \/ impact'[p].updated = impact[p].updated + 1
    OBVIOUS
  <2>1. CASE impact'[p] = impact[p]
    BY <1>t, <2>1 DEF Recalled
  <2>2. CASE impact'[p] # impact[p]
    BY <2>2, MarkedRows, RowFields DEF Recalled
  <2>3. QED
    BY <2>1, <2>2
<1>4. impact' \in [Pair -> {NoImpact} \cup Row]
  <2>1. impact' = [p \in Pair |-> impact'[p]]
    BY DEF MarkUnconfirmed
  <2>2. QED
    BY <1>3, <2>1
<1>5. RowsGrow
  BY <1>1, <1>2, <1>3 DEF RowsGrow, Kept
<1>6. OnlyKept'
  BY <1>t, <1>1, <1>2, <1>3 DEF OnlyKept, Kept
<1>7. RowsTypeOK' /\ ContextIsFrozen'
  BY <1>t, <1>1, <1>4 DEF RowsTypeOK, ContextIsFrozen
<1>8. QED
  BY <1>1, <1>2, <1>5, <1>6, <1>7, FreeFits, Proceeds

LEMMA AbandonJobInv ==
  ASSUME ImpactsInv, NEW r \in Reporter, AbandonJob(r)
  PROVE  ImpactsInv' /\ RowsGrow
<1>t. MemoryInv /\ RowsTypeOK /\ OnlyKept /\ ContextIsFrozen
  BY DEF ImpactsInv
<1>1. /\ Turn(r, Free) /\ cut' = TRUE
      /\ UNCHANGED <<capsule, note, link, event, req, raced>>
      /\ UNCHANGED <<live, done, snapshot, impact, usage, told, crossed>>
  BY DEF AbandonJob, Finish, rows, impactRows
<1>2. MemoryInv'
  BY <1>t, <1>1 DEF MemoryInv, MemoryTypeOK, StagesFit
<1>3. RowsGrow
  BY <1>1, RowsStay
<1>4. RowsTypeOK' /\ ContextIsFrozen' /\ OnlyKept'
  BY <1>t, <1>1 DEF RowsTypeOK, ContextIsFrozen, OnlyKept, Recalled, Kept
<1>5. QED
  BY <1>1, <1>2, <1>3, <1>4, FreeFits, Proceeds

LEMMA MemoryStepInv ==
  ASSUME ImpactsInv, MemoryNext, UNCHANGED impactVars
  PROVE  ImpactsInv' /\ RowsGrow
<1>t. MemoryInv /\ RowsTypeOK /\ ContextIsFrozen
  BY DEF ImpactsInv
<1>1. UNCHANGED <<live, done, snapshot, impact, usage, told, job, crossed>>
  BY DEF impactVars, impactRows
<1>2. MemoryInv' /\ RowsAge
  BY <1>t, MemoryInvStep
<1>3. \A k \in Capsule : Kept(k) => Kept(k)' /\ capsule'[k].from = capsule[k].from
  BY <1>2, CapsuleFields DEF RowsAge, Kept
<1>4. RowsGrow
  BY <1>1, <1>3 DEF RowsGrow, Recalled
<1>5. RowsTypeOK' /\ ContextIsFrozen'
  BY <1>t, <1>1 DEF RowsTypeOK, ContextIsFrozen
<1>6. OnlyKept'
  BY <1>1, <1>4, OnlyKeptStays
<1>7. QED
  BY <1>1, <1>2, <1>4, <1>5, <1>6, Stands

LEMMA ImpactsInvStep ==
  ASSUME ImpactsInv, [ImpactsNext]_impactsVars
  PROVE  ImpactsInv' /\ RowsGrow
<1>1. CASE UNCHANGED impactsVars
  <2>1. UNCHANGED <<memoryVars, live, done, snapshot, impact, usage, told, job, crossed>>
    BY <1>1 DEF impactsVars, impactVars, impactRows
  <2>2. MemoryInv' /\ UNCHANGED capsule
    BY <2>1, MemoryInvStep DEF memoryVars, ImpactsInv
  <2>3. RowsTypeOK' /\ ContextIsFrozen' /\ OnlyKept'
    BY <2>1, <2>2 DEF ImpactsInv, RowsTypeOK, ContextIsFrozen, OnlyKept, Recalled, Kept
  <2>4. QED
    BY <2>1, <2>2, <2>3, RowsStay, Stands
<1>2. ASSUME NEW r \in Reporter, ReporterStep(r) PROVE ImpactsInv' /\ RowsGrow
  <2>1. CASE \/ \E t \in Task : BeginContext(r, t) \/ BeginRecall(r, t)
             \/ ListCapsules(r) \/ AnswerRecall(r) \/ BeginReconcile(r) \/ CountImpacts(r)
    BY <2>1, ContextStepInv
  <2>2. CASE StoreSnapshot(r) \/ RecordReceipt(r) \/ FindImpact(r) \/ CheckReport(r)
    BY <2>2, StoreSnapshotInv, RecordReceiptInv, FindImpactInv, CheckReportInv
  <2>3. CASE UpdateImpact(r) \/ UpsertUsage(r) \/ ReadStale(r) \/ WriteStale(r)
    BY <2>3, UpdateImpactInv, UpsertUsageInv, ReadStaleInv, WriteStaleInv
  <2>4. CASE MarkUnconfirmed(r) \/ AbandonJob(r) \/ \E t \in Task : CompleteTask(r, t)
    BY <2>4, MarkUnconfirmedInv, AbandonJobInv, CompleteTaskInv
  <2>5. CASE \E p \in Task \X ReportAbout, to \in ReportTo, agent \in BOOLEAN :
               \/ BeginUsage(r, p, to, agent)
               \/ \E seen \in 1..MaxStamp : BeginReport(r, p, to, agent, seen)
    BY <2>5, BeginReportsInv
  <2>6. QED
    BY <1>2, <2>1, <2>2, <2>3, <2>4, <2>5 DEF ReporterStep
<1>3. QED
  BY <1>1, <1>2, MemoryStepInv, TaskStepInv DEF ImpactsNext

LEMMA ImpactsInvInit == ImpactsInit => ImpactsInv
<1> SUFFICES ASSUME ImpactsInit PROVE ImpactsInv
  OBVIOUS
<1>1. MemoryInv
  BY MemoryInvInit DEF ImpactsInit
<1>2. job \in [Reporter -> Job] /\ \A r \in Reporter : job[r] = Free
  BY DEF ImpactsInit, Job
<1>3. RowsTypeOK /\ OnlyKept /\ ContextIsFrozen
  BY DEF ImpactsInit, RowsTypeOK, OnlyKept, ContextIsFrozen, Recalled, Context
<1>4. JobsFit
  BY <1>2, FreeFits DEF JobsFit
<1>5. QED
  BY <1>1, <1>2, <1>3, <1>4 DEF ImpactsInv

LEMMA ImpactsInvHolds == ImpactsSpec => []ImpactsInv
<1>1. ImpactsInv /\ [ImpactsNext]_impactsVars => ImpactsInv'
  BY ImpactsInvStep
<1>2. QED
  BY <1>1, ImpactsInvInit, PTL DEF ImpactsSpec

\* Snapshots, impacts, usages and requests keep their types; a stamp of resolution is
\* set as long as the impact is final.
THEOREM ImpactTypesCorrect == ImpactsSpec => []ImpactsTypeOK
<1>1. ImpactsInv => ImpactsTypeOK
  BY DEF ImpactsInv, RowsTypeOK, ImpactsTypeOK
<1>2. QED
  BY <1>1, ImpactsInvHolds, PTL

\* All answers to requests for the context of a task are one and the same.
THEOREM ContextStaysFrozen == ImpactsSpec => []ContextIsFrozen
<1>1. ImpactsInv => ContextIsFrozen
  BY DEF ImpactsInv
<1>2. QED
  BY <1>1, ImpactsInvHolds, PTL

-----------------------------------------------------------------------------
\* What a step does to the impact of a capsule on a task.

\* The requests of reporters that write no impact.
LEMMA ImpactsWait ==
  ASSUME [ImpactsNext]_impactsVars,
         \A r \in Reporter : ~RecordReceipt(r) /\ ~FindImpact(r) /\ ~UpdateImpact(r)
                             /\ ~MarkUnconfirmed(r)
  PROVE  UNCHANGED impact
<1>1. CASE UNCHANGED impactsVars \/ (MemoryNext /\ UNCHANGED impactVars)
  BY <1>1 DEF impactsVars, impactVars, impactRows
<1>2. ASSUME NEW t \in Task, ClaimChanges(t) \/ Reopen(t) PROVE UNCHANGED impact
  BY <1>2 DEF ClaimChanges, Reopen
<1>3. ASSUME NEW r \in Reporter, ReporterStep(r) PROVE UNCHANGED impact
  BY <1>3 DEF ReporterStep, BeginContext, BeginRecall, CompleteTask, ListCapsules,
     StoreSnapshot, AnswerRecall, BeginReconcile, CountImpacts, BeginUsage, BeginReport,
     CheckReport, UpsertUsage, ReadStale, WriteStale, AbandonJob, impactRows
<1>4. QED
  BY <1>1, <1>2, <1>3 DEF ImpactsNext

\* A report of r reaches the impact.
Lands(r, p) ==
  /\ UpdateImpact(r) /\ job[r].at = "update" /\ job[r].pair = p /\ Expected(job[r])
  /\ impact'[p].state = job[r].to
  /\ crossed' = (crossed \/ Mirroring(p) # {})
  /\ Turn(r, IF Mirrored(job[r].to) THEN [at |-> "usage", pair |-> p, to |-> job[r].to] ELSE Free)

LEMMA ImpactChanges ==
  ASSUME ImpactsInv, [ImpactsNext]_impactsVars, NEW p \in Pair
  PROVE  \/ impact'[p] = impact[p]
         \/ Recalled(p) /\ impact'[p].state = impact[p].state
         \/ ~Recalled(p) /\ impact'[p].state = "recalled"
         \/ Unresolved(p) /\ impact'[p].state = "unconfirmed"
         \/ \E r \in Reporter : Lands(r, p)
<1> DEFINE Goal == \/ impact'[p] = impact[p]
                   \/ Recalled(p) /\ impact'[p].state = impact[p].state
                   \/ ~Recalled(p) /\ impact'[p].state = "recalled"
                   \/ Unresolved(p) /\ impact'[p].state = "unconfirmed"
                   \/ \E r \in Reporter : Lands(r, p)
<1>t. impact \in [Pair -> {NoImpact} \cup Row]
  BY DEF ImpactsInv, RowsTypeOK
<1>q. ASSUME NEW r \in Reporter
      PROVE  job[r] \in Job /\ JobFits(job[r], capsule, snapshot, impact)
  BY <1>q DEF ImpactsInv, JobsFit
<1>u. ASSUME NEW o \in Pair, impact' = [impact EXCEPT ![o] = Upserted(o)] PROVE Goal
  <2>1. CASE o = p
    <3>1. impact'[p] = Upserted(p)
      BY <1>t, <1>u, <2>1
    <3>2. QED
      BY <3>1, UpsertedRow
  <2>2. CASE o # p
    BY <1>t, <1>u, <2>2
  <2>3. QED
    BY <2>1, <2>2
<1>1. ASSUME NEW r \in Reporter, RecordReceipt(r) PROVE Goal
  <2>1. PICK o \in job[r].todo : impact' = [impact EXCEPT ![o] = Upserted(o)]
    BY <1>1 DEF RecordReceipt
  <2>2. o \in Pair
    BY <1>1, <1>q, <2>1, JobFields DEF RecordReceipt
  <2>3. QED
    BY <1>u, <2>1, <2>2
<1>2. ASSUME NEW r \in Reporter, FindImpact(r) PROVE Goal
  <2>1. job[r].pair \in Pair
    BY <1>2, <1>q, JobFields DEF FindImpact
  <2>2. \/ UNCHANGED impact
        \/ impact' = [impact EXCEPT ![job[r].pair] = Upserted(job[r].pair)]
    BY <1>2 DEF FindImpact
  <2>3. QED
    BY <1>u, <2>1, <2>2
<1>3. ASSUME NEW r \in Reporter, UpdateImpact(r) PROVE Goal
  <2> DEFINE q == job[r]
  <2>1. q.at = "update"
    BY <1>3 DEF UpdateImpact
  <2>2. /\ q.pair \in Pair /\ q.to \in ImpactState /\ impact[q.pair] \in Row
    BY <2>1, <1>q, JobFields, RecallTypes DEF JobFits, Recalled
  <2>3. CASE UNCHANGED impact
    BY <2>3
  <2>4. CASE /\ Expected(q)
             /\ impact' = [impact EXCEPT ![q.pair] = Reported(@, q.to)]
             /\ Turn(r, IF Mirrored(q.to)
                        THEN [at |-> "usage", pair |-> q.pair, to |-> q.to] ELSE Free)
             /\ crossed' = (crossed \/ Mirroring(q.pair) # {})
    <3>1. CASE q.pair = p
      <4>1. impact'[p].state = q.to
        BY <1>t, <2>2, <2>4, <3>1, ReportedRow
      <4>2. QED
        BY <1>3, <2>1, <2>4, <3>1, <4>1 DEF Lands
    <3>2. CASE q.pair # p
      BY <1>t, <2>2, <2>4, <3>2
    <3>3. QED
      BY <3>1, <3>2
  <2>5. QED
    BY <1>3, <2>3, <2>4 DEF UpdateImpact
<1>4. ASSUME NEW r \in Reporter, MarkUnconfirmed(r) PROVE Goal
  BY <1>4, MarkedRows
<1>5. QED
  BY <1>1, <1>2, <1>3, <1>4, ImpactsWait

\* A final impact is changed by no recall, no completion of the task and no agent.
THEOREM FinalsStand == ImpactsSpec => AgentsKeepFinals
<1>1. ASSUME ImpactsInv, [ImpactsNext]_impactsVars, NEW p \in Pair, Final(p),
             impact'[p].state # impact[p].state
      PROVE  \E r \in Reporter : /\ job[r].at = "update" /\ job[r].pair = p
                                 /\ ~job[r].agent /\ job[r].expected = impact[p].updated
  <2>1. Recalled(p) /\ ~Unresolved(p)
    BY <1>1 DEF Final, FinalStates, Unresolved, Recalled, NoImpact
  <2>2. PICK r \in Reporter : Lands(r, p)
    BY <1>1, <2>1, ImpactChanges
  <2>3. /\ job[r].at = "update" /\ job[r].pair = p /\ job[r].expected = impact[p].updated
        /\ job[r].to # impact[p].state
    BY <1>1, <2>2 DEF Lands, Expected
  <2>4. Allowed(job[r], impact[p].state)
    BY <1>1, <2>3 DEF ImpactsInv, JobsFit, JobFits
  <2>5. ~job[r].agent
    BY <1>1, <2>3, <2>4 DEF Allowed, Final
  <2>6. QED
    BY <2>3, <2>5
<1>2. ImpactsInv /\ [ImpactsNext]_impactsVars =>
        [\A p \in Pair : Final(p) /\ impact'[p].state # impact[p].state =>
           \E r \in Reporter : /\ job[r].at = "update" /\ job[r].pair = p
                               /\ ~job[r].agent /\ job[r].expected = impact[p].updated]_impactsVars
  BY <1>1
<1>3. QED
  BY <1>2, ImpactsInvHolds, PTL DEF ImpactsSpec, AgentsKeepFinals

-----------------------------------------------------------------------------
\* What a step of a request leaves alone.

LEMMA OtherJobsWait ==
  ASSUME job \in [Reporter -> Job], NEW r \in Reporter, ReporterStep(r)
  PROVE  \A s \in Reporter \ {r} : job'[s] = job[s]
<1>1. CASE \E t \in Task : BeginContext(r, t) \/ BeginRecall(r, t) \/ CompleteTask(r, t)
  BY <1>1 DEF BeginContext, BeginRecall, CompleteTask, Turn
<1>2. CASE ListCapsules(r) \/ StoreSnapshot(r) \/ RecordReceipt(r) \/ AnswerRecall(r)
  BY <1>2 DEF ListCapsules, StoreSnapshot, RecordReceipt, AnswerRecall, Finish, Turn
<1>3. CASE BeginReconcile(r) \/ CountImpacts(r) \/ FindImpact(r) \/ CheckReport(r)
  BY <1>3 DEF BeginReconcile, CountImpacts, FindImpact, CheckReport, Finish, Turn
<1>4. CASE \E p \in Task \X ReportAbout, to \in ReportTo, agent \in BOOLEAN :
             \/ BeginUsage(r, p, to, agent)
             \/ \E seen \in 1..MaxStamp : BeginReport(r, p, to, agent, seen)
  BY <1>4 DEF BeginUsage, BeginReport, Turn
<1>5. CASE UpdateImpact(r) \/ UpsertUsage(r) \/ ReadStale(r) \/ WriteStale(r)
  BY <1>5 DEF UpdateImpact, UpsertUsage, ReadStale, WriteStale, Finish, Turn
<1>6. CASE MarkUnconfirmed(r) \/ AbandonJob(r)
  BY <1>6 DEF MarkUnconfirmed, AbandonJob, Finish, Turn
<1>7. QED
  BY <1>1, <1>2, <1>3, <1>4, <1>5, <1>6 DEF ReporterStep

\* The steps that a request at a stage may take.
LEMMA JobsOf ==
  ASSUME NEW r \in Reporter, ReporterStep(r)
  PROVE  /\ job[r].at = "receipts" => RecordReceipt(r) \/ AnswerRecall(r) \/ AbandonJob(r)
         /\ job[r].at = "usage" => UpsertUsage(r) \/ AbandonJob(r)
         /\ job[r].at = "stale" => ReadStale(r) \/ AbandonJob(r)
         /\ job[r].at = "write" => WriteStale(r) \/ AbandonJob(r)
<1>f. job[r] = Free => job[r].at = "free"
  BY DEF Free
<1>1. CASE job[r] = Free
  BY <1>f, <1>1
<1>2. CASE job[r] # Free
  <2>1. ~ \E t \in Task : BeginContext(r, t) \/ BeginRecall(r, t) \/ CompleteTask(r, t)
    BY <1>2 DEF BeginContext, BeginRecall, CompleteTask, Ready, Working
  <2>2. ~ \E p \in Task \X ReportAbout, to \in ReportTo, agent \in BOOLEAN :
            \/ BeginUsage(r, p, to, agent)
            \/ \E seen \in 1..MaxStamp : BeginReport(r, p, to, agent, seen)
    BY <1>2 DEF BeginUsage, BeginReport, Ready, Working
  <2>3. ~BeginReconcile(r)
    BY <1>2 DEF BeginReconcile, Ready, Working
  <2>4. CASE job[r].at = "receipts"
    BY <2>1, <2>2, <2>3, <2>4 DEF ReporterStep, ListCapsules, StoreSnapshot, CountImpacts,
       FindImpact, CheckReport, UpdateImpact, UpsertUsage, ReadStale, WriteStale, MarkUnconfirmed
  <2>5. CASE job[r].at = "usage"
    BY <2>1, <2>2, <2>3, <2>5 DEF ReporterStep, ListCapsules, StoreSnapshot, CountImpacts,
       FindImpact, CheckReport, UpdateImpact, RecordReceipt, AnswerRecall, ReadStale,
       WriteStale, MarkUnconfirmed
  <2>6. CASE job[r].at = "stale"
    BY <2>1, <2>2, <2>3, <2>6 DEF ReporterStep, ListCapsules, StoreSnapshot, CountImpacts,
       FindImpact, CheckReport, UpdateImpact, RecordReceipt, AnswerRecall, UpsertUsage,
       WriteStale, MarkUnconfirmed
  <2>7. CASE job[r].at = "write"
    BY <2>1, <2>2, <2>3, <2>7 DEF ReporterStep, ListCapsules, StoreSnapshot, CountImpacts,
       FindImpact, CheckReport, UpdateImpact, RecordReceipt, AnswerRecall, UpsertUsage,
       ReadStale, MarkUnconfirmed
  <2>8. QED
    BY <2>4, <2>5, <2>6, <2>7
<1>3. QED
  BY <1>1, <1>2

\* A step that is none of a reporter's leaves the requests alone; cut stays set.
LEMMA WhoMoves ==
  ASSUME [ImpactsNext]_impactsVars
  PROVE  /\ (\E r \in Reporter : ReporterStep(r)) \/ UNCHANGED job
         /\ cut => cut'
<1>1. CASE UNCHANGED impactsVars
  BY <1>1 DEF impactsVars, impactVars, memoryVars
<1>2. CASE MemoryNext /\ UNCHANGED impactVars
  <2>1. CASE \E k \in Capsule : CreateCapsule(k)
    BY <1>2, <2>1 DEF CreateCapsule, impactVars
  <2>2. CASE \E i \in Link : DeleteRelation(i)
    BY <1>2, <2>2 DEF DeleteRelation, impactVars
  <2>3. UNCHANGED job
    BY <1>2 DEF impactVars
  <2>4. ASSUME NEW c \in Caller, NoteStep(c) PROVE UNCHANGED cut
    BY <2>4 DEF NoteStep, BeginCapture, InsertNote, BeginResolve, Promote, Reject, Rewrite,
       AppendEvent, rows
  <2>5. ASSUME NEW c \in Caller, RelationStep(c) PROVE UNCHANGED cut
    BY <2>5 DEF RelationStep, BeginRelate, ReadRelations, CheckTarget, InsertRelation,
       ReadSuperseded, MarkFails, UndoRelation, rows
  <2>6. ASSUME NEW c \in Caller, CapsuleStep(c) PROVE UNCHANGED cut
    BY <2>6 DEF CapsuleStep, BeginEdit, ReadCapsule, WriteCapsule, rows
  <2>7. ASSUME NEW c \in Caller, Abandon(c) PROVE cut'
    BY <2>7 DEF Abandon
  <2>8. QED
    BY <1>2, <2>1, <2>2, <2>3, <2>4, <2>5, <2>6, <2>7 DEF MemoryNext, CallerStep
<1>3. CASE \E t \in Task : ClaimChanges(t) \/ Reopen(t)
  BY <1>3 DEF ClaimChanges, Reopen, memoryVars
<1>4. ASSUME NEW r \in Reporter, ReporterStep(r) PROVE cut => cut'
  BY <1>4 DEF ReporterStep, BeginContext, BeginRecall, CompleteTask, ListCapsules,
     StoreSnapshot, RecordReceipt, AnswerRecall, BeginReconcile, CountImpacts, BeginUsage,
     BeginReport, FindImpact, CheckReport, UpdateImpact, UpsertUsage, ReadStale, WriteStale,
     MarkUnconfirmed, AbandonJob, memoryVars
<1>5. QED
  BY <1>1, <1>2, <1>3, <1>4 DEF ImpactsNext

-----------------------------------------------------------------------------
\* Every capsule of a context has its receipt.

Covers(r, p) == job[r].at = "receipts" /\ p \in job[r].todo

CountedInv ==
  \A p \in Owed : Recalled(p) \/ cut \/ \E r \in Reporter : Covers(r, p)

\* A receipt that is to be written is written, or its request dies.
LEMMA CoversKeeps ==
  ASSUME ImpactsInv, ImpactsInv', [ImpactsNext]_impactsVars,
         NEW p \in Pair, NEW r \in Reporter, Covers(r, p)
  PROVE  Recalled(p)' \/ cut' \/ Covers(r, p)'
<1>t. /\ job \in [Reporter -> Job] /\ impact \in [Pair -> {NoImpact} \cup Row]
      /\ job[r] \in Job
  BY DEF ImpactsInv, RowsTypeOK
<1>1. CASE UNCHANGED job
  BY <1>1 DEF Covers
<1>2. ASSUME NEW s \in Reporter \ {r}, ReporterStep(s) PROVE Covers(r, p)'
  BY <1>2, <1>t, OtherJobsWait DEF Covers
<1>3. CASE ReporterStep(r)
  <2>1. CASE RecordReceipt(r)
    <3>1. PICK o \in job[r].todo :
            /\ impact' = [impact EXCEPT ![o] = Upserted(o)]
            /\ job' = [job EXCEPT ![r] = [job[r] EXCEPT !.todo = Remaining(@, o)]]
      BY <2>1 DEF RecordReceipt, Turn
    <3>2. o \in Pair /\ Upserted(o) # NoImpact
      <4>1. o \in Pair
        BY <1>t, <2>1, <3>1, JobFields DEF RecordReceipt
      <4>2. QED
        BY <4>1, UpsertedRow, RowFields
    <3>3. CASE o = p
      BY <1>t, <3>1, <3>2, <3>3 DEF Recalled
    <3>4. CASE o # p
      <4>1. /\ job[r] \in [at: {"receipts"}, todo: SUBSET Pair, task: Task \cup {None},
                           answer: Context]
            /\ job'[r] = [job[r] EXCEPT !.todo = Remaining(@, o)]
        BY <1>t, <3>1, JobKinds DEF Covers
      <4>2. job'[r].at = "receipts" /\ job'[r].todo = job[r].todo \ {o}
        BY <4>1 DEF Remaining
      <4>3. QED
        BY <3>4, <4>2 DEF Covers
    <3>5. QED
      BY <3>3, <3>4
  <2>2. CASE AnswerRecall(r)
    BY <2>2 DEF AnswerRecall, Covers
  <2>3. CASE AbandonJob(r)
    BY <2>3 DEF AbandonJob
  <2>4. QED
    BY <1>3, <2>1, <2>2, <2>3, JobsOf DEF Covers
<1>4. QED
  BY <1>1, <1>2, <1>3, WhoMoves

LEMMA SnapshotsWait ==
  ASSUME [ImpactsNext]_impactsVars, \A r \in Reporter : ~StoreSnapshot(r)
  PROVE  UNCHANGED snapshot
<1>1. CASE UNCHANGED impactsVars \/ (MemoryNext /\ UNCHANGED impactVars)
  BY <1>1 DEF impactsVars, impactVars, impactRows
<1>2. ASSUME NEW t \in Task, ClaimChanges(t) \/ Reopen(t) PROVE UNCHANGED snapshot
  BY <1>2 DEF ClaimChanges, Reopen
<1>3. ASSUME NEW r \in Reporter, ReporterStep(r) PROVE UNCHANGED snapshot
  BY <1>3 DEF ReporterStep, BeginContext, BeginRecall, CompleteTask, ListCapsules,
     RecordReceipt, AnswerRecall, BeginReconcile, CountImpacts, BeginUsage, BeginReport,
     FindImpact, CheckReport, UpdateImpact, UpsertUsage, ReadStale, WriteStale,
     MarkUnconfirmed, AbandonJob, impactRows
<1>4. QED
  BY <1>1, <1>2, <1>3 DEF ImpactsNext

LEMMA CountedStep ==
  ASSUME ImpactsInv, ImpactsInv', RowsGrow, CountedInv, [ImpactsNext]_impactsVars
  PROVE  CountedInv'
<1> SUFFICES ASSUME NEW p \in Pair, snapshot'[p[1]] # None, p[2] \in snapshot'[p[1]]
             PROVE  Recalled(p)' \/ cut' \/ \E r \in Reporter : Covers(r, p)'
  BY DEF CountedInv, Owed
<1>1. CASE p \in Owed
  <2>1. Recalled(p) => Recalled(p)'
    BY DEF RowsGrow
  <2>2. QED
    BY <1>1, <2>1, CoversKeeps, WhoMoves DEF CountedInv
<1>2. CASE p \notin Owed
  <2>1. ~(snapshot[p[1]] # None /\ p[2] \in snapshot[p[1]])
    BY <1>2 DEF Owed
  <2>2. PICK r \in Reporter : StoreSnapshot(r)
    BY <2>1, SnapshotsWait
  <2> DEFINE q == job[r]
             kept == Stored(q.task, q.recall)
  <2>3. /\ q.at = "store" /\ q \in Job /\ job \in [Reporter -> Job]
        /\ snapshot \in [Task -> Context]
        /\ snapshot' = [snapshot EXCEPT ![q.task] = kept]
        /\ job' = [job EXCEPT ![r] = [at |-> "receipts", todo |-> {q.task} \X q.recall,
                                      task |-> q.task, answer |-> kept]]
    BY <2>2 DEF StoreSnapshot, Turn, ImpactsInv, RowsTypeOK
  <2>4. q.task \in Task /\ p[1] \in Task /\ p = <<p[1], p[2]>>
    BY <2>3, JobFields, PairParts
  <2>5. p[1] = q.task
    BY <2>1, <2>3, <2>4
  <2>6. snapshot'[p[1]] = kept
    BY <2>3, <2>4, <2>5
  <2>7. snapshot[q.task] = None
    BY <2>1, <2>5, <2>6 DEF Stored
  <2>8. p[2] \in q.recall
    BY <2>6, <2>7 DEF Stored
  <2>9. job'[r].at = "receipts" /\ job'[r].todo = {q.task} \X q.recall
    BY <2>3
  <2>10. p \in {q.task} \X q.recall
    BY <2>4, <2>5, <2>8
  <2>11. QED
    BY <2>9, <2>10 DEF Covers
<1>3. QED
  BY <1>1, <1>2

\* Every capsule of a context has its receipt when no request is writing them, and
\* the metrics count it even after a request that died.
THEOREM ContextsAreCounted == ImpactsSpec => []EveryContextIsCounted
<1>1. ImpactsInit => CountedInv
  BY DEF ImpactsInit, CountedInv, Owed, Pair
<1>2. ImpactsInv /\ CountedInv /\ ImpactsInv' /\ [ImpactsNext]_impactsVars => CountedInv'
  BY CountedStep, ImpactsInvStep
<1>3. ImpactsInv /\ CountedInv => EveryContextIsCounted
  <2> SUFFICES ASSUME ImpactsInv, CountedInv PROVE EveryContextIsCounted
    OBVIOUS
  <2>1. ASSUME NEW r \in Reporter, job[r].at = "backfill", job[r].todo = {},
               NEW p \in job[r].listed
        PROVE  Recalled(p)
    BY <2>1 DEF ImpactsInv, JobsFit, JobFits, Recalled
  <2>2. QED
    BY <2>1 DEF CountedInv, Covers, EveryContextIsCounted
<1>4. QED
  BY <1>1, <1>2, <1>3, ImpactsInvHolds, PTL DEF ImpactsSpec

-----------------------------------------------------------------------------
\* Final outcomes are mirrored.

\* While no report has overtaken another, the one on its way to the usages carries
\* the outcome of the impact.
MirrorInv ==
  /\ FinalsAreMirrored
  /\ ~crossed => \A r \in Reporter :
       job[r].at = "usage" /\ Final(job[r].pair) => job[r].to = impact[job[r].pair].state

\* Nothing uncrosses reports, and only an arrival adds a mirroring request.
LEMMA MirroringGrows ==
  ASSUME ImpactsInv, [ImpactsNext]_impactsVars
  PROVE  /\ crossed => crossed'
         /\ \A r \in Reporter : job'[r].at = "usage" /\ ~UpdateImpact(r) => job'[r] = job[r]
         /\ UNCHANGED usage \/ \E r \in Reporter : UpsertUsage(r)
<1>t. job \in [Reporter -> Job]
  BY DEF ImpactsInv
<1> DEFINE Still(r) == job'[r].at = "usage" => job'[r] = job[r]
<1>1. CASE UNCHANGED impactsVars \/ (MemoryNext /\ UNCHANGED impactVars)
  BY <1>1 DEF impactsVars, impactVars, impactRows
<1>2. ASSUME NEW t \in Task, ClaimChanges(t) \/ Reopen(t)
      PROVE  UNCHANGED <<job, crossed, usage>>
  BY <1>2 DEF ClaimChanges, Reopen
<1>3. ASSUME NEW r \in Reporter, ReporterStep(r)
      PROVE  /\ crossed => crossed'
             /\ UpdateImpact(r) \/ Still(r)
             /\ UNCHANGED usage \/ UpsertUsage(r)
  <2>q. job[r] \in Job
    BY <1>t
  <2>f. Free.at = "free"
    BY DEF Free
  <2>1. ASSUME NEW t \in Task, BeginContext(r, t) \/ BeginRecall(r, t) \/ CompleteTask(r, t)
        PROVE  UNCHANGED <<crossed, usage>> /\ Still(r)
    BY <1>t, <2>1 DEF BeginContext, BeginRecall, CompleteTask, Turn, impactRows
  <2>2. CASE ListCapsules(r) \/ StoreSnapshot(r) \/ BeginReconcile(r)
    BY <1>t, <2>2 DEF ListCapsules, StoreSnapshot, BeginReconcile, Turn, impactRows
  <2>3. CASE AnswerRecall(r) \/ CountImpacts(r) \/ MarkUnconfirmed(r) \/ AbandonJob(r)
             \/ WriteStale(r)
    BY <1>t, <2>3, <2>f DEF AnswerRecall, CountImpacts, MarkUnconfirmed, AbandonJob,
       WriteStale, Finish, Turn, impactRows
  <2>4. CASE RecordReceipt(r)
    <3>1. PICK o \in job[r].todo :
            job' = [job EXCEPT ![r] = [job[r] EXCEPT !.todo = Remaining(@, o)]]
      BY <2>4 DEF RecordReceipt, Turn
    <3>2. job'[r] = [job[r] EXCEPT !.todo = Remaining(@, o)]
      BY <1>t, <3>1
    <3>3. job[r].at \in {"receipts", "backfill"} /\ UNCHANGED <<crossed, usage>>
      BY <2>4 DEF RecordReceipt
    <3>4. job'[r].at = job[r].at
      BY <2>q, <3>2, <3>3, JobKinds
    <3>5. QED
      BY <3>3, <3>4
  <2>5. CASE FindImpact(r)
    BY <1>t, <2>5 DEF FindImpact, Turn
  <2>6. CASE CheckReport(r)
    <3>1. job[r].at = "check" /\ UNCHANGED <<crossed, usage>>
      BY <2>6 DEF CheckReport, impactRows
    <3>2. job'[r] = [job[r] EXCEPT !.at = "update"] \/ job'[r] = Free
      BY <1>t, <2>6 DEF CheckReport, Turn
    <3>3. [job[r] EXCEPT !.at = "update"].at = "update"
      BY <2>q, <3>1, JobKinds
    <3>4. QED
      BY <2>f, <3>1, <3>2, <3>3
  <2>7. CASE UpdateImpact(r)
    <3>1. UNCHANGED usage
      BY <2>7 DEF UpdateImpact
    <3>2. crossed' = (crossed \/ Mirroring(job[r].pair) # {}) \/ crossed' = crossed
      BY <2>7 DEF UpdateImpact
    <3>3. crossed => crossed'
      BY <3>2, Zenon
    <3>4. QED
      BY <2>7, <3>1, <3>3, Zenon
  <2>8. CASE UpsertUsage(r)
    BY <1>t, <2>8, <2>f DEF UpsertUsage, AfterUsage, Turn
  <2>9. CASE ReadStale(r)
    BY <1>t, <2>9 DEF ReadStale, Turn, impactRows
  <2>10. ASSUME NEW p \in Task \X ReportAbout, NEW to \in ReportTo, NEW agent \in BOOLEAN,
               \/ BeginUsage(r, p, to, agent)
               \/ \E seen \in 1..MaxStamp : BeginReport(r, p, to, agent, seen)
        PROVE  UNCHANGED <<crossed, usage>> /\ Still(r)
    BY <1>t, <2>10 DEF BeginUsage, BeginReport, Turn, impactRows
  <2>11. QED
    BY <1>3, <2>1, <2>2, <2>3, <2>4, <2>5, <2>6, <2>7, <2>8, <2>9, <2>10 DEF ReporterStep
<1>4. QED
  BY <1>t, <1>1, <1>2, <1>3, OtherJobsWait DEF ImpactsNext

\* A request that has just landed carries what it wrote.
LEMMA LandedCarries ==
  ASSUME ImpactsInv, NEW r \in Reporter, UpdateImpact(r), job'[r].at = "usage"
  PROVE  job'[r].pair \in Pair /\ impact'[job'[r].pair].state = job'[r].to
<1> DEFINE q == job[r]
           mirror == [at |-> "usage", pair |-> q.pair, to |-> q.to]
<1>t. /\ job \in [Reporter -> Job] /\ impact \in [Pair -> {NoImpact} \cup Row]
      /\ q \in Job /\ JobFits(q, capsule, snapshot, impact)
  BY DEF ImpactsInv, RowsTypeOK, JobsFit
<1>1. q.at = "update"
  BY DEF UpdateImpact
<1>2. q.pair \in Pair /\ q.to \in ImpactState /\ impact[q.pair] \in Row
  BY <1>1, <1>t, JobFields, RecallTypes DEF JobFits, Recalled
<1>3. Free.at = "free"
  BY DEF Free
<1>4. /\ impact' = [impact EXCEPT ![q.pair] = Reported(@, q.to)]
      /\ job' = [job EXCEPT ![r] = IF Mirrored(q.to) THEN mirror ELSE Free]
  BY <1>3, <1>t DEF UpdateImpact, Finish, Turn
<1>5. job'[r] = mirror
  BY <1>3, <1>4, <1>t
<1>6. impact'[q.pair].state = q.to
  BY <1>2, <1>4, <1>t, ReportedRow
<1>7. QED
  BY <1>2, <1>5, <1>6

LEMMA CarriedStep ==
  ASSUME ImpactsInv, MirrorInv, [ImpactsNext]_impactsVars, ~crossed',
         NEW r \in Reporter, job'[r].at = "usage", impact'[job'[r].pair].state \in FinalStates
  PROVE  job'[r].to = impact'[job'[r].pair].state
<1>1. CASE UpdateImpact(r)
  BY <1>1, LandedCarries
<1>2. CASE ~UpdateImpact(r)
  <2> DEFINE p == job[r].pair
  <2>1. job'[r] = job[r] /\ ~crossed
    BY <1>2, MirroringGrows
  <2>2. p \in Pair /\ r \in Mirroring(p)
    BY <2>1, JobFields DEF ImpactsInv, Mirroring
  <2>3. ASSUME NEW s \in Reporter, Lands(s, p) PROVE FALSE
    <3>1. crossed' = (crossed \/ Mirroring(p) # {})
      BY <2>3 DEF Lands
    <3>2. Mirroring(p) # {}
      BY <2>2
    <3>3. QED
      BY <3>1, <3>2
  <2>4. impact'[p].state \in FinalStates
    BY <2>1
  <2>5. impact'[p].state = impact[p].state
    BY <2>2, <2>3, <2>4, ImpactChanges DEF FinalStates
  <2>6. QED
    BY <2>1, <2>4, <2>5 DEF MirrorInv, Final
<1>3. QED
  BY <1>1, <1>2

LEMMA MirroredStep ==
  ASSUME ImpactsInv, MirrorInv, [ImpactsNext]_impactsVars, ~crossed', ~cut',
         NEW p \in Pair, Final(p)'
  PROVE  usage'[p] = impact'[p].state \/ Mirroring(p)' # {}
<1>t. /\ job \in [Reporter -> Job] /\ usage \in [Pair -> {"none"} \cup Outcomes]
  BY DEF ImpactsInv, RowsTypeOK
<1>f. impact'[p].state \in FinalStates
  BY DEF Final
<1>c. ~crossed /\ ~cut
  BY MirroringGrows, WhoMoves
<1>1. ASSUME NEW r \in Reporter, Lands(r, p) PROVE Mirroring(p)' # {}
  <2>1. impact'[p].state = job[r].to /\ Mirrored(job[r].to)
    BY <1>1, <1>f DEF Lands, Mirrored
  <2>2. job'[r] = [at |-> "usage", pair |-> p, to |-> job[r].to]
    BY <1>1, <1>t, <2>1 DEF Lands, Turn
  <2>3. r \in Mirroring(p)'
    BY <2>2 DEF Mirroring
  <2>4. QED
    BY <2>3
<1>2. CASE ~ \E r \in Reporter : Lands(r, p)
  <2>1. impact'[p].state = impact[p].state /\ Final(p)
    BY <1>2, <1>f, ImpactChanges DEF FinalStates, Final
  <2>2. usage[p] = impact[p].state \/ Mirroring(p) # {}
    BY <1>c, <2>1 DEF MirrorInv, FinalsAreMirrored
  <2>3. ASSUME NEW r \in Reporter, UpsertUsage(r), job[r].pair = p
        PROVE  usage'[p] = impact'[p].state
    <3>1. job[r].at = "usage" /\ usage' = [usage EXCEPT ![p] = UsageOutcome(job[r].to)]
      BY <2>3 DEF UpsertUsage
    <3>2. job[r].to = impact[p].state
      BY <1>c, <2>1, <2>3, <3>1 DEF MirrorInv
    <3>3. UsageOutcome(job[r].to) = job[r].to
      BY <2>1, <3>2 DEF UsageOutcome, Final, FinalStates
    <3>4. QED
      BY <1>t, <2>1, <3>1, <3>2, <3>3
  <2>4. CASE \A r \in Reporter : UpsertUsage(r) => job[r].pair # p
    <3>1. usage'[p] = usage[p]
      <4>1. ASSUME NEW r \in Reporter, UpsertUsage(r) PROVE usage'[p] = usage[p]
        <5>1. usage' = [usage EXCEPT ![job[r].pair] = UsageOutcome(job[r].to)]
          BY <4>1 DEF UpsertUsage
        <5>2. QED
          BY <1>t, <2>4, <4>1, <5>1
      <4>2. QED
        BY <4>1, MirroringGrows
    <3>2. ASSUME NEW r \in Mirroring(p) PROVE r \in Mirroring(p)'
      <4>1. r \in Reporter /\ job[r].at = "usage" /\ job[r].pair = p
        BY DEF Mirroring
      <4>2. ~ReporterStep(r)
        <5>1. ReporterStep(r) => UpsertUsage(r) \/ AbandonJob(r)
          BY <4>1, JobsOf
        <5>2. ~AbandonJob(r)
          BY DEF AbandonJob
        <5>3. QED
          BY <2>4, <4>1, <5>1, <5>2
      <4>3. job'[r] = job[r]
        BY <1>t, <4>1, <4>2, WhoMoves, OtherJobsWait
      <4>4. QED
        BY <4>1, <4>3 DEF Mirroring
    <3>3. QED
      BY <2>1, <2>2, <3>1, <3>2
  <2>5. QED
    BY <2>3, <2>4
<1>3. QED
  BY <1>1, <1>2

\* A final outcome is mirrored in the usages, or on its way there.
THEOREM FinalsReachTheUsages == ImpactsSpec => []FinalsAreMirrored
<1>1. ImpactsInit => MirrorInv
  BY DEF ImpactsInit, MirrorInv, FinalsAreMirrored, Final, FinalStates, NoImpact, Free
<1>2. ImpactsInv /\ MirrorInv /\ [ImpactsNext]_impactsVars => MirrorInv'
  <2> SUFFICES ASSUME ImpactsInv, MirrorInv, [ImpactsNext]_impactsVars PROVE MirrorInv'
    OBVIOUS
  <2>1. FinalsAreMirrored'
    BY MirroredStep DEF FinalsAreMirrored
  <2>2. ASSUME ~crossed', NEW r \in Reporter, job'[r].at = "usage",
               impact'[job'[r].pair].state \in FinalStates
        PROVE  job'[r].to = impact'[job'[r].pair].state
    BY <2>2, CarriedStep
  <2>3. QED
    BY <2>1, <2>2 DEF MirrorInv, Final
<1>3. MirrorInv => FinalsAreMirrored
  BY DEF MirrorInv
<1>4. QED
  BY <1>1, <1>2, <1>3, ImpactsInvHolds, PTL DEF ImpactsSpec

-----------------------------------------------------------------------------
\* A memory reported stale is retired.

LEMMA CapsulesRest ==
  ASSUME [ImpactsNext]_impactsVars, ~ \E r \in Reporter : WriteStale(r)
  PROVE  [MemoryNext]_memoryVars \/ UNCHANGED capsule
<1>1. CASE UNCHANGED impactsVars
  BY <1>1 DEF impactsVars
<1>2. ASSUME NEW t \in Task, ClaimChanges(t) \/ Reopen(t) PROVE UNCHANGED capsule
  BY <1>2 DEF ClaimChanges, Reopen, memoryVars
<1>3. ASSUME NEW r \in Reporter, ReporterStep(r) PROVE UNCHANGED capsule
  BY <1>3 DEF ReporterStep, BeginContext, BeginRecall, CompleteTask, ListCapsules,
     StoreSnapshot, RecordReceipt, AnswerRecall, BeginReconcile, CountImpacts, BeginUsage,
     BeginReport, FindImpact, CheckReport, UpdateImpact, UpsertUsage, ReadStale,
     MarkUnconfirmed, AbandonJob, memoryVars, rows
<1>4. QED
  BY <1>1, <1>2, <1>3 DEF ImpactsNext

\* No step brings a retired capsule back that does not mark it revived.
LEMMA RetiredStays ==
  ASSUME ImpactsInv, [ImpactsNext]_impactsVars,
         NEW k \in Capsule, Kept(k), Retired(capsule[k])
  PROVE  Retired(capsule'[k])
<1>t. /\ MemoryInv /\ capsule \in [Capsule -> {NoCapsule} \cup CapsuleRow]
      /\ \A c \in Caller : req[c] \in Stage /\ Fits(req[c], capsule, note, link)
  BY DEF ImpactsInv, MemoryInv, MemoryTypeOK, StagesFit
<1>1. ASSUME NEW r \in Reporter, WriteStale(r) PROVE Retired(capsule'[k])
  <2> DEFINE q == job[r]
  <2>1. q.at = "write" /\ capsule' = [capsule EXCEPT ![q.capsule] = Written(q)]
    BY <1>1 DEF WriteStale
  <2>2. Written(q).status = "stale"
    BY <2>1, StaleRow
  <2>3. CASE k = q.capsule
    BY <1>t, <2>1, <2>2, <2>3 DEF Retired
  <2>4. CASE k # q.capsule
    BY <1>t, <2>1, <2>4
  <2>5. QED
    BY <2>3, <2>4
<1>2. ASSUME NEW c \in Caller, WriteCapsule(c) PROVE Retired(capsule'[k])
  <2> DEFINE q == req[c]
  <2>1. /\ q.at = "write" /\ q \in Stage /\ Fits(q, capsule, note, link)
        /\ \/ UNCHANGED capsule
           \/ CopyFresh(q) /\ capsule' = [capsule EXCEPT ![q.capsule] = Written(q)]
    BY <1>t, <1>2 DEF WriteCapsule
  <2>2. CASE UNCHANGED capsule
    BY <2>2
  <2>3. CASE CopyFresh(q) /\ capsule' = [capsule EXCEPT ![q.capsule] = Written(q)]
    <3>1. CASE k = q.capsule
      BY <1>t, <2>1, <2>3, <3>1, UpdatesRetire
    <3>2. CASE k # q.capsule
      BY <1>t, <2>3, <3>2
    <3>3. QED
      BY <3>1, <3>2
  <2>4. QED
    BY <2>1, <2>2, <2>3
<1>3. CASE /\ ~ \E r \in Reporter : WriteStale(r)
           /\ ~ \E c \in Caller : WriteCapsule(c)
  BY <1>3, <1>t, CapsulesRest, CapsulesWait
<1>4. QED
  BY <1>1, <1>2, <1>3

\* A request that is about to retire a capsule goes on, retires it, or dies.
Retires(r, k) ==
  \/ job[r].at = "usage" /\ job[r].to = "stale" /\ job[r].pair[2] = k
  \/ job[r].at \in {"stale", "write"} /\ job[r].capsule = k

LEMMA RetiresKeeps ==
  ASSUME ImpactsInv, [ImpactsNext]_impactsVars, ~cut', NEW k \in Capsule, NEW r \in Reporter,
         Retires(r, k)
  PROVE  Retires(r, k)' \/ Retired(capsule'[k])
<1>t. /\ job \in [Reporter -> Job]
      /\ capsule \in [Capsule -> {NoCapsule} \cup CapsuleRow]
  BY DEF ImpactsInv, MemoryInv, MemoryTypeOK
<1>1. CASE ~ReporterStep(r)
  <2>1. job'[r] = job[r]
    BY <1>t, <1>1, WhoMoves, OtherJobsWait
  <2>2. QED
    BY <2>1 DEF Retires
<1>2. CASE ReporterStep(r)
  <2>a. ~AbandonJob(r)
    BY DEF AbandonJob
  <2>1. CASE job[r].at = "usage"
    <3>1. UpsertUsage(r) /\ job[r].to = "stale" /\ job[r].pair[2] = k
      BY <1>2, <2>a, <2>1, JobsOf DEF Retires
    <3>2. job'[r] = [at |-> "stale", capsule |-> k]
      BY <1>t, <3>1 DEF UpsertUsage, AfterUsage, Turn
    <3>3. QED
      BY <3>2 DEF Retires
  <2>2. CASE job[r].at = "stale"
    <3>1. ReadStale(r) /\ job[r].capsule = k
      BY <1>2, <2>a, <2>2, JobsOf DEF Retires
    <3>2. job'[r] = [at |-> "write", capsule |-> k, to |-> "stale", copy |-> capsule[k]]
      BY <1>t, <3>1 DEF ReadStale, Turn
    <3>3. QED
      BY <3>2 DEF Retires
  <2>3. CASE job[r].at = "write"
    <3>1. WriteStale(r) /\ job[r].capsule = k
      BY <1>2, <2>a, <2>3, JobsOf DEF Retires
    <3>2. capsule' = [capsule EXCEPT ![k] = Written(job[r])]
      BY <3>1 DEF WriteStale
    <3>3. Written(job[r]).status = "stale"
      BY <2>3, StaleRow
    <3>4. QED
      BY <1>t, <3>2, <3>3 DEF Retired
  <2>4. QED
    BY <2>1, <2>2, <2>3 DEF Retires
<1>3. QED
  BY <1>1, <1>2

LEMMA StaleStep ==
  ASSUME ImpactsInv, StaleIsRetired, [ImpactsNext]_impactsVars, ~cut',
         NEW p \in Pair, impact'[p].state = "stale"
  PROVE  Retired(capsule'[p[2]]) \/ \E r \in Reporter : Retires(r, p[2])'
<1>c. ~cut /\ p[2] \in Capsule
  BY WhoMoves, PairParts
<1>1. ASSUME NEW r \in Reporter, Lands(r, p) PROVE Retires(r, p[2])'
  <2>1. job[r].to = "stale" /\ Mirrored(job[r].to)
    BY <1>1 DEF Lands, Mirrored, FinalStates
  <2>2. job'[r] = [at |-> "usage", pair |-> p, to |-> "stale"]
    BY <1>1, <2>1 DEF Lands, Turn, ImpactsInv
  <2>3. QED
    BY <2>2 DEF Retires
<1>2. CASE ~ \E r \in Reporter : Lands(r, p)
  <2>1. impact[p].state = "stale"
    BY <1>2, ImpactChanges
  <2>2. Kept(p[2])
    BY <2>1 DEF ImpactsInv, OnlyKept, Recalled, NoImpact
  <2>3. Retired(capsule[p[2]]) \/ \E r \in Reporter : Retires(r, p[2])
    BY <1>c, <2>1 DEF StaleIsRetired, Retiring, Retires, Retired
  <2>4. QED
    BY <1>c, <2>2, <2>3, RetiredStays, RetiresKeeps
<1>3. QED
  BY <1>1, <1>2

\* A memory reported stale is offered no longer, however late the capsule is written,
\* unless it is revived: an edit asked for "active", or one that names neither a status
\* nor a stamp carried it back.
THEOREM StaleMemoriesRetire == ImpactsSpec => []StaleIsRetired
<1>1. ImpactsInit => StaleIsRetired
  BY DEF ImpactsInit, StaleIsRetired, NoImpact
<1>2. ImpactsInv /\ StaleIsRetired /\ [ImpactsNext]_impactsVars => StaleIsRetired'
  <2> SUFFICES ASSUME ImpactsInv, StaleIsRetired, [ImpactsNext]_impactsVars, ~cut',
                      NEW p \in Pair, impact'[p].state = "stale"
               PROVE  \/ capsule'[p[2]].status # "active" \/ capsule'[p[2]].revived
                      \/ Retiring(p[2])'
    BY DEF StaleIsRetired
  <2>1. Retired(capsule'[p[2]]) \/ \E r \in Reporter : Retires(r, p[2])'
    BY StaleStep
  <2>2. QED
    BY <2>1 DEF Retiring, Retires, Retired
<1>3. QED
  BY <1>1, <1>2, ImpactsInvHolds, PTL DEF ImpactsSpec

-----------------------------------------------------------------------------
\* The memory beneath.

\* A step that is none of Memory's leaves the notes, the relations, the history and the
\* requests for them alone; the capsules change by a stale report only.
LEMMA ReportsLeave ==
  ASSUME [ImpactsNext]_impactsVars
  PROVE  \/ [MemoryNext]_memoryVars
         \/ /\ UNCHANGED <<note, link, event, req, raced>>
            /\ UNCHANGED capsule \/ \E r \in Reporter : WriteStale(r)
<1>1. CASE UNCHANGED impactsVars
  BY <1>1 DEF impactsVars
<1>2. ASSUME NEW t \in Task, ClaimChanges(t) \/ Reopen(t) PROVE UNCHANGED memoryVars
  BY <1>2 DEF ClaimChanges, Reopen
<1>3. ASSUME NEW r \in Reporter, ReporterStep(r)
      PROVE  /\ UNCHANGED <<note, link, event, req, raced>>
             /\ UNCHANGED capsule \/ WriteStale(r)
  BY <1>3 DEF ReporterStep, BeginContext, BeginRecall, CompleteTask, ListCapsules,
     StoreSnapshot, RecordReceipt, AnswerRecall, BeginReconcile, CountImpacts, BeginUsage,
     BeginReport, FindImpact, CheckReport, UpdateImpact, UpsertUsage, ReadStale, WriteStale,
     MarkUnconfirmed, AbandonJob, memoryVars, rows
<1>4. QED
  BY <1>1, <1>2, <1>3 DEF ImpactsNext

\* No capsule is made by a report, and none loses the note it comes from.
LEMMA ReportsMakeNone ==
  ASSUME ImpactsInv, UNCHANGED capsule \/ \E r \in Reporter : WriteStale(r)
  PROVE  \A k \in Capsule : /\ Kept(k)' <=> Kept(k)
                            /\ Kept(k) => capsule'[k].from = capsule[k].from
<1>1. CASE UNCHANGED capsule
  BY <1>1 DEF Kept
<1>2. ASSUME NEW r \in Reporter, WriteStale(r)
      PROVE  \A k \in Capsule : /\ Kept(k)' <=> Kept(k)
                                /\ Kept(k) => capsule'[k].from = capsule[k].from
  <2> DEFINE q == job[r]
  <2>1. q.at = "write" /\ capsule' = [capsule EXCEPT ![q.capsule] = Written(q)]
    BY <1>2 DEF WriteStale
  <2>2. capsule \in [Capsule -> {NoCapsule} \cup CapsuleRow]
    BY DEF ImpactsInv, MemoryInv, MemoryTypeOK
  <2>3. /\ q.capsule \in Capsule /\ Kept(q.capsule)
        /\ Written(q) # NoCapsule /\ Written(q).from = capsule[q.capsule].from
    BY <2>1, StaleRow, CapsuleFields
  <2>4. /\ capsule'[q.capsule] = Written(q)
        /\ \A k \in Capsule \ {q.capsule} : capsule'[k] = capsule[k]
    BY <2>1, <2>2, <2>3
  <2>5. QED
    BY <2>3, <2>4 DEF Kept
<1>3. QED
  BY <1>1, <1>2

\* What Memory's proofs rest on, of the notes, the history and the relations.
KeptInv == NotesOwn /\ HistoryInv /\ RelationsInv /\ LinksInv

LEMMA KeptInvStep ==
  ASSUME ImpactsInv, KeptInv, [ImpactsNext]_impactsVars
  PROVE  KeptInv'
<1>m. MemoryInv
  BY DEF ImpactsInv
<1>1. CASE [MemoryNext]_memoryVars
  BY <1>m, <1>1, NotesOwnStep, HistoryStep, RelationsInvStep, LinksInvStep DEF KeptInv
<1>2. CASE /\ UNCHANGED <<note, link, event, req, raced>>
           /\ UNCHANGED capsule \/ \E r \in Reporter : WriteStale(r)
  <2>c. cut => cut'
    BY WhoMoves
  <2>k. \A k \in Capsule : /\ Kept(k)' <=> Kept(k)
                           /\ Kept(k) => capsule'[k].from = capsule[k].from
    BY <1>2, ReportsMakeNone
  <2>1. NotesOwn'
    BY <1>2, <2>k DEF KeptInv, NotesOwn, Promoted
  <2>2. HistoryInv'
    BY <1>2, <2>c DEF KeptInv, HistoryInv, Resolved
  <2>3. RelationsInv'
    <3>1. Relations' = Relations
      BY <1>2 DEF Relations, Made
    <3>2. QED
      BY <1>m, <1>2, <3>1, RelationsShrink DEF KeptInv
  <2>4. LinksInv'
    <3>1. \A i \in Link : Made(i)' => Made(i) /\ link'[i] = link[i]
      BY <1>2 DEF Made
    <3>2. \A k \in Capsule : Kept(k) =>
            Kept(k)' /\ (Retired(capsule[k]) => Retired(capsule'[k]))
      BY <2>k, RetiredStays
    <3>3. \A i \in Link, c \in Caller : WorksOn(req[c], i) => WorksOn(req'[c], i)
      BY <1>2
    <3>4. QED
      BY <1>m, <2>c, <3>1, <3>2, <3>3, LinksKeep DEF KeptInv
  <2>5. QED
    BY <2>1, <2>2, <2>3, <2>4 DEF KeptInv
<1>3. QED
  BY <1>1, <1>2, ReportsLeave

\* Recalls, reports and the completion of tasks leave what Memory promises as it is,
\* although a stale report writes a whole row of a capsule without naming the version it
\* has read: notes are resolved once, a note has one capsule, the relations keep their
\* shape, a superseded capsule comes back by an edit that revives it only, and the
\* history stays true.
THEOREM ReportsKeepTheMemory ==
  ImpactsSpec => /\ ResolvedNotesStand
                 /\ []OneCapsulePerNote /\ []HistoryTellsTheOutcome
                 /\ []SupersedesAcyclic /\ []ConflictsOneWay /\ []SupersededIsRetired
<1>1. ImpactsInit => KeptInv
  <2>1. SUFFICES ASSUME MemoryInit PROVE KeptInv
    BY DEF ImpactsInit
  <2>2. NotesOwn
    BY <2>1 DEF MemoryInit, NotesOwn, Kept, Promoted, Unborn
  <2>3. HistoryInv
    BY <2>1 DEF MemoryInit, HistoryInv, Unborn, Resolved
  <2>4. RelationsInv
    BY <2>1, RelationsInvInit
  <2>5. LinksInv
    BY <2>1 DEF MemoryInit, LinksInv, Made
  <2>6. QED
    BY <2>2, <2>3, <2>4, <2>5 DEF KeptInv
<1>2. ImpactsInv /\ KeptInv /\ [ImpactsNext]_impactsVars => KeptInv'
  BY KeptInvStep
<1>3. ImpactsInv /\ [ImpactsNext]_impactsVars =>
        [\A n \in Note : Resolved(n) => note'[n] = note[n]]_memoryVars
  <2> SUFFICES ASSUME ImpactsInv, [ImpactsNext]_impactsVars, NEW n \in Note, Resolved(n)
               PROVE  note'[n] = note[n]
    OBVIOUS
  <2>1. note[n] # Unborn /\ ~Pending(n)
    BY DEF Resolved, Unborn, Pending
  <2>2. CASE [MemoryNext]_memoryVars
    BY <2>1, <2>2, MemoryInvStep DEF ImpactsInv, RowsAge
  <2>3. QED
    BY <2>2, ReportsLeave
<1>4. ImpactsInv /\ KeptInv =>
        /\ OneCapsulePerNote /\ HistoryTellsTheOutcome
        /\ SupersedesAcyclic /\ ConflictsOneWay /\ SupersededIsRetired
  <2> SUFFICES ASSUME MemoryInv, KeptInv
               PROVE  /\ OneCapsulePerNote /\ HistoryTellsTheOutcome
                      /\ SupersedesAcyclic /\ ConflictsOneWay /\ SupersededIsRetired
    BY DEF ImpactsInv
  <2>1. OneCapsulePerNote
    BY DEF KeptInv, NotesOwn, OneCapsulePerNote, Promoted
  <2>2. HistoryTellsTheOutcome
    BY DEF KeptInv, HistoryInv, HistoryTellsTheOutcome, Writing
  <2>3. SupersedesAcyclic /\ ConflictsOneWay
    BY DEF KeptInv, RelationsInv, SupersedesAcyclic, ConflictsOneWay, Acyclic, OneWay
  <2>4. SupersededIsRetired
    BY LinksRetire DEF KeptInv
  <2>5. QED
    BY <2>1, <2>2, <2>3, <2>4
<1>5. QED
  BY <1>1, <1>2, <1>3, <1>4, ImpactsInvHolds, PTL DEF ImpactsSpec, ResolvedNotesStand
=============================================================================
