--------------------------- MODULE AgentRunProofs ---------------------------
(***************************************************************************)
(* What AgentRun guarantees for any tasks, agents, run ids, templates and  *)
(* any number of requests in flight.                                       *)
(***************************************************************************)
EXTENDS AgentRun, TLAPS

\* The requests that carry a row of a run, and that row.
Carries(q) == q.at \in {"owner", "graph", "write"}
Carried(q) == IF q.at = "owner" THEN q.copy ELSE q.new

\* A carried row is stamped exactly when it is finished, and it is a row of
\* the run's own task, however old it is.
Fits(c) ==
  LET r == Carried(call[c]) IN
  /\ r.finished <=> r.status \in Terminal
  /\ Exists(call[c].id) => r.task = run[call[c].id].task
CarriedRowsFit == \A c \in Caller : Carries(call[c]) => Fits(c)

\* An id not handed out yet has no row, and no request knows it.
FreshIdsUnknown ==
  \A r \in fresh : /\ ~Exists(r)
                   /\ \A c \in Caller : Carries(call[c]) => call[c].id # r

RunInv ==
  /\ RunTypeOK
  /\ OneActiveRun
  /\ FinishedIffTerminal
  /\ RunsGoWithTheirTask
  /\ CarriedRowsFit
  /\ FreshIdsUnknown

-----------------------------------------------------------------------------

\* A row of a run is never the mark of an absent one.
LEMMA RowsExist == \A x \in RunRow : x.status # "none" /\ x # NoRun
BY DEF RunRow, NoRun, Active, Terminal

\* The steps of a request, seen from the tables.
LEMMA OtherCallsKept ==
  ASSUME RunTypeOK, NEW c \in Caller, CallStep(c)
  PROVE  /\ \A d \in Caller \ {c} : call'[d] = call[d]
         /\ holder' = holder /\ gone' = gone
BY DEF CallStep, BeginStart, LookForRun, InsertRun, BeginOwned, CheckOwner, ReadGraph,
       WriteRun, Abandon, Become, RunTypeOK

\* The run table after a step of a request: unchanged, one run inserted where
\* the schema admits it, or one existing run overwritten.
LEMMA CallTables ==
  ASSUME RunTypeOK, NEW c \in Caller, CallStep(c)
  PROVE  \/ run' = run /\ fresh' = fresh
         \/ /\ call[c].at = "insert" /\ call'[c] = Idle
            /\ ~Refused(call[c])
            /\ \E r \in fresh : /\ fresh' = fresh \ {r}
                                /\ run' = [run EXCEPT ![r] = NewRun(call[c])]
         \/ /\ call[c].at = "write" /\ call'[c] = Idle
            /\ fresh' = fresh
            /\ Exists(call[c].id) /\ ~Clashes(call[c])
            /\ run' = [run EXCEPT ![call[c].id] = call[c].new]
BY DEF CallStep, BeginStart, LookForRun, InsertRun, BeginOwned, CheckOwner, ReadGraph,
       WriteRun, Abandon, Become, RunTypeOK, Written

\* A request that looks for a run or inserts one has the fields of a start.
LEMMA StartedFields ==
  ASSUME RunTypeOK, NEW c \in Caller, call[c].at \in {"look", "insert"}
  PROVE  call[c] \in Started
BY DEF RunTypeOK, Call, Idle, Started, Owned, Updating

\* A request about to check the claim carries the copy it read.
LEMMA OwnedFields ==
  ASSUME RunTypeOK, NEW c \in Caller, call[c].at = "owner"
  PROVE  call[c] \in Owned
BY DEF RunTypeOK, Call, Idle, Started, Owned, Updating

\* A request about to write carries the row it will write.
LEMMA UpdatingFields ==
  ASSUME RunTypeOK, NEW c \in Caller, call[c].at \in {"graph", "write"}
  PROVE  call[c] \in Updating
BY DEF RunTypeOK, Call, Idle, Started, Owned, Updating

\* The row a start inserts is a running, unstamped run of its task.
LEMMA NewRunIsARow ==
  ASSUME RunAssumption, NEW q \in Started
  PROVE  /\ NewRun(q) \in RunRow
         /\ NewRun(q).status = "running" /\ NewRun(q).finished = FALSE
         /\ NewRun(q).task = q.task
BY DEF RunAssumption, NewRun, Started, RunRow, Active

\* What is not absent is a row.
LEMMA ExistingRowsAreRows ==
  ASSUME RunTypeOK, NEW r \in Run, Exists(r)
  PROVE  run[r] \in RunRow
BY DEF RunTypeOK, Exists, NoRun

-----------------------------------------------------------------------------

\* Every step keeps rows and requests well typed.
LEMMA RunTypeStep == RunTypeOK /\ [RunNext]_vars => RunTypeOK'
<1> SUFFICES ASSUME RunTypeOK, [RunNext]_vars PROVE RunTypeOK'
  OBVIOUS
<1>1. CASE UNCHANGED vars
  BY <1>1 DEF vars, runVars, RunTypeOK
<1>2. ASSUME NEW t \in Task, NEW a \in Agent, Claim(t, a) PROVE RunTypeOK'
  BY <1>2 DEF Claim, Acquire, runVars, RunTypeOK
<1>3. ASSUME NEW T \in SUBSET Task, LoseClaims(T) PROVE RunTypeOK'
  BY <1>3 DEF LoseClaims, Lapse, runVars, RunTypeOK
<1>4. ASSUME NEW T \in SUBSET Task, DeleteTasks(T) PROVE RunTypeOK'
  BY <1>4 DEF DeleteTasks, Lapse, RunTypeOK
<1>5. ASSUME NEW c \in Caller, CallStep(c) PROVE RunTypeOK'
  <2>1. run' \in [Run -> {NoRun} \cup RunRow] /\ fresh' \subseteq Run
    <3>1. CASE run' = run /\ fresh' = fresh
      BY <3>1 DEF RunTypeOK
    <3>2. CASE call[c].at = "insert" /\ \E r \in fresh :
                 fresh' = fresh \ {r} /\ run' = [run EXCEPT ![r] = NewRun(call[c])]
      <4>1. NewRun(call[c]) \in RunRow
        BY <3>2, StartedFields, NewRunIsARow, RunAssumption
      <4>2. QED
        BY <3>2, <4>1 DEF RunTypeOK
    <3>3. CASE /\ call[c].at = "write" /\ fresh' = fresh
               /\ run' = [run EXCEPT ![call[c].id] = call[c].new]
      <4>1. call[c].id \in Run /\ call[c].new \in RunRow
        BY <3>3, UpdatingFields DEF Updating
      <4>2. QED
        BY <3>3, <4>1 DEF RunTypeOK
    <3>4. QED
      BY <1>5, <3>1, <3>2, <3>3, CallTables
  <2>2. call'[c] \in Call
    <3>1. ASSUME NEW t \in Task, NEW a \in Agent, NEW asked \in Template \cup {AnyTemplate},
                 BeginStart(c, t, a, asked)
          PROVE call'[c] \in Call
      BY <3>1 DEF BeginStart, Become, RunTypeOK, Call, Started
    <3>2. CASE LookForRun(c)
      <4>1. call[c] \in Started
        BY <3>2, StartedFields DEF LookForRun
      <4>2. ASSUME NEW r \in ActiveRuns(call[c].task)
            PROVE  [at |-> "write", id |-> r, new |-> [run[r] EXCEPT !.status = "running"]]
                     \in Updating
        <5>1. r \in Run /\ run[r] \in RunRow
          BY ExistingRowsAreRows DEF ActiveRuns
        <5>2. [run[r] EXCEPT !.status = "running"] \in RunRow
          BY <5>1 DEF RunRow, Active
        <5>3. QED
          BY <5>1, <5>2 DEF Updating
      <4>3. [call[c] EXCEPT !.at = "insert"] \in Started
        BY <4>1 DEF Started
      <4>4. QED
        BY <3>2, <4>2, <4>3 DEF LookForRun, Become, RunTypeOK, Call
    <3>3. CASE InsertRun(c) \/ WriteRun(c) \/ Abandon(c)
      BY <3>3 DEF InsertRun, WriteRun, Abandon, Become, RunTypeOK, Call
    <3>4. ASSUME NEW op \in Active \cup Terminal, NEW a \in Agent, NEW r \in Run,
                 BeginOwned(c, op, a, r)
          PROVE call'[c] \in Call
      BY <3>4, ExistingRowsAreRows DEF BeginOwned, Become, RunTypeOK, Call, Owned
    <3>5. CASE CheckOwner(c)
      <4>1. call[c] \in Owned
        BY <3>5, OwnedFields DEF CheckOwner
      <4>2. NewRow(call[c]) \in RunRow
        BY <4>1 DEF NewRow, Owned, RunRow
      <4>3. \A at \in {"graph", "write"} :
              [at |-> at, id |-> call[c].id, new |-> NewRow(call[c])] \in Updating
        BY <4>1, <4>2 DEF Updating, Owned
      <4>4. QED
        BY <3>5, <4>3 DEF CheckOwner, Become, RunTypeOK, Call
    <3>6. CASE ReadGraph(c)
      <4>1. [call[c] EXCEPT !.at = "write"] \in Updating
        BY <3>6, UpdatingFields DEF ReadGraph, Updating
      <4>2. QED
        BY <3>6, <4>1 DEF ReadGraph, Become, RunTypeOK, Call
    <3>7. QED
      BY <1>5, <3>1, <3>2, <3>3, <3>4, <3>5, <3>6 DEF CallStep
  <2>3. call' \in [Caller -> Call]
    <3>1. \E v : call' = [call EXCEPT ![c] = v]
      BY <1>5 DEF CallStep, BeginStart, LookForRun, InsertRun, BeginOwned, CheckOwner,
                  ReadGraph, WriteRun, Abandon, Become
    <3>2. QED
      BY <2>2, <3>1 DEF RunTypeOK
  <2>4. QED
    BY <1>5, <2>1, <2>3, OtherCallsKept DEF RunTypeOK
<1>6. QED
  BY <1>1, <1>2, <1>3, <1>4, <1>5 DEF RunNext

-----------------------------------------------------------------------------
\* The run table.  A step removes rows with their tasks, inserts one row,
\* overwrites one, or leaves the table alone.
LEMMA TableSteps ==
  ASSUME RunInv, [RunNext]_vars
  PROVE  \/ /\ run' = run /\ gone' = gone
         \/ \E T \in SUBSET Task :
              /\ gone' = gone \cup T
              /\ run' = [r \in Run |-> IF Exists(r) /\ run[r].task \in T
                                       THEN NoRun ELSE run[r]]
         \/ \E r \in Run, x \in RunRow :
              /\ run' = [run EXCEPT ![r] = x] /\ gone' = gone
              /\ x.status \in Active => ActiveRuns(x.task) \ {r} = {}
              /\ x.finished <=> x.status \in Terminal
              /\ x.task \notin gone
<1> USE DEF RunInv
<1>1. CASE UNCHANGED vars
  BY <1>1 DEF vars, runVars
<1>2. ASSUME NEW t \in Task, NEW a \in Agent, Claim(t, a) PROVE run' = run /\ gone' = gone
  BY <1>2 DEF Claim, runVars
<1>3. ASSUME NEW T \in SUBSET Task, LoseClaims(T) PROVE run' = run /\ gone' = gone
  BY <1>3 DEF LoseClaims, runVars
<1>4. ASSUME NEW T \in SUBSET Task, DeleteTasks(T)
      PROVE  /\ gone' = gone \cup T
             /\ run' = [r \in Run |-> IF Exists(r) /\ run[r].task \in T
                                      THEN NoRun ELSE run[r]]
  BY <1>4 DEF DeleteTasks
<1>5. ASSUME NEW c \in Caller, CallStep(c)
      PROVE  \/ run' = run /\ gone' = gone
             \/ \E r \in Run, x \in RunRow :
                  /\ run' = [run EXCEPT ![r] = x] /\ gone' = gone
                  /\ x.status \in Active => ActiveRuns(x.task) \ {r} = {}
                  /\ x.finished <=> x.status \in Terminal
                  /\ x.task \notin gone
  <2>1. gone' = gone
    BY <1>5, OtherCallsKept
  <2>2. CASE /\ call[c].at = "insert" /\ ~Refused(call[c])
             /\ \E r \in fresh : run' = [run EXCEPT ![r] = NewRun(call[c])]
    <3>1. PICK r \in fresh : run' = [run EXCEPT ![r] = NewRun(call[c])]
      BY <2>2
    <3>2. /\ NewRun(call[c]) \in RunRow
          /\ NewRun(call[c]).status = "running" /\ NewRun(call[c]).finished = FALSE
          /\ NewRun(call[c]).task = call[c].task
      BY <2>2, StartedFields, NewRunIsARow, RunAssumption
    <3>3. ActiveRuns(call[c].task) = {} /\ call[c].task \notin gone
      BY <2>2 DEF Refused
    <3>4. r \in Run
      BY DEF RunTypeOK
    <3>5. QED
      BY <2>1, <3>1, <3>2, <3>3, <3>4 DEF Terminal
  <2>3. CASE /\ call[c].at = "write" /\ Exists(call[c].id) /\ ~Clashes(call[c])
             /\ run' = [run EXCEPT ![call[c].id] = call[c].new]
    <3>1. call[c].id \in Run /\ call[c].new \in RunRow
      BY <2>3, UpdatingFields DEF Updating
    <3>2. /\ call[c].new.finished <=> call[c].new.status \in Terminal
          /\ call[c].new.task = run[call[c].id].task
      BY <2>3 DEF CarriedRowsFit, Fits, Carries, Carried
    <3>3. call[c].new.task \notin gone
      BY <2>3, <3>1, <3>2 DEF RunsGoWithTheirTask
    <3>4. call[c].new.status \in Active => ActiveRuns(call[c].new.task) \ {call[c].id} = {}
      BY <2>3 DEF Clashes
    <3>5. QED
      BY <2>1, <2>3, <3>1, <3>2, <3>3, <3>4
  <2>4. QED
    BY <1>5, <2>1, <2>2, <2>3, CallTables
<1>6. QED
  BY <1>1, <1>2, <1>3, <1>4, <1>5 DEF RunNext

\* Whatever requests found before, the table has one active run per task,
\* stamps exactly its finished runs, and keeps no run of a deleted task.
LEMMA TableInvStep ==
  ASSUME RunInv, [RunNext]_vars
  PROVE  OneActiveRun' /\ FinishedIffTerminal' /\ RunsGoWithTheirTask'
<1> USE DEF RunInv
<1>1. CASE run' = run /\ gone' = gone
  BY <1>1 DEF OneActiveRun, FinishedIffTerminal, RunsGoWithTheirTask, Exists
<1>2. ASSUME NEW T \in SUBSET Task, gone' = gone \cup T,
             run' = [r \in Run |-> IF Exists(r) /\ run[r].task \in T THEN NoRun ELSE run[r]]
      PROVE  OneActiveRun' /\ FinishedIffTerminal' /\ RunsGoWithTheirTask'
  <2>1. \A r \in Run : Exists(r)' => Exists(r) /\ run'[r] = run[r] /\ run[r].task \notin T
    BY <1>2 DEF Exists, NoRun
  <2>2. QED
    BY <1>2, <2>1 DEF OneActiveRun, FinishedIffTerminal, RunsGoWithTheirTask
<1>3. ASSUME NEW r \in Run, NEW x \in RunRow,
             run' = [run EXCEPT ![r] = x], gone' = gone,
             x.status \in Active => ActiveRuns(x.task) \ {r} = {},
             x.finished <=> x.status \in Terminal,
             x.task \notin gone
      PROVE  OneActiveRun' /\ FinishedIffTerminal' /\ RunsGoWithTheirTask'
  <2>1. run'[r] = x /\ \A s \in Run \ {r} : run'[s] = run[s]
    BY <1>3 DEF RunTypeOK
  <2>2. \A s \in Run \ {r} : Exists(s)' => Exists(s)
    BY <2>1 DEF Exists
  <2>3. ASSUME x.status \in Active
        PROVE  \A s \in Run \ {r} : ~(/\ Exists(s)' /\ run'[s].task = x.task
                                      /\ run'[s].status \in Active)
    BY <1>3, <2>1, <2>2, <2>3 DEF ActiveRuns
  <2>4. OneActiveRun'
    BY <2>1, <2>2, <2>3 DEF OneActiveRun
  <2>5. QED
    BY <1>3, <2>1, <2>2, <2>4 DEF FinishedIffTerminal, RunsGoWithTheirTask
<1>4. QED
  BY <1>1, <1>2, <1>3, TableSteps

-----------------------------------------------------------------------------
\* The requests.

\* Where the row a request carries comes from: an active run it found, the run
\* it asked for, or the row it carried before.
LEMMA CarriedRowsComeFrom ==
  ASSUME RunTypeOK, NEW c \in Caller, CallStep(c), Carries(call'[c])
  PROVE  /\ run' = run
         /\ \/ \E r \in ActiveRuns(call[c].task) :
                 call'[c] = [at |-> "write", id |-> r,
                             new |-> [run[r] EXCEPT !.status = "running"]]
            \/ \E r \in Run : /\ Exists(r)
                              /\ call'[c].at = "owner"
                              /\ call'[c].id = r /\ call'[c].copy = run[r]
            \/ /\ call[c].at = "owner" /\ call'[c].at # "owner"
               /\ call'[c].id = call[c].id /\ call'[c].new = NewRow(call[c])
               /\ call[c].copy.status \notin Terminal
            \/ /\ call[c].at = "graph" /\ call'[c].at = "write"
               /\ call'[c].id = call[c].id /\ call'[c].new = call[c].new
<1>1. ~Carries(Idle)
  BY DEF Carries, Idle
<1>2. ASSUME NEW t \in Task, NEW a \in Agent, NEW asked \in Template \cup {AnyTemplate},
             BeginStart(c, t, a, asked)
      PROVE FALSE
  BY <1>2 DEF BeginStart, Become, RunTypeOK, Carries
<1>3. CASE LookForRun(c)
  <2>1. ~Carries([call[c] EXCEPT !.at = "insert"])
    BY <1>3, StartedFields DEF LookForRun, Started, Carries
  <2>2. run' = run
    BY <1>3 DEF LookForRun
  <2>3. \/ call'[c] \in {Idle, [call[c] EXCEPT !.at = "insert"]}
        \/ \E r \in ActiveRuns(call[c].task) :
             call'[c] = [at |-> "write", id |-> r,
                         new |-> [run[r] EXCEPT !.status = "running"]]
    BY <1>3 DEF LookForRun, Become, RunTypeOK
  <2>4. QED
    BY <1>1, <2>1, <2>2, <2>3
<1>4. CASE InsertRun(c) \/ WriteRun(c) \/ Abandon(c)
  BY <1>1, <1>4 DEF InsertRun, WriteRun, Abandon, Become, RunTypeOK
<1>5. ASSUME NEW op \in Active \cup Terminal, NEW a \in Agent, NEW r \in Run,
             BeginOwned(c, op, a, r)
      PROVE  /\ run' = run /\ Exists(r)
             /\ call'[c].at = "owner" /\ call'[c].id = r /\ call'[c].copy = run[r]
  BY <1>5 DEF BeginOwned, Become, RunTypeOK
<1>6. CASE CheckOwner(c)
  BY <1>1, <1>6 DEF CheckOwner, MayNotUpdate, Become, RunTypeOK
<1>7. CASE ReadGraph(c)
  <2>1. call'[c] = [call[c] EXCEPT !.at = "write"] /\ run' = run
    BY <1>1, <1>7 DEF ReadGraph, Become, RunTypeOK
  <2>2. QED
    BY <1>7, <2>1, UpdatingFields DEF ReadGraph, Updating
<1>8. QED
  BY <1>2, <1>3, <1>4, <1>5, <1>6, <1>7 DEF CallStep

\* A request never learns an id before it is handed out.
LEMMA FreshStep ==
  ASSUME RunInv, [RunNext]_vars
  PROVE  FreshIdsUnknown'
<1> USE DEF RunInv
<1>1. ASSUME fresh' = fresh, call' = call, \A r \in Run : Exists(r)' => Exists(r)
      PROVE  FreshIdsUnknown'
  BY <1>1 DEF FreshIdsUnknown, Carries, RunTypeOK
<1>2. CASE UNCHANGED vars
  BY <1>1, <1>2 DEF vars, runVars, Exists
<1>3. ASSUME NEW t \in Task, NEW a \in Agent, Claim(t, a) PROVE FreshIdsUnknown'
  BY <1>1, <1>3 DEF Claim, runVars, Exists
<1>4. ASSUME NEW T \in SUBSET Task, LoseClaims(T) PROVE FreshIdsUnknown'
  BY <1>1, <1>4 DEF LoseClaims, runVars, Exists
<1>5. ASSUME NEW T \in SUBSET Task, DeleteTasks(T) PROVE FreshIdsUnknown'
  <2>1. \A r \in Run : Exists(r)' => Exists(r)
    BY <1>5 DEF DeleteTasks, Exists, NoRun
  <2>2. QED
    BY <1>1, <1>5, <2>1 DEF DeleteTasks
<1>6. ASSUME NEW c \in Caller, CallStep(c) PROVE FreshIdsUnknown'
  <2>1. fresh' \subseteq fresh /\ \A r \in fresh' : ~Exists(r)'
    BY <1>6, CallTables DEF FreshIdsUnknown, Exists, RunTypeOK
  <2>2. ASSUME Carries(call'[c]) PROVE call'[c].id \notin fresh
    <3>1. CASE \E r \in ActiveRuns(call[c].task) : call'[c].id = r
      BY <3>1 DEF ActiveRuns, FreshIdsUnknown
    <3>2. CASE \E r \in Run : Exists(r) /\ call'[c].id = r
      BY <3>2 DEF FreshIdsUnknown
    <3>3. CASE Carries(call[c]) /\ call'[c].id = call[c].id
      BY <3>3 DEF FreshIdsUnknown
    <3>4. ASSUME NEW r \in ActiveRuns(call[c].task),
                 call'[c] = [at |-> "write", id |-> r,
                             new |-> [run[r] EXCEPT !.status = "running"]]
          PROVE  call'[c].id = r
      BY <3>4
    <3>5. CASE call[c].at = "owner" /\ call'[c].id = call[c].id
      BY <3>3, <3>5 DEF Carries
    <3>6. CASE call[c].at = "graph" /\ call'[c].id = call[c].id
      BY <3>3, <3>6 DEF Carries
    <3>7. QED
      BY <1>6, <2>2, <3>1, <3>2, <3>4, <3>5, <3>6, CarriedRowsComeFrom
  <2>3. QED
    BY <1>6, <2>1, <2>2, OtherCallsKept DEF FreshIdsUnknown, Carries
<1>7. QED
  BY <1>2, <1>3, <1>4, <1>5, <1>6 DEF RunNext

\* The row a request will write stays stamped exactly when it is finished, and
\* keeps naming the task of its run.
LEMMA CarriedStep ==
  ASSUME RunInv, [RunNext]_vars
  PROVE  CarriedRowsFit'
<1> USE DEF RunInv
<1>1. ASSUME call' = call, \A r \in Run : Exists(r)' => Exists(r) /\ run'[r] = run[r]
      PROVE  CarriedRowsFit'
  <2>1. ASSUME NEW c \in Caller, Carries(call[c]) PROVE call[c].id \in Run
    BY <2>1, OwnedFields, UpdatingFields DEF Carries, Owned, Updating
  <2>2. QED
    BY <1>1, <2>1 DEF CarriedRowsFit, Fits, Carries, Carried
<1>2. CASE UNCHANGED vars
  BY <1>1, <1>2 DEF vars, runVars, Exists
<1>3. ASSUME NEW t \in Task, NEW a \in Agent, Claim(t, a) PROVE CarriedRowsFit'
  BY <1>1, <1>3 DEF Claim, runVars, Exists
<1>4. ASSUME NEW T \in SUBSET Task, LoseClaims(T) PROVE CarriedRowsFit'
  BY <1>1, <1>4 DEF LoseClaims, runVars, Exists
<1>5. ASSUME NEW T \in SUBSET Task, DeleteTasks(T) PROVE CarriedRowsFit'
  <2>1. \A r \in Run : Exists(r)' => Exists(r) /\ run'[r] = run[r]
    BY <1>5 DEF DeleteTasks, Exists, NoRun
  <2>2. QED
    BY <1>1, <1>5, <2>1 DEF DeleteTasks
<1>6. ASSUME NEW c \in Caller, CallStep(c) PROVE CarriedRowsFit'
  \* What the other requests carry still fits: an insert uses an id none of
  \* them knows, an update keeps the task of the run.
  <2>1. ASSUME NEW d \in Caller, Carries(call[d]), run'[call[d].id].status # "none"
        PROVE  Exists(call[d].id) /\ run'[call[d].id].task = run[call[d].id].task
    <3>1. call[d].id \in Run /\ call[d].id \notin fresh
      BY <2>1, OwnedFields, UpdatingFields DEF Carries, Owned, Updating, FreshIdsUnknown
    <3>2. CASE run' = run
      BY <2>1, <3>2 DEF Exists
    <3>3. CASE \E r \in fresh : run' = [run EXCEPT ![r] = NewRun(call[c])]
      BY <2>1, <3>1, <3>3 DEF Exists
    <3>4. CASE /\ call[c].at = "write" /\ Exists(call[c].id)
               /\ run' = [run EXCEPT ![call[c].id] = call[c].new]
      <4>1. call[c].new.task = run[call[c].id].task
        BY <3>4 DEF CarriedRowsFit, Fits, Carries, Carried
      <4>2. QED
        BY <2>1, <3>1, <3>4, <4>1 DEF Exists, RunTypeOK
    <3>5. QED
      BY <1>6, <3>2, <3>3, <3>4, CallTables
  <2>2. ASSUME Carries(call'[c]) PROVE Fits(c)'
    <3>1. CASE /\ run' = run
               /\ \E r \in ActiveRuns(call[c].task) :
                    call'[c] = [at |-> "write", id |-> r,
                                new |-> [run[r] EXCEPT !.status = "running"]]
      <4>1. PICK r \in ActiveRuns(call[c].task) :
              call'[c] = [at |-> "write", id |-> r,
                          new |-> [run[r] EXCEPT !.status = "running"]]
        BY <3>1
      <4>2. r \in Run /\ Exists(r) /\ run[r] \in RunRow /\ run[r].status \in Active
        BY ExistingRowsAreRows DEF ActiveRuns
      <4>3. ~run[r].finished
        BY <4>2 DEF FinishedIffTerminal, RunRow, Active, Terminal
      <4> DEFINE x == [run[r] EXCEPT !.status = "running"]
      <4>4. x.task = run[r].task /\ ~x.finished /\ x.status = "running"
        BY <4>2, <4>3 DEF RunRow
      <4>5. Carried(call[c])' = x /\ call'[c].id = r
        BY <4>1 DEF Carried
      <4>6. QED
        BY <3>1, <4>4, <4>5 DEF Fits, Terminal
    <3>2. CASE /\ run' = run
               /\ \E r \in Run : /\ Exists(r)
                                 /\ call'[c].at = "owner"
                                 /\ call'[c].id = r /\ call'[c].copy = run[r]
      BY <3>2 DEF Fits, Carried, FinishedIffTerminal
    <3>3. CASE /\ run' = run
               /\ call[c].at = "owner" /\ call'[c].at # "owner"
               /\ call'[c].id = call[c].id /\ call'[c].new = NewRow(call[c])
               /\ call[c].copy.status \notin Terminal
      <4>1. call[c] \in Owned
        BY <3>3, OwnedFields
      <4>2. /\ ~call[c].copy.finished
            /\ Exists(call[c].id) => call[c].copy.task = run[call[c].id].task
        BY <3>3, <4>1 DEF CarriedRowsFit, Fits, Carries, Carried, Owned, RunRow
      <4>3. /\ NewRow(call[c]).task = call[c].copy.task
            /\ NewRow(call[c]).finished <=> NewRow(call[c]).status \in Terminal
        BY <4>1, <4>2 DEF NewRow, Owned, RunRow
      <4>4. Carried(call[c])' = NewRow(call[c])
        BY <3>3 DEF Carried
      <4>5. QED
        BY <3>3, <4>2, <4>3, <4>4 DEF Fits, Exists
    <3>4. CASE /\ run' = run
               /\ call[c].at = "graph" /\ call'[c].at = "write"
               /\ call'[c].id = call[c].id /\ call'[c].new = call[c].new
      BY <3>4 DEF CarriedRowsFit, Fits, Carries, Carried, Exists
    <3>5. QED
      BY <1>6, <2>2, <3>1, <3>2, <3>3, <3>4, CarriedRowsComeFrom
  <2>3. ASSUME NEW d \in Caller \ {c}, Carries(call'[d]) PROVE Fits(d)'
    <3>1. call'[d] = call[d]
      BY <1>6, OtherCallsKept
    <3>2. QED
      BY <2>1, <2>3, <3>1 DEF CarriedRowsFit, Fits, Carried, Exists
  <2>4. QED
    BY <2>2, <2>3 DEF CarriedRowsFit
<1>7. QED
  BY <1>2, <1>3, <1>4, <1>5, <1>6 DEF RunNext

-----------------------------------------------------------------------------

\* The inductive invariant: the properties of the table, together with what
\* the requests in flight carry.
THEOREM RunInvariant == RunSpec => []RunInv
<1>1. RunInit => RunInv
  BY DEF RunInit, Init, RunInv, RunTypeOK, OneActiveRun, FinishedIffTerminal,
         RunsGoWithTheirTask, CarriedRowsFit, FreshIdsUnknown, Exists, NoRun, Call, Idle,
         Carries
<1>2. RunInv /\ [RunNext]_vars => RunInv'
  BY RunTypeStep, TableInvStep, FreshStep, CarriedStep DEF RunInv
<1>3. QED
  BY <1>1, <1>2, PTL DEF RunSpec

\* Rows and requests keep their types.
THEOREM RunTypeCorrect == RunSpec => []RunTypeOK
BY RunInvariant, PTL DEF RunInv

\* A task never has two resumable runs, however starts, updates and deletions
\* interleave.
THEOREM AtMostOneActiveRun == RunSpec => []OneActiveRun
BY RunInvariant, PTL DEF RunInv

\* A run is stamped as completed exactly while it is finished.
THEOREM StampedExactlyWhenFinished == RunSpec => []FinishedIffTerminal
BY RunInvariant, PTL DEF RunInv

\* No run is left of a deleted task.
THEOREM NoRunOfADeletedTask == RunSpec => []RunsGoWithTheirTask
BY RunInvariant, PTL DEF RunInv

-----------------------------------------------------------------------------

\* Runs live beside the claims without disturbing them: whoever watches only
\* the holders sees the lease of ClaimLease, which TaskQueue implements.
THEOREM RunsKeepTheLease == RunSpec => Spec
<1>1. RunInit => Init
  BY DEF RunInit
<1>2. [RunNext]_vars => [Next]_holder
  <2>1. SUFFICES ASSUME [RunNext]_vars PROVE [Next]_holder
    OBVIOUS
  <2>2. ASSUME NEW c \in Caller, CallStep(c) PROVE holder' = holder
    BY <2>2 DEF CallStep, BeginStart, LookForRun, InsertRun, BeginOwned, CheckOwner,
                ReadGraph, WriteRun, Abandon
  <2>3. QED
    BY <2>1, <2>2 DEF RunNext, Next, Claim, LoseClaims, DeleteTasks, vars, runVars
<1>3. QED
  BY <1>1, <1>2, PTL DEF RunSpec, Spec

-----------------------------------------------------------------------------
\* Requests one at a time.  Deletions and the loss of claims still fall
\* between the statements of a request.

\* What a request that is alone has read of its run is still so, as long as
\* the run is there: its copy is the row, and a run it is about to write was
\* found active and is active.
CopyIsCurrent(c) ==
  Exists(call[c].id) =>
    IF call[c].at = "owner" THEN run[call[c].id] = call[c].copy
    ELSE run[call[c].id].status \notin Terminal
CopiesAreCurrent == \A c \in Caller : Carries(call[c]) => CopyIsCurrent(c)

\* A run that goes takes nothing from what the requests know of the others.
LEMMA RowsGoing ==
  ASSUME RunTypeOK, CopiesAreCurrent, call' = call,
         \A r \in Run : Exists(r)' => Exists(r) /\ run'[r] = run[r]
  PROVE  CopiesAreCurrent'
<1>1. ASSUME NEW c \in Caller, Carries(call[c]) PROVE call[c].id \in Run
  BY <1>1, OwnedFields, UpdatingFields DEF Carries, Owned, Updating
<1>2. QED
  BY <1>1 DEF CopiesAreCurrent, CopyIsCurrent, Carries

\* With no second request, nobody else changes a run that stays.
LEMMA CopiesStayCurrent ==
  ASSUME \A c, d \in Caller : c = d,
         RunInv, CopiesAreCurrent, [RunNext]_vars
  PROVE  CopiesAreCurrent'
<1> USE DEF RunInv
<1>1. CASE UNCHANGED vars
  BY <1>1, RowsGoing DEF vars, runVars, Exists
<1>2. ASSUME NEW t \in Task, NEW a \in Agent, Claim(t, a) PROVE CopiesAreCurrent'
  BY <1>2, RowsGoing DEF Claim, runVars, Exists
<1>3. ASSUME NEW T \in SUBSET Task, LoseClaims(T) PROVE CopiesAreCurrent'
  BY <1>3, RowsGoing DEF LoseClaims, runVars, Exists
<1>4. ASSUME NEW T \in SUBSET Task, DeleteTasks(T) PROVE CopiesAreCurrent'
  <2>1. \A r \in Run : Exists(r)' => Exists(r) /\ run'[r] = run[r]
    BY <1>4 DEF DeleteTasks, Exists, NoRun
  <2>2. QED
    BY <1>4, <2>1, RowsGoing DEF DeleteTasks
<1>5. ASSUME NEW c \in Caller, CallStep(c) PROVE CopiesAreCurrent'
  <2>1. SUFFICES ASSUME Carries(call'[c]) PROVE CopyIsCurrent(c)'
    BY DEF CopiesAreCurrent
  <2>2. CASE run' = run /\ \E r \in ActiveRuns(call[c].task) :
               call'[c] = [at |-> "write", id |-> r,
                           new |-> [run[r] EXCEPT !.status = "running"]]
    <3>1. PICK r \in ActiveRuns(call[c].task) :
            call'[c] = [at |-> "write", id |-> r,
                        new |-> [run[r] EXCEPT !.status = "running"]]
      BY <2>2
    <3>2. call'[c].at = "write" /\ call'[c].id = r
      BY <3>1
    <3>3. run[r].status \notin Terminal
      BY DEF ActiveRuns, Active, Terminal
    <3>4. QED
      BY <2>2, <3>2, <3>3 DEF CopyIsCurrent
  <2>3. CASE /\ run' = run
             /\ \E r \in Run : /\ Exists(r)
                               /\ call'[c].at = "owner"
                               /\ call'[c].id = r /\ call'[c].copy = run[r]
    BY <2>3 DEF CopyIsCurrent
  <2>4. CASE /\ run' = run
             /\ call[c].at = "owner" /\ call'[c].at # "owner"
             /\ call'[c].id = call[c].id
             /\ call[c].copy.status \notin Terminal
    BY <2>4 DEF CopyIsCurrent, CopiesAreCurrent, Carries, Exists
  <2>5. CASE /\ run' = run
             /\ call[c].at = "graph" /\ call'[c].at = "write"
             /\ call'[c].id = call[c].id
    BY <2>5 DEF CopyIsCurrent, CopiesAreCurrent, Carries, Exists
  <2>6. QED
    BY <1>5, <2>1, <2>2, <2>3, <2>4, <2>5, CarriedRowsComeFrom
<1>6. QED
  BY <1>1, <1>2, <1>3, <1>4, <1>5 DEF RunNext

\* Where requests come one at a time a finished run stays finished: what is
\* written over a run was read of a run that is active to this moment.
THEOREM SerialFinishIsFinal ==
  ASSUME \A c, d \in Caller : c = d
  PROVE  RunSpec => FinishedStaysFinished
<1> DEFINE Stays == \A r \in Run : run[r].status \in Terminal => run'[r].status \notin Active
<1>1. RunInit => CopiesAreCurrent
  BY DEF RunInit, CopiesAreCurrent, Carries, Idle
<1>2. ASSUME RunInv, CopiesAreCurrent, [RunNext]_vars PROVE Stays
  <2>1. SUFFICES ASSUME NEW r \in Run, run[r].status \in Terminal
                 PROVE  run'[r].status \notin Active
    OBVIOUS
  <2>2. Exists(r) /\ run[r].status \notin Active
    BY <2>1 DEF Exists, Terminal, Active
  <2>3. CASE run' = run
    BY <2>2, <2>3
  <2>4. ASSUME NEW T \in SUBSET Task, DeleteTasks(T) PROVE run'[r].status \notin Active
    BY <2>2, <2>4 DEF DeleteTasks, NoRun, Active
  <2>5. ASSUME NEW c \in Caller, CallStep(c) PROVE run'[r].status \notin Active
    <3>1. RunTypeOK
      BY <1>2 DEF RunInv
    <3>2. CASE \E s \in fresh : run' = [run EXCEPT ![s] = NewRun(call[c])]
      <4>1. r \notin fresh
        BY <1>2, <2>2 DEF RunInv, FreshIdsUnknown
      <4>2. QED
        BY <2>2, <3>1, <3>2, <4>1 DEF RunTypeOK
    <3>3. CASE /\ call[c].at = "write" /\ Exists(call[c].id)
               /\ run' = [run EXCEPT ![call[c].id] = call[c].new]
      <4>1. run[call[c].id].status \notin Terminal
        BY <1>2, <3>3 DEF CopiesAreCurrent, CopyIsCurrent, Carries
      <4>2. r # call[c].id
        BY <2>1, <4>1
      <4>3. QED
        BY <2>2, <3>1, <3>3, <4>2 DEF RunTypeOK
    <3>4. QED
      BY <2>3, <2>5, <3>1, <3>2, <3>3, CallTables
  <2>6. QED
    BY <1>2, <2>3, <2>4, <2>5 DEF RunNext, Claim, LoseClaims, vars, runVars
<1>3. RunInv /\ CopiesAreCurrent /\ [RunNext]_vars => CopiesAreCurrent'
  BY CopiesStayCurrent
<1>4. QED
  BY <1>1, <1>2, <1>3, RunInvariant, PTL DEF RunSpec, FinishedStaysFinished
=============================================================================
