-------------------------- MODULE WorkGraphProofs --------------------------
(***************************************************************************)
(* What WorkGraph guarantees for any workflow, any questions and any       *)
(* number of requests in flight.                                           *)
(***************************************************************************)
EXTENDS WorkGraph, TLAPS

-----------------------------------------------------------------------------
\* Types.

\* What a request carries at each of its stages.
LEMMA StageFields ==
  ASSUME GraphTypeOK, NEW c \in Caller
  PROVE  /\ req[c].at = "nodes" => req[c].node \in Node /\ req[c].to \in Status
         /\ req[c].at \in {"answers", "write"} =>
              /\ req[c] \in [at: {"answers", "write"}, node: Node, to: Status,
                             copy: NodeRow, since: Stamp]
         /\ req[c].at = "invalidate" => req[c].node \in Node /\ req[c].todo \subseteq Node
         /\ req[c].at = "pending" => req[c].node \in Node
         /\ req[c].at = "reject" => req[c].todo \subseteq Ask
         /\ req[c].at = "ready" => req[c].todo \subseteq Change
         /\ req[c].at = "node" => req[c].node \in Node
         /\ req[c].at \in {"deps", "waits"} =>
              req[c] \in [at: {"deps", "waits"}, node: Node, copy: NodeRow]
         /\ req[c].at = "insert" =>
              req[c].node \in Node /\ req[c].copy \in NodeRow /\ req[c].since \in Stamp
         /\ req[c].at = "wait" =>
              req[c].node \in Node /\ req[c].copy \in NodeRow /\ req[c].created \in Stamp
         /\ req[c].at = "reply" =>
              /\ req[c].ask \in Ask /\ req[c].node \in Node
              /\ req[c].to \in {"answered", "rejected"}
              /\ req[c].by \in Actor
         /\ req[c].at = "answer" =>
              /\ req[c].ask \in Ask /\ req[c].node \in Node
              /\ req[c].to \in {"answered", "rejected"}
              /\ req[c].by \in Actor
              /\ req[c].copy \in NodeRow /\ req[c].since \in Stamp
         /\ req[c].at = "resume" =>
              req[c].node \in Node /\ req[c].copy \in NodeRow /\ req[c].resolved \in Stamp
         /\ req[c].at \in {"graph", "open", "finish"} =>
              req[c] \in [at: {"graph", "open", "finish"}, to: RunStatus]
<1> DEFINE q == req[c]
<1>0. q \in Stage
  BY DEF GraphTypeOK
<1>1. QED
  BY <1>0 DEF Stage, Idle

\* A step that only moves the request.
LEMMA ReadTyped ==
  ASSUME GraphTypeOK, NEW c \in Caller, NEW s \in Stage, Become(c, s), ReadOnly
  PROVE  GraphTypeOK'
BY DEF GraphTypeOK, Become, ReadOnly

\* A step that writes a node.
LEMMA NodeWriteTyped ==
  ASSUME GraphTypeOK, NEW c \in Caller, NEW s \in Stage, Become(c, s),
         NEW n \in Node, NEW row \in NodeRow, SetNode(n, row)
  PROVE  GraphTypeOK'
BY DEF GraphTypeOK, Become, SetNode

\* A step that writes a question.
LEMMA AskWriteTyped ==
  ASSUME GraphTypeOK, NEW c \in Caller, NEW s \in Stage, Become(c, s),
         NEW i \in Ask, NEW row \in AskRow, SetAsk(i, row)
  PROVE  GraphTypeOK'
BY DEF GraphTypeOK, Become, SetAsk

\* A pending question is a row.
LEMMA PendingIsARow == GraphTypeOK => \A i \in Ask : Pending(i) => ask[i] \in AskRow
BY DEF GraphTypeOK, Pending, NoAsk

\* Stages that carry little.
LEMMA PlainStages ==
  /\ Idle \in Stage /\ Refreshing \in Stage
  /\ \A n \in Node, todo \in SUBSET Node : Invalidating(n, todo) \in Stage
  /\ \A todo \in SUBSET Ask : Rejecting(todo) \in Stage
  /\ \A todo \in SUBSET Change : Readying(todo) \in Stage
BY DEF Stage, Refreshing, Invalidating, Rejecting, Readying, Idle

\* The clock read by a request is a time.
LEMMA StampTyped ==
  ASSUME GraphTypeOK, NEW t \in Stamp, NEW now \in t..clock
  PROVE  now \in Stamp /\ now \in Time
BY GraphAssumption DEF GraphTypeOK, Stamp, Time, GraphAssumption

\* The row an update writes.
LEMMA UpdatedTyped ==
  ASSUME NEW copy \in NodeRow, NEW to \in Status, NEW now \in Time
  PROVE  Updated(copy, to, now) \in NodeRow
BY GraphAssumption DEF NodeRow, Updated, Time, GraphAssumption

\* The steps of UpdateRunNode keep the types.
LEMMA UpdateTypeStep ==
  ASSUME GraphTypeOK, NEW c \in Caller, UpdateStep(c)
  PROVE  GraphTypeOK'
<1> USE GraphAssumption DEF GraphAssumption
<1>1. ASSUME NEW n \in Node, NEW to \in UpdateTo, BeginUpdate(c, n, to) PROVE GraphTypeOK'
  <2>1. [at |-> "nodes", node |-> n, to |-> to] \in Stage
    BY DEF Stage
  <2>2. QED
    BY <1>1, <2>1, ReadTyped DEF BeginUpdate
<1>2. CASE ReadNodes(c)
  <2>1. req[c].node \in Node /\ req[c].to \in Status
    BY <1>2, StageFields DEF ReadNodes
  <2>2. node[req[c].node] \in NodeRow /\ clock \in Stamp
    BY <2>1 DEF GraphTypeOK
  <2>3. \A at \in {"answers", "write"} :
          [at |-> at, node |-> req[c].node, to |-> req[c].to,
           copy |-> node[req[c].node], since |-> clock] \in Stage
    BY <2>1, <2>2 DEF Stage
  <2>4. QED
    BY <1>2, <2>3, ReadTyped, PlainStages DEF ReadNodes
<1>3. CASE ReadAnswers(c)
  <2>1. req[c] \in [at: {"answers", "write"}, node: Node, to: Status,
                    copy: NodeRow, since: Stamp]
    BY <1>3, StageFields DEF ReadAnswers
  <2>2. [req[c] EXCEPT !.at = "write", !.since = clock] \in Stage
    <3>1. [req[c] EXCEPT !.at = "write", !.since = clock]
            \in [at: {"answers", "write"}, node: Node, to: Status,
                 copy: NodeRow, since: Stamp]
      BY <2>1 DEF GraphTypeOK
    <3>2. QED
      BY <3>1 DEF Stage
  <2>3. QED
    BY <1>3, <2>2, ReadTyped, PlainStages DEF ReadAnswers
<1>4. CASE WriteNode(c)
  <2>1. req[c] \in [at: {"answers", "write"}, node: Node, to: Status,
                    copy: NodeRow, since: Stamp]
    BY <1>4, StageFields DEF WriteNode
  <2>2. \A now \in req[c].since..clock : Updated(req[c].copy, req[c].to, now) \in NodeRow
    BY <2>1, StampTyped, UpdatedTyped
  <2>3. Invalidating(req[c].node, Downstream(req[c].node)) \in Stage
    BY <2>1, PlainStages DEF Downstream
  <2>4. QED
    BY <1>4, <2>1, <2>2, <2>3, NodeWriteTyped, PlainStages DEF WriteNode
<1>5. CASE InvalidateNode(c)
  <2>1. req[c].node \in Node /\ req[c].todo \subseteq Node
    BY <1>5, StageFields DEF InvalidateNode
  <2>2. Unstarted \in NodeRow
    BY DEF Unstarted, NodeRow, Status, Time
  <2>3. \A m \in req[c].todo : Invalidating(req[c].node, req[c].todo \ {m}) \in Stage
    BY <2>1, PlainStages
  <2>4. QED
    BY <1>5, <2>1, <2>2, <2>3, NodeWriteTyped DEF InvalidateNode
<1>6. CASE ReadPending(c)
  <2>1. UNION {PendingAt(m) : m \in {req[c].node} \cup Downstream(req[c].node)} \subseteq Ask
    BY DEF PendingAt
  <2>2. QED
    BY <1>6, <2>1, ReadTyped, PlainStages DEF ReadPending
<1>7. CASE RejectAsk(c)
  <2>1. req[c].todo \subseteq Ask
    BY <1>7, StageFields DEF RejectAsk
  <2>2. PICK i \in req[c].todo :
          IF StillOpen(i)
          THEN /\ SetAsk(i, [ask[i] EXCEPT !.status = "rejected"])
               /\ Become(c, Rejecting(req[c].todo \ {i}))
          ELSE Become(c, Idle) /\ ReadOnly
    BY <1>7 DEF RejectAsk
  <2>3. Rejecting(req[c].todo \ {i}) \in Stage
    BY <2>1, PlainStages
  <2>4. StillOpen(i) => [ask[i] EXCEPT !.status = "rejected"] \in AskRow
    BY <2>1, PendingIsARow DEF StillOpen, AskRow
  <2>5. QED
    BY <2>1, <2>2, <2>3, <2>4, AskWriteTyped, ReadTyped, PlainStages
<1>8. CASE RefreshReadiness(c)
  <2>1. {[node |-> n, row |-> [node[n] EXCEPT !.status = Readiness(n)]] : n \in Unready}
          \subseteq Change
    BY DEF Unready, Change, Readiness, GraphTypeOK, NodeRow, Status
  <2>2. QED
    BY <1>8, <2>1, ReadTyped, PlainStages DEF RefreshReadiness
<1>9. CASE WriteReadiness(c)
  <2>1. req[c].todo \subseteq Change
    BY <1>9, StageFields DEF WriteReadiness
  <2>2. \A u \in req[c].todo : /\ u.node \in Node /\ u.row \in NodeRow
                               /\ Readying(req[c].todo \ {u}) \in Stage
    BY <2>1, PlainStages DEF Change
  <2>3. QED
    BY <1>9, <2>2, NodeWriteTyped DEF WriteReadiness
<1>10. QED
  BY <1>1, <1>2, <1>3, <1>4, <1>5, <1>6, <1>7, <1>8, <1>9 DEF UpdateStep

\* The steps of CreateRunInterrupt keep the types.
LEMMA AskTypeStep ==
  ASSUME GraphTypeOK, NEW c \in Caller, AskStep(c)
  PROVE  GraphTypeOK'
<1> USE GraphAssumption DEF GraphAssumption
<1>1. ASSUME NEW n \in Node, BeginAsk(c, n) PROVE GraphTypeOK'
  <2>1. [at |-> "node", node |-> n] \in Stage
    BY DEF Stage
  <2>2. QED
    BY <1>1, <2>1, ReadTyped DEF BeginAsk
<1>2. CASE ReadNode(c)
  <2>1. req[c].node \in Node
    BY <1>2, StageFields DEF ReadNode
  <2>2. [at |-> "deps", node |-> req[c].node, copy |-> node[req[c].node]] \in Stage
    BY <2>1 DEF Stage, GraphTypeOK
  <2>3. QED
    BY <1>2, <2>2, ReadTyped, PlainStages DEF ReadNode
<1>3. CASE ReadDependencies(c)
  <2>1. req[c] \in [at: {"deps", "waits"}, node: Node, copy: NodeRow]
    BY <1>3, StageFields DEF ReadDependencies
  <2>2. [req[c] EXCEPT !.at = "waits"] \in [at: {"deps", "waits"}, node: Node, copy: NodeRow]
    BY <2>1
  <2>3. [req[c] EXCEPT !.at = "waits"] \in Stage
    BY <2>2 DEF Stage
  <2>4. QED
    BY <1>3, <2>3, ReadTyped, PlainStages DEF ReadDependencies
<1>4. CASE ReadWaits(c)
  <2>1. req[c] \in [at: {"deps", "waits"}, node: Node, copy: NodeRow]
    BY <1>4, StageFields DEF ReadWaits
  <2>2. [at |-> "insert", node |-> req[c].node, copy |-> req[c].copy, since |-> clock] \in Stage
    BY <2>1 DEF Stage, GraphTypeOK
  <2>3. QED
    BY <1>4, <2>2, ReadTyped, PlainStages DEF ReadWaits
<1>5. CASE InsertAsk(c)
  <2>1. req[c].node \in Node /\ req[c].copy \in NodeRow /\ req[c].since \in Stamp
    BY <1>5, StageFields DEF InsertAsk
  <2>2. CASE RefusedByIndex(req[c].node)
    BY <1>5, <2>2, ReadTyped, PlainStages DEF InsertAsk
  <2>3. CASE ~RefusedByIndex(req[c].node)
    <3>1. PICK i \in Ask, now \in req[c].since..clock :
            /\ SetAsk(i, NewAsk(req[c].node, now))
            /\ Become(c, [at |-> "wait", node |-> req[c].node, copy |-> req[c].copy,
                          created |-> now])
      BY <1>5, <2>3 DEF InsertAsk
    <3>2. now \in Stamp
      BY <2>1, StampTyped
    <3>3. [at |-> "wait", node |-> req[c].node, copy |-> req[c].copy,
           created |-> now] \in Stage
      BY <2>1, <3>2 DEF Stage
    <3>4. NewAsk(req[c].node, now) \in AskRow
      BY <2>1, <3>2 DEF NewAsk, AskRow
    <3>5. QED
      BY <3>1, <3>3, <3>4, AskWriteTyped
  <2>4. QED
    BY <2>2, <2>3
<1>6. CASE WriteWaiting(c)
  <2>1. req[c].node \in Node /\ req[c].copy \in NodeRow /\ req[c].created \in Stamp
    BY <1>6, StageFields DEF WriteWaiting
  <2>2. [status |-> "waiting", completed |-> 0,
         started |-> StartedBy(req[c].copy, req[c].created)] \in NodeRow
    BY <2>1 DEF NodeRow, StartedBy, Status, Time, Stamp
  <2>3. QED
    BY <1>6, <2>1, <2>2, NodeWriteTyped, PlainStages DEF WriteWaiting
<1>7. QED
  BY <1>1, <1>2, <1>3, <1>4, <1>5, <1>6 DEF AskStep

\* The steps of ResolveRunInterrupt keep the types.
LEMMA ReplyTypeStep ==
  ASSUME GraphTypeOK, NEW c \in Caller, ReplyStep(c)
  PROVE  GraphTypeOK'
<1>1. ASSUME NEW i \in Ask, NEW to \in {"answered", "rejected"}, NEW who \in Actor,
             BeginReply(c, i, to, who)
      PROVE GraphTypeOK'
  <2>1. ask[i].node \in Node
    BY <1>1, PendingIsARow DEF BeginReply, AskRow
  <2>2. [at |-> "reply", ask |-> i, node |-> ask[i].node, to |-> to, by |-> who] \in Stage
    BY <2>1 DEF Stage
  <2>3. QED
    BY <1>1, <2>2, ReadTyped DEF BeginReply
<1>2. CASE ReadReplyNode(c)
  <2>1. /\ req[c].ask \in Ask /\ req[c].node \in Node
        /\ req[c].to \in {"answered", "rejected"} /\ req[c].by \in Actor
    BY <1>2, StageFields DEF ReadReplyNode
  <2>2. [at |-> "answer", ask |-> req[c].ask, node |-> req[c].node, to |-> req[c].to,
         by |-> req[c].by, copy |-> node[req[c].node], since |-> clock] \in Stage
    BY <2>1 DEF Stage, GraphTypeOK
  <2>3. QED
    BY <1>2, <2>2, ReadTyped, PlainStages DEF ReadReplyNode
<1>3. CASE ResolveAsk(c)
  <2>1. /\ req[c].ask \in Ask /\ req[c].node \in Node
        /\ req[c].to \in {"answered", "rejected"} /\ req[c].by \in Actor
        /\ req[c].copy \in NodeRow /\ req[c].since \in Stamp
    BY <1>3, StageFields DEF ResolveAsk
  <2>2. CASE ~StillOpen(req[c].ask)
    BY <1>3, <2>2, ReadTyped, PlainStages DEF ResolveAsk
  <2>3. CASE StillOpen(req[c].ask)
    <3>1. SetAsk(req[c].ask, [ask[req[c].ask] EXCEPT !.status = req[c].to, !.by = req[c].by])
      BY <1>3, <2>3 DEF ResolveAsk
    <3>2. [ask[req[c].ask] EXCEPT !.status = req[c].to, !.by = req[c].by] \in AskRow
      BY <2>1, <2>3, PendingIsARow DEF StillOpen, AskRow
    <3>3. \E s \in Stage : Become(c, s)
      <4>1. CASE req[c].copy.status # "waiting"
        BY <1>3, <2>3, <4>1, PlainStages DEF ResolveAsk
      <4>2. CASE req[c].copy.status = "waiting"
        <5>1. PICK now \in req[c].since..clock :
                Become(c, [at |-> "resume", node |-> req[c].node, copy |-> req[c].copy,
                           resolved |-> now])
          BY <1>3, <2>3, <4>2 DEF ResolveAsk
        <5>2. now \in Stamp
          BY <2>1, StampTyped
        <5>3. [at |-> "resume", node |-> req[c].node, copy |-> req[c].copy,
               resolved |-> now] \in Stage
          BY <2>1, <5>2 DEF Stage
        <5>4. QED
          BY <5>1, <5>3
      <4>3. QED
        BY <4>1, <4>2
    <3>4. QED
      BY <2>1, <3>1, <3>2, <3>3, AskWriteTyped
  <2>4. QED
    BY <2>2, <2>3
<1>4. CASE WriteResumed(c)
  <2>1. req[c].node \in Node /\ req[c].copy \in NodeRow /\ req[c].resolved \in Stamp
    BY <1>4, StageFields DEF WriteResumed
  <2>2. [req[c].copy EXCEPT !.status = "running",
                            !.started = StartedBy(req[c].copy, req[c].resolved)] \in NodeRow
    BY <2>1 DEF NodeRow, StartedBy, Status, Stamp
  <2>3. QED
    BY <1>4, <2>1, <2>2, NodeWriteTyped, PlainStages DEF WriteResumed
<1>5. QED
  BY <1>1, <1>2, <1>3, <1>4 DEF ReplyStep

\* The steps of FinishRun and SaveRunCheckpoint keep the types.
LEMMA RunTypeStep ==
  ASSUME GraphTypeOK, NEW c \in Caller, RunStep(c)
  PROVE  GraphTypeOK'
<1>1. ASSUME NEW to \in RunTo, BeginRunUpdate(c, to) PROVE GraphTypeOK'
  <2>1. \A at \in {"graph", "finish"} : [at |-> at, to |-> to] \in Stage
    BY GraphAssumption DEF Stage, GraphAssumption
  <2>2. QED
    BY <1>1, <2>1, ReadTyped DEF BeginRunUpdate
<1>2. ASSUME NEW at \in {"open", "finish"}, req[c].at \in {"graph", "open"}
      PROVE  [req[c] EXCEPT !.at = at] \in Stage
  <2>1. [req[c] EXCEPT !.at = at] \in [at: {"graph", "open", "finish"}, to: RunStatus]
    BY <1>2, StageFields
  <2>2. QED
    BY <2>1 DEF Stage
<1>3. CASE ReadGraph(c)
  BY <1>2, <1>3, ReadTyped, PlainStages DEF ReadGraph
<1>4. CASE ReadOpen(c)
  BY <1>2, <1>4, ReadTyped, PlainStages DEF ReadOpen
<1>5. CASE WriteRun(c)
  <2>1. req[c].to \in RunStatus
    BY <1>5, StageFields DEF WriteRun
  <2>2. QED
    BY <1>5, <2>1, PlainStages DEF WriteRun, Become, GraphTypeOK
<1>6. QED
  BY <1>1, <1>3, <1>4, <1>5 DEF RunStep

\* Every step keeps rows and requests well typed.
LEMMA GraphTypeStep == GraphTypeOK /\ [GraphNext]_graphVars => GraphTypeOK'
<1> SUFFICES ASSUME GraphTypeOK, [GraphNext]_graphVars PROVE GraphTypeOK'
  OBVIOUS
<1>1. CASE UNCHANGED graphVars
  BY <1>1 DEF graphVars, GraphTypeOK
<1>2. CASE Tick
  BY <1>2, GraphAssumption DEF Tick, GraphTypeOK, Stamp, Time, GraphAssumption
<1>3. ASSUME NEW c \in Caller, Step(c) PROVE GraphTypeOK'
  BY <1>3, UpdateTypeStep, AskTypeStep, ReplyTypeStep, RunTypeStep DEF Step
<1>4. ASSUME NEW c \in Caller, Abandon(c) PROVE GraphTypeOK'
  BY <1>4, ReadTyped, PlainStages DEF Abandon
<1>5. QED
  BY <1>1, <1>2, <1>3, <1>4 DEF GraphNext

\* The initial graph is well typed.
LEMMA GraphTypeInit == GraphInit => GraphTypeOK
BY GraphAssumption, PlainStages
DEF GraphInit, GraphTypeOK, GraphAssumption, Stamp, Time, RunStatus, NodeRow, Status, Unstarted

\* The rows of nodes, questions and the run, and what requests carry between
\* statements, keep their types whatever requests are in flight.
THEOREM GraphTypeCorrect == GraphSpec => []GraphTypeOK
BY GraphTypeInit, GraphTypeStep, PTL DEF GraphSpec

-----------------------------------------------------------------------------
\* Questions.

\* What a step does to the questions: nothing, or it asks one where none is
\* pending, or it resolves a pending one.
Asks(i) ==
  \E c \in Caller, now \in Stamp :
    /\ req[c].at = "insert" /\ PendingAt(req[c].node) = {}
    /\ ask[i] = NoAsk
    /\ ask' = [ask EXCEPT ![i] = NewAsk(req[c].node, now)]
Rejects(i) ==
  Pending(i) /\ ask' = [ask EXCEPT ![i] = [ask[i] EXCEPT !.status = "rejected"]]
Resolves(i) ==
  \E c \in Caller :
    /\ req[c].at = "answer" /\ req[c].ask = i /\ Pending(i)
    /\ ask' = [ask EXCEPT ![i] = [ask[i] EXCEPT !.status = req[c].to, !.by = req[c].by]]

\* No other effect on the questions is possible.
LEMMA AskEffects ==
  ASSUME GraphTypeOK, [GraphNext]_graphVars
  PROVE  ask' = ask \/ \E i \in Ask : Asks(i) \/ Rejects(i) \/ Resolves(i)
<1>1. CASE UNCHANGED graphVars \/ Tick \/ \E c \in Caller : Abandon(c)
  BY <1>1 DEF graphVars, Tick, Abandon, ReadOnly
<1>2. ASSUME NEW c \in Caller, UpdateStep(c)
      PROVE  ask' = ask \/ \E i \in Ask : Rejects(i)
  <2>1. CASE RejectAsk(c)
    <3>1. req[c].todo \subseteq Ask
      BY <2>1, StageFields DEF RejectAsk
    <3>2. QED
      BY <2>1, <3>1 DEF RejectAsk, SetAsk, StillOpen, ReadOnly, Rejects
  <2>2. QED
    BY <1>2, <2>1 DEF UpdateStep, BeginUpdate, ReadNodes, ReadAnswers, WriteNode, InvalidateNode,
                      ReadPending, RefreshReadiness, WriteReadiness, SetNode, ReadOnly
<1>3. ASSUME NEW c \in Caller, AskStep(c)
      PROVE  ask' = ask \/ \E i \in Ask : Asks(i)
  <2>1. CASE InsertAsk(c)
    <3>1. req[c].since \in Stamp
      BY <2>1, StageFields DEF InsertAsk
    <3>2. \A now \in req[c].since..clock : now \in Stamp
      BY <3>1, StampTyped
    <3>3. QED
      BY <2>1, <3>2 DEF InsertAsk, SetAsk, RefusedByIndex, ReadOnly, Asks
  <2>2. QED
    BY <1>3, <2>1 DEF AskStep, BeginAsk, ReadNode, ReadDependencies, ReadWaits, WriteWaiting,
                      SetNode, ReadOnly
<1>4. ASSUME NEW c \in Caller, ReplyStep(c)
      PROVE  ask' = ask \/ \E i \in Ask : Resolves(i)
  <2>1. CASE ResolveAsk(c)
    <3>1. req[c].ask \in Ask
      BY <2>1, StageFields DEF ResolveAsk
    <3>2. QED
      BY <2>1, <3>1 DEF ResolveAsk, SetAsk, StillOpen, ReadOnly, Resolves
  <2>2. QED
    BY <1>4, <2>1 DEF ReplyStep, BeginReply, ReadReplyNode, WriteResumed, SetNode, ReadOnly
<1>5. ASSUME NEW c \in Caller, RunStep(c) PROVE ask' = ask
  BY <1>5 DEF RunStep, BeginRunUpdate, ReadGraph, ReadOpen, WriteRun, ReadOnly
<1>6. QED
  BY <1>1, <1>2, <1>3, <1>4, <1>5 DEF GraphNext, Step

\* A resolved question was pending and keeps its node and its date.
LEMMA ResolvedRow ==
  ASSUME GraphTypeOK, NEW k \in Ask, Rejects(k) \/ Resolves(k)
  PROVE  /\ Pending(k) /\ ask[k] \in AskRow
         /\ ask' \in [Ask -> {NoAsk} \cup AskRow] /\ ask'[k] \in AskRow
         /\ \A i \in Ask \ {k} : ask'[i] = ask[i]
         /\ ask'[k].status \in {"answered", "rejected"}
         /\ ask'[k].node = ask[k].node /\ ask'[k].created = ask[k].created
<1>1. Pending(k) /\ ask[k] \in AskRow
  BY PendingIsARow DEF Rejects, Resolves
<1>2. \E row \in AskRow :
        /\ ask' = [ask EXCEPT ![k] = row]
        /\ row.status \in {"answered", "rejected"}
        /\ row.node = ask[k].node /\ row.created = ask[k].created
  <2>1. CASE Rejects(k)
    <3>1. [ask[k] EXCEPT !.status = "rejected"] \in AskRow
      BY <1>1 DEF AskRow
    <3>2. /\ [ask[k] EXCEPT !.status = "rejected"].status = "rejected"
          /\ [ask[k] EXCEPT !.status = "rejected"].node = ask[k].node
          /\ [ask[k] EXCEPT !.status = "rejected"].created = ask[k].created
      BY <1>1 DEF AskRow
    <3>3. QED
      BY <2>1, <3>1, <3>2 DEF Rejects
  <2>2. CASE Resolves(k)
    <3>1. PICK c \in Caller :
            /\ req[c].at = "answer"
            /\ ask' = [ask EXCEPT ![k] = [ask[k] EXCEPT !.status = req[c].to, !.by = req[c].by]]
      BY <2>2 DEF Resolves
    <3>2. req[c].to \in {"answered", "rejected"} /\ req[c].by \in Actor
      BY <3>1, StageFields
    <3>3. DEFINE row == [ask[k] EXCEPT !.status = req[c].to, !.by = req[c].by]
    <3>4. row \in AskRow
      BY <1>1, <3>2 DEF AskRow
    <3>5. row.status = req[c].to /\ row.node = ask[k].node /\ row.created = ask[k].created
      BY <1>1 DEF AskRow
    <3>6. QED
      BY <3>1, <3>2, <3>4, <3>5
  <2>3. QED
    BY <2>1, <2>2
<1>3. QED
  BY <1>1, <1>2 DEF GraphTypeOK

\* A question keeps its node, and once resolved everything.
LEMMA AsksKept ==
  ASSUME GraphTypeOK, [GraphNext]_graphVars, NEW i \in Ask, ask[i] # NoAsk
  PROVE  /\ ask'[i] # NoAsk
         /\ ask'[i].node = ask[i].node
         /\ ~Pending(i) => ask'[i] = ask[i]
<1>1. ASSUME NEW j \in Ask, Asks(j) PROVE ask'[i] = ask[i]
  BY <1>1 DEF Asks, GraphTypeOK
<1>2. ASSUME NEW j \in Ask, Rejects(j) \/ Resolves(j)
      PROVE  /\ ask'[i] # NoAsk /\ ask'[i].node = ask[i].node
             /\ ~Pending(i) => ask'[i] = ask[i]
  <2>1. \A row \in AskRow : row # NoAsk
    BY DEF AskRow, NoAsk
  <2>2. QED
    BY <1>2, <2>1, ResolvedRow
<1>3. ask' = ask \/ \E j \in Ask : Asks(j) \/ Rejects(j) \/ Resolves(j)
  BY AskEffects
<1>4. QED
  BY <1>1, <1>2, <1>3

\* One pending question per node is kept: only a node without one gets one.
LEMMA OnePendingStep ==
  ASSUME GraphTypeOK, OnePendingAsk, [GraphNext]_graphVars
  PROVE  OnePendingAsk'
<1>1. CASE ask' = ask
  BY <1>1 DEF OnePendingAsk, PendingAt, Pending
<1>2. ASSUME NEW k \in Ask, Rejects(k) \/ Resolves(k) PROVE OnePendingAsk'
  <2>1. ~Pending(k)' /\ \A i \in Ask \ {k} : ask'[i] = ask[i]
    BY <1>2, ResolvedRow DEF Pending
  <2>2. QED
    BY <2>1 DEF OnePendingAsk, PendingAt, Pending
<1>3. ASSUME NEW k \in Ask, Asks(k) PROVE OnePendingAsk'
  <2>1. PICK c \in Caller, now \in Stamp :
          /\ req[c].at = "insert" /\ PendingAt(req[c].node) = {}
          /\ ask' = [ask EXCEPT ![k] = NewAsk(req[c].node, now)]
    BY <1>3 DEF Asks
  <2>2. /\ \A i \in Ask \ {k} : ask'[i] = ask[i]
        /\ ask'[k].node = req[c].node
    BY <2>1 DEF GraphTypeOK, NewAsk
  <2>3. QED
    BY <2>1, <2>2 DEF OnePendingAsk, PendingAt, Pending
<1>4. QED
  BY <1>1, <1>2, <1>3, AskEffects

\* A node has one open question at most, although CreateRunInterrupt looks for
\* one in a statement of its own and any number of requests may be between that
\* statement and the INSERT.
THEOREM OneOpenQuestion == GraphSpec => []OnePendingAsk
<1>1. GraphInit => OnePendingAsk
  BY DEF GraphInit, OnePendingAsk, PendingAt, Pending, NoAsk
<1>2. GraphTypeOK /\ OnePendingAsk /\ [GraphNext]_graphVars => OnePendingAsk'
  BY OnePendingStep
<1>3. QED
  BY <1>1, <1>2, GraphTypeCorrect, PTL DEF GraphSpec

\* A resolved question is never resolved again: second answers and late
\* invalidations find that it is no longer pending.
THEOREM ResolvedQuestionsStand == GraphSpec => AnswersStand
<1>1. GraphTypeOK /\ [GraphNext]_graphVars =>
        [\A i \in Ask : ask[i] # NoAsk /\ ~Pending(i) => ask'[i] = ask[i]]_graphVars
  BY AsksKept
<1>2. QED
  BY <1>1, GraphTypeCorrect, PTL DEF GraphSpec, AnswersStand

-----------------------------------------------------------------------------
\* Gates.

Approved(n, t) ==
  \E i \in Ask : /\ ask[i].status = "answered" /\ ask[i].node = n
                 /\ ask[i].by # Executor
                 /\ ask[i].created >= t

\* The strengthening: who answered, what the requests in flight already know,
\* and that a refresh writes back no finished row.
AnsweredByOthers ==
  \A i \in Ask : ask[i].status = "answered" /\ ask[i].node \in Human => ask[i].by # Executor
RepliesAllowed ==
  \A c \in Caller :
    /\ req[c].at \in {"reply", "answer"} => /\ ask[req[c].ask] # NoAsk
                                            /\ ask[req[c].ask].node = req[c].node
    /\ req[c].at = "answer" => MayAnswer(req[c].node, req[c].by)
CompletionsApproved ==
  \A c \in Caller :
    /\ req[c].at = "answers" => req[c].node \in Human /\ req[c].copy.started # 0
    /\ req[c].at = "write" /\ req[c].node \in Human /\ req[c].to = "completed" =>
         req[c].copy.started # 0 /\ Approved(req[c].node, req[c].copy.started)
RefreshesUnfinished ==
  \A c \in Caller : req[c].at = "ready" =>
    \A u \in req[c].todo : u.row.status # "completed"
GateInv ==
  /\ GraphTypeOK
  /\ GateNeedsAnswer
  /\ AnsweredByOthers
  /\ RepliesAllowed
  /\ CompletionsApproved
  /\ RefreshesUnfinished

\* A request reaches a stage by its own step, and only by some of them.
LEMMA StageReached ==
  ASSUME GraphTypeOK, [GraphNext]_graphVars, NEW c \in Caller, req'[c] # req[c]
  PROVE  /\ req'[c].at = "answers" => ReadNodes(c)
         /\ req'[c].at = "write" => ReadNodes(c) \/ ReadAnswers(c)
         /\ req'[c].at = "ready" => RefreshReadiness(c) \/ WriteReadiness(c)
         /\ req'[c].at = "reply" =>
              \E i \in Ask, to \in {"answered", "rejected"}, who \in Actor : BeginReply(c, i, to, who)
         /\ req'[c].at = "answer" => ReadReplyNode(c)
         /\ req'[c].at = "open" => ReadGraph(c)
         /\ req'[c].at = "finish" => ReadOpen(c) \/ \E to \in RunTo : BeginRunUpdate(c, to)
<1> DEFINE At == {"answers", "write", "ready", "reply", "answer", "open", "finish"}
<1>1. PICK d \in Caller : Step(d) \/ Abandon(d)
  BY DEF GraphNext, graphVars, Tick
<1>2. ASSUME NEW s, Become(d, s) PROVE d = c /\ req'[c] = s
  BY <1>2 DEF Become, GraphTypeOK
<1>3. ASSUME Become(d, Idle) PROVE req'[c].at \notin At
  BY <1>2, <1>3 DEF Idle
<1>4. ASSUME UpdateStep(d)
      PROVE  \/ ReadNodes(c) /\ req'[c].at \in {"idle", "answers", "write"}
             \/ ReadAnswers(c) /\ req'[c].at \in {"idle", "write"}
             \/ /\ RefreshReadiness(c) \/ WriteReadiness(c)
                /\ req'[c].at \in {"idle", "ready"}
             \/ req'[c].at \notin At
  <2>1. ASSUME NEW n \in Node, NEW to \in UpdateTo, BeginUpdate(d, n, to)
        PROVE  req'[c].at \notin At
    BY <1>2, <2>1 DEF BeginUpdate
  <2>2. ASSUME ReadNodes(d)
        PROVE  ReadNodes(c) /\ req'[c].at \in {"idle", "answers", "write"}
    <3>1. \E s : Become(d, s) /\ s.at \in {"idle", "answers", "write"}
      BY <2>2 DEF ReadNodes, Idle
    <3>2. QED
      BY <1>2, <2>2, <3>1
  <2>3. ASSUME ReadAnswers(d)
        PROVE  ReadAnswers(c) /\ req'[c].at \in {"idle", "write"}
    <3>1. req[d].at = "answers" => [req[d] EXCEPT !.at = "write", !.since = clock].at = "write"
      BY StageFields
    <3>2. Become(d, [req[d] EXCEPT !.at = "write", !.since = clock]) \/ Become(d, Idle)
      BY <2>3, Zenon DEF ReadAnswers
    <3>3. \E s : Become(d, s) /\ s.at \in {"idle", "write"}
      <4>1. req[d].at = "answers"
        BY <2>3 DEF ReadAnswers
      <4>2. Idle.at = "idle"
        BY DEF Idle
      <4>3. QED
        BY <3>1, <3>2, <4>1, <4>2, Zenon
    <3>4. QED
      BY <1>2, <2>3, <3>3
  <2>4. ASSUME WriteNode(d) PROVE req'[c].at \notin At
    <3>1. \E s : Become(d, s) /\ s.at \in {"invalidate", "pending", "refresh"}
      BY <2>4 DEF WriteNode, Invalidating, Refreshing
    <3>2. QED
      BY <1>2, <3>1
  <2>5. ASSUME InvalidateNode(d) PROVE req'[c].at \notin At
    <3>1. \E s : Become(d, s) /\ s.at \in {"invalidate", "pending"}
      BY <2>5 DEF InvalidateNode, Invalidating
    <3>2. QED
      BY <1>2, <3>1
  <2>6. ASSUME ReadPending(d) \/ RejectAsk(d) PROVE req'[c].at \notin At
    <3>1. \A todo : Rejecting(todo).at \in {"refresh", "reject"}
      BY DEF Rejecting, Refreshing
    <3>2. Become(d, Idle) \/ \E todo : Become(d, Rejecting(todo))
      BY <2>6, Zenon DEF ReadPending, RejectAsk
    <3>3. QED
      BY <1>2, <1>3, <3>1, <3>2
  <2>7. ASSUME RefreshReadiness(d) \/ WriteReadiness(d)
        PROVE  /\ RefreshReadiness(c) \/ WriteReadiness(c)
               /\ req'[c].at \in {"idle", "ready"}
    <3>1. \A todo : Readying(todo).at \in {"idle", "ready"}
      BY DEF Readying, Idle
    <3>2. \E s : Become(d, s) /\ s.at \in {"idle", "ready"}
      BY <2>7, <3>1 DEF RefreshReadiness, WriteReadiness
    <3>3. QED
      BY <1>2, <2>7, <3>2
  <2>8. QED
    BY <1>4, <2>1, <2>2, <2>3, <2>4, <2>5, <2>6, <2>7 DEF UpdateStep
<1>5. ASSUME AskStep(d) PROVE req'[c].at \notin At
  <2>1. req[d].at = "deps" => [req[d] EXCEPT !.at = "waits"].at = "waits"
    BY StageFields
  <2>2. ASSUME ReadDependencies(d) PROVE req'[c].at \notin At
    <3>1. Become(d, Idle) \/ Become(d, [req[d] EXCEPT !.at = "waits"])
      BY <2>2, Zenon DEF ReadDependencies
    <3>2. [req[d] EXCEPT !.at = "waits"].at = "waits"
      BY <2>1, <2>2 DEF ReadDependencies
    <3>3. QED
      BY <1>2, <1>3, <3>1, <3>2
  <2>3. ASSUME ReadNode(d) \/ ReadWaits(d) PROVE req'[c].at \notin At
    <3>1. \/ Become(d, Idle)
          \/ Become(d, [at |-> "deps", node |-> req[d].node, copy |-> node[req[d].node]])
          \/ Become(d, [at |-> "insert", node |-> req[d].node, copy |-> req[d].copy,
                        since |-> clock])
      BY <2>3, Zenon DEF ReadNode, ReadWaits
    <3>2. QED
      BY <1>2, <1>3, <3>1
  <2>4. ASSUME InsertAsk(d) PROVE req'[c].at \notin At
    <3>1. CASE RefusedByIndex(req[d].node)
      BY <1>3, <2>4, <3>1 DEF InsertAsk
    <3>2. CASE ~RefusedByIndex(req[d].node)
      <4>1. PICK now : Become(d, [at |-> "wait", node |-> req[d].node, copy |-> req[d].copy,
                                  created |-> now])
        BY <2>4, <3>2 DEF InsertAsk
      <4>2. QED
        BY <1>2, <4>1
    <3>3. QED
      BY <3>1, <3>2
  <2>5. ASSUME NEW n \in AskAbout, BeginAsk(d, n) PROVE req'[c].at \notin At
    BY <1>2, <2>5 DEF BeginAsk
  <2>6. CASE WriteWaiting(d)
    BY <1>3, <2>6 DEF WriteWaiting
  <2>7. QED
    BY <1>5, <2>2, <2>3, <2>4, <2>5, <2>6 DEF AskStep
<1>6. ASSUME ReplyStep(d)
      PROVE  \/ \E i \in Ask, to \in {"answered", "rejected"}, who \in Actor :
                  BeginReply(c, i, to, who) /\ req'[c].at = "reply"
             \/ ReadReplyNode(c) /\ req'[c].at \in {"idle", "answer"}
             \/ req'[c].at \notin At
  <2>1. ASSUME NEW i \in Ask, NEW to \in {"answered", "rejected"}, NEW who \in Actor,
               BeginReply(d, i, to, who)
        PROVE  BeginReply(c, i, to, who) /\ req'[c].at = "reply"
    <3>1. \E s : Become(d, s) /\ s.at = "reply"
      BY <2>1 DEF BeginReply
    <3>2. QED
      BY <1>2, <2>1, <3>1
  <2>2. ASSUME ReadReplyNode(d)
        PROVE  ReadReplyNode(c) /\ req'[c].at \in {"idle", "answer"}
    <3>1. \E s : Become(d, s) /\ s.at \in {"idle", "answer"}
      BY <2>2 DEF ReadReplyNode, Idle
    <3>2. QED
      BY <1>2, <2>2, <3>1
  <2>3. ASSUME ResolveAsk(d) PROVE req'[c].at \notin At
    <3>1. CASE ~StillOpen(req[d].ask) \/ req[d].copy.status # "waiting"
      BY <1>3, <2>3, <3>1 DEF ResolveAsk
    <3>2. CASE StillOpen(req[d].ask) /\ req[d].copy.status = "waiting"
      <4>1. PICK now : Become(d, [at |-> "resume", node |-> req[d].node, copy |-> req[d].copy,
                                  resolved |-> now])
        BY <2>3, <3>2 DEF ResolveAsk
      <4>2. QED
        BY <1>2, <4>1
    <3>3. QED
      BY <3>1, <3>2
  <2>4. CASE WriteResumed(d)
    BY <1>3, <2>4 DEF WriteResumed
  <2>5. QED
    BY <1>6, <2>1, <2>2, <2>3, <2>4 DEF ReplyStep
<1>7. ASSUME RunStep(d)
      PROVE  \/ ReadGraph(c) /\ req'[c].at \in {"idle", "open"}
             \/ ReadOpen(c) /\ req'[c].at \in {"idle", "finish"}
             \/ (\E to \in RunTo : BeginRunUpdate(c, to)) /\ req'[c].at \in {"graph", "finish"}
             \/ req'[c].at \notin At
  <2>1. \A at \in {"open", "finish"} :
          req[d].at \in {"graph", "open"} => [req[d] EXCEPT !.at = at].at = at
    BY StageFields
  <2>2. ASSUME NEW to \in RunTo, BeginRunUpdate(d, to)
        PROVE  BeginRunUpdate(c, to) /\ req'[c].at \in {"graph", "finish"}
    <3>1. PICK at \in {"graph", "finish"} : Become(d, [at |-> at, to |-> to])
      BY <2>2 DEF BeginRunUpdate
    <3>2. QED
      BY <1>2, <2>2, <3>1
  <2>3. ASSUME ReadGraph(d)
        PROVE  ReadGraph(c) /\ req'[c].at \in {"idle", "open"}
    <3>1. Become(d, Idle) \/ Become(d, [req[d] EXCEPT !.at = "open"])
      BY <2>3, Zenon DEF ReadGraph
    <3>2. [req[d] EXCEPT !.at = "open"].at = "open" /\ Idle.at = "idle"
      BY <2>1, <2>3 DEF ReadGraph, Idle
    <3>3. QED
      BY <1>2, <2>3, <3>1, <3>2
  <2>4. ASSUME ReadOpen(d)
        PROVE  ReadOpen(c) /\ req'[c].at \in {"idle", "finish"}
    <3>1. Become(d, Idle) \/ Become(d, [req[d] EXCEPT !.at = "finish"])
      BY <2>4, Zenon DEF ReadOpen
    <3>2. [req[d] EXCEPT !.at = "finish"].at = "finish" /\ Idle.at = "idle"
      BY <2>1, <2>4 DEF ReadOpen, Idle
    <3>3. QED
      BY <1>2, <2>4, <3>1, <3>2
  <2>5. CASE WriteRun(d)
    BY <1>3, <2>5 DEF WriteRun
  <2>6. QED
    BY <1>7, <2>2, <2>3, <2>4, <2>5 DEF RunStep
<1>8. QED
  BY <1>1, <1>3, <1>4, <1>5, <1>6, <1>7 DEF Step, Abandon

\* An approval is never lost: answers stand.
LEMMA ApprovedKept ==
  ASSUME GraphTypeOK, [GraphNext]_graphVars, NEW n, NEW t, Approved(n, t)
  PROVE  Approved(n, t)'
<1>1. PICK i \in Ask : /\ ask[i].status = "answered" /\ ask[i].node = n
                       /\ ask[i].by # Executor /\ ask[i].created >= t
  BY DEF Approved
<1>2. ask[i] # NoAsk /\ ~Pending(i)
  BY <1>1 DEF NoAsk, Pending
<1>3. QED
  BY <1>1, <1>2, AsksKept DEF Approved

\* The executor never answers at a gate.
LEMMA AnsweredByOthersStep ==
  ASSUME GraphTypeOK, AnsweredByOthers, RepliesAllowed, [GraphNext]_graphVars
  PROVE  AnsweredByOthers'
<1>1. CASE ask' = ask
  BY <1>1 DEF AnsweredByOthers
<1>2. ASSUME NEW k \in Ask, Asks(k) PROVE AnsweredByOthers'
  <2>1. \A i \in Ask \ {k} : ask'[i] = ask[i]
    BY <1>2 DEF Asks, GraphTypeOK
  <2>2. ask'[k].status = "pending"
    BY <1>2 DEF Asks, GraphTypeOK, NewAsk
  <2>3. QED
    BY <2>1, <2>2 DEF AnsweredByOthers
<1>3. ASSUME NEW k \in Ask, Rejects(k) PROVE AnsweredByOthers'
  <2>1. \A i \in Ask \ {k} : ask'[i] = ask[i]
    BY <1>3, ResolvedRow
  <2>2. ask[k] \in AskRow
    BY <1>3, ResolvedRow
  <2>3. [ask[k] EXCEPT !.status = "rejected"].status = "rejected"
    BY <2>2 DEF AskRow
  <2>4. ask'[k].status = "rejected"
    BY <1>3, <2>3 DEF Rejects, GraphTypeOK
  <2>5. QED
    BY <2>1, <2>4 DEF AnsweredByOthers
<1>4. ASSUME NEW k \in Ask, Resolves(k) PROVE AnsweredByOthers'
  <2>1. /\ \A i \in Ask \ {k} : ask'[i] = ask[i]
        /\ ask[k] \in AskRow /\ ask'[k].node = ask[k].node
    BY <1>4, ResolvedRow
  <2>2. PICK c \in Caller :
          /\ req[c].at = "answer" /\ req[c].ask = k
          /\ ask' = [ask EXCEPT ![k] = [ask[k] EXCEPT !.status = req[c].to, !.by = req[c].by]]
    BY <1>4 DEF Resolves
  <2>3. [ask[k] EXCEPT !.status = req[c].to, !.by = req[c].by].by = req[c].by
    BY <2>1 DEF AskRow
  <2>4. ask'[k].by = req[c].by
    BY <2>2, <2>3 DEF GraphTypeOK
  <2>5. ask[k].node \in Human => req[c].by # Executor
    BY <2>2 DEF RepliesAllowed, MayAnswer
  <2>6. QED
    BY <2>1, <2>4, <2>5 DEF AnsweredByOthers
<1>5. QED
  BY <1>1, <1>2, <1>3, <1>4, AskEffects

\* A reply in flight stays about the question it read.
LEMMA RepliesAllowedStep ==
  ASSUME GraphTypeOK, RepliesAllowed, [GraphNext]_graphVars
  PROVE  RepliesAllowed'
<1> SUFFICES ASSUME NEW c \in Caller
             PROVE  (/\ req[c].at \in {"reply", "answer"} =>
                          /\ ask[req[c].ask] # NoAsk
                          /\ ask[req[c].ask].node = req[c].node
                     /\ req[c].at = "answer" => MayAnswer(req[c].node, req[c].by))'
  BY DEF RepliesAllowed
<1>1. CASE req'[c] = req[c]
  <2>1. req[c].at \in {"reply", "answer"} => req[c].ask \in Ask
    BY StageFields
  <2>2. QED
    BY <1>1, <2>1, AsksKept DEF RepliesAllowed, MayAnswer
<1>2. CASE req'[c] # req[c] /\ req'[c].at = "reply"
  <2>1. PICK i \in Ask, to \in {"answered", "rejected"}, who \in Actor : BeginReply(c, i, to, who)
    BY <1>2, StageReached
  <2>2. req'[c] = [at |-> "reply", ask |-> i, node |-> ask[i].node, to |-> to, by |-> who]
    BY <2>1 DEF BeginReply, Become, GraphTypeOK
  <2>3. ask' = ask /\ ask[i] # NoAsk
    BY <2>1 DEF BeginReply, ReadOnly, Pending, NoAsk
  <2>4. QED
    BY <2>2, <2>3
<1>3. CASE req'[c] # req[c] /\ req'[c].at = "answer"
  <2>1. ReadReplyNode(c)
    BY <1>3, StageReached
  <2>2. MayAnswer(req[c].node, req[c].by)
    <3>1. SUFFICES ASSUME ~MayAnswer(req[c].node, req[c].by) PROVE FALSE
      OBVIOUS
    <3>2. req'[c] = Idle
      BY <2>1, <3>1 DEF ReadReplyNode, Become, GraphTypeOK
    <3>3. QED
      BY <1>3, <3>2 DEF Idle
  <2>3. req'[c] = [at |-> "answer", ask |-> req[c].ask, node |-> req[c].node, to |-> req[c].to,
                   by |-> req[c].by, copy |-> node[req[c].node], since |-> clock]
    BY <2>1, <2>2 DEF ReadReplyNode, Become, GraphTypeOK
  <2>4. ask' = ask /\ req[c].at = "reply"
    BY <2>1 DEF ReadReplyNode, ReadOnly
  <2>5. QED
    BY <2>2, <2>3, <2>4 DEF RepliesAllowed, MayAnswer
<1>4. QED
  BY <1>1, <1>2, <1>3

\* What ReadNodes and ReadAnswers leave behind.
LEMMA ReadNodesStage ==
  ASSUME GraphTypeOK, NEW c \in Caller, ReadNodes(c), req'[c].at \in {"answers", "write"}
  PROVE  /\ Allowed(req[c].node, req[c].to) /\ req[c].node \in Node
         /\ req'[c] = [at |-> IF req[c].node \in Human /\ req[c].to = "completed"
                              THEN "answers" ELSE "write",
                       node |-> req[c].node, to |-> req[c].to, copy |-> node[req[c].node],
                       since |-> clock]
<1>1. Allowed(req[c].node, req[c].to)
  <2>1. SUFFICES ASSUME ~Allowed(req[c].node, req[c].to) PROVE FALSE
    OBVIOUS
  <2>2. req'[c] = Idle
    BY <2>1 DEF ReadNodes, Become, GraphTypeOK
  <2>3. QED
    BY <2>2 DEF Idle
<1>2. req[c].node \in Node
  BY StageFields DEF ReadNodes
<1>3. QED
  BY <1>1, <1>2 DEF ReadNodes, Become, GraphTypeOK

LEMMA ReadAnswersStage ==
  ASSUME GraphTypeOK, NEW c \in Caller, ReadAnswers(c), req'[c].at = "write"
  PROVE  /\ AnsweredSince(req[c].node, req[c].copy.started)
         /\ req'[c].node = req[c].node /\ req'[c].copy = req[c].copy
<1>1. AnsweredSince(req[c].node, req[c].copy.started)
  <2>1. SUFFICES ASSUME ~AnsweredSince(req[c].node, req[c].copy.started) PROVE FALSE
    OBVIOUS
  <2>2. req'[c] = Idle
    BY <2>1 DEF ReadAnswers, Become, GraphTypeOK
  <2>3. QED
    BY <2>2 DEF Idle
<1>2. req'[c] = [req[c] EXCEPT !.at = "write", !.since = clock]
  BY <1>1, Zenon DEF ReadAnswers, Become, GraphTypeOK
<1>3. req[c] \in [at: {"answers", "write"}, node: Node, to: Status, copy: NodeRow, since: Stamp]
  BY StageFields DEF ReadAnswers
<1>4. QED
  BY <1>1, <1>2, <1>3

\* A request about to complete a gate has seen the gate's answer.
LEMMA CompletionsApprovedStep ==
  ASSUME GraphTypeOK, AnsweredByOthers, CompletionsApproved, [GraphNext]_graphVars
  PROVE  CompletionsApproved'
<1> SUFFICES ASSUME NEW c \in Caller
             PROVE  (/\ req[c].at = "answers" => req[c].node \in Human /\ req[c].copy.started # 0
                     /\ req[c].at = "write" /\ req[c].node \in Human /\ req[c].to = "completed" =>
                          /\ req[c].copy.started # 0
                          /\ Approved(req[c].node, req[c].copy.started))'
  BY DEF CompletionsApproved
<1>1. CASE req'[c] = req[c]
  <2>1. Approved(req[c].node, req[c].copy.started) =>
          Approved(req[c].node, req[c].copy.started)'
    <3>1. \A n, t : Approved(n, t) => Approved(n, t)'
      BY ApprovedKept
    <3>2. Approved(req[c].node, req[c].copy.started) =>
            \E i \in Ask : /\ ask'[i].status = "answered" /\ ask'[i].node = req[c].node
                           /\ ask'[i].by # Executor /\ ask'[i].created >= req[c].copy.started
      BY <3>1 DEF Approved
    <3>3. QED
      BY <1>1, <3>2 DEF Approved
  <2>2. QED
    BY <1>1, <2>1 DEF CompletionsApproved
<1>2. CASE req'[c] # req[c] /\ req'[c].at \in {"answers", "write"} /\ ReadNodes(c)
  <2>1. /\ req[c].node \in Human /\ req[c].to = "completed" => node[req[c].node].started # 0
        /\ req'[c].node = req[c].node /\ req'[c].to = req[c].to
        /\ req'[c].copy = node[req[c].node]
        /\ req'[c].at = IF req[c].node \in Human /\ req[c].to = "completed"
                        THEN "answers" ELSE "write"
    <3>1. Allowed(req[c].node, req[c].to)
      BY <1>2, ReadNodesStage
    <3>2. req[c].node \in Human /\ req[c].to = "completed" => node[req[c].node].started # 0
      BY <3>1 DEF Allowed
    <3>3. req'[c] = [at |-> IF req[c].node \in Human /\ req[c].to = "completed"
                            THEN "answers" ELSE "write",
                     node |-> req[c].node, to |-> req[c].to, copy |-> node[req[c].node],
                     since |-> clock]
      BY <1>2, ReadNodesStage
    <3>4. QED
      BY <3>2, <3>3
  <2>2. QED
    BY <1>2, <2>1
<1>3. CASE req'[c] # req[c] /\ req'[c].at = "write" /\ ReadAnswers(c)
  <2>1. /\ AnsweredSince(req[c].node, req[c].copy.started)
        /\ req'[c].node = req[c].node /\ req'[c].copy = req[c].copy
    BY <1>3, ReadAnswersStage
  <2>2. req[c].node \in Human /\ req[c].copy.started # 0
    BY <1>3 DEF ReadAnswers, CompletionsApproved
  <2>3. Approved(req[c].node, req[c].copy.started)
    BY <2>1, <2>2 DEF AnsweredSince, AnsweredByOthers, Approved
  <2>4. ask' = ask
    BY <1>3 DEF ReadAnswers, ReadOnly
  <2>5. QED
    BY <1>3, <2>1, <2>2, <2>3, <2>4 DEF Approved
<1>4. QED
  BY <1>1, <1>2, <1>3, StageReached

\* A refresh only ever lists nodes that are not finished.
LEMMA RefreshesUnfinishedStep ==
  ASSUME GraphTypeOK, RefreshesUnfinished, [GraphNext]_graphVars
  PROVE  RefreshesUnfinished'
<1> SUFFICES ASSUME NEW c \in Caller, req'[c].at = "ready"
             PROVE  \A u \in req'[c].todo : u.row.status # "completed"
  BY DEF RefreshesUnfinished
<1>1. CASE req'[c] = req[c]
  BY <1>1 DEF RefreshesUnfinished
<1>2. CASE RefreshReadiness(c)
  <2>1. \A n \in Unready :
          [node[n] EXCEPT !.status = Readiness(n)].status \in {"ready", "pending"}
    BY DEF Unready, Readiness, GraphTypeOK, NodeRow
  <2>2. DEFINE row(n) == [node[n] EXCEPT !.status = Readiness(n)]
               listed == {[node |-> n, row |-> row(n)] : n \in Unready}
  <2>3. Become(c, Readying(listed))
    BY <1>2 DEF RefreshReadiness
  <2> HIDE DEF row
  <2>4. \A u \in listed : u.row.status # "completed"
    <3>1. \A n \in Unready : row(n).status # "completed"
      BY <2>1 DEF row
    <3>2. QED
      BY <3>1
  <2> HIDE DEF listed
  <2>5. req'[c] = Readying(listed)
    BY <2>3 DEF Become, GraphTypeOK
  <2>6. req'[c].todo = listed
    BY <2>5 DEF Readying, Idle
  <2>7. QED
    BY <2>4, <2>6
<1>3. CASE WriteReadiness(c)
  <2>1. PICK v \in req[c].todo : req'[c] = Readying(req[c].todo \ {v})
    BY <1>3 DEF WriteReadiness, Become, GraphTypeOK
  <2>2. req'[c].todo \subseteq req[c].todo
    BY <2>1 DEF Readying, Idle
  <2>3. QED
    BY <1>3, <2>2 DEF WriteReadiness, RefreshesUnfinished
<1>4. QED
  BY <1>1, <1>2, <1>3, StageReached

\* What a step does to the nodes: nothing, or one row is written, finished only
\* by an update that was approved.
LEMMA NodeEffects ==
  ASSUME GateInv, [GraphNext]_graphVars
  PROVE  \/ node' = node
         \/ \E n \in Node, row \in NodeRow :
              /\ node' = [node EXCEPT ![n] = row]
              /\ ask' = ask
              /\ n \in Human /\ row.status = "completed" => Approved(n, row.started)
<1> DEFINE Writes(n, row) == /\ node' = [node EXCEPT ![n] = row]
                             /\ ask' = ask
                             /\ n \in Human /\ row.status = "completed" =>
                                  Approved(n, row.started)
<1> USE DEF GateInv
<1>1. CASE UNCHANGED graphVars \/ Tick \/ \E c \in Caller : Abandon(c)
  BY <1>1 DEF graphVars, Tick, Abandon, ReadOnly
<1>2. ASSUME NEW c \in Caller, WriteNode(c)
      PROVE  \E n \in Node, row \in NodeRow : Writes(n, row)
  <2>1. req[c] \in [at: {"answers", "write"}, node: Node, to: Status, copy: NodeRow,
                    since: Stamp]
    BY <1>2, StageFields DEF WriteNode
  <2>2. PICK now \in req[c].since..clock :
          SetNode(req[c].node, Updated(req[c].copy, req[c].to, now))
    BY <1>2 DEF WriteNode
  <2>3. now \in Time
    BY <2>1, StampTyped
  <2>4. DEFINE row == Updated(req[c].copy, req[c].to, now)
  <2>5. row \in NodeRow
    BY <2>1, <2>3, UpdatedTyped
  <2>6. req[c].node \in Human /\ row.status = "completed" => Approved(req[c].node, row.started)
    <3>1. row.status = req[c].to
      BY DEF Updated
    <3>2. req[c].copy.started # 0 => row.started = req[c].copy.started
      BY DEF Updated
    <3>3. QED
      BY <1>2, <3>1, <3>2 DEF WriteNode, CompletionsApproved
  <2> HIDE DEF row
  <2>7. Writes(req[c].node, row)
    BY <2>2, <2>6 DEF SetNode, row
  <2>8. QED
    BY <2>1, <2>5, <2>7
<1>3. ASSUME NEW c \in Caller, InvalidateNode(c)
      PROVE  \E n \in Node, row \in NodeRow : Writes(n, row)
  <2>1. req[c].todo \subseteq Node
    BY <1>3, StageFields DEF InvalidateNode
  <2>2. Unstarted \in NodeRow /\ Unstarted.status # "completed"
    BY GraphAssumption DEF Unstarted, NodeRow, Status, Time, GraphAssumption
  <2>3. PICK m \in req[c].todo : SetNode(m, Unstarted)
    BY <1>3 DEF InvalidateNode
  <2>4. QED
    BY <2>1, <2>2, <2>3 DEF SetNode
<1>4. ASSUME NEW c \in Caller, WriteReadiness(c)
      PROVE  \E n \in Node, row \in NodeRow : Writes(n, row)
  <2>1. PICK u \in req[c].todo : SetNode(u.node, u.row)
    BY <1>4 DEF WriteReadiness
  <2>2. u.node \in Node /\ u.row \in NodeRow
    BY <1>4, StageFields DEF WriteReadiness, Change
  <2>3. u.row.status # "completed"
    BY <1>4 DEF WriteReadiness, RefreshesUnfinished
  <2>4. QED
    BY <2>1, <2>2, <2>3 DEF SetNode
<1>5. ASSUME NEW c \in Caller, WriteWaiting(c)
      PROVE  \E n \in Node, row \in NodeRow : Writes(n, row)
  <2>1. req[c].node \in Node /\ req[c].copy \in NodeRow /\ req[c].created \in Stamp
    BY <1>5, StageFields DEF WriteWaiting
  <2>2. DEFINE row == [status |-> "waiting", completed |-> 0,
                       started |-> StartedBy(req[c].copy, req[c].created)]
  <2>3. row \in NodeRow /\ row.status # "completed"
    BY <2>1, GraphAssumption DEF NodeRow, StartedBy, Status, Time, Stamp, GraphAssumption
  <2>4. SetNode(req[c].node, row)
    BY <1>5 DEF WriteWaiting
  <2> HIDE DEF row
  <2>5. QED
    BY <2>1, <2>3, <2>4 DEF SetNode
<1>6. ASSUME NEW c \in Caller, WriteResumed(c)
      PROVE  \E n \in Node, row \in NodeRow : Writes(n, row)
  <2>1. req[c].node \in Node /\ req[c].copy \in NodeRow /\ req[c].resolved \in Stamp
    BY <1>6, StageFields DEF WriteResumed
  <2>2. DEFINE row == [req[c].copy EXCEPT !.status = "running",
                                          !.started = StartedBy(req[c].copy, req[c].resolved)]
  <2>3. row \in NodeRow
    BY <2>1 DEF NodeRow, StartedBy, Status, Stamp
  <2>4. row.status = "running"
    BY <2>1 DEF NodeRow
  <2> HIDE DEF row
  <2>5. Writes(req[c].node, row)
    BY <1>6, <2>4 DEF WriteResumed, SetNode, row
  <2>6. QED
    BY <2>1, <2>3, <2>5
<1>7. ASSUME NEW c \in Caller, Step(c),
             ~WriteNode(c), ~InvalidateNode(c), ~WriteReadiness(c), ~WriteWaiting(c),
             ~WriteResumed(c)
      PROVE  node' = node
  <2>1. CASE UpdateStep(c)
    BY <1>7, <2>1 DEF UpdateStep, BeginUpdate, ReadNodes, ReadAnswers, ReadPending, RejectAsk,
                      RefreshReadiness, SetAsk, ReadOnly
  <2>2. CASE AskStep(c)
    BY <1>7, <2>2 DEF AskStep, BeginAsk, ReadNode, ReadDependencies, ReadWaits, InsertAsk,
                      SetAsk, ReadOnly
  <2>3. CASE ReplyStep(c)
    BY <1>7, <2>3 DEF ReplyStep, BeginReply, ReadReplyNode, ResolveAsk, SetAsk, ReadOnly
  <2>4. CASE RunStep(c)
    BY <2>4 DEF RunStep, BeginRunUpdate, ReadGraph, ReadOpen, WriteRun, ReadOnly
  <2>5. QED
    BY <1>7, <2>1, <2>2, <2>3, <2>4 DEF Step
<1>8. QED
  BY <1>1, <1>2, <1>3, <1>4, <1>5, <1>6, <1>7 DEF GraphNext

\* A gate's answer outlives every step, and a gate is completed only with one.
LEMMA GateStep == GateInv /\ [GraphNext]_graphVars => GateInv'
<1> SUFFICES ASSUME GateInv, [GraphNext]_graphVars PROVE GateInv'
  OBVIOUS
<1>1. \A n, t : Approved(n, t) => Approved(n, t)'
  BY ApprovedKept DEF GateInv
<1>2. \A n \in Human : node[n].status = "completed" => Approved(n, node[n].started)
  BY DEF GateInv, GateNeedsAnswer, Approved
<1>3. CASE node' = node
  <2>1. \A n \in Human : node[n].status = "completed" => Approved(n, node[n].started)'
    <3>1. ASSUME NEW n \in Human, node[n].status = "completed"
          PROVE  \E i \in Ask : /\ ask'[i].status = "answered" /\ ask'[i].node = n
                                /\ ask'[i].by # Executor /\ ask'[i].created >= node[n].started
      <4>1. PICK t : t = node[n].started
        OBVIOUS
      <4>2. Approved(n, t)'
        BY <1>1, <1>2, <3>1, <4>1
      <4>3. QED
        BY <4>1, <4>2 DEF Approved
    <3>2. QED
      BY <1>3, <3>1 DEF Approved
  <2>2. QED
    BY <1>3, <2>1, GraphTypeStep, AnsweredByOthersStep, RepliesAllowedStep,
       CompletionsApprovedStep, RefreshesUnfinishedStep
    DEF GateInv, GateNeedsAnswer, Approved
<1>4. ASSUME NEW n \in Node, NEW row \in NodeRow,
             node' = [node EXCEPT ![n] = row], ask' = ask,
             n \in Human /\ row.status = "completed" => Approved(n, row.started)
      PROVE  GateNeedsAnswer'
  <2>1. node'[n] = row /\ \A m \in Human \ {n} : node'[m] = node[m]
    BY <1>4, GraphAssumption DEF GateInv, GraphTypeOK, GraphAssumption
  <2>2. QED
    BY <1>2, <1>4, <2>1 DEF GateNeedsAnswer, Approved
<1>5. QED
  BY <1>3, <1>4, NodeEffects, GraphTypeStep, AnsweredByOthersStep, RepliesAllowedStep,
     CompletionsApprovedStep, RefreshesUnfinishedStep DEF GateInv

\* The strengthened invariant holds throughout.
LEMMA GateInvHolds == GraphSpec => []GateInv
<1>1. GraphInit => GateInv
  <2>1. SUFFICES ASSUME GraphInit PROVE GateInv
    OBVIOUS
  <2>2. /\ ask = [i \in Ask |-> NoAsk]
        /\ req = [c \in Caller |-> Idle]
    BY <2>1 DEF GraphInit
  <2>3. /\ \A i \in Ask : ask[i].status = "none"
        /\ \A c \in Caller : req[c].at = "idle"
    BY <2>2 DEF NoAsk, Idle
  <2>4. \A n \in Human : node[n].status # "completed"
    <3>1. \A n \in Node : node[n].status \in {"ready", "pending"}
      BY <2>1, Z3 DEF GraphInit, Unstarted
    <3>2. QED
      BY <3>1, GraphAssumption DEF GraphAssumption
  <2>5. QED
    BY <2>1, <2>3, <2>4, GraphTypeInit
    DEF GateInv, GateNeedsAnswer, AnsweredByOthers, RepliesAllowed, CompletionsApproved,
        RefreshesUnfinished
<1>2. QED
  BY <1>1, GateStep, PTL DEF GraphSpec

\* "Human gates require a fresh response from an actor other than the executing
\* Agent": a completed gate has one, to a question asked since the gate was
\* started, whatever stale rows the requests in flight write back.
THEOREM GateAlwaysAnswered == GraphSpec => []GateNeedsAnswer
BY GateInvHolds, PTL DEF GateInv

-----------------------------------------------------------------------------
\* The rows implement HumanGate.

\* A row of a question without its date.
Undated(row) == IF row = NoAsk THEN NoAsk
                ELSE [status |-> row.status, node |-> row.node, by |-> row.by]

\* What HumanGate sees of the questions.
LEMMA SeenQuestions ==
  /\ Questions = [i \in Ask |-> Undated(ask[i])]
  /\ \A i \in Ask : Gates!Open(i) <=> Pending(i)
  /\ \A i \in Ask : ask[i] # NoAsk => /\ Questions[i].status = ask[i].status
                                    /\ Questions[i].node = ask[i].node
                                    /\ Questions[i].by = ask[i].by
BY DEF Questions, Undated, Gates!Open, Pending, NoAsk

\* One row changes what is seen of one question.
LEMMA OneQuestionChanges ==
  ASSUME GraphTypeOK, NEW i \in Ask, NEW row, ask' = [ask EXCEPT ![i] = row]
  PROVE  Questions' = [Questions EXCEPT ![i] = Undated(row)]
BY DEF Questions, Undated, GraphTypeOK

\* A question is put where none is open.
LEMMA AsksIsPut ==
  ASSUME GraphTypeOK, NEW i \in Ask, Asks(i), Passed' = Passed
  PROVE  Gates!Next
<1>1. PICK c \in Caller, now \in Stamp :
        /\ req[c].at = "insert" /\ PendingAt(req[c].node) = {}
        /\ ask[i] = NoAsk
        /\ ask' = [ask EXCEPT ![i] = NewAsk(req[c].node, now)]
  BY DEF Asks
<1>2. PICK n \in Node : n = req[c].node
  BY <1>1, StageFields
<1>3. Undated(NewAsk(n, now)) = [status |-> "pending", node |-> n, by |-> Nobody]
  BY DEF Undated, NewAsk, NoAsk
<1>4. Questions' = [Questions EXCEPT ![i] = [status |-> "pending", node |-> n, by |-> Nobody]]
  BY <1>1, <1>2, <1>3, OneQuestionChanges
<1>5. Questions[i] = NoAsk
  BY <1>1 DEF Questions
<1>6. \A j \in Ask : Gates!Open(j) => Questions[j].node # n
  BY <1>1, <1>2, SeenQuestions DEF PendingAt, Pending, NoAsk
<1>7. Gates!Put(i, n)
  BY <1>4, <1>5, <1>6 DEF Gates!Put, Gates!Unasked, NoAsk
<1>8. QED
  BY <1>7 DEF Gates!Next

\* A question that is pending is withdrawn.
LEMMA RejectsIsWithdraw ==
  ASSUME GraphTypeOK, NEW i \in Ask, Rejects(i), Passed' = Passed
  PROVE  Gates!Next
<1>1. Pending(i) /\ ask[i] \in AskRow /\ ask[i] # NoAsk
  BY PendingIsARow DEF Rejects, Pending, NoAsk
<1>2. ask' = [ask EXCEPT ![i] = [ask[i] EXCEPT !.status = "rejected"]]
  BY DEF Rejects
<1>3. Undated([ask[i] EXCEPT !.status = "rejected"]) = [Questions[i] EXCEPT !.status = "rejected"]
  <2>1. Questions[i] = [status |-> ask[i].status, node |-> ask[i].node, by |-> ask[i].by]
    BY <1>1 DEF Questions
  <2>2. [ask[i] EXCEPT !.status = "rejected"] # NoAsk
    BY <1>1 DEF AskRow, NoAsk
  <2>3. QED
    BY <1>1, <2>1, <2>2 DEF Undated, AskRow
<1>4. Questions' = [Questions EXCEPT ![i] = [Questions[i] EXCEPT !.status = "rejected"]]
  BY <1>2, <1>3, OneQuestionChanges
<1>5. Gates!Withdraw(i)
  BY <1>1, <1>4, SeenQuestions DEF Gates!Withdraw
<1>6. QED
  BY <1>5 DEF Gates!Next

\* A reply is to a question that is pending still, from somebody who may answer.
LEMMA ResolvesIsReply ==
  ASSUME GateInv, NEW i \in Ask, Resolves(i), Passed' = Passed
  PROVE  Gates!Next
<1>1. GraphTypeOK /\ RepliesAllowed
  BY DEF GateInv
<1>2. Pending(i) /\ ask[i] \in AskRow /\ ask[i] # NoAsk
  BY <1>1, PendingIsARow DEF Resolves, Pending, NoAsk
<1>3. PICK c \in Caller :
        /\ req[c].at = "answer" /\ req[c].ask = i /\ Pending(i)
        /\ ask' = [ask EXCEPT ![i] = [ask[i] EXCEPT !.status = req[c].to, !.by = req[c].by]]
  BY Zenon DEF Resolves
<1>4. PICK to \in {"answered", "rejected"}, who \in Actor : to = req[c].to /\ who = req[c].by
  BY <1>1, <1>3, StageFields
<1>5. ask[i].node \in Human => who # Executor
  BY <1>1, <1>2, <1>3, <1>4 DEF RepliesAllowed, MayAnswer
<1>6. DEFINE row == [ask[i] EXCEPT !.status = to, !.by = who]
<1>7. Undated(row) = [Questions[i] EXCEPT !.status = to, !.by = who]
  <2>1. Questions[i] = [status |-> ask[i].status, node |-> ask[i].node, by |-> ask[i].by]
    BY <1>2 DEF Questions
  <2>2. row \in AskRow
    BY <1>2 DEF AskRow
  <2>3. row.status = to /\ row.node = ask[i].node /\ row.by = who
    BY <1>2 DEF AskRow
  <2>4. Undated(row) = [status |-> to, node |-> ask[i].node, by |-> who]
    <3>1. row # NoAsk
      BY <2>2 DEF AskRow, NoAsk
    <3>2. HIDE DEF row
    <3>3. QED
      BY <2>3, <3>1 DEF Undated
  <2>5. HIDE DEF row
  <2>6. [Questions[i] EXCEPT !.status = to, !.by = who]
          = [status |-> to, node |-> ask[i].node, by |-> who]
    <3>1. DEFINE settled == [Questions[i] EXCEPT !.status = to]
    <3>2. settled = [status |-> to, node |-> ask[i].node, by |-> ask[i].by]
      BY <2>1
    <3>3. HIDE DEF settled
    <3>4. [settled EXCEPT !.by = who] = [status |-> to, node |-> ask[i].node, by |-> who]
      BY <3>2
    <3>5. QED
      BY <3>4, Zenon DEF settled
  <2>7. QED
    BY <2>4, <2>6
<1>8. ask' = [ask EXCEPT ![i] = row]
  BY <1>3, <1>4
<1>9. HIDE DEF row
<1>10. Questions' = [Questions EXCEPT ![i] = [Questions[i] EXCEPT !.status = to, !.by = who]]
  BY <1>1, <1>7, <1>8, OneQuestionChanges
<1>11. Gates!Reply(i, to, who)
  BY <1>2, <1>5, <1>10, SeenQuestions DEF Gates!Reply
<1>12. QED
  BY <1>4, <1>11 DEF Gates!Next

\* A row of a node passes one gate, reopens one, or is none of HumanGate's business.
LEMMA NodeRowPasses ==
  ASSUME GateInv, NEW n \in Node, NEW row \in NodeRow,
         node' = [node EXCEPT ![n] = row], ask' = ask,
         n \in Human /\ row.status = "completed" => Approved(n, row.started)
  PROVE  [Gates!Next]_<<Questions, Passed>>
<1> USE DEF GateInv
<1>1. Questions' = Questions
  BY DEF Questions
<1>2. node'[n] = row /\ \A m \in Human \ {n} : node'[m] = node[m]
  BY GraphAssumption DEF GraphTypeOK, GraphAssumption
<1>3. CASE n \notin Human
  BY <1>1, <1>2, <1>3 DEF Passed
<1>4. CASE n \in Human /\ row.status = "completed"
  <2>1. Passed' = Passed \cup {n}
    BY <1>2, <1>4 DEF Passed
  <2>2. PICK i \in Ask : ask[i].status = "answered" /\ ask[i].node = n
    BY <1>4 DEF Approved
  <2>3. Gates!Answered(n)
    BY <2>2, SeenQuestions DEF Gates!Answered, NoAsk
  <2>4. Gates!Pass(n)
    BY <1>1, <2>1, <2>3 DEF Gates!Pass
  <2>5. QED
    BY <1>4, <2>4 DEF Gates!Next
<1>5. CASE n \in Human /\ row.status # "completed"
  <2>1. Passed' = Passed \ {n}
    BY <1>2, <1>5 DEF Passed
  <2>2. Gates!Reopen(n)
    BY <1>1, <2>1 DEF Gates!Reopen
  <2>3. QED
    BY <1>5, <2>2 DEF Gates!Next
<1>6. QED
  BY <1>3, <1>4, <1>5

\* A step writes one row of a node or one row of a question, never both.
LEMMA QuestionsOrNodes ==
  ASSUME GraphTypeOK, [GraphNext]_graphVars, ask' # ask
  PROVE  node' = node
<1>1. ASSUME NEW c \in Caller, Step(c) PROVE node' = node
  <2>1. CASE UpdateStep(c)
    BY <2>1 DEF UpdateStep, BeginUpdate, ReadNodes, ReadAnswers, WriteNode, InvalidateNode,
                ReadPending, RejectAsk, RefreshReadiness, WriteReadiness, SetNode, SetAsk,
                ReadOnly
  <2>2. CASE AskStep(c)
    BY <2>2 DEF AskStep, BeginAsk, ReadNode, ReadDependencies, ReadWaits, InsertAsk,
                WriteWaiting, SetNode, SetAsk, ReadOnly
  <2>3. CASE ReplyStep(c)
    BY <2>3 DEF ReplyStep, BeginReply, ReadReplyNode, ResolveAsk, WriteResumed, SetNode,
                SetAsk, ReadOnly
  <2>4. CASE RunStep(c)
    BY <2>4 DEF RunStep, BeginRunUpdate, ReadGraph, ReadOpen, WriteRun, ReadOnly
  <2>5. QED
    BY <1>1, <2>1, <2>2, <2>3, <2>4 DEF Step
<1>2. QED
  BY <1>1 DEF GraphNext, graphVars, Tick, Abandon, ReadOnly

\* The rows keep the promise of HumanGate, whatever stale rows and late replies the
\* requests in flight bring.
THEOREM GraphImplementsGates == GraphSpec => ImplementsGates
<1>1. GraphInit => Gates!Init
  <2>1. SUFFICES ASSUME GraphInit PROVE Gates!Init
    OBVIOUS
  <2>2. Questions = [i \in Ask |-> NoAsk]
    BY <2>1 DEF GraphInit, Questions
  <2>3. \A n \in Human : node[n].status # "completed"
    <3>1. \A n \in Node : node[n].status \in {"ready", "pending"}
      BY <2>1, Z3 DEF GraphInit, Unstarted
    <3>2. QED
      BY <3>1, GraphAssumption DEF GraphAssumption
  <2>4. QED
    BY <2>2, <2>3 DEF Gates!Init, Gates!Unasked, NoAsk, Passed
<1>2. GateInv /\ [GraphNext]_graphVars => [Gates!Next]_<<Questions, Passed>>
  <2>1. SUFFICES ASSUME GateInv, [GraphNext]_graphVars
                 PROVE  [Gates!Next]_<<Questions, Passed>>
    OBVIOUS
  <2>2. GraphTypeOK
    BY <2>1 DEF GateInv
  <2>3. CASE ask' # ask
    <3>1. Passed' = Passed
      BY <2>1, <2>2, <2>3, QuestionsOrNodes DEF Passed
    <3>2. QED
      BY <2>1, <2>2, <2>3, <3>1, AskEffects, AsksIsPut, RejectsIsWithdraw, ResolvesIsReply
  <2>4. CASE ask' = ask /\ node' = node
    BY <2>4 DEF Questions, Passed
  <2>5. CASE ask' = ask /\ node' # node
    BY <2>1, <2>5, NodeEffects, NodeRowPasses
  <2>6. QED
    BY <2>3, <2>4, <2>5
<1>3. QED
  BY <1>1, <1>2, GateInvHolds, PTL DEF GraphSpec, ImplementsGates, Gates!Spec

-----------------------------------------------------------------------------
\* Completed runs.

Resolved == Whole /\ \A i \in Ask : ~Pending(i)

\* What a request that completes the run has seen, and that nothing is in flight
\* or can begin once it has.
CompletionInv ==
  /\ GraphTypeOK
  /\ run = "completed" => Resolved /\ \A c \in Caller : req[c] = Idle
  /\ \A c \in Caller : req[c].at = "open" => Whole
  /\ \A c \in Caller : req[c].at = "finish" /\ req[c].to = "completed" => Resolved

\* A completed run accepts no request.
LEMMA CompletedRunIsClosed ==
  ASSUME CompletionInv, run = "completed", NEW c \in Caller, Step(c)
  PROVE  FALSE
<1>1. req[c].at = "idle" /\ Terminal(run) /\ \A i \in Ask : ~Pending(i)
  BY DEF CompletionInv, Resolved, Terminal, Idle
<1>2. ~UpdateStep(c)
  BY <1>1 DEF UpdateStep, BeginUpdate, ReadNodes, ReadAnswers, WriteNode, InvalidateNode,
              ReadPending, RejectAsk, RefreshReadiness, WriteReadiness
<1>3. ~AskStep(c)
  BY <1>1 DEF AskStep, BeginAsk, ReadNode, ReadDependencies, ReadWaits, InsertAsk, WriteWaiting
<1>4. ~ReplyStep(c)
  BY <1>1 DEF ReplyStep, BeginReply, ReadReplyNode, ResolveAsk, WriteResumed
<1>5. ~RunStep(c)
  BY <1>1 DEF RunStep, BeginRunUpdate, ReadGraph, ReadOpen, WriteRun
<1>6. QED
  BY <1>2, <1>3, <1>4, <1>5 DEF Step

\* With a single caller the reading of the graph still holds when the run is
\* written.
LEMMA CompletionStep ==
  ASSUME CompletionInv, [PatientNext]_graphVars, \A b, c \in Caller : b = c
  PROVE  CompletionInv'
<1>1. [GraphNext]_graphVars
  BY DEF PatientNext, GraphNext
<1>2. GraphTypeOK'
  BY <1>1, GraphTypeStep DEF CompletionInv
<1>3. CASE UNCHANGED <<run, node, ask, req>>
  BY <1>2, <1>3 DEF CompletionInv, Resolved, Whole, Pending
<1>4. ASSUME NEW c \in Caller, Step(c) PROVE CompletionInv'
  <2>1. run # "completed"
    BY <1>4, CompletedRunIsClosed
  <2>2. CASE WriteRun(c)
    <3>1. req'[c] = Idle /\ \A d \in Caller : d = c
      BY <2>2 DEF WriteRun, Become, CompletionInv, GraphTypeOK
    <3>2. run' = req[c].to /\ req[c].at = "finish" /\ node' = node /\ ask' = ask
      BY <2>2 DEF WriteRun
    <3>3. req[c].to = "completed" => Resolved'
      BY <3>2 DEF CompletionInv, Resolved, Whole, Pending
    <3>4. QED
      BY <1>2, <3>1, <3>2, <3>3 DEF CompletionInv, Idle
  <2>3. CASE ~WriteRun(c)
    <3>1. run' = run
      BY <1>4, <2>3 DEF Step, UpdateStep, AskStep, ReplyStep, RunStep, BeginUpdate, ReadNodes,
        ReadAnswers, WriteNode, InvalidateNode, ReadPending, RejectAsk, RefreshReadiness,
        WriteReadiness, BeginAsk, ReadNode, ReadDependencies, ReadWaits, InsertAsk, WriteWaiting,
        BeginReply, ReadReplyNode, ResolveAsk, WriteResumed, BeginRunUpdate, ReadGraph, ReadOpen,
        SetNode, SetAsk, ReadOnly
    <3>2. ASSUME NEW d \in Caller, req'[d].at \in {"open", "finish"}
          PROVE  /\ req'[d].at = "open" => Whole'
                 /\ req'[d].at = "finish" /\ req'[d].to = "completed" => Resolved'
      <4>1. d = c /\ req'[c] # req[c]
        <5>1. d = c
          OBVIOUS
        <5>2. CASE req'[c] = req[c]
          <6>1. req[c].at \in {"open", "finish"}
            BY <3>2, <5>1, <5>2
          <6>2. ReadOpen(c)
            <7>1. Busy(c)
              BY <6>1 DEF Busy, Idle
            <7>2. ~UpdateStep(c)
              BY <6>1, <7>1 DEF UpdateStep, BeginUpdate, ReadNodes, ReadAnswers, WriteNode,
                InvalidateNode, ReadPending, RejectAsk, RefreshReadiness, WriteReadiness
            <7>3. ~AskStep(c)
              BY <6>1, <7>1 DEF AskStep, BeginAsk, ReadNode, ReadDependencies, ReadWaits,
                InsertAsk, WriteWaiting
            <7>4. ~ReplyStep(c)
              BY <6>1, <7>1 DEF ReplyStep, BeginReply, ReadReplyNode, ResolveAsk, WriteResumed
            <7>5. RunStep(c) => ReadOpen(c)
              BY <2>3, <6>1, <7>1 DEF RunStep, BeginRunUpdate, ReadGraph
            <7>6. QED
              BY <1>4, <7>2, <7>3, <7>4, <7>5 DEF Step
          <6>3. req[c].at = "open" /\ req'[c].at # "open"
            <7>1. [req[c] EXCEPT !.at = "finish"].at = "finish" /\ Idle.at = "idle"
              BY <6>2, StageFields DEF ReadOpen, Idle, CompletionInv
            <7>2. req'[c] = Idle \/ req'[c] = [req[c] EXCEPT !.at = "finish"]
              BY <6>2, Zenon DEF ReadOpen, Become, CompletionInv, GraphTypeOK
            <7>3. QED
              BY <6>2, <7>1, <7>2 DEF ReadOpen
          <6>4. QED
            BY <5>2, <6>3
        <5>3. QED
          BY <5>1, <5>2
      <4>2. CASE req'[c].at = "open"
        <5>1. ReadGraph(c)
          BY <1>1, <4>1, <4>2, StageReached DEF CompletionInv
        <5>2. Whole
          <6>1. SUFFICES ASSUME ~Whole PROVE FALSE
            OBVIOUS
          <6>2. req'[c] = Idle
            BY <5>1, <6>1, Zenon DEF ReadGraph, Become, CompletionInv, GraphTypeOK
          <6>3. QED
            BY <4>2, <6>2 DEF Idle
        <5>3. QED
          BY <4>1, <4>2, <5>1, <5>2 DEF ReadGraph, ReadOnly, Whole
      <4>3. CASE req'[c].at = "finish" /\ req'[c].to = "completed"
        <5>1. ReadOpen(c) \/ \E to \in RunTo : BeginRunUpdate(c, to)
          BY <1>1, <4>1, <4>3, StageReached DEF CompletionInv
        <5>2. ASSUME NEW to \in RunTo, BeginRunUpdate(c, to) PROVE FALSE
          <6>1. req'[c] = [at |-> IF to = "completed" THEN "graph" ELSE "finish", to |-> to]
            BY <5>2 DEF BeginRunUpdate, Become, CompletionInv, GraphTypeOK
          <6>2. QED
            BY <4>3, <6>1
        <5>3. \A i \in Ask : ~Pending(i)
          <6>1. SUFFICES ASSUME \E i \in Ask : Pending(i) PROVE FALSE
            OBVIOUS
          <6>2. req'[c] = Idle
            BY <5>1, <5>2, <6>1, Zenon DEF ReadOpen, Become, CompletionInv, GraphTypeOK
          <6>3. QED
            BY <4>3, <6>2 DEF Idle
        <5>4. QED
          BY <4>1, <4>3, <5>1, <5>2, <5>3
          DEF ReadOpen, ReadOnly, CompletionInv, Resolved, Whole, Pending
      <4>4. QED
        BY <3>2, <4>1, <4>2, <4>3
    <3>3. QED
      BY <1>2, <2>1, <3>1, <3>2 DEF CompletionInv
  <2>4. QED
    BY <2>2, <2>3
<1>5. QED
  BY <1>3, <1>4 DEF PatientNext, Tick, graphVars

\* "The server rejects completion while a node or human interrupt remains open",
\* and opens none afterwards: with one request at a time the reading of the graph
\* and of the open questions still holds when the run is written.  (With two it
\* does not, so the hypothesis cannot go.)
THEOREM SerialCompletedRunIsWhole ==
  ASSUME \A b, c \in Caller : b = c
  PROVE  PatientGraphSpec => []CompletedRunIsWhole
<1>1. GraphInit => CompletionInv
  <2>1. SUFFICES ASSUME GraphInit PROVE CompletionInv
    OBVIOUS
  <2>2. \A c \in Caller : req[c].at = "idle"
    BY <2>1 DEF GraphInit, Idle
  <2>3. run = "running"
    BY <2>1 DEF GraphInit
  <2>4. QED
    BY <2>1, <2>2, <2>3, GraphTypeInit DEF CompletionInv
<1>2. CompletionInv /\ [PatientNext]_graphVars => CompletionInv'
  BY CompletionStep
<1>3. CompletionInv => CompletedRunIsWhole
  BY DEF CompletionInv, CompletedRunIsWhole, Resolved
<1>4. QED
  BY <1>1, <1>2, <1>3, PTL DEF PatientGraphSpec
-----------------------------------------------------------------------------
\* Work in the order of the graph.

\* What depends on a node or on anything downstream of it is downstream of it,
\* and the node depends on nothing of that: the definition has no cycle.
LEMMA DownstreamFacts ==
  ASSUME NEW n \in Node
  PROVE  /\ n \notin Downstream(n)
         /\ \A m \in Node : DependsOn[m] \cap ({n} \cup Downstream(n)) # {}
                              => m \in Downstream(n)
<1> DEFINE Closed(S) == n \in S /\ \A m \in Node : DependsOn[m] \cap S # {} => m \in S
           D == {m \in Node : \A S \in SUBSET Node : Closed(S) => m \in S}
<1>1. Downstream(n) = D \ {n}
  BY DEF Downstream
<1>2. n \in D /\ D \in SUBSET Node
  OBVIOUS
<1>3. \A m \in Node : DependsOn[m] \cap D # {} => m \in D
  <2>1. SUFFICES ASSUME NEW m \in Node, NEW d \in DependsOn[m] \cap D,
                        NEW S \in SUBSET Node, Closed(S)
                 PROVE  m \in S
    OBVIOUS
  <2>2. d \in S
    BY <2>1
  <2>3. QED
    BY <2>1, <2>2
<1>4. \A x \in D \ {n} : DependsOn[x] \cap D # {}
  <2>1. SUFFICES ASSUME NEW x \in D \ {n}, DependsOn[x] \cap D = {}
                 PROVE  FALSE
    OBVIOUS
  <2>2. \A m \in Node : DependsOn[m] \cap (D \ {x}) # {} => m \in D \ {x}
    BY <1>3, <2>1
  <2>3. Closed(D \ {x}) /\ D \ {x} \in SUBSET Node
    BY <1>2, <2>2
  <2>4. x \in D \ {x}
    BY <2>3
  <2>5. QED
    BY <2>4
<1> HIDE DEF D
<1>5. DependsOn[n] \cap D = {}
  <2>1. SUFFICES ASSUME DependsOn[n] \cap D # {} PROVE FALSE
    OBVIOUS
  <2>2. \A x \in D : DependsOn[x] \cap D # {}
    BY <1>4, <2>1
  <2>3. QED
    BY <1>2, <2>2, GraphAssumption DEF GraphAssumption
<1>6. \A m \in Node : DependsOn[m] \cap D # {} => m \in D \ {n}
  BY <1>3, <1>5
<1>7. {n} \cup Downstream(n) = D
  BY <1>1, <1>2
<1>8. QED
  BY <1>1, <1>6, <1>7

UnderWay == {"running", "waiting", "completed", "skipped"}
InOrder(n) == node[n].status \in UnderWay => Met(n)
Settled(n) == node[n].status \in {"pending", "ready"} => node[n].status = Readiness(n)

\* The request q is still to take n back, or to look at its readiness.
Invalidates(q, n) == q.at = "invalidate" /\ n \in q.todo
Repairs(q, n) ==
  \/ q.at \in {"invalidate", "pending", "reject", "refresh"}
  \/ q.at = "ready" /\ \E u \in q.todo : u.node = n

\* The row a refresh writes.
Refreshed(n) == [node[n] EXCEPT !.status = Readiness(n)]

\* What the request q has read is still so.
ReadsHold(q) ==
  /\ q.at \in {"answers", "write"} =>
       q.copy = node[q.node] /\ (q.to \in UnderWay => Met(q.node))
  /\ q.at = "invalidate" =>
       /\ q.todo \subseteq Downstream(q.node)
       /\ \A m \in Downstream(q.node) \ q.todo : node[m].status = "pending"
  /\ q.at = "reject" => \A i \in q.todo : Pending(i)
  /\ q.at = "ready" => \A u \in q.todo :
       /\ node[u.node].status \in {"pending", "ready"}
       /\ u.row = Refreshed(u.node)
  /\ q.at \in {"deps", "waits", "insert", "wait"} =>
       q.copy = node[q.node] /\ q.copy.status \in {"ready", "running", "failed"}
  /\ q.at \in {"waits", "insert", "wait"} => Met(q.node)
  /\ q.at \in {"answer", "resume"} => q.copy = node[q.node]
  /\ q.at = "resume" => q.copy.status = "waiting"

SerialInv ==
  /\ GraphTypeOK
  /\ \A n \in Node : InOrder(n) \/ \E c \in Caller : Invalidates(req[c], n)
  /\ \A n \in Node : Settled(n) \/ \E c \in Caller : Repairs(req[c], n)
  /\ \A c \in Caller : ReadsHold(req[c])

\* A request that repairs nothing finds the graph in order.
Calm(q) == q.at \notin {"invalidate", "pending", "reject", "refresh", "ready"}

\* A request that repairs nothing and writes no node leaves the graph in order.
LEMMA CalmStep ==
  ASSUME SerialInv, \A b, c \in Caller : b = c, GraphTypeOK',
         NEW c \in Caller, Calm(req[c]), node' = node, ReadsHold(req[c])'
  PROVE  SerialInv'
<1>1. \A n \in Node : InOrder(n) /\ Settled(n)
  BY DEF SerialInv, Calm, Invalidates, Repairs
<1>2. \A n \in Node : InOrder(n)' /\ Settled(n)'
  BY <1>1 DEF InOrder, Settled, Met, Readiness
<1>3. QED
  BY <1>2 DEF SerialInv

\* A write leaves alone the dependencies of the nodes that do not wait for it, and
\* of all nodes if it does not change whether the row satisfies them.
LEMMA MetKept ==
  ASSUME GraphTypeOK, NEW m \in Node, NEW r \in NodeRow, node' = [node EXCEPT ![m] = r],
         NEW x \in Node,
         m \in DependsOn[x] =>
           (SatisfiesDependency(node[m].status) <=> SatisfiesDependency(r.status))
  PROVE  Met(x)' <=> Met(x)
<1>1. \A d \in DependsOn[x] : SatisfiesDependency(node'[d].status)
                                <=> SatisfiesDependency(node[d].status)
  BY GraphAssumption DEF GraphAssumption, GraphTypeOK
<1>2. QED
  BY <1>1 DEF Met
\* A request that has ended has nothing left to hold.
LEMMA IdleHolds ==
  ASSUME NEW c \in Caller, req'[c] = Idle
  PROVE  ReadsHold(req[c])'
BY DEF ReadsHold, Idle

\* A request that does not run repairs nothing.
LEMMA IdleIsCalm == Calm(Idle)
BY DEF Calm, Idle

\* The steps of an update before it writes.
LEMMA UpdateReadsSerial ==
  ASSUME SerialInv, \A b, c \in Caller : b = c, GraphTypeOK', NEW c \in Caller,
         \/ \E n \in Node, to \in UpdateTo : BeginUpdate(c, n, to)
         \/ ReadNodes(c) \/ ReadAnswers(c)
  PROVE  SerialInv'
<1>t. GraphTypeOK /\ ReadsHold(req[c])
  BY DEF SerialInv
<1>1. ASSUME NEW n \in Node, NEW to \in UpdateTo, BeginUpdate(c, n, to)
      PROVE  SerialInv'
  <2>1. req'[c] = [at |-> "nodes", node |-> n, to |-> to]
    BY <1>t, <1>1 DEF BeginUpdate, Become, GraphTypeOK
  <2>2. ReadsHold(req[c])'
    BY <2>1 DEF ReadsHold
  <2>3. node' = node /\ Calm(req[c])
    BY <1>1, IdleIsCalm DEF BeginUpdate, ReadOnly, Busy
  <2>4. QED
    BY <2>2, <2>3, CalmStep
<1>2. CASE ReadNodes(c)
  <2>1. PICK q : q = req[c]
    OBVIOUS
  <2>2. q.node \in Node /\ q.to \in Status
    BY <1>t, <1>2, <2>1, StageFields DEF ReadNodes
  <2>3. node' = node /\ Calm(req[c])
    BY <1>2 DEF ReadNodes, ReadOnly, Calm
  <2>4. CASE Allowed(q.node, q.to)
    <3>1. PICK at \in {"answers", "write"} :
            req'[c] = [at |-> at, node |-> q.node, to |-> q.to, copy |-> node[q.node],
                       since |-> clock]
      BY <1>t, <1>2, <2>1, <2>4 DEF ReadNodes, Become, GraphTypeOK
    <3>2. q.to \in UnderWay => Met(q.node)'
      BY <2>3, <2>4 DEF Allowed, UnderWay, Met
    <3>3. ReadsHold(req[c])'
      BY <2>3, <3>1, <3>2 DEF ReadsHold
    <3>4. QED
      BY <2>3, <3>3, CalmStep
  <2>5. CASE ~Allowed(q.node, q.to)
    <3>1. req'[c] = Idle
      BY <1>t, <1>2, <2>1, <2>5 DEF ReadNodes, Become, GraphTypeOK
    <3>2. QED
      BY <2>3, <3>1, CalmStep, IdleHolds
  <2>6. QED
    BY <2>4, <2>5
<1>3. CASE ReadAnswers(c)
  <2>1. PICK q : q = req[c]
    OBVIOUS
  <2>2. q \in [at: {"answers", "write"}, node: Node, to: Status, copy: NodeRow,
               since: Stamp]
    BY <1>t, <1>3, <2>1, StageFields DEF ReadAnswers
  <2>3. /\ q.copy = node[q.node]
        /\ q.to \in UnderWay => Met(q.node)
    BY <1>t, <1>3, <2>1 DEF ReadAnswers, ReadsHold
  <2>4. node' = node /\ Calm(req[c])
    BY <1>3 DEF ReadAnswers, ReadOnly, Calm
  <2>5. req'[c] = Idle \/ req'[c] = [q EXCEPT !.at = "write", !.since = clock]
    BY <1>t, <1>3, <2>1, Zenon DEF ReadAnswers, Become, GraphTypeOK
  <2>6. CASE req'[c] = [q EXCEPT !.at = "write", !.since = clock]
    <3>1. /\ req'[c].at = "write" /\ req'[c].node = q.node
          /\ req'[c].to = q.to /\ req'[c].copy = q.copy
      BY <2>2, <2>6
    <3>2. q.to \in UnderWay => Met(q.node)'
      BY <2>3, <2>4 DEF Met
    <3>3. ReadsHold(req[c])'
      BY <2>3, <2>4, <3>1, <3>2 DEF ReadsHold
    <3>4. QED
      BY <2>4, <3>3, CalmStep
  <2>7. QED
    BY <2>4, <2>5, <2>6, CalmStep, IdleHolds
<1>4. QED
  BY <1>1, <1>2, <1>3

\* The write of a node, and what it leaves to repair.
LEMMA WriteNodeSerial ==
  ASSUME SerialInv, \A b, c \in Caller : b = c, GraphTypeOK', NEW c \in Caller,
         WriteNode(c)
  PROVE  SerialInv'
<1> USE DEF SerialInv
<1>q. PICK q, n : q = req[c] /\ n = q.node
  OBVIOUS
<1>1. /\ q \in [at: {"answers", "write"}, node: Node, to: Status, copy: NodeRow, since: Stamp]
      /\ n \in Node /\ q.at = "write"
  BY <1>q, StageFields DEF WriteNode
<1>2. PICK r \in NodeRow : r.status = q.to /\ node' = [node EXCEPT ![n] = r]
  <2>1. PICK now \in q.since..clock : SetNode(n, Updated(q.copy, q.to, now))
    BY <1>q DEF WriteNode
  <2>2. /\ Updated(q.copy, q.to, now) \in NodeRow
        /\ Updated(q.copy, q.to, now).status = q.to
    BY <1>1, StampTyped, UpdatedTyped DEF Updated
  <2>3. QED
    BY <2>1, <2>2 DEF SetNode
<1>4. /\ q.copy = node[n]
      /\ q.to \in UnderWay => Met(n)
      /\ \A m \in Node : InOrder(m) /\ Settled(m)
  BY <1>q, <1>1 DEF ReadsHold, Invalidates, Repairs
<1>6. node'[n] = r /\ \A m \in Node \ {n} : node'[m] = node[m]
  BY <1>1, <1>2 DEF GraphTypeOK
<1>7. \A m \in Node : n \notin DependsOn[m] => (Met(m)' <=> Met(m))
  BY <1>1, <1>2, MetKept
<1>8. n \notin DependsOn[n] /\ n \notin Downstream(n)
  BY <1>1, DownstreamFacts
<1>9. InOrder(n)'
  <2>1. node'[n].status = q.to
    BY <1>2, <1>6
  <2>2. q.to \in UnderWay => Met(n)'
    BY <1>1, <1>4, <1>7, <1>8
  <2>3. QED
    BY <2>1, <2>2 DEF InOrder
<1>10. CASE SatisfiesDependency(q.copy.status) /\ ~SatisfiesDependency(q.to)
  <2>1. req'[c] = Invalidating(n, Downstream(n))
    BY <1>q, <1>10 DEF WriteNode, Become, GraphTypeOK
  <2>2. \A m \in Node \ Downstream(n) : InOrder(m)'
    <3>1. SUFFICES ASSUME NEW m \in Node \ Downstream(n), m # n PROVE InOrder(m)'
      BY <1>9
    <3>2. n \notin DependsOn[m]
      BY <1>1, DownstreamFacts
    <3>3. Met(m)' <=> Met(m)
      BY <1>7, <3>2
    <3>4. node'[m] = node[m] /\ InOrder(m)
      BY <1>4, <1>6, <3>1
    <3>5. QED
      BY <3>3, <3>4 DEF InOrder
  <2>3. CASE Downstream(n) = {}
    <3>1. req'[c] = [at |-> "pending", node |-> n]
      BY <2>1, <2>3 DEF Invalidating
    <3>2. \A m \in Node : InOrder(m)' /\ Repairs(req[c], m)'
      BY <2>2, <2>3, <3>1 DEF Repairs
    <3>3. ReadsHold(req[c])'
      BY <3>1 DEF ReadsHold
    <3>4. QED
      BY <3>2, <3>3
  <2>4. CASE Downstream(n) # {}
    <3>1. req'[c] = [at |-> "invalidate", node |-> n, todo |-> Downstream(n)]
      BY <2>1, <2>4 DEF Invalidating
    <3>2. \A m \in Node : /\ InOrder(m)' \/ Invalidates(req[c], m)'
                          /\ Repairs(req[c], m)'
      BY <2>2, <3>1 DEF Invalidates, Repairs
    <3>3. ReadsHold(req[c])'
      BY <3>1 DEF ReadsHold, Downstream
    <3>4. QED
      BY <3>2, <3>3
  <2>5. QED
    BY <2>3, <2>4
<1>11. CASE ~(SatisfiesDependency(q.copy.status) /\ ~SatisfiesDependency(q.to))
  <2>1. req'[c] = [at |-> "refresh"]
    BY <1>q, <1>11 DEF WriteNode, Become, GraphTypeOK, Refreshing
  <2>2. \A m \in Node : Met(m) => Met(m)'
    <3>1. \A d \in Node : SatisfiesDependency(node[d].status)
                            => SatisfiesDependency(node'[d].status)
      BY <1>2, <1>4, <1>6, <1>11 DEF SatisfiesDependency
    <3>2. QED
      BY <3>1, GraphAssumption DEF Met, GraphAssumption
  <2>3. \A m \in Node : InOrder(m)' /\ Repairs(req[c], m)'
    BY <1>4, <1>6, <1>9, <2>1, <2>2 DEF InOrder, Repairs
  <2>4. ReadsHold(req[c])'
    BY <2>1 DEF ReadsHold
  <2>5. QED
    BY <2>3, <2>4
<1>12. QED
  BY <1>10, <1>11

\* Each node taken back was the last to depend on something taken back.
LEMMA InvalidateNodeSerial ==
  ASSUME SerialInv, \A b, c \in Caller : b = c, GraphTypeOK', NEW c \in Caller,
         InvalidateNode(c)
  PROVE  SerialInv'
<1> USE DEF SerialInv
<1>q. PICK q, n : q = req[c] /\ n = q.node
  OBVIOUS
<1>1. n \in Node /\ q.todo \subseteq Node /\ q.at = "invalidate"
  BY <1>q, StageFields DEF InvalidateNode
<1>2. /\ q.todo \subseteq Downstream(n)
      /\ \A x \in Downstream(n) \ q.todo : node[x].status = "pending"
      /\ \A x \in Node \ q.todo : InOrder(x)
  BY <1>q, <1>1 DEF ReadsHold, Invalidates
<1>3. PICK m \in q.todo : SetNode(m, Unstarted) /\ Become(c, Invalidating(n, q.todo \ {m}))
  BY <1>q DEF InvalidateNode
<1>4. Unstarted \in NodeRow /\ Unstarted.status = "pending"
  BY GraphAssumption DEF Unstarted, NodeRow, Status, Time, GraphAssumption
<1>5. node' = [node EXCEPT ![m] = Unstarted] /\ m \in Node
  BY <1>1, <1>3 DEF SetNode
<1>6. node'[m] = Unstarted /\ \A x \in Node \ {m} : node'[x] = node[x]
  BY <1>5 DEF GraphTypeOK
<1>7. \A x \in Downstream(n) \ (q.todo \ {m}) : node'[x].status = "pending"
  BY <1>2, <1>4, <1>6 DEF Downstream
<1>8. \A x \in Node \ (q.todo \ {m}) : InOrder(x)'
  <2>1. SUFFICES ASSUME NEW x \in Node \ (q.todo \ {m}), x \notin Downstream(n)
                 PROVE  InOrder(x)'
    BY <1>7 DEF InOrder, UnderWay
  <2>2. m \notin DependsOn[x] /\ x # m
    BY <1>1, <1>2, <2>1, DownstreamFacts
  <2>3. Met(x)' <=> Met(x)
    BY <1>4, <1>5, <2>2, MetKept
  <2>4. QED
    BY <1>2, <1>6, <2>2, <2>3 DEF InOrder
<1>9. CASE q.todo \ {m} = {}
  <2>1. req'[c] = [at |-> "pending", node |-> n]
    BY <1>3, <1>9 DEF Become, Invalidating, GraphTypeOK
  <2>2. \A x \in Node : InOrder(x)' /\ Repairs(req[c], x)'
    BY <1>8, <1>9, <2>1 DEF Repairs
  <2>3. ReadsHold(req[c])'
    BY <2>1 DEF ReadsHold
  <2>4. QED
    BY <2>2, <2>3
<1>10. CASE q.todo \ {m} # {}
  <2>1. req'[c] = [at |-> "invalidate", node |-> n, todo |-> q.todo \ {m}]
    BY <1>3, <1>10 DEF Become, Invalidating, GraphTypeOK
  <2>2. \A x \in Node : /\ InOrder(x)' \/ Invalidates(req[c], x)'
                        /\ Repairs(req[c], x)'
    BY <1>8, <2>1 DEF Invalidates, Repairs
  <2>3. ReadsHold(req[c])'
    BY <1>2, <1>7, <2>1 DEF ReadsHold, Downstream
  <2>4. QED
    BY <2>2, <2>3
<1>11. QED
  BY <1>9, <1>10
\* The questions downstream are rejected, all of them still open.
LEMMA RejectSerial ==
  ASSUME SerialInv, \A b, c \in Caller : b = c, GraphTypeOK', NEW c \in Caller,
         ReadPending(c) \/ RejectAsk(c)
  PROVE  SerialInv'
<1> USE DEF SerialInv
<1>1. req[c].at \in {"pending", "reject"} /\ node' = node
  BY DEF ReadPending, RejectAsk, SetAsk, ReadOnly
<1>2. \A n \in Node : InOrder(n)'
  BY <1>1 DEF Invalidates, InOrder, Met
<1>3. \E todo \in SUBSET Ask : /\ req'[c] = Rejecting(todo)
                               /\ \A i \in todo : Pending(i)'
  <2>1. CASE ReadPending(c)
    <3>1. PICK todo : todo = UNION {PendingAt(m) : m \in {req[c].node} \cup Downstream(req[c].node)}
      OBVIOUS
    <3>2. todo \in SUBSET Ask /\ \A i \in todo : Pending(i)
      BY <3>1 DEF PendingAt
    <3>3. req'[c] = Rejecting(todo) /\ ask' = ask
      BY <2>1, <3>1 DEF ReadPending, Become, ReadOnly, GraphTypeOK
    <3>4. QED
      BY <3>2, <3>3 DEF Pending
  <2>2. CASE RejectAsk(c)
    <3>1. req[c].todo \subseteq Ask /\ \A i \in req[c].todo : Pending(i)
      BY <2>2, StageFields DEF RejectAsk, ReadsHold
    <3>2. PICK i \in req[c].todo : /\ SetAsk(i, [ask[i] EXCEPT !.status = "rejected"])
                                   /\ Become(c, Rejecting(req[c].todo \ {i}))
      BY <2>2, <3>1 DEF RejectAsk, StillOpen
    <3>3. \A j \in req[c].todo \ {i} : Pending(j)'
      BY <3>1, <3>2 DEF SetAsk, Pending, GraphTypeOK
    <3>4. req'[c] = Rejecting(req[c].todo \ {i})
      BY <3>2 DEF Become, GraphTypeOK
    <3>5. QED
      BY <3>1, <3>3, <3>4
  <2>3. QED
    BY <2>1, <2>2
<1>4. PICK todo \in SUBSET Ask : /\ req'[c] = Rejecting(todo)
                                 /\ \A i \in todo : Pending(i)'
  BY <1>3
<1>5. CASE todo = {}
  <2>1. req'[c] = [at |-> "refresh"]
    BY <1>4, <1>5 DEF Rejecting, Refreshing
  <2>2. ReadsHold(req[c])' /\ \A n \in Node : Repairs(req[c], n)'
    BY <2>1 DEF ReadsHold, Repairs
  <2>3. QED
    BY <1>2, <2>2
<1>6. CASE todo # {}
  <2>1. req'[c] = [at |-> "reject", todo |-> todo]
    BY <1>4, <1>6 DEF Rejecting
  <2>2. ReadsHold(req[c])' /\ \A n \in Node : Repairs(req[c], n)'
    BY <1>4, <2>1 DEF ReadsHold, Repairs
  <2>3. QED
    BY <1>2, <2>2
<1>7. QED
  BY <1>5, <1>6

\* What a refresh holds.
LEMMA ReadyHolds ==
  ASSUME NEW c \in Caller, NEW t, req'[c] = [at |-> "ready", todo |-> t],
         \A u \in t : /\ node'[u.node].status \in {"pending", "ready"}
                      /\ u.row = Refreshed(u.node)'
  PROVE  ReadsHold(req[c])'
BY DEF ReadsHold

\* The refresh lists the nodes whose readiness is wrong.
LEMMA RefreshSerial ==
  ASSUME SerialInv, \A b, c \in Caller : b = c, GraphTypeOK', NEW c \in Caller,
         RefreshReadiness(c)
  PROVE  SerialInv'
<1> USE DEF SerialInv
<1>1. req[c].at = "refresh" /\ node' = node
  BY DEF RefreshReadiness, ReadOnly
<1>2. \A n \in Node : InOrder(n)' /\ Met(n)' = Met(n)
  BY <1>1 DEF Invalidates, InOrder, Met
<1>3. PICK t : t = {[node |-> n, row |-> Refreshed(n)] : n \in Unready}
  OBVIOUS
<1>4. req'[c] = Readying(t)
  BY <1>3 DEF RefreshReadiness, Become, GraphTypeOK, Refreshed
<1>5. /\ \A u \in t : u.node \in Unready /\ u.row = Refreshed(u.node)
      /\ \A n \in Unready : \E u \in t : u.node = n
  <2>1. ASSUME NEW u \in t PROVE u.node \in Unready /\ u.row = Refreshed(u.node)
    <3>1. PICK n \in Unready : u = [node |-> n, row |-> Refreshed(n)]
      BY <1>3
    <3>2. QED
      BY <3>1
  <2>2. ASSUME NEW n \in Unready PROVE \E u \in t : u.node = n
    <3>1. [node |-> n, row |-> Refreshed(n)] \in t
      BY <1>3
    <3>2. [node |-> n, row |-> Refreshed(n)].node = n
      OBVIOUS
    <3>3. QED
      BY <3>1, <3>2
  <2>3. QED
    BY <2>1, <2>2
<1>6. \A n \in Node \ Unready : Settled(n)'
  BY <1>1, <1>2 DEF Unready, Settled, Readiness
<1>7. CASE t = {}
  <2>1. req'[c] = Idle
    BY <1>4, <1>7 DEF Readying
  <2>2. \A n \in Node : Settled(n)'
    BY <1>5, <1>6, <1>7
  <2>3. QED
    BY <1>2, <2>1, <2>2, IdleHolds
<1>8. CASE t # {}
  <2>1. req'[c] = [at |-> "ready", todo |-> t]
    BY <1>4, <1>8 DEF Readying
  <2>2. \A n \in Unready : Repairs(req[c], n)'
    BY <1>5, <2>1 DEF Repairs
  <2>3. \A n \in Node : Refreshed(n)' = Refreshed(n)
    BY <1>1, <1>2 DEF Refreshed, Readiness
  <2>4. ReadsHold(req[c])'
    BY <1>1, <1>5, <2>1, <2>3, ReadyHolds DEF Unready
  <2>5. QED
    BY <1>2, <1>6, <2>2, <2>4
<1>9. QED
  BY <1>7, <1>8

\* A listed node becomes what the refresh found, which is still right, since only
\* readiness has changed since.
LEMMA WriteReadinessSerial ==
  ASSUME SerialInv, \A b, c \in Caller : b = c, GraphTypeOK', NEW c \in Caller,
         WriteReadiness(c)
  PROVE  SerialInv'
<1> USE DEF SerialInv
<1>1. PICK t : t = req[c].todo
  OBVIOUS
<1>2. t \subseteq Change /\ req[c].at = "ready"
  BY <1>1, StageFields DEF WriteReadiness
<1>3. PICK u \in t : SetNode(u.node, u.row) /\ Become(c, Readying(t \ {u}))
  BY <1>1 DEF WriteReadiness
<1>4. PICK m \in Node, r \in NodeRow : m = u.node /\ r = u.row
  BY <1>2, <1>3 DEF Change
<1>5. \A v \in t : /\ v.node \in Node
                   /\ node[v.node].status \in {"pending", "ready"}
                   /\ v.row = Refreshed(v.node)
  BY <1>1, <1>2 DEF ReadsHold, Change
<1>6. /\ node[m].status \in {"pending", "ready"}
      /\ r.status = Readiness(m)
  BY <1>3, <1>4, <1>5 DEF GraphTypeOK, NodeRow, Refreshed
<1>7. node' = [node EXCEPT ![m] = r]
  BY <1>3, <1>4 DEF SetNode
<1>8. node'[m] = r /\ \A n \in Node \ {m} : node'[n] = node[n]
  BY <1>4, <1>7 DEF GraphTypeOK
<1>9. ~SatisfiesDependency(node[m].status) /\ ~SatisfiesDependency(r.status)
  BY <1>6 DEF SatisfiesDependency, Readiness
<1>10. \A n \in Node : Met(n)' <=> Met(n)
  BY <1>4, <1>7, <1>9, MetKept
<1>11. \A n \in Node : Readiness(n)' = Readiness(n)
  BY <1>10 DEF Readiness
<1>12. \A n \in Node : InOrder(n)'
  <2>1. SUFFICES ASSUME NEW n \in Node PROVE InOrder(n)'
    OBVIOUS
  <2>2. CASE n = m
    BY <1>6, <1>8, <2>2 DEF InOrder, UnderWay, Readiness
  <2>3. CASE n # m
    BY <1>2, <1>8, <1>10, <2>3 DEF InOrder, Invalidates
  <2>4. QED
    BY <2>2, <2>3
<1>13. \A n \in Node : Settled(n)' \/ \E v \in t \ {u} : v.node = n
  <2>1. SUFFICES ASSUME NEW n \in Node, ~\E v \in t \ {u} : v.node = n PROVE Settled(n)'
    OBVIOUS
  <2>2. CASE n = m
    BY <1>6, <1>8, <1>11, <2>2 DEF Settled
  <2>3. CASE n # m
    <3>1. ~Repairs(req[c], n)
      BY <1>1, <1>2, <1>4, <2>1, <2>3 DEF Repairs
    <3>2. Settled(n)
      BY <3>1
    <3>3. QED
      BY <1>8, <1>11, <2>3, <3>2 DEF Settled
  <2>4. QED
    BY <2>2, <2>3
<1>14. \A v \in t \ {u} : /\ node'[v.node].status \in {"pending", "ready"}
                          /\ v.row = Refreshed(v.node)'
  <2>1. SUFFICES ASSUME NEW v \in t \ {u}
                 PROVE  /\ node'[v.node].status \in {"pending", "ready"}
                        /\ v.row = Refreshed(v.node)'
    BY Zenon
  <2>2. v.node \in Node \ {m}
    <3>1. v.node = m => v = u
      BY <1>2, <1>3, <1>4, <1>5, <2>1 DEF Change
    <3>2. QED
      BY <1>5, <2>1, <3>1
  <2>3. node'[v.node] = node[v.node] /\ Readiness(v.node)' = Readiness(v.node)
    BY <1>8, <1>11, <2>2
  <2>4. Refreshed(v.node)' = Refreshed(v.node)
    BY <2>3 DEF Refreshed
  <2>5. QED
    BY <1>5, <2>3, <2>4
<1>15. CASE t \ {u} = {}
  <2>1. req'[c] = Idle
    BY <1>3, <1>15 DEF Readying, Become, GraphTypeOK
  <2>2. QED
    BY <1>12, <1>13, <1>15, <2>1, IdleHolds
<1>16. CASE t \ {u} # {}
  <2>1. req'[c] = [at |-> "ready", todo |-> t \ {u}]
    BY <1>3, <1>16 DEF Readying, Become, GraphTypeOK
  <2>2. ReadsHold(req[c])'
    BY <1>14, <2>1, ReadyHolds
  <2>3. \A n \in Node : Settled(n)' \/ Repairs(req[c], n)'
    BY <1>13, <2>1 DEF Repairs
  <2>4. QED
    BY <1>12, <2>2, <2>3
<1>17. QED
  BY <1>15, <1>16
\* A request at rest that puts an unfinished node to work, whose dependencies are
\* met, leaves the graph in order.
LEMMA StartedWorkSerial ==
  ASSUME SerialInv, \A b, c \in Caller : b = c, GraphTypeOK', NEW c \in Caller,
         Calm(req[c]), req'[c] = Idle,
         NEW n \in Node, NEW r \in NodeRow, node' = [node EXCEPT ![n] = r],
         Met(n), ~SatisfiesDependency(node[n].status), r.status \in {"running", "waiting"}
  PROVE  SerialInv'
<1>1. \A m \in Node : InOrder(m) /\ Settled(m)
  BY DEF SerialInv, Calm, Invalidates, Repairs
<1>2. node'[n] = r /\ \A m \in Node \ {n} : node'[m] = node[m]
  BY DEF SerialInv, GraphTypeOK
<1>3. \A m \in Node : Met(m)' <=> Met(m)
  <2>1. GraphTypeOK /\ ~SatisfiesDependency(r.status)
    BY DEF SerialInv, SatisfiesDependency
  <2>2. QED
    BY <2>1, MetKept
<1>4. \A m \in Node : InOrder(m)' /\ Settled(m)'
  <2>1. SUFFICES ASSUME NEW m \in Node PROVE InOrder(m)' /\ Settled(m)'
    OBVIOUS
  <2>2. CASE m = n
    BY <1>2, <1>3, <2>2 DEF InOrder, Settled
  <2>3. CASE m # n
    BY <1>1, <1>2, <1>3, <2>3 DEF InOrder, Settled, Readiness
  <2>4. QED
    BY <2>2, <2>3
<1>5. QED
  BY <1>4, IdleHolds DEF SerialInv

\* Asking reads a node at rest whose dependencies are met, and then it waits.
LEMMA AskSerial ==
  ASSUME SerialInv, \A b, c \in Caller : b = c, GraphTypeOK', NEW c \in Caller, AskStep(c)
  PROVE  SerialInv'
<1>t. GraphTypeOK /\ ReadsHold(req[c])
  BY DEF SerialInv
<1>q. PICK q : q = req[c]
  OBVIOUS
<1>1. ASSUME NEW n \in AskAbout, BeginAsk(c, n) PROVE SerialInv'
  <2>1. req'[c] = [at |-> "node", node |-> n]
    BY <1>t, <1>1 DEF BeginAsk, Become, GraphTypeOK
  <2>2. ReadsHold(req[c])'
    BY <2>1 DEF ReadsHold
  <2>3. node' = node /\ Calm(req[c])
    BY <1>1, IdleIsCalm DEF BeginAsk, ReadOnly, Busy
  <2>4. QED
    BY <2>2, <2>3, CalmStep
<1>2. CASE ReadNode(c)
  <2>1. node' = node /\ Calm(req[c])
    BY <1>2 DEF ReadNode, ReadOnly, Calm
  <2>2. CASE node[q.node].status \in {"ready", "running", "failed"}
    <3>1. req'[c] = [at |-> "deps", node |-> q.node, copy |-> node[q.node]]
      BY <1>t, <1>q, <1>2, <2>2 DEF ReadNode, Become, GraphTypeOK
    <3>2. ReadsHold(req[c])'
      BY <2>1, <2>2, <3>1 DEF ReadsHold
    <3>3. QED
      BY <2>1, <3>2, CalmStep
  <2>3. CASE node[q.node].status \notin {"ready", "running", "failed"}
    <3>1. req'[c] = Idle
      BY <1>t, <1>q, <1>2, <2>3 DEF ReadNode, Become, GraphTypeOK
    <3>2. QED
      BY <2>1, <3>1, CalmStep, IdleHolds
  <2>4. QED
    BY <2>2, <2>3
<1>3. CASE ReadDependencies(c)
  <2>1. node' = node /\ Calm(req[c])
    BY <1>3 DEF ReadDependencies, ReadOnly, Calm
  <2>2. q \in [at: {"deps", "waits"}, node: Node, copy: NodeRow]
    BY <1>t, <1>q, <1>3, StageFields DEF ReadDependencies
  <2>3. q.copy = node[q.node] /\ q.copy.status \in {"ready", "running", "failed"}
    BY <1>t, <1>q, <1>3 DEF ReadDependencies, ReadsHold
  <2>4. CASE Met(q.node)
    <3>1. req'[c] = [q EXCEPT !.at = "waits"]
      BY <1>t, <1>q, <1>3, <2>4 DEF ReadDependencies, Become, GraphTypeOK
    <3>2. req'[c].at = "waits" /\ req'[c].node = q.node /\ req'[c].copy = q.copy
      BY <2>2, <3>1
    <3>3. Met(q.node)'
      BY <2>1, <2>4 DEF Met
    <3>4. ReadsHold(req[c])'
      BY <2>1, <2>3, <3>2, <3>3 DEF ReadsHold
    <3>5. QED
      BY <2>1, <3>4, CalmStep
  <2>5. CASE ~Met(q.node)
    <3>1. req'[c] = Idle
      BY <1>t, <1>q, <1>3, <2>5 DEF ReadDependencies, Become, GraphTypeOK
    <3>2. QED
      BY <2>1, <3>1, CalmStep, IdleHolds
  <2>6. QED
    BY <2>4, <2>5
<1>4. CASE ReadWaits(c)
  <2>1. node' = node /\ Calm(req[c])
    BY <1>4 DEF ReadWaits, ReadOnly, Calm
  <2>2. /\ q.copy = node[q.node] /\ q.copy.status \in {"ready", "running", "failed"}
        /\ Met(q.node)'
    BY <1>t, <1>q, <1>4, <2>1 DEF ReadWaits, ReadsHold, Met
  <2>3. \/ req'[c] = Idle
        \/ req'[c] = [at |-> "insert", node |-> q.node, copy |-> q.copy, since |-> clock]
    BY <1>t, <1>q, <1>4 DEF ReadWaits, Become, GraphTypeOK
  <2>4. req'[c] # Idle => ReadsHold(req[c])'
    BY <2>1, <2>2, <2>3 DEF ReadsHold
  <2>5. QED
    BY <2>1, <2>4, CalmStep, IdleHolds
<1>5. CASE InsertAsk(c)
  <2>1. node' = node /\ Calm(req[c])
    BY <1>5 DEF InsertAsk, SetAsk, ReadOnly, Calm
  <2>2. /\ q.copy = node[q.node] /\ q.copy.status \in {"ready", "running", "failed"}
        /\ Met(q.node)'
    BY <1>t, <1>q, <1>5, <2>1 DEF InsertAsk, ReadsHold, Met
  <2>3. \/ req'[c] = Idle
        \/ \E now \in q.since..clock :
             req'[c] = [at |-> "wait", node |-> q.node, copy |-> q.copy, created |-> now]
    BY <1>t, <1>q, <1>5 DEF InsertAsk, Become, GraphTypeOK
  <2>4. ASSUME req'[c] # Idle PROVE ReadsHold(req[c])'
    <3>1. PICK now : req'[c] = [at |-> "wait", node |-> q.node, copy |-> q.copy,
                                created |-> now]
      BY <2>3, <2>4
    <3>2. QED
      BY <2>1, <2>2, <3>1 DEF ReadsHold
  <2>5. QED
    BY <2>1, <2>4, CalmStep, IdleHolds
<1>6. CASE WriteWaiting(c)
  <2>1. /\ q.at = "wait" /\ q.node \in Node /\ q.copy \in NodeRow /\ q.created \in Stamp
        /\ q.copy = node[q.node] /\ q.copy.status \in {"ready", "running", "failed"}
        /\ Met(q.node)
    BY <1>t, <1>q, <1>6, StageFields DEF WriteWaiting, ReadsHold
  <2>2. PICK r : r = [status |-> "waiting", completed |-> 0,
                      started |-> StartedBy(q.copy, q.created)]
    OBVIOUS
  <2>3. r \in NodeRow /\ r.status = "waiting"
    BY <2>1, <2>2, GraphAssumption
    DEF NodeRow, StartedBy, Status, Time, Stamp, GraphAssumption
  <2>4. node' = [node EXCEPT ![q.node] = r] /\ req'[c] = Idle
    BY <1>t, <1>q, <1>6, <2>2 DEF WriteWaiting, SetNode, Become, GraphTypeOK
  <2>5. q.node \in Node /\ ~SatisfiesDependency(node[q.node].status)
    BY <2>1 DEF SatisfiesDependency
  <2>6. QED
    BY <1>q, <2>1, <2>3, <2>4, <2>5, StartedWorkSerial, IdleHolds DEF Calm, UnderWay
<1>7. QED
  BY <1>1, <1>2, <1>3, <1>4, <1>5, <1>6 DEF AskStep
\* A reply reads the node, and a node that waited is put to work.
LEMMA ReplySerial ==
  ASSUME SerialInv, \A b, c \in Caller : b = c, GraphTypeOK', NEW c \in Caller, ReplyStep(c)
  PROVE  SerialInv'
<1>t. GraphTypeOK /\ ReadsHold(req[c])
  BY DEF SerialInv
<1>q. PICK q : q = req[c]
  OBVIOUS
<1>1. ASSUME NEW i \in Ask, NEW to \in {"answered", "rejected"}, NEW who \in Actor,
             BeginReply(c, i, to, who)
      PROVE  SerialInv'
  <2>1. req'[c].at = "reply"
    BY <1>t, <1>1 DEF BeginReply, Become, GraphTypeOK
  <2>2. ReadsHold(req[c])'
    BY <2>1 DEF ReadsHold
  <2>3. node' = node /\ Calm(req[c])
    BY <1>1, IdleIsCalm DEF BeginReply, ReadOnly, Busy
  <2>4. QED
    BY <2>2, <2>3, CalmStep
<1>2. CASE ReadReplyNode(c)
  <2>1. node' = node /\ Calm(req[c])
    BY <1>2 DEF ReadReplyNode, ReadOnly, Calm
  <2>2. \/ req'[c] = Idle
        \/ req'[c] = [at |-> "answer", ask |-> q.ask, node |-> q.node, to |-> q.to,
                      by |-> q.by, copy |-> node[q.node], since |-> clock]
    BY <1>t, <1>q, <1>2 DEF ReadReplyNode, Become, GraphTypeOK
  <2>3. req'[c] # Idle => ReadsHold(req[c])'
    BY <2>1, <2>2 DEF ReadsHold
  <2>4. QED
    BY <2>1, <2>3, CalmStep, IdleHolds
<1>3. CASE ResolveAsk(c)
  <2>1. node' = node /\ Calm(req[c]) /\ q.copy = node[q.node]
    BY <1>t, <1>q, <1>3 DEF ResolveAsk, SetAsk, ReadOnly, Calm, ReadsHold
  <2>2. \/ req'[c] = Idle
        \/ /\ q.copy.status = "waiting"
           /\ \E now \in q.since..clock :
                req'[c] = [at |-> "resume", node |-> q.node, copy |-> q.copy,
                           resolved |-> now]
    BY <1>t, <1>q, <1>3 DEF ResolveAsk, Become, GraphTypeOK
  <2>3. ASSUME req'[c] # Idle PROVE ReadsHold(req[c])'
    <3>1. PICK now : req'[c] = [at |-> "resume", node |-> q.node, copy |-> q.copy,
                                resolved |-> now]
      BY <2>2, <2>3
    <3>2. QED
      BY <2>1, <2>2, <2>3, <3>1 DEF ReadsHold
  <2>4. QED
    BY <2>1, <2>3, CalmStep, IdleHolds
<1>4. CASE WriteResumed(c)
  <2>1. /\ q.at = "resume" /\ q.node \in Node /\ q.copy \in NodeRow /\ q.resolved \in Stamp
        /\ q.copy = node[q.node] /\ q.copy.status = "waiting"
    BY <1>t, <1>q, <1>4, StageFields DEF WriteResumed, ReadsHold
  <2>2. PICK r : r = [q.copy EXCEPT !.status = "running",
                                    !.started = StartedBy(q.copy, q.resolved)]
    OBVIOUS
  <2>3. r \in NodeRow /\ r.status = "running"
    BY <2>1, <2>2 DEF NodeRow, StartedBy, Status, Stamp
  <2>4. node' = [node EXCEPT ![q.node] = r] /\ req'[c] = Idle
    BY <1>t, <1>q, <1>4, <2>2 DEF WriteResumed, SetNode, Become, GraphTypeOK
  <2>5. ~SatisfiesDependency(node[q.node].status)
    BY <2>1 DEF SatisfiesDependency
  <2>6. Calm(req[c])
    BY <1>q, <2>1 DEF Calm
  <2>7. Met(q.node)
    <3>1. InOrder(q.node)
      BY <2>1, <2>6 DEF SerialInv, Calm, Invalidates
    <3>2. QED
      BY <2>1, <3>1 DEF InOrder, UnderWay
  <2>8. QED
    BY <2>1, <2>3, <2>4, <2>5, <2>6, <2>7, StartedWorkSerial
<1>5. QED
  BY <1>1, <1>2, <1>3, <1>4 DEF ReplyStep

\* An update of the run touches no node.
LEMMA RunSerial ==
  ASSUME SerialInv, \A b, c \in Caller : b = c, GraphTypeOK', NEW c \in Caller, RunStep(c)
  PROVE  SerialInv'
<1>t. GraphTypeOK
  BY DEF SerialInv
<1>1. node' = node
  BY DEF RunStep, BeginRunUpdate, ReadGraph, ReadOpen, WriteRun, ReadOnly
<1>2. Calm(req[c])
  BY IdleIsCalm DEF RunStep, BeginRunUpdate, ReadGraph, ReadOpen, WriteRun, Busy, Calm
<1>3. req'[c].at \in {"graph", "open", "finish", "idle"}
  <2>1. ASSUME NEW to \in RunTo, BeginRunUpdate(c, to)
        PROVE  req'[c].at \in {"graph", "open", "finish"}
    BY <1>t, <2>1 DEF BeginRunUpdate, Become, GraphTypeOK
  <2>2. req[c].at \in {"graph", "open"} =>
          \A at \in {"open", "finish"} : [req[c] EXCEPT !.at = at].at = at
    BY <1>t, StageFields
  <2>3. Idle.at = "idle"
    BY DEF Idle
  <2>4. CASE ReadGraph(c)
    <3>1. req'[c] = Idle \/ req'[c] = [req[c] EXCEPT !.at = "open"]
      BY <1>t, <2>4, Zenon DEF ReadGraph, Become, GraphTypeOK
    <3>2. QED
      BY <2>2, <2>3, <2>4, <3>1 DEF ReadGraph
  <2>5. CASE ReadOpen(c)
    <3>1. req'[c] = Idle \/ req'[c] = [req[c] EXCEPT !.at = "finish"]
      BY <1>t, <2>5, Zenon DEF ReadOpen, Become, GraphTypeOK
    <3>2. QED
      BY <2>2, <2>3, <2>5, <3>1 DEF ReadOpen
  <2>6. CASE WriteRun(c)
    <3>1. req'[c] = Idle
      BY <1>t, <2>6 DEF WriteRun, Become, GraphTypeOK
    <3>2. QED
      BY <2>3, <3>1
  <2>7. QED
    BY <2>1, <2>4, <2>5, <2>6 DEF RunStep
<1>4. ReadsHold(req[c])'
  BY <1>3 DEF ReadsHold
<1>5. QED
  BY <1>1, <1>2, <1>4, CalmStep

\* With a single caller the graph is in order, or the request that repairs it is
\* on its way.
LEMMA SerialStep ==
  ASSUME SerialInv, [PatientNext]_graphVars, \A b, c \in Caller : b = c
  PROVE  SerialInv'
<1>1. GraphTypeOK'
  <2>1. [GraphNext]_graphVars
    BY DEF PatientNext, GraphNext
  <2>2. QED
    BY <2>1, GraphTypeStep DEF SerialInv
<1>2. CASE UNCHANGED <<node, ask, req>>
  <2>1. \A n \in Node : InOrder(n)' = InOrder(n) /\ Settled(n)' = Settled(n)
    BY <1>2 DEF InOrder, Settled, Readiness, Met
  <2>2. \A c \in Caller : /\ ReadsHold(req[c])
                          /\ \A n \in Node : /\ Invalidates(req[c], n)' <=> Invalidates(req[c], n)
                                             /\ Repairs(req[c], n)' <=> Repairs(req[c], n)
    BY <1>2 DEF SerialInv, Invalidates, Repairs
  <2>3. \A c \in Caller : ReadsHold(req[c])'
    BY <1>2, <2>2 DEF ReadsHold, Met, Pending, Readiness, Refreshed
  <2>4. QED
    BY <1>1, <2>1, <2>2, <2>3 DEF SerialInv
<1>3. ASSUME NEW c \in Caller, Step(c) PROVE SerialInv'
  <2>1. UpdateStep(c) => SerialInv'
    BY <1>1, UpdateReadsSerial, WriteNodeSerial, InvalidateNodeSerial, RejectSerial,
       RefreshSerial, WriteReadinessSerial DEF UpdateStep
  <2>2. QED
    BY <1>1, <1>3, <2>1, AskSerial, ReplySerial, RunSerial DEF Step
<1>4. QED
  BY <1>2, <1>3 DEF PatientNext, Tick, graphVars

\* The graph in order, request by request.
THEOREM SerialGraphInvariant ==
  ASSUME \A b, c \in Caller : b = c
  PROVE  PatientGraphSpec => []SerialInv
<1>1. GraphInit => SerialInv
  <2>1. SUFFICES ASSUME GraphInit PROVE SerialInv
    OBVIOUS
  <2>2. \A c \in Caller : ReadsHold(req[c])
    BY <2>1 DEF GraphInit, ReadsHold, Idle
  <2>3. \A n \in Node : node[n].status = IF DependsOn[n] = {} THEN "ready" ELSE "pending"
    BY <2>1, Z3 DEF GraphInit, Unstarted
  <2>4. \A n \in Node : Met(n) <=> DependsOn[n] = {}
    BY <2>3, GraphAssumption DEF Met, SatisfiesDependency, GraphAssumption
  <2>5. \A n \in Node : InOrder(n) /\ Settled(n)
    BY <2>3, <2>4 DEF InOrder, Settled, Readiness, UnderWay
  <2>6. QED
    BY <2>1, <2>2, <2>5, GraphTypeInit DEF SerialInv
<1>2. SerialInv /\ [PatientNext]_graphVars => SerialInv'
  BY SerialStep
<1>3. QED
  BY <1>1, <1>2, PTL DEF PatientGraphSpec

\* At rest no request is left to repair anything.
LEMMA RestIsInOrder ==
  ASSUME SerialInv, AtRest
  PROVE  \A n \in Node : InOrder(n) /\ Settled(n)
BY DEF SerialInv, AtRest, Busy, Invalidates, Repairs, Idle

\* "The server rejects dependency skips", and going back upstream takes back what
\* was done downstream, however far: with one request at a time, work is under way
\* or finished only where the dependencies are finished.
THEOREM SerialReceiptsInOrder ==
  ASSUME \A b, c \in Caller : b = c
  PROVE  PatientGraphSpec => []ReceiptsInOrder
<1>1. SerialInv => ReceiptsInOrder
  BY RestIsInOrder DEF ReceiptsInOrder, InOrder, UnderWay
<1>2. QED
  BY <1>1, SerialGraphInvariant, PTL

\* The single pass of refreshRunNodeReadiness is enough: with one request at a time
\* a node not under way is ready exactly when its dependencies are met.
THEOREM SerialReadyExactlyWhenMet ==
  ASSUME \A b, c \in Caller : b = c
  PROVE  PatientGraphSpec => []ReadyExactlyWhenMet
<1>1. SerialInv => ReadyExactlyWhenMet
  BY RestIsInOrder DEF ReadyExactlyWhenMet, Settled, Readiness
<1>2. QED
  BY <1>1, SerialGraphInvariant, PTL
=============================================================================
