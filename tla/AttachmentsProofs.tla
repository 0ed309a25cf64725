-------------------------- MODULE AttachmentsProofs --------------------------
(***************************************************************************)
(* What the attachments guarantee for any number of documents, images,     *)
(* tasks and requests, whichever requests a process takes with it.         *)
(***************************************************************************)
EXTENDS Attachments, TLAPS

FilesStep ==
  \/ \E c \in Caller : RequestStep(c)
  \/ \E t \in Task : DeleteTask(t)
  \/ \E cs \in SUBSET Caller : StopRequests(cs)

-----------------------------------------------------------------------------
\* Types.

LEMMA WorkKinds ==
  ASSUME NEW q \in Work
  PROVE  /\ q.at = "save" => q \in [at: {"save"}, task: Task, of: {Doc, Image}]
         /\ q.at = "insert" => q \in [at: {"insert"}, item: Item, task: Task, revision: Nat]
         /\ q.at \in {"added", "discard"} => q \in [at: {"added", "discard"}, item: Item]
         /\ q.at \in {"update", "updated", "commit", "drop"} =>
              q \in [at: {"update", "updated", "commit", "drop"}, temp: Temporary]
         /\ q.at = "removed" => q \in [at: {"removed"}, item: Item]
         /\ q.at = "delete" => q \in [at: {"delete"}, listed: SUBSET Item]
         /\ q.at = "unlink" => q \in [at: {"unlink"}, items: SUBSET Item]
BY DEF Work, Idle

LEMMA WorkFields ==
  ASSUME NEW q \in Work
  PROVE  /\ q.at = "save" => q.task \in Task /\ q.of \in {Doc, Image}
         /\ q.at = "insert" => q.item \in Item /\ q.task \in Task /\ q.revision \in Nat
         /\ q.at \in {"added", "discard", "removed"} => q.item \in Item
         /\ q.at \in {"update", "updated", "commit", "drop"} => q.temp \in Temporary
         /\ q.at = "delete" => q.listed \in SUBSET Item
         /\ q.at = "unlink" => q.items \in SUBSET Item
BY WorkKinds

LEMMA NextStage ==
  ASSUME NEW q \in Work, q.at \in {"update", "updated", "commit", "drop"},
         NEW stage \in {"update", "updated", "commit", "drop"}
  PROVE  /\ [q EXCEPT !.at = stage] \in Work
         /\ [q EXCEPT !.at = stage].at = stage
         /\ [q EXCEPT !.at = stage].temp = q.temp
<1>1. q \in [at: {"update", "updated", "commit", "drop"}, temp: Temporary]
  BY WorkKinds
<1>2. [q EXCEPT !.at = stage] = [at |-> stage, temp |-> q.temp]
  BY <1>1
<1>3. [at |-> stage, temp |-> q.temp] \in Work
  BY <1>1 DEF Work
<1>4. QED
  BY <1>2, <1>3

LEMMA FewerItems ==
  ASSUME NEW q \in Work, q.at = "unlink", NEW d
  PROVE  /\ [q EXCEPT !.items = @ \ {d}] \in Work
         /\ [q EXCEPT !.items = @ \ {d}] = [at |-> "unlink", items |-> q.items \ {d}]
<1>1. q \in [at: {"unlink"}, items: SUBSET Item]
  BY WorkKinds
<1>2. [q EXCEPT !.items = @ \ {d}] = [at |-> "unlink", items |-> q.items \ {d}]
  BY <1>1
<1>3. [at |-> "unlink", items |-> q.items \ {d}] \in Work
  BY <1>1 DEF Work
<1>4. QED
  BY <1>2, <1>3

LEMMA TurnType ==
  ASSUME work \in [Caller -> Work], NEW c \in Caller, NEW stage \in Work, Turn(c, stage)
  PROVE  /\ work' \in [Caller -> Work]
         /\ work'[c] = stage
         /\ \A b \in Caller \ {c} : work'[b] = work[b]
BY DEF Turn

LEMMA EndType ==
  ASSUME work \in [Caller -> Work], NEW c \in Caller, End(c)
  PROVE  /\ work' \in [Caller -> Work]
         /\ work'[c] = Idle
         /\ \A b \in Caller \ {c} : work'[b] = work[b]
BY TurnType DEF End, Work

LEMMA StageTurn ==
  ASSUME work \in [Caller -> Work], NEW c \in Caller,
         work[c].at \in {"update", "updated", "commit", "drop"},
         NEW stage \in {"update", "updated", "commit", "drop"},
         Turn(c, [work[c] EXCEPT !.at = stage])
  PROVE  /\ work'[c].at = stage /\ work'[c].temp = work[c].temp
         /\ \A b \in Caller \ {c} : work'[b] = work[b]
<1>1. work'[c] = [work[c] EXCEPT !.at = stage] /\ \A b \in Caller \ {c} : work'[b] = work[b]
  BY DEF Turn
<1>2. /\ [work[c] EXCEPT !.at = stage].at = stage
      /\ [work[c] EXCEPT !.at = stage].temp = work[c].temp
  BY NextStage
<1>3. QED
  BY <1>1, <1>2

LEMMA UnlinkTurn ==
  ASSUME work \in [Caller -> Work], NEW c \in Caller, work[c].at = "unlink", NEW d,
         Turn(c, [work[c] EXCEPT !.items = @ \ {d}])
  PROVE  /\ work'[c] = [at |-> "unlink", items |-> work[c].items \ {d}]
         /\ \A b \in Caller \ {c} : work'[b] = work[b]
<1>1. /\ work'[c] = [work[c] EXCEPT !.items = @ \ {d}]
      /\ \A b \in Caller \ {c} : work'[b] = work[b]
  BY DEF Turn
<1>2. QED
  BY <1>1, FewerItems

Row(ts) == {Unborn, Gone} \cup [at: {"stored"}, task: ts, revision: Nat]

LEMMA StoredRow ==
  ASSUME AttachmentsTypeOK, NEW d \in Item, Stored(d)
  PROVE  row[d] \in [at: {"stored"}, task: task, revision: Nat]
BY DEF AttachmentsTypeOK, Stored

LEMMA DocsAreItems == \A new \in Temporary : new.item \in Item /\ new.revision \in Nat
BY DEF Temporary, Item

LEMMA CascadedType ==
  ASSUME AttachmentsTypeOK, NEW ts \in SUBSET task
  PROVE  Cascaded(ts) \in [Item -> Row(task \ ts)]
<1>1. ASSUME NEW d \in Item
      PROVE (IF Stored(d) /\ row[d].task \in ts THEN Gone ELSE row[d]) \in Row(task \ ts)
  <2>1. CASE Stored(d)
    BY <2>1, StoredRow DEF Row
  <2>2. CASE ~Stored(d)
    BY <2>2 DEF Stored, Row
  <2>3. QED
    BY <2>1, <2>2
<1>2. QED
  BY <1>1 DEF Cascaded

LEMMA FilesTypeStep ==
  AttachmentsTypeOK /\ [FilesStep]_fileVars => AttachmentsTypeOK'
<1> SUFFICES ASSUME AttachmentsTypeOK, [FilesStep]_fileVars PROVE AttachmentsTypeOK'
  OBVIOUS
<1> DEFINE Types == /\ task \in SUBSET Task
                    /\ row \in [Item -> Row(task)]
                    /\ file \in [Item -> Nat \cup {None}]
                    /\ temp \in SUBSET Temporary
                    /\ work \in [Caller -> Work]
                    /\ revision \in Nat
                    /\ hollow \in SUBSET Item /\ torn \in SUBSET Item
                    /\ crashed \in BOOLEAN
<1>a. AttachmentsTypeOK <=> Types
  BY DEF AttachmentsTypeOK, Row
<1>b. AttachmentsTypeOK' <=> Types'
  BY DEF AttachmentsTypeOK, Row
<1>c. Types
  BY <1>a
<1> SUFFICES Types'
  BY <1>b
<1>1. CASE UNCHANGED fileVars
  BY <1>1, <1>c DEF fileVars
<1>2. ASSUME NEW c \in Caller, RequestStep(c) PROVE Types'
  <2> DEFINE q == work[c]
  <2>q. q \in Work
    BY <1>c
  <2>1. ASSUME NEW t \in Task, NEW kind \in {Doc, Image}, BeginAdd(c, t, kind) PROVE Types'
    <3>1. [at |-> "save", task |-> t, of |-> kind] \in Work
      BY DEF Work
    <3>2. QED
      BY <1>c, <2>1, <3>1, TurnType DEF BeginAdd
  <2>2. CASE SaveFile(c)
    <3>1. PICK d \in q.of : /\ file' = [file EXCEPT ![d] = revision + 1]
                            /\ Turn(c, [at |-> "insert", item |-> d, task |-> q.task,
                                        revision |-> revision + 1])
      BY <2>2 DEF SaveFile
    <3>a. q.task \in Task /\ q.of \in {Doc, Image} /\ revision + 1 \in Nat
      BY <1>c, <2>2, <2>q, WorkFields DEF SaveFile
    <3>2. q.task \in Task /\ d \in Item /\ revision + 1 \in Nat
      BY <3>a, <3>1 DEF Item
    <3>3. [at |-> "insert", item |-> d, task |-> q.task, revision |-> revision + 1] \in Work
      BY <3>2 DEF Work
    <3>4. work' \in [Caller -> Work]
      BY <1>c, <3>1, <3>3, TurnType
    <3>5. file' \in [Item -> Nat \cup {None}]
      BY <1>c, <3>1, <3>2
    <3>6. QED
      BY <1>c, <2>2, <3>2, <3>4, <3>5 DEF SaveFile
  <2>3. CASE InsertRow(c)
    <3>1. q.item \in Item /\ q.task \in Task /\ q.revision \in Nat
      BY <2>3, <2>q, WorkFields DEF InsertRow
    <3>2. /\ [at |-> "added", item |-> q.item] \in Work
          /\ [at |-> "discard", item |-> q.item] \in Work
      BY <3>1 DEF Work
    <3>3. work' \in [Caller -> Work]
      BY <1>c, <2>3, <3>2, TurnType DEF InsertRow
    <3>4. row' \in [Item -> Row(task)]
      BY <1>c, <2>3, <3>1 DEF InsertRow, TaskRemains, Row
    <3>5. QED
      BY <1>c, <2>3, <3>3, <3>4 DEF InsertRow
  <2>4. CASE AppendAdded(c)
    <3>1. [at |-> "discard", item |-> q.item] \in Work
      BY <2>4, <2>q, WorkFields DEF AppendAdded, Work
    <3>2. QED
      BY <1>c, <2>4, <3>1, TurnType, EndType DEF AppendAdded
  <2>5. CASE Discard(c)
    <3>1. q.item \in Item
      BY <2>5, <2>q, WorkFields DEF Discard
    <3>2. work' \in [Caller -> Work]
      BY <1>c, <2>5, EndType DEF Discard
    <3>3. QED
      BY <1>c, <2>5, <3>1, <3>2 DEF Discard
  <2>6. ASSUME NEW d \in Doc, BeginUpdate(c, d) PROVE Types'
    <3>1. /\ [item |-> d, revision |-> revision + 1] \in Temporary
          /\ revision + 1 \in Nat
      BY <1>c DEF Temporary
    <3>2. [at |-> "update", temp |-> [item |-> d, revision |-> revision + 1]] \in Work
      BY <3>1 DEF Work
    <3>3. QED
      BY <1>c, <2>6, <3>1, <3>2, TurnType DEF BeginUpdate
  <2>7. CASE UpdateRow(c)
    <3>1. /\ q.temp \in Temporary
          /\ [q EXCEPT !.at = "updated"] \in Work /\ [q EXCEPT !.at = "drop"] \in Work
      BY <2>7, <2>q, WorkFields, NextStage DEF UpdateRow
    <3>2. work' \in [Caller -> Work]
      BY <1>c, <2>7, <3>1, TurnType DEF UpdateRow, AfterError
    <3>3. q.temp.item \in Item /\ q.temp.revision \in Nat
      BY <3>1, DocsAreItems
    <3>4. row' \in [Item -> Row(task)]
      <4>1. CASE Stored(q.temp.item) /\ row' = [row EXCEPT ![q.temp.item].revision = q.temp.revision]
        <5>1. [row[q.temp.item] EXCEPT !.revision = q.temp.revision] \in Row(task)
          BY <3>3, <4>1, StoredRow DEF Row
        <5>2. QED
          BY <1>c, <3>3, <4>1, <5>1
      <4>2. CASE UNCHANGED row
        BY <1>c, <4>2
      <4>3. QED
        BY <2>7, <4>1, <4>2 DEF UpdateRow
    <3>5. torn' \in SUBSET Item
      BY <1>c, <2>7, <3>3 DEF UpdateRow
    <3>6. QED
      BY <1>c, <2>7, <3>2, <3>4, <3>5 DEF UpdateRow
  <2>8. CASE AppendUpdated(c)
    <3>1. /\ q.temp \in Temporary
          /\ [q EXCEPT !.at = "commit"] \in Work /\ [q EXCEPT !.at = "drop"] \in Work
      BY <2>8, <2>q, WorkFields, NextStage DEF AppendUpdated
    <3>2. work' \in [Caller -> Work]
      BY <1>c, <2>8, <3>1, TurnType DEF AppendUpdated, AfterError
    <3>3. torn' \in SUBSET Item
      BY <1>c, <2>8, <3>1, DocsAreItems DEF AppendUpdated
    <3>4. QED
      BY <1>c, <2>8, <3>2, <3>3 DEF AppendUpdated
  <2>9. CASE CommitContent(c)
    <3>1. q.temp.item \in Item /\ q.temp.revision \in Nat
      BY <2>9, <2>q, WorkFields, DocsAreItems DEF CommitContent
    <3>2. work' \in [Caller -> Work]
      BY <1>c, <2>9, EndType DEF CommitContent
    <3>3. QED
      BY <1>c, <2>9, <3>1, <3>2 DEF CommitContent
  <2>10. CASE DropTemp(c)
    BY <1>c, <2>10, EndType DEF DropTemp, ContentKept
  <2>11. ASSUME NEW d \in Item, BeginRemove(c, d) PROVE Types'
    <3>1. [at |-> "removed", item |-> d] \in Work
      BY DEF Work
    <3>2. work' \in [Caller -> Work]
      BY <1>c, <2>11, <3>1, TurnType DEF BeginRemove
    <3>3. QED
      BY <1>c, <2>11, <3>2 DEF BeginRemove, Row
  <2>12. CASE AppendRemoved(c)
    <3>1. [at |-> "unlink", items |-> {q.item}] \in Work
      BY <2>12, <2>q, WorkFields DEF AppendRemoved, Work
    <3>2. QED
      BY <1>c, <2>12, <3>1, TurnType, EndType DEF AppendRemoved
  <2>13. CASE Unlink(c)
    <3>1. CASE End(c) /\ UNCHANGED file
      BY <1>c, <2>13, <3>1, EndType DEF Unlink
    <3>2. ASSUME NEW d \in q.items, file' = [file EXCEPT ![d] = None],
                 Turn(c, [q EXCEPT !.items = @ \ {d}])
          PROVE Types'
      <4>1. q.items \in SUBSET Item /\ [q EXCEPT !.items = @ \ {d}] \in Work
        BY <2>13, <2>q, WorkFields, FewerItems DEF Unlink
      <4>2. work' \in [Caller -> Work]
        BY <1>c, <3>2, <4>1, TurnType
      <4>3. QED
        BY <1>c, <2>13, <3>2, <4>1, <4>2 DEF Unlink
    <3>3. QED
      BY <2>13, <3>1, <3>2 DEF Unlink
  <2>14. CASE BeginDeleteProject(c)
    <3>1. [at |-> "delete", listed |-> {d \in Item : Stored(d)}] \in Work
      BY DEF Work
    <3>2. QED
      BY <1>c, <2>14, <3>1, TurnType DEF BeginDeleteProject
  <2>15. CASE DeleteProject(c)
    <3>1. [at |-> "unlink", items |-> q.listed] \in Work
      BY <2>15, <2>q, WorkFields DEF DeleteProject, Work
    <3>2. work' \in [Caller -> Work]
      BY <1>c, <2>15, <3>1, TurnType DEF DeleteProject
    <3>3. row' \in [Item -> Row(task')]
      BY <2>15, CascadedType DEF DeleteProject
    <3>4. QED
      BY <1>c, <2>15, <3>2, <3>3 DEF DeleteProject
  <2>16. QED
    BY <1>2, <2>1, <2>2, <2>3, <2>4, <2>5, <2>6, <2>7, <2>8, <2>9, <2>10, <2>11, <2>12,
       <2>13, <2>14, <2>15 DEF RequestStep
<1>3. ASSUME NEW t \in Task, DeleteTask(t) PROVE Types'
  <2>1. row' \in [Item -> Row(task')]
    BY <1>3, CascadedType DEF DeleteTask
  <2>2. QED
    BY <1>3, <1>c, <2>1 DEF DeleteTask
<1>4. ASSUME NEW cs \in SUBSET Caller, StopRequests(cs) PROVE Types'
  <2>1. work' \in [Caller -> Work]
    BY <1>4, <1>c DEF StopRequests, Work
  <2>2. torn' \in SUBSET Item
    <3>1. \A c \in cs : work[c].at \in {"updated", "commit"} => work[c].temp.item \in Item
      BY <1>c, WorkFields, DocsAreItems
    <3>2. QED
      BY <1>4, <1>c, <3>1 DEF StopRequests
  <2>3. crashed' \in BOOLEAN
    BY <1>4 DEF StopRequests
  <2>4. QED
    BY <1>4, <1>c, <2>1, <2>2, <2>3 DEF StopRequests
<1>5. QED
  BY <1>1, <1>2, <1>3, <1>4 DEF FilesStep

-----------------------------------------------------------------------------
\* What a request knows of the rows and files it works on, when r are the rows and f the
\* files: ids are never handed out twice, and what is gone stays gone.
Knows(q, r, f) ==
  /\ q.at = "insert" => r[q.item] = Unborn /\ f[q.item] = q.revision
  /\ q.at \in {"added", "discard"} => r[q.item] # Unborn
  /\ q.at \in {"update", "updated", "commit", "drop"} => r[q.temp.item] # Unborn
  /\ q.at = "removed" => r[q.item] = Gone
  /\ q.at = "delete" => \A d \in q.listed : r[d] # Unborn
  /\ q.at = "unlink" => \A d \in q.items : r[d] = Gone

RequestsKnow == \A c \in Caller : Knows(work[c], row, file)

OneInsert ==
  \A b, c \in Caller :
    work[b].at = "insert" /\ work[c].at = "insert" /\ work[b].item = work[c].item => b = c

KnowInv == AttachmentsTypeOK /\ RequestsKnow /\ OneInsert /\ RowsHaveFiles

\* Rows are born once and do not come back.
RowsAge(r, s) ==
  \A d \in Item : /\ r[d] # Unborn => s[d] # Unborn
                  /\ r[d] = Gone => s[d] = Gone

LEMMA KnowsMore ==
  ASSUME NEW q \in Work, NEW r, NEW s, NEW f, NEW g, Knows(q, r, f), RowsAge(r, s),
         q.at = "insert" => s[q.item] = r[q.item] /\ g[q.item] = f[q.item]
  PROVE  Knows(q, s, g)
BY WorkFields, DocsAreItems DEF Knows, RowsAge

\* The step of one request, c, which touches the row and the file of no other's new item.
LEMMA OneKnows ==
  ASSUME KnowInv, NEW c \in Caller,
         \A b \in Caller \ {c} : work'[b] = work[b],
         Knows(work'[c], row', file'), RowsAge(row, row'),
         \A b \in Caller \ {c} : work[b].at = "insert" =>
           /\ row'[work[b].item] = row[work[b].item]
           /\ file'[work[b].item] = file[work[b].item]
  PROVE  RequestsKnow'
<1> SUFFICES ASSUME NEW b \in Caller PROVE Knows(work'[b], row', file')
  BY DEF RequestsKnow
<1>1. CASE b = c
  BY <1>1
<1>2. CASE b # c
  <2>1. work[b] \in Work /\ Knows(work[b], row, file)
    BY DEF KnowInv, AttachmentsTypeOK, RequestsKnow
  <2>2. Knows(work[b], row', file')
    BY <1>2, <2>1, KnowsMore
  <2>3. QED
    BY <1>2, <2>2
<1>3. QED
  BY <1>1, <1>2

LEMMA IdleKnows == \A r, f : Knows(Idle, r, f)
BY DEF Knows, Idle

LEMMA CascadeAges ==
  ASSUME AttachmentsTypeOK, NEW ts
  PROVE  /\ RowsAge(row, Cascaded(ts))
         /\ \A d \in Item : row[d] = Unborn => Cascaded(ts)[d] = Unborn
         /\ \A d \in Item : Cascaded(ts)[d] # Gone => Cascaded(ts)[d] = row[d]
         /\ ts = task => \A d \in Item : row[d] # Unborn => Cascaded(ts)[d] = Gone
<1>1. Unborn # Gone
  BY DEF Unborn, Gone
<1>2. \A d \in Item : Stored(d) => row[d].task \in task
  BY StoredRow
<1>3. QED
  BY <1>1, <1>2 DEF RowsAge, Cascaded, Stored

LEMMA KnowStep == KnowInv /\ [FilesStep]_fileVars => KnowInv'
<1> SUFFICES ASSUME KnowInv, [FilesStep]_fileVars
             PROVE RequestsKnow' /\ OneInsert' /\ RowsHaveFiles'
  BY FilesTypeStep DEF KnowInv
<1> DEFINE Goal == RequestsKnow' /\ OneInsert' /\ RowsHaveFiles'
<1>t. AttachmentsTypeOK /\ AttachmentsTypeOK'
  BY FilesTypeStep DEF KnowInv
<1>w. work \in [Caller -> Work] /\ work' \in [Caller -> Work]
  BY <1>t DEF AttachmentsTypeOK
<1>r. row \in [Item -> Row(task)] /\ row' \in [Item -> Row(task')]
  BY <1>t DEF AttachmentsTypeOK, Row
<1>f. file \in [Item -> Nat \cup {None}] /\ file' \in [Item -> Nat \cup {None}]
  BY <1>t DEF AttachmentsTypeOK
<1>u. Unborn # Gone
  BY DEF Unborn, Gone
<1>k. \A b \in Caller : Knows(work[b], row, file)
  BY DEF KnowInv, RequestsKnow
<1>a. row' = row => RowsAge(row, row')
  BY DEF RowsAge
<1>1. CASE UNCHANGED fileVars
  BY <1>1 DEF KnowInv, RequestsKnow, OneInsert, RowsHaveFiles, Stored, fileVars
<1>2. ASSUME NEW c \in Caller, RequestStep(c) PROVE Goal
  <2> DEFINE q == work[c]
  <2>q. q \in Work /\ Knows(q, row, file)
    BY <1>w, <1>k
  <2>o. ASSUME work'[c].at # "insert", \A b \in Caller \ {c} : work'[b] = work[b]
        PROVE  OneInsert'
    BY <2>o DEF KnowInv, OneInsert
  <2>n. ASSUME row' = row, file' = file, hollow' = hollow
        PROVE  RowsHaveFiles'
    BY <2>n DEF KnowInv, RowsHaveFiles, Stored
  <2>s. ASSUME NEW stage, Turn(c, stage)
        PROVE  work'[c] = stage /\ \A b \in Caller \ {c} : work'[b] = work[b]
    BY <2>s, <1>w DEF Turn
  <2>e. ASSUME End(c)
        PROVE  /\ work'[c] = Idle /\ Idle.at = "idle"
               /\ \A b \in Caller \ {c} : work'[b] = work[b]
    BY <2>e, <2>s DEF End, Idle
  <2>1. ASSUME NEW t \in Task, NEW kind \in {Doc, Image}, BeginAdd(c, t, kind) PROVE Goal
    <3>1. /\ work'[c] = [at |-> "save", task |-> t, of |-> kind]
          /\ \A b \in Caller \ {c} : work'[b] = work[b]
      BY <2>1, <2>s DEF BeginAdd
    <3>2. Knows(work'[c], row', file')
      BY <3>1 DEF Knows
    <3>3. QED
      BY <2>1, <3>1, <3>2, <2>o, <2>n, <1>a, OneKnows DEF BeginAdd
  <2>2. CASE SaveFile(c)
    <3>1. PICK d \in q.of : /\ row[d] = Unborn /\ file[d] = None
                            /\ file' = [file EXCEPT ![d] = revision + 1]
                            /\ Turn(c, [at |-> "insert", item |-> d, task |-> q.task,
                                        revision |-> revision + 1])
      BY <2>2 DEF SaveFile
    <3>2. d \in Item
      <4>1. q.of \in {Doc, Image}
        BY <2>2, <2>q, WorkFields DEF SaveFile
      <4>2. QED
        BY <3>1, <4>1 DEF Item
    <3>3. /\ work'[c] = [at |-> "insert", item |-> d, task |-> q.task, revision |-> revision + 1]
          /\ \A b \in Caller \ {c} : work'[b] = work[b]
      BY <3>1, <2>s
    <3>4. file'[d] = revision + 1 /\ \A e \in Item \ {d} : file'[e] = file[e]
      BY <1>f, <3>1, <3>2
    <3>5. row' = row /\ hollow' = hollow
      BY <2>2 DEF SaveFile
    <3>6. Knows(work'[c], row', file')
      BY <3>1, <3>3, <3>4, <3>5 DEF Knows
    <3>7. \A b \in Caller \ {c} : work[b].at = "insert" => work[b].item \in Item /\ work[b].item # d
      <4> TAKE b \in Caller \ {c}
      <4> HAVE work[b].at = "insert"
      <4>1. work[b] \in Work /\ Knows(work[b], row, file)
        BY <1>w, <1>k
      <4>2. work[b].item \in Item /\ file[work[b].item] \in Nat
        BY <4>1, WorkFields DEF Knows
      <4>3. QED
        BY <3>1, <4>2, AttachmentsAssumption
    <3>8. RequestsKnow'
      BY <3>3, <3>4, <3>5, <3>6, <3>7, <1>a, OneKnows
    <3>9. OneInsert'
      BY <3>3, <3>7 DEF KnowInv, OneInsert
    <3>10. RowsHaveFiles'
      <4>1. ~Stored(d)
        BY <3>1 DEF Stored
      <4>2. QED
        BY <3>4, <3>5, <4>1 DEF KnowInv, RowsHaveFiles, Stored
    <3>11. QED
      BY <3>8, <3>9, <3>10
  <2>3. CASE InsertRow(c)
    <3>1. /\ q.at = "insert" /\ q.item \in Item /\ q.revision \in Nat
          /\ row[q.item] = Unborn /\ file[q.item] = q.revision
      BY <2>3, <2>q, WorkFields DEF InsertRow, Knows
    <3>2. /\ \A e \in Item \ {q.item} : row'[e] = row[e]
          /\ row'[q.item] # Unborn
          /\ file' = file /\ hollow' = hollow
      BY <2>3, <1>r, <3>1 DEF InsertRow, Unborn, Gone
    <3>3. /\ work'[c] \in [at: {"added", "discard"}, item: {q.item}]
          /\ \A b \in Caller \ {c} : work'[b] = work[b]
      BY <2>3, <2>s DEF InsertRow
    <3>4. RowsAge(row, row')
      BY <3>1, <3>2, <1>u DEF RowsAge
    <3>5. Knows(work'[c], row', file')
      BY <3>2, <3>3 DEF Knows
    <3>6. \A b \in Caller \ {c} : work[b].at = "insert" => work[b].item \in Item /\ work[b].item # q.item
      BY <3>1, <1>w, WorkFields DEF KnowInv, OneInsert
    <3>7. RequestsKnow'
      BY <3>2, <3>3, <3>4, <3>5, <3>6, OneKnows
    <3>8. RowsHaveFiles'
      <4>1. file'[q.item] # None
        BY <3>1, <3>2, AttachmentsAssumption
      <4>2. QED
        BY <3>2, <4>1 DEF KnowInv, RowsHaveFiles, Stored
    <3>9. QED
      BY <2>o, <3>3, <3>7, <3>8
  <2>4. CASE AppendAdded(c)
    <3>1. q.at = "added" /\ row[q.item] # Unborn
      BY <2>4, <2>q DEF AppendAdded, Knows
    <3>2. /\ work'[c] \in {Idle, [at |-> "discard", item |-> q.item]}
          /\ \A b \in Caller \ {c} : work'[b] = work[b]
      BY <2>4, <2>s, <2>e DEF AppendAdded
    <3>3. row' = row /\ file' = file /\ hollow' = hollow
      BY <2>4 DEF AppendAdded
    <3>4. Knows(work'[c], row', file') /\ work'[c].at # "insert"
      BY <3>1, <3>2, <3>3 DEF Knows, Idle
    <3>5. QED
      BY <3>2, <3>3, <3>4, <2>o, <2>n, <1>a, OneKnows
  <2>5. CASE Discard(c)
    <3>1. q.item \in Item /\ row[q.item] # Unborn
      BY <2>5, <2>q, WorkFields DEF Discard, Knows
    <3>2. /\ file'[q.item] = None /\ \A e \in Item \ {q.item} : file'[e] = file[e]
          /\ row' = row
          /\ hollow' = IF Stored(q.item) THEN hollow \cup {q.item} ELSE hollow
      BY <2>5, <1>f, <3>1 DEF Discard
    <3>3. /\ work'[c] = Idle /\ Idle.at = "idle"
          /\ \A b \in Caller \ {c} : work'[b] = work[b]
      BY <2>5, <2>e DEF Discard
    <3>4. \A b \in Caller \ {c} : work[b].at = "insert" => work[b].item \in Item /\ work[b].item # q.item
      BY <3>1, <1>w, <1>k, WorkFields DEF Knows
    <3>5. RequestsKnow'
      BY <3>2, <3>3, <3>4, <1>a, IdleKnows, OneKnows
    <3>6. RowsHaveFiles'
      BY <3>2 DEF KnowInv, RowsHaveFiles, Stored
    <3>7. QED
      BY <2>o, <3>3, <3>5, <3>6
  <2>6. ASSUME NEW d \in Doc, BeginUpdate(c, d) PROVE Goal
    <3>1. /\ work'[c] = [at |-> "update", temp |-> [item |-> d, revision |-> revision + 1]]
          /\ \A b \in Caller \ {c} : work'[b] = work[b]
      BY <2>6, <2>s DEF BeginUpdate
    <3>2. row' = row /\ file' = file /\ hollow' = hollow /\ row[d] # Unborn
      BY <2>6 DEF BeginUpdate, Stored
    <3>3. Knows(work'[c], row', file')
      BY <3>1, <3>2 DEF Knows
    <3>4. QED
      BY <3>1, <3>2, <3>3, <2>o, <2>n, <1>a, OneKnows
  <2>7. CASE UpdateRow(c)
    <3>1. /\ q.at = "update" /\ q.temp.item \in Item /\ row[q.temp.item] # Unborn
          /\ q.temp.revision \in Nat
      BY <2>7, <2>q, WorkFields, DocsAreItems DEF UpdateRow, Knows
    <3>2. /\ work'[c] \in {[q EXCEPT !.at = "updated"], [q EXCEPT !.at = "drop"]}
          /\ \A b \in Caller \ {c} : work'[b] = work[b]
      BY <2>7, <2>s DEF UpdateRow, AfterError
    <3>3. work'[c].at \in {"updated", "drop"} /\ work'[c].temp = q.temp
      <4>1. \A stage \in {"updated", "drop"} :
              [q EXCEPT !.at = stage].at = stage /\ [q EXCEPT !.at = stage].temp = q.temp
        BY <2>q, <3>1, NextStage
      <4>2. QED
        BY <3>2, <4>1
    <3>4. /\ \A e \in Item \ {q.temp.item} : row'[e] = row[e]
          /\ row[q.temp.item] = Gone => row'[q.temp.item] = Gone
          /\ row'[q.temp.item] # Unborn
          /\ row'[q.temp.item] # Gone => Stored(q.temp.item)
      <4>1. CASE Stored(q.temp.item) /\ row' = [row EXCEPT ![q.temp.item].revision = q.temp.revision]
        <5>1. row[q.temp.item] \in [at: {"stored"}, task: task, revision: Nat]
          BY <4>1, <3>1, <1>t, StoredRow
        <5>2. [row[q.temp.item] EXCEPT !.revision = q.temp.revision] \in
                [at: {"stored"}, task: task, revision: Nat]
          BY <3>1, <5>1
        <5>3. row'[q.temp.item] \in [at: {"stored"}, task: task, revision: Nat]
          BY <3>1, <4>1, <1>r, <5>2
        <5>4. row'[q.temp.item] \notin {Unborn, Gone} /\ row[q.temp.item] # Gone
          BY <5>1, <5>3 DEF Unborn, Gone
        <5>5. \A e \in Item \ {q.temp.item} : row'[e] = row[e]
          BY <1>r, <4>1
        <5>6. QED
          BY <4>1, <5>4, <5>5
      <4>2. CASE UNCHANGED row
        BY <3>1, <4>2 DEF Stored
      <4>3. QED
        BY <2>7, <4>1, <4>2 DEF UpdateRow
    <3>5. file' = file /\ hollow' = hollow
      BY <2>7 DEF UpdateRow
    <3>6. RowsAge(row, row') /\ Knows(work'[c], row', file')
      BY <3>3, <3>4 DEF RowsAge, Knows
    <3>7. \A b \in Caller \ {c} : work[b].at = "insert" =>
            work[b].item \in Item /\ work[b].item # q.temp.item
      BY <3>1, <1>w, <1>k, WorkFields DEF Knows
    <3>8. RequestsKnow'
      BY <3>2, <3>4, <3>5, <3>6, <3>7, OneKnows
    <3>9. RowsHaveFiles'
      BY <3>1, <3>4, <3>5 DEF KnowInv, RowsHaveFiles, Stored
    <3>10. QED
      BY <2>o, <3>2, <3>3, <3>8, <3>9
  <2>8. CASE AppendUpdated(c)
    <3>1. q.at = "updated" /\ row[q.temp.item] # Unborn
      BY <2>8, <2>q DEF AppendUpdated, Knows
    <3>2. /\ work'[c] \in {[q EXCEPT !.at = "commit"], [q EXCEPT !.at = "drop"]}
          /\ \A b \in Caller \ {c} : work'[b] = work[b]
      BY <2>8, <2>s DEF AppendUpdated, AfterError
    <3>3. work'[c].at \in {"commit", "drop"} /\ work'[c].temp = q.temp
      <4>1. \A stage \in {"commit", "drop"} :
              [q EXCEPT !.at = stage].at = stage /\ [q EXCEPT !.at = stage].temp = q.temp
        BY <2>q, <3>1, NextStage
      <4>2. QED
        BY <3>2, <4>1
    <3>4. row' = row /\ file' = file /\ hollow' = hollow
      BY <2>8 DEF AppendUpdated
    <3>5. Knows(work'[c], row', file')
      BY <3>1, <3>3, <3>4 DEF Knows
    <3>6. QED
      BY <3>2, <3>3, <3>4, <3>5, <2>o, <2>n, <1>a, OneKnows
  <2>9. CASE CommitContent(c)
    <3>1. /\ q.temp.item \in Item /\ q.temp.revision \in Nat /\ row[q.temp.item] # Unborn
      BY <2>9, <2>q, WorkFields, DocsAreItems DEF CommitContent, Knows
    <3>2. /\ \A e \in Item \ {q.temp.item} : file'[e] = file[e]
          /\ file'[q.temp.item] \in {file[q.temp.item], q.temp.revision}
          /\ row' = row /\ hollow' = hollow
      BY <2>9, <1>f, <3>1 DEF CommitContent
    <3>3. /\ work'[c] = Idle /\ Idle.at = "idle"
          /\ \A b \in Caller \ {c} : work'[b] = work[b]
      BY <2>9, <2>e DEF CommitContent
    <3>4. \A b \in Caller \ {c} : work[b].at = "insert" =>
            work[b].item \in Item /\ work[b].item # q.temp.item
      BY <3>1, <1>w, <1>k, WorkFields DEF Knows
    <3>5. RequestsKnow'
      BY <3>2, <3>3, <3>4, <1>a, IdleKnows, OneKnows
    <3>6. RowsHaveFiles'
      BY <3>1, <3>2, AttachmentsAssumption DEF KnowInv, RowsHaveFiles, Stored
    <3>7. QED
      BY <2>o, <3>3, <3>5, <3>6
  <2>10. CASE DropTemp(c)
    <3>1. row' = row /\ file' = file /\ hollow' = hollow
      BY <2>10 DEF DropTemp, ContentKept
    <3>2. /\ work'[c] = Idle /\ Idle.at = "idle"
          /\ \A b \in Caller \ {c} : work'[b] = work[b]
      BY <2>10, <2>e DEF DropTemp
    <3>3. QED
      BY <3>1, <3>2, <2>o, <2>n, <1>a, IdleKnows, OneKnows
  <2>11. ASSUME NEW d \in Item, BeginRemove(c, d) PROVE Goal
    <3>1. /\ row'[d] = Gone /\ \A e \in Item \ {d} : row'[e] = row[e]
          /\ row[d] # Unborn
          /\ file' = file /\ hollow' = hollow
      BY <2>11, <1>r DEF BeginRemove, Stored
    <3>2. /\ work'[c] = [at |-> "removed", item |-> d]
          /\ \A b \in Caller \ {c} : work'[b] = work[b]
      BY <2>11, <2>s DEF BeginRemove
    <3>3. RowsAge(row, row') /\ Knows(work'[c], row', file')
      BY <3>1, <3>2, <1>u DEF RowsAge, Knows
    <3>4. \A b \in Caller \ {c} : work[b].at = "insert" => work[b].item \in Item /\ work[b].item # d
      BY <3>1, <1>w, <1>k, WorkFields DEF Knows
    <3>5. RequestsKnow'
      BY <3>1, <3>2, <3>3, <3>4, OneKnows
    <3>6. RowsHaveFiles'
      BY <3>1 DEF KnowInv, RowsHaveFiles, Stored
    <3>7. QED
      BY <2>o, <3>2, <3>5, <3>6
  <2>12. CASE AppendRemoved(c)
    <3>1. q.at = "removed" /\ row[q.item] = Gone
      BY <2>12, <2>q DEF AppendRemoved, Knows
    <3>2. /\ work'[c] \in {Idle, [at |-> "unlink", items |-> {q.item}]}
          /\ \A b \in Caller \ {c} : work'[b] = work[b]
      BY <2>12, <2>s, <2>e DEF AppendRemoved
    <3>3. row' = row /\ file' = file /\ hollow' = hollow
      BY <2>12 DEF AppendRemoved
    <3>4. Knows(work'[c], row', file') /\ work'[c].at # "insert"
      BY <3>1, <3>2, <3>3 DEF Knows, Idle
    <3>5. QED
      BY <3>2, <3>3, <3>4, <2>o, <2>n, <1>a, OneKnows
  <2>13. CASE Unlink(c)
    <3>1. q.at = "unlink" /\ q.items \in SUBSET Item /\ \A d \in q.items : row[d] = Gone
      BY <2>13, <2>q, WorkFields DEF Unlink, Knows
    <3>2. row' = row /\ hollow' = hollow
      BY <2>13 DEF Unlink
    <3>3. CASE End(c) /\ UNCHANGED file
      BY <3>2, <3>3, <2>e, <2>o, <2>n, <1>a, IdleKnows, OneKnows
    <3>4. ASSUME NEW d \in q.items, file' = [file EXCEPT ![d] = None],
                 Turn(c, [q EXCEPT !.items = @ \ {d}])
          PROVE Goal
      <4>1. /\ work'[c] = [at |-> "unlink", items |-> q.items \ {d}]
            /\ \A b \in Caller \ {c} : work'[b] = work[b]
        BY <1>w, <3>1, <3>4, UnlinkTurn
      <4>2. d \in Item /\ row[d] = Gone /\ \A e \in Item \ {d} : file'[e] = file[e]
        BY <1>f, <3>1, <3>4
      <4>3. Knows(work'[c], row', file')
        BY <3>1, <3>2, <4>1 DEF Knows
      <4>4. \A b \in Caller \ {c} : work[b].at = "insert" => work[b].item \in Item /\ work[b].item # d
        BY <4>2, <1>u, <1>w, <1>k, WorkFields DEF Knows
      <4>5. RequestsKnow'
        BY <3>2, <4>1, <4>2, <4>3, <4>4, <1>a, OneKnows
      <4>6. RowsHaveFiles'
        BY <3>2, <4>2 DEF KnowInv, RowsHaveFiles, Stored
      <4>7. QED
        BY <2>o, <4>1, <4>5, <4>6
    <3>5. QED
      BY <2>13, <3>3, <3>4 DEF Unlink
  <2>14. CASE BeginDeleteProject(c)
    <3>1. /\ work'[c] = [at |-> "delete", listed |-> {d \in Item : Stored(d)}]
          /\ \A b \in Caller \ {c} : work'[b] = work[b]
      BY <2>14, <2>s DEF BeginDeleteProject
    <3>2. row' = row /\ file' = file /\ hollow' = hollow
      BY <2>14 DEF BeginDeleteProject
    <3>3. Knows(work'[c], row', file')
      BY <3>1, <3>2 DEF Knows, Stored
    <3>4. QED
      BY <3>1, <3>2, <3>3, <2>o, <2>n, <1>a, OneKnows
  <2>15. CASE DeleteProject(c)
    <3>1. q.at = "delete" /\ q.listed \in SUBSET Item /\ \A d \in q.listed : row[d] # Unborn
      BY <2>15, <2>q, WorkFields DEF DeleteProject, Knows
    <3>2. row' = Cascaded(task) /\ file' = file /\ hollow' = hollow
      BY <2>15 DEF DeleteProject
    <3>3. /\ work'[c] = [at |-> "unlink", items |-> q.listed]
          /\ \A b \in Caller \ {c} : work'[b] = work[b]
      BY <2>15, <2>s DEF DeleteProject
    <3>4. /\ RowsAge(row, row')
          /\ \A d \in Item : row[d] = Unborn => row'[d] = Unborn
          /\ \A d \in Item : row'[d] # Gone => row'[d] = row[d]
          /\ \A d \in q.listed : row'[d] = Gone
      BY <1>t, <3>1, <3>2, CascadeAges
    <3>5. Knows(work'[c], row', file')
      BY <3>3, <3>4 DEF Knows
    <3>6. \A b \in Caller \ {c} : work[b].at = "insert" => row'[work[b].item] = row[work[b].item]
      BY <3>4, <1>w, <1>k, WorkFields DEF Knows
    <3>7. RequestsKnow'
      BY <3>2, <3>3, <3>4, <3>5, <3>6, OneKnows
    <3>8. RowsHaveFiles'
      BY <3>2, <3>4 DEF KnowInv, RowsHaveFiles, Stored
    <3>9. QED
      BY <2>o, <3>3, <3>7, <3>8
  <2>16. QED
    BY <1>2, <2>1, <2>2, <2>3, <2>4, <2>5, <2>6, <2>7, <2>8, <2>9, <2>10, <2>11, <2>12,
       <2>13, <2>14, <2>15 DEF RequestStep
<1>3. ASSUME NEW t \in Task, DeleteTask(t) PROVE Goal
  <2>1. row' = Cascaded({t}) /\ file' = file /\ work' = work /\ hollow' = hollow
    BY <1>3 DEF DeleteTask
  <2>2. /\ RowsAge(row, row')
        /\ \A d \in Item : row[d] = Unborn => row'[d] = Unborn
        /\ \A d \in Item : row'[d] # Gone => row'[d] = row[d]
    BY <1>t, <2>1, CascadeAges
  <2>3. RequestsKnow'
    <3> SUFFICES ASSUME NEW b \in Caller PROVE Knows(work[b], row', file')
      BY <2>1 DEF RequestsKnow
    <3>1. work[b] \in Work /\ Knows(work[b], row, file)
      BY <1>w, <1>k
    <3>2. work[b].at = "insert" => row'[work[b].item] = row[work[b].item]
      BY <2>2, <3>1, WorkFields DEF Knows
    <3>3. QED
      BY <2>1, <2>2, <3>1, <3>2, KnowsMore
  <2>4. OneInsert' /\ RowsHaveFiles'
    BY <2>1, <2>2 DEF KnowInv, OneInsert, RowsHaveFiles, Stored
  <2>5. QED
    BY <2>3, <2>4
<1>4. ASSUME NEW cs \in SUBSET Caller, StopRequests(cs) PROVE Goal
  <2>1. /\ row' = row /\ file' = file /\ hollow' = hollow
        /\ \A b \in Caller : work'[b] = IF b \in cs THEN Idle ELSE work[b]
    BY <1>4 DEF StopRequests
  <2>2. RequestsKnow'
    BY <2>1, <1>k, IdleKnows DEF RequestsKnow
  <2>3. OneInsert' /\ RowsHaveFiles'
    BY <2>1 DEF KnowInv, OneInsert, RowsHaveFiles, Stored, Idle
  <2>4. QED
    BY <2>2, <2>3
<1>5. QED
  BY <1>1, <1>2, <1>3, <1>4 DEF FilesStep

-----------------------------------------------------------------------------
\* Temporary files.

Holds(q, new) == q.at \in {"update", "updated", "commit", "drop"} /\ q.temp = new

\* The step of one request, c, that removes no more than the temporary file it gives up.
LEMMA OneCleans ==
  ASSUME TempsAreCleaned, crashed' = crashed, NEW c \in Caller,
         \A b \in Caller \ {c} : work'[b] = work[b],
         \A new \in temp' : Holds(work'[c], new) \/ (new \in temp /\ ~Holds(work[c], new))
  PROVE  TempsAreCleaned'
BY DEF TempsAreCleaned, Holds

LEMMA CleanStep == KnowInv /\ TempsAreCleaned /\ [FilesStep]_fileVars => TempsAreCleaned'
<1> SUFFICES ASSUME KnowInv, TempsAreCleaned, [FilesStep]_fileVars PROVE TempsAreCleaned'
  OBVIOUS
<1>w. work \in [Caller -> Work] /\ work' \in [Caller -> Work]
  BY FilesTypeStep DEF KnowInv, AttachmentsTypeOK
<1>1. CASE UNCHANGED fileVars
  BY <1>1 DEF TempsAreCleaned, fileVars
<1>2. ASSUME NEW c \in Caller, RequestStep(c) PROVE TempsAreCleaned'
  <2> DEFINE q == work[c]
  <2>q. q \in Work
    BY <1>w
  <2>s. ASSUME NEW stage, Turn(c, stage)
        PROVE  work'[c] = stage /\ \A b \in Caller \ {c} : work'[b] = work[b]
    BY <2>s, <1>w DEF Turn
  <2>e. ASSUME End(c)
        PROVE  work'[c] = Idle /\ \A b \in Caller \ {c} : work'[b] = work[b]
    BY <2>e, <2>s DEF End
  <2>n. ASSUME q.at \notin {"update", "updated", "commit", "drop"}, temp' = temp,
               crashed' = crashed, \A b \in Caller \ {c} : work'[b] = work[b]
        PROVE  TempsAreCleaned'
    BY <2>n, OneCleans DEF Holds
  <2>m. ASSUME NEW stage \in {"updated", "commit", "drop"},
               q.at \in {"update", "updated"}, temp' = temp, crashed' = crashed,
               Turn(c, [q EXCEPT !.at = stage])
        PROVE  TempsAreCleaned'
    <3>1. work'[c].at = stage /\ work'[c].temp = q.temp
      BY <2>m, <1>w, StageTurn
    <3>2. QED
      BY <2>m, <2>s, <3>1, OneCleans DEF Holds
  <2>1. ASSUME NEW t \in Task, NEW kind \in {Doc, Image}, BeginAdd(c, t, kind)
        PROVE TempsAreCleaned'
    BY <2>1, <2>n, <2>s DEF BeginAdd, Busy, Idle
  <2>2. CASE SaveFile(c)
    BY <2>2, <2>n, <2>s DEF SaveFile
  <2>3. CASE InsertRow(c)
    BY <2>3, <2>n, <2>s DEF InsertRow
  <2>4. CASE AppendAdded(c)
    BY <2>4, <2>n, <2>s, <2>e DEF AppendAdded
  <2>5. CASE Discard(c)
    BY <2>5, <2>n, <2>e DEF Discard
  <2>6. ASSUME NEW d \in Doc, BeginUpdate(c, d) PROVE TempsAreCleaned'
    <3> DEFINE new == [item |-> d, revision |-> revision + 1]
    <3>1. /\ work'[c] = [at |-> "update", temp |-> new] /\ temp' = temp \cup {new}
          /\ \A b \in Caller \ {c} : work'[b] = work[b]
          /\ q = Idle /\ crashed' = crashed
      BY <2>6, <2>s DEF BeginUpdate, Busy
    <3>2. Holds(work'[c], new) /\ \A old : ~Holds(q, old)
      BY <3>1 DEF Holds, Idle
    <3>3. QED
      BY <3>1, <3>2, OneCleans
  <2>7. CASE UpdateRow(c)
    BY <2>7, <2>m DEF UpdateRow, AfterError
  <2>8. CASE AppendUpdated(c)
    BY <2>8, <2>m DEF AppendUpdated, AfterError
  <2>9. CASE CommitContent(c)
    BY <2>9, <2>e, OneCleans DEF CommitContent, Holds
  <2>10. CASE DropTemp(c)
    BY <2>10, <2>e, OneCleans DEF DropTemp, Holds
  <2>11. ASSUME NEW d \in Item, BeginRemove(c, d) PROVE TempsAreCleaned'
    BY <2>11, <2>n, <2>s DEF BeginRemove, Busy, Idle
  <2>12. CASE AppendRemoved(c)
    BY <2>12, <2>n, <2>s, <2>e DEF AppendRemoved
  <2>13. CASE Unlink(c)
    BY <2>13, <2>n, <2>s, <2>e DEF Unlink
  <2>14. CASE BeginDeleteProject(c)
    BY <2>14, <2>n, <2>s DEF BeginDeleteProject, Busy, Idle
  <2>15. CASE DeleteProject(c)
    BY <2>15, <2>n, <2>s DEF DeleteProject
  <2>16. QED
    BY <1>2, <2>1, <2>2, <2>3, <2>4, <2>5, <2>6, <2>7, <2>8, <2>9, <2>10, <2>11, <2>12,
       <2>13, <2>14, <2>15 DEF RequestStep
<1>3. ASSUME NEW t \in Task, DeleteTask(t) PROVE TempsAreCleaned'
  BY <1>3 DEF DeleteTask, TempsAreCleaned
<1>4. ASSUME NEW cs \in SUBSET Caller, StopRequests(cs) PROVE TempsAreCleaned'
  <2>1. CASE \A c \in cs : ~Busy(c)
    <3>1. \A c \in Caller : work'[c] = work[c]
      BY <1>4, <2>1 DEF StopRequests, Busy
    <3>2. temp' = temp
      BY <1>4 DEF StopRequests
    <3>3. crashed => crashed'
      BY <1>4, Zenon DEF StopRequests
    <3>4. QED
      BY <3>1, <3>2, <3>3 DEF TempsAreCleaned
  <2>2. CASE ~ \A c \in cs : ~Busy(c)
    BY <1>4, <2>2 DEF StopRequests, TempsAreCleaned
  <2>3. QED
    BY <2>1, <2>2
<1>5. QED
  BY <1>1, <1>2, <1>3, <1>4 DEF FilesStep

-----------------------------------------------------------------------------
\* Contents.

\* The request q has stamped the row of d and not yet replaced the content.
Writes(q, d) == q.at \in {"updated", "commit"} /\ q.temp.item = d

\* One request at most does so, and it has the revision of the row; when none does, the
\* file has it.
ContentAt(d) ==
  d \notin torn =>
    /\ \A b, c \in Caller : Writes(work[b], d) /\ Writes(work[c], d) => b = c
    /\ Stored(d) =>
         /\ \A c \in Caller : Writes(work[c], d) => row[d].revision = work[c].temp.revision
         /\ d \notin hollow /\ (\A c \in Caller : ~Writes(work[c], d)) =>
              file[d] = row[d].revision

ContentInv == \A d \in Item : ContentAt(d)

\* Nothing changes for d while its row is there.
LEMMA SameContent ==
  ASSUME NEW d \in Item, ContentAt(d),
         torn \subseteq torn', hollow \subseteq hollow',
         d \notin torn' =>
           /\ \A b \in Caller : Writes(work'[b], d) => Writes(work[b], d)
           /\ Stored(d)' =>
                /\ row'[d] = row[d]
                /\ \A b \in Caller : /\ Writes(work[b], d) => Writes(work'[b], d)
                                     /\ Writes(work'[b], d) => work'[b].temp = work[b].temp
                /\ d \notin hollow' => file'[d] = file[d]
  PROVE  ContentAt(d)'
BY DEF ContentAt, Stored

LEMMA ContentStep == KnowInv /\ ContentInv /\ [FilesStep]_fileVars => ContentInv'
<1> SUFFICES ASSUME KnowInv, ContentInv, [FilesStep]_fileVars, NEW d \in Item
             PROVE ContentAt(d)'
  BY DEF ContentInv
<1>t. AttachmentsTypeOK /\ AttachmentsTypeOK'
  BY FilesTypeStep DEF KnowInv
<1>w. work \in [Caller -> Work] /\ work' \in [Caller -> Work]
  BY <1>t DEF AttachmentsTypeOK
<1>r. row \in [Item -> Row(task)]
  BY <1>t DEF AttachmentsTypeOK, Row
<1>f. file \in [Item -> Nat \cup {None}]
  BY <1>t DEF AttachmentsTypeOK
<1>k. \A b \in Caller : Knows(work[b], row, file)
  BY DEF KnowInv, RequestsKnow
<1>c. ContentAt(d)
  BY DEF ContentInv
<1>1. CASE UNCHANGED fileVars
  BY <1>1, <1>c DEF fileVars, ContentAt, Stored
<1>2. ASSUME NEW c \in Caller, RequestStep(c) PROVE ContentAt(d)'
  <2> DEFINE q == work[c]
  <2>q. q \in Work /\ Knows(q, row, file)
    BY <1>w, <1>k
  <2>s. ASSUME NEW stage, Turn(c, stage)
        PROVE  work'[c] = stage /\ \A b \in Caller \ {c} : work'[b] = work[b]
    BY <2>s, <1>w DEF Turn
  <2>e. ASSUME End(c)
        PROVE  /\ ~Writes(work'[c], d)
               /\ \A b \in Caller \ {c} : work'[b] = work[b]
    BY <2>e, <2>s DEF End, Idle, Writes
  \* A step of a request that does not write d before it and does not after it.
  <2>n. ASSUME ~Writes(q, d), ~Writes(work'[c], d),
               \A b \in Caller \ {c} : work'[b] = work[b],
               torn \subseteq torn', hollow \subseteq hollow',
               Stored(d)' => row'[d] = row[d] /\ (d \notin hollow' => file'[d] = file[d])
        PROVE  ContentAt(d)'
    BY <2>n, <1>c, SameContent
  <2>1. ASSUME NEW t \in Task, NEW kind \in {Doc, Image}, BeginAdd(c, t, kind)
        PROVE ContentAt(d)'
    BY <2>1, <2>n, <2>s DEF BeginAdd, Busy, Idle, Writes
  <2>2. CASE SaveFile(c)
    <3>1. PICK i \in q.of : /\ row[i] = Unborn
                            /\ file' = [file EXCEPT ![i] = revision + 1]
                            /\ Turn(c, [at |-> "insert", item |-> i, task |-> q.task,
                                        revision |-> revision + 1])
      BY <2>2 DEF SaveFile
    <3>2. ~Writes(q, d) /\ ~Writes(work'[c], d) /\ \A b \in Caller \ {c} : work'[b] = work[b]
      BY <2>2, <3>1, <2>s DEF SaveFile, Writes
    <3>3. row' = row /\ torn' = torn /\ hollow' = hollow
      BY <2>2 DEF SaveFile
    <3>4. row[d] # Unborn => file'[d] = file[d]
      BY <3>1, <1>f
    <3>5. QED
      BY <2>n, <3>2, <3>3, <3>4 DEF Stored
  <2>3. CASE InsertRow(c)
    <3>1. /\ q.at = "insert" /\ q.item \in Item /\ q.revision \in Nat
          /\ row[q.item] = Unborn /\ file[q.item] = q.revision
      BY <2>3, <2>q, WorkFields DEF InsertRow, Knows
    <3>2. /\ file' = file /\ hollow' = hollow /\ torn' = torn
          /\ \A e \in Item \ {q.item} : row'[e] = row[e]
          /\ \/ row'[q.item].revision = q.revision
             \/ row'[q.item] = Gone
      BY <2>3, <1>r, <3>1 DEF InsertRow
    <3>3. /\ ~Writes(q, d) /\ ~Writes(work'[c], d)
          /\ \A b \in Caller \ {c} : work'[b] = work[b]
      BY <2>3, <2>s DEF InsertRow, Writes
    <3>4. CASE d # q.item
      BY <2>n, <3>2, <3>3, <3>4
    <3>5. CASE d = q.item
      <4>1. \A b \in Caller : ~Writes(work'[b], d)
        BY <1>k, <3>1, <3>3, <3>5 DEF Knows, Writes
      <4>2. QED
        BY <3>1, <3>2, <3>5, <4>1 DEF ContentAt, Stored
    <3>6. QED
      BY <3>4, <3>5
  <2>4. CASE AppendAdded(c)
    <3>1. ~Writes(q, d) /\ ~Writes(work'[c], d) /\ \A b \in Caller \ {c} : work'[b] = work[b]
      BY <2>4, <2>s, <2>e DEF AppendAdded, Writes
    <3>2. QED
      BY <2>4, <2>n, <3>1 DEF AppendAdded
  <2>5. CASE Discard(c)
    <3>1. ~Writes(q, d) /\ ~Writes(work'[c], d) /\ \A b \in Caller \ {c} : work'[b] = work[b]
      BY <2>5, <2>e DEF Discard, Writes
    <3>2. /\ row' = row /\ torn' = torn
          /\ hollow' = IF Stored(q.item) THEN hollow \cup {q.item} ELSE hollow
          /\ d # q.item => file'[d] = file[d]
      BY <2>5, <1>f DEF Discard
    <3>3. Stored(d)' => row'[d] = row[d] /\ (d \notin hollow' => file'[d] = file[d])
      BY <3>2 DEF Stored
    <3>4. QED
      BY <2>n, <3>1, <3>2, <3>3
  <2>6. ASSUME NEW i \in Doc, BeginUpdate(c, i) PROVE ContentAt(d)'
    BY <2>6, <2>n, <2>s DEF BeginUpdate, Busy, Idle, Writes
  <2>7. CASE UpdateRow(c)
    <3>1. /\ q.at = "update" /\ q.temp.item \in Item /\ q.temp.revision \in Nat
      BY <2>7, <2>q, WorkFields, DocsAreItems DEF UpdateRow
    <3>2. /\ file' = file /\ hollow' = hollow /\ ~Writes(q, d)
          /\ \A b \in Caller \ {c} : work'[b] = work[b]
      BY <2>7, <2>s, <3>1 DEF UpdateRow, Writes
    <3>3. CASE /\ Stored(q.temp.item)
               /\ row' = [row EXCEPT ![q.temp.item].revision = q.temp.revision]
               /\ Turn(c, [q EXCEPT !.at = "updated"])
               /\ torn' = IF Overtaken(q.temp.item) # {} THEN torn \cup {q.temp.item} ELSE torn
      <4>1. work'[c].at = "updated" /\ work'[c].temp = q.temp
        BY <1>w, <3>1, <3>3, StageTurn
      <4>2. CASE d # q.temp.item
        <5>1. ~Writes(work'[c], d) /\ row'[d] = row[d]
          BY <1>r, <3>3, <4>1, <4>2 DEF Writes
        <5>2. QED
          BY <2>n, <3>2, <3>3, <5>1
      <4>3. CASE d = q.temp.item /\ d \notin torn'
        <5>1. \A b \in Caller : Writes(work'[b], d) => b = c
          BY <3>2, <3>3, <4>3 DEF Overtaken, Writes
        <5>2. row'[d].revision = q.temp.revision
          <6>1. row[d] \in [at: {"stored"}, task: task, revision: Nat]
            BY <1>t, <3>3, <4>3, StoredRow
          <6>2. row'[d] = [row[d] EXCEPT !.revision = q.temp.revision]
            BY <1>r, <3>3, <4>3
          <6>3. QED
            BY <6>1, <6>2
        <5>3. Writes(work'[c], d)
          BY <4>1, <4>3 DEF Writes
        <5>4. QED
          BY <4>1, <5>1, <5>2, <5>3 DEF ContentAt
      <4>4. CASE d \in torn'
        BY <4>4 DEF ContentAt
      <4>5. QED
        BY <4>2, <4>3, <4>4
    <3>4. CASE Turn(c, AfterError(q)) /\ UNCHANGED <<row, torn>>
      <4>1. work'[c].at = "drop"
        BY <1>w, <3>1, <3>4, StageTurn DEF AfterError
      <4>2. QED
        BY <2>n, <3>2, <3>4, <4>1 DEF Writes
    <3>5. QED
      BY <2>7, <3>3, <3>4 DEF UpdateRow
  <2>8. CASE AppendUpdated(c)
    <3>1. /\ q.at = "updated" /\ row' = row /\ file' = file /\ hollow' = hollow
      BY <2>8 DEF AppendUpdated
    <3>2. CASE Turn(c, [q EXCEPT !.at = "commit"]) /\ UNCHANGED torn
      <4>1. /\ work'[c].at = "commit" /\ work'[c].temp = q.temp
            /\ \A b \in Caller \ {c} : work'[b] = work[b]
        BY <1>w, <3>1, <3>2, StageTurn
      <4>2. \A b \in Caller : /\ Writes(work'[b], d) <=> Writes(work[b], d)
                              /\ Writes(work'[b], d) => work'[b].temp = work[b].temp
        BY <3>1, <4>1 DEF Writes
      <4>3. QED
        BY <1>c, <3>1, <3>2, <4>2, SameContent
    <3>3. CASE Turn(c, AfterError(q)) /\ torn' = torn \cup {q.temp.item}
      <4>1. /\ work'[c].at = "drop"
            /\ \A b \in Caller \ {c} : work'[b] = work[b]
        BY <1>w, <3>1, <3>3, StageTurn DEF AfterError
      <4>2. CASE d = q.temp.item
        BY <3>3, <4>2 DEF ContentAt
      <4>3. CASE d # q.temp.item
        BY <2>n, <3>1, <3>3, <4>1, <4>3 DEF Writes
      <4>4. QED
        BY <4>2, <4>3
    <3>4. QED
      BY <2>8, <3>2, <3>3 DEF AppendUpdated
  <2>9. CASE CommitContent(c)
    <3>1. q.at = "commit" /\ q.temp.item \in Item
      BY <2>9, <2>q, WorkFields, DocsAreItems DEF CommitContent
    <3>2. /\ row' = row /\ hollow' = hollow /\ torn \subseteq torn'
          /\ ~Writes(work'[c], d) /\ \A b \in Caller \ {c} : work'[b] = work[b]
          /\ d # q.temp.item => file'[d] = file[d]
          /\ \/ file' = [file EXCEPT ![q.temp.item] = q.temp.revision]
             \/ q.temp.item \in torn'
      BY <2>9, <2>e, <1>f DEF CommitContent
    <3>3. CASE d # q.temp.item
      BY <2>n, <3>2, <3>3 DEF Writes
    <3>4. CASE d = q.temp.item /\ d \notin torn'
      <4>1. Writes(q, d) /\ d \notin torn
        BY <3>1, <3>2, <3>4 DEF Writes
      <4>2. \A b \in Caller : ~Writes(work'[b], d)
        BY <1>c, <3>2, <4>1 DEF ContentAt
      <4>3. Stored(d) => row[d].revision = q.temp.revision
        BY <1>c, <4>1 DEF ContentAt
      <4>4. file'[d] = q.temp.revision
        BY <1>f, <3>1, <3>2, <3>4
      <4>5. QED
        BY <3>2, <4>2, <4>3, <4>4 DEF ContentAt, Stored
    <3>5. CASE d \in torn'
      BY <3>5 DEF ContentAt
    <3>6. QED
      BY <3>3, <3>4, <3>5
  <2>10. CASE DropTemp(c)
    BY <2>10, <2>n, <2>e DEF DropTemp, ContentKept, Writes
  <2>11. ASSUME NEW i \in Item, BeginRemove(c, i) PROVE ContentAt(d)'
    <3>1. ~Writes(q, d) /\ ~Writes(work'[c], d) /\ \A b \in Caller \ {c} : work'[b] = work[b]
      BY <2>11, <2>s DEF BeginRemove, Busy, Idle, Writes
    <3>2. Stored(d)' => row'[d] = row[d]
      BY <2>11, <1>r DEF BeginRemove, Stored
    <3>3. QED
      BY <2>11, <2>n, <3>1, <3>2 DEF BeginRemove
  <2>12. CASE AppendRemoved(c)
    <3>1. ~Writes(q, d) /\ ~Writes(work'[c], d) /\ \A b \in Caller \ {c} : work'[b] = work[b]
      BY <2>12, <2>s, <2>e DEF AppendRemoved, Writes
    <3>2. QED
      BY <2>12, <2>n, <3>1 DEF AppendRemoved
  <2>13. CASE Unlink(c)
    <3>1. q.at = "unlink" /\ \A i \in q.items : row[i] = Gone
      BY <2>13, <2>q DEF Unlink, Knows
    <3>2. /\ row' = row /\ torn' = torn /\ hollow' = hollow /\ ~Writes(q, d)
      BY <2>13, <3>1 DEF Unlink, Writes
    <3>3. CASE End(c) /\ UNCHANGED file
      BY <2>n, <2>e, <3>2, <3>3
    <3>4. ASSUME NEW i \in q.items, file' = [file EXCEPT ![i] = None],
                 Turn(c, [q EXCEPT !.items = @ \ {i}])
          PROVE ContentAt(d)'
      <4>1. /\ ~Writes(work'[c], d)
            /\ \A b \in Caller \ {c} : work'[b] = work[b]
        <5>1. /\ work'[c] = [at |-> "unlink", items |-> q.items \ {i}]
              /\ \A b \in Caller \ {c} : work'[b] = work[b]
          BY <1>w, <3>1, <3>4, UnlinkTurn
        <5>2. QED
          BY <5>1 DEF Writes
      <4>2. d = i \/ file'[d] = file[d]
        BY <1>f, <3>4
      <4>3. QED
        BY <2>n, <3>1, <3>2, <4>1, <4>2 DEF Stored
    <3>5. QED
      BY <2>13, <3>3, <3>4 DEF Unlink
  <2>14. CASE BeginDeleteProject(c)
    BY <2>14, <2>n, <2>s DEF BeginDeleteProject, Busy, Idle, Writes
  <2>15. CASE DeleteProject(c)
    <3>1. ~Writes(q, d) /\ ~Writes(work'[c], d) /\ \A b \in Caller \ {c} : work'[b] = work[b]
      BY <2>15, <2>s DEF DeleteProject, Writes
    <3>2. Stored(d)' => row'[d] = row[d]
      BY <2>15, <1>t, CascadeAges DEF DeleteProject, Stored
    <3>3. QED
      BY <2>15, <2>n, <3>1, <3>2 DEF DeleteProject
  <2>16. QED
    BY <1>2, <2>1, <2>2, <2>3, <2>4, <2>5, <2>6, <2>7, <2>8, <2>9, <2>10, <2>11, <2>12,
       <2>13, <2>14, <2>15 DEF RequestStep
<1>3. ASSUME NEW t \in Task, DeleteTask(t) PROVE ContentAt(d)'
  <2>1. Stored(d)' => row'[d] = row[d]
    BY <1>3, <1>t, CascadeAges DEF DeleteTask, Stored
  <2>2. QED
    BY <1>3, <1>c, <2>1, SameContent DEF DeleteTask
<1>4. ASSUME NEW cs \in SUBSET Caller, StopRequests(cs) PROVE ContentAt(d)'
  <2>1. /\ row' = row /\ file' = file /\ hollow' = hollow /\ torn \subseteq torn'
        /\ \A b \in Caller : work'[b] = IF b \in cs THEN Idle ELSE work[b]
        /\ \A b \in cs : work[b].at \in {"updated", "commit"} => work[b].temp.item \in torn'
    BY <1>4 DEF StopRequests
  <2>2. ~Writes(Idle, d)
    BY DEF Writes, Idle
  <2>3. d \notin torn' => \A b \in Caller :
           /\ Writes(work'[b], d) <=> Writes(work[b], d)
           /\ Writes(work'[b], d) => work'[b].temp = work[b].temp
    BY <2>1, <2>2 DEF Writes
  <2>4. QED
    BY <1>c, <2>1, <2>3, SameContent
<1>5. QED
  BY <1>1, <1>2, <1>3, <1>4 DEF FilesStep

LEMMA ContentHolds == KnowInv /\ ContentInv => ContentMatchesRow
BY DEF ContentInv, ContentAt, ContentMatchesRow, Overtaken, Writes, KnowInv

FilesInv == KnowInv /\ TempsAreCleaned /\ ContentInv

LEMMA FilesInvStep == FilesInv /\ [FilesStep]_fileVars => FilesInv'
BY KnowStep, CleanStep, ContentStep DEF FilesInv

LEMMA FilesInvInit == AttachmentsInit => FilesInv
<1> SUFFICES ASSUME AttachmentsInit PROVE FilesInv
  OBVIOUS
<1>1. row \in [Item -> {Unborn, Gone} \cup [at: {"stored"}, task: task, revision: Nat]]
  BY DEF AttachmentsInit
<1>2. work \in [Caller -> Work] /\ \A c \in Caller : work[c] = Idle
  BY DEF AttachmentsInit, Work
<1>3. AttachmentsTypeOK
  BY <1>1, <1>2 DEF AttachmentsInit, AttachmentsTypeOK
<1>4. \A d \in Item : ~Stored(d)
  BY DEF AttachmentsInit, Stored
<1>5. KnowInv
  BY <1>2, <1>3, <1>4, IdleKnows DEF KnowInv, RequestsKnow, OneInsert, RowsHaveFiles, Idle
<1>6. TempsAreCleaned
  BY DEF AttachmentsInit, TempsAreCleaned
<1>7. ContentInv
  BY <1>2, <1>4 DEF ContentInv, ContentAt, Writes, Idle
<1>8. QED
  BY <1>5, <1>6, <1>7 DEF FilesInv
=============================================================================
