----------------------------- MODULE MemoryProofs -----------------------------
(***************************************************************************)
(* What the engineering memory guarantees for any number of notes,         *)
(* capsules, relations and requests.                                       *)
(***************************************************************************)
EXTENDS Memory, TLAPS

-----------------------------------------------------------------------------
\* Stages.

LEMMA StageKinds ==
  ASSUME NEW q \in Stage
  PROVE  /\ q.at \in {"promote", "reject", "rewrite"} =>
              q \in [at: {"promote", "reject", "rewrite"}, note: Note, pending: BOOLEAN]
         /\ q.at = "event" => q \in [at: {"event"}, note: Note, kind: Outcome]
         /\ q.at = "relations" => q \in [at: {"relations"}, rel: Relation]
         /\ q.at = "target" => q \in [at: {"target"}, rel: Relation, seen: SUBSET Relation]
         /\ q.at = "insert" => q \in [at: {"insert"}, rel: Relation]
         /\ q.at = "mark" => q \in [at: {"mark"}, link: Link, target: Capsule]
         /\ q.at = "undo" => q \in [at: {"undo"}, link: Link]
         /\ q.at = "capsule" =>
              q \in [at: {"capsule"}, capsule: Capsule, to: CapsuleStatus \cup {None},
                     expected: Nat \cup {None}]
         /\ q.at = "write" =>
              q \in [at: {"write"}, capsule: Capsule, to: CapsuleStatus \cup {None},
                     expected: Nat \cup {None}, copy: CapsuleRow, link: Link \cup {None}]
BY DEF Stage, Idle

LEMMA StageFields ==
  ASSUME NEW q \in Stage
  PROVE  /\ q.at \in {"promote", "reject", "rewrite", "event"} => q.note \in Note
         /\ q.at \in {"promote", "reject", "rewrite"} => q.pending \in BOOLEAN
         /\ q.at = "event" => q.kind \in Outcome
         /\ q.at \in {"relations", "target", "insert"} => q.rel \in Relation
         /\ q.at = "target" => q.seen \in SUBSET Relation
         /\ q.at \in {"mark", "undo"} => q.link \in Link
         /\ q.at = "mark" => q.target \in Capsule
         /\ q.at \in {"capsule", "write"} =>
              /\ q.capsule \in Capsule
              /\ q.to \in CapsuleStatus \cup {None}
              /\ q.expected \in Nat \cup {None}
         /\ q.at = "write" => q.copy \in CapsuleRow /\ q.link \in Link \cup {None}
BY StageKinds

LEMMA BecomeType ==
  ASSUME req \in [Caller -> Stage], NEW c \in Caller, NEW stage \in Stage, Become(c, stage)
  PROVE  req' \in [Caller -> Stage]
BY DEF Become

LEMMA Becomes ==
  ASSUME req \in [Caller -> Stage], NEW c \in Caller, NEW stage, Become(c, stage)
  PROVE  req'[c] = stage /\ \A b \in Caller \ {c} : req'[b] = req[b]
BY DEF Become

LEMMA Ends ==
  ASSUME req \in [Caller -> Stage], NEW c \in Caller, End(c)
  PROVE  /\ req' \in [Caller -> Stage] /\ req'[c] = Idle
         /\ \A b \in Caller \ {c} : req'[b] = req[b]
BY DEF End, Become, Stage

LEMMA NoteFields ==
  ASSUME MemoryTypeOK, NEW n \in Note
  PROVE  /\ note[n] \in NoteRow
         /\ note[n].status \in {"none", "pending", "promoted", "rejected"}
         /\ note[n].capsule \in Capsule \cup {None}
BY DEF MemoryTypeOK, NoteRow

LEMMA CapsuleFields ==
  ASSUME NEW row \in CapsuleRow
  PROVE  /\ row.status \in CapsuleStatus /\ row.updated \in Nat
         /\ row.from \in Note \cup {None} /\ row.revived \in BOOLEAN
         /\ row # NoCapsule
BY DEF CapsuleRow, CapsuleStatus, NoCapsule

LEMMA RelationFields ==
  ASSUME NEW rel \in Relation
  PROVE  /\ rel.source \in Capsule /\ rel.type \in RelationType /\ rel.target \in Capsule
         /\ rel \notin {NoLink, Gone}
BY DEF Relation, RelationType, NoLink, Gone

-----------------------------------------------------------------------------
\* The relation is, or was, one to k.
LinksTo(row, k) == row # NoLink /\ (row # Gone => row.target = k)

\* What a request knows of the rows it works on: cs, ns and ls are the capsules, the
\* notes and the relations.
Fits(q, cs, ns, ls) ==
  /\ q.at \in {"promote", "reject", "rewrite"} =>
       /\ ns[q.note] # Unborn
       /\ ~q.pending => ns[q.note].status # "pending"
  /\ q.at = "event" =>
       /\ ns[q.note] # Unborn
       /\ q.kind \in {"promoted", "rejected"} => ns[q.note].status = q.kind
  /\ q.at = "insert" => cs[q.rel.target] # NoCapsule /\ q.rel.target # q.rel.source
  /\ q.at = "mark" =>
       /\ cs[q.target] # NoCapsule
       /\ LinksTo(ls[q.link], q.target)
  /\ q.at = "undo" => ls[q.link] # NoLink
  /\ q.at = "capsule" =>
       /\ cs[q.capsule] # NoCapsule
       /\ q.expected # None => q.expected <= cs[q.capsule].updated
  /\ q.at = "write" =>
       /\ cs[q.capsule] # NoCapsule
       /\ q.copy.from = cs[q.capsule].from
       /\ q.copy.updated <= cs[q.capsule].updated
       /\ q.copy.updated = cs[q.capsule].updated => q.copy = cs[q.capsule]
       /\ q.expected # None => q.expected <= q.copy.updated
       /\ q.link # None =>
            /\ q.to = "stale" /\ q.expected = None
            /\ LinksTo(ls[q.link], q.capsule)

StagesFit == \A c \in Caller : Fits(req[c], capsule, note, link)

MemoryInv == MemoryTypeOK /\ StagesFit

\* Capsules stay and keep where they come from, and a version stands for a row; what is
\* resolved stays; relations come once.
RowsAge ==
  /\ \A k \in Capsule : Kept(k) =>
       /\ capsule'[k] \in CapsuleRow
       /\ capsule'[k].from = capsule[k].from
       /\ capsule'[k] = capsule[k] \/ capsule'[k].updated = capsule[k].updated + 1
  /\ \A n \in Note : note[n] # Unborn =>
       /\ note'[n] # Unborn
       /\ ~Pending(n) => note'[n] = note[n]
  /\ \A i \in Link : link[i] # NoLink => link'[i] \in {link[i], Gone}

LEMMA Versions ==
  ASSUME NEW x \in Nat, NEW y \in Nat, x <= y
  PROVE  x <= y + 1 /\ x # y + 1
OBVIOUS

LEMMA StillFits ==
  ASSUME MemoryTypeOK, RowsAge, NEW q \in Stage, Fits(q, capsule, note, link)
  PROVE  Fits(q, capsule', note', link')
<1> DEFINE F == Fits(q, capsule', note', link')
<1>n. NoLink # Gone
  BY DEF NoLink, Gone
<1>c. \A k \in Capsule : Kept(k) => /\ capsule[k] \in CapsuleRow
                                    /\ capsule[k].updated \in Nat
                                    /\ capsule'[k] # NoCapsule
  BY CapsuleFields DEF MemoryTypeOK, Kept, RowsAge
<1>1. CASE q.at \in {"promote", "reject", "rewrite"}
  BY <1>1, StageFields DEF Fits, RowsAge, Pending
<1>2. CASE q.at = "event"
  BY <1>2, StageFields DEF Fits, RowsAge, Pending
<1>3. CASE q.at = "insert"
  BY <1>3, <1>c, StageFields, RelationFields DEF Fits, Kept
<1>4. CASE q.at = "mark"
  <2>1. q.link \in Link /\ q.target \in Capsule /\ link[q.link] # NoLink
    BY <1>4, StageFields DEF Fits, LinksTo
  <2>2. LinksTo(link'[q.link], q.target)
    BY <1>4, <1>n, <2>1 DEF Fits, LinksTo, RowsAge
  <2>3. QED
    BY <1>4, <1>c, <2>1, <2>2 DEF Fits, Kept
<1>5. CASE q.at = "undo"
  BY <1>5, <1>n, StageFields DEF Fits, RowsAge
<1>6. CASE q.at = "capsule"
  <2>1. /\ q.capsule \in Capsule /\ q.expected \in Nat \cup {None}
        /\ capsule[q.capsule].updated \in Nat /\ Kept(q.capsule)
    BY <1>6, <1>c, StageFields DEF Fits, Kept
  <2>2. q.expected # None => q.expected <= capsule'[q.capsule].updated
    BY <1>6, <2>1, Versions DEF Fits, RowsAge
  <2>3. QED
    BY <1>6, <1>c, <2>1, <2>2 DEF Fits
<1>7. CASE q.at = "write"
  <2> DEFINE k == q.capsule
  <2>1. /\ k \in Capsule /\ q.copy \in CapsuleRow /\ q.copy.updated \in Nat
        /\ q.link \in Link \cup {None}
        /\ Kept(k) /\ capsule[k].updated \in Nat
    BY <1>7, <1>c, StageFields, CapsuleFields DEF Fits, Kept
  <2>2. /\ q.copy.from = capsule'[k].from
        /\ q.copy.updated <= capsule'[k].updated
        /\ q.copy.updated = capsule'[k].updated => q.copy = capsule'[k]
    BY <1>7, <2>1, Versions DEF Fits, RowsAge
  <2>3. q.link # None =>
          LinksTo(link'[q.link], k)
    BY <1>7, <1>n, <2>1 DEF Fits, LinksTo, RowsAge
  <2>4. QED
    BY <1>7, <1>c, <2>1, <2>2, <2>3 DEF Fits
<1>8. CASE q.at \notin {"promote", "reject", "rewrite", "event", "insert", "mark", "undo",
                        "capsule", "write"}
  BY <1>8 DEF Fits
<1>9. QED
  BY <1>1, <1>2, <1>3, <1>4, <1>5, <1>6, <1>7, <1>8

\* The step of one request, c.
LEMMA OneFits ==
  ASSUME MemoryInv, RowsAge, NEW c \in Caller, \A b \in Caller \ {c} : req'[b] = req[b],
         Fits(req'[c], capsule', note', link')
  PROVE  StagesFit'
<1> SUFFICES ASSUME NEW b \in Caller \ {c} PROVE Fits(req[b], capsule', note', link')
  BY DEF StagesFit
<1>1. req[b] \in Stage /\ Fits(req[b], capsule, note, link)
  BY DEF MemoryInv, MemoryTypeOK, StagesFit
<1>2. QED
  BY <1>1, StillFits DEF MemoryInv

LEMMA SameRows ==
  ASSUME MemoryTypeOK, UNCHANGED <<capsule, note, link>>
  PROVE  RowsAge
BY DEF RowsAge, MemoryTypeOK, Kept

LEMMA IdleFits == \A cs, ns, ls : Fits(Idle, cs, ns, ls)
BY DEF Fits, Idle

-----------------------------------------------------------------------------
\* Types and what requests know, step by step.

\* The histories and the events keep their types, and c goes on to a stage that fits.
LEMMA OneStep ==
  ASSUME MemoryInv, NEW c \in Caller, NEW stage \in Stage, Become(c, stage), RowsAge,
         capsule' \in [Capsule -> {NoCapsule} \cup CapsuleRow],
         note' \in [Note -> NoteRow],
         link' \in [Link -> {NoLink, Gone} \cup Relation],
         event' \in [Note -> SUBSET Outcome],
         raced' \in BOOLEAN, cut' \in BOOLEAN,
         Fits(stage, capsule', note', link')
  PROVE  MemoryInv' /\ RowsAge
<1>1. req \in [Caller -> Stage]
  BY DEF MemoryInv, MemoryTypeOK
<1>2. req' \in [Caller -> Stage]
  BY <1>1, BecomeType
<1>3. req'[c] = stage /\ \A b \in Caller \ {c} : req'[b] = req[b]
  BY <1>1, Becomes
<1>4. MemoryTypeOK'
  BY <1>2 DEF MemoryTypeOK
<1>5. StagesFit'
  BY <1>3, OneFits
<1>6. QED
  BY <1>4, <1>5 DEF MemoryInv

\* The same when the rows stay as they are.
LEMMA OneStepInPlace ==
  ASSUME MemoryInv, NEW c \in Caller, NEW stage \in Stage, Become(c, stage),
         UNCHANGED <<capsule, note, link>>, event' \in [Note -> SUBSET Outcome],
         raced' \in BOOLEAN, cut' \in BOOLEAN,
         Fits(stage, capsule, note, link)
  PROVE  MemoryInv' /\ RowsAge
<1>1. RowsAge
  BY SameRows DEF MemoryInv
<1>2. /\ capsule' \in [Capsule -> {NoCapsule} \cup CapsuleRow]
      /\ note' \in [Note -> NoteRow]
      /\ link' \in [Link -> {NoLink, Gone} \cup Relation]
  BY DEF MemoryInv, MemoryTypeOK
<1>3. Fits(stage, capsule', note', link')
  BY DEF Fits
<1>4. QED
  BY <1>1, <1>2, <1>3, OneStep

LEMMA HistoriesType ==
  ASSUME MemoryInv
  PROVE  /\ event \in [Note -> SUBSET Outcome] /\ raced \in BOOLEAN /\ cut \in BOOLEAN
         /\ UNCHANGED event => event' \in [Note -> SUBSET Outcome]
         /\ UNCHANGED raced => raced' \in BOOLEAN
         /\ UNCHANGED cut => cut' \in BOOLEAN
BY DEF MemoryInv, MemoryTypeOK

LEMMA RecordingFits ==
  ASSUME NEW q \in Stage, q.at \in {"promote", "reject", "rewrite"}, NEW kind \in Outcome,
         NEW cs, NEW ns, NEW ls, ns[q.note] # Unborn,
         kind \in {"promoted", "rejected"} => ns[q.note].status = kind
  PROVE  Recording(q, kind) \in Stage /\ Fits(Recording(q, kind), cs, ns, ls)
<1>1. q.note \in Note
  BY StageFields
<1>2. /\ Idle \in Stage
      /\ [at |-> "event", note |-> q.note, kind |-> kind] \in Stage
  BY <1>1 DEF Stage
<1>3. Fits([at |-> "event", note |-> q.note, kind |-> kind], cs, ns, ls)
  BY DEF Fits
<1>4. QED
  BY <1>2, <1>3, IdleFits DEF Recording

LEMMA NoteStepInv ==
  ASSUME MemoryInv, NEW c \in Caller, NoteStep(c)
  PROVE  MemoryInv' /\ RowsAge
<1> DEFINE q == req[c]
<1>t. MemoryTypeOK
  BY DEF MemoryInv
<1>q. q \in Stage /\ Fits(q, capsule, note, link)
  BY DEF MemoryInv, MemoryTypeOK, StagesFit
<1>i. Idle \in Stage
  BY DEF Stage
<1>h. /\ event \in [Note -> SUBSET Outcome] /\ raced \in BOOLEAN /\ cut \in BOOLEAN
      /\ UNCHANGED event => event' \in [Note -> SUBSET Outcome]
      /\ UNCHANGED raced => raced' \in BOOLEAN
      /\ UNCHANGED cut => cut' \in BOOLEAN
  BY HistoriesType
<1>1. CASE BeginCapture(c)
  <2>1. [at |-> "capture"] \in Stage /\ Fits([at |-> "capture"], capsule, note, link)
    BY DEF Stage, Fits
  <2>2. QED
    BY <1>1, <1>h, <2>1, OneStepInPlace DEF BeginCapture, rows
<1>2. CASE InsertNote(c)
  <2>1. PICK n \in Note :
          /\ note[n] = Unborn
          /\ note' = [note EXCEPT ![n].status = "pending"]
          /\ Become(c, [at |-> "event", note |-> n, kind |-> "captured"])
    BY <1>2 DEF InsertNote
  <2> DEFINE stage == [at |-> "event", note |-> n, kind |-> "captured"]
  <2>2. stage \in Stage
    BY DEF Stage, Outcome
  <2>3. note \in [Note -> NoteRow] /\ Unborn.status = "none"
    BY <1>t DEF MemoryTypeOK, Unborn
  <2>4. [note[n] EXCEPT !.status = "pending"] = [status |-> "pending", capsule |-> None]
    BY <2>1 DEF Unborn
  <2>5. [status |-> "pending", capsule |-> None] \in NoteRow
    BY DEF NoteRow
  <2>6. /\ note'[n] = [status |-> "pending", capsule |-> None]
        /\ \A m \in Note \ {n} : note'[m] = note[m]
    BY <2>1, <2>3, <2>4
  <2>7. note' \in [Note -> NoteRow]
    BY <2>1, <2>3, <2>4, <2>5
  <2>8. note'[n] # Unborn
    BY <2>3, <2>6
  <2>9. capsule' = capsule /\ link' = link /\ UNCHANGED <<event, raced, cut>>
    BY <1>2 DEF InsertNote
  <2>10. RowsAge
    BY <1>t, <2>1, <2>6, <2>9 DEF RowsAge, MemoryTypeOK, Kept
  <2>11. Fits(stage, capsule', note', link')
    BY <2>8 DEF Fits
  <2>12. QED
    BY <1>h, <1>t, <2>1, <2>2, <2>7, <2>9, <2>10, <2>11, OneStep DEF MemoryTypeOK
<1>3. ASSUME NEW n \in Note, NEW op \in {"promote", "reject", "rewrite"}, BeginResolve(c, n, op)
      PROVE  MemoryInv' /\ RowsAge
  <2> DEFINE stage == [at |-> op, note |-> n, pending |-> Pending(n)]
  <2>1. stage \in Stage
    BY DEF Stage, Pending
  <2>2. Fits(stage, capsule, note, link)
    BY <1>3 DEF BeginResolve, Fits, Pending
  <2>3. QED
    BY <1>3, <1>h, <2>1, <2>2, OneStepInPlace DEF BeginResolve, rows
<1>4. CASE Promote(c)
  <2> DEFINE n == q.note
  <2>1. /\ q.at = "promote" /\ n \in Note /\ note[n] # Unborn
    BY <1>4, <1>q, StageFields DEF Promote, Fits
  <2>2. link' = link /\ UNCHANGED <<event, raced, cut>>
    BY <1>4 DEF Promote
  <2>3. ASSUME MayPromote(n), NEW k \in Capsule, capsule[k] = NoCapsule,
               capsule' = [capsule EXCEPT ![k] = NewCapsule(n)],
               note' = [note EXCEPT ![n] = [status |-> "promoted", capsule |-> k]],
               Become(c, Recording(q, "promoted"))
        PROVE  MemoryInv' /\ RowsAge
    <3>1. NewCapsule(n) \in CapsuleRow
      BY <2>1 DEF NewCapsule, CapsuleRow, CapsuleStatus
    <3>2. [status |-> "promoted", capsule |-> k] \in NoteRow
      BY DEF NoteRow
    <3>3. capsule \in [Capsule -> {NoCapsule} \cup CapsuleRow] /\ note \in [Note -> NoteRow]
      BY <1>t DEF MemoryTypeOK
    <3>4. /\ capsule' \in [Capsule -> {NoCapsule} \cup CapsuleRow]
          /\ note' \in [Note -> NoteRow]
      BY <2>1, <2>3, <3>1, <3>2, <3>3
    <3>5. /\ \A j \in Capsule \ {k} : capsule'[j] = capsule[j]
          /\ \A m \in Note \ {n} : note'[m] = note[m]
          /\ note'[n] = [status |-> "promoted", capsule |-> k]
      BY <2>1, <2>3, <3>3
    <3>6. note'[n] # Unborn /\ note'[n].status = "promoted"
      BY <3>5 DEF Unborn
    <3>7. RowsAge
      BY <2>2, <2>3, <3>3, <3>5, <3>6 DEF RowsAge, Kept, MayPromote, Pending
    <3>8. Recording(q, "promoted") \in Stage
          /\ Fits(Recording(q, "promoted"), capsule', note', link')
      BY <1>q, <2>1, <3>6, RecordingFits DEF Outcome
    <3>9. QED
      BY <1>h, <1>t, <2>2, <2>3, <3>4, <3>7, <3>8, OneStep DEF MemoryTypeOK
  <2>4. ASSUME Become(c, IF note[n].status = "promoted"
                         THEN Recording(q, "promoted") ELSE Idle),
               UNCHANGED <<capsule, note>>
        PROVE  MemoryInv' /\ RowsAge
    <3> DEFINE stage == IF note[n].status = "promoted" THEN Recording(q, "promoted") ELSE Idle
    <3>1. stage \in Stage /\ Fits(stage, capsule, note, link)
      BY <1>i, <1>q, <2>1, IdleFits, RecordingFits DEF Outcome
    <3>2. QED
      BY <1>h, <2>2, <2>4, <3>1, OneStepInPlace
  <2>5. QED
    BY <1>4, <2>3, <2>4 DEF Promote
<1>5. CASE Reject(c)
  <2> DEFINE n == q.note
  <2>1. /\ q.at = "reject" /\ n \in Note /\ note[n] # Unborn
    BY <1>5, <1>q, StageFields DEF Reject, Fits
  <2>2. link' = link /\ capsule' = capsule /\ UNCHANGED <<event, raced, cut>>
    BY <1>5 DEF Reject
  <2>3. ASSUME MayReject(n),
               note' = [note EXCEPT ![n] = [status |-> "rejected", capsule |-> None]],
               Become(c, Recording(q, "rejected"))
        PROVE  MemoryInv' /\ RowsAge
    <3>1. [status |-> "rejected", capsule |-> None] \in NoteRow
      BY DEF NoteRow
    <3>2. capsule \in [Capsule -> {NoCapsule} \cup CapsuleRow] /\ note \in [Note -> NoteRow]
      BY <1>t DEF MemoryTypeOK
    <3>3. note' \in [Note -> NoteRow]
      BY <2>1, <2>3, <3>1, <3>2
    <3>4. /\ \A m \in Note \ {n} : note'[m] = note[m]
          /\ note'[n] = [status |-> "rejected", capsule |-> None]
      BY <2>1, <2>3, <3>2
    <3>5. note'[n] # Unborn /\ note'[n].status = "rejected"
      BY <3>4 DEF Unborn
    <3>6. RowsAge
      BY <2>2, <2>3, <3>2, <3>4, <3>5 DEF RowsAge, Kept, MayReject, Pending
    <3>7. Recording(q, "rejected") \in Stage
          /\ Fits(Recording(q, "rejected"), capsule', note', link')
      BY <1>q, <2>1, <3>5, RecordingFits DEF Outcome
    <3>8. QED
      BY <1>h, <1>t, <2>2, <2>3, <3>3, <3>6, <3>7, OneStep DEF MemoryTypeOK
  <2>4. ASSUME Become(c, IF note[n].status = "rejected"
                         THEN Recording(q, "rejected") ELSE Idle),
               UNCHANGED note
        PROVE  MemoryInv' /\ RowsAge
    <3> DEFINE stage == IF note[n].status = "rejected" THEN Recording(q, "rejected") ELSE Idle
    <3>1. stage \in Stage /\ Fits(stage, capsule, note, link)
      BY <1>i, <1>q, <2>1, IdleFits, RecordingFits DEF Outcome
    <3>2. QED
      BY <1>h, <2>2, <2>4, <3>1, OneStepInPlace
  <2>5. QED
    BY <1>5, <2>3, <2>4 DEF Reject
<1>6. CASE Rewrite(c)
  <2> DEFINE stage == IF Pending(q.note) THEN Recording(q, "updated") ELSE Idle
  <2>1. q.at = "rewrite" /\ note[q.note] # Unborn
    BY <1>6, <1>q DEF Rewrite, Fits
  <2>2. stage \in Stage /\ Fits(stage, capsule, note, link)
    BY <1>i, <1>q, <2>1, IdleFits, RecordingFits DEF Outcome
  <2>3. QED
    BY <1>6, <1>h, <2>2, OneStepInPlace DEF Rewrite, rows
<1>7. CASE AppendEvent(c)
  <2>1. q.note \in Note /\ q.kind \in Outcome
    BY <1>7, <1>q, StageFields DEF AppendEvent
  <2>2. event' \in [Note -> SUBSET Outcome]
    BY <1>7, <1>h, <2>1 DEF AppendEvent
  <2>3. QED
    BY <1>7, <1>h, <1>i, <2>2, IdleFits, OneStepInPlace DEF AppendEvent, End
<1>8. QED
  BY <1>1, <1>2, <1>3, <1>4, <1>5, <1>6, <1>7 DEF NoteStep

LEMMA RelationStepInv ==
  ASSUME MemoryInv, NEW c \in Caller, RelationStep(c)
  PROVE  MemoryInv' /\ RowsAge
<1> DEFINE q == req[c]
<1>t. MemoryTypeOK
  BY DEF MemoryInv
<1>q. q \in Stage /\ Fits(q, capsule, note, link)
  BY DEF MemoryInv, MemoryTypeOK, StagesFit
<1>i. Idle \in Stage
  BY DEF Stage
<1>r. /\ capsule \in [Capsule -> {NoCapsule} \cup CapsuleRow]
      /\ note \in [Note -> NoteRow]
      /\ link \in [Link -> {NoLink, Gone} \cup Relation]
      /\ req \in [Caller -> Stage]
  BY <1>t DEF MemoryTypeOK
<1>h. /\ event \in [Note -> SUBSET Outcome] /\ raced \in BOOLEAN /\ cut \in BOOLEAN
      /\ UNCHANGED event => event' \in [Note -> SUBSET Outcome]
      /\ UNCHANGED raced => raced' \in BOOLEAN
      /\ UNCHANGED cut => cut' \in BOOLEAN
  BY HistoriesType
<1>1. ASSUME NEW rel \in Relate, BeginRelate(c, rel)
      PROVE  MemoryInv' /\ RowsAge
  <2> DEFINE stage == [at |-> "relations", rel |-> rel]
  <2>1. stage \in Stage
    BY MemoryAssumption DEF Stage
  <2>2. Fits(stage, capsule, note, link)
    BY DEF Fits
  <2>3. raced' \in BOOLEAN
    BY <1>1 DEF BeginRelate
  <2>4. QED
    BY <1>1, <1>h, <2>1, <2>2, <2>3, OneStepInPlace DEF BeginRelate, rows
<1>2. CASE ReadRelations(c)
  <2> DEFINE stage == [at |-> "target", rel |-> q.rel, seen |-> Relations]
  <2>1. q.rel \in Relation
    BY <1>2, <1>q, StageFields DEF ReadRelations
  <2>2. Relations \in SUBSET Relation
    BY <1>r DEF Relations, Made
  <2>3. stage \in Stage
    BY <2>1, <2>2 DEF Stage
  <2>4. Fits(stage, capsule, note, link)
    BY DEF Fits
  <2>5. QED
    BY <1>2, <1>h, <2>3, <2>4, OneStepInPlace DEF ReadRelations, rows
<1>3. CASE CheckTarget(c)
  <2> DEFINE rel == q.rel
             passes == /\ rel.target # rel.source
                       /\ Kept(rel.target)
                       /\ rel.type = "supersedes" => ~Path(rel.target, rel.source, q.seen)
                       /\ rel.type = "conflicts-with" => ~Back(rel, q.seen)
             stage == IF passes THEN [at |-> "insert", rel |-> rel] ELSE Idle
  <2>1. rel \in Relation
    BY <1>3, <1>q, StageFields DEF CheckTarget
  <2>2. [at |-> "insert", rel |-> rel] \in Stage
    BY <2>1 DEF Stage
  <2>3. passes => Fits([at |-> "insert", rel |-> rel], capsule, note, link)
    BY DEF Fits, Kept
  <2>4. stage \in Stage /\ Fits(stage, capsule, note, link)
    BY <1>i, <2>2, <2>3, IdleFits
  <2>5. Become(c, stage)
    BY <1>3 DEF CheckTarget
  <2>6. UNCHANGED <<capsule, note, link, event, raced, cut>>
    BY <1>3 DEF CheckTarget, rows
  <2> HIDE DEF stage
  <2>7. QED
    BY <1>h, <2>4, <2>5, <2>6, OneStepInPlace
<1>4. CASE InsertRelation(c)
  <2> DEFINE rel == q.rel
  <2>1. rel \in Relation /\ capsule[rel.target] # NoCapsule
    BY <1>4, <1>q, StageFields DEF InsertRelation, Fits
  <2>2. UNCHANGED <<capsule, note, event, raced, cut>>
    BY <1>4 DEF InsertRelation
  <2>3. ASSUME NEW i \in Link, link[i] = NoLink, link' = [link EXCEPT ![i] = rel],
               Become(c, IF rel.type = "supersedes"
                         THEN [at |-> "mark", link |-> i, target |-> rel.target] ELSE Idle)
        PROVE  MemoryInv' /\ RowsAge
    <3> DEFINE stage == IF rel.type = "supersedes"
                        THEN [at |-> "mark", link |-> i, target |-> rel.target] ELSE Idle
    <3>1. rel.target \in Capsule /\ rel \notin {NoLink, Gone}
      BY <2>1, RelationFields
    <3>2. /\ link' \in [Link -> {NoLink, Gone} \cup Relation]
          /\ link'[i] = rel
          /\ \A j \in Link \ {i} : link'[j] = link[j]
      BY <1>r, <2>1, <2>3
    <3>3. RowsAge
      BY <1>r, <2>2, <2>3, <3>2 DEF RowsAge, Kept
    <3>4. [at |-> "mark", link |-> i, target |-> rel.target] \in Stage
      BY <3>1 DEF Stage
    <3>5. Fits([at |-> "mark", link |-> i, target |-> rel.target], capsule', note', link')
      BY <2>1, <2>2, <3>1, <3>2 DEF Fits, LinksTo
    <3>6. stage \in Stage /\ Fits(stage, capsule', note', link')
      BY <1>i, <3>4, <3>5, IdleFits
    <3>7. Become(c, stage)
      BY <2>3
    <3> HIDE DEF stage
    <3>8. /\ capsule' \in [Capsule -> {NoCapsule} \cup CapsuleRow]
          /\ note' \in [Note -> NoteRow]
      BY <1>r, <2>2
    <3>9. QED
      BY <1>h, <2>2, <3>2, <3>3, <3>6, <3>7, <3>8, OneStep
  <2>4. CASE End(c) /\ UNCHANGED link
    BY <1>h, <1>i, <2>2, <2>4, IdleFits, OneStepInPlace DEF End
  <2>5. QED
    BY <1>4, <2>3, <2>4 DEF InsertRelation
<1>5. CASE ReadSuperseded(c)
  <2> DEFINE stage == [at |-> "write", capsule |-> q.target, to |-> "stale",
                       expected |-> None, copy |-> capsule[q.target], link |-> q.link]
  <2>1. /\ q.link \in Link /\ q.target \in Capsule /\ capsule[q.target] # NoCapsule
        /\ LinksTo(link[q.link], q.target)
    BY <1>5, <1>q, StageFields DEF ReadSuperseded, Fits
  <2>2. capsule[q.target] \in CapsuleRow /\ capsule[q.target].updated \in Nat
    BY <1>r, <2>1, CapsuleFields
  <2>3. stage \in Stage
    BY <2>1, <2>2 DEF Stage, CapsuleStatus
  <2>4. Fits(stage, capsule, note, link)
    BY <2>1, <2>2 DEF Fits
  <2>5. QED
    BY <1>5, <1>h, <2>3, <2>4, OneStepInPlace DEF ReadSuperseded, rows
<1>6. CASE MarkFails(c)
  <2> DEFINE stage == [at |-> "undo", link |-> q.link]
  <2>1. q.link \in Link
    BY <1>6, <1>q, StageFields DEF MarkFails
  <2>2. link[q.link] # NoLink
    BY <1>6, <1>q DEF MarkFails, Fits, LinksTo
  <2>3. stage \in Stage /\ Fits(stage, capsule, note, link)
    BY <2>1, <2>2 DEF Stage, Fits
  <2>4. QED
    BY <1>6, <1>h, <2>3, OneStepInPlace DEF MarkFails, rows
<1>7. CASE UndoRelation(c)
  <2>1. q.link \in Link /\ link[q.link] # NoLink
    BY <1>7, <1>q, StageFields DEF UndoRelation, Fits
  <2>2. UNCHANGED <<capsule, note, event, raced, cut>> /\ Become(c, Idle)
    BY <1>7 DEF UndoRelation, End
  <2>3. /\ link' \in [Link -> {NoLink, Gone} \cup Relation]
        /\ link'[q.link] = Gone
        /\ \A j \in Link \ {q.link} : link'[j] = link[j]
    BY <1>7, <1>r, <2>1 DEF UndoRelation
  <2>4. RowsAge
    BY <1>r, <2>2, <2>3 DEF RowsAge, Kept
  <2>5. /\ capsule' \in [Capsule -> {NoCapsule} \cup CapsuleRow]
        /\ note' \in [Note -> NoteRow]
    BY <1>r, <2>2
  <2>6. QED
    BY <1>h, <1>i, <2>2, <2>3, <2>4, <2>5, IdleFits, OneStep
<1>8. QED
  BY <1>1, <1>2, <1>3, <1>4, <1>5, <1>6, <1>7 DEF RelationStep

\* What an update writes is a row, the next version of the one it replaces.
LEMMA WrittenRow ==
  ASSUME MemoryInv, NEW q \in Stage, q.at = "write", Fits(q, capsule, note, link)
  PROVE  /\ q.capsule \in Capsule /\ Kept(q.capsule)
         /\ capsule[q.capsule] \in CapsuleRow
         /\ q.copy \in CapsuleRow
         /\ Written(q) \in CapsuleRow
         /\ Written(q).status = IF q.to = None THEN q.copy.status ELSE q.to
         /\ Written(q).revived = Revives(q)
         /\ Written(q).updated = capsule[q.capsule].updated + 1
         /\ Written(q).from = capsule[q.capsule].from
<1>1. /\ q.capsule \in Capsule /\ capsule[q.capsule] # NoCapsule /\ q.copy \in CapsuleRow
      /\ q.to \in CapsuleStatus \cup {None} /\ q.copy.from = capsule[q.capsule].from
  BY StageFields DEF Fits
<1>2. capsule[q.capsule] \in CapsuleRow
  BY <1>1 DEF MemoryInv, MemoryTypeOK
<1> DEFINE x == IF q.to = None THEN q.copy.status ELSE q.to
           y == Revives(q)
           z == capsule[q.capsule].updated + 1
<1>3. x \in CapsuleStatus /\ y \in BOOLEAN /\ z \in Nat
  <2>1. x \in CapsuleStatus
    BY <1>1, CapsuleFields
  <2>2. capsule[q.capsule].revived \in BOOLEAN
    BY <1>2, CapsuleFields
  <2>3. y \in BOOLEAN
    BY <2>2 DEF Revives, CarriesBack
  <2>4. z \in Nat
    BY <1>2, CapsuleFields
  <2>5. QED
    BY <2>1, <2>3, <2>4
<1>4. Written(q) = [q.copy EXCEPT !.status = x, !.revived = y, !.updated = z]
  BY DEF Written
<1> HIDE DEF x, y, z
<1>5. /\ Written(q) \in CapsuleRow
      /\ Written(q).status = x /\ Written(q).revived = y /\ Written(q).updated = z
      /\ Written(q).from = q.copy.from
  BY <1>1, <1>3, <1>4 DEF CapsuleRow
<1>6. QED
  BY <1>1, <1>2, <1>5 DEF Kept, x, y, z

LEMMA CapsuleStepInv ==
  ASSUME MemoryInv, NEW c \in Caller, CapsuleStep(c)
  PROVE  MemoryInv' /\ RowsAge
<1> DEFINE q == req[c]
<1>t. MemoryTypeOK
  BY DEF MemoryInv
<1>q. q \in Stage /\ Fits(q, capsule, note, link)
  BY DEF MemoryInv, MemoryTypeOK, StagesFit
<1>i. Idle \in Stage
  BY DEF Stage
<1>r. /\ capsule \in [Capsule -> {NoCapsule} \cup CapsuleRow]
      /\ note \in [Note -> NoteRow]
      /\ link \in [Link -> {NoLink, Gone} \cup Relation]
  BY <1>t DEF MemoryTypeOK
<1>h. /\ event \in [Note -> SUBSET Outcome] /\ raced \in BOOLEAN /\ cut \in BOOLEAN
      /\ UNCHANGED event => event' \in [Note -> SUBSET Outcome]
      /\ UNCHANGED raced => raced' \in BOOLEAN
      /\ UNCHANGED cut => cut' \in BOOLEAN
  BY HistoriesType
<1>n. \A x \in Nat : x # None /\ x <= x
  BY MemoryAssumption
<1>1. ASSUME NEW k \in EditAbout, NEW to \in EditTo, NEW stamped \in BOOLEAN,
             BeginEdit(c, k, to, stamped)
      PROVE  MemoryInv' /\ RowsAge
  <2> DEFINE stamp == IF stamped THEN capsule[k].updated ELSE None
             stage == [at |-> "capsule", capsule |-> k, to |-> to, expected |-> stamp]
  <2>1. k \in Capsule /\ to \in CapsuleStatus \cup {None} /\ capsule[k] # NoCapsule
    BY <1>1, MemoryAssumption DEF BeginEdit, Kept
  <2>2. capsule[k].updated \in Nat
    BY <1>r, <2>1, CapsuleFields
  <2>3. stamp \in Nat \cup {None} /\ (stamp # None => stamp <= capsule[k].updated)
    BY <1>n, <2>2
  <2>4. Become(c, stage)
    BY <1>1 DEF BeginEdit
  <2> HIDE DEF stamp
  <2>5. stage \in Stage
    BY <2>1, <2>3 DEF Stage
  <2>6. Fits(stage, capsule, note, link)
    BY <2>1, <2>3 DEF Fits
  <2>7. QED
    BY <1>1, <1>h, <2>4, <2>5, <2>6, OneStepInPlace DEF BeginEdit, rows
<1>2. CASE ReadCapsule(c)
  <2> DEFINE stage == [at |-> "write", capsule |-> q.capsule, to |-> q.to,
                       expected |-> q.expected, copy |-> capsule[q.capsule], link |-> None]
  <2>1. /\ q.capsule \in Capsule /\ q.to \in CapsuleStatus \cup {None}
        /\ q.expected \in Nat \cup {None}
        /\ capsule[q.capsule] # NoCapsule
        /\ q.expected # None => q.expected <= capsule[q.capsule].updated
    BY <1>2, <1>q, StageFields DEF ReadCapsule, Fits
  <2>2. capsule[q.capsule] \in CapsuleRow /\ capsule[q.capsule].updated \in Nat
    BY <1>r, <2>1, CapsuleFields
  <2>3. stage \in Stage
    BY <2>1, <2>2 DEF Stage
  <2>4. Fits(stage, capsule, note, link)
    BY <1>n, <2>1, <2>2 DEF Fits
  <2>5. QED
    BY <1>2, <1>h, <2>3, <2>4, OneStepInPlace DEF ReadCapsule, rows
<1>3. CASE WriteCapsule(c)
  <2>1. /\ Become(c, Idle) /\ UNCHANGED <<note, link, event, raced, cut>> /\ q.at = "write"
    BY <1>3 DEF WriteCapsule, End
  <2>2. CASE UNCHANGED capsule
    BY <1>h, <1>i, <2>1, <2>2, IdleFits, OneStepInPlace
  <2>3. CASE capsule' = [capsule EXCEPT ![q.capsule] = Written(q)]
    <3>1. /\ q.capsule \in Capsule /\ Written(q) \in CapsuleRow
          /\ Written(q).from = capsule[q.capsule].from
          /\ Written(q).updated = capsule[q.capsule].updated + 1
      BY <1>q, <2>1, WrittenRow
    <3>2. /\ capsule' \in [Capsule -> {NoCapsule} \cup CapsuleRow]
          /\ capsule'[q.capsule] = Written(q)
          /\ \A k \in Capsule \ {q.capsule} : capsule'[k] = capsule[k]
      BY <1>r, <2>3, <3>1
    <3>3. RowsAge
      BY <1>r, <2>1, <3>1, <3>2 DEF RowsAge, Kept
    <3>4. /\ note' \in [Note -> NoteRow]
          /\ link' \in [Link -> {NoLink, Gone} \cup Relation]
      BY <1>r, <2>1
    <3>5. QED
      BY <1>h, <1>i, <2>1, <3>2, <3>3, <3>4, IdleFits, OneStep
  <2>4. QED
    BY <1>3, <2>2, <2>3 DEF WriteCapsule
<1>4. QED
  BY <1>1, <1>2, <1>3 DEF CapsuleStep

LEMMA MemoryInvStep ==
  ASSUME MemoryInv, [MemoryNext]_memoryVars
  PROVE  MemoryInv' /\ RowsAge
<1>t. MemoryTypeOK
  BY DEF MemoryInv
<1>r. /\ capsule \in [Capsule -> {NoCapsule} \cup CapsuleRow]
      /\ link \in [Link -> {NoLink, Gone} \cup Relation]
  BY <1>t DEF MemoryTypeOK
\* A step outside any request.
<1>o. ASSUME RowsAge, MemoryTypeOK', req' = req
      PROVE  MemoryInv' /\ RowsAge
  <2>1. \A b \in Caller : req[b] \in Stage /\ Fits(req[b], capsule, note, link)
    BY DEF MemoryInv, MemoryTypeOK, StagesFit
  <2>2. \A b \in Caller : Fits(req[b], capsule', note', link')
    BY <1>o, <1>t, <2>1, StillFits
  <2>3. QED
    BY <1>o, <2>2 DEF MemoryInv, StagesFit
<1>1. CASE UNCHANGED memoryVars
  <2>1. RowsAge
    BY <1>1, <1>t, SameRows DEF memoryVars
  <2>2. MemoryTypeOK'
    BY <1>1, <1>t DEF memoryVars, MemoryTypeOK
  <2>3. QED
    BY <1>1, <1>o, <2>1, <2>2 DEF memoryVars
<1>2. ASSUME NEW k \in Capsule, CreateCapsule(k) PROVE MemoryInv' /\ RowsAge
  <2>1. NewCapsule(None) \in CapsuleRow
    BY DEF NewCapsule, CapsuleRow, CapsuleStatus
  <2>2. /\ capsule' \in [Capsule -> {NoCapsule} \cup CapsuleRow]
        /\ \A j \in Capsule \ {k} : capsule'[j] = capsule[j]
    BY <1>2, <1>r, <2>1 DEF CreateCapsule
  <2>3. RowsAge
    BY <1>2, <1>r, <2>2 DEF CreateCapsule, RowsAge, Kept
  <2>4. MemoryTypeOK'
    BY <1>2, <1>t, <2>2 DEF CreateCapsule, MemoryTypeOK
  <2>5. QED
    BY <1>2, <1>o, <2>3, <2>4 DEF CreateCapsule
<1>3. ASSUME NEW i \in Link, DeleteRelation(i) PROVE MemoryInv' /\ RowsAge
  <2>1. /\ link' \in [Link -> {NoLink, Gone} \cup Relation]
        /\ link'[i] = Gone /\ \A j \in Link \ {i} : link'[j] = link[j]
    BY <1>3, <1>r DEF DeleteRelation
  <2>2. RowsAge
    BY <1>3, <1>r, <2>1 DEF DeleteRelation, RowsAge, Kept
  <2>3. MemoryTypeOK'
    BY <1>3, <1>t, <2>1 DEF DeleteRelation, MemoryTypeOK
  <2>4. QED
    BY <1>3, <1>o, <2>2, <2>3 DEF DeleteRelation
<1>4. ASSUME NEW c \in Caller, CallerStep(c) PROVE MemoryInv' /\ RowsAge
  <2>1. CASE Abandon(c)
    <3>1. /\ Become(c, Idle) /\ UNCHANGED <<capsule, note, link, event, raced>>
          /\ cut' \in BOOLEAN
      BY <2>1 DEF Abandon, End, rows
    <3>2. event' \in [Note -> SUBSET Outcome] /\ raced' \in BOOLEAN /\ Idle \in Stage
      BY <3>1, HistoriesType DEF Stage
    <3>3. QED
      BY <3>1, <3>2, IdleFits, OneStepInPlace
  <2>2. QED
    BY <1>4, <2>1, NoteStepInv, RelationStepInv, CapsuleStepInv DEF CallerStep
<1>5. QED
  BY <1>1, <1>2, <1>3, <1>4 DEF MemoryNext

LEMMA MemoryInvInit == MemoryInit => MemoryInv
<1> SUFFICES ASSUME MemoryInit PROVE MemoryInv
  OBVIOUS
<1>1. note \in [Note -> NoteRow]
  BY DEF MemoryInit, Unborn, NoteRow
<1>2. req \in [Caller -> Stage] /\ \A c \in Caller : req[c] = Idle
  BY DEF MemoryInit, Stage
<1>3. raced \in BOOLEAN /\ cut \in BOOLEAN
  BY DEF MemoryInit
<1>4. MemoryTypeOK
  BY <1>1, <1>2, <1>3 DEF MemoryInit, MemoryTypeOK
<1>5. StagesFit
  BY <1>2, IdleFits DEF StagesFit
<1>6. QED
  BY <1>4, <1>5 DEF MemoryInv

LEMMA MemoryInvHolds == MemorySpec => []MemoryInv
<1>1. MemoryInv /\ [MemoryNext]_memoryVars => MemoryInv'
  BY MemoryInvStep
<1>2. QED
  BY <1>1, MemoryInvInit, PTL DEF MemorySpec

\* Notes, capsules, relations and requests keep their types.
THEOREM MemoryTypeCorrect == MemorySpec => []MemoryTypeOK
<1>1. MemoryInv => MemoryTypeOK
  BY DEF MemoryInv
<1>2. QED
  BY <1>1, MemoryInvHolds, PTL

-----------------------------------------------------------------------------
\* What a step of a request leaves alone.

LEMMA OthersWait ==
  ASSUME MemoryInv, NEW c \in Caller, CallerStep(c)
  PROVE  \A b \in Caller \ {c} : req'[b] = req[b]
<1>1. req \in [Caller -> Stage]
  BY DEF MemoryInv, MemoryTypeOK
<1>2. CASE NoteStep(c)
  BY <1>1, <1>2 DEF NoteStep, BeginCapture, InsertNote, BeginResolve, Promote, Reject, Rewrite,
     AppendEvent, End, Become
<1>3. CASE RelationStep(c)
  BY <1>1, <1>3 DEF RelationStep, BeginRelate, ReadRelations, CheckTarget, InsertRelation,
     ReadSuperseded, MarkFails, UndoRelation, End, Become
<1>4. CASE CapsuleStep(c)
  BY <1>1, <1>4 DEF CapsuleStep, BeginEdit, ReadCapsule, WriteCapsule, End,
     Become
<1>5. CASE Abandon(c)
  BY <1>1, <1>5 DEF Abandon, End, Become
<1>6. QED
  BY <1>2, <1>3, <1>4, <1>5 DEF CallerStep

\* Where a request is when it takes a step.
LEMMA StagesOf ==
  ASSUME NEW c \in Caller
  PROVE  /\ NoteStep(c) => \/ req[c] = Idle
                            \/ req[c].at \in {"capture", "promote", "reject", "rewrite"}
                            \/ AppendEvent(c)
         /\ RelationStep(c) =>
              \/ req[c] = Idle
              \/ req[c].at \in {"relations", "target", "insert", "mark", "write", "undo"}
         /\ CapsuleStep(c) => req[c] = Idle \/ req[c].at \in {"capsule", "write"}
<1>1. NoteStep(c) => \/ req[c] = Idle
                     \/ req[c].at \in {"capture", "promote", "reject", "rewrite"}
                     \/ AppendEvent(c)
  BY DEF NoteStep, BeginCapture, InsertNote, BeginResolve, Promote, Reject, Rewrite, Busy
<1>2. RelationStep(c) =>
        \/ req[c] = Idle
        \/ req[c].at \in {"relations", "target", "insert", "mark", "write", "undo"}
  BY DEF RelationStep, BeginRelate, ReadRelations, CheckTarget, InsertRelation,
     ReadSuperseded, MarkFails, UndoRelation, Busy
<1>3. CapsuleStep(c) => req[c] = Idle \/ req[c].at \in {"capsule", "write"}
  BY DEF CapsuleStep, BeginEdit, ReadCapsule, WriteCapsule, Busy
<1>4. QED
  BY <1>1, <1>2, <1>3

-----------------------------------------------------------------------------
\* Notes and the capsules made from them.

\* Nothing lands on a note that is resolved.
THEOREM ResolvedOnce == MemorySpec => ResolvedNotesStand
<1>1. MemoryInv /\ [MemoryNext]_memoryVars =>
        [\A n \in Note : Resolved(n) => note'[n] = note[n]]_memoryVars
  <2> SUFFICES ASSUME MemoryInv, [MemoryNext]_memoryVars, NEW n \in Note, Resolved(n)
               PROVE  note'[n] = note[n]
    OBVIOUS
  <2>1. note[n] # Unborn /\ ~Pending(n)
    BY DEF Resolved, Unborn, Pending
  <2>2. QED
    BY <2>1, MemoryInvStep DEF RowsAge
<1>2. QED
  BY <1>1, MemoryInvHolds, PTL DEF MemorySpec, ResolvedNotesStand

Promoted(n) == note[n].status = "promoted"

\* Point by point, what OneCapsulePerNote says of two sets.
NotesOwn ==
  \A n \in Note :
    /\ Promoted(n) => note[n].capsule \in Capsule
    /\ \A k \in Capsule : Kept(k) /\ capsule[k].from = n <=>
                          Promoted(n) /\ note[n].capsule = k

LEMMA Births ==
  ASSUME MemoryInv, [MemoryNext]_memoryVars
  PROVE  \/ \E c \in Caller : Promote(c)
         \/ \E k \in Capsule : CreateCapsule(k)
         \/ /\ \A k \in Capsule : Kept(k)' => Kept(k)
            /\ \A n \in Note : Promoted(n)' => Promoted(n)
<1> DEFINE Quiet == /\ \A k \in Capsule : Kept(k)' => Kept(k)
                    /\ \A n \in Note : Promoted(n)' => Promoted(n)
<1>t. note \in [Note -> NoteRow] /\ capsule \in [Capsule -> {NoCapsule} \cup CapsuleRow]
  BY DEF MemoryInv, MemoryTypeOK
<1>0. UNCHANGED <<capsule, note>> => Quiet
  BY DEF Kept, Promoted
<1>1. CASE UNCHANGED memoryVars
  BY <1>0, <1>1 DEF memoryVars
<1>2. ASSUME NEW i \in Link, DeleteRelation(i) PROVE Quiet
  BY <1>0, <1>2 DEF DeleteRelation
<1>3. ASSUME NEW c \in Caller, NoteStep(c), ~Promote(c) PROVE Quiet
  <2>q. req[c] \in Stage
    BY DEF MemoryInv, MemoryTypeOK
  <2>1. CASE InsertNote(c)
    <3>1. PICK n \in Note : note[n] = Unborn /\ note' = [note EXCEPT ![n].status = "pending"]
      BY <2>1 DEF InsertNote
    <3>2. note'[n].status = "pending" /\ \A m \in Note \ {n} : note'[m] = note[m]
      BY <1>t, <3>1 DEF Unborn
    <3>3. QED
      BY <2>1, <3>2 DEF InsertNote, Kept, Promoted
  <2>2. CASE Reject(c)
    <3>1. req[c].note \in Note
      BY <2>2, <2>q, StageFields DEF Reject
    <3>2. QED
      BY <1>t, <2>2, <3>1 DEF Reject, Kept, Promoted
  <2>3. QED
    BY <1>0, <1>3, <2>1, <2>2 DEF NoteStep, BeginCapture, BeginResolve, Rewrite, AppendEvent,
       rows
<1>4. ASSUME NEW c \in Caller, RelationStep(c) PROVE Quiet
  BY <1>0, <1>4 DEF RelationStep, BeginRelate, ReadRelations, CheckTarget, InsertRelation,
     ReadSuperseded, MarkFails, UndoRelation, rows
<1>5. ASSUME NEW c \in Caller, CapsuleStep(c) PROVE Quiet
  <2>1. CASE WriteCapsule(c)
    <3>1. req[c].at = "write" /\ req[c] \in Stage /\ Fits(req[c], capsule, note, link)
      BY <2>1 DEF WriteCapsule, MemoryInv, MemoryTypeOK, StagesFit
    <3>2. Kept(req[c].capsule)
      BY <3>1, WrittenRow
    <3>3. QED
      BY <1>t, <2>1, <3>2 DEF WriteCapsule, Kept, Promoted
  <2>2. QED
    BY <1>0, <1>5, <2>1 DEF CapsuleStep, BeginEdit, ReadCapsule, rows
<1>6. ASSUME NEW c \in Caller, Abandon(c) PROVE Quiet
  BY <1>0, <1>6 DEF Abandon, rows
<1>7. QED
  BY <1>1, <1>2, <1>3, <1>4, <1>5, <1>6 DEF MemoryNext, CallerStep

LEMMA NotesOwnStep ==
  ASSUME MemoryInv, NotesOwn, [MemoryNext]_memoryVars
  PROVE  NotesOwn'
<1>a. RowsAge
  BY MemoryInvStep
<1>t. note \in [Note -> NoteRow] /\ capsule \in [Capsule -> {NoCapsule} \cup CapsuleRow]
  BY DEF MemoryInv, MemoryTypeOK
\* What is kept stays, with the note it comes from; a promoted note stays.
<1>k. \A k \in Capsule : Kept(k) => Kept(k)' /\ capsule'[k].from = capsule[k].from
  BY <1>a, CapsuleFields DEF RowsAge, Kept
<1>p. \A n \in Note : Promoted(n) => Promoted(n)' /\ note'[n] = note[n]
  BY <1>a DEF RowsAge, Promoted, Pending, Unborn
<1>1. ASSUME NEW c \in Caller, Promote(c) PROVE NotesOwn'
  <2> DEFINE n == req[c].note
  <2>1. n \in Note
    BY <1>1, StageFields DEF Promote, MemoryInv, MemoryTypeOK
  <2>2. CASE UNCHANGED <<capsule, note>>
    BY <2>2 DEF NotesOwn, Kept, Promoted
  <2>3. ASSUME ~Promoted(n), NEW k \in Capsule, ~Kept(k),
               capsule' = [capsule EXCEPT ![k] = NewCapsule(n)],
               note' = [note EXCEPT ![n] = [status |-> "promoted", capsule |-> k]]
        PROVE  NotesOwn'
    <3>1. /\ capsule'[k] = NewCapsule(n) /\ NewCapsule(n).from = n /\ NewCapsule(n) # NoCapsule
          /\ \A j \in Capsule \ {k} : capsule'[j] = capsule[j]
      BY <1>t, <2>3 DEF NewCapsule, NoCapsule
    <3>2. /\ note'[n].status = "promoted" /\ note'[n].capsule = k
          /\ \A m \in Note \ {n} : note'[m] = note[m]
      BY <1>t, <2>1, <2>3
    <3>3. \A m \in Note : Promoted(m) => note[m].capsule # k
      BY <2>3 DEF NotesOwn
    <3>4. QED
      BY <2>1, <2>3, <3>1, <3>2, <3>3 DEF NotesOwn, Kept, Promoted
  <2>4. QED
    BY <1>1, <2>2, <2>3 DEF Promote, MayPromote, Promoted, Kept
<1>2. ASSUME NEW k \in Capsule, CreateCapsule(k) PROVE NotesOwn'
  <2>1. /\ capsule'[k] = NewCapsule(None) /\ NewCapsule(None).from = None
        /\ \A j \in Capsule \ {k} : capsule'[j] = capsule[j]
        /\ note' = note /\ ~Kept(k)
    BY <1>2, <1>t DEF CreateCapsule, NewCapsule, Kept
  <2>2. QED
    BY <2>1, MemoryAssumption DEF NotesOwn, Kept, Promoted
<1>3. CASE /\ \A k \in Capsule : Kept(k)' => Kept(k)
           /\ \A n \in Note : Promoted(n)' => Promoted(n)
  BY <1>3, <1>k, <1>p DEF NotesOwn
<1>4. QED
  BY <1>1, <1>2, <1>3, Births

\* A promoted note has one capsule made from it, the one it names; no other note has any.
THEOREM PromotedOnce == MemorySpec => []OneCapsulePerNote
<1>1. MemoryInit => NotesOwn
  BY DEF MemoryInit, NotesOwn, Kept, Promoted, Unborn
<1>2. MemoryInv /\ NotesOwn /\ [MemoryNext]_memoryVars => NotesOwn'
  BY NotesOwnStep
<1>3. NotesOwn => OneCapsulePerNote
  BY DEF NotesOwn, OneCapsulePerNote, Promoted
<1>4. QED
  BY <1>1, <1>2, <1>3, MemoryInvHolds, PTL DEF MemorySpec

-----------------------------------------------------------------------------
\* The history.

\* A request is about to append the event.
Writing(rq, n, o) == \E c \in Caller : rq[c].at = "event" /\ rq[c].note = n /\ rq[c].kind = o

HistoryInv ==
  \A n \in Note :
    /\ event[n] # {} => note[n] # Unborn
    /\ \A o \in {"promoted", "rejected"} : o \in event[n] => note[n].status = o
    /\ ~cut =>
         /\ note[n] # Unborn => "captured" \in event[n] \/ Writing(req, n, "captured")
         /\ Resolved(n) => note[n].status \in event[n] \/ Writing(req, n, note[n].status)

\* The request that changes a note goes on to its event.
LEMMA ChangesAreWritten ==
  ASSUME MemoryInv, [MemoryNext]_memoryVars, NEW n \in Note
  PROVE  \/ note'[n] = note[n]
         \/ note[n] = Unborn /\ Writing(req', n, "captured") /\ ~Resolved(n)'
         \/ Pending(n) /\ Resolved(n)' /\ Writing(req', n, note'[n].status)
<1> DEFINE Goal == \/ note'[n] = note[n]
                   \/ note[n] = Unborn /\ Writing(req', n, "captured") /\ ~Resolved(n)'
                   \/ Pending(n) /\ Resolved(n)' /\ Writing(req', n, note'[n].status)
<1>t. note \in [Note -> NoteRow] /\ req \in [Caller -> Stage]
  BY DEF MemoryInv, MemoryTypeOK
<1>1. CASE UNCHANGED note
  BY <1>1
<1>2. ASSUME NEW c \in Caller, InsertNote(c) PROVE Goal
  <2>1. PICK m \in Note :
          /\ note[m] = Unborn /\ note' = [note EXCEPT ![m].status = "pending"]
          /\ Become(c, [at |-> "event", note |-> m, kind |-> "captured"])
    BY <1>2 DEF InsertNote
  <2>2. CASE m = n
    <3>1. note'[n].status = "pending"
      BY <1>t, <2>1, <2>2 DEF Unborn
    <3>2. req'[c] = [at |-> "event", note |-> n, kind |-> "captured"]
      BY <1>t, <2>1, <2>2, Becomes
    <3>3. QED
      BY <2>1, <2>2, <3>1, <3>2 DEF Resolved, Writing
  <2>3. CASE m # n
    BY <1>t, <2>1, <2>3
  <2>4. QED
    BY <2>2, <2>3
<1>3. ASSUME NEW c \in Caller, NEW o \in {"promoted", "rejected"},
             req[c].at \in {"promote", "reject"},
             note[req[c].note].status = "pending",
             note'[req[c].note].status = o,
             \A m \in Note \ {req[c].note} : note'[m] = note[m],
             Become(c, Recording(req[c], o))
      PROVE Goal
  <2>1. Fits(req[c], capsule, note, link)
    BY DEF MemoryInv, StagesFit
  <2>2. req[c].pending
    BY <1>3, <2>1 DEF Fits
  <2>3. req'[c] = [at |-> "event", note |-> req[c].note, kind |-> o]
    BY <1>t, <1>3, <2>2, Becomes DEF Recording
  <2>4. CASE req[c].note = n
    BY <1>3, <2>3, <2>4 DEF Pending, Resolved, Writing
  <2>5. CASE req[c].note # n
    BY <1>3, <2>5
  <2>6. QED
    BY <2>4, <2>5
<1>4. ASSUME NEW c \in Caller, NoteStep(c) PROVE Goal
  <2>q. req[c] \in Stage
    BY <1>t
  <2>1. CASE Promote(c)
    <3>1. req[c].at = "promote" /\ req[c].note \in Note
      BY <2>1, <2>q, StageFields DEF Promote
    <3>2. CASE UNCHANGED note
      BY <1>1, <3>2
    <3>3. ASSUME MayPromote(req[c].note), NEW k \in Capsule,
                 note' = [note EXCEPT ![req[c].note] = [status |-> "promoted", capsule |-> k]],
                 Become(c, Recording(req[c], "promoted"))
          PROVE Goal
      BY <1>t, <1>3, <3>1, <3>3 DEF MayPromote
    <3>4. QED
      BY <2>1, <3>2, <3>3 DEF Promote
  <2>2. CASE Reject(c)
    <3>1. req[c].at = "reject" /\ req[c].note \in Note
      BY <2>2, <2>q, StageFields DEF Reject
    <3>2. CASE UNCHANGED note
      BY <1>1, <3>2
    <3>3. ASSUME MayReject(req[c].note),
                 note' = [note EXCEPT ![req[c].note] = [status |-> "rejected", capsule |-> None]],
                 Become(c, Recording(req[c], "rejected"))
          PROVE Goal
      BY <1>t, <1>3, <3>1, <3>3 DEF MayReject
    <3>4. QED
      BY <2>2, <3>2, <3>3 DEF Reject
  <2>3. QED
    BY <1>1, <1>2, <1>4, <2>1, <2>2 DEF NoteStep, BeginCapture, BeginResolve, Rewrite,
       AppendEvent, rows
<1>5. ASSUME NEW c \in Caller, RelationStep(c) PROVE Goal
  BY <1>1, <1>5 DEF RelationStep, BeginRelate, ReadRelations, CheckTarget, InsertRelation,
     ReadSuperseded, MarkFails, UndoRelation, rows
<1>6. ASSUME NEW c \in Caller, CapsuleStep(c) PROVE Goal
  BY <1>1, <1>6 DEF CapsuleStep, BeginEdit, ReadCapsule, WriteCapsule, rows
<1>7. QED
  BY <1>1, <1>4, <1>5, <1>6 DEF MemoryNext, CallerStep, memoryVars, CreateCapsule,
     DeleteRelation, Abandon, rows

\* Events are appended by the requests that are to append them, and by no other step.
LEMMA EventsAreAppended ==
  ASSUME MemoryInv, [MemoryNext]_memoryVars
  PROVE  \/ \E c \in Caller : AppendEvent(c)
         \/ event' = event /\ cut'
         \/ /\ event' = event /\ cut' = cut
            /\ \A c \in Caller : req[c].at = "event" => req'[c] = req[c]
<1>1. ASSUME NEW c \in Caller, CallerStep(c), ~AppendEvent(c)
      PROVE  \/ event' = event /\ cut'
             \/ /\ event' = event /\ cut' = cut
                /\ \A b \in Caller : req[b].at = "event" => req'[b] = req[b]
  <2>1. CASE Abandon(c)
    BY <2>1 DEF Abandon, rows
  <2>2. CASE ~Abandon(c)
    <3>e. req[c].at # "event"
      BY <1>1, <2>2, StagesOf DEF CallerStep, Idle
    <3>1. CASE NoteStep(c)
      <4>1. UNCHANGED <<event, cut>>
        BY <1>1, <3>1 DEF NoteStep, BeginCapture, InsertNote, BeginResolve, Promote, Reject,
           Rewrite, rows
      <4>2. QED
        BY <1>1, <3>e, <4>1, OthersWait
    <3>2. CASE RelationStep(c)
      <4>1. UNCHANGED <<event, cut>>
        BY <3>2 DEF RelationStep, BeginRelate, ReadRelations, CheckTarget, InsertRelation,
           ReadSuperseded, MarkFails, UndoRelation, rows
      <4>2. QED
        BY <1>1, <3>e, <4>1, OthersWait
    <3>3. CASE CapsuleStep(c)
      <4>1. UNCHANGED <<event, cut>>
        BY <3>3 DEF CapsuleStep, BeginEdit, ReadCapsule, WriteCapsule, rows
      <4>2. QED
        BY <1>1, <3>e, <4>1, OthersWait
    <3>4. QED
      BY <1>1, <2>2, <3>1, <3>2, <3>3 DEF CallerStep
  <2>3. QED
    BY <2>1, <2>2
<1>2. QED
  BY <1>1 DEF MemoryNext, memoryVars, CreateCapsule, DeleteRelation

LEMMA HistoryStep ==
  ASSUME MemoryInv, HistoryInv, [MemoryNext]_memoryVars
  PROVE  HistoryInv'
<1>t. note \in [Note -> NoteRow] /\ event \in [Note -> SUBSET Outcome] /\ req \in [Caller -> Stage]
  BY DEF MemoryInv, MemoryTypeOK
<1>u. Unborn.status = "none"
  BY DEF Unborn
<1> SUFFICES ASSUME NEW n \in Note
             PROVE /\ event'[n] # {} => note'[n] # Unborn
                   /\ \A o \in {"promoted", "rejected"} : o \in event'[n] => note'[n].status = o
                   /\ ~cut' =>
                        /\ note'[n] # Unborn => "captured" \in event'[n] \/ Writing(req', n, "captured")
                        /\ Resolved(n)' =>
                             note'[n].status \in event'[n] \/ Writing(req', n, note'[n].status)
  BY DEF HistoryInv
<1>h. /\ event[n] # {} => note[n] # Unborn
      /\ \A o \in {"promoted", "rejected"} : o \in event[n] => note[n].status = o
      /\ ~cut =>
           /\ note[n] # Unborn => "captured" \in event[n] \/ Writing(req, n, "captured")
           /\ Resolved(n) => note[n].status \in event[n] \/ Writing(req, n, note[n].status)
  BY DEF HistoryInv
<1>1. ASSUME NEW c \in Caller, AppendEvent(c)
      PROVE  /\ event'[n] # {} => note'[n] # Unborn
             /\ \A o \in {"promoted", "rejected"} : o \in event'[n] => note'[n].status = o
             /\ ~cut' =>
                  /\ note'[n] # Unborn => "captured" \in event'[n] \/ Writing(req', n, "captured")
                  /\ Resolved(n)' => note'[n].status \in event'[n] \/ Writing(req', n, note'[n].status)
  <2> DEFINE q == req[c]
  <2>1. /\ q.at = "event" /\ q.note \in Note /\ note[q.note] # Unborn
        /\ q.kind \in {"promoted", "rejected"} => note[q.note].status = q.kind
    BY <1>1, <1>t, StageFields DEF AppendEvent, MemoryInv, StagesFit, Fits
  <2>2. /\ note' = note /\ cut' = cut
        /\ event'[n] = IF n = q.note THEN event[n] \cup {q.kind} ELSE event[n]
        /\ \A b \in Caller \ {c} : req'[b] = req[b]
    BY <1>1, <1>t, <2>1, Ends DEF AppendEvent
  <2>3. \A o : Writing(req, n, o) => Writing(req', n, o) \/ o \in event'[n]
    BY <2>1, <2>2 DEF Writing
  <2>4. QED
    BY <1>h, <2>1, <2>2, <2>3 DEF Resolved
<1>2. CASE event' = event /\ ~ \E c \in Caller : AppendEvent(c)
  <2>1. CASE note'[n] = note[n]
    <3>1. CASE cut'
      BY <1>2, <1>h, <2>1, <3>1
    <3>2. CASE ~cut'
      <4>1. cut' = cut /\ \A c \in Caller : req[c].at = "event" => req'[c] = req[c]
        BY <1>2, <3>2, EventsAreAppended
      <4>2. \A o : Writing(req, n, o) => Writing(req', n, o)
        BY <4>1 DEF Writing
      <4>3. QED
        BY <1>2, <1>h, <2>1, <3>2, <4>1, <4>2 DEF Resolved
    <3>3. QED
      BY <3>1, <3>2
  <2>2. CASE note[n] = Unborn /\ Writing(req', n, "captured") /\ ~Resolved(n)'
    BY <1>2, <1>h, <2>2
  <2>3. CASE Pending(n) /\ Resolved(n)' /\ Writing(req', n, note'[n].status)
    <3>1. \A o \in {"promoted", "rejected"} : o \notin event[n]
      BY <1>h, <2>3 DEF Pending
    <3>2. note'[n] # Unborn /\ note[n] # Unborn
      BY <1>u, <2>3 DEF Resolved, Pending
    <3>3. ~cut' => "captured" \in event'[n] \/ Writing(req', n, "captured")
      <4>1. CASE ~cut'
        <5>1. cut' = cut /\ \A c \in Caller : req[c].at = "event" => req'[c] = req[c]
          BY <1>2, <4>1, EventsAreAppended
        <5>2. Writing(req, n, "captured") => Writing(req', n, "captured")
          BY <5>1 DEF Writing
        <5>3. QED
          BY <1>2, <1>h, <3>2, <4>1, <5>1, <5>2
      <4>2. QED
        BY <4>1
    <3>4. QED
      BY <1>2, <2>3, <3>1, <3>2, <3>3
  <2>4. QED
    BY <2>1, <2>2, <2>3, ChangesAreWritten
<1>3. QED
  BY <1>1, <1>2, EventsAreAppended

\* The history tells what became of each note, and all of it if no request died.
THEOREM HistoryIsTrue == MemorySpec => []HistoryTellsTheOutcome
<1>1. MemoryInit => HistoryInv
  BY DEF MemoryInit, HistoryInv, Unborn, Resolved
<1>2. MemoryInv /\ HistoryInv /\ [MemoryNext]_memoryVars => HistoryInv'
  BY HistoryStep
<1>3. HistoryInv => HistoryTellsTheOutcome
  BY DEF HistoryInv, HistoryTellsTheOutcome, Writing
<1>4. QED
  BY <1>1, <1>2, <1>3, MemoryInvHolds, PTL DEF MemorySpec

-----------------------------------------------------------------------------
\* Relations that come one at a time.

Acyclic(rs) ==
  \A S \in SUBSET Capsule : S # {} =>
    \E k \in S : \A r \in rs : r.type = "supersedes" /\ r.source = k => r.target \notin S

OneWay(rs) ==
  \A r, s \in rs : r.type = "conflicts-with" /\ s.type = "conflicts-with" =>
    ~(r.source = s.target /\ r.target = s.source)

\* A relation that has passed the checks against rs.
Admitted(rel, rs) ==
  /\ rel.target # rel.source
  /\ rel.type = "supersedes" => ~Path(rel.target, rel.source, rs)
  /\ rel.type = "conflicts-with" => ~Back(rel, rs)

\* What has passed the checks passes them when there are fewer relations.
LEMMA FewerRelations ==
  ASSUME NEW rs, NEW ss \in SUBSET rs
  PROVE  /\ Acyclic(rs) => Acyclic(ss)
         /\ OneWay(rs) => OneWay(ss)
         /\ \A rel : Admitted(rel, rs) => Admitted(rel, ss)
<1>1. \A from, to : Path(from, to, ss) => Path(from, to, rs)
  BY DEF Path
<1>2. \A rel : Back(rel, ss) => Back(rel, rs)
  BY DEF Back
<1>3. QED
  BY <1>1, <1>2 DEF Acyclic, OneWay, Admitted

\* The target of an admitted relation leads to a set of capsules that the source is not
\* in: an old relation does not leave it, and the new one does not start in it.
LEMMA AdmittedStaysAcyclic ==
  ASSUME NEW rs \in SUBSET Relation, NEW rel \in Relation, rel.type = "supersedes",
         Admitted(rel, rs), Acyclic(rs)
  PROVE  Acyclic(rs \cup {rel})
<1>1. PICK R \in SUBSET Capsule :
        /\ rel.target \in R /\ rel.source \notin R
        /\ \A r \in rs : r.type = "supersedes" /\ r.source \in R => r.target \in R
  BY DEF Admitted, Path
<1> SUFFICES ASSUME NEW S \in SUBSET Capsule, S # {}
             PROVE \E k \in S : \A r \in rs \cup {rel} :
                     r.type = "supersedes" /\ r.source = k => r.target \notin S
  BY DEF Acyclic
<1>2. CASE S \cap R # {}
  <2>1. S \cap R \in SUBSET Capsule
    OBVIOUS
  <2>2. PICK k \in S \cap R :
          \A r \in rs : r.type = "supersedes" /\ r.source = k => r.target \notin S \cap R
    BY <1>2, <2>1 DEF Acyclic
  <2>3. \A r \in rs : r.type = "supersedes" /\ r.source = k => r.target \notin S
    BY <1>1, <2>2
  <2>4. rel.source # k
    BY <1>1, <2>2
  <2>5. QED
    BY <2>2, <2>3, <2>4
<1>3. CASE S \cap R = {}
  <2>1. PICK k \in S : \A r \in rs : r.type = "supersedes" /\ r.source = k => r.target \notin S
    BY DEF Acyclic
  <2>2. rel.target \notin S
    BY <1>1, <1>3
  <2>3. QED
    BY <2>1, <2>2
<1>4. QED
  BY <1>2, <1>3

LEMMA AdmittedStaysOneWay ==
  ASSUME NEW rs \in SUBSET Relation, NEW rel \in Relation, rel.type = "conflicts-with",
         Admitted(rel, rs), OneWay(rs)
  PROVE  OneWay(rs \cup {rel})
<1>1. \A r \in rs : r.type = "conflicts-with" =>
        ~(r.source = rel.target /\ r.target = rel.source)
  <2> SUFFICES ASSUME NEW r \in rs, r.type = "conflicts-with",
                      r.source = rel.target, r.target = rel.source
               PROVE FALSE
    OBVIOUS
  <2>1. [rel EXCEPT !.source = rel.target, !.target = rel.source] = r
    BY DEF Relation
  <2>2. QED
    BY <2>1 DEF Admitted, Back
<1>2. rel.source # rel.target
  BY DEF Admitted
<1>3. QED
  BY <1>1, <1>2 DEF OneWay

RelationsInv ==
  ~raced =>
    /\ \A b, c \in Relating : b = c
    /\ \A c \in Caller : req[c].at = "target" => Relations \subseteq req[c].seen
    /\ \A c \in Caller : req[c].at = "insert" => Admitted(req[c].rel, Relations)
    /\ Acyclic(Relations) /\ OneWay(Relations)

\* A step of another kind takes nobody to the checks, and adds no relation.
LEMMA RelationsShrink ==
  ASSUME MemoryInv, RelationsInv, Relations' \subseteq Relations, raced' = raced,
         \A c \in Caller : req'[c].at \in {"relations", "target", "insert"} => req'[c] = req[c]
  PROVE  RelationsInv'
<1> SUFFICES ASSUME ~raced PROVE RelationsInv'
  BY DEF RelationsInv
<1>1. Relating' \subseteq Relating
  BY DEF Relating
<1>2. Acyclic(Relations') /\ OneWay(Relations')
  BY FewerRelations DEF RelationsInv
<1>3. \A c \in Caller : req'[c].at = "target" => Relations' \subseteq req'[c].seen
  BY DEF RelationsInv
<1>4. \A c \in Caller : req'[c].at = "insert" => Admitted(req'[c].rel, Relations')
  BY FewerRelations DEF RelationsInv
<1>5. QED
  BY <1>1, <1>2, <1>3, <1>4 DEF RelationsInv, Acyclic, OneWay

LEMMA RelationsInvStep ==
  ASSUME MemoryInv, RelationsInv, [MemoryNext]_memoryVars
  PROVE  RelationsInv'
<1>t. /\ req \in [Caller -> Stage]
      /\ link \in [Link -> {NoLink, Gone} \cup Relation]
  BY DEF MemoryInv, MemoryTypeOK
<1>r. Relations \in SUBSET Relation
  BY <1>t DEF Relations, Made
<1>l. UNCHANGED link => Relations' = Relations
  BY DEF Relations, Made
<1>1. CASE UNCHANGED memoryVars
  BY <1>1, <1>l, RelationsShrink DEF memoryVars
<1>2. ASSUME NEW k \in Capsule, CreateCapsule(k) PROVE RelationsInv'
  BY <1>2, <1>l, RelationsShrink DEF CreateCapsule
\* A relation that goes.
<1>g. ASSUME NEW i \in Link, link' = [link EXCEPT ![i] = Gone]
      PROVE  Relations' \subseteq Relations
  BY <1>g, <1>t DEF Relations, Made
<1>3. ASSUME NEW i \in Link, DeleteRelation(i) PROVE RelationsInv'
  BY <1>3, <1>g, RelationsShrink DEF DeleteRelation
<1>4. ASSUME NEW c \in Caller, CallerStep(c) PROVE RelationsInv'
  <2> DEFINE q == req[c]
  <2>o. \A b \in Caller \ {c} : req'[b] = req[b]
    BY <1>4, OthersWait
  <2>q. q \in Stage /\ Fits(q, capsule, note, link)
    BY <1>t DEF MemoryInv, StagesFit
  \* c leaves the relations, or has nothing to do with them.
  <2>n. ASSUME NEW stage, Become(c, stage),
               stage.at \notin {"relations", "target", "insert"},
               raced' = raced, Relations' \subseteq Relations
        PROVE  RelationsInv'
    <3>1. req'[c] = stage
      BY <2>n, <1>t, Becomes
    <3>2. QED
      BY <2>n, <2>o, <3>1, RelationsShrink
  <2>i. Idle.at = "idle"
    BY DEF Idle
  <2>1. CASE NoteStep(c)
    <3>1. UNCHANGED <<link, raced>>
      BY <2>1 DEF NoteStep, BeginCapture, InsertNote, BeginResolve, Promote, Reject, Rewrite,
         AppendEvent, rows
    <3>2. req'[c].at \notin {"relations", "target", "insert"}
      <4>r. \A s, o : Recording(s, o).at \in {"event", "idle"}
        BY <2>i DEF Recording
      <4>1. CASE BeginCapture(c)
        BY <1>t, <4>1, Becomes DEF BeginCapture
      <4>2. CASE InsertNote(c)
        BY <1>t, <4>2, Becomes DEF InsertNote
      <4>3. ASSUME NEW n \in Note, NEW op \in {"promote", "reject", "rewrite"},
                   BeginResolve(c, n, op)
            PROVE req'[c].at \notin {"relations", "target", "insert"}
        BY <1>t, <4>3, Becomes DEF BeginResolve
      <4>4. CASE Promote(c)
        BY <1>t, <2>i, <4>r, <4>4, Becomes DEF Promote
      <4>5. CASE Reject(c)
        BY <1>t, <2>i, <4>r, <4>5, Becomes DEF Reject
      <4>6. CASE Rewrite(c)
        BY <1>t, <2>i, <4>r, <4>6, Becomes DEF Rewrite
      <4>7. CASE AppendEvent(c)
        BY <1>t, <2>i, <4>7, Ends DEF AppendEvent
      <4>8. QED
        BY <2>1, <4>1, <4>2, <4>3, <4>4, <4>5, <4>6, <4>7 DEF NoteStep
    <3>3. QED
      BY <1>l, <2>o, <3>1, <3>2, RelationsShrink
  <2>2. ASSUME NEW rel \in Relate, BeginRelate(c, rel) PROVE RelationsInv'
    <3> SUFFICES ASSUME ~raced' PROVE RelationsInv'
      BY DEF RelationsInv
    <3>1. ~raced /\ Relating = {}
      BY <2>2 DEF BeginRelate
    <3>2. req'[c] = [at |-> "relations", rel |-> rel] /\ Relations' = Relations
      BY <1>t, <1>l, <2>2, Becomes DEF BeginRelate, rows
    <3>3. \A b \in Caller \ {c} : req'[b].at \notin {"relations", "target", "insert"}
      BY <2>o, <3>1 DEF Relating
    <3>4. Relating' \subseteq {c}
      BY <3>3 DEF Relating
    <3>5. Acyclic(Relations') /\ OneWay(Relations')
      BY <3>1, <3>2 DEF RelationsInv
    <3>6. \A b \in Caller : req'[b].at \notin {"target", "insert"}
      BY <3>2, <3>3
    <3>7. QED
      BY <3>4, <3>5, <3>6 DEF RelationsInv, Acyclic, OneWay
  <2>3. CASE ReadRelations(c)
    <3> SUFFICES ASSUME ~raced PROVE RelationsInv'
      BY <2>3 DEF ReadRelations, RelationsInv
    <3>1. /\ req'[c] = [at |-> "target", rel |-> q.rel, seen |-> Relations]
          /\ q.at = "relations" /\ Relations' = Relations
      BY <1>t, <1>l, <2>3, Becomes DEF ReadRelations, rows
    <3>2. Relating' = Relating
      BY <2>o, <3>1 DEF Relating
    <3>3. QED
      BY <2>o, <3>1, <3>2 DEF RelationsInv, Acyclic, OneWay
  <2>4. CASE CheckTarget(c)
    <3> DEFINE rel == q.rel
               passes == /\ rel.target # rel.source
                         /\ Kept(rel.target)
                         /\ rel.type = "supersedes" => ~Path(rel.target, rel.source, q.seen)
                         /\ rel.type = "conflicts-with" => ~Back(rel, q.seen)
    <3>1. /\ req'[c] = (IF passes THEN [at |-> "insert", rel |-> rel] ELSE Idle)
          /\ q.at = "target" /\ Relations' = Relations /\ raced' = raced
      BY <1>t, <1>l, <2>4, Becomes DEF CheckTarget, rows
    <3>2. CASE passes
      <4> SUFFICES ASSUME ~raced PROVE RelationsInv'
        BY <3>1 DEF RelationsInv
      <4>1. req'[c] = [at |-> "insert", rel |-> rel]
        BY <3>1, <3>2
      <4>2. Relating' = Relating
        BY <2>o, <3>1, <4>1 DEF Relating
      <4>3. Relations \subseteq q.seen
        BY <3>1 DEF RelationsInv
      <4>4. Admitted(rel, Relations)
        <5>1. Admitted(rel, q.seen)
          BY <3>2 DEF Admitted
        <5>2. QED
          BY <4>3, <5>1, FewerRelations
      <4>5. Acyclic(Relations') /\ OneWay(Relations')
        BY <3>1 DEF RelationsInv
      <4>6. \A b \in Caller : req'[b].at = "insert" => Admitted(req'[b].rel, Relations')
        BY <2>o, <3>1, <4>1, <4>4 DEF RelationsInv
      <4>7. \A b \in Caller : req'[b].at = "target" => Relations' \subseteq req'[b].seen
        BY <2>o, <3>1, <4>1 DEF RelationsInv
      <4>8. \A b, d \in Relating' : b = d
        BY <4>2 DEF RelationsInv
      <4>9. QED
        BY <4>5, <4>6, <4>7, <4>8 DEF RelationsInv
    <3>3. CASE ~passes
      BY <2>i, <2>o, <3>1, <3>3, RelationsShrink
    <3>4. QED
      BY <3>2, <3>3
  <2>5. CASE InsertRelation(c)
    <3> DEFINE rel == q.rel
    <3>1. q.at = "insert" /\ rel \in Relation /\ raced' = raced
      BY <2>q, <2>5, StageFields DEF InsertRelation
    <3>2. CASE End(c) /\ UNCHANGED link
      BY <1>l, <2>i, <2>n, <3>1, <3>2 DEF End
    <3>3. ASSUME NEW i \in Link, link[i] = NoLink, link' = [link EXCEPT ![i] = rel],
                 Become(c, IF rel.type = "supersedes"
                           THEN [at |-> "mark", link |-> i, target |-> rel.target] ELSE Idle)
          PROVE  RelationsInv'
      <4> SUFFICES ASSUME ~raced PROVE RelationsInv'
        BY <3>1 DEF RelationsInv
      <4>1. req'[c].at \in {"mark", "idle"}
        BY <1>t, <2>i, <3>3, Becomes
      <4>2. Relations' = Relations \cup {rel}
        <5>1. rel \notin {NoLink, Gone}
          BY <3>1, RelationFields
        <5>2. link'[i] = rel /\ \A j \in Link \ {i} : link'[j] = link[j]
          BY <1>t, <3>3
        <5>3. QED
          BY <3>3, <5>1, <5>2 DEF Relations, Made
      <4>3. c \in Relating /\ Relating = {c}
        BY <3>1 DEF RelationsInv, Relating
      <4>4. \A b \in Caller : req'[b].at \notin {"relations", "target", "insert"}
        BY <2>o, <4>1, <4>3 DEF Relating
      <4>5. Admitted(rel, Relations)
        BY <3>1 DEF RelationsInv
      <4>6. Acyclic(Relations') /\ OneWay(Relations')
        <5>1. Acyclic(Relations) /\ OneWay(Relations)
          BY DEF RelationsInv
        <5>2. rel.type # "supersedes" => Acyclic(Relations \cup {rel})
          BY <5>1 DEF Acyclic
        <5>3. rel.type # "conflicts-with" => OneWay(Relations \cup {rel})
          BY <5>1 DEF OneWay
        <5>4. QED
          BY <1>r, <3>1, <4>2, <4>5, <5>1, <5>2, <5>3, AdmittedStaysAcyclic,
             AdmittedStaysOneWay
      <4>7. Acyclic(Relations)' /\ OneWay(Relations)'
        BY <4>6 DEF Acyclic, OneWay
      <4>8. \A b, d \in Relating' : b = d
        BY <4>4 DEF Relating
      <4>9. QED
        BY <4>4, <4>7, <4>8 DEF RelationsInv
    <3>4. QED
      BY <2>5, <3>2, <3>3 DEF InsertRelation
  <2>6. CASE ReadSuperseded(c)
    BY <1>l, <2>6, <2>n DEF ReadSuperseded, rows
  <2>7. CASE MarkFails(c)
    BY <1>l, <2>7, <2>n DEF MarkFails, rows
  <2>8. CASE UndoRelation(c)
    <3>1. q.link \in Link
      BY <2>q, <2>8, StageFields DEF UndoRelation
    <3>2. QED
      BY <1>g, <2>i, <2>8, <2>n, <3>1 DEF UndoRelation, End
  <2>9. ASSUME NEW k \in EditAbout, NEW to \in EditTo, NEW stamped \in BOOLEAN,
               BeginEdit(c, k, to, stamped)
        PROVE  RelationsInv'
    BY <1>l, <2>9, <2>n DEF BeginEdit, rows
  <2>10. CASE ReadCapsule(c)
    BY <1>l, <2>10, <2>n DEF ReadCapsule, rows
  <2>11. CASE WriteCapsule(c)
    BY <1>l, <2>i, <2>11, <2>n DEF WriteCapsule, End
  <2>12. CASE Abandon(c)
    BY <1>l, <2>i, <2>12, <2>n DEF Abandon, End, rows
  <2>13. QED
    BY <1>4, <2>1, <2>2, <2>3, <2>4, <2>5, <2>6, <2>7, <2>8, <2>9, <2>10, <2>11, <2>12
       DEF CallerStep, RelationStep, CapsuleStep
<1>5. QED
  BY <1>1, <1>2, <1>3, <1>4 DEF MemoryNext

LEMMA RelationsInvInit == MemoryInit => RelationsInv
<1> SUFFICES ASSUME MemoryInit PROVE RelationsInv
  OBVIOUS
<1>1. Relations = {}
  BY DEF MemoryInit, Relations, Made
<1>2. \A c \in Caller : req[c].at = "idle"
  BY DEF MemoryInit, Idle
<1>3. QED
  BY <1>1, <1>2 DEF RelationsInv, Relating, Acyclic, OneWay

LEMMA RelationsInvHolds == MemorySpec => []RelationsInv
<1>1. MemoryInit => RelationsInv
  BY RelationsInvInit
<1>2. MemoryInv /\ RelationsInv /\ [MemoryNext]_memoryVars => RelationsInv'
  BY RelationsInvStep
<1>3. QED
  BY <1>1, <1>2, MemoryInvHolds, PTL DEF MemorySpec

\* Capsules do not supersede each other in a circle, when relations come one at a time.
THEOREM SupersessionHasNoCircle == MemorySpec => []SupersedesAcyclic
<1>1. RelationsInv => SupersedesAcyclic
  BY DEF RelationsInv, SupersedesAcyclic, Acyclic
<1>2. QED
  BY <1>1, RelationsInvHolds, PTL

\* Two capsules conflict in one direction, when relations come one at a time.
THEOREM ConflictsHaveOneWay == MemorySpec => []ConflictsOneWay
<1>1. RelationsInv => ConflictsOneWay
  BY DEF RelationsInv, ConflictsOneWay, OneWay
<1>2. QED
  BY <1>1, RelationsInvHolds, PTL

-----------------------------------------------------------------------------
\* Capsules that are superseded.

Retired(row) == row.status # "active" \/ row.revived

\* A request that has made the relation i and is about to mark its target, or to take the
\* relation back.
WorksOn(q, i) == q.at \in {"mark", "write", "undo"} /\ q.link = i

LinksInv ==
  \A i \in Link : Made(i) =>
    /\ Kept(link[i].target)
    /\ link[i].type = "supersedes" /\ ~cut =>
         Retired(capsule[link[i].target]) \/ \E c \in Caller : WorksOn(req[c], i)

\* An update leaves a retired capsule retired: it keeps a status that is not "active",
\* sets one, or the capsule counts as revived.  The updates of relations retire it.
LEMMA UpdatesRetire ==
  ASSUME MemoryInv, NEW q \in Stage, q.at = "write", Fits(q, capsule, note, link), CopyFresh(q)
  PROVE  /\ Retired(capsule[q.capsule]) => Retired(Written(q))
         /\ q.link # None => Retired(Written(q))
<1> DEFINE row == capsule[q.capsule]
           new == Written(q)
<1>1. /\ row \in CapsuleRow /\ q.copy \in CapsuleRow
      /\ new.status = IF q.to = None THEN q.copy.status ELSE q.to
      /\ new.revived = Revives(q)
  BY WrittenRow
<1>2. /\ row.updated \in Nat /\ q.copy.updated \in Nat
      /\ q.expected \in Nat \cup {None}
  BY <1>1, CapsuleFields, StageFields
<1>3. CASE q.to # None
  <2>1. new.status = q.to /\ (q.to = "active" => new.revived)
    BY <1>1, <1>3 DEF Revives
  <2>2. QED
    BY <2>1 DEF Retired
<1>4. CASE q.to = None
  <2>1. q.link = None
    BY <1>4, MemoryAssumption DEF Fits, CapsuleStatus
  <2>2. new.status = q.copy.status
    BY <1>1, <1>4
  <2>3. row.revived /\ q.copy.status = "active" => new.revived
    BY <1>1, <1>4 DEF Revives
  <2>4. ASSUME row.status # "active", q.copy.status = "active" PROVE new.revived
    <3>1. CASE q.expected = None
      BY <1>1, <1>4, <2>4, <3>1 DEF Revives, CarriesBack
    <3>2. CASE q.expected # None
      <4>1. q.copy.updated = row.updated
        <5>1. row.updated = q.expected
          BY <3>2 DEF CopyFresh
        <5>2. q.expected <= q.copy.updated /\ q.copy.updated <= row.updated
          BY <3>2 DEF Fits
        <5>3. QED
          BY <1>2, <3>2, <5>1, <5>2
      <4>2. q.copy = row
        BY <4>1 DEF Fits
      <4>3. QED
        BY <2>4, <4>2
    <3>3. QED
      BY <3>1, <3>2
  <2>5. QED
    BY <2>1, <2>2, <2>3, <2>4 DEF Retired
<1>5. QED
  BY <1>3, <1>4

\* A step that makes no relation and gives none up unmarked.
LEMMA LinksKeep ==
  ASSUME MemoryInv, LinksInv, ~cut' => ~cut,
         \A k \in Capsule : Kept(k) =>
           Kept(k)' /\ (Retired(capsule[k]) => Retired(capsule'[k])),
         \A i \in Link : Made(i)' => Made(i) /\ link'[i] = link[i],
         \A i \in Link, c \in Caller : Made(i)' /\ WorksOn(req[c], i) /\ ~cut' =>
           WorksOn(req'[c], i) \/ Retired(capsule'[link[i].target])
  PROVE  LinksInv'
<1> SUFFICES ASSUME NEW i \in Link, Made(i)'
             PROVE /\ capsule'[link'[i].target] # NoCapsule
                   /\ link'[i].type = "supersedes" /\ ~cut' =>
                        Retired(capsule'[link'[i].target]) \/ \E c \in Caller : WorksOn(req'[c], i)
  BY DEF LinksInv, Kept, Made
<1>1. Made(i) /\ link'[i] = link[i] /\ link[i].target \in Capsule
  BY RelationFields DEF MemoryInv, MemoryTypeOK, Made
<1>2. Kept(link[i].target)
  BY <1>1 DEF LinksInv
<1>3. capsule'[link[i].target] # NoCapsule
  BY <1>1, <1>2 DEF Kept
<1>4. ASSUME link[i].type = "supersedes", ~cut'
      PROVE Retired(capsule'[link[i].target]) \/ \E c \in Caller : WorksOn(req'[c], i)
  <2>1. CASE Retired(capsule[link[i].target])
    BY <1>1, <1>2, <2>1
  <2>2. CASE \E c \in Caller : WorksOn(req[c], i)
    BY <1>4, <2>2
  <2>3. QED
    BY <1>1, <1>4, <2>1, <2>2 DEF LinksInv
<1>5. QED
  BY <1>1, <1>3, <1>4

\* A capsule that is there is changed by no step but an update.
LEMMA CapsulesWait ==
  ASSUME MemoryInv, [MemoryNext]_memoryVars, ~ \E c \in Caller : WriteCapsule(c)
  PROVE  \A k \in Capsule : Kept(k) => capsule'[k] = capsule[k]
<1>t. capsule \in [Capsule -> {NoCapsule} \cup CapsuleRow]
  BY DEF MemoryInv, MemoryTypeOK
<1>1. ASSUME NEW k \in Capsule, CreateCapsule(k)
      PROVE  \A j \in Capsule : Kept(j) => capsule'[j] = capsule[j]
  BY <1>t, <1>1 DEF CreateCapsule, Kept
<1>2. ASSUME NEW c \in Caller, NoteStep(c)
      PROVE  \A j \in Capsule : Kept(j) => capsule'[j] = capsule[j]
  <2>1. CASE Promote(c)
    BY <1>t, <2>1 DEF Promote, Kept
  <2>2. QED
    BY <1>2, <2>1 DEF NoteStep, BeginCapture, InsertNote, BeginResolve, Reject, Rewrite,
       AppendEvent, rows
<1>3. ASSUME NEW c \in Caller, RelationStep(c) PROVE UNCHANGED capsule
  BY <1>3 DEF RelationStep, BeginRelate, ReadRelations, CheckTarget, InsertRelation,
     ReadSuperseded, MarkFails, UndoRelation, rows
<1>4. ASSUME NEW c \in Caller, CapsuleStep(c) PROVE UNCHANGED capsule
  BY <1>4 DEF CapsuleStep, BeginEdit, ReadCapsule, rows
<1>5. QED
  BY <1>1, <1>2, <1>3, <1>4
     DEF MemoryNext, CallerStep, memoryVars, DeleteRelation, Abandon, rows

LEMMA LinksInvStep ==
  ASSUME MemoryInv, LinksInv, [MemoryNext]_memoryVars
  PROVE  LinksInv'
<1>t. /\ req \in [Caller -> Stage]
      /\ link \in [Link -> {NoLink, Gone} \cup Relation]
      /\ capsule \in [Capsule -> {NoCapsule} \cup CapsuleRow]
  BY DEF MemoryInv, MemoryTypeOK
<1>s. UNCHANGED link => \A i \in Link : Made(i)' => Made(i) /\ link'[i] = link[i]
  BY DEF Made
<1>w. (~ \E c \in Caller : WriteCapsule(c)) =>
        \A k \in Capsule : Kept(k) =>
          Kept(k)' /\ (Retired(capsule[k]) => Retired(capsule'[k]))
  BY CapsulesWait DEF Kept
\* A step of c, which works on no relation, or goes on to do so.
<1>n. ASSUME NEW c \in Caller, CallerStep(c), ~ \E b \in Caller : WriteCapsule(b),
             UNCHANGED <<link, cut>>,
             \A i \in Link : WorksOn(req[c], i) => WorksOn(req'[c], i)
      PROVE  LinksInv'
  <2>1. \A b \in Caller \ {c} : req'[b] = req[b]
    BY <1>n, OthersWait
  <2>2. \A i \in Link, b \in Caller : WorksOn(req[b], i) => WorksOn(req'[b], i)
    BY <1>n, <2>1
  <2>3. QED
    BY <1>n, <1>s, <1>w, <2>2, LinksKeep
<1>g. ASSUME NEW i \in Link, link' = [link EXCEPT ![i] = Gone]
      PROVE  \A j \in Link : Made(j)' => Made(j) /\ link'[j] = link[j] /\ j # i
  BY <1>g, <1>t DEF Made
<1>1. ASSUME NEW c \in Caller, WriteCapsule(c) PROVE LinksInv'
  <2> DEFINE q == req[c]
  <2>1. /\ q \in Stage /\ q.at = "write" /\ Fits(q, capsule, note, link)
        /\ UNCHANGED <<link, cut>>
    BY <1>1, <1>t DEF WriteCapsule, MemoryInv, StagesFit
  <2>2. /\ q.capsule \in Capsule /\ Kept(q.capsule) /\ Written(q) # NoCapsule
    BY <2>1, WrittenRow, CapsuleFields
  <2>3. \A k \in Capsule : Kept(k) =>
          Kept(k)' /\ (Retired(capsule[k]) => Retired(capsule'[k]))
    <3>1. CASE CopyFresh(q)
      <4>1. /\ capsule'[q.capsule] = Written(q)
            /\ \A k \in Capsule \ {q.capsule} : capsule'[k] = capsule[k]
        BY <1>1, <1>t, <2>2, <3>1 DEF WriteCapsule
      <4>2. Retired(capsule[q.capsule]) => Retired(Written(q))
        BY <2>1, <3>1, UpdatesRetire
      <4>3. QED
        BY <2>2, <4>1, <4>2 DEF Kept
    <3>2. CASE ~CopyFresh(q)
      BY <1>1, <3>2 DEF WriteCapsule, Kept
    <3>3. QED
      BY <3>1, <3>2
  <2>4. \A i \in Link, b \in Caller : Made(i)' /\ WorksOn(req[b], i) =>
          WorksOn(req'[b], i) \/ Retired(capsule'[link[i].target])
    <3> SUFFICES ASSUME NEW i \in Link, Made(i), WorksOn(req[c], i)
                 PROVE  Retired(capsule'[link[i].target])
      <4>1. \A b \in Caller \ {c} : req'[b] = req[b]
        BY <1>1, <1>t, Ends DEF WriteCapsule
      <4>2. QED
        BY <2>1, <4>1 DEF Made
    <3>1. q.link = i /\ q.link # None
      BY MemoryAssumption DEF WorksOn
    <3>2. CopyFresh(q) /\ link[i].target = q.capsule
      BY <2>1, <3>1 DEF Fits, LinksTo, CopyFresh, Made
    <3>3. capsule'[q.capsule] = Written(q)
      BY <1>1, <1>t, <2>2, <3>2 DEF WriteCapsule
    <3>4. QED
      BY <2>1, <3>1, <3>2, <3>3, UpdatesRetire
  <2>5. QED
    BY <1>s, <2>1, <2>3, <2>4, LinksKeep
<1>2. CASE ~ \E c \in Caller : WriteCapsule(c)
  <2>1. CASE UNCHANGED memoryVars
    <3>1. \A i \in Link, c \in Caller : WorksOn(req[c], i) => WorksOn(req'[c], i)
      BY <2>1 DEF memoryVars
    <3>2. UNCHANGED <<link, cut>>
      BY <2>1 DEF memoryVars
    <3>3. QED
      BY <1>2, <1>s, <1>w, <3>1, <3>2, LinksKeep
  <2>2. ASSUME NEW k \in Capsule, CreateCapsule(k) PROVE LinksInv'
    <3>1. UNCHANGED <<link, cut, req>>
      BY <2>2 DEF CreateCapsule
    <3>2. QED
      BY <1>2, <1>s, <1>w, <3>1, LinksKeep
  <2>3. ASSUME NEW i \in Link, DeleteRelation(i) PROVE LinksInv'
    <3>1. link' = [link EXCEPT ![i] = Gone] /\ UNCHANGED <<cut, req>>
      BY <2>3 DEF DeleteRelation
    <3>2. QED
      BY <1>2, <1>g, <1>w, <3>1, LinksKeep
  <2>4. ASSUME NEW c \in Caller, CallerStep(c) PROVE LinksInv'
    <3> DEFINE q == req[c]
    <3>q. q \in Stage /\ Fits(q, capsule, note, link)
      BY <1>t DEF MemoryInv, StagesFit
    <3>1. CASE NoteStep(c)
      <4>1. UNCHANGED <<link, cut>>
        BY <3>1 DEF NoteStep, BeginCapture, InsertNote, BeginResolve, Promote, Reject, Rewrite,
           AppendEvent, rows
      <4>2. q.at \notin {"mark", "write", "undo"}
        BY <3>1, StagesOf DEF Idle, AppendEvent
      <4>3. QED
        BY <1>2, <1>n, <2>4, <4>1, <4>2 DEF WorksOn
    <3>2. CASE CapsuleStep(c)
      <4>1. UNCHANGED <<link, cut>> /\ q.at \notin {"mark", "write", "undo"}
        <5>1. ASSUME NEW k \in EditAbout, NEW to \in EditTo, NEW stamped \in BOOLEAN,
                     BeginEdit(c, k, to, stamped)
              PROVE  UNCHANGED <<link, cut>> /\ q.at \notin {"mark", "write", "undo"}
          BY <5>1 DEF BeginEdit, Busy, Idle, rows
        <5>2. CASE ReadCapsule(c)
          BY <5>2 DEF ReadCapsule, rows
        <5>3. QED
          BY <1>2, <3>2, <5>1, <5>2 DEF CapsuleStep
      <4>2. QED
        BY <1>2, <1>n, <2>4, <4>1 DEF WorksOn
    <3>3. ASSUME NEW rel \in Relate, BeginRelate(c, rel) PROVE LinksInv'
      <4>1. UNCHANGED <<link, cut>> /\ q.at = "idle"
        BY <3>3 DEF BeginRelate, Busy, Idle, rows
      <4>2. QED
        BY <1>2, <1>n, <2>4, <4>1 DEF WorksOn
    <3>4. CASE ReadRelations(c) \/ CheckTarget(c)
      <4>1. UNCHANGED <<link, cut>> /\ q.at \in {"relations", "target"}
        BY <3>4 DEF ReadRelations, CheckTarget, rows
      <4>2. QED
        BY <1>2, <1>n, <2>4, <4>1 DEF WorksOn
    <3>5. CASE InsertRelation(c)
      <4>1. /\ q.at = "insert" /\ q.rel \in Relation /\ Kept(q.rel.target)
            /\ UNCHANGED <<capsule, cut>>
        BY <3>q, <3>5, StageFields DEF InsertRelation, Fits, Kept
      <4>2. CASE UNCHANGED link
        BY <1>2, <1>n, <2>4, <4>1, <4>2 DEF WorksOn
      <4>3. ASSUME NEW i \in Link, link[i] = NoLink, link' = [link EXCEPT ![i] = q.rel],
                   Become(c, IF q.rel.type = "supersedes"
                             THEN [at |-> "mark", link |-> i, target |-> q.rel.target] ELSE Idle)
            PROVE  LinksInv'
        <5>1. /\ link'[i] = q.rel /\ \A j \in Link \ {i} : link'[j] = link[j]
              /\ q.rel.target \in Capsule
          BY <1>t, <4>1, <4>3, RelationFields
        <5>2. q.rel.type = "supersedes" => WorksOn(req'[c], i)
          BY <1>t, <4>3, Becomes DEF WorksOn
        <5>3. \A j \in Link, b \in Caller : WorksOn(req[b], j) => WorksOn(req'[b], j)
          BY <2>4, <4>1, OthersWait DEF WorksOn
        <5>4. QED
          BY <4>1, <5>1, <5>2, <5>3 DEF LinksInv, Made, Kept
      <4>4. QED
        BY <3>5, <4>2, <4>3 DEF InsertRelation
    <3>6. CASE ReadSuperseded(c)
      <4>1. UNCHANGED <<link, cut>> /\ req'[c].at = "write" /\ req'[c].link = q.link
        BY <1>t, <3>6, Becomes DEF ReadSuperseded, rows
      <4>2. QED
        BY <1>2, <1>n, <2>4, <4>1 DEF WorksOn
    <3>7. CASE MarkFails(c)
      <4>1. UNCHANGED <<link, cut>> /\ req'[c].at = "undo" /\ req'[c].link = q.link
        BY <1>t, <3>7, Becomes DEF MarkFails, rows
      <4>2. QED
        BY <1>2, <1>n, <2>4, <4>1 DEF WorksOn
    <3>8. CASE UndoRelation(c)
      <4>1. /\ q.at = "undo" /\ q.link \in Link /\ UNCHANGED cut
            /\ link' = [link EXCEPT ![q.link] = Gone]
        BY <3>q, <3>8, StageFields DEF UndoRelation
      <4>2. \A i \in Link, b \in Caller : Made(i)' /\ WorksOn(req[b], i) => WorksOn(req'[b], i)
        BY <1>g, <2>4, <4>1, OthersWait DEF WorksOn
      <4>3. QED
        BY <1>2, <1>g, <1>w, <4>1, <4>2, LinksKeep
    <3>9. CASE Abandon(c)
      <4>1. cut' /\ UNCHANGED link
        BY <3>9 DEF Abandon, rows
      <4>2. QED
        BY <1>2, <1>s, <1>w, <4>1, LinksKeep
    <3>10. QED
      BY <2>4, <3>1, <3>2, <3>3, <3>4, <3>5, <3>6, <3>7, <3>8, <3>9
         DEF CallerStep, RelationStep
  <2>5. QED
    BY <2>1, <2>2, <2>3, <2>4 DEF MemoryNext
<1>3. QED
  BY <1>1, <1>2

LEMMA LinksRetire == MemoryInv /\ LinksInv => SupersededIsRetired
<1> SUFFICES ASSUME MemoryInv, LinksInv, ~cut, NEW i \in Link, Made(i),
                    link[i].type = "supersedes", ~Retired(capsule[link[i].target])
             PROVE  Marking(link[i].target)
  BY DEF SupersededIsRetired, Relations, Retired
<1>1. PICK c \in Caller : WorksOn(req[c], i)
  BY DEF LinksInv
<1>2. Fits(req[c], capsule, note, link) /\ link[i] \in Relation /\ link[i] # Gone
  BY DEF MemoryInv, MemoryTypeOK, StagesFit, Made
<1>3. i # None
  BY MemoryAssumption
<1>4. CASE req[c].at = "mark"
  BY <1>1, <1>2, <1>4 DEF WorksOn, Fits, LinksTo, Marking
<1>5. CASE req[c].at = "write"
  BY <1>1, <1>2, <1>3, <1>5 DEF WorksOn, Fits, LinksTo, Marking
<1>6. CASE req[c].at = "undo"
  BY <1>1, <1>2, <1>6 DEF WorksOn, Marking
<1>7. QED
  BY <1>1, <1>4, <1>5, <1>6 DEF WorksOn

\* A superseded capsule is active no longer, or about to be stale, unless it is revived:
\* an edit asked for "active", or one that names neither a status nor a stamp carried it
\* back from a copy read before.
THEOREM SupersededCapsulesRetire == MemorySpec => []SupersededIsRetired
<1>1. MemoryInit => LinksInv
  BY DEF MemoryInit, LinksInv, Made
<1>2. MemoryInv /\ LinksInv /\ [MemoryNext]_memoryVars => LinksInv'
  BY LinksInvStep
<1>3. MemoryInv /\ LinksInv => SupersededIsRetired
  BY LinksRetire
<1>4. QED
  BY <1>1, <1>2, <1>3, MemoryInvHolds, PTL DEF MemorySpec
=============================================================================
