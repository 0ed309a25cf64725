------------------------------- MODULE Memory -------------------------------
(***************************************************************************)
(* Engineering memory: learning notes and what becomes of them, the        *)
(* capsules they are promoted to, and the typed relations between          *)
(* capsules.                                                               *)
(*                                                                         *)
(* A request is a chain of statements, as everywhere in the server.  The   *)
(* resolution of a note is one transaction; the update of a capsule reads  *)
(* the row and writes every column back; a supersedes relation is a list   *)
(* of relations, an INSERT, and an update of another capsule.              *)
(*                                                                         *)
(* Texts, labels and the kind of a note decide nothing here and are left   *)
(* out, and so are relations to anything but capsules, which nothing looks *)
(* at.  A note is captured under a claim (AgentRun's matter) and resolved  *)
(* without one.                                                            *)
(*                                                                         *)
(* updated_at is taken for a version of its row: UpdateCapsule writes      *)
(* max(now, the copy's + 1), which repeats a stamp only when two writes of *)
(* a row fall into one millisecond or overtake each other.                 *)
(*                                                                         *)
(* PathOneStep, RejectAnyway, PromoteAgain, NeverBack, CopyAlwaysFresh,    *)
(* WrittenAsAsked and RecordBeforehand are slips that the properties must  *)
(* notice; nothing uses them.                                              *)
(***************************************************************************)
EXTENDS Naturals, FiniteSets

CONSTANTS
  Capsule,     \* ids of capsules, never handed out twice
  Note,        \* ids of learning notes
  Link,        \* ids of relations
  Caller,      \* handler goroutines
  None,        \* no capsule, no note, no change, no expected stamp
  Relate,      \* bound: the relations that requests ask for
  EditAbout,   \* bound: the capsules that are edited
  EditTo,      \* bound: what edits of a capsule make of its status
  MaxVersion   \* bound: a capsule past it is not edited again

\* The relations with a rule of their own; the other types behave like
\* "derived-from".
RelationType == {"supersedes", "conflicts-with", "derived-from"}
Relation == [source: Capsule, type: RelationType, target: Capsule]

CapsuleStatus == {"active", "stale", "archived"}

ASSUME MemoryAssumption ==
  /\ None \notin Capsule \cup Note \cup Link \cup CapsuleStatus \cup Nat
  /\ Relate \subseteq Relation
  /\ EditAbout \subseteq Capsule
  /\ EditTo \subseteq CapsuleStatus \cup {None}
  /\ MaxVersion \in Nat

VARIABLES
  capsule,     \* the row of each capsule; NoCapsule if there is none
  note,        \* the row of each note
  link,        \* the row of each relation
  event,       \* what the history says of each note
  req,         \* what each caller is in the middle of
  raced,       \* history: two requests to relate have been in flight at once
  cut          \* history: a request has ended between two statements

memoryVars == <<capsule, note, link, event, req, raced, cut>>
rows == <<capsule, note, link, event>>

-----------------------------------------------------------------------------

\* "from" and "revived" are history: the note a capsule was promoted from, and
\* whether it is active because an edit asked for that, or carried it back.
CapsuleRow == [status: CapsuleStatus, updated: Nat, from: Note \cup {None}, revived: BOOLEAN]
NoCapsule == [status |-> "none"]
NewCapsule(n) == [status |-> "active", updated |-> 1, from |-> n, revived |-> FALSE]
Kept(k) == capsule[k] # NoCapsule

NoteRow == [status: {"none", "pending", "promoted", "rejected"}, capsule: Capsule \cup {None}]
Unborn == [status |-> "none", capsule |-> None]
Pending(n) == note[n].status = "pending"
Resolved(n) == note[n].status \in {"promoted", "rejected"}

\* A relation that was never made, or is deleted.
NoLink == [type |-> "none"]
Gone == [type |-> "gone"]
Made(i) == link[i] \notin {NoLink, Gone}
Relations == {link[i] : i \in {j \in Link : Made(j)}}

Outcome == {"captured", "updated", "promoted", "rejected"}

Idle == [at |-> "idle"]
Stage ==
  {Idle}
  \cup [at: {"capture"}]
  \cup [at: {"promote", "reject", "rewrite"}, note: Note, pending: BOOLEAN]
  \cup [at: {"event"}, note: Note, kind: Outcome]
  \cup [at: {"relations"}, rel: Relation]
  \cup [at: {"target"}, rel: Relation, seen: SUBSET Relation]
  \cup [at: {"insert"}, rel: Relation]
  \cup [at: {"mark"}, link: Link, target: Capsule]
  \cup [at: {"undo"}, link: Link]
  \cup [at: {"capsule"}, capsule: Capsule, to: CapsuleStatus \cup {None},
        expected: Nat \cup {None}]
  \cup [at: {"write"}, capsule: Capsule, to: CapsuleStatus \cup {None},
        expected: Nat \cup {None}, copy: CapsuleRow, link: Link \cup {None}]

Busy(c) == req[c] # Idle
Become(c, stage) == req' = [req EXCEPT ![c] = stage]
End(c) == Become(c, Idle)

\* Requests on their way to a relation; a second one sees what the first has
\* not inserted yet.
Relating == {c \in Caller : req[c].at \in {"relations", "target", "insert"}}

MemoryInit ==
  /\ capsule = [k \in Capsule |-> NoCapsule]
  /\ note = [n \in Note |-> Unborn]
  /\ link = [i \in Link |-> NoLink]
  /\ event = [n \in Note |-> {}]
  /\ req = [c \in Caller |-> Idle]
  /\ raced = FALSE
  /\ cut = FALSE

-----------------------------------------------------------------------------
\* Learning notes.  Every change is followed by the append of its event.

BeginCapture(c) ==
  /\ ~Busy(c)
  /\ Become(c, [at |-> "capture"])
  /\ UNCHANGED <<rows, raced, cut>>

\* CreateLearningNote: pending, whatever the caller sent.
InsertNote(c) ==
  /\ req[c].at = "capture"
  /\ \E n \in Note :
       /\ note[n] = Unborn
       /\ note' = [note EXCEPT ![n].status = "pending"]
       /\ Become(c, [at |-> "event", note |-> n, kind |-> "captured"])
  /\ UNCHANGED <<capsule, link, event, raced, cut>>

\* A slip: the event first, the change after it.
RecordBeforehand(c, n, op) ==
  /\ ~Busy(c)
  /\ note[n] # Unborn
  /\ op = "rewrite" => Pending(n)
  /\ Become(c, IF op = "reject" /\ Pending(n)
               THEN [at |-> "event", note |-> n, kind |-> "rejected"]
               ELSE [at |-> op, note |-> n, pending |-> Pending(n)])
  /\ UNCHANGED <<rows, raced, cut>>

\* learningNoteAndTask: the note is read before the transaction; an edit needs
\* it pending then.
BeginResolve(c, n, op) ==
  /\ ~Busy(c)
  /\ note[n] # Unborn
  /\ op = "rewrite" => Pending(n)
  /\ Become(c, [at |-> op, note |-> n, pending |-> Pending(n)])
  /\ UNCHANGED <<rows, raced, cut>>

\* The event is recorded when the note was pending as the request read it.
Recording(q, kind) ==
  IF q.pending THEN [at |-> "event", note |-> q.note, kind |-> kind] ELSE Idle

\* A slip: a promoted note is promoted again.
PromoteAgain(n) == note[n].status \in {"pending", "promoted"}

\* PromoteLearningNote: a promoted note answers with the capsule it has, a
\* rejected one is a conflict.
MayPromote(n) == note[n].status = "pending"

Promote(c) ==
  /\ req[c].at = "promote"
  /\ LET n == req[c].note IN
     \/ /\ MayPromote(n)
        /\ \E k \in Capsule :
             /\ capsule[k] = NoCapsule
             /\ capsule' = [capsule EXCEPT ![k] = NewCapsule(n)]
             /\ note' = [note EXCEPT ![n] = [status |-> "promoted", capsule |-> k]]
        /\ Become(c, Recording(req[c], "promoted"))
     \/ /\ ~MayPromote(n)
        /\ Become(c, IF note[n].status = "promoted"
                     THEN Recording(req[c], "promoted") ELSE Idle)
        /\ UNCHANGED <<capsule, note>>
  /\ UNCHANGED <<link, event, raced, cut>>

\* A slip: WHERE id=? alone.
RejectAnyway(n) == note[n].status # "rejected"

\* RejectLearningNote: UPDATE ... WHERE status='pending'; rejecting twice is no
\* error, rejecting a promoted note is.
MayReject(n) == note[n].status = "pending"

Reject(c) ==
  /\ req[c].at = "reject"
  /\ LET n == req[c].note IN
     \/ /\ MayReject(n)
        /\ note' = [note EXCEPT ![n] = [status |-> "rejected", capsule |-> None]]
        /\ Become(c, Recording(req[c], "rejected"))
     \/ /\ ~MayReject(n)
        /\ Become(c, IF note[n].status = "rejected"
                     THEN Recording(req[c], "rejected") ELSE Idle)
        /\ UNCHANGED note
  /\ UNCHANGED <<capsule, link, event, raced, cut>>

\* UpdateLearningNote changes texts of a note that is still pending.
Rewrite(c) ==
  /\ req[c].at = "rewrite"
  /\ Become(c, IF Pending(req[c].note) THEN Recording(req[c], "updated") ELSE Idle)
  /\ UNCHANGED <<rows, raced, cut>>

AppendEvent(c) ==
  /\ req[c].at = "event"
  /\ event' = [event EXCEPT ![req[c].note] = @ \cup {req[c].kind}]
  /\ End(c)
  /\ UNCHANGED <<capsule, note, link, raced, cut>>

NoteStep(c) ==
  \/ BeginCapture(c) \/ InsertNote(c)
  \/ \E n \in Note, op \in {"promote", "reject", "rewrite"} : BeginResolve(c, n, op)
  \/ Promote(c) \/ Reject(c) \/ Rewrite(c) \/ AppendEvent(c)

-----------------------------------------------------------------------------
\* Relations between capsules.

BeginRelate(c, rel) ==
  /\ ~Busy(c)
  /\ Kept(rel.source)
  /\ Become(c, [at |-> "relations", rel |-> rel])
  /\ raced' = (raced \/ Relating # {})
  /\ UNCHANGED <<rows, cut>>

\* ListMemoryRelations,
ReadRelations(c) ==
  /\ req[c].at = "relations"
  /\ Become(c, [at |-> "target", rel |-> req[c].rel, seen |-> Relations])
  /\ UNCHANGED <<rows, raced, cut>>

\* A slip: only capsules superseded directly.
PathOneStep(from, to, seen) ==
  from = to \/ [source |-> from, type |-> "supersedes", target |-> to] \in seen

\* hasMemoryRelationPath: from "from" one gets to "to" by supersedes.
Path(from, to, seen) ==
  \A S \in SUBSET Capsule :
    from \in S /\ (\A r \in seen : r.type = "supersedes" /\ r.source \in S => r.target \in S)
      => to \in S

\* A slip: the other direction is not looked at.
NeverBack(rel, seen) == FALSE

\* hasDirectMemoryRelation, the other way round.
Back(rel, seen) == [rel EXCEPT !.source = rel.target, !.target = rel.source] \in seen

\* then the target and the checks against what was listed.
CheckTarget(c) ==
  /\ req[c].at = "target"
  /\ LET rel == req[c].rel
         seen == req[c].seen IN
     Become(c, IF /\ rel.target # rel.source
                  /\ Kept(rel.target)
                  /\ rel.type = "supersedes" => ~Path(rel.target, rel.source, seen)
                  /\ rel.type = "conflicts-with" => ~Back(rel, seen)
               THEN [at |-> "insert", rel |-> rel] ELSE Idle)
  /\ UNCHANGED <<rows, raced, cut>>

\* CreateMemoryRelation: UNIQUE(source, type, target).  A supersedes relation
\* goes on to the capsule it supersedes.
Related(rel) == rel \in Relations

InsertRelation(c) ==
  /\ req[c].at = "insert"
  /\ LET rel == req[c].rel IN
     \/ /\ ~Related(rel)
        /\ \E i \in Link :
             /\ link[i] = NoLink
             /\ link' = [link EXCEPT ![i] = rel]
             /\ Become(c, IF rel.type = "supersedes"
                          THEN [at |-> "mark", link |-> i, target |-> rel.target] ELSE Idle)
     \/ /\ Related(rel)
        /\ End(c) /\ UNCHANGED link
  /\ UNCHANGED <<capsule, note, event, raced, cut>>

\* UpdateCapsule reads the superseded capsule,
ReadSuperseded(c) ==
  /\ req[c].at = "mark"
  /\ LET q == req[c] IN
     Become(c, [at |-> "write", capsule |-> q.target, to |-> "stale", expected |-> None,
                copy |-> capsule[q.target], link |-> q.link])
  /\ UNCHANGED <<rows, raced, cut>>

\* and an error on the way deletes the relation again.
MarkFails(c) ==
  /\ req[c].at \in {"mark", "write"} /\ req[c].link # None
  /\ Become(c, [at |-> "undo", link |-> req[c].link])
  /\ UNCHANGED <<rows, raced, cut>>

UndoRelation(c) ==
  /\ req[c].at = "undo"
  /\ link' = [link EXCEPT ![req[c].link] = Gone]
  /\ End(c)
  /\ UNCHANGED <<capsule, note, event, raced, cut>>

RelationStep(c) ==
  \/ \E rel \in Relate : BeginRelate(c, rel)
  \/ ReadRelations(c) \/ CheckTarget(c) \/ InsertRelation(c)
  \/ ReadSuperseded(c) \/ MarkFails(c) \/ UndoRelation(c)

\* The superseded capsule stays as it is.
DeleteRelation(i) ==
  /\ Made(i)
  /\ link' = [link EXCEPT ![i] = Gone]
  /\ UNCHANGED <<capsule, note, event, req, raced, cut>>

-----------------------------------------------------------------------------
\* Capsules.

CreateCapsule(k) ==
  /\ capsule[k] = NoCapsule
  /\ capsule' = [capsule EXCEPT ![k] = NewCapsule(None)]
  /\ UNCHANGED <<note, link, event, req, raced, cut>>

\* An edit may name the updated_at it was made from: the console and "capsule edit"
\* do, "capsule archive" does not, and other clients choose.
BeginEdit(c, k, to, stamped) ==
  /\ ~Busy(c)
  /\ Kept(k)
  /\ capsule[k].updated <= MaxVersion                            \* bound
  /\ Become(c, [at |-> "capsule", capsule |-> k, to |-> to,
                expected |-> IF stamped THEN capsule[k].updated ELSE None])
  /\ UNCHANGED <<rows, raced, cut>>

ReadCapsule(c) ==
  /\ req[c].at = "capsule"
  /\ LET q == req[c] IN
     Become(c, [at |-> "write", capsule |-> q.capsule, to |-> q.to, expected |-> q.expected,
                copy |-> capsule[q.capsule], link |-> None])
  /\ UNCHANGED <<rows, raced, cut>>

\* A slip: an edit that names no status writes none.
WrittenAsAsked(q) ==
  [q.copy EXCEPT !.status = q.to, !.updated = capsule[q.capsule].updated + 1]

\* An edit that names neither a status nor a stamp carries "active" from its copy
\* back over whatever the row has become.
CarriesBack(q) ==
  /\ q.to = None /\ q.expected = None
  /\ q.copy.status = "active" /\ capsule[q.capsule].status # "active"

\* It leaves the capsule active that was asked back, now or before, or carried back.
Revives(q) ==
  \/ q.to = "active"
  \/ q.to = None /\ q.copy.status = "active" /\ capsule[q.capsule].revived
  \/ CarriesBack(q)

\* All columns of the copy, and the next version.
Written(q) ==
  [q.copy EXCEPT
     !.status = IF q.to = None THEN @ ELSE q.to,
     !.revived = Revives(q),
     !.updated = capsule[q.capsule].updated + 1]

\* A slip: WHERE id=? alone.
CopyAlwaysFresh(q) == TRUE

\* WHERE id=? and, if the edit names a stamp, AND updated_at=?
CopyFresh(q) == q.expected # None => capsule[q.capsule].updated = q.expected

WriteCapsule(c) ==
  /\ req[c].at = "write"
  /\ LET q == req[c] IN
     IF CopyFresh(q)
     THEN capsule' = [capsule EXCEPT ![q.capsule] = Written(q)]
     ELSE UNCHANGED capsule
  /\ End(c)
  /\ UNCHANGED <<note, link, event, raced, cut>>

CapsuleStep(c) ==
  \/ \E k \in EditAbout, to \in EditTo, stamped \in BOOLEAN : BeginEdit(c, k, to, stamped)
  \/ ReadCapsule(c) \/ WriteCapsule(c)

-----------------------------------------------------------------------------

\* A request ends between two statements.
Abandon(c) ==
  /\ Busy(c)
  /\ End(c)
  /\ cut' = TRUE
  /\ UNCHANGED <<rows, raced>>

CallerStep(c) == NoteStep(c) \/ RelationStep(c) \/ CapsuleStep(c) \/ Abandon(c)

MemoryNext ==
  \/ \E k \in Capsule : CreateCapsule(k)
  \/ \E i \in Link : DeleteRelation(i)
  \/ \E c \in Caller : CallerStep(c)

MemorySpec == MemoryInit /\ [][MemoryNext]_memoryVars

-----------------------------------------------------------------------------

\* Rows and requests keep their types.
MemoryTypeOK ==
  /\ capsule \in [Capsule -> {NoCapsule} \cup CapsuleRow]
  /\ note \in [Note -> NoteRow]
  /\ link \in [Link -> {NoLink, Gone} \cup Relation]
  /\ event \in [Note -> SUBSET Outcome]
  /\ req \in [Caller -> Stage]
  /\ raced \in BOOLEAN /\ cut \in BOOLEAN

\* A note is resolved once: whatever promotions, rejections and edits read while
\* it was pending, none of them lands on it afterwards.
ResolvedNotesStand == [][\A n \in Note : Resolved(n) => note'[n] = note[n]]_memoryVars

\* "Repeating promotion is idempotent": a promoted note has one capsule made from it, the one
\* it names, and no other note has any.
OneCapsulePerNote ==
  \A n \in Note : {k \in Capsule : Kept(k) /\ capsule[k].from = n}
                    = IF note[n].status = "promoted" THEN {note[n].capsule} ELSE {}

\* "prevents supersession cycles": as long as requests to relate come one at a
\* time, although relations are deleted between the check and the INSERT.
SupersedesAcyclic ==
  ~raced => \A S \in SUBSET Capsule : S # {} =>
    \E k \in S : \A r \in Relations : r.type = "supersedes" /\ r.source = k => r.target \notin S

\* "treats reverse duplicate conflicts as conflicts": two capsules conflict in one
\* direction, as long as requests to relate come one at a time.
ConflictsOneWay ==
  ~raced => \A r, s \in Relations : r.type = "conflicts-with" /\ s.type = "conflicts-with" =>
    ~(r.source = s.target /\ r.target = s.source)

\* "supersedes ... marking the old capsule stale": a superseded capsule is active no
\* longer, or about to be stale, unless it is revived: by an edit that asks for "active",
\* or by one that names neither a status nor a stamp and read the row before.  No edit
\* that names one of them brings it back otherwise.
Marking(k) ==
  \E c \in Caller : \/ req[c].at = "mark" /\ req[c].target = k
                    \/ req[c].at = "write" /\ req[c].capsule = k /\ req[c].link # None
                    \/ req[c].at = "undo" /\ link[req[c].link] \in Relation
                         /\ link[req[c].link].target = k
SupersededIsRetired ==
  ~cut => \A r \in Relations : r.type = "supersedes" =>
    \/ capsule[r.target].status # "active"
    \/ capsule[r.target].revived
    \/ Marking(r.target)

\* The history never says more than what happened, and if no request died it says
\* all of it.
HistoryTellsTheOutcome ==
  \A n \in Note :
    LET writing == \E c \in Caller : req[c].at = "event" /\ req[c].note = n IN
    /\ event[n] # {} => note[n] # Unborn
    /\ \A o \in {"promoted", "rejected"} : o \in event[n] => note[n].status = o
    /\ ~cut /\ ~writing => /\ note[n] # Unborn => "captured" \in event[n]
                           /\ Resolved(n) => note[n].status \in event[n]
=============================================================================
