----------------------------- MODULE Attachments -----------------------------
(***************************************************************************)
(* Documents and images of tasks: a row in the database and a file beside  *)
(* it.  A file is written before its row and removed after it; the         *)
(* content of a document is replaced by a temporary file that is renamed   *)
(* once the row is updated.  Rows go with their task; the files of a task  *)
(* that is deleted stay, those of a project that is deleted are removed.   *)
(*                                                                         *)
(* A revision stands for a content; the row has the revision of the last   *)
(* update of a content that it was stamped with.  Titles and the links of  *)
(* a task, which are rows and nothing else, are left out, and so is the    *)
(* half of a document that a full disk leaves behind.                      *)
(*                                                                         *)
(* SavedAnyway, DroppedContent, LeftBehind and CommittedAnyway are slips   *)
(* that the properties must notice; nothing uses them.                     *)
(***************************************************************************)
EXTENDS Naturals, FiniteSets

CONSTANTS
  Task,        \* ids of tasks of one project
  Doc, Image,  \* ids of documents and images, never handed out twice
  Caller,      \* handler goroutines
  None,        \* no file
  MaxRevision  \* bound: contents that are ever written

Item == Doc \cup Image

ASSUME AttachmentsAssumption ==
  Doc \cap Image = {} /\ None \notin Nat /\ MaxRevision \in Nat

VARIABLES
  task,        \* the tasks that exist
  row,         \* the row of each item
  file,        \* the revision in the file of each item; None if there is no file
  temp,        \* the temporary files: the item they are for, and their revision
  work,        \* what each caller is in the middle of
  revision,    \* the last revision
  hollow,      \* history: items whose file was removed again, and not the row
  torn,        \* history: items whose updates overtook each other or were cut short
  crashed      \* history: the server has stopped in the middle of a request

fileVars == <<task, row, file, temp, work, revision, hollow, torn, crashed>>

-----------------------------------------------------------------------------

Unborn == [at |-> "unborn"]
Gone == [at |-> "gone"]
Stored(d) == row[d] \notin {Unborn, Gone}

Temporary == [item: Doc, revision: Nat]

Idle == [at |-> "idle"]
Work ==
  {Idle}
  \cup [at: {"save"}, task: Task, of: {Doc, Image}]
  \cup [at: {"insert"}, item: Item, task: Task, revision: Nat]
  \cup [at: {"added", "discard"}, item: Item]
  \cup [at: {"update", "updated", "commit", "drop"}, temp: Temporary]
  \cup [at: {"removed"}, item: Item]
  \cup [at: {"delete"}, listed: SUBSET Item]
  \cup [at: {"unlink"}, items: SUBSET Item]

Busy(c) == work[c] # Idle
Turn(c, stage) == work' = [work EXCEPT ![c] = stage]
End(c) == Turn(c, Idle)

AttachmentsInit ==
  /\ task = Task
  /\ row = [d \in Item |-> Unborn]
  /\ file = [d \in Item |-> None]
  /\ temp = {}
  /\ work = [c \in Caller |-> Idle]
  /\ revision = 0
  /\ hollow = {}
  /\ torn = {}
  /\ crashed = FALSE

-----------------------------------------------------------------------------
\* Adding.

BeginAdd(c, t, kind) ==
  /\ ~Busy(c)
  /\ t \in task
  /\ Turn(c, [at |-> "save", task |-> t, of |-> kind])
  /\ UNCHANGED <<task, row, file, temp, revision, hollow, torn, crashed>>

\* SaveDoc, SaveImage
SaveFile(c) ==
  /\ work[c].at = "save"
  /\ revision < MaxRevision                                        \* bound
  /\ revision' = revision + 1
  /\ \E d \in work[c].of :
       /\ row[d] = Unborn /\ file[d] = None
       /\ file' = [file EXCEPT ![d] = revision + 1]
       /\ Turn(c, [at |-> "insert", item |-> d, task |-> work[c].task,
                   revision |-> revision + 1])
  /\ UNCHANGED <<task, row, temp, hollow, torn, crashed>>

\* A slip: a row without a task.
SavedAnyway(t) == TRUE

\* The foreign key: the task may be gone by now.
TaskRemains(t) == t \in task

\* AddDoc, AddImage: the row, and on an error the file is removed again.
InsertRow(c) ==
  /\ work[c].at = "insert"
  /\ LET q == work[c] IN
     \/ /\ TaskRemains(q.task)
        /\ row' = [row EXCEPT ![q.item] =
                     [at |-> "stored", task |-> q.task, revision |-> q.revision]]
        /\ Turn(c, [at |-> "added", item |-> q.item])
     \/ /\ row' = [row EXCEPT ![q.item] = Gone]
        /\ Turn(c, [at |-> "discard", item |-> q.item])
  /\ UNCHANGED <<task, file, temp, revision, hollow, torn, crashed>>

\* The event of the history ends the request; if it cannot be appended, the file is
\* removed although the row stays.
AppendAdded(c) ==
  /\ work[c].at = "added"
  /\ \/ End(c)
     \/ Turn(c, [at |-> "discard", item |-> work[c].item])
  /\ UNCHANGED <<task, row, file, temp, revision, hollow, torn, crashed>>

Discard(c) ==
  /\ work[c].at = "discard"
  /\ LET d == work[c].item IN
     /\ file' = [file EXCEPT ![d] = None]
     /\ hollow' = IF Stored(d) THEN hollow \cup {d} ELSE hollow
  /\ End(c)
  /\ UNCHANGED <<task, row, temp, revision, torn, crashed>>

-----------------------------------------------------------------------------
\* Updating the content of a document.

\* The row is looked up, and the content written to a temporary file.
BeginUpdate(c, d) ==
  /\ ~Busy(c)
  /\ Stored(d)
  /\ revision < MaxRevision                                        \* bound
  /\ LET new == [item |-> d, revision |-> revision + 1] IN
     /\ temp' = temp \cup {new}
     /\ Turn(c, [at |-> "update", temp |-> new])
  /\ revision' = revision + 1
  /\ UNCHANGED <<task, row, file, hollow, torn, crashed>>

\* Updates of the same document that have written its row already.
Overtaken(d) == {c \in Caller : work[c].at \in {"updated", "commit", "drop"}
                                /\ work[c].temp.item = d}

\* A slip: an error leaves the temporary file.
LeftBehind(q) == Idle

\* A slip: the content is replaced although the update has failed.
CommittedAnyway(q) == [q EXCEPT !.at = "commit"]

\* On an error the temporary file is removed.
AfterError(q) == [q EXCEPT !.at = "drop"]

\* UpdateDoc: looks the row up again and stamps it.
UpdateRow(c) ==
  /\ work[c].at = "update"
  /\ LET q == work[c]
         d == q.temp.item IN
     \/ /\ Stored(d)
        /\ row' = [row EXCEPT ![d].revision = q.temp.revision]
        /\ Turn(c, [q EXCEPT !.at = "updated"])
        /\ torn' = IF Overtaken(d) # {} THEN torn \cup {d} ELSE torn
     \/ /\ Turn(c, AfterError(q))
        /\ UNCHANGED <<row, torn>>
  /\ UNCHANGED <<task, file, temp, revision, hollow, crashed>>

\* The event; if it cannot be appended, the row is stamped with a content that is
\* thrown away.
AppendUpdated(c) ==
  /\ work[c].at = "updated"
  /\ LET q == work[c] IN
     \/ Turn(c, [q EXCEPT !.at = "commit"]) /\ UNCHANGED torn
     \/ Turn(c, AfterError(q)) /\ torn' = torn \cup {q.temp.item}
  /\ UNCHANGED <<task, row, file, temp, revision, hollow, crashed>>

\* CommitDocContent renames, whatever has become of the row; a rename that fails
\* removes the temporary file.
CommitContent(c) ==
  /\ work[c].at = "commit"
  /\ LET new == work[c].temp IN
     /\ temp' = temp \ {new}
     /\ \/ file' = [file EXCEPT ![new.item] = new.revision] /\ UNCHANGED torn
        \/ torn' = torn \cup {new.item} /\ UNCHANGED file
  /\ End(c)
  /\ UNCHANGED <<task, row, revision, hollow, crashed>>

\* A slip: the file of the document is removed in place of the temporary one.
DroppedContent(new) == [file EXCEPT ![new.item] = None]

ContentKept(new) == file

DropTemp(c) ==
  /\ work[c].at = "drop"
  /\ temp' = temp \ {work[c].temp}
  /\ file' = ContentKept(work[c].temp)
  /\ End(c)
  /\ UNCHANGED <<task, row, revision, hollow, torn, crashed>>

-----------------------------------------------------------------------------
\* Removing.

\* DeleteDoc, DeleteImage: the row first.
BeginRemove(c, d) ==
  /\ ~Busy(c)
  /\ Stored(d)
  /\ row' = [row EXCEPT ![d] = Gone]
  /\ Turn(c, [at |-> "removed", item |-> d])
  /\ UNCHANGED <<task, file, temp, revision, hollow, torn, crashed>>

\* If the event cannot be appended, the file stays.
AppendRemoved(c) ==
  /\ work[c].at = "removed"
  /\ \/ Turn(c, [at |-> "unlink", items |-> {work[c].item}])
     \/ End(c)
  /\ UNCHANGED <<task, row, file, temp, revision, hollow, torn, crashed>>

\* Files are removed one by one, and errors ignored.
Unlink(c) ==
  /\ work[c].at = "unlink"
  /\ \/ \E d \in work[c].items :
          /\ file' = [file EXCEPT ![d] = None]
          /\ Turn(c, [work[c] EXCEPT !.items = @ \ {d}])
     \/ End(c) /\ UNCHANGED file
  /\ UNCHANGED <<task, row, temp, revision, hollow, torn, crashed>>

\* The rows that go with the tasks of ts.
Cascaded(ts) == [d \in Item |-> IF Stored(d) /\ row[d].task \in ts THEN Gone ELSE row[d]]

\* DeleteTask forgets the files.
DeleteTask(t) ==
  /\ t \in task
  /\ task' = task \ {t}
  /\ row' = Cascaded({t})
  /\ UNCHANGED <<file, temp, work, revision, hollow, torn, crashed>>

\* DeleteProject lists the attachments of its tasks,
BeginDeleteProject(c) ==
  /\ ~Busy(c)
  /\ Turn(c, [at |-> "delete", listed |-> {d \in Item : Stored(d)}])
  /\ UNCHANGED <<task, row, file, temp, revision, hollow, torn, crashed>>

\* deletes the rows of all there are by then, and the files of those it listed.
DeleteProject(c) ==
  /\ work[c].at = "delete"
  /\ task' = {}
  /\ row' = Cascaded(task)
  /\ Turn(c, [at |-> "unlink", items |-> work[c].listed])
  /\ UNCHANGED <<file, temp, revision, hollow, torn, crashed>>

-----------------------------------------------------------------------------

\* The server stops and takes the requests of cs with it; files and rows stay.
StopRequests(cs) ==
  /\ work' = [c \in Caller |-> IF c \in cs THEN Idle ELSE work[c]]
  /\ torn' = torn \cup {work[c].temp.item : c \in {b \in cs : work[b].at \in {"updated", "commit"}}}
  /\ crashed' = (crashed \/ \E c \in cs : Busy(c))
  /\ UNCHANGED <<task, row, file, temp, revision, hollow>>

RequestStep(c) ==
  \/ \E t \in Task, kind \in {Doc, Image} : BeginAdd(c, t, kind)
  \/ SaveFile(c) \/ InsertRow(c) \/ AppendAdded(c) \/ Discard(c)
  \/ \E d \in Doc : BeginUpdate(c, d)
  \/ UpdateRow(c) \/ AppendUpdated(c) \/ CommitContent(c) \/ DropTemp(c)
  \/ \E d \in Item : BeginRemove(c, d)
  \/ AppendRemoved(c) \/ Unlink(c)
  \/ BeginDeleteProject(c) \/ DeleteProject(c)

AttachmentsNext ==
  \/ \E c \in Caller : RequestStep(c)
  \/ \E t \in Task : DeleteTask(t)
  \/ StopRequests(Caller)

AttachmentsSpec == AttachmentsInit /\ [][AttachmentsNext]_fileVars

-----------------------------------------------------------------------------

\* Rows, files and requests keep their types, and rows the tasks they belong to.
AttachmentsTypeOK ==
  /\ task \subseteq Task
  /\ row \in [Item -> {Unborn, Gone} \cup [at: {"stored"}, task: task, revision: Nat]]
  /\ file \in [Item -> Nat \cup {None}]
  /\ temp \subseteq Temporary
  /\ work \in [Caller -> Work]
  /\ revision \in Nat
  /\ hollow \subseteq Item /\ torn \subseteq Item
  /\ crashed \in BOOLEAN

\* What the database lists can be read: however adding, updating, removing, deletions
\* of the task or the project and crashes interleave, a row has its file, unless the
\* event of its adding could not be appended.
RowsHaveFiles == \A d \in Item \ hollow : Stored(d) => file[d] # None

\* A temporary file belongs to a request in flight; only a crash leaves one.
TempsAreCleaned ==
  ~crashed => \A new \in temp : \E c \in Caller :
    work[c].at \in {"update", "updated", "commit", "drop"} /\ work[c].temp = new

\* When nobody updates it, the content of a document is the one its row was stamped
\* with last: a failed update leaves the old one, a finished one the new.
ContentMatchesRow ==
  \A d \in Item \ (torn \cup hollow) :
    Stored(d) /\ Overtaken(d) = {} => file[d] = row[d].revision
=============================================================================
