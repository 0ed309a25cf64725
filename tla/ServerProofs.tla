---------------------------- MODULE ServerProofs -----------------------------
(***************************************************************************)
(* What the migrations and the attachments guarantee for any number of     *)
(* processes, migrations, documents, images and requests.                  *)
(***************************************************************************)
EXTENDS Server, AttachmentsProofs

-----------------------------------------------------------------------------
\* Migrations.

LEMMA MigrationsTypeStep ==
  MigrationsTypeOK /\ [MigrationsNext]_schemaVars => MigrationsTypeOK'
<1> SUFFICES ASSUME MigrationsTypeOK, [MigrationsNext]_schemaVars
             PROVE MigrationsTypeOK'
  OBVIOUS
<1> USE MigrationsAssumption
<1>1. CASE UNCHANGED schemaVars
  BY <1>1 DEF MigrationsTypeOK, schemaVars
<1>2. ASSUME NEW p \in Process, Start(p) PROVE MigrationsTypeOK'
  BY <1>2 DEF MigrationsTypeOK, Start, FirstPending, Starting, Off
<1>3. ASSUME NEW p \in Process, ApplyOneMigration(p) PROVE MigrationsTypeOK'
  <2> DEFINE v == proc[p].next
  <2>1. v \in 1..Latest /\ v \in 0..Latest /\ v + 1 \in 1..Latest+1
    BY <1>3 DEF ApplyOneMigration
  <2>2. version' \in 0..Latest
    BY <1>3, <2>1 DEF ApplyOneMigration, Applied
  <2>3. applied' \in [1..Latest -> Times]
    <3>1. OnceMore(applied[v]) \in Times
      BY DEF OnceMore, Times
    <3>2. QED
      BY <1>3, <2>1, <3>1 DEF ApplyOneMigration, Applied, MigrationsTypeOK
  <2>4. [proc[p] EXCEPT !.next = v + 1] \in [at: {"starting"}, next: 1..Latest+1]
    BY <1>3, <2>1 DEF ApplyOneMigration, MigrationsTypeOK, Off, Serving
  <2>5. proc' \in [Process -> {Off, Serving} \cup [at: {"starting"}, next: 1..Latest+1]]
    BY <1>3, <2>4 DEF ApplyOneMigration, MigrationsTypeOK
  <2>6. QED
    BY <1>3, <2>2, <2>3, <2>5 DEF ApplyOneMigration, MigrationsTypeOK
<1>4. ASSUME NEW p \in Process, Serve(p) PROVE MigrationsTypeOK'
  BY <1>4 DEF MigrationsTypeOK, Serve
<1>5. ASSUME NEW p \in Process, Exit(p) PROVE MigrationsTypeOK'
  BY <1>5 DEF MigrationsTypeOK, Exit
<1>6. QED
  BY <1>1, <1>2, <1>3, <1>4, <1>5 DEF MigrationsNext, StartupStep

\* As long as no two processes have been starting at once, the one that is starting is
\* about to apply what follows the stamp.
StampLeads ==
  ~overlap =>
    /\ \A p, q \in Starting : p = q
    /\ \A p \in Starting : proc[p].next = version + 1

MigrationsInv == MigrationsTypeOK /\ StampLeads /\ EachMigrationOnce

LEMMA MigrationsInvStep ==
  MigrationsInv /\ [MigrationsNext]_schemaVars => MigrationsInv'
<1> SUFFICES ASSUME MigrationsInv, [MigrationsNext]_schemaVars
             PROVE StampLeads' /\ EachMigrationOnce'
  BY MigrationsTypeStep DEF MigrationsInv
<1> USE MigrationsAssumption
<1>t. MigrationsTypeOK /\ MigrationsTypeOK'
  BY MigrationsTypeStep DEF MigrationsInv
<1>1. CASE UNCHANGED schemaVars
  BY <1>1 DEF MigrationsInv, StampLeads, EachMigrationOnce, Starting, schemaVars
<1>2. ASSUME NEW p \in Process, Start(p) PROVE StampLeads' /\ EachMigrationOnce'
  <2>1. overlap' = (overlap \/ Starting # {}) /\ Starting' = Starting \cup {p}
    BY <1>2, <1>t DEF Start, Starting, MigrationsTypeOK, Off
  <2>2. proc'[p].next = version + 1 /\ \A q \in Process \ {p} : proc'[q] = proc[q]
    BY <1>2, <1>t DEF Start, FirstPending, MigrationsTypeOK
  <2>3. StampLeads'
    BY <1>2, <2>1, <2>2 DEF Start, StampLeads
  <2>4. EachMigrationOnce'
    <3>1. proc'[p] # Serving
      BY <1>2, <1>t DEF Start, Serving, MigrationsTypeOK
    <3>2. QED
      BY <1>2, <2>1, <2>2, <3>1 DEF Start, EachMigrationOnce, MigrationsInv
  <2>5. QED
    BY <2>3, <2>4
<1>3. ASSUME NEW p \in Process, ApplyOneMigration(p) PROVE StampLeads' /\ EachMigrationOnce'
  <2> DEFINE v == proc[p].next
  <2>1. /\ p \in Starting /\ Starting' = Starting
        /\ proc'[p].next = v + 1 /\ \A q \in Process \ {p} : proc'[q] = proc[q]
    BY <1>3, <1>t DEF ApplyOneMigration, Starting, MigrationsTypeOK, Off, Serving
  <2>2. version' = v /\ overlap' = overlap /\ v \in 1..Latest
    BY <1>3 DEF ApplyOneMigration, Applied
  <2>3. SUFFICES ASSUME ~overlap PROVE StampLeads' /\ EachMigrationOnce'
    BY <2>2 DEF StampLeads, EachMigrationOnce
  <2>4. v = version + 1 /\ \A q \in Starting : q = p
    BY <2>1, <2>3 DEF MigrationsInv, StampLeads
  <2>5. StampLeads'
    BY <2>1, <2>2, <2>4 DEF StampLeads
  <2>6. applied = [w \in 1..Latest |-> IF w <= version THEN "once" ELSE "never"]
    BY <2>3 DEF MigrationsInv, EachMigrationOnce
  <2>7. applied' = [w \in 1..Latest |-> IF w <= version' THEN "once" ELSE "never"]
    <3>1. applied[v] = "never"
      BY <2>2, <2>4, <2>6, <1>t DEF MigrationsTypeOK
    <3>2. applied' = [applied EXCEPT ![v] = "once"]
      BY <1>3, <3>1 DEF ApplyOneMigration, Applied, OnceMore
    <3>3. \A w \in 1..Latest : w <= version' <=> w <= version \/ w = v
      BY <2>2, <2>4, <1>t DEF MigrationsTypeOK
    <3>4. \A w \in 1..Latest : applied'[w] = IF w = v THEN "once" ELSE applied[w]
      BY <2>2, <3>2, <1>t DEF MigrationsTypeOK
    <3>5. \A w \in 1..Latest : applied'[w] = IF w <= version' THEN "once" ELSE "never"
      BY <2>4, <2>6, <3>3, <3>4, <1>t DEF MigrationsTypeOK
    <3>6. applied' = [w \in 1..Latest |-> applied'[w]]
      BY <1>t DEF MigrationsTypeOK
    <3>7. QED
      BY <3>5, <3>6
  <2>8. \A q \in Process : proc'[q] # Serving
    <3>1. version # Latest
      BY <2>2, <2>4, <1>t DEF MigrationsTypeOK
    <3>2. \A q \in Process : proc[q] # Serving
      BY <2>3, <3>1 DEF MigrationsInv, EachMigrationOnce
    <3>3. proc'[p] # Serving
      BY <1>3, <1>t DEF ApplyOneMigration, Serving, MigrationsTypeOK, Off
    <3>4. QED
      BY <2>1, <3>2, <3>3
  <2>9. QED
    BY <2>5, <2>7, <2>8 DEF EachMigrationOnce
<1>4. ASSUME NEW p \in Process, Serve(p) PROVE StampLeads' /\ EachMigrationOnce'
  <2>1. /\ p \in Starting /\ Starting' = Starting \ {p}
        /\ \A q \in Process \ {p} : proc'[q] = proc[q]
    BY <1>4, <1>t DEF Serve, Starting, MigrationsTypeOK, Off, Serving
  <2>2. ~overlap => version = Latest
    BY <1>4, <2>1, <1>t DEF Serve, MigrationsInv, StampLeads, MigrationsTypeOK
  <2>3. QED
    BY <1>4, <2>1, <2>2 DEF Serve, MigrationsInv, StampLeads, EachMigrationOnce
<1>5. ASSUME NEW p \in Process, Exit(p) PROVE StampLeads' /\ EachMigrationOnce'
  <2>1. /\ Starting' = Starting \ {p} /\ proc'[p] # Serving
        /\ \A q \in Process \ {p} : proc'[q] = proc[q]
    BY <1>5, <1>t DEF Exit, Starting, MigrationsTypeOK, Off, Serving
  <2>2. QED
    BY <1>5, <2>1 DEF Exit, MigrationsInv, StampLeads, EachMigrationOnce
<1>6. QED
  BY <1>1, <1>2, <1>3, <1>4, <1>5 DEF MigrationsNext, StartupStep

LEMMA MigrationsInvInit == MigrationsInit => MigrationsInv
<1> SUFFICES ASSUME MigrationsInit PROVE MigrationsInv
  OBVIOUS
<1> USE MigrationsAssumption DEF MigrationsInit
<1>1. applied = [w \in 1..Latest |-> IF w <= version THEN "once" ELSE "never"]
  OBVIOUS
<1>2. \A p \in Process : proc[p] # Serving /\ p \notin Starting
  BY DEF Off, Serving, Starting
<1>3. StampLeads /\ EachMigrationOnce
  BY <1>1, <1>2 DEF StampLeads, EachMigrationOnce, Starting
<1>4. applied \in [1..Latest -> Times]
  BY DEF Times
<1>5. proc \in [Process -> {Off, Serving} \cup [at: {"starting"}, next: 1..Latest+1]]
  OBVIOUS
<1>6. version \in 0..Latest
  OBVIOUS
<1>7. overlap \in BOOLEAN
  BY Zenon
<1>8. MigrationsTypeOK
  BY <1>4, <1>5, <1>6, <1>7 DEF MigrationsTypeOK
<1>9. QED
  BY <1>3, <1>8 DEF MigrationsInv

\* The database part of a step of the server is a step of the migrations.
LEMMA ServerMigrates == [ServerNext]_serverVars => [MigrationsNext]_schemaVars
BY DEF ServerNext, serverVars, StartServer, StopServer, HandleRequest, HandleDeleteTask,
       MigrationsNext

LEMMA ServerMigrationsInv == ServerSpec => []MigrationsInv
<1>1. ServerInit => MigrationsInv
  BY MigrationsInvInit DEF ServerInit
<1>2. QED
  BY <1>1, MigrationsInvStep, ServerMigrates, PTL DEF ServerSpec

\* Wherever processes stop and start, the stamp tells what has been applied, and what is
\* served on has it all, unless two processes have been starting at once.
THEOREM MigrationsRunOnce == ServerSpec => []EachMigrationOnce
<1>1. MigrationsInv => EachMigrationOnce
  BY DEF MigrationsInv
<1>2. QED
  BY <1>1, ServerMigrationsInv, PTL

-----------------------------------------------------------------------------
\* Attachments.

LEMMA ServerFilesInv == ServerSpec => []FilesInv
<1>1. ServerInit => FilesInv
  BY FilesInvInit DEF ServerInit
<1>2. FilesInv /\ [ServerNext]_serverVars => FilesInv'
  <2>1. [ServerNext]_serverVars => [FilesStep]_fileVars
    BY DEF ServerNext, serverVars, StartServer, StopServer, HandleRequest,
           HandleDeleteTask, FilesStep
  <2>2. QED
    BY <2>1, FilesInvStep
<1>3. QED
  BY <1>1, <1>2, PTL DEF ServerSpec

\* What the database lists can be read, but for the file of an item whose event could not
\* be appended.
THEOREM AttachmentsReadable == ServerSpec => []RowsHaveFiles
<1>1. FilesInv => RowsHaveFiles
  BY DEF FilesInv, KnowInv
<1>2. QED
  BY <1>1, ServerFilesInv, PTL

\* Only a crash leaves a temporary file behind.
THEOREM TemporariesGo == ServerSpec => []TempsAreCleaned
<1>1. FilesInv => TempsAreCleaned
  BY DEF FilesInv
<1>2. QED
  BY <1>1, ServerFilesInv, PTL

\* A document has the content its row was stamped with, but for updates that overtook
\* each other or were cut short.
THEOREM DocumentsKeepTheirContent == ServerSpec => []ContentMatchesRow
<1>1. FilesInv => ContentMatchesRow
  BY ContentHolds DEF FilesInv
<1>2. QED
  BY <1>1, ServerFilesInv, PTL

-----------------------------------------------------------------------------

AtHome == \A c \in Caller : Busy(c) => proc[Home[c]] = Serving

LEMMA AtHomeStep ==
  MigrationsTypeOK /\ AttachmentsTypeOK /\ AtHome /\ [ServerNext]_serverVars => AtHome'
<1> SUFFICES ASSUME MigrationsTypeOK, AttachmentsTypeOK, AtHome, [ServerNext]_serverVars,
                    NEW c \in Caller, work'[c] # Idle
             PROVE proc'[Home[c]] = Serving
  BY DEF AtHome, Busy
<1>h. Home[c] \in Process
  BY ServerAssumption
<1>w. work \in [Caller -> Work] /\ proc \in [Process -> {Off, Serving} \cup [at: {"starting"}, next: 1..Latest+1]]
  BY DEF AttachmentsTypeOK, MigrationsTypeOK
<1>1. CASE UNCHANGED serverVars
  BY <1>1 DEF serverVars, schemaVars, fileVars, AtHome, Busy
<1>2. ASSUME NEW p \in Process, StartServer(p) PROVE proc'[Home[c]] = Serving
  <2>1. work' = work
    BY <1>2 DEF StartServer, fileVars
  <2>2. proc[Home[c]] = Serving
    BY <2>1 DEF AtHome, Busy
  <2>3. proc[p] = Serving => proc'[p] = Serving
    BY <1>2, <1>w DEF StartServer, StartupStep, Start, ApplyOneMigration, Serve, Off, Serving
  <2>4. \A r \in Process \ {p} : proc'[r] = proc[r]
    BY <1>2, <1>w DEF StartServer, StartupStep, Start, ApplyOneMigration, Serve
  <2>5. QED
    BY <1>h, <2>2, <2>3, <2>4
<1>3. ASSUME NEW p \in Process, StopServer(p) PROVE proc'[Home[c]] = Serving
  <2>1. Home[c] # p /\ work'[c] = work[c]
    BY <1>3 DEF StopServer, StopRequests
  <2>2. proc'[Home[c]] = proc[Home[c]]
    BY <1>3, <1>h, <1>w, <2>1 DEF StopServer, Exit
  <2>3. QED
    BY <2>1, <2>2 DEF AtHome, Busy
<1>4. ASSUME NEW b \in Caller, HandleRequest(b) PROVE proc'[Home[c]] = Serving
  <2>1. proc' = proc /\ proc[Home[b]] = Serving
    BY <1>4 DEF HandleRequest, schemaVars
  <2>2. c # b => work'[c] = work[c]
    BY <1>4, <1>w DEF HandleRequest, RequestStep, BeginAdd, SaveFile, InsertRow, AppendAdded,
       Discard, BeginUpdate, UpdateRow, AppendUpdated, CommitContent, DropTemp, BeginRemove,
       AppendRemoved, Unlink, BeginDeleteProject, DeleteProject, Turn, End
  <2>3. QED
    BY <2>1, <2>2 DEF AtHome, Busy
<1>5. ASSUME NEW p \in Process, NEW t \in Task, HandleDeleteTask(p, t)
      PROVE proc'[Home[c]] = Serving
  BY <1>5 DEF HandleDeleteTask, DeleteTask, schemaVars, AtHome, Busy
<1>6. QED
  BY <1>1, <1>2, <1>3, <1>4, <1>5 DEF ServerNext

\* The server keeps its types, and a request belongs to a process that serves.
THEOREM ServerTypes == ServerSpec => []ServerTypeOK
<1>1. ServerInit => AtHome
  BY DEF ServerInit, AttachmentsInit, AtHome, Busy
<1>2. MigrationsInv => MigrationsTypeOK
  BY DEF MigrationsInv
<1>3. FilesInv => AttachmentsTypeOK
  BY DEF FilesInv, KnowInv
<1>4. MigrationsTypeOK /\ AttachmentsTypeOK /\ AtHome => ServerTypeOK
  BY DEF ServerTypeOK, AtHome
<1>5. QED
  BY <1>1, <1>2, <1>3, <1>4, AtHomeStep, ServerFilesInv, ServerMigrationsInv, PTL
     DEF ServerSpec
=============================================================================
