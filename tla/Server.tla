------------------------------- MODULE Server --------------------------------
(***************************************************************************)
(* A server process migrates the database, serves requests, and stops in   *)
(* the middle of anything; a request belongs to the process that serves    *)
(* it, and what it has written stays.                                      *)
(***************************************************************************)
EXTENDS Migrations, Attachments

CONSTANT Home     \* the process that each caller belongs to

ASSUME ServerAssumption == Home \in [Caller -> Process]

serverVars == <<schemaVars, fileVars>>

ServerInit == MigrationsInit /\ AttachmentsInit

StartServer(p) == StartupStep(p) /\ UNCHANGED fileVars

StopServer(p) ==
  /\ Exit(p)
  /\ StopRequests({c \in Caller : Home[c] = p})

HandleRequest(c) ==
  /\ proc[Home[c]] = Serving
  /\ RequestStep(c)
  /\ UNCHANGED schemaVars

\* A handler that needs no second step.
HandleDeleteTask(p, t) ==
  /\ proc[p] = Serving
  /\ DeleteTask(t)
  /\ UNCHANGED schemaVars

ServerNext ==
  \/ \E p \in Process : StartServer(p) \/ StopServer(p)
  \/ \E c \in Caller : HandleRequest(c)
  \/ \E p \in Process, t \in Task : HandleDeleteTask(p, t)

ServerSpec == ServerInit /\ [][ServerNext]_serverVars

-----------------------------------------------------------------------------

\* The database, the files, the processes and the requests keep their types, and a
\* request belongs to a process that serves.
ServerTypeOK ==
  /\ MigrationsTypeOK /\ AttachmentsTypeOK
  /\ \A c \in Caller : Busy(c) => proc[Home[c]] = Serving
=============================================================================
