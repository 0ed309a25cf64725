----------------------------- MODULE Migrations ------------------------------
(***************************************************************************)
(* How a server process brings the database to the schema it needs: it     *)
(* reads user_version once and applies what is newer, each migration in    *)
(* one transaction with its stamp.  Processes come and go; nothing keeps   *)
(* two of them from starting on one database.                              *)
(*                                                                         *)
(* A migration that creates a table or a column fails when it is applied   *)
(* again; the Repeatable ones do not (IF NOT EXISTS, UPDATE, and a table   *)
(* rebuilt, which loses the columns that later migrations gave it).  What  *)
(* they do to the rows is left out.                                        *)
(*                                                                         *)
(* FromTheFirst is a slip that the properties must notice; nothing uses    *)
(* it.                                                                     *)
(***************************************************************************)
EXTENDS Naturals

CONSTANTS
  Process,      \* server processes
  Latest,       \* the version of the last migration; they are numbered from 1
  Repeatable    \* the migrations whose SQL can be applied twice

ASSUME MigrationsAssumption == Latest \in Nat /\ Repeatable \subseteq 1..Latest

VARIABLES
  version,      \* PRAGMA user_version
  applied,      \* how often each migration has been applied
  proc,         \* what each process is doing; when starting, its next migration
  overlap       \* history: two processes have been starting at once

schemaVars == <<version, applied, proc, overlap>>

Times == {"never", "once", "again"}
OnceMore(times) == IF times = "never" THEN "once" ELSE "again"

Off == [at |-> "off"]
Serving == [at |-> "serving"]
Starting == {p \in Process : proc[p].at = "starting"}

MigrationsInit ==
  /\ version = 0
  /\ applied = [v \in 1..Latest |-> "never"]
  /\ proc = [p \in Process |-> Off]
  /\ overlap = FALSE

\* A slip: nothing is skipped.
FromTheFirst == 1

\* Migrations up to user_version are skipped.
FirstPending == version + 1

\* applyMigrations reads user_version, once.
Start(p) ==
  /\ proc[p] = Off
  /\ proc' = [proc EXCEPT ![p] = [at |-> "starting", next |-> FirstPending]]
  /\ overlap' = (overlap \/ Starting # {})
  /\ UNCHANGED <<version, applied>>

\* The SQL of a migration and its stamp are committed together.
Applied(v) ==
  /\ applied' = [applied EXCEPT ![v] = OnceMore(@)]
  /\ version' = v

\* applyOneMigration; an error ends the process.
ApplyOneMigration(p) ==
  /\ proc[p].at = "starting"
  /\ LET v == proc[p].next IN
     /\ v \in 1..Latest
     /\ applied[v] = "never" \/ v \in Repeatable
     /\ Applied(v)
     /\ proc' = [proc EXCEPT ![p].next = v + 1]
  /\ UNCHANGED overlap

\* The process serves requests when nothing is left to apply.
Serve(p) ==
  /\ proc[p].at = "starting" /\ proc[p].next > Latest
  /\ proc' = [proc EXCEPT ![p] = Serving]
  /\ UNCHANGED <<version, applied, overlap>>

\* A migration that fails, a signal or a crash; an open transaction is rolled back.
Exit(p) ==
  /\ proc[p] # Off
  /\ proc' = [proc EXCEPT ![p] = Off]
  /\ UNCHANGED <<version, applied, overlap>>

StartupStep(p) == Start(p) \/ ApplyOneMigration(p) \/ Serve(p)

MigrationsNext == \E p \in Process : StartupStep(p) \/ Exit(p)

MigrationsSpec == MigrationsInit /\ [][MigrationsNext]_schemaVars

-----------------------------------------------------------------------------

\* The stamp and the processes keep their types.
MigrationsTypeOK ==
  /\ version \in 0..Latest
  /\ applied \in [1..Latest -> Times]
  /\ proc \in [Process -> {Off, Serving} \cup [at: {"starting"}, next: 1..Latest+1]]
  /\ overlap \in BOOLEAN

\* "each migration run exactly once per database": wherever processes were stopped and
\* started, the stamp tells exactly what has been applied, and requests are served on a
\* database that has it all, as long as no two processes start at once.
EachMigrationOnce ==
  ~overlap =>
    /\ applied = [v \in 1..Latest |-> IF v <= version THEN "once" ELSE "never"]
    /\ \A p \in Process : proc[p] = Serving => version = Latest
=============================================================================
