----------------------------- MODULE Deployment -----------------------------
(* The life of a container of the application (docker/entrypoint.sh): it      *)
(* migrates the database, with a backup before and some attempts, loads the   *)
(* initial data into an empty database, serves, is backed up by cron, and is  *)
(* restored from a backup.  One container runs at a time.  The database       *)
(* service, outside the container, may be out of reach for a moment: any      *)
(* command that talks to it may fail (MaxFailures bounds how often).            *)
EXTENDS Naturals, FiniteSets

CONSTANTS
  Attempts,       \* MIGRATE_MAX_RETRIES
  BackupFirst,    \* BACKUP_BEFORE_MIGRATE
  BackupRequired, \* BACKUP_BEFORE_MIGRATE_REQUIRED
  Volume,         \* /app/backups outlives the container
  KeepDays,       \* LOCAL_RETENTION_DAYS
  LastRelease,    \* bounds of the model: migrations there will ever be,
  LastEntry,      \* entries of users,
  LastDate,       \* days,
  MaxDumps,       \* backups kept,
  MaxFailures       \* failures

ASSUME DeploymentAssumption ==
  /\ {Attempts, LastRelease, LastEntry} \subseteq Nat \ {0}
  /\ {BackupFirst, BackupRequired, Volume} \subseteq BOOLEAN
  /\ {KeepDays, LastDate, MaxDumps, MaxFailures} \subseteq Nat

VARIABLES
  db,         \* what the database holds
  dumps,      \* the backups on the disk and in R2
  stage,      \* where entrypoint.sh is
  attempt,    \* the attempt of migrate that is running
  release,    \* the last migration the container's code knows
  loaded,     \* /app/.data_loaded exists in the container
  date, troubles
deployVars == <<db, dumps, stage, attempt, release, loaded, date, troubles>>

\* entries: 0 in a database without branches, employees and roles, 1 with the
\* initial data, more with every entry of a user.  applied: the migrations
\* recorded as applied.  tables: those whose tables are there.
Databases == [entries : 0..LastEntry, applied : 0..LastRelease,
              tables : SUBSET (1..LastRelease)]
Dumps == [place : {"disk", "r2"}, whole : BOOLEAN, day : 0..LastDate, of : Databases]

Fresh == [entries |-> 0, applied |-> 0, tables |-> {}]
DeployInit ==
  /\ db = Fresh /\ dumps = {} /\ date = 0 /\ troubles = 0
  /\ stage = "migrate" /\ attempt = 1 /\ loaded = FALSE /\ release \in 1..LastRelease

Fault == troubles < MaxFailures /\ troubles' = troubles + 1
NoFault == UNCHANGED troubles

(* backup_db: what a command leaves in dumps.  pg_dump goes to the disk, then *)
(* to R2 when it is asked to and can; a command without pg_dump leaves an     *)
(* empty file, a failing pg_dump none.                                        *)
Dump(place, whole) == [place |-> place, whole |-> whole, day |-> date, of |-> db]
Recent == {d \in dumps : d.place = "r2" \/ d.day + KeepDays >= date}
Copied(kept, upload) ==
  kept \cup {Dump("disk", TRUE)} \cup (IF upload THEN {Dump("r2", TRUE)} ELSE {})
Fits(new) == Cardinality(new) <= MaxDumps

-----------------------------------------------------------------------------
Behind == db.applied < release

\* A backup at the first attempt only (a mutant of NeedsBackup).
Mutant_NeedsBackup == BackupFirst /\ Behind /\ attempt = 1
NeedsBackup == BackupFirst /\ Behind

(* run_pre_migration_backup_if_needed, the first half of an attempt.  A copy  *)
(* that cannot be uploaded is a partial success; a failure stops the attempt  *)
(* only where a backup is required.                                           *)
BackupBeforeMigrate ==
  /\ stage = "migrate"
  /\ UNCHANGED <<db, attempt, release, loaded, date>>
  /\ \/ /\ ~NeedsBackup
        /\ NoFault /\ UNCHANGED dumps /\ stage' = "apply"
     \/ /\ NeedsBackup
        /\ \E uploaded \in BOOLEAN :
             /\ IF uploaded THEN NoFault ELSE Fault
             /\ dumps' = Copied(dumps, uploaded)
        /\ stage' = "apply"
     \/ /\ BackupFirst /\ Fault
        /\ dumps' \in {dumps, dumps \cup {Dump("disk", FALSE)}}
        /\ stage' = IF BackupRequired THEN "failed" ELSE "apply"
  /\ Fits(dumps')

(* The migrations, each in a transaction of its own.  One whose table is      *)
(* there already fails.                                                       *)
UpTo(m) == [db EXCEPT !.applied = m, !.tables = @ \cup (db.applied + 1)..m]
Possible(m) == (db.applied + 1)..m \cap db.tables = {}
ApplyMigrations ==
  /\ stage = "apply"
  /\ \/ /\ NoFault /\ Possible(release)
        /\ db' = UpTo(release) /\ stage' = "settings"
     \/ /\ \E m \in db.applied..release :
             /\ Possible(m) /\ db' = UpTo(m)
             /\ IF m < release /\ ~Possible(m + 1) THEN NoFault ELSE Fault
        /\ stage' = "failed"
  /\ UNCHANGED <<dumps, attempt, release, loaded, date>>

(* The loop of entrypoint.sh: after the last attempt the container stops.     *)
NextAttempt ==
  /\ stage = "failed"
  /\ IF attempt < Attempts
       THEN stage' = "migrate" /\ attempt' = attempt + 1
       ELSE stage' = "stopped" /\ UNCHANGED attempt
  /\ UNCHANGED <<db, dumps, release, loaded, date, troubles>>

(* ensure_operations_report_settings, ensure_workflow_whatsapp_settings and   *)
(* check_attendance_production --deploy: the start goes on or stops.          *)
CheckSettings ==
  /\ stage = "settings"
  /\ \/ NoFault /\ stage' = "data"
     \/ Fault /\ stage' = "stopped"
  /\ UNCHANGED <<db, dumps, attempt, release, loaded, date>>

-----------------------------------------------------------------------------
(* HAS_DATA: whether a branch, an employee or a role is there.               *)
HasData == db.entries > 0

(* import_initial_data --flush empties the database at once and loads the     *)
(* fixture in one transaction; the marker is written at the end.              *)
Imported ==
  \/ NoFault /\ db' = [db EXCEPT !.entries = 1] /\ loaded' = TRUE
  \/ Fault /\ db' \in {db, [db EXCEPT !.entries = 0]} /\ UNCHANGED loaded

(* A look at the database that fails prints NO: the last alternative.        *)
InitialData ==
  /\ stage = "data" /\ stage' = "up"
  /\ \/ loaded /\ NoFault /\ UNCHANGED <<db, loaded>>
     \/ ~loaded /\ HasData /\ NoFault /\ loaded' = TRUE /\ UNCHANGED db
     \/ ~loaded /\ ~HasData /\ Imported
     \/ ~loaded /\ HasData /\ Fault /\ loaded' = TRUE /\ db' = [db EXCEPT !.entries = 1]
  /\ UNCHANGED <<dumps, attempt, release, date>>

(* A user's entry, and the new role or branch that makes a database non-empty. *)
Enter ==
  /\ stage = "up" /\ db.entries < LastEntry
  /\ db' = [db EXCEPT !.entries = @ + 1]
  /\ UNCHANGED <<dumps, stage, attempt, release, loaded, date, troubles>>

(* backup_db by cron (whose environment has no keys of R2) with --cleanup, or *)
(* by hand.  Old copies on the disk go when the new one is there.             *)
DailyBackup ==
  /\ stage = "up"
  /\ \/ NoFault /\ dumps' = Copied(dumps, FALSE) \cap (Recent \cup {Dump("disk", TRUE)})
     \/ Fault /\ dumps' \in {dumps, dumps \cup {Dump("disk", FALSE)}}
  /\ Fits(dumps')
  /\ UNCHANGED <<db, stage, attempt, release, loaded, date>>
BackupByHand ==
  /\ stage = "up" /\ NoFault
  /\ \E upload \in BOOLEAN : dumps' = Copied(dumps, upload)
  /\ Fits(dumps')
  /\ UNCHANGED <<db, stage, attempt, release, loaded, date>>

(* restore_db.  The dump drops and creates the tables it knows and no other;  *)
(* psql does it in one transaction, which fails when a later table refers to  *)
(* one of them.  An empty file changes nothing, and is called a success.      *)
Restore ==
  /\ stage \in {"up", "stopped"}
  /\ \E d \in dumps :
       \/ d.whole /\ db' = [d.of EXCEPT !.tables = @ \cup db.tables]
       \/ UNCHANGED db
  /\ NoFault /\ UNCHANGED <<dumps, stage, attempt, release, loaded, date>>

(* A container starts again, or a new one takes its place, of the same or a   *)
(* later image: without the marker, and without the disk's copies where they  *)
(* are not on a volume.                                                       *)
Begin == stage \in {"up", "stopped"} /\ stage' = "migrate" /\ attempt' = 1
Restart == Begin /\ UNCHANGED <<db, dumps, release, loaded, date, troubles>>
Deploy ==
  /\ Begin /\ release' \in release..LastRelease /\ loaded' = FALSE
  /\ dumps' = IF Volume THEN dumps ELSE {d \in dumps : d.place = "r2"}
  /\ UNCHANGED <<db, date, troubles>>
PassDay ==
  /\ date < LastDate /\ date' = date + 1
  /\ UNCHANGED <<db, dumps, stage, attempt, release, loaded, troubles>>

DeployNext ==
  \/ BackupBeforeMigrate \/ ApplyMigrations \/ NextAttempt \/ CheckSettings
  \/ InitialData \/ Enter \/ DailyBackup \/ BackupByHand \/ Restore
  \/ Restart \/ Deploy \/ PassDay
DeploySpec == DeployInit /\ [][DeployNext]_deployVars

-----------------------------------------------------------------------------
DeployTypeOK ==
  /\ db \in Databases /\ dumps \subseteq Dumps /\ date \in 0..LastDate
  /\ stage \in {"migrate", "apply", "failed", "settings", "data", "up", "stopped"}
  /\ attempt \in 1..Attempts /\ release \in 1..LastRelease /\ loaded \in BOOLEAN
  /\ troubles \in 0..MaxFailures

(* Where a backup is required, a migration that changes the database leaves   *)
(* a whole copy of what it was, schema and rows, whatever failed before it,   *)
(* at whichever attempt, and after a restore as well.                         *)
MigrationIsRecoverable ==
  [][(BackupFirst /\ BackupRequired /\ db'.applied > db.applied /\ stage = "apply")
       => \E d \in dumps' : d.whole /\ d.of = db]_deployVars

(* No start of a container empties a database with rows (entrypoint.sh: "never *)
(* flushes if the DB already contains user data, even if the marker file is    *)
(* missing").  Fails: a look that cannot reach the database counts as empty.   *)
NeverFlushed == [][stage = "data" => db'.entries >= db.entries]_deployVars

(* A restored database is the one that was copied (restore_db.py: it replaces *)
(* the current database entirely).  Fails: tables of later migrations stay,   *)
(* and the next migrate fails on them at every attempt.                       *)
RestoredWhole == db.tables = 1..db.applied
=============================================================================
