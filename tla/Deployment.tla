------------------------------ MODULE Deployment ------------------------------
(***************************************************************************)
(* Deploying a release, rolling it back and restoring the database from a  *)
(* backup, as the operator's scripts do it while the site may be in use:   *)
(* deploy-with-rollback.ps1, which calls gms-production-restore.ps1, and   *)
(* the maintenance file by which they have the backend refuse writes.      *)
(* Each step of a script is an action and may fail; a script may be killed *)
(* between any two.  One operator runs one script at a time.               *)
(***************************************************************************)
EXTENDS Naturals

CONSTANTS
    Writes,       \* requests that write a row and its file
    MaxRuns,      \* scripts the operator starts
    MaxFaults     \* steps that fail, and kills

ASSUME BoundsAssumption == MaxRuns \in Nat /\ MaxFaults \in Nat

VARIABLES
    db,           \* the live database
    files,        \* the rows whose files are in the uploads directory
    app,          \* the release whose containers are up
    frozen,       \* is there a file maintenance/active?
    req,          \* what each write has come to
    backup,       \* the pre-deployment backup, a database
    safety,       \* the last pre-restore dump, a database
    kept,         \* the rows of all pre-restore dumps, which stay on the host
    held,         \* the rows there were whenever a script froze the site
    run,          \* the script that runs or was the last to run
    runs, faults

vars == <<db, files, app, frozen, req, backup, safety, kept, held, run, runs, faults>>

(* A database: the release its schema is of, or "partial" when a migration *)
(* stopped half way, or "none" when the schema is dropped; its rows; and   *)
(* whether its GMS_RESTORE_ALLOWED says TRUE.                              *)
Database == [schema : {"old", "new", "partial", "none"},
             rows   : SUBSET Writes,
             allowed: BOOLEAN]
Dropped  == [schema |-> "none", rows |-> {}, allowed |-> FALSE]
Usable(d) == d.schema # "none"

Phases == {"idle",
           "preflight", "backup", "audit", "migrate", "up", "watch",
           "freeze",
           "check", "dump", "drop", "load", "swap", "verify",
           "undo", "reload", "unswap",
           "boot", "confirm"}

(* A run: its script; where it is; whether it is to restore the database,  *)
(* and into an empty one; what the restore has done (the uploads it has    *)
(* set aside, whether it succeeded, whether undoing it failed, which it    *)
(* logs as a CRITICAL ROLLBACK ERROR); the rows, files and schema when it  *)
(* froze the site; its exit code, "none" while it runs or when killed.     *)
Run == [script    : {"none", "deploy", "rollback", "restore"},
        at        : Phases,
        manifest  : BOOLEAN,
        initialize: BOOLEAN,
        aside     : SUBSET Writes,
        swapped   : BOOLEAN,
        restored  : BOOLEAN,
        critical  : BOOLEAN,
        froze     : BOOLEAN,
        before    : [schema: {"old", "new", "partial", "none"},
                     rows: SUBSET Writes, files: SUBSET Writes],
        exit      : {"none", "0", "1", "2"}]

NewRun(script, at, manifest) ==
    [script |-> script, at |-> at, manifest |-> manifest,
     initialize |-> script = "restore" /\ ~Usable(db),
     aside |-> {}, swapped |-> FALSE, restored |-> FALSE, critical |-> FALSE,
     froze |-> FALSE, before |-> [schema |-> "none", rows |-> {}, files |-> {}],
     exit |-> "none"]

TypeOK ==
    /\ db \in Database /\ backup \in Database /\ safety \in Database
    /\ Usable(db) \/ db = Dropped
    /\ files \subseteq Writes /\ kept \subseteq Writes /\ held \subseteq Writes
    /\ app \in {"old", "new"}
    /\ frozen \in BOOLEAN
    /\ req \in [Writes -> {"idle", "admitted", "acked", "refused"}]
    /\ run \in Run
    /\ runs \in 0 .. MaxRuns
    /\ faults \in 0 .. MaxFaults

Init ==
    /\ db = [schema |-> "old", rows |-> {}, allowed |-> FALSE]
    /\ files = {} /\ kept = {} /\ held = {}
    /\ app = "old"
    /\ frozen = FALSE
    /\ req = [w \in Writes |-> "idle"]
    /\ backup = Dropped /\ safety = Dropped
    /\ run = NewRun("none", "idle", FALSE)
    /\ runs = 0 /\ faults = 0

-----------------------------------------------------------------------------
(* The site.  The maintenance file is looked for when a request comes, and *)
(* not again when it writes.                                               *)

Admit(w) ==
    /\ req[w] = "idle" /\ ~frozen
    /\ req' = [req EXCEPT ![w] = "admitted"]
    /\ UNCHANGED <<db, files, app, frozen, backup, safety, kept, held, run, runs, faults>>

Commit(w) ==
    /\ req[w] = "admitted" /\ Usable(db)
    /\ db' = [db EXCEPT !.rows = @ \cup {w}]
    /\ files' = files \cup {w}
    /\ req' = [req EXCEPT ![w] = "acked"]
    /\ UNCHANGED <<app, frozen, backup, safety, kept, held, run, runs, faults>>

Refused(w) ==
    /\ req[w] = "admitted"
    /\ req' = [req EXCEPT ![w] = "refused"]
    /\ UNCHANGED <<db, files, app, frozen, backup, safety, kept, held, run, runs, faults>>

(* A database's own word that it may be replaced, which nobody but the     *)
(* operator gives.                                                         *)
AllowRestore ==
    /\ Usable(db) /\ ~db.allowed
    /\ db' = [db EXCEPT !.allowed = TRUE]
    /\ UNCHANGED <<files, app, frozen, req, backup, safety, kept, held, run, runs, faults>>

-----------------------------------------------------------------------------
(* The operator.  A release is deployed on a site in order.  What          *)
(* -NoSchemaChangeVerified confirms is so.                                 *)

InOrder == ~frozen /\ app = "old" /\ db.schema = "old"

Begin(script, at, manifest) ==
    /\ run.at = "idle" /\ runs < MaxRuns
    /\ run' = NewRun(script, at, manifest)
    /\ runs' = runs + 1
    /\ UNCHANGED <<db, files, app, frozen, req, backup, safety, kept, held, faults>>

BeginDeploy   == InOrder /\ Begin("deploy", "preflight", FALSE)
BeginRollback == \/ Usable(backup) /\ Begin("rollback", "freeze", TRUE)
                 \/ db.schema = "old" /\ Begin("rollback", "freeze", FALSE)
BeginRestore  == Usable(backup) /\ Begin("restore", "freeze", TRUE)

-----------------------------------------------------------------------------
(* Steps of a script. *)

Goes(at)  == run' = [run EXCEPT !.at = at]
Exits(code) == run' = [run EXCEPT !.at = "idle", !.exit = code]
Fault     == faults < MaxFaults /\ faults' = faults + 1
NoFault   == UNCHANGED faults

(* deploy-with-rollback.ps1 up to its exit 0.  Whatever fails leads to the *)
(* rollback, which restores the database if there is a backup to restore.  *)

Preflight ==
    /\ run.at = "preflight"
    /\ \/ NoFault /\ Goes("backup")
       \/ Fault /\ Goes("freeze")
    /\ UNCHANGED <<db, files, app, frozen, req, backup, safety, kept, held, runs>>

(* Only a verified backup is taken for one: its rows have their files. *)
Backup ==
    /\ run.at = "backup" /\ NoFault
    /\ db.rows \subseteq files
    /\ backup' = db
    /\ run' = [run EXCEPT !.at = "audit", !.manifest = TRUE]
    /\ UNCHANGED <<db, files, app, frozen, req, safety, kept, held, runs>>

BackupFails ==
    /\ run.at = "backup"
    /\ \/ Fault
       \/ NoFault /\ ~(db.rows \subseteq files)
    /\ Goes("freeze")
    /\ UNCHANGED <<db, files, app, frozen, req, backup, safety, kept, held, runs>>

Audit ==
    /\ run.at = "audit"
    /\ \/ NoFault /\ Goes("migrate")
       \/ Fault /\ Goes("freeze")
    /\ UNCHANGED <<db, files, app, frozen, req, backup, safety, kept, held, runs>>

Migrate ==
    /\ run.at = "migrate"
    /\ \/ NoFault /\ Goes("up") /\ db' = [db EXCEPT !.schema = "new"]
       \/ /\ Fault /\ Goes("freeze")
          /\ \E s \in {"old", "partial", "new"} : db' = [db EXCEPT !.schema = s]
    /\ UNCHANGED <<files, app, frozen, req, backup, safety, kept, held, runs>>

Up ==
    /\ run.at = "up"
    /\ \/ NoFault /\ Goes("watch") /\ app' = "new"
       \/ Fault /\ Goes("freeze") /\ app' \in {app, "new"}
    /\ UNCHANGED <<db, files, frozen, req, backup, safety, kept, held, runs>>

Watch ==
    /\ run.at = "watch"
    /\ \/ NoFault /\ Exits("0")
       \/ Fault /\ Goes("freeze")
    /\ UNCHANGED <<db, files, app, frozen, req, backup, safety, kept, held, runs>>

(* The maintenance file of Execute-Rollback, or of a restore of its own.   *)
RestoresByHand(r) == r.script = "restore"
Restores(r) == r.script = "restore" \/ r.manifest

Freeze ==
    /\ run.at = "freeze" /\ NoFault
    /\ frozen' = TRUE
    /\ held' = held \cup db.rows
    /\ run' = [run EXCEPT !.at = IF Restores(run) THEN "check" ELSE "boot",
                          !.froze = TRUE,
                          !.before = [schema |-> db.schema, rows |-> db.rows,
                                      files |-> files]]
    /\ UNCHANGED <<db, files, app, req, backup, safety, kept, runs>>

(* Without the digests of the previous images a rollback does not begin,   *)
(* and without a backup whose checksums are right neither does a restore.  *)
FailureCode(r) == IF r.script = "restore" THEN "1" ELSE "2"

NotBegun ==
    /\ run.at = "freeze"
    /\ Fault /\ Exits(FailureCode(run))
    /\ UNCHANGED <<db, files, app, frozen, req, backup, safety, kept, held, runs>>

-----------------------------------------------------------------------------
(* gms-production-restore.ps1.  Its end: on success alone the maintenance  *)
(* file goes; the permission to restore does whenever the live database    *)
(* was reached.                                                            *)

NeverFrozen(succeeded) == FALSE
StaysFrozen(succeeded) == frozen /\ ~succeeded
Permitted(d) == [d EXCEPT !.allowed = TRUE]
Forbidden(d) == [d EXCEPT !.allowed = FALSE]

RestoreFailed(r) ==
    /\ frozen' = StaysFrozen(FALSE)
    /\ run' = [r EXCEPT !.at = "idle", !.exit = FailureCode(r)]

(* Checks in a staging database, then the guard of the live one. *)
MayReplace ==
    IF run.initialize THEN ~Usable(db) ELSE Usable(db) /\ db.allowed

Check ==
    /\ run.at = "check" /\ NoFault
    /\ \/ MayReplace /\ Goes("dump") /\ UNCHANGED <<db, frozen>>
       \/ ~MayReplace /\ RestoreFailed(run) /\ db' = Forbidden(db)
    /\ UNCHANGED <<files, app, req, backup, safety, kept, held, runs>>

StagingFails ==
    /\ run.at = "check" /\ Fault /\ RestoreFailed(run)
    /\ db' \in {db, Forbidden(db)}
    /\ UNCHANGED <<files, app, req, backup, safety, kept, held, runs>>

SafetyDump ==
    /\ run.at = "dump" /\ NoFault
    /\ safety' = db
    /\ kept' = kept \cup db.rows
    /\ Goes("drop")
    /\ UNCHANGED <<db, files, app, frozen, req, backup, held, runs>>

DumpFailureIgnored ==
    /\ run.at = "dump" /\ Fault /\ Goes("drop")
    /\ UNCHANGED <<db, files, app, frozen, req, backup, safety, kept, held, runs>>
DumpFails ==
    /\ run.at = "dump" /\ Fault /\ RestoreFailed(run)
    /\ db' = Forbidden(db)
    /\ UNCHANGED <<files, app, req, backup, safety, kept, held, runs>>

(* From here on a failure is compensated. *)
UploadsOnly == "unswap"
Compensation == "undo"

(* DROP SCHEMA and CREATE SCHEMA are one transaction.  Its exit code is    *)
(* not looked at: where it has failed, pg_restore, one transaction too,    *)
(* finds the tables there and fails.                                       *)
Drop ==
    /\ run.at = "drop"
    /\ \/ NoFault /\ Goes("load") /\ db' = Dropped
       \/ Fault /\ Goes(Compensation) /\ UNCHANGED db
    /\ UNCHANGED <<files, app, frozen, req, backup, safety, kept, held, runs>>

Load ==
    /\ run.at = "load"
    /\ \/ NoFault /\ Goes("swap") /\ db' = backup
       \/ Fault /\ Goes(Compensation) /\ UNCHANGED db
    /\ UNCHANGED <<files, app, frozen, req, backup, safety, kept, held, runs>>

(* Two renames: the uploads aside, the staged ones into their place. *)
Swap ==
    /\ run.at = "swap"
    /\ \/ /\ NoFault
          /\ files' = backup.rows
          /\ run' = [run EXCEPT !.at = "verify", !.aside = files, !.swapped = TRUE]
       \/ /\ Fault
          /\ \/ Goes(Compensation) /\ UNCHANGED files
             \/ /\ files' = {}
                /\ run' = [run EXCEPT !.at = Compensation, !.aside = files,
                                      !.swapped = TRUE]
    /\ UNCHANGED <<db, app, frozen, req, backup, safety, kept, held, runs>>

(* The live tables are counted against the manifest. *)
CountsMatch == db.rows = backup.rows

Verify ==
    /\ run.at = "verify" /\ NoFault
    /\ CountsMatch
    /\ frozen' = StaysFrozen(TRUE)
    /\ db' = Forbidden(db)
    /\ run' = IF run.script = "restore"
              THEN [run EXCEPT !.at = "idle", !.exit = "0", !.restored = TRUE]
              ELSE [run EXCEPT !.at = "boot", !.restored = TRUE]
    /\ UNCHANGED <<files, app, req, backup, safety, kept, held, runs>>

VerifyFails ==
    /\ run.at = "verify"
    /\ \/ Fault
       \/ NoFault /\ ~CountsMatch
    /\ Goes(Compensation)
    /\ UNCHANGED <<db, files, app, frozen, req, backup, safety, kept, held, runs>>

(* The compensation: the safety dump in place of the database, the uploads *)
(* set aside back into their place.  Neither waits for the other.          *)
Undo ==
    /\ run.at = "undo"
    /\ \/ NoFault /\ Goes("reload") /\ db' = Dropped
       \/ /\ Fault /\ UNCHANGED db
          /\ run' = [run EXCEPT !.at = "unswap", !.critical = TRUE]
    /\ UNCHANGED <<files, app, frozen, req, backup, safety, kept, held, runs>>

Reload ==
    /\ run.at = "reload"
    /\ \/ NoFault /\ Goes("unswap") /\ db' = safety
       \/ /\ Fault /\ UNCHANGED db
          /\ run' = [run EXCEPT !.at = "unswap", !.critical = TRUE]
    /\ UNCHANGED <<files, app, frozen, req, backup, safety, kept, held, runs>>

Unswap ==
    /\ run.at = "unswap"
    /\ db' = Forbidden(db)
    /\ \/ /\ NoFault
          /\ files' = IF run.swapped THEN run.aside ELSE files
          /\ RestoreFailed(run)
       \/ /\ run.swapped /\ Fault
          /\ files' \in {files, {}}
          /\ RestoreFailed([run EXCEPT !.critical = TRUE])
    /\ UNCHANGED <<app, req, backup, safety, kept, held, runs>>

-----------------------------------------------------------------------------
(* The rest of Execute-Rollback: the previous containers, the watchdog,    *)
(* and its own removal of the maintenance file.                            *)

Boot ==
    /\ run.at = "boot"
    /\ \/ NoFault /\ Goes("confirm") /\ app' = "old"
       \/ Fault /\ Exits("2") /\ app' \in {app, "old"}
    /\ UNCHANGED <<db, files, frozen, req, backup, safety, kept, held, runs>>

Confirm ==
    /\ run.at = "confirm"
    /\ \/ /\ NoFault
          /\ frozen' = FALSE
          /\ Exits(IF run.script = "deploy" THEN "1" ELSE "0")
       \/ Fault /\ Exits("2") /\ UNCHANGED frozen
    /\ UNCHANGED <<db, files, app, req, backup, safety, kept, held, runs>>

(* The host or the operator ends the script; no finally clause runs. *)
Kill ==
    /\ run.at # "idle" /\ Fault /\ Goes("idle")
    /\ UNCHANGED <<db, files, app, frozen, req, backup, safety, kept, held, runs>>

-----------------------------------------------------------------------------
Site     == \E w \in Writes : Admit(w) \/ Commit(w) \/ Refused(w)
Operator == AllowRestore \/ BeginDeploy \/ BeginRollback \/ BeginRestore
Deploy   == \/ Preflight \/ Backup \/ BackupFails \/ Audit \/ Migrate \/ Up \/ Watch
Restore  == \/ Check \/ StagingFails \/ SafetyDump \/ DumpFails \/ Drop \/ Load
            \/ Swap \/ Verify \/ VerifyFails \/ Undo \/ Reload \/ Unswap
Rollback == Freeze \/ NotBegun \/ Boot \/ Confirm

Next == \/ Site
        \/ Operator
        \/ Deploy \/ Restore \/ Rollback \/ Kill

Spec == Init /\ [][Next]_vars

-----------------------------------------------------------------------------
(* Properties. *)

Idle == run.at = "idle"

(* While the schema is dropped, no write is let in: every way to drop it   *)
(* goes through a freeze, and none ends it but a restore that put a whole  *)
(* database back (gms-production-restore.ps1:671-683).                     *)
ServedDatabaseIsWhole == ~Usable(db) => frozen

(* A write that was acknowledged before a script froze the site is in the  *)
(* database or in a dump that stays on the host, through any number of     *)
(* rollbacks, failures and kills: a rollback does throw away what came     *)
(* after the backup, but not without a trace (:414-425).                   *)
NothingLostWithoutTrace == held \subseteq db.rows \cup kept

(* What the exit code of a deployment or rollback tells the operator.  0   *)
(* of a deployment: the release is up on its schema.  1, and 0 of a        *)
(* rollback: the previous release is up on its schema, open for writes,    *)
(* and after a restore with the files of its rows.  2 of a rollback that   *)
(* had begun: the site is frozen, unless the restore itself succeeded,     *)
(* which removes the file before the containers are changed.               *)
ExitCodesTell ==
    Idle =>
    /\ <<run.script, run.exit>> = <<"deploy", "0">> =>
          app = "new" /\ db.schema = "new" /\ ~frozen
    /\ <<run.script, run.exit>> \in {<<"deploy", "1">>, <<"rollback", "0">>} =>
          /\ app = "old" /\ db.schema = "old" /\ ~frozen
          /\ run.restored => db.rows \subseteq files
    /\ run.exit = "2" /\ run.froze /\ ~run.restored => frozen

(* "Phase 2 PASS = (Operator Exit Code # 0) /\ (DB Fingerprint Restored    *)
(* 100%) /\ (Uploads Restored 100%) /\ (Maintenance Flag Remains Active)"  *)
(* (walkthrough.md:18): a restore that failed, and did not log a CRITICAL  *)
(* ROLLBACK ERROR, has left the schema, every row and every file there was *)
(* when the site was frozen, and the site frozen.                          *)
FailedRestoreIsUndone ==
    (Idle /\ run.exit \in {"1", "2"} /\ run.froze /\ Restores(run)
          /\ ~run.restored /\ ~run.critical) =>
    /\ run.script = "deploy" => run.exit = "2"
    /\ frozen
    /\ db.schema = run.before.schema
    /\ run.before.rows \subseteq db.rows
    /\ run.before.files \subseteq files
===============================================================================
