----------------------------- MODULE DataRecovery -----------------------------
(***************************************************************************)
(* AttachmentsService and DatabaseBackupService: what is stored twice, as  *)
(* a row of the database and a file of the upload directory, and the       *)
(* backups and restores that must keep the two together.  The process is   *)
(* single-threaded: a step here is what it does between two awaits.        *)
(*                                                                         *)
(* The database is the set of attachments it has a row of; the rest of it  *)
(* goes with them.  Left out: checksums, signatures and the administrator's *)
(* password, each of which only refuses a restore.                         *)
(***************************************************************************)
EXTENDS BackupRetention, Sequences, FiniteSets

CONSTANTS
    Attachments,    \* uploads ever requested
    Restorers,      \* restores in progress at the same time
    Kinds,          \* "server": from the server's own media; "portable": a bundle
    MaxBackups,     \* bound: backups ever made
    MaxDay,         \* bound: days that pass
    MaxFaults,      \* bound: operations that fail, crashes of the process included
    MaxLosses       \* bound: times that the disk or the database loses something

ASSUME RecoveryAssumption ==
    /\ Kinds \subseteq {"server", "portable"}
    /\ "scheduler" \notin Restorers
    /\ "no dump" \notin Attachments /\ "unreadable" \notin Attachments
    /\ MaxBackups \in Nat /\ MaxDay \in Nat /\ MaxFaults \in Nat /\ MaxLosses \in Nat

VARIABLES
    rows,       \* the attachments the database has a row of
    files,      \* those whose file is in its place
    upload,     \* per attachment, how far its upload is
    backups,    \* the backups ever made, oldest first
    job,        \* the backup the process is making
    restore,    \* per restorer, the restore it is at
    today,
    faults,
    losses

vars == <<rows, files, upload, backups, job, restore, today, faults, losses>>

NoDump == {"no dump"}

(* A file that cannot be read, or that the manifest names and nobody wrote. *)
Unreadable == {"unreadable"}

Backup ==
    [day : Nat, fetched : SUBSET Attachments,
     dump : (SUBSET Attachments) \cup {NoDump},
     archive : (SUBSET Attachments) \cup {Unreadable},
     verified : BOOLEAN, places : SUBSET {"local", "offsite", "fallback"}]

Job ==
    [stage : {"idle", "fetch", "dump", "archive", "log"},
     by : Restorers \cup {"scheduler"}, fetched : SUBSET Attachments,
     dump : (SUBSET Attachments) \cup {NoDump}, place : {"local", "fallback"}]

Restore ==
    [stage : {"idle", "safety", "replace", "promote", "undo"},
     outcome : {"none", "restored", "failed"}, kind : {"server", "portable"}, of : Nat,
     from : {"local", "offsite", "fallback"}, safety : Nat, committed : BOOLEAN,
     before : SUBSET Attachments]

Free == [stage |-> "idle", by |-> "scheduler", fetched |-> {}, dump |-> NoDump,
         place |-> "local"]

NoRestore == [stage |-> "idle", outcome |-> "none", kind |-> "server", of |-> 0,
              from |-> "local", safety |-> 0, committed |-> FALSE, before |-> {}]

Acknowledged == {a \in Attachments : upload[a] = "stored"}

OnDisk(i) == backups[i].places # {}

Init ==
    /\ rows = {} /\ files = {}
    /\ upload = [a \in Attachments |-> "new"]
    /\ backups = <<>>
    /\ job = Free
    /\ restore = [r \in Restorers |-> NoRestore]
    /\ today = 0 /\ faults = 0 /\ losses = 0

(* An operation fails. *)
Fault == faults < MaxFaults /\ faults' = faults + 1

-----------------------------------------------------------------------------
(* Uploads: the row is committed, then the file leaves quarantine. *)
Uploading(a, from, to) ==
    /\ upload[a] = from
    /\ upload' = [upload EXCEPT ![a] = to]
    /\ UNCHANGED <<backups, job, restore, today, losses>>

Record(a) ==
    /\ Uploading(a, "new", "recorded")
    /\ rows' = rows \cup {a}
    /\ UNCHANGED <<files, faults>>

StoreFile(a) ==
    /\ Uploading(a, "recorded", "stored")
    /\ files' = files \cup {a}
    /\ UNCHANGED <<rows, faults>>

StoreFails(a) ==
    /\ Uploading(a, "recorded", "undoing")
    /\ Fault
    /\ UNCHANGED <<rows, files>>

(* The compensating delete, which may fail in turn. *)
Undo(a) ==
    /\ Uploading(a, "undoing", "failed")
    /\ \/ rows' = rows \ {a} /\ UNCHANGED faults
       \/ Fault /\ UNCHANGED rows
    /\ UNCHANGED files

-----------------------------------------------------------------------------
(* Backups: one at a time, each on behalf of the scheduler or of a restore. *)
Starts(by) ==
    /\ job.stage = "idle"
    /\ Len(backups) < MaxBackups
    /\ job' = [Free EXCEPT !.stage = "fetch", !.by = by]
    /\ UNCHANGED <<rows, files, upload, backups, today, faults, losses>>

ScheduledBackup == Starts("scheduler") /\ UNCHANGED restore

(* The rows are read, and their snapshot is written, beside the uploads when the
   backup directory is not writable. *)
Fetch ==
    /\ job.stage = "fetch"
    /\ \/ job' = [job EXCEPT !.stage = "dump", !.fetched = rows] /\ UNCHANGED faults
       \/ job' = [job EXCEPT !.stage = "dump", !.fetched = rows, !.place = "fallback"] /\ Fault
    /\ UNCHANGED <<rows, files, upload, backups, restore, today, losses>>

Ended(outcome) == [NoRestore EXCEPT !.outcome = outcome]

(* runAutomatedScheduledBackup is left: whatever became of the backup, the next
   may start. *)
FlagKept == job' = [Free EXCEPT !.stage = "flagged"]
Released == job' = Free

(* No rows, or nowhere to write them to: the caller gets an error. *)
FetchFails ==
    /\ job.stage = "fetch"
    /\ Fault
    /\ Released
    /\ restore' = [r \in Restorers |->
                      IF r = job.by THEN Ended("failed") ELSE restore[r]]
    /\ UNCHANGED <<rows, files, upload, backups, today, losses>>

Dump ==
    /\ job.stage = "dump"
    /\ \/ job' = [job EXCEPT !.stage = "archive", !.dump = rows] /\ UNCHANGED faults
       \/ job' = [job EXCEPT !.stage = "archive"] /\ Fault
    /\ UNCHANGED <<rows, files, upload, backups, restore, today, losses>>

(* Every row that was fetched has its file on the disk, and so in the archive. *)
NotReconciled(fetched) == TRUE
Reconciled(fetched) == fetched \subseteq files

Stored(archive, verified, places) ==
    backups' = Append(backups, [day |-> today, fetched |-> job.fetched, dump |-> job.dump,
                                archive |-> archive, verified |-> verified,
                                places |-> places])

(* The files are archived and compared with the rows, and the artifacts copied to
   the offsite directory, without an await between.  An archive that fails is not
   there, or not even in the manifest. *)
Archive ==
    /\ job.stage = "archive"
    /\ LET verified == job.dump # NoDump /\ Reconciled(job.fetched)
           both == {job.place, "offsite"}
       IN  \/ Stored(files, verified, both) /\ UNCHANGED faults
           \/ Stored(files, verified, {job.place}) /\ Fault
           \/ (\E archive \in {{}, Unreadable} : Stored(archive, FALSE, both)) /\ Fault
    /\ job' = [job EXCEPT !.stage = "log"]
    /\ UNCHANGED <<rows, files, upload, restore, today, losses>>

(* cleanOldBackupsRetention: the directory beside the uploads is not cleaned. *)
Cleaned ==
    LET history == {i \in DOMAIN backups : OnDisk(i)}
        kept == Kept(history, [i \in DOMAIN backups |-> backups[i].day], today)
    IN  [i \in DOMAIN backups |->
            IF i \in kept THEN backups[i]
                          ELSE [backups[i] EXCEPT !.places = @ \cap {"fallback"}]]

(* An error puts the safety copy back, a portable restore's error whether or not
   anything had changed, if it lies where it is looked for. *)
PutsAnythingBack(kind, safety, committed) ==
    (committed \/ kind = "portable") /\ "local" \in backups[safety].places
NeverUndoes(kind, safety, committed) == FALSE
Undoes(kind, safety, committed) ==
    /\ committed \/ kind = "portable"
    /\ backups[safety].dump # NoDump
    /\ "local" \in backups[safety].places

Erred(re) ==
    IF Undoes(re.kind, re.safety, re.committed) THEN [re EXCEPT !.stage = "undo"]
                                                ELSE Ended("failed")

(* A restore has its safety copy, and goes no further unless it is verified. *)
Regardless(re) == [re EXCEPT !.stage = "replace"]
GoesOn(re) == IF backups[re.safety].verified THEN [re EXCEPT !.stage = "replace"] ELSE Erred(re)

Release ==
    /\ job.stage = "log"
    /\ backups' = Cleaned
    /\ restore' = [r \in Restorers |->
                      IF r = job.by THEN GoesOn([restore[r] EXCEPT !.safety = Len(backups)])
                                    ELSE restore[r]]
    /\ Released
    /\ UNCHANGED <<rows, files, upload, today, faults, losses>>

-----------------------------------------------------------------------------
(* Restores.  A bundle was exported while its backup was on the disk and needs
   nothing of the server's. *)
MayRestore(kind, i) ==
    /\ backups[i].dump # NoDump
    /\ kind = "server" => OnDisk(i) /\ backups[i].archive # Unreadable

(* Where the dump is looked for first. *)
Source(i) ==
    IF "local" \in backups[i].places THEN "local"
    ELSE IF "offsite" \in backups[i].places THEN "offsite" ELSE "fallback"

Begun(kind, i, before) ==
    [NoRestore EXCEPT !.stage = "safety", !.kind = kind, !.of = i,
                      !.from = IF kind = "server" THEN Source(i) ELSE "local",
                      !.before = before]

RestoreBegins(r, kind, i) ==
    /\ restore[r].stage = "idle"
    /\ MayRestore(kind, i)
    /\ Starts(r)
    /\ restore' = [restore EXCEPT ![r] = Begun(kind, i, rows \cap Acknowledged)]

(* The database becomes what a dump holds.  A row that another restore is there
   to protect is lost to that one as well. *)
Becomes(r, dump, new) ==
    /\ rows' = dump
    /\ restore' = [q \in Restorers |->
           IF q = r THEN new ELSE [restore[q] EXCEPT !.before = @ \cap dump]]

(* Retention has meanwhile deleted what is to be restored. *)
DumpGone(r) ==
    restore[r].kind = "server" /\ restore[r].from \notin backups[restore[r].of].places

Replace(r) ==
    /\ restore[r].stage = "replace"
    /\ ~DumpGone(r)
    /\ Becomes(r, backups[restore[r].of].dump,
               [restore[r] EXCEPT !.stage = "promote", !.committed = TRUE])
    /\ UNCHANGED <<files, upload, backups, job, today, faults, losses>>

Errs(r) == restore' = [restore EXCEPT ![r] = Erred(@)]

(* pg_restore fails, or its dump is no longer there. *)
ReplaceFails(r) ==
    /\ restore[r].stage = "replace"
    /\ IF DumpGone(r) THEN UNCHANGED faults ELSE Fault
    /\ Errs(r)
    /\ UNCHANGED <<rows, files, upload, backups, job, today, losses>>

Archived(i) == IF backups[i].archive = Unreadable THEN {} ELSE backups[i].archive

Promote(r) ==
    /\ restore[r].stage = "promote"
    /\ files' = files \cup Archived(restore[r].of)
    /\ restore' = [restore EXCEPT ![r] = Ended("restored")]
    /\ UNCHANGED <<rows, upload, backups, job, today, faults, losses>>

(* The files come back one by one, and an error comes before or after the last. *)
PromoteFails(r) ==
    /\ restore[r].stage = "promote"
    /\ \E some \in SUBSET Archived(restore[r].of) : files' = files \cup some
    /\ Fault
    /\ Errs(r)
    /\ UNCHANGED <<rows, upload, backups, job, today, losses>>

PutBack(r) ==
    /\ restore[r].stage = "undo"
    /\ \/ /\ Becomes(r, backups[restore[r].safety].dump, Ended("failed"))
          /\ UNCHANGED faults
       \/ /\ Fault
          /\ restore' = [restore EXCEPT ![r] = Ended("failed")]
          /\ UNCHANGED rows
    /\ UNCHANGED <<files, upload, backups, job, today, losses>>

-----------------------------------------------------------------------------
(* A day is long beside the minutes after which a backup or a restore is given up. *)
NextDay ==
    /\ today < MaxDay
    /\ job.stage = "idle" /\ \A r \in Restorers : restore[r].stage = "idle"
    /\ today' = today + 1
    /\ UNCHANGED <<rows, files, upload, backups, job, restore, faults, losses>>

(* The process stops.  It remembers nothing; an upload that had not been answered
   never will be. *)
Crash ==
    /\ Fault
    /\ job' = Free
    /\ restore' = [r \in Restorers |-> NoRestore]
    /\ upload' = [a \in Attachments |->
                     IF upload[a] \in {"recorded", "undoing"} THEN "failed" ELSE upload[a]]
    /\ UNCHANGED <<rows, files, backups, today, losses>>

(* What backups are there for: files disappear, or the database does. *)
Loss ==
    /\ losses < MaxLosses
    /\ losses' = losses + 1
    /\ \/ (\E lost \in SUBSET files : lost # {} /\ files' = files \ lost) /\ UNCHANGED <<rows, restore>>
       \/ /\ rows # {} /\ rows' = {}
          /\ restore' = [r \in Restorers |-> [restore[r] EXCEPT !.before = {}]]
          /\ UNCHANGED files
    /\ UNCHANGED <<upload, backups, job, today, faults>>

Upload(a) == Record(a) \/ StoreFile(a) \/ StoreFails(a) \/ Undo(a)

BackupStep == Fetch \/ FetchFails \/ Dump \/ Archive \/ Release

RestoreStep(r) == Replace(r) \/ ReplaceFails(r) \/ Promote(r) \/ PromoteFails(r) \/ PutBack(r)

Next ==
    \/ \E a \in Attachments : Upload(a)
    \/ ScheduledBackup \/ BackupStep
    \/ \E r \in Restorers :
          \/ \E kind \in Kinds, i \in DOMAIN backups : RestoreBegins(r, kind, i)
          \/ RestoreStep(r)
    \/ NextDay \/ Crash \/ Loss

Fairness == WF_vars(BackupStep) /\ \A r \in Restorers : WF_vars(RestoreStep(r))

Spec == Init /\ [][Next]_vars /\ Fairness

-----------------------------------------------------------------------------
TypeOK ==
    /\ rows \subseteq Attachments /\ files \subseteq Attachments
    /\ upload \in [Attachments -> {"new", "recorded", "stored", "undoing", "failed"}]
    /\ backups \in Seq(Backup)
    /\ job \in Job
    /\ restore \in [Restorers -> Restore]
    /\ today \in Nat /\ faults \in Nat /\ losses \in Nat

(* While a restore may change the database, everything that was acknowledged
   before it began lies in a verified copy on the disk, whatever uploads, retention
   and the turn of the day have done since. *)
SafetyCopyHoldsAll ==
    \A r \in Restorers :
        restore[r].stage \in {"replace", "promote"} =>
            LET s == restore[r].safety
            IN  /\ s \in DOMAIN backups
                /\ backups[s].verified
                /\ OnDisk(s)
                /\ restore[r].before \subseteq backups[s].dump

(* A restore that fails, by one operation failing at most, loses nothing that was
   acknowledged before it began. *)
FailedRestoreLosesNothing ==
    [][\A r \in Restorers :
          restore[r].stage # "idle" /\ restore'[r].outcome = "failed" /\ faults' <= 1 =>
              restore[r].before \subseteq rows']_vars

(* A restore that succeeds from a verified backup leaves none of the rows that the
   backup had looked at without its file, whatever was lost before. *)
RestoredRowsHaveFiles ==
    [][\A r \in Restorers :
          LET b == backups[restore[r].of]
          IN  restore[r].stage # "idle" /\ restore'[r].outcome = "restored" /\ b.verified =>
                  b.fetched \cap rows' \subseteq files']_vars

(* Of every week and month that retention covers, a backup no older than the ones
   it deleted is still on the disk. *)
PeriodKeepsABackup ==
    \A i \in DOMAIN backups :
        LET age == today - backups[i].day
            newer == {j \in DOMAIN backups : j >= i /\ OnDisk(j)}
        IN  /\ age <= WeeklyDays => \E j \in newer : Week(backups[j].day) = Week(backups[i].day)
            /\ age <= MonthlyDays => \E j \in newer : Month(backups[j].day) = Month(backups[i].day)

(* Backups and restores come to an end, so that the next can start. *)
EverythingEnds ==
    /\ (job.stage # "idle") ~> (job.stage = "idle")
    /\ \A r \in Restorers : (restore[r].stage # "idle") ~> (restore[r].stage = "idle")
===============================================================================
