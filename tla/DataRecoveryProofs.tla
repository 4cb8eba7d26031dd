-------------------------- MODULE DataRecoveryProofs --------------------------
(***************************************************************************)
(* For any attachments, restores, bounds and retention periods: while a    *)
(* restore may change the database there is a verified copy of everything  *)
(* acknowledged before it began; one that fails by a single failing        *)
(* operation loses none of it; one that succeeds leaves no checked row     *)
(* without its file; and retention keeps a backup of every period.         *)
(***************************************************************************)
EXTENDS DataRecovery, SequenceTheorems, WellFoundedInduction, TLAPS

(* A copy on the disk that a restore can go back to. *)
Copy(r, i) ==
    /\ i \in DOMAIN backups
    /\ backups[i].dump # NoDump
    /\ restore[r].before \subseteq backups[i].dump
    /\ backups[i].day = today
    /\ OnDisk(i)
    /\ faults = 0 => "local" \in backups[i].places

RestoreInv(r) ==
    LET re == restore[r]
    IN  /\ re.stage = "safety" <=> job.stage # "idle" /\ job.by = r
        /\ re.stage # "idle" =>
               re.outcome = "none" /\ re.of \in DOMAIN backups /\ backups[re.of].dump # NoDump
        /\ re.before \subseteq Acknowledged
        /\ re.stage \in {"safety", "replace"} => re.before \subseteq rows
        /\ re.stage = "undo" => re.before \subseteq rows \/ faults > 0
        /\ re.stage = "promote" => re.committed
        /\ re.stage \in {"replace", "promote", "undo"} => Copy(r, re.safety)
        /\ re.stage \in {"replace", "promote"} => backups[re.safety].verified

JobInv ==
    /\ job.stage # "idle" /\ faults = 0 => job.place = "local"
    /\ job.stage \in {"fetch", "dump"} => job.dump = NoDump
    /\ \A r \in Restorers :
          job.by = r /\ job.stage = "archive" /\ job.dump # NoDump =>
              restore[r].before \subseteq job.dump
    /\ job.stage = "log" =>
          LET n == Len(backups)
          IN  /\ n > 0
              /\ backups[n].day = today
              /\ OnDisk(n)
              /\ faults = 0 => "local" \in backups[n].places
              /\ \A r \in Restorers :
                    job.by = r /\ backups[n].dump # NoDump =>
                        restore[r].before \subseteq backups[n].dump

BackupInv(i) ==
    LET b == backups[i]
    IN  /\ b.day <= today
        /\ b.verified => b.dump # NoDump /\ b.archive # Unreadable /\ b.fetched \subseteq b.archive

DaysInOrder ==
    \A i, j \in DOMAIN backups : i <= j => backups[i].day <= backups[j].day

Inv ==
    /\ TypeOK
    /\ \A r \in Restorers : RestoreInv(r)
    /\ JobInv
    /\ \A i \in DOMAIN backups : BackupInv(i)
    /\ DaysInOrder

-----------------------------------------------------------------------------
LEMMA FreeType == Free \in Job /\ Free.stage = "idle"
  BY DEF Free, Job

LEMMA NoRestoreType ==
    ASSUME NEW outcome \in {"none", "restored", "failed"}
    PROVE  /\ NoRestore \in Restore /\ Ended(outcome) \in Restore
           /\ NoRestore.stage = "idle" /\ NoRestore.before = {}
           /\ Ended(outcome).stage = "idle" /\ Ended(outcome).before = {}
           /\ Ended(outcome).outcome = outcome
  BY DEF NoRestore, Ended, Restore

LEMMA InitInv == ASSUME Init PROVE Inv
  <1>1. TypeOK
    <2>1. backups \in Seq(Backup)
      BY DEF Init
    <2> QED
      BY <2>1, FreeType, NoRestoreType DEF Init, TypeOK
  <1>2. ASSUME NEW r \in Restorers PROVE RestoreInv(r)
    BY FreeType, NoRestoreType DEF Init, RestoreInv
  <1>3. JobInv
    BY FreeType DEF Init, JobInv
  <1>4. DaysInOrder /\ \A i \in DOMAIN backups : BackupInv(i)
    BY DEF Init, DaysInOrder, BackupInv
  <1> QED
    BY <1>1, <1>2, <1>3, <1>4 DEF Inv

(* What a step leaves alone: the backups and how they relate to the day. *)
LEMMA SameBackups ==
    ASSUME Inv, UNCHANGED <<backups, today>>
    PROVE  DaysInOrder' /\ \A i \in DOMAIN backups' : BackupInv(i)'
  BY DEF Inv, DaysInOrder, BackupInv

(* What a restore depends on beside its own stage, which a job may decide. *)
LEMMA SameRestore ==
    ASSUME TypeOK, NEW r \in Restorers, RestoreInv(r),
           UNCHANGED <<rows, upload, backups, restore, today>>,
           faults' = 0 => faults = 0, faults' \in Nat,
           restore[r].stage = "safety" <=> (job'.stage # "idle" /\ job'.by = r)
    PROVE  RestoreInv(r)'
  <1>1. restore'[r] = restore[r] /\ Acknowledged' = Acknowledged
    BY DEF Acknowledged
  <1>2. Copy(r, restore[r].safety) => Copy(r, restore[r].safety)'
    BY DEF Copy, OnDisk
  <1>3. faults > 0 => faults' > 0
    BY DEF TypeOK
  <1> QED
    BY <1>1, <1>2, <1>3 DEF RestoreInv

LEMMA UploadKeeps ==
    ASSUME Inv, NEW a \in Attachments, Upload(a)
    PROVE  Inv'
  <1>1. /\ UNCHANGED <<backups, job, restore, today, losses>>
        /\ faults' \in Nat /\ (faults' = 0 => faults = 0)
        /\ \E to \in {"recorded", "stored", "undoing", "failed"} :
               upload' = [upload EXCEPT ![a] = to]
        /\ upload[a] # "stored"
        /\ rows \ {a} \subseteq rows'
        /\ rows' \subseteq Attachments /\ files' \subseteq Attachments
    BY DEF Inv, TypeOK, Upload, Record, StoreFile, StoreFails, Undo, Uploading, Fault
  <1>2. TypeOK'
    BY <1>1 DEF Inv, TypeOK
  <1>3. Acknowledged \subseteq Acknowledged' /\ a \notin Acknowledged
    BY <1>1 DEF Inv, TypeOK, Acknowledged
  <1>4. ASSUME NEW r \in Restorers PROVE RestoreInv(r)'
    <2>1. RestoreInv(r)
      BY DEF Inv
    <2>2. restore[r].before \subseteq Acknowledged'
      BY <1>3, <2>1 DEF RestoreInv
    <2>3. restore[r].before \subseteq rows => restore[r].before \subseteq rows'
      BY <1>1, <1>3, <2>1 DEF RestoreInv
    <2>4. ASSUME NEW i, Copy(r, i) PROVE Copy(r, i)'
      BY <1>1, <2>4 DEF Copy, OnDisk
    <2>5. faults > 0 => faults' > 0
      BY <1>1 DEF Inv, TypeOK
    <2> QED
      BY <1>1, <2>1, <2>2, <2>3, <2>4, <2>5 DEF RestoreInv
  <1>5. JobInv'
    BY <1>1 DEF Inv, JobInv, OnDisk
  <1> QED
    BY <1>1, <1>2, <1>4, <1>5, SameBackups DEF Inv

(* Records changed in several fields, one field after the other. *)
LEMMA JobStarted ==
    ASSUME NEW by \in Restorers \cup {"scheduler"}, NEW j,
           j = [Free EXCEPT !.stage = "fetch", !.by = by]
    PROVE  /\ j \in Job /\ j.stage = "fetch" /\ j.by = by /\ j.place = "local"
           /\ j.dump = NoDump
  <1> DEFINE k == [Free EXCEPT !.stage = "fetch"]
  <1>1. k \in Job /\ k.stage = "fetch" /\ k.place = "local" /\ k.dump = NoDump
    <2>1. Free \in Job /\ Free.place = "local" /\ Free.dump = NoDump
      BY DEF Free, Job
    <2> QED
      BY <2>1 DEF Job
  <1>2. j = [k EXCEPT !.by = by]
    OBVIOUS
  <1> HIDE DEF k
  <1> QED
    BY <1>1, <1>2 DEF Job

(* The fields that the steps of a backup change. *)
FetchedJob(j, x) == [j EXCEPT !.stage = "dump", !.fetched = x]
FallenBack(j) == [j EXCEPT !.place = "fallback"]
Archiving(j) == [j EXCEPT !.stage = "archive"]
Dumped(j, x) == [j EXCEPT !.dump = x]

LEMMA JobFetched ==
    ASSUME NEW j \in Job, NEW x \in SUBSET Attachments
    PROVE  /\ FetchedJob(j, x) \in Job
           /\ FetchedJob(j, x).stage = "dump" /\ FetchedJob(j, x).by = j.by
           /\ FetchedJob(j, x).dump = j.dump /\ FetchedJob(j, x).place = j.place
  <1> DEFINE l == [j EXCEPT !.stage = "dump"]
  <1>1. l \in Job /\ l.stage = "dump" /\ l.by = j.by /\ l.dump = j.dump /\ l.place = j.place
    BY DEF Job
  <1>2. FetchedJob(j, x) = [l EXCEPT !.fetched = x]
    BY DEF FetchedJob
  <1> HIDE DEF l
  <1> QED
    BY <1>1, <1>2 DEF Job

LEMMA JobFallenBack ==
    ASSUME NEW j \in Job
    PROVE  /\ FallenBack(j) \in Job
           /\ FallenBack(j).stage = j.stage /\ FallenBack(j).by = j.by
           /\ FallenBack(j).dump = j.dump
  BY DEF Job, FallenBack

LEMMA JobArchiving ==
    ASSUME NEW j \in Job
    PROVE  /\ Archiving(j) \in Job /\ Archiving(j).stage = "archive"
           /\ Archiving(j).by = j.by /\ Archiving(j).place = j.place
           /\ Archiving(j).dump = j.dump
  BY DEF Job, Archiving

LEMMA JobDumped ==
    ASSUME NEW j \in Job, NEW x \in SUBSET Attachments
    PROVE  /\ Dumped(j, x) \in Job /\ Dumped(j, x).stage = j.stage
           /\ Dumped(j, x).by = j.by /\ Dumped(j, x).place = j.place
           /\ Dumped(j, x).dump = x
  BY DEF Job, Dumped

LEMMA RestoreBegun ==
    ASSUME NEW kind \in {"server", "portable"}, NEW i \in Nat, NEW x \in SUBSET Attachments
    PROVE  /\ Begun(kind, i, x) \in Restore
           /\ Begun(kind, i, x).stage = "safety" /\ Begun(kind, i, x).outcome = "none"
           /\ Begun(kind, i, x).of = i /\ Begun(kind, i, x).before = x
  <1> DEFINE from == IF kind = "server" THEN Source(i) ELSE "local"
             k == [NoRestore EXCEPT !.stage = "safety"]
             l == [k EXCEPT !.kind = kind]
             m == [l EXCEPT !.of = i]
             n == [m EXCEPT !.from = from]
  <1>1. Begun(kind, i, x) = [n EXCEPT !.before = x]
    BY DEF Begun
  <1>2. k \in Restore /\ k.stage = "safety" /\ k.outcome = "none"
    <2>1. NoRestore \in Restore /\ NoRestore.outcome = "none"
      BY DEF NoRestore, Restore
    <2> QED
      BY <2>1 DEF Restore
  <1>3. from \in {"local", "offsite", "fallback"}
    BY DEF Source
  <1> HIDE DEF k, from
  <1>4. l \in Restore /\ l.stage = "safety" /\ l.outcome = "none"
    BY <1>2 DEF Restore
  <1> HIDE DEF l
  <1>5. m \in Restore /\ m.stage = "safety" /\ m.outcome = "none" /\ m.of = i
    BY <1>4 DEF Restore
  <1> HIDE DEF m
  <1>6. n \in Restore /\ n.stage = "safety" /\ n.outcome = "none" /\ n.of = i
    BY <1>3, <1>5 DEF Restore
  <1> HIDE DEF n
  <1> QED
    BY <1>1, <1>6 DEF Restore

LEMMA StartsJob ==
    ASSUME NEW by \in Restorers \cup {"scheduler"}, Starts(by)
    PROVE  /\ job.stage = "idle"
           /\ job' \in Job /\ job'.stage = "fetch" /\ job'.by = by /\ job'.place = "local"
           /\ job'.dump = NoDump
           /\ UNCHANGED <<rows, files, upload, backups, today, faults, losses>>
  <1>1. /\ job.stage = "idle" /\ job' = [Free EXCEPT !.stage = "fetch", !.by = by]
        /\ UNCHANGED <<rows, files, upload, backups, today, faults, losses>>
    BY DEF Starts
  <1>2. /\ job' \in Job /\ job'.stage = "fetch" /\ job'.by = by /\ job'.place = "local"
        /\ job'.dump = NoDump
    BY <1>1, JobStarted
  <1> QED
    BY <1>1, <1>2

(* The backups are numbered from one. *)
LEMMA Numbered ==
    ASSUME TypeOK
    PROVE  /\ Len(backups) \in Nat /\ DOMAIN backups = 1..Len(backups)
           /\ \A i \in DOMAIN backups : i \in Nat /\ backups[i] \in Backup
  BY LenProperties DEF TypeOK

(* A backup starts when none is being made, for a restore only when it begins. *)
LEMMA ScheduledKeeps ==
    ASSUME Inv, ScheduledBackup
    PROVE  Inv'
  <1>1. /\ UNCHANGED <<rows, files, upload, backups, restore, today, faults, losses>>
        /\ job.stage = "idle" /\ job'.stage = "fetch" /\ job'.by = "scheduler"
        /\ job'.place = "local" /\ job' \in Job /\ job'.dump = NoDump
    BY StartsJob DEF ScheduledBackup
  <1>2. TypeOK'
    BY <1>1 DEF Inv, TypeOK
  <1>3. ASSUME NEW r \in Restorers PROVE RestoreInv(r)'
    <2>1. TypeOK /\ RestoreInv(r)
      BY DEF Inv
    <2>2. restore[r].stage # "safety" /\ r # "scheduler"
      BY <1>1, <2>1, RecoveryAssumption DEF RestoreInv
    <2>3. faults' \in Nat /\ (faults' = 0 => faults = 0)
      BY <1>1, <2>1 DEF TypeOK
    <2> QED
      BY <1>1, <2>1, <2>2, <2>3, SameRestore
  <1>4. JobInv'
    BY <1>1 DEF Inv, JobInv
  <1> QED
    BY <1>1, <1>2, <1>3, <1>4, SameBackups DEF Inv

LEMMA BeginKeeps ==
    ASSUME Inv, NEW r \in Restorers, NEW kind \in Kinds, NEW i \in DOMAIN backups,
           RestoreBegins(r, kind, i)
    PROVE  Inv'
  <1> DEFINE new == Begun(kind, i, rows \cap Acknowledged)
  <1>1. /\ UNCHANGED <<rows, files, upload, backups, today, faults, losses>>
        /\ job.stage = "idle" /\ job'.stage = "fetch" /\ job'.by = r
        /\ job'.place = "local" /\ job' \in Job /\ job'.dump = NoDump
        /\ restore' = [restore EXCEPT ![r] = new]
        /\ restore[r].stage = "idle"
        /\ backups[i].dump # NoDump
    BY StartsJob DEF RestoreBegins, MayRestore
  <1>2. /\ new \in Restore /\ new.stage = "safety" /\ new.outcome = "none" /\ new.of = i
        /\ new.before = rows \cap Acknowledged
    <2>1. kind \in {"server", "portable"} /\ i \in Nat
      BY RecoveryAssumption, Numbered DEF Inv
    <2>2. rows \cap Acknowledged \in SUBSET Attachments
      BY DEF Inv, TypeOK
    <2> QED
      BY <2>1, <2>2, RestoreBegun
  <1> HIDE DEF new
  <1>3. TypeOK'
    BY <1>1, <1>2 DEF Inv, TypeOK
  <1>4. ASSUME NEW q \in Restorers PROVE RestoreInv(q)'
    <2>1. CASE q = r
      BY <1>1, <1>2, <2>1 DEF Inv, TypeOK, RestoreInv, Acknowledged
    <2>2. CASE q # r
      BY <1>1, <2>2 DEF Inv, TypeOK, RestoreInv, Copy, OnDisk, Acknowledged
    <2> QED
      BY <2>1, <2>2
  <1>5. JobInv'
    BY <1>1 DEF Inv, JobInv
  <1> QED
    BY <1>1, <1>3, <1>4, <1>5, SameBackups DEF Inv

(* The job moves on and nothing else does, or an operation fails. *)
LEMMA FetchKeeps ==
    ASSUME Inv, Fetch
    PROVE  Inv'
  <1>1. /\ UNCHANGED <<rows, files, upload, backups, restore, today, losses>>
        /\ faults' \in Nat /\ (faults' = 0 => faults = 0)
        /\ job.stage = "fetch" /\ job'.stage = "dump" /\ job'.by = job.by /\ job' \in Job
        /\ job'.dump = job.dump
        /\ faults' = 0 => job'.place = job.place
    <2>1. job \in Job /\ rows \subseteq Attachments /\ faults \in Nat
      BY DEF Inv, TypeOK
    <2>2. faults' \in Nat /\ (faults' = 0 => faults = 0)
      BY <2>1 DEF Fetch, Fault
    <2> DEFINE f == FetchedJob(job, rows)
    <2>3. /\ f \in Job /\ f.stage = "dump" /\ f.by = job.by /\ f.dump = job.dump
          /\ f.place = job.place
      BY <2>1, JobFetched
    <2>4. \/ job' = f /\ UNCHANGED faults
          \/ job' = FallenBack(f) /\ Fault
      BY DEF Fetch, FetchedJob, FallenBack
    <2>5. /\ UNCHANGED <<rows, files, upload, backups, restore, today, losses>>
          /\ job.stage = "fetch"
      BY DEF Fetch
    <2> HIDE DEF f
    <2>6. CASE job' = f /\ UNCHANGED faults
      BY <2>2, <2>3, <2>5, <2>6
    <2>7. CASE job' = FallenBack(f) /\ Fault
      <3>1. faults' # 0
        BY <2>1, <2>7 DEF Fault
      <3>2. /\ FallenBack(f) \in Job /\ FallenBack(f).stage = "dump"
            /\ FallenBack(f).by = job.by /\ FallenBack(f).dump = job.dump
        BY <2>3, JobFallenBack
      <3> QED
        BY <2>2, <2>5, <2>7, <3>1, <3>2
    <2> QED
      BY <2>4, <2>6, <2>7
  <1>2. TypeOK'
    BY <1>1 DEF Inv, TypeOK
  <1>3. ASSUME NEW r \in Restorers PROVE RestoreInv(r)'
    <2>1. TypeOK /\ RestoreInv(r)
      BY DEF Inv
    <2>2. restore[r].stage = "safety" <=> (job'.stage # "idle" /\ job'.by = r)
      BY <1>1, <2>1 DEF RestoreInv
    <2> QED
      BY <1>1, <2>1, <2>2, SameRestore
  <1>4. JobInv'
    BY <1>1 DEF Inv, JobInv
  <1> QED
    BY <1>1, <1>2, <1>3, <1>4, SameBackups DEF Inv

LEMMA DumpKeeps ==
    ASSUME Inv, Dump
    PROVE  Inv'
  <1>1. /\ UNCHANGED <<rows, files, upload, backups, restore, today, losses>>
        /\ faults' \in Nat /\ (faults' = 0 => faults = 0)
        /\ job.stage = "dump" /\ job'.stage = "archive" /\ job'.by = job.by /\ job' \in Job
        /\ job'.place = job.place
        /\ job'.dump = rows \/ job'.dump = job.dump
    <2>1. job \in Job /\ rows \in SUBSET Attachments /\ faults \in Nat
      BY DEF Inv, TypeOK
    <2>2. /\ faults' \in Nat /\ (faults' = 0 => faults = 0)
          /\ UNCHANGED <<rows, files, upload, backups, restore, today, losses>>
          /\ job.stage = "dump"
      BY <2>1 DEF Dump, Fault
    <2> DEFINE g == Archiving(job)
    <2>3. /\ g \in Job /\ g.stage = "archive" /\ g.by = job.by /\ g.place = job.place
          /\ g.dump = job.dump
      BY <2>1, JobArchiving
    <2>4. job' = Dumped(g, rows) \/ job' = g
      BY DEF Dump, Dumped, Archiving
    <2> HIDE DEF g
    <2>5. /\ Dumped(g, rows) \in Job /\ Dumped(g, rows).stage = "archive"
          /\ Dumped(g, rows).by = job.by /\ Dumped(g, rows).place = job.place
          /\ Dumped(g, rows).dump = rows
      BY <2>1, <2>3, JobDumped
    <2> QED
      BY <2>2, <2>3, <2>4, <2>5
  <1>2. TypeOK'
    BY <1>1 DEF Inv, TypeOK
  <1>3. ASSUME NEW r \in Restorers PROVE RestoreInv(r)'
    <2>1. TypeOK /\ RestoreInv(r)
      BY DEF Inv
    <2>2. restore[r].stage = "safety" <=> (job'.stage # "idle" /\ job'.by = r)
      BY <1>1, <2>1 DEF RestoreInv
    <2> QED
      BY <1>1, <2>1, <2>2, SameRestore
  <1>4. JobInv'
    BY <1>1 DEF Inv, JobInv, RestoreInv
  <1> QED
    BY <1>1, <1>2, <1>3, <1>4, SameBackups DEF Inv

LEMMA FetchFailsKeeps ==
    ASSUME Inv, FetchFails
    PROVE  Inv'
  <1>1. /\ UNCHANGED <<rows, files, upload, backups, today, losses>>
        /\ faults' \in Nat /\ faults' > 0
        /\ job' = Free
        /\ restore' = [r \in Restorers |-> IF r = job.by THEN Ended("failed") ELSE restore[r]]
    BY DEF Inv, TypeOK, FetchFails, Fault, Released
  <1>2. TypeOK'
    BY <1>1, FreeType, NoRestoreType DEF Inv, TypeOK
  <1>3. ASSUME NEW r \in Restorers PROVE RestoreInv(r)'
    <2>1. CASE r = job.by
      BY <1>1, <2>1, FreeType, NoRestoreType DEF RestoreInv
    <2>2. CASE r # job.by
      BY <1>1, <2>2, FreeType DEF Inv, TypeOK, RestoreInv, Copy, OnDisk, Acknowledged
    <2> QED
      BY <2>1, <2>2
  <1>4. JobInv'
    BY <1>1, FreeType DEF JobInv
  <1> QED
    BY <1>1, <1>2, <1>3, <1>4, SameBackups DEF Inv

(* A new backup leaves the numbers of the others alone. *)
LEMMA Appended ==
    ASSUME TypeOK, NEW b \in Backup, backups' = Append(backups, b)
    PROVE  /\ backups' \in Seq(Backup)
           /\ Len(backups') = Len(backups) + 1
           /\ DOMAIN backups' = DOMAIN backups \cup {Len(backups) + 1}
           /\ \A i \in DOMAIN backups : i <= Len(backups) /\ backups'[i] = backups[i]
           /\ backups'[Len(backups) + 1] = b
  <1>1. Len(backups) \in Nat /\ DOMAIN backups = 1..Len(backups)
    BY Numbered
  <1>2. backups' \in Seq(Backup) /\ Len(backups') = Len(backups) + 1
    BY AppendProperties DEF TypeOK
  <1>3. \A i \in 1..Len(backups) + 1 :
            backups'[i] = IF i = Len(backups) + 1 THEN b ELSE backups[i]
    BY <1>1, AppendProperties DEF TypeOK
  <1>4. DOMAIN backups' = 1..Len(backups) + 1
    BY <1>1, <1>2, LenProperties
  <1> QED
    BY <1>1, <1>2, <1>3, <1>4

LEMMA ArchiveStores ==
    ASSUME Inv, Archive
    PROVE  \E b \in Backup :
              /\ backups' = Append(backups, b)
              /\ b.day = today /\ b.dump = job.dump /\ job.place \in b.places
              /\ b.verified =>
                     b.dump # NoDump /\ b.archive # Unreadable /\ b.fetched \subseteq b.archive
  <1>1. job \in Job /\ today \in Nat /\ files \in SUBSET Attachments
    BY DEF Inv, TypeOK
  <1>2. PICK archive \in {files, {}, Unreadable}, verified \in BOOLEAN,
             places \in {{job.place}, {job.place, "offsite"}} :
            /\ Stored(archive, verified, places)
            /\ verified => archive = files /\ job.dump # NoDump /\ job.fetched \subseteq files
    BY DEF Archive, Reconciled
  <1> DEFINE b == [day |-> today, fetched |-> job.fetched, dump |-> job.dump,
                   archive |-> archive, verified |-> verified, places |-> places]
  <1>3. backups' = Append(backups, b)
    BY <1>2 DEF Stored
  <1>4. files # Unreadable
    BY <1>1, RecoveryAssumption DEF Unreadable
  <1>5. archive \in (SUBSET Attachments) \cup {Unreadable}
    BY <1>1
  <1>6. places \in SUBSET {"local", "offsite", "fallback"} /\ job.place \in places
    BY <1>1 DEF Job
  <1>7. b \in Backup
    BY <1>1, <1>5, <1>6 DEF Backup, Job
  <1>8. b.verified => b.dump # NoDump /\ b.archive # Unreadable /\ b.fetched \subseteq b.archive
    BY <1>2, <1>4
  <1>9. b.day = today /\ b.dump = job.dump /\ job.place \in b.places
    BY <1>6
  <1> HIDE DEF b
  <1> QED
    BY <1>3, <1>7, <1>8, <1>9

LEMMA ArchiveKeeps ==
    ASSUME Inv, Archive
    PROVE  Inv'
  <1>1. PICK b \in Backup :
              /\ backups' = Append(backups, b)
              /\ b.day = today /\ b.dump = job.dump /\ job.place \in b.places
              /\ b.verified =>
                     b.dump # NoDump /\ b.archive # Unreadable /\ b.fetched \subseteq b.archive
    BY ArchiveStores
  <1>2. /\ UNCHANGED <<rows, files, upload, restore, today, losses>>
        /\ faults' \in Nat /\ (faults' = 0 => faults = 0)
        /\ job.stage = "archive" /\ job'.stage = "log" /\ job'.by = job.by /\ job' \in Job
        /\ job'.place = job.place
    <2>1. job \in Job /\ faults \in Nat
      BY DEF Inv, TypeOK
    <2>2. /\ UNCHANGED <<rows, files, upload, restore, today, losses>>
          /\ job.stage = "archive" /\ job' = [job EXCEPT !.stage = "log"]
      BY DEF Archive
    <2>3. UNCHANGED faults \/ Fault
      BY DEF Archive
    <2> QED
      BY <2>1, <2>2, <2>3 DEF Job, Fault
  <1>3. TypeOK
    BY DEF Inv
  <1> DEFINE n == Len(backups) + 1
  <1>4. /\ backups' \in Seq(Backup) /\ Len(backups') = n /\ n \in Nat /\ n > 0
        /\ DOMAIN backups' = DOMAIN backups \cup {n}
        /\ \A i \in DOMAIN backups : i < n /\ backups'[i] = backups[i]
        /\ backups'[n] = b
    BY <1>1, <1>3, Appended, Numbered
  <1> HIDE DEF n
  <1>5. TypeOK'
    BY <1>2, <1>4 DEF Inv, TypeOK
  <1>6. ASSUME NEW r \in Restorers PROVE RestoreInv(r)'
    <2>1. RestoreInv(r)
      BY DEF Inv
    <2>2. ASSUME NEW i, Copy(r, i) PROVE Copy(r, i)'
      BY <1>2, <1>4, <2>2 DEF Copy, OnDisk
    <2>3. \A i \in DOMAIN backups : i \in DOMAIN backups' /\ backups'[i] = backups[i]
      BY <1>4
    <2>4. restore[r].stage \in {"replace", "promote", "undo"} =>
              restore[r].safety \in DOMAIN backups
      BY <2>1 DEF RestoreInv, Copy
    <2> QED
      BY <1>2, <2>1, <2>2, <2>3, <2>4 DEF Inv, TypeOK, RestoreInv, Acknowledged
  <1>7. JobInv'
    BY <1>1, <1>2, <1>4 DEF Inv, JobInv, OnDisk
  <1>8. ASSUME NEW i \in DOMAIN backups' PROVE BackupInv(i)'
    <2>1. CASE i \in DOMAIN backups
      BY <1>2, <1>4, <2>1 DEF Inv, BackupInv
    <2>2. CASE i = n
      BY <1>1, <1>2, <1>3, <1>4, <2>2 DEF BackupInv, TypeOK
    <2> QED
      BY <1>4, <2>1, <2>2
  <1>9. DaysInOrder'
    <2> SUFFICES ASSUME NEW i \in DOMAIN backups', NEW j \in DOMAIN backups', i <= j
                 PROVE  backups'[i].day <= backups'[j].day
      BY DEF DaysInOrder
    <2>1. \A k \in DOMAIN backups : backups[k].day <= today /\ k \in Nat
      BY <1>3, Numbered DEF Inv, BackupInv
    <2>2. CASE i \in DOMAIN backups /\ j \in DOMAIN backups
      BY <1>4, <2>2 DEF Inv, DaysInOrder
    <2>3. CASE i \in DOMAIN backups /\ j = n
      BY <1>1, <1>4, <2>1, <2>3
    <2>4. CASE i = n
      BY <1>1, <1>3, <1>4, <2>1, <2>4 DEF TypeOK
    <2> QED
      BY <1>4, <2>2, <2>3, <2>4
  <1> QED
    BY <1>5, <1>6, <1>7, <1>8, <1>9 DEF Inv

-----------------------------------------------------------------------------
(* Retention takes artifacts away, and none of those made today. *)
LEMMA CleanedBackups ==
    ASSUME TypeOK
    PROVE  /\ Cleaned \in Seq(Backup)
           /\ Len(Cleaned) = Len(backups) /\ DOMAIN Cleaned = DOMAIN backups
           /\ \A i \in DOMAIN backups :
                 /\ Cleaned[i].day = backups[i].day /\ Cleaned[i].dump = backups[i].dump
                 /\ Cleaned[i].fetched = backups[i].fetched
                 /\ Cleaned[i].archive = backups[i].archive
                 /\ Cleaned[i].verified = backups[i].verified
           /\ \A i \in DOMAIN backups :
                 OnDisk(i) /\ backups[i].day = today => Cleaned[i] = backups[i]
  <1> DEFINE history == {i \in DOMAIN backups : OnDisk(i)}
             day == [i \in DOMAIN backups |-> backups[i].day]
             kept == Kept(history, day, today)
             shorter(i) == [backups[i] EXCEPT !.places = @ \cap {"fallback"}]
  <1>1. Cleaned = [i \in DOMAIN backups |-> IF i \in kept THEN backups[i] ELSE shorter(i)]
    BY DEF Cleaned
  <1>2. \A i \in history : backups[i].day = today => i \in kept
    <2>1. Aged(history, day, today, DailyDays) \subseteq kept
      BY DEF Kept
    <2>2. \A i \in history : backups[i].day = today => i \in Aged(history, day, today, DailyDays)
      BY RetentionAssumption DEF Aged, TypeOK
    <2> QED
      BY <2>1, <2>2
  <1>3. /\ Len(backups) \in Nat /\ DOMAIN backups = 1..Len(backups)
        /\ \A i \in DOMAIN backups : backups[i] \in Backup
    BY Numbered
  <1>4. \A i \in DOMAIN backups :
            /\ shorter(i) \in Backup
            /\ shorter(i).day = backups[i].day /\ shorter(i).dump = backups[i].dump
            /\ shorter(i).fetched = backups[i].fetched
            /\ shorter(i).archive = backups[i].archive
            /\ shorter(i).verified = backups[i].verified
    BY <1>3 DEF Backup
  <1> HIDE DEF kept, shorter
  <1>5. Cleaned \in [1..Len(backups) -> Backup]
    BY <1>1, <1>3, <1>4
  <1>6. Cleaned \in Seq(Backup) /\ Len(Cleaned) = Len(backups) /\ DOMAIN Cleaned = DOMAIN backups
    BY <1>3, <1>5
  <1> QED
    BY <1>1, <1>2, <1>3, <1>4, <1>6

(* A restore in trouble ends, or turns to its safety copy. *)
LEMMA ErredRestore ==
    ASSUME NEW re \in Restore
    PROVE  /\ Erred(re) \in Restore
           /\ \/ Erred(re) = Ended("failed") /\ ~Undoes(re.kind, re.safety, re.committed)
              \/ /\ Undoes(re.kind, re.safety, re.committed)
                 /\ Erred(re).stage = "undo" /\ Erred(re).outcome = re.outcome
                 /\ Erred(re).of = re.of /\ Erred(re).before = re.before
                 /\ Erred(re).safety = re.safety
  <1>1. CASE Undoes(re.kind, re.safety, re.committed)
    <2>1. Erred(re) = [re EXCEPT !.stage = "undo"]
      BY <1>1 DEF Erred
    <2> QED
      BY <1>1, <2>1 DEF Restore
  <1>2. CASE ~Undoes(re.kind, re.safety, re.committed)
    <2>1. Erred(re) = Ended("failed")
      BY <1>2 DEF Erred
    <2> QED
      BY <1>2, <2>1, NoRestoreType
  <1> QED
    BY <1>1, <1>2

LEMMA GoneOn ==
    ASSUME NEW re \in Restore
    PROVE  /\ GoesOn(re) \in Restore
           /\ \/ /\ backups[re.safety].verified
                 /\ GoesOn(re).stage = "replace" /\ GoesOn(re).outcome = re.outcome
                 /\ GoesOn(re).of = re.of /\ GoesOn(re).before = re.before
                 /\ GoesOn(re).safety = re.safety
              \/ GoesOn(re) = Erred(re)
  <1>1. CASE backups[re.safety].verified
    <2>1. GoesOn(re) = [re EXCEPT !.stage = "replace"]
      BY <1>1 DEF GoesOn
    <2> QED
      BY <1>1, <2>1 DEF Restore
  <1>2. CASE ~backups[re.safety].verified
    <2>1. GoesOn(re) = Erred(re)
      BY <1>2 DEF GoesOn
    <2> QED
      BY <2>1, ErredRestore
  <1> QED
    BY <1>1, <1>2

LEMMA ReleaseKeeps ==
    ASSUME Inv, Release
    PROVE  Inv'
  <1>0. PICK n : n = Len(backups)
    OBVIOUS
  <1>1. /\ UNCHANGED <<rows, files, upload, today, faults, losses>>
        /\ job.stage = "log" /\ job' = Free /\ backups' = Cleaned
    BY DEF Release, Released
  <1>2. TypeOK /\ JobInv /\ job.stage = "log"
    BY <1>1 DEF Inv
  <1>3. /\ backups' \in Seq(Backup) /\ Len(backups') = n
        /\ DOMAIN backups' = DOMAIN backups /\ DOMAIN backups = 1..n /\ n \in Nat
        /\ \A i \in DOMAIN backups :
              /\ backups'[i].day = backups[i].day /\ backups'[i].dump = backups[i].dump
              /\ backups'[i].fetched = backups[i].fetched
              /\ backups'[i].archive = backups[i].archive
              /\ backups'[i].verified = backups[i].verified
        /\ \A i \in DOMAIN backups :
              OnDisk(i) /\ backups[i].day = today => backups'[i] = backups[i]
    BY <1>0, <1>1, <1>2, CleanedBackups, Numbered
  <1>4. /\ n > 0 /\ n \in DOMAIN backups /\ backups[n].day = today /\ OnDisk(n)
        /\ backups'[n] = backups[n]
        /\ faults = 0 => "local" \in backups[n].places
    BY <1>0, <1>2, <1>3 DEF JobInv
  <1>5. ASSUME NEW r \in Restorers, NEW i, Copy(r, i), restore'[r].before = restore[r].before
        PROVE  Copy(r, i)'
    BY <1>1, <1>3, <1>5 DEF Copy, OnDisk
  <1>6. ASSUME NEW r \in Restorers PROVE RestoreInv(r)' /\ restore'[r] \in Restore
    <2>1. RestoreInv(r) /\ restore[r] \in Restore
      BY <1>2 DEF Inv, TypeOK
    <2>2. CASE r # job.by
      <3>1. restore'[r] = restore[r]
        BY <2>2 DEF Release
      <3> QED
        BY <1>1, <1>3, <1>5, <2>1, <2>2, <3>1, FreeType DEF RestoreInv, Copy, Acknowledged
    <2>3. CASE r = job.by
      <3> DEFINE re == [restore[r] EXCEPT !.safety = n]
      <3>1. /\ re \in Restore /\ re.stage = "safety" /\ re.outcome = "none"
            /\ re.of = restore[r].of /\ re.before = restore[r].before /\ re.safety = n
        <4>1. restore[r].stage = "safety" /\ restore[r].outcome = "none"
          BY <1>1, <2>1, <2>3 DEF RestoreInv
        <4> QED
          BY <1>3, <2>1, <4>1 DEF Restore
      <3>2. restore'[r] = GoesOn(re)
        BY <1>0, <2>3 DEF Release
      <3>3. /\ re.of \in DOMAIN backups /\ backups[re.of].dump # NoDump
            /\ re.before \subseteq Acknowledged /\ re.before \subseteq rows
        BY <1>1, <2>1, <2>3, <3>1 DEF RestoreInv
      <3>4. backups[n].dump # NoDump => re.before \subseteq backups[n].dump
        BY <1>0, <1>2, <2>3, <3>1 DEF JobInv
      <3>5. backups[n].verified => backups[n].dump # NoDump
        BY <1>4 DEF Inv, BackupInv
      <3> HIDE DEF re
      <3>10. ASSUME restore'[r].before = re.before, backups[n].dump # NoDump
             PROVE  Copy(r, n)'
        <4>1. n \in DOMAIN backups' /\ backups'[n] = backups[n] /\ today' = today /\ faults' = faults
          BY <1>1, <1>3, <1>4
        <4>2. restore'[r].before \subseteq backups'[n].dump
          BY <3>4, <3>10, <4>1
        <4> QED
          BY <1>4, <3>10, <4>1, <4>2 DEF Copy, OnDisk
      <3>11. /\ re.of \in DOMAIN backups' /\ backups'[re.of].dump # NoDump
             /\ re.before \subseteq Acknowledged' /\ re.before \subseteq rows'
             /\ job'.stage = "idle"
        BY <1>1, <1>3, <3>3, FreeType DEF Acknowledged
      <3>6. CASE /\ backups[n].verified
                 /\ restore'[r].stage = "replace" /\ restore'[r].outcome = "none"
                 /\ restore'[r].of = re.of /\ restore'[r].before = re.before
                 /\ restore'[r].safety = n /\ restore'[r] \in Restore
        <4>1. Copy(r, n)' /\ backups'[n].verified
          BY <1>4, <3>5, <3>6, <3>10
        <4> QED
          BY <3>6, <3>11, <4>1 DEF RestoreInv
      <3>7. CASE restore'[r] = Ended("failed")
        BY <1>1, <3>7, FreeType, NoRestoreType DEF RestoreInv
      <3>8. CASE /\ Undoes(re.kind, re.safety, re.committed)
                 /\ restore'[r].stage = "undo" /\ restore'[r].outcome = "none"
                 /\ restore'[r].of = re.of /\ restore'[r].before = re.before
                 /\ restore'[r].safety = n /\ restore'[r] \in Restore
        <4>1. backups[n].dump # NoDump
          BY <3>1, <3>8 DEF Undoes
        <4>2. Copy(r, n)'
          BY <3>8, <3>10, <4>1
        <4> QED
          BY <3>8, <3>11, <4>2 DEF RestoreInv
      <3> QED
        BY <3>1, <3>2, <3>6, <3>7, <3>8, GoneOn, ErredRestore, NoRestoreType
    <2> QED
      BY <2>2, <2>3
  <1>7. TypeOK'
    <2>1. restore' \in [Restorers -> Restore]
      BY <1>6 DEF Release
    <2> QED
      BY <1>1, <1>2, <1>3, <2>1, FreeType DEF TypeOK
  <1>8. JobInv'
    BY <1>1, FreeType DEF JobInv
  <1>9. DaysInOrder' /\ \A i \in DOMAIN backups' : BackupInv(i)'
    BY <1>1, <1>3 DEF Inv, DaysInOrder, BackupInv
  <1> QED
    BY <1>6, <1>7, <1>8, <1>9 DEF Inv

-----------------------------------------------------------------------------
(* What a step of one restore may do to the others: take rows away that they
   protect, never without taking them off their list. *)
LEMMA OneRestoreKeeps ==
    ASSUME Inv, NEW r \in Restorers,
           UNCHANGED <<upload, backups, job, today, losses>>,
           faults' \in Nat, faults' >= faults,
           rows' \subseteq Attachments, files' \subseteq Attachments,
           restore' \in [Restorers -> Restore],
           RestoreInv(r)', restore'[r].before \subseteq restore[r].before,
           \A q \in Restorers \ {r} :
              /\ restore'[q].stage = restore[q].stage /\ restore'[q].outcome = restore[q].outcome
              /\ restore'[q].of = restore[q].of /\ restore'[q].safety = restore[q].safety
              /\ restore'[q].committed = restore[q].committed
              /\ restore'[q].before \subseteq restore[q].before
              /\ restore[q].before \subseteq rows => restore'[q].before \subseteq rows'
    PROVE  Inv'
  <1>1. TypeOK'
    BY DEF Inv, TypeOK
  <1>2. faults \in Nat
    BY DEF Inv, TypeOK
  <1>3. ASSUME NEW q \in Restorers PROVE RestoreInv(q)'
    <2>1. CASE q = r
      BY <2>1
    <2>2. CASE q # r
      <3>1. RestoreInv(q)
        BY DEF Inv
      <3>2. ASSUME NEW i, Copy(q, i) PROVE Copy(q, i)'
        BY <1>2, <2>2, <3>2 DEF Copy, OnDisk
      <3>3. restore'[q].before \subseteq Acknowledged'
        BY <2>2, <3>1 DEF RestoreInv, Acknowledged
      <3> QED
        BY <1>2, <2>2, <3>1, <3>2, <3>3 DEF RestoreInv
    <2> QED
      BY <2>1, <2>2
  <1>4. JobInv'
    <2>1. JobInv /\ \A q \in Restorers : restore'[q].before \subseteq restore[q].before
      BY DEF Inv
    <2> QED
      BY <1>2, <2>1 DEF JobInv, OnDisk
  <1> QED
    BY <1>1, <1>3, <1>4, SameBackups DEF Inv

LEMMA BecomesOthers ==
    ASSUME Inv, NEW r \in Restorers, NEW dump \in SUBSET Attachments, NEW new \in Restore,
           Becomes(r, dump, new)
    PROVE  /\ rows' = dump
           /\ restore' \in [Restorers -> Restore] /\ restore'[r] = new
           /\ \A q \in Restorers \ {r} :
                 /\ restore'[q].stage = restore[q].stage
                 /\ restore'[q].outcome = restore[q].outcome
                 /\ restore'[q].of = restore[q].of /\ restore'[q].safety = restore[q].safety
                 /\ restore'[q].committed = restore[q].committed
                 /\ restore'[q].before \subseteq restore[q].before
                 /\ restore'[q].before \subseteq rows'
  <1> DEFINE less(q) == [restore[q] EXCEPT !.before = @ \cap dump]
  <1>1. \A q \in Restorers :
            /\ less(q) \in Restore
            /\ less(q).stage = restore[q].stage /\ less(q).outcome = restore[q].outcome
            /\ less(q).of = restore[q].of /\ less(q).safety = restore[q].safety
            /\ less(q).committed = restore[q].committed
            /\ less(q).before = restore[q].before \cap dump
    <2>1. \A q \in Restorers : restore[q] \in Restore
      BY DEF Inv, TypeOK
    <2> QED
      BY <2>1 DEF Restore
  <1>2. rows' = dump /\ restore' = [q \in Restorers |-> IF q = r THEN new ELSE less(q)]
    BY DEF Becomes
  <1> HIDE DEF less
  <1> QED
    BY <1>1, <1>2

(* The bodies of the restore's own steps: it goes on with the database replaced,
   it ends, or it is in trouble. *)
LEMMA ReplaceKeeps ==
    ASSUME Inv, NEW r \in Restorers, Replace(r)
    PROVE  Inv'
  <1>1. PICK dump : dump = backups[restore[r].of].dump
    OBVIOUS
  <1>2. PICK new : new = [restore[r] EXCEPT !.stage = "promote", !.committed = TRUE]
    OBVIOUS
  <1>3. RestoreInv(r) /\ restore[r] \in Restore /\ restore[r].stage = "replace"
    BY DEF Inv, TypeOK, Replace
  <1>4. dump \in SUBSET Attachments
    <2>1. restore[r].of \in DOMAIN backups /\ dump # NoDump
      BY <1>1, <1>3 DEF RestoreInv
    <2>2. backups[restore[r].of] \in Backup
      BY <2>1, Numbered DEF Inv
    <2> QED
      BY <1>1, <2>1, <2>2 DEF Backup
  <1>5. /\ new \in Restore /\ new.stage = "promote" /\ new.committed
        /\ new.outcome = restore[r].outcome /\ new.of = restore[r].of
        /\ new.safety = restore[r].safety /\ new.before = restore[r].before
    <2> DEFINE l == [restore[r] EXCEPT !.stage = "promote"]
    <2>1. /\ l \in Restore /\ l.stage = "promote"
          /\ l.outcome = restore[r].outcome /\ l.of = restore[r].of
          /\ l.safety = restore[r].safety /\ l.before = restore[r].before
      BY <1>3 DEF Restore
    <2>2. new = [l EXCEPT !.committed = TRUE]
      BY <1>2
    <2> HIDE DEF l
    <2> QED
      BY <2>1, <2>2 DEF Restore
  <1>6. Becomes(r, dump, new) /\ UNCHANGED <<files, upload, backups, job, today, faults, losses>>
    BY <1>1, <1>2 DEF Replace
  <1>7. /\ restore' \in [Restorers -> Restore] /\ restore'[r] = new /\ rows' = dump
        /\ \A q \in Restorers \ {r} :
              /\ restore'[q].stage = restore[q].stage /\ restore'[q].outcome = restore[q].outcome
              /\ restore'[q].of = restore[q].of /\ restore'[q].safety = restore[q].safety
              /\ restore'[q].committed = restore[q].committed
              /\ restore'[q].before \subseteq restore[q].before
              /\ restore'[q].before \subseteq rows'
    BY <1>4, <1>5, <1>6, BecomesOthers
  <1>8. RestoreInv(r)'
    <2>1. Copy(r, restore[r].safety) /\ backups[restore[r].safety].verified
      BY <1>3 DEF RestoreInv
    <2>2. Copy(r, restore[r].safety) => Copy(r, restore[r].safety)'
      BY <1>5, <1>6, <1>7, Zenon DEF Copy, OnDisk
    <2> QED
      BY <1>3, <1>5, <1>6, <1>7, <2>1, <2>2 DEF RestoreInv, Copy, OnDisk, Acknowledged
  <1>9. faults' \in Nat /\ faults' >= faults /\ files' \subseteq Attachments
    BY <1>6 DEF Inv, TypeOK
  <1> QED
    BY <1>4, <1>5, <1>6, <1>7, <1>8, <1>9, OneRestoreKeeps

LEMMA EndKeeps ==
    ASSUME Inv, NEW r \in Restorers, NEW outcome \in {"restored", "failed"},
           restore[r].stage \in {"promote", "undo"},
           restore' = [restore EXCEPT ![r] = Ended(outcome)],
           UNCHANGED <<rows, upload, backups, job, today, losses>>,
           faults' \in Nat, faults' >= faults, files' \subseteq Attachments
    PROVE  Inv'
  <1>1. /\ restore' \in [Restorers -> Restore] /\ restore'[r] = Ended(outcome)
        /\ \A q \in Restorers \ {r} : restore'[q] = restore[q]
        /\ restore'[r].stage = "idle" /\ restore'[r].before = {}
    BY NoRestoreType DEF Inv, TypeOK
  <1>2. RestoreInv(r)'
    BY <1>1 DEF Inv, RestoreInv
  <1> QED
    BY <1>1, <1>2, OneRestoreKeeps DEF Inv, TypeOK

LEMMA ErrsKeeps ==
    ASSUME Inv, NEW r \in Restorers, Errs(r),
           restore[r].stage \in {"replace", "promote"},
           UNCHANGED <<rows, upload, backups, job, today, losses>>,
           faults' \in Nat, faults' >= faults,
           restore[r].stage = "promote" => faults' > 0,
           files' \subseteq Attachments
    PROVE  Inv'
  <1>1. PICK new : new = Erred(restore[r])
    OBVIOUS
  <1>2. RestoreInv(r) /\ restore[r] \in Restore /\ faults \in Nat
    BY DEF Inv, TypeOK
  <1>3. /\ new \in Restore
        /\ \/ new = Ended("failed")
           \/ /\ new.stage = "undo" /\ new.outcome = restore[r].outcome
              /\ new.of = restore[r].of /\ new.before = restore[r].before
              /\ new.safety = restore[r].safety
    BY <1>1, <1>2, ErredRestore
  <1>4. restore' = [restore EXCEPT ![r] = new]
    BY <1>1 DEF Errs
  <1>5. /\ restore' \in [Restorers -> Restore] /\ restore'[r] = new
        /\ \A q \in Restorers \ {r} : restore'[q] = restore[q]
    BY <1>3, <1>4 DEF Inv, TypeOK
  <1>6. CASE new = Ended("failed")
    <2>1. RestoreInv(r)' /\ restore'[r].before = {}
      BY <1>2, <1>5, <1>6, NoRestoreType DEF RestoreInv
    <2> QED
      BY <1>5, <2>1, OneRestoreKeeps DEF Inv, TypeOK
  <1>7. CASE /\ new.stage = "undo" /\ new.outcome = restore[r].outcome
             /\ new.of = restore[r].of /\ new.before = restore[r].before
             /\ new.safety = restore[r].safety
    <2>1. Copy(r, restore[r].safety)
      BY <1>2 DEF RestoreInv
    <2>2. ASSUME NEW i, Copy(r, i) PROVE Copy(r, i)'
      BY <1>2, <1>5, <1>7, <2>2 DEF Copy, OnDisk
    <2>3. restore'[r].before \subseteq rows' \/ faults' > 0
      BY <1>2, <1>5, <1>7 DEF RestoreInv
    <2>4. RestoreInv(r)'
      BY <1>2, <1>5, <1>7, <2>1, <2>2, <2>3 DEF RestoreInv, Acknowledged
    <2> QED
      BY <1>5, <1>7, <2>4, OneRestoreKeeps DEF Inv, TypeOK
  <1> QED
    BY <1>3, <1>6, <1>7

LEMMA ReplaceFailsKeeps ==
    ASSUME Inv, NEW r \in Restorers, ReplaceFails(r)
    PROVE  Inv'
  <1>1. faults \in Nat /\ files \subseteq Attachments
    BY DEF Inv, TypeOK
  <1>2. faults' \in Nat /\ faults' >= faults
    BY <1>1 DEF ReplaceFails, Fault
  <1> QED
    BY <1>1, <1>2, ErrsKeeps DEF ReplaceFails

LEMMA PromoteFailsKeeps ==
    ASSUME Inv, NEW r \in Restorers, PromoteFails(r)
    PROVE  Inv'
  <1>1. RestoreInv(r) /\ faults \in Nat /\ files \subseteq Attachments /\ restore[r].stage = "promote"
    BY DEF Inv, TypeOK, PromoteFails
  <1>2. backups[restore[r].of] \in Backup
    BY <1>1, Numbered DEF Inv, RestoreInv
  <1>3. Archived(restore[r].of) \subseteq Attachments
    BY <1>2 DEF Archived, Backup
  <1>4. files' \subseteq Attachments
    BY <1>1, <1>3 DEF PromoteFails
  <1>5. faults' \in Nat /\ faults' >= faults /\ faults' > 0
    BY <1>1 DEF PromoteFails, Fault
  <1> QED
    BY <1>1, <1>4, <1>5, ErrsKeeps DEF PromoteFails

LEMMA PromoteKeeps ==
    ASSUME Inv, NEW r \in Restorers, Promote(r)
    PROVE  Inv'
  <1>1. RestoreInv(r) /\ faults \in Nat /\ files \subseteq Attachments /\ restore[r].stage = "promote"
    BY DEF Inv, TypeOK, Promote
  <1>2. backups[restore[r].of] \in Backup
    BY <1>1, Numbered DEF Inv, RestoreInv
  <1>3. Archived(restore[r].of) \subseteq Attachments
    BY <1>2 DEF Archived, Backup
  <1>4. files' \subseteq Attachments /\ faults' = faults
    BY <1>1, <1>3 DEF Promote
  <1>5. /\ restore' = [restore EXCEPT ![r] = Ended("restored")]
        /\ UNCHANGED <<rows, upload, backups, job, today, losses>>
    BY DEF Promote
  <1>6. faults' \in Nat /\ faults' >= faults
    BY <1>1, <1>4
  <1> QED
    BY <1>1, <1>4, <1>5, <1>6, EndKeeps

LEMMA PutBackKeeps ==
    ASSUME Inv, NEW r \in Restorers, PutBack(r)
    PROVE  Inv'
  <1>1. /\ RestoreInv(r) /\ faults \in Nat /\ files' \subseteq Attachments
        /\ restore[r].stage = "undo"
        /\ UNCHANGED <<files, upload, backups, job, today, losses>>
    BY DEF Inv, TypeOK, PutBack
  <1>2. CASE Becomes(r, backups[restore[r].safety].dump, Ended("failed")) /\ UNCHANGED faults
    <2>1. PICK dump : dump = backups[restore[r].safety].dump
      OBVIOUS
    <2>2. dump \in SUBSET Attachments
      <3>1. restore[r].safety \in DOMAIN backups /\ dump # NoDump
        BY <1>1, <2>1 DEF RestoreInv, Copy
      <3>2. backups[restore[r].safety] \in Backup
        BY <3>1, Numbered DEF Inv
      <3> QED
        BY <2>1, <3>1, <3>2 DEF Backup
    <2>3. /\ restore' \in [Restorers -> Restore] /\ restore'[r] = Ended("failed") /\ rows' = dump
          /\ \A q \in Restorers \ {r} :
                /\ restore'[q].stage = restore[q].stage
                /\ restore'[q].outcome = restore[q].outcome
                /\ restore'[q].of = restore[q].of /\ restore'[q].safety = restore[q].safety
                /\ restore'[q].committed = restore[q].committed
                /\ restore'[q].before \subseteq restore[q].before
                /\ restore'[q].before \subseteq rows'
      BY <1>2, <2>1, <2>2, BecomesOthers, NoRestoreType
    <2>4. restore'[r].stage = "idle" /\ restore'[r].before = {}
      BY <2>3, NoRestoreType
    <2>5. RestoreInv(r)'
      BY <1>1, <2>4 DEF RestoreInv
    <2>6. faults' \in Nat /\ faults' >= faults
      BY <1>1, <1>2
    <2> QED
      BY <1>1, <2>2, <2>3, <2>4, <2>5, <2>6, OneRestoreKeeps
  <1>3. CASE /\ Fault /\ restore' = [restore EXCEPT ![r] = Ended("failed")]
             /\ UNCHANGED rows
    <2>1. faults' \in Nat /\ faults' >= faults
      BY <1>1, <1>3 DEF Fault
    <2> QED
      BY <1>1, <1>3, <2>1, EndKeeps
  <1> QED
    BY <1>2, <1>3 DEF PutBack

LEMMA NextDayKeeps ==
    ASSUME Inv, NextDay
    PROVE  Inv'
  <1>1. /\ UNCHANGED <<rows, files, upload, backups, job, restore, faults, losses>>
        /\ job.stage = "idle" /\ \A r \in Restorers : restore[r].stage = "idle"
        /\ today \in Nat /\ today' = today + 1
    BY DEF Inv, TypeOK, NextDay
  <1>2. TypeOK'
    BY <1>1 DEF Inv, TypeOK
  <1>3. ASSUME NEW r \in Restorers PROVE RestoreInv(r)'
    BY <1>1 DEF Inv, RestoreInv, Acknowledged
  <1>4. JobInv'
    BY <1>1 DEF JobInv
  <1>5. DaysInOrder' /\ \A i \in DOMAIN backups' : BackupInv(i)'
    <2>1. \A i \in DOMAIN backups : backups[i].day \in Nat
      BY Numbered DEF Inv, Backup
    <2> QED
      BY <1>1, <2>1 DEF Inv, DaysInOrder, BackupInv
  <1> QED
    BY <1>2, <1>3, <1>4, <1>5 DEF Inv

LEMMA CrashKeeps ==
    ASSUME Inv, Crash
    PROVE  Inv'
  <1>1. /\ UNCHANGED <<rows, files, backups, today, losses>>
        /\ faults \in Nat /\ faults' = faults + 1
        /\ job' = Free /\ restore' = [r \in Restorers |-> NoRestore]
        /\ upload' \in [Attachments -> {"new", "recorded", "stored", "undoing", "failed"}]
    BY DEF Inv, TypeOK, Crash, Fault
  <1>2. TypeOK'
    BY <1>1, FreeType, NoRestoreType DEF Inv, TypeOK
  <1>3. ASSUME NEW r \in Restorers PROVE RestoreInv(r)'
    BY <1>1, FreeType, NoRestoreType DEF RestoreInv
  <1>4. JobInv'
    BY <1>1, FreeType DEF JobInv
  <1> QED
    BY <1>1, <1>2, <1>3, <1>4, SameBackups DEF Inv

LEMMA LossKeeps ==
    ASSUME Inv, Loss
    PROVE  Inv'
  <1>1. /\ UNCHANGED <<upload, backups, job, today, faults>>
        /\ losses' \in Nat
        /\ \/ UNCHANGED <<rows, restore>> /\ files' \subseteq files
           \/ /\ rows' = {} /\ UNCHANGED files
              /\ restore' = [r \in Restorers |-> [restore[r] EXCEPT !.before = {}]]
    BY DEF Inv, TypeOK, Loss
  <1>2. CASE UNCHANGED <<rows, restore>> /\ files' \subseteq files
    <2>1. TypeOK'
      BY <1>1, <1>2 DEF Inv, TypeOK
    <2>2. ASSUME NEW r \in Restorers PROVE RestoreInv(r)'
      BY <1>1, <1>2 DEF Inv, RestoreInv, Copy, OnDisk, Acknowledged
    <2>3. JobInv'
      BY <1>1, <1>2 DEF Inv, JobInv, OnDisk
    <2> QED
      BY <1>1, <2>1, <2>2, <2>3, SameBackups DEF Inv
  <1>3. CASE /\ rows' = {} /\ UNCHANGED files
             /\ restore' = [r \in Restorers |-> [restore[r] EXCEPT !.before = {}]]
    <2>1. \A r \in Restorers :
             /\ restore'[r] \in Restore /\ restore'[r].before = {}
             /\ restore'[r].stage = restore[r].stage /\ restore'[r].outcome = restore[r].outcome
             /\ restore'[r].of = restore[r].of /\ restore'[r].safety = restore[r].safety
             /\ restore'[r].committed = restore[r].committed
      <3>1. \A r \in Restorers : restore[r] \in Restore
        BY DEF Inv, TypeOK
      <3> QED
        BY <1>3, <3>1 DEF Restore
    <2>2. TypeOK'
      <3>1. restore' \in [Restorers -> Restore]
        BY <1>3, <2>1
      <3> QED
        BY <1>1, <1>3, <3>1 DEF Inv, TypeOK
    <2>3. ASSUME NEW r \in Restorers PROVE RestoreInv(r)'
      <3>1. RestoreInv(r)
        BY DEF Inv
      <3>2. ASSUME NEW i, Copy(r, i) PROVE Copy(r, i)'
        BY <1>1, <2>1, <3>2 DEF Copy, OnDisk
      <3> QED
        BY <1>1, <1>3, <2>1, <3>1, <3>2 DEF RestoreInv
    <2>4. JobInv'
      <3>1. JobInv
        BY DEF Inv
      <3> QED
        BY <1>1, <2>1, <3>1 DEF JobInv, OnDisk
    <2> QED
      BY <1>1, <2>2, <2>3, <2>4, SameBackups DEF Inv
  <1> QED
    BY <1>1, <1>2, <1>3

LEMMA InvNext ==
    ASSUME Inv, [Next]_vars
    PROVE  Inv'
  <1>1. CASE \E a \in Attachments : Upload(a)
    BY <1>1, UploadKeeps
  <1>2. CASE ScheduledBackup
    BY <1>2, ScheduledKeeps
  <1>3. CASE BackupStep
    BY <1>3, FetchKeeps, FetchFailsKeeps, DumpKeeps, ArchiveKeeps, ReleaseKeeps DEF BackupStep
  <1>4. CASE \E r \in Restorers, kind \in Kinds, i \in DOMAIN backups : RestoreBegins(r, kind, i)
    BY <1>4, BeginKeeps
  <1>5. CASE \E r \in Restorers : RestoreStep(r)
    BY <1>5, ReplaceKeeps, ReplaceFailsKeeps, PromoteKeeps, PromoteFailsKeeps, PutBackKeeps
       DEF RestoreStep
  <1>6. CASE NextDay \/ Crash \/ Loss
    BY <1>6, NextDayKeeps, CrashKeeps, LossKeeps
  <1>7. CASE UNCHANGED vars
    <2>1. UNCHANGED <<rows, files, upload, backups, job, restore, today, faults, losses>>
      BY <1>7 DEF vars
    <2>2. TypeOK' /\ JobInv'
      BY <2>1 DEF Inv, TypeOK, JobInv, OnDisk
    <2>3. ASSUME NEW r \in Restorers PROVE RestoreInv(r)'
      BY <2>1 DEF Inv, RestoreInv, Copy, OnDisk, Acknowledged
    <2> QED
      BY <2>1, <2>2, <2>3, SameBackups DEF Inv
  <1> QED
    BY <1>1, <1>2, <1>3, <1>4, <1>5, <1>6, <1>7 DEF Next

(* The invariant holds in every state of every behaviour. *)
THEOREM RecoveryInvariant == Spec => []Inv
  <1>1. Init => Inv
    BY InitInv
  <1>2. Inv /\ [Next]_vars => Inv'
    BY InvNext
  <1> QED
    BY <1>1, <1>2, PTL DEF Spec

(* The state keeps to its types. *)
THEOREM RecoveryTyped == Spec => []TypeOK
  <1>1. Inv => TypeOK
    BY DEF Inv
  <1> QED
    BY <1>1, RecoveryInvariant, PTL

(* Whenever a restore may change the database, a verified safety copy on the disk
   holds everything acknowledged before the restore began (restoreDatabase,
   restoreFromPortableBundle). *)
THEOREM SafetyCopies == Spec => []SafetyCopyHoldsAll
  <1>1. Inv => SafetyCopyHoldsAll
    BY DEF Inv, RestoreInv, Copy, OnDisk, SafetyCopyHoldsAll
  <1> QED
    BY <1>1, RecoveryInvariant, PTL

-----------------------------------------------------------------------------
(* How a restore that is in progress can end. *)
LEMMA Outcomes ==
    ASSUME Inv, [Next]_vars, NEW r \in Restorers,
           restore[r].stage # "idle", restore'[r].outcome # "none"
    PROVE  \/ Promote(r) /\ restore'[r].outcome = "restored"
           \/ /\ restore'[r].outcome = "failed"
              /\ \/ restore[r].stage = "safety" /\ UNCHANGED rows
                 \/ ReplaceFails(r) \/ PromoteFails(r) \/ PutBack(r)
  <1>1. /\ RestoreInv(r) /\ restore[r] \in Restore /\ restore[r].outcome = "none"
        /\ restore \in [Restorers -> Restore] /\ TypeOK
    BY DEF Inv, TypeOK, RestoreInv
  <1>2. restore'[r].outcome # restore[r].outcome
    BY <1>1
  <1>3. CASE (\E a \in Attachments : Upload(a)) \/ ScheduledBackup \/ Fetch \/ Dump \/ Archive
             \/ NextDay \/ UNCHANGED vars
    <2>1. restore' = restore
      BY <1>3 DEF Upload, Record, StoreFile, StoreFails, Undo, Uploading, ScheduledBackup,
                  Fetch, Dump, Archive, NextDay, vars
    <2> QED
      BY <1>2, <2>1
  <1>4. CASE Crash
    <2>1. restore'[r] = NoRestore
      BY <1>4 DEF Crash
    <2> QED
      BY <2>1 DEF NoRestore
  <1>5. CASE Loss
    <2>1. restore'[r] = restore[r] \/ restore'[r] = [restore[r] EXCEPT !.before = {}]
      BY <1>5 DEF Loss
    <2> QED
      BY <1>1, <1>2, <2>1 DEF Restore
  <1>6. CASE FetchFails
    <2>1. /\ UNCHANGED rows /\ job.stage = "fetch"
          /\ restore'[r] = IF r = job.by THEN Ended("failed") ELSE restore[r]
      BY <1>6 DEF FetchFails
    <2> QED
      BY <1>1, <1>2, <2>1, NoRestoreType DEF RestoreInv
  <1>7. CASE Release
    <2> DEFINE re == [restore[r] EXCEPT !.safety = Len(backups)]
    <2>1. /\ UNCHANGED rows /\ job.stage = "log"
          /\ restore'[r] = IF r = job.by THEN GoesOn(re) ELSE restore[r]
      BY <1>7 DEF Release
    <2>2. r = job.by /\ restore[r].stage = "safety"
      BY <1>1, <1>2, <2>1 DEF RestoreInv
    <2>3. re \in Restore /\ re.outcome = "none"
      BY <1>1, Numbered DEF Restore
    <2> HIDE DEF re
    <2>4. GoesOn(re).outcome = "none" \/ GoesOn(re) = Ended("failed")
      BY <2>3, GoneOn, ErredRestore
    <2> QED
      BY <2>1, <2>2, <2>4, NoRestoreType
  <1>8. ASSUME NEW q \in Restorers, NEW kind \in Kinds, NEW i \in DOMAIN backups,
               RestoreBegins(q, kind, i)
        PROVE  FALSE
    <2>1. restore' = [restore EXCEPT ![q] = Begun(kind, i, rows \cap Acknowledged)]
          /\ restore[q].stage = "idle"
      BY <1>8 DEF RestoreBegins
    <2> QED
      BY <1>1, <1>2, <2>1
  <1>9. ASSUME NEW q \in Restorers \ {r}, RestoreStep(q)
        PROVE  FALSE
    <2>0. ASSUME NEW new, restore' = [restore EXCEPT ![q] = new] PROVE FALSE
      <3>1. restore'[r] = restore[r]
        BY <1>1, <2>0
      <3> QED
        BY <1>2, <3>1
    <2>1. CASE ReplaceFails(q) \/ Promote(q) \/ PromoteFails(q)
      <3>1. \/ restore' = [restore EXCEPT ![q] = Erred(restore[q])]
            \/ restore' = [restore EXCEPT ![q] = Ended("restored")]
        BY <2>1 DEF ReplaceFails, Promote, PromoteFails, Errs
      <3> QED
        BY <2>0, <3>1
    <2>2. ASSUME NEW dump, NEW new, Becomes(q, dump, new) PROVE FALSE
      <3>1. restore'[r] = [restore[r] EXCEPT !.before = @ \cap dump]
        BY <2>2 DEF Becomes
      <3> QED
        BY <1>1, <1>2, <3>1 DEF Restore
    <2>3. CASE Replace(q)
      BY <2>2, <2>3 DEF Replace
    <2>4. CASE PutBack(q)
      <3>1. \/ Becomes(q, backups[restore[q].safety].dump, Ended("failed"))
            \/ restore' = [restore EXCEPT ![q] = Ended("failed")]
        BY <2>4 DEF PutBack
      <3> QED
        BY <2>0, <2>2, <3>1
    <2> QED
      BY <1>9, <2>1, <2>3, <2>4 DEF RestoreStep
  <1>10. CASE Replace(r)
    <2>1. PICK dump : Becomes(r, dump, [restore[r] EXCEPT !.stage = "promote", !.committed = TRUE])
      BY <1>10 DEF Replace
    <2>2. restore'[r] = [restore[r] EXCEPT !.stage = "promote", !.committed = TRUE]
      BY <2>1 DEF Becomes
    <2> QED
      BY <1>1, <1>2, <2>2, Zenon DEF Restore
  <1>11. CASE Promote(r)
    BY <1>1, <1>11, NoRestoreType DEF Promote
  <1>12. ASSUME Errs(r) PROVE restore'[r].outcome = "failed"
    <2>1. restore'[r] = Erred(restore[r])
      BY <1>1, <1>12 DEF Errs
    <2> QED
      BY <1>1, <1>2, <2>1, ErredRestore, NoRestoreType
  <1>13. CASE ReplaceFails(r) \/ PromoteFails(r)
    BY <1>12, <1>13 DEF ReplaceFails, PromoteFails
  <1>14. CASE PutBack(r)
    <2>1. restore'[r] = Ended("failed")
      BY <1>1, <1>14 DEF PutBack, Becomes
    <2> QED
      BY <1>14, <2>1, NoRestoreType
  <1> QED
    BY <1>3, <1>4, <1>5, <1>6, <1>7, <1>8, <1>9, <1>10, <1>11, <1>13, <1>14
       DEF Next, BackupStep, RestoreStep

(* The restore had its safety copy on the disk, and one fault is all there was: what
   failed is either undone, or had changed nothing. *)
THEOREM FailedRestores == Spec => FailedRestoreLosesNothing
  <1> DEFINE Loses == \A r \in Restorers :
                restore[r].stage # "idle" /\ restore'[r].outcome = "failed" /\ faults' <= 1 =>
                    restore[r].before \subseteq rows'
  <1>1. Inv /\ [Next]_vars => [Loses]_vars
    <2> SUFFICES ASSUME Inv, [Next]_vars, NEW r \in Restorers,
                        restore[r].stage # "idle", restore'[r].outcome = "failed", faults' <= 1
                 PROVE  restore[r].before \subseteq rows'
      OBVIOUS
    <2>1. RestoreInv(r) /\ restore[r] \in Restore /\ faults \in Nat /\ restore \in [Restorers -> Restore]
      BY DEF Inv, TypeOK
    <2>2. \/ restore[r].stage = "safety" /\ UNCHANGED rows
          \/ ReplaceFails(r) \/ PromoteFails(r) \/ PutBack(r)
      BY Outcomes
    <2>3. CASE restore[r].stage = "safety" /\ UNCHANGED rows
      BY <2>1, <2>3 DEF RestoreInv
    <2>4. CASE ReplaceFails(r)
      BY <2>1, <2>4 DEF RestoreInv, ReplaceFails
    <2>5. CASE PromoteFails(r)
      <3>1. restore[r].stage = "promote" /\ faults = 0 /\ Errs(r)
        BY <2>1, <2>5 DEF PromoteFails, Fault
      <3>2. Undoes(restore[r].kind, restore[r].safety, restore[r].committed)
        BY <2>1, <3>1 DEF RestoreInv, Copy, Undoes
      <3>3. Erred(restore[r]).outcome = "none"
        BY <2>1, <3>1, <3>2, ErredRestore DEF RestoreInv
      <3>4. restore'[r] = Erred(restore[r])
        BY <2>1, <3>1 DEF Errs
      <3> QED
        BY <3>3, <3>4
    <2>6. CASE PutBack(r)
      <3>1. restore[r].stage = "undo" /\ Copy(r, restore[r].safety)
        BY <2>1, <2>6 DEF PutBack, RestoreInv
      <3>2. CASE Becomes(r, backups[restore[r].safety].dump, Ended("failed"))
        BY <3>1, <3>2 DEF Becomes, Copy
      <3>3. CASE Fault /\ UNCHANGED rows
        <4>1. faults = 0
          BY <2>1, <3>3 DEF Fault
        <4> QED
          BY <2>1, <3>1, <3>3, <4>1 DEF RestoreInv
      <3> QED
        BY <2>6, <3>2, <3>3 DEF PutBack
    <2> QED
      BY <2>2, <2>3, <2>4, <2>5, <2>6
  <1>2. FailedRestoreLosesNothing <=> [][Loses]_vars
    BY DEF FailedRestoreLosesNothing
  <1> QED
    BY <1>1, <1>2, RecoveryInvariant, PTL DEF Spec

(* A verified backup's archive holds the file of each row it had read, and the
   promotion puts every file of the archive in its place. *)
THEOREM RestoredRows == Spec => RestoredRowsHaveFiles
  <1> DEFINE Whole == \A r \in Restorers :
                LET b == backups[restore[r].of]
                IN  restore[r].stage # "idle" /\ restore'[r].outcome = "restored" /\ b.verified =>
                        b.fetched \cap rows' \subseteq files'
  <1>1. Inv /\ [Next]_vars => [Whole]_vars
    <2> SUFFICES ASSUME Inv, [Next]_vars, NEW r \in Restorers,
                        restore[r].stage # "idle", restore'[r].outcome = "restored",
                        backups[restore[r].of].verified
                 PROVE  backups[restore[r].of].fetched \cap rows' \subseteq files'
      OBVIOUS
    <2>1. restore[r].of \in DOMAIN backups
      BY DEF Inv, RestoreInv
    <2>2. /\ backups[restore[r].of].archive # Unreadable
          /\ backups[restore[r].of].fetched \subseteq backups[restore[r].of].archive
      BY <2>1 DEF Inv, BackupInv
    <2>3. Promote(r)
      BY Outcomes
    <2> QED
      BY <2>2, <2>3 DEF Promote, Archived
  <1>2. RestoredRowsHaveFiles <=> [][Whole]_vars
    BY DEF RestoredRowsHaveFiles
  <1> QED
    BY <1>1, <1>2, RecoveryInvariant, PTL DEF Spec

-----------------------------------------------------------------------------
(* A set of numbers with an upper bound has a greatest one. *)
LEMMA Greatest ==
    ASSUME NEW n \in Nat, NEW S \in SUBSET (1..n), S # {}
    PROVE  \E m \in S : \A k \in S : k <= m
  <1> DEFINE T == {n - k : k \in S}
             less == OpToRel(<, Nat)
  <1>1. T \subseteq Nat /\ T # {}
    OBVIOUS
  <1>2. IsWellFoundedOn(less, Nat)
    BY NatLessThanWellFounded
  <1>3. \A x, y \in Nat : x < y => <<x, y>> \in less
    BY DEF OpToRel
  <1> HIDE DEF T, less
  <1>4. PICK x \in T : \A y \in T : ~(<<y, x>> \in less)
    BY <1>1, <1>2, WFMin
  <1>5. PICK m \in S : x = n - m
    BY DEF T
  <1>6. ASSUME NEW k \in S PROVE k <= m
    <2>1. n - k \in T
      BY DEF T
    <2>2. ~(n - k < n - m)
      BY <1>1, <1>3, <1>4, <1>5, <2>1
    <2> QED
      BY <2>2
  <1> QED
    BY <1>6

(* A history of backups numbered up to n, and what keeps the periods of one of them. *)
Dated(n, history, day) ==
    history \subseteq 1..n /\ \A k \in history : day[k] \in Nat

CoveredBy(kept, day, now, j) ==
    /\ now - day[j] <= WeeklyDays =>
           \E k \in kept : k >= j /\ Week(day[k]) = Week(day[j])
    /\ now - day[j] <= MonthlyDays =>
           \E k \in kept : k >= j /\ Month(day[k]) = Month(day[j])

(* Retention keeps, of the period of a backup that it covers, that backup or a
   newer one. *)
LEMMA KeptCovers ==
    ASSUME NEW n \in Nat, NEW now \in Nat, NEW history, NEW day, Dated(n, history, day),
           NEW j \in history
    PROVE  CoveredBy(Kept(history, day, now), day, now, j)
  <1>0. history \in SUBSET (1..n) /\ \A k \in history : day[k] \in Nat
    BY DEF Dated
  <1> DEFINE daily == Aged(history, day, now, DailyDays)
             weeks == [i \in history |-> Week(day[i])]
             months == [i \in history |-> Month(day[i])]
             ofWeeks == Aged(history, day, now, WeeklyDays)
             ofMonths == Aged(history, day, now, MonthlyDays)
             weekly == FirstMet(ofWeeks \ daily, weeks)
             monthly == FirstMet(ofMonths \ (daily \cup weekly), months)
  <1>1. Kept(history, day, now) = daily \cup weekly \cup monthly
    BY DEF Kept
  <1>2. daily \subseteq history /\ ofWeeks \subseteq history /\ ofMonths \subseteq history
    BY DEF Aged
  <1>3. /\ now - day[j] <= WeeklyDays => j \in ofWeeks
        /\ now - day[j] <= MonthlyDays => j \in ofMonths
    BY DEF Aged
  <1>4. /\ \A i \in history : weeks[i] = Week(day[i])
        /\ \A i \in history : months[i] = Month(day[i])
    OBVIOUS
  <1> HIDE DEF daily, weeks, months, ofWeeks, ofMonths
  <1>5. ASSUME j \in ofWeeks
        PROVE  \E k \in daily \cup weekly : k >= j /\ weeks[k] = weeks[j]
    <2> DEFINE S == {i \in ofWeeks : weeks[i] = weeks[j]}
    <2>1. S \in SUBSET (1..n) /\ S # {}
      BY <1>0, <1>2, <1>5
    <2>2. PICK m \in S : \A k \in S : k <= m
      BY <2>1, Greatest
    <2>3. m \in daily \/ m \in weekly
      BY <2>2 DEF FirstMet
    <2>4. j <= m
      BY <1>5, <2>2
    <2>5. m \in 1..n
      BY <2>1, <2>2
    <2> QED
      BY <2>2, <2>3, <2>4, <2>5
  <1>6. ASSUME j \in ofMonths
        PROVE  \E k \in daily \cup weekly \cup monthly : k >= j /\ months[k] = months[j]
    <2> DEFINE S == {i \in ofMonths : months[i] = months[j]}
    <2>1. S \in SUBSET (1..n) /\ S # {}
      BY <1>0, <1>2, <1>6
    <2>2. PICK m \in S : \A k \in S : k <= m
      BY <2>1, Greatest
    <2>3. m \in daily \/ m \in weekly \/ m \in monthly
      BY <2>2 DEF FirstMet
    <2>4. j <= m
      BY <1>6, <2>2
    <2>5. m \in 1..n
      BY <2>1, <2>2
    <2> QED
      BY <2>2, <2>3, <2>4, <2>5
  <1>7. weekly \subseteq history /\ monthly \subseteq history
    BY <1>2 DEF FirstMet
  <1> HIDE DEF weekly, monthly
  <1> QED
    BY <1>1, <1>2, <1>3, <1>4, <1>5, <1>6, <1>7 DEF CoveredBy

LEMMA PeriodNext ==
    ASSUME Inv, [Next]_vars, PeriodKeepsABackup
    PROVE  PeriodKeepsABackup'
  <1> DEFINE Covered(i, seq, now) ==
          LET age == now - seq[i].day
              newer == {j \in DOMAIN seq : j >= i /\ seq[j].places # {}}
          IN  /\ age <= WeeklyDays => \E j \in newer : Week(seq[j].day) = Week(seq[i].day)
              /\ age <= MonthlyDays => \E j \in newer : Month(seq[j].day) = Month(seq[i].day)
  <1>1. /\ TypeOK /\ today \in Nat
        /\ \A i \in DOMAIN backups : i \in Nat /\ backups[i].day \in Nat
    BY Numbered DEF Inv, TypeOK, Backup
  <1>2. \A i \in DOMAIN backups : Covered(i, backups, today)
    BY DEF PeriodKeepsABackup, OnDisk
  <1>3. SUFFICES \A i \in DOMAIN backups' : Covered(i, backups', today')
    BY DEF PeriodKeepsABackup, OnDisk
  <1>4. CASE UNCHANGED <<backups, today>>
    BY <1>2, <1>4
  <1>5. CASE NextDay
    <2>1. UNCHANGED backups /\ today' = today + 1
      BY <1>5 DEF NextDay
    <2> QED
      BY <1>1, <1>2, <2>1, RetentionAssumption
  <1>6. CASE Archive
    <2>1. PICK b \in Backup : backups' = Append(backups, b) /\ job.place \in b.places
      BY <1>6, ArchiveStores
    <2>2. PICK n : n = Len(backups) + 1
      OBVIOUS
    <2>3. /\ n \in Nat /\ DOMAIN backups' = DOMAIN backups \cup {n}
          /\ \A i \in DOMAIN backups : i <= n /\ backups'[i] = backups[i]
          /\ backups'[n] = b
      BY <1>1, <2>1, <2>2, Appended, Numbered
    <2>4. UNCHANGED today
      BY <1>6 DEF Archive
    <2>5. ASSUME NEW i \in DOMAIN backups PROVE Covered(i, backups', today')
      BY <1>2, <2>3, <2>4
    <2>6. Covered(n, backups', today')
      BY <2>1, <2>3, <2>4
    <2> QED
      BY <2>3, <2>5, <2>6
  <1>7. CASE Release
    <2> DEFINE history == {i \in DOMAIN backups : OnDisk(i)}
               day == [i \in DOMAIN backups |-> backups[i].day]
               kept == Kept(history, day, today)
    <2>1. PICK n \in Nat : DOMAIN backups = 1..n
      BY <1>1, Numbered
    <2>2. UNCHANGED today /\ backups' = Cleaned
      BY <1>7 DEF Release
    <2>3. /\ DOMAIN backups' = DOMAIN backups
          /\ \A i \in DOMAIN backups : backups'[i].day = backups[i].day
      BY <1>1, <2>2, CleanedBackups
    <2>4. \A k \in kept : k \in DOMAIN backups => backups'[k] = backups[k]
      BY <2>2 DEF Cleaned
    <2>5. kept \subseteq history
      BY DEF Kept, Aged, FirstMet
    <2>6. \A k \in kept : k \in DOMAIN backups' /\ backups'[k].places # {}
      BY <2>3, <2>4, <2>5 DEF OnDisk
    <2>7. ASSUME NEW j \in history PROVE CoveredBy(kept, day, today, j)
      <3>1. Dated(n, history, day)
        BY <1>1, <2>1 DEF Dated
      <3> HIDE DEF history, day
      <3> QED
        BY <1>1, <3>1, KeptCovers
    <2>8. \A k \in history : k \in DOMAIN backups /\ day[k] = backups[k].day
      OBVIOUS
    <2>9. \A i, j \in DOMAIN backups : i <= j => today - backups[j].day <= today - backups[i].day
      BY <1>1 DEF Inv, DaysInOrder
    <2>10. \A j \in DOMAIN backups : backups[j].places # {} => j \in history
      BY DEF OnDisk
    <2> HIDE DEF history, day, kept
    <2>11. ASSUME NEW i \in DOMAIN backups, today - backups[i].day <= WeeklyDays
           PROVE  \E k \in kept : k >= i /\ Week(backups'[k].day) = Week(backups'[i].day)
      <3>1. PICK j \in DOMAIN backups :
                j >= i /\ backups[j].places # {} /\ Week(backups[j].day) = Week(backups[i].day)
        BY <1>2, <2>11
      <3>2. j \in history /\ today - day[j] <= WeeklyDays
        BY <1>1, <2>8, <2>9, <2>10, <2>11, <3>1, RetentionAssumption
      <3>3. PICK k \in kept : k >= j /\ Week(day[k]) = Week(day[j])
        BY <2>7, <3>2 DEF CoveredBy
      <3>4. k \in DOMAIN backups /\ day[k] = backups[k].day /\ day[j] = backups[j].day
        BY <2>5, <2>8, <3>2
      <3> QED
        BY <1>1, <2>3, <3>1, <3>3, <3>4
    <2>12. ASSUME NEW i \in DOMAIN backups, today - backups[i].day <= MonthlyDays
           PROVE  \E k \in kept : k >= i /\ Month(backups'[k].day) = Month(backups'[i].day)
      <3>1. PICK j \in DOMAIN backups :
                j >= i /\ backups[j].places # {} /\ Month(backups[j].day) = Month(backups[i].day)
        BY <1>2, <2>12
      <3>2. j \in history /\ today - day[j] <= MonthlyDays
        BY <1>1, <2>8, <2>9, <2>10, <2>12, <3>1, RetentionAssumption
      <3>3. PICK k \in kept : k >= j /\ Month(day[k]) = Month(day[j])
        BY <2>7, <3>2 DEF CoveredBy
      <3>4. k \in DOMAIN backups /\ day[k] = backups[k].day /\ day[j] = backups[j].day
        BY <2>5, <2>8, <3>2
      <3> QED
        BY <1>1, <2>3, <3>1, <3>3, <3>4
    <2> QED
      BY <2>2, <2>3, <2>6, <2>11, <2>12
  <1>8. \/ UNCHANGED <<backups, today>> \/ NextDay \/ Archive \/ Release
    BY DEF Next, vars, Upload, Record, StoreFile, StoreFails, Undo, Uploading, ScheduledBackup,
           Starts, BackupStep, Fetch, FetchFails, Dump, RestoreBegins, RestoreStep, Replace,
           ReplaceFails, Promote, PromoteFails, PutBack, Crash, Loss
  <1> QED
    BY <1>4, <1>5, <1>6, <1>7, <1>8

(* Of every week and month within their spans retention leaves a backup no older than
   those it deletes, for any calendar and any spans (cleanOldBackupsRetention). *)
THEOREM PeriodKept == Spec => []PeriodKeepsABackup
  <1>1. Init => PeriodKeepsABackup
    BY DEF Init, PeriodKeepsABackup
  <1>2. Inv /\ [Next]_vars /\ PeriodKeepsABackup => PeriodKeepsABackup'
    BY PeriodNext
  <1> QED
    BY <1>1, <1>2, RecoveryInvariant, PTL DEF Spec
===============================================================================
