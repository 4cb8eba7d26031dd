--------------------------- MODULE DeploymentProofs ---------------------------
(***************************************************************************)
(* For any writes, and any numbers of scripts, failures and kills: no      *)
(* write is let in while the schema is dropped, nothing acknowledged       *)
(* before a freeze goes without a trace, exit codes tell what they should, *)
(* and a failed restore has undone itself unless it says otherwise.        *)
(***************************************************************************)
EXTENDS Deployment, TLAPS

DeployPhases  == {"preflight", "backup", "audit", "migrate", "up", "watch"}
Dumped        == {"drop", "load", "swap", "verify", "undo", "reload", "unswap"}
RestorePhases == {"check", "dump"} \cup Dumped
Last          == {"boot", "confirm"}

(* Copies are whole databases; the backup is of the previous schema. *)
CopyInv ==
    /\ backup = Dropped \/ backup.schema = "old"
    /\ Usable(safety) \/ safety = Dropped
    /\ run.manifest => Usable(backup)

(* What there is, at every phase of a run, of the flags of the run. *)
RunInv ==
    /\ run.at # "idle" => run.exit = "none"
    /\ run.at \in DeployPhases => run.script = "deploy" /\ ~run.froze
    /\ run.at = "freeze" => ~run.froze
    /\ run.at \in RestorePhases \cup Last => run.froze
    /\ run.restored => run.at \in Last \cup {"idle"}
    /\ run.at \in RestorePhases => run.manifest
    /\ run.at \in {"preflight", "backup"} => ~run.manifest
    /\ run.at \in {"audit", "migrate", "up", "watch"} => run.manifest
    /\ run.at \in Last => (run.manifest <=> run.restored)
    /\ run.script = "restore" => run.manifest
    /\ run.at \in Last => run.script # "restore"
    /\ run.at \in DeployPhases \cup Last \cup {"freeze", "check", "dump", "drop", "load", "swap"} =>
          ~run.critical
    /\ run.at \in DeployPhases \cup {"freeze", "check", "dump", "drop", "load", "swap"} =>
          ~run.swapped
    /\ run.at \in {"verify", "undo", "reload"} => ~run.critical

(* The site and the schema, phase by phase. *)
SchemaInv ==
    /\ run.at \in DeployPhases => ~frozen
    /\ run.at \in {"preflight", "backup", "audit", "migrate"} => db.schema = "old"
    /\ run.at \in {"up", "watch"} => db.schema = "new"
    /\ run.at = "watch" => app = "new"
    /\ run.at = "freeze" /\ ~run.manifest => db.schema = "old"
    /\ run.at \in RestorePhases => frozen
    /\ run.at \in {"swap", "verify"} => db.schema = "old"
    /\ run.at \in Last => db.schema = "old"
    /\ run.at \in Last /\ ~run.restored => frozen
    /\ run.at = "confirm" => app = "old"
    /\ run.at = "verify" => backup.rows \subseteq files
    /\ run.restored => db.rows \subseteq files

(* What a restore still has of the site as it was when it froze it. *)
AsBefore(d) == d.schema = run.before.schema /\ run.before.rows \subseteq d.rows

UndoInv ==
    /\ run.at \in {"check", "dump", "drop"} => AsBefore(db)
    /\ run.at \in Dumped => AsBefore(safety) /\ held \subseteq kept
    /\ run.at = "unswap" /\ ~run.critical => AsBefore(db)
    /\ run.at \in RestorePhases /\ ~run.swapped => run.before.files \subseteq files
    /\ run.at \in RestorePhases /\ run.swapped => run.before.files \subseteq run.aside

Inv ==
    /\ TypeOK
    /\ CopyInv
    /\ RunInv
    /\ SchemaInv
    /\ UndoInv
    /\ ServedDatabaseIsWhole
    /\ NothingLostWithoutTrace
    /\ ExitCodesTell
    /\ FailedRestoreIsUndone

-----------------------------------------------------------------------------
(* What becomes of the record of a run, one field after the other where    *)
(* several change.                                                         *)
Codes == {"none", "0", "1", "2"}

(* The fields that neither a phase nor an exit code changes. *)
Others(q, r) ==
    /\ q.script = r.script /\ q.manifest = r.manifest /\ q.initialize = r.initialize
    /\ q.aside = r.aside /\ q.swapped = r.swapped /\ q.restored = r.restored
    /\ q.froze = r.froze /\ q.before = r.before

LEMMA PhaseTypes ==
    {"preflight", "idle", "backup", "audit", "migrate", "up", "watch", "freeze", "check", "dump",
     "drop", "load", "swap", "verify", "undo", "reload", "unswap", "boot", "confirm"} \subseteq Phases
  BY DEF Phases

LEMMA RunAt ==
    ASSUME NEW r \in Run, NEW p \in Phases
    PROVE  LET q == [r EXCEPT !.at = p]
           IN  q \in Run /\ q.at = p /\ q.exit = r.exit /\ q.critical = r.critical /\ Others(q, r)
  BY DEF Run, Others

LEMMA RunEnds ==
    ASSUME NEW r \in Run, NEW c \in Codes
    PROVE  LET q == [r EXCEPT !.at = "idle", !.exit = c]
           IN  q \in Run /\ q.at = "idle" /\ q.exit = c /\ q.critical = r.critical /\ Others(q, r)
  BY DEF Run, Others, Codes, Phases

LEMMA RunCritical ==
    ASSUME NEW r \in Run, NEW p \in Phases
    PROVE  LET q == [r EXCEPT !.at = p, !.critical = TRUE]
           IN  q \in Run /\ q.at = p /\ q.exit = r.exit /\ q.critical /\ Others(q, r)
  <1> DEFINE k == [r EXCEPT !.at = p]
  <1>1. k \in Run /\ k.at = p /\ k.exit = r.exit /\ Others(k, r)
    BY RunAt
  <1> HIDE DEF k
  <1>2. LET q == [k EXCEPT !.critical = TRUE]
        IN  q \in Run /\ q.at = p /\ q.exit = r.exit /\ q.critical /\ Others(q, r)
    BY <1>1 DEF Run, Others
  <1> QED
    BY <1>2 DEF k

LEMMA RunFails ==
    ASSUME NEW r \in Run
    PROVE  LET q == [r EXCEPT !.at = "idle", !.exit = FailureCode(r)]
           IN  /\ q \in Run /\ q.at = "idle" /\ q.critical = r.critical /\ Others(q, r)
               /\ r.script = "restore" => q.exit = "1"
               /\ r.script # "restore" => q.exit = "2"
  <1> DEFINE c == FailureCode(r)
             q == [r EXCEPT !.at = "idle", !.exit = c]
  <1>1. /\ c \in Codes
        /\ r.script = "restore" => c = "1"
        /\ r.script # "restore" => c = "2"
    BY DEF Codes, FailureCode
  <1> HIDE DEF c
  <1>2. q \in Run /\ q.at = "idle" /\ q.exit = c /\ q.critical = r.critical /\ Others(q, r)
    BY <1>1, RunEnds
  <1> HIDE DEF q
  <1>3. /\ q \in Run /\ q.at = "idle" /\ q.critical = r.critical /\ Others(q, r)
        /\ r.script = "restore" => q.exit = "1"
        /\ r.script # "restore" => q.exit = "2"
    BY <1>1, <1>2
  <1> QED
    BY <1>3 DEF q, c

LEMMA RunGivesUp ==
    ASSUME NEW r \in Run
    PROVE  LET k == [r EXCEPT !.critical = TRUE]
           IN  k \in Run /\ k.critical /\ k.at = r.at /\ k.exit = r.exit /\ Others(k, r)
  <1> DEFINE k == [r EXCEPT !.critical = TRUE]
  <1>1. k \in Run /\ k.critical /\ k.at = r.at /\ k.exit = r.exit
    BY DEF Run
  <1>2. Others(k, r)
    BY DEF Run, Others
  <1> QED
    BY <1>1, <1>2

LEMMA RunNew ==
    ASSUME NEW s \in {"deploy", "rollback", "restore"}, NEW p \in Phases, NEW m \in BOOLEAN
    PROVE  LET q == NewRun(s, p, m)
           IN  /\ q \in Run /\ q.script = s /\ q.at = p /\ q.manifest = m /\ q.exit = "none"
               /\ ~q.swapped /\ ~q.restored /\ ~q.critical /\ ~q.froze
  BY DEF Run, NewRun, Usable

LEMMA RunBacked ==
    ASSUME NEW r \in Run, NEW p \in Phases
    PROVE  LET q == [r EXCEPT !.at = p, !.manifest = TRUE]
           IN  /\ q \in Run /\ q.at = p /\ q.exit = r.exit /\ q.critical = r.critical /\ q.manifest
               /\ q.script = r.script /\ q.swapped = r.swapped /\ q.restored = r.restored
               /\ q.froze = r.froze
  BY DEF Run

AfterSwap(q, r, p, f) ==
    /\ q \in Run /\ q.at = p /\ q.exit = r.exit /\ q.critical = r.critical
    /\ q.aside = f /\ q.swapped
    /\ q.script = r.script /\ q.manifest = r.manifest /\ q.restored = r.restored
    /\ q.froze = r.froze /\ q.before = r.before

LEMMA RunSwapped ==
    ASSUME NEW r \in Run, NEW p \in Phases, NEW f \in SUBSET Writes
    PROVE  AfterSwap([r EXCEPT !.at = p, !.aside = f, !.swapped = TRUE], r, p, f)
  <1> DEFINE k == [r EXCEPT !.at = p]
             l == [k EXCEPT !.aside = f]
  <1>1. k \in Run /\ k.at = p /\ k.exit = r.exit /\ k.critical = r.critical /\ Others(k, r)
    BY RunAt
  <1> HIDE DEF k
  <1>2. /\ l \in Run /\ l.at = p /\ l.exit = r.exit /\ l.critical = r.critical /\ l.aside = f
        /\ l.script = r.script /\ l.manifest = r.manifest /\ l.restored = r.restored
        /\ l.froze = r.froze /\ l.before = r.before
    BY <1>1 DEF Run, Others
  <1> HIDE DEF l
  <1>3. LET q == [l EXCEPT !.swapped = TRUE]
        IN  /\ q \in Run /\ q.at = p /\ q.exit = r.exit /\ q.critical = r.critical
            /\ q.aside = f /\ q.swapped
            /\ q.script = r.script /\ q.manifest = r.manifest /\ q.restored = r.restored
            /\ q.froze = r.froze /\ q.before = r.before
    BY <1>2 DEF Run
  <1> QED
    BY <1>3 DEF k, l, AfterSwap

AfterFreeze(q, r, p, b) ==
    /\ q \in Run /\ q.at = p /\ q.exit = r.exit /\ q.critical = r.critical
    /\ q.froze /\ q.before = b
    /\ q.script = r.script /\ q.manifest = r.manifest /\ q.restored = r.restored
    /\ q.swapped = r.swapped

LEMMA RunFrozen ==
    ASSUME NEW r \in Run, NEW p \in Phases,
           NEW b \in [schema: {"old", "new", "partial", "none"},
                      rows: SUBSET Writes, files: SUBSET Writes]
    PROVE  AfterFreeze([r EXCEPT !.at = p, !.froze = TRUE, !.before = b], r, p, b)
  <1> DEFINE k == [r EXCEPT !.at = p]
             l == [k EXCEPT !.froze = TRUE]
  <1>1. k \in Run /\ k.at = p /\ k.exit = r.exit /\ k.critical = r.critical /\ Others(k, r)
    BY RunAt
  <1> HIDE DEF k
  <1>2. /\ l \in Run /\ l.at = p /\ l.exit = r.exit /\ l.critical = r.critical /\ l.froze
        /\ l.script = r.script /\ l.manifest = r.manifest /\ l.restored = r.restored
        /\ l.swapped = r.swapped
    BY <1>1 DEF Run, Others
  <1> HIDE DEF l
  <1>3. LET q == [l EXCEPT !.before = b]
        IN  /\ q \in Run /\ q.at = p /\ q.exit = r.exit /\ q.critical = r.critical
            /\ q.froze /\ q.before = b
            /\ q.script = r.script /\ q.manifest = r.manifest /\ q.restored = r.restored
            /\ q.swapped = r.swapped
    BY <1>2 DEF Run
  <1> QED
    BY <1>3 DEF k, l, AfterFreeze

LEMMA RunRestored ==
    ASSUME NEW r \in Run
    PROVE  /\ LET q == [r EXCEPT !.at = "boot", !.restored = TRUE]
              IN  /\ q \in Run /\ q.at = "boot" /\ q.exit = r.exit /\ q.critical = r.critical
                  /\ q.restored /\ q.script = r.script /\ q.manifest = r.manifest
                  /\ q.froze = r.froze
           /\ LET q == [r EXCEPT !.at = "idle", !.exit = "0", !.restored = TRUE]
              IN  /\ q \in Run /\ q.at = "idle" /\ q.exit = "0" /\ q.critical = r.critical
                  /\ q.restored /\ q.script = r.script /\ q.manifest = r.manifest
                  /\ q.froze = r.froze
  <1>1. LET q == [r EXCEPT !.at = "boot", !.restored = TRUE]
        IN  /\ q \in Run /\ q.at = "boot" /\ q.exit = r.exit /\ q.critical = r.critical
            /\ q.restored /\ q.script = r.script /\ q.manifest = r.manifest
            /\ q.froze = r.froze
    BY DEF Run, Phases
  <1> DEFINE k == [r EXCEPT !.at = "idle", !.exit = "0"]
  <1>2. k \in Run /\ k.at = "idle" /\ k.exit = "0" /\ k.critical = r.critical /\ Others(k, r)
    BY RunEnds DEF Codes
  <1> HIDE DEF k
  <1>3. LET q == [k EXCEPT !.restored = TRUE]
        IN  /\ q \in Run /\ q.at = "idle" /\ q.exit = "0" /\ q.critical = r.critical
            /\ q.restored /\ q.script = r.script /\ q.manifest = r.manifest
            /\ q.froze = r.froze
    BY <1>2 DEF Run, Others
  <1> QED
    BY <1>1, <1>3 DEF k

LEMMA DroppedDb ==
    /\ Dropped \in Database /\ Dropped.schema = "none" /\ Dropped.rows = {}
    /\ ~Usable(Dropped)
  BY DEF Dropped, Database, Usable

LEMMA ForbiddenDb ==
    ASSUME NEW d \in Database, Usable(d) \/ d = Dropped
    PROVE  /\ Forbidden(d) \in Database
           /\ Forbidden(d).schema = d.schema /\ Forbidden(d).rows = d.rows
           /\ Usable(Forbidden(d)) \/ Forbidden(d) = Dropped
  <1>1. Forbidden(d) \in Database /\ Forbidden(d).schema = d.schema /\ Forbidden(d).rows = d.rows
    BY DEF Forbidden, Database
  <1>2. CASE Usable(d)
    BY <1>1, <1>2 DEF Usable
  <1>3. CASE d = Dropped
    <2>1. \A e \in Database : e = [schema |-> e.schema, rows |-> e.rows, allowed |-> e.allowed]
      BY DEF Database
    <2>2. Forbidden(d).schema = "none" /\ Forbidden(d).rows = {}
      BY <1>1, <1>3, DroppedDb
    <2>4. Forbidden(d).allowed = FALSE
      BY DEF Forbidden, Database
    <2>3. Forbidden(d) = Dropped
      BY <1>1, <2>1, <2>2, <2>4 DEF Dropped
    <2> QED
      BY <1>1, <2>3
  <1> QED
    BY <1>1, <1>2, <1>3

-----------------------------------------------------------------------------
(* Every action keeps the invariant: what it makes of the run, what it     *)
(* makes of the database where it changes it, then one step per conjunct.  *)
USE DEF DeployPhases, Dumped, RestorePhases, Last

LEMMA InitHolds == Init => Inv
  <1> SUFFICES ASSUME Init PROVE Inv
    OBVIOUS
  <1>1. /\ run \in Run /\ run.at = "idle" /\ run.exit = "none" /\ ~run.manifest
        /\ ~run.restored /\ ~run.froze /\ run.script = "none"
    BY DEF Init, Run, NewRun, Phases, Usable
  <1>2. /\ db \in Database /\ db.schema = "old" /\ db.rows = {}
        /\ backup \in Database /\ safety \in Database
    BY DEF Init, Database, Dropped
  <1>3. /\ req \in [Writes -> {"idle", "admitted", "acked", "refused"}]
        /\ runs \in 0 .. MaxRuns /\ faults \in 0 .. MaxFaults
    BY BoundsAssumption DEF Init
  <1>7. TypeOK
    BY <1>1, <1>2, <1>3 DEF Init, TypeOK, Usable
  <1>4. CopyInv /\ RunInv /\ SchemaInv /\ UndoInv
    BY <1>1, <1>2 DEF Init, CopyInv, RunInv, SchemaInv, UndoInv, Restores
  <1>5. ServedDatabaseIsWhole /\ NothingLostWithoutTrace
    BY <1>2 DEF Init, ServedDatabaseIsWhole, NothingLostWithoutTrace, Usable
  <1>6. ExitCodesTell /\ FailedRestoreIsUndone
    BY <1>1 DEF ExitCodesTell, FailedRestoreIsUndone
  <1> QED
    BY <1>4, <1>5, <1>6, <1>7 DEF Inv

LEMMA AdmitKeeps ==
    ASSUME Inv, NEW w \in Writes, Admit(w)
    PROVE  Inv'
  <1>1. UNCHANGED run
    BY DEF Admit
  <1>2. TypeOK'
    BY <1>1, BoundsAssumption DEF Inv, TypeOK, Admit, Fault, NoFault
  <1>3. CopyInv'
    BY <1>1 DEF Inv, Admit, TypeOK, CopyInv, RunInv, SchemaInv, Database, Usable, Dropped
  <1>4. RunInv'
    BY <1>1 DEF Inv, Admit, TypeOK, RunInv, Restores, Usable, Dropped
  <1>5. SchemaInv'
    BY <1>1 DEF Inv, Admit, TypeOK, CopyInv, RunInv, SchemaInv, Restores, Usable, Dropped
  <1>6. UndoInv'
    BY <1>1 DEF Inv, Admit, TypeOK, RunInv, SchemaInv, UndoInv, NothingLostWithoutTrace, AsBefore,
       Usable, Dropped
  <1>7. ServedDatabaseIsWhole'
    BY <1>1 DEF Inv, Admit, TypeOK, CopyInv, RunInv, SchemaInv, ServedDatabaseIsWhole, Usable,
       Dropped
  <1>8. NothingLostWithoutTrace'
    BY <1>1 DEF Inv, Admit, TypeOK, UndoInv, NothingLostWithoutTrace, Usable, Dropped
  <1>9. ExitCodesTell'
    BY <1>1 DEF Inv, Admit, TypeOK, RunInv, SchemaInv, ExitCodesTell, Idle, Usable, Dropped
  <1>10. FailedRestoreIsUndone'
    BY <1>1 DEF Inv, Admit, TypeOK, RunInv, SchemaInv, UndoInv, AsBefore, FailedRestoreIsUndone,
       Idle, Restores, Usable, Dropped
  <1> QED
    BY <1>2, <1>3, <1>4, <1>5, <1>6, <1>7, <1>8, <1>9, <1>10 DEF Inv

LEMMA CommitKeeps ==
    ASSUME Inv, NEW w \in Writes, Commit(w)
    PROVE  Inv'
  <1>1. UNCHANGED run
    BY DEF Commit
  <1>2. /\ db' \in Database
        /\ (Usable(db') \/ db' = Dropped)
    BY DEF Inv, TypeOK, CopyInv, Database, Usable, Dropped, Commit
  <1>3. TypeOK'
    BY <1>1, <1>2, BoundsAssumption DEF Inv, TypeOK, Commit, Fault, NoFault
  <1>4. CopyInv'
    BY <1>1, <1>2 DEF Inv, Commit, TypeOK, CopyInv, RunInv, SchemaInv, Database, Usable, Dropped
  <1>5. RunInv'
    BY <1>1, <1>2 DEF Inv, Commit, TypeOK, RunInv, Restores, Usable, Dropped
  <1>6. SchemaInv'
    BY <1>1, <1>2 DEF Inv, Commit, TypeOK, CopyInv, RunInv, SchemaInv, Restores, Usable, Dropped
  <1>7. UndoInv'
    BY <1>1, <1>2 DEF Inv, Commit, TypeOK, RunInv, SchemaInv, UndoInv, NothingLostWithoutTrace,
       AsBefore, Usable, Dropped
  <1>8. ServedDatabaseIsWhole'
    BY <1>1, <1>2 DEF Inv, Commit, TypeOK, CopyInv, RunInv, SchemaInv, ServedDatabaseIsWhole,
       Usable, Dropped
  <1>9. NothingLostWithoutTrace'
    BY <1>1, <1>2 DEF Inv, Commit, TypeOK, UndoInv, NothingLostWithoutTrace, Usable, Dropped
  <1>10. ExitCodesTell'
    BY <1>1, <1>2 DEF Inv, Commit, TypeOK, RunInv, SchemaInv, ExitCodesTell, Idle, Usable, Dropped
  <1>11. FailedRestoreIsUndone'
    BY <1>1, <1>2 DEF Inv, Commit, TypeOK, RunInv, SchemaInv, UndoInv, AsBefore,
       FailedRestoreIsUndone, Idle, Restores, Usable, Dropped
  <1> QED
    BY <1>3, <1>4, <1>5, <1>6, <1>7, <1>8, <1>9, <1>10, <1>11 DEF Inv

LEMMA RefusedKeeps ==
    ASSUME Inv, NEW w \in Writes, Refused(w)
    PROVE  Inv'
  <1>1. UNCHANGED run
    BY DEF Refused
  <1>2. TypeOK'
    BY <1>1, BoundsAssumption DEF Inv, TypeOK, Refused, Fault, NoFault
  <1>3. CopyInv'
    BY <1>1 DEF Inv, Refused, TypeOK, CopyInv, RunInv, SchemaInv, Database, Usable, Dropped
  <1>4. RunInv'
    BY <1>1 DEF Inv, Refused, TypeOK, RunInv, Restores, Usable, Dropped
  <1>5. SchemaInv'
    BY <1>1 DEF Inv, Refused, TypeOK, CopyInv, RunInv, SchemaInv, Restores, Usable, Dropped
  <1>6. UndoInv'
    BY <1>1 DEF Inv, Refused, TypeOK, RunInv, SchemaInv, UndoInv, NothingLostWithoutTrace,
       AsBefore, Usable, Dropped
  <1>7. ServedDatabaseIsWhole'
    BY <1>1 DEF Inv, Refused, TypeOK, CopyInv, RunInv, SchemaInv, ServedDatabaseIsWhole, Usable,
       Dropped
  <1>8. NothingLostWithoutTrace'
    BY <1>1 DEF Inv, Refused, TypeOK, UndoInv, NothingLostWithoutTrace, Usable, Dropped
  <1>9. ExitCodesTell'
    BY <1>1 DEF Inv, Refused, TypeOK, RunInv, SchemaInv, ExitCodesTell, Idle, Usable, Dropped
  <1>10. FailedRestoreIsUndone'
    BY <1>1 DEF Inv, Refused, TypeOK, RunInv, SchemaInv, UndoInv, AsBefore, FailedRestoreIsUndone,
       Idle, Restores, Usable, Dropped
  <1> QED
    BY <1>2, <1>3, <1>4, <1>5, <1>6, <1>7, <1>8, <1>9, <1>10 DEF Inv

LEMMA AllowRestoreKeeps ==
    ASSUME Inv, AllowRestore
    PROVE  Inv'
  <1>1. UNCHANGED run
    BY DEF AllowRestore
  <1>2. /\ db' \in Database
        /\ (Usable(db') \/ db' = Dropped)
    BY DEF Inv, TypeOK, CopyInv, Database, Usable, Dropped, AllowRestore
  <1>3. TypeOK'
    BY <1>1, <1>2, BoundsAssumption DEF Inv, TypeOK, AllowRestore, Fault, NoFault
  <1>4. CopyInv'
    BY <1>1, <1>2 DEF Inv, AllowRestore, TypeOK, CopyInv, RunInv, SchemaInv, Database, Usable,
       Dropped
  <1>5. RunInv'
    BY <1>1, <1>2 DEF Inv, AllowRestore, TypeOK, RunInv, Restores, Usable, Dropped
  <1>6. SchemaInv'
    BY <1>1, <1>2 DEF Inv, AllowRestore, TypeOK, CopyInv, RunInv, SchemaInv, Restores, Usable,
       Dropped
  <1>7. UndoInv'
    BY <1>1, <1>2 DEF Inv, AllowRestore, TypeOK, RunInv, SchemaInv, UndoInv,
       NothingLostWithoutTrace, AsBefore, Usable, Dropped
  <1>8. ServedDatabaseIsWhole'
    BY <1>1, <1>2 DEF Inv, AllowRestore, TypeOK, CopyInv, RunInv, SchemaInv,
       ServedDatabaseIsWhole, Usable, Dropped
  <1>9. NothingLostWithoutTrace'
    BY <1>1, <1>2 DEF Inv, AllowRestore, TypeOK, UndoInv, NothingLostWithoutTrace, Usable, Dropped
  <1>10. ExitCodesTell'
    BY <1>1, <1>2 DEF Inv, AllowRestore, TypeOK, RunInv, SchemaInv, ExitCodesTell, Idle, Usable,
       Dropped
  <1>11. FailedRestoreIsUndone'
    BY <1>1, <1>2 DEF Inv, AllowRestore, TypeOK, RunInv, SchemaInv, UndoInv, AsBefore,
       FailedRestoreIsUndone, Idle, Restores, Usable, Dropped
  <1> QED
    BY <1>3, <1>4, <1>5, <1>6, <1>7, <1>8, <1>9, <1>10, <1>11 DEF Inv

LEMMA BeginDeployKeeps ==
    ASSUME Inv, BeginDeploy
    PROVE  Inv'
  <1>0. run' = NewRun("deploy", "preflight", FALSE)
    BY DEF Begin, BeginDeploy
  <1>n. "deploy" \in {"deploy", "rollback", "restore"} /\ "preflight" \in Phases
    BY PhaseTypes
  <1>1. /\ run' \in Run
        /\ run'.script = "deploy"
        /\ run'.at = "preflight"
        /\ run'.manifest = FALSE
        /\ run'.exit = "none"
        /\ ~run'.swapped
        /\ ~run'.restored
        /\ ~run'.critical
        /\ ~run'.froze
    BY <1>0, <1>n, RunNew, Zenon
  <1>2. runs' \in 0 .. MaxRuns
    BY BoundsAssumption DEF Inv, TypeOK, BeginDeploy, InOrder, Begin
  <1>3. TypeOK'
    BY <1>1, <1>2 DEF Inv, TypeOK, BeginDeploy, InOrder, Begin, Fault, NoFault
  <1>4. CopyInv'
    BY <1>1 DEF Inv, BeginDeploy, InOrder, Begin, TypeOK, CopyInv, RunInv, SchemaInv, Database,
       Usable, Dropped
  <1>5. RunInv'
    BY <1>1 DEF Inv, BeginDeploy, InOrder, Begin, TypeOK, RunInv, Restores, Usable, Dropped
  <1>6. SchemaInv'
    BY <1>1 DEF Inv, BeginDeploy, InOrder, Begin, TypeOK, CopyInv, RunInv, SchemaInv, Restores,
       Usable, Dropped
  <1>7. UndoInv'
    BY <1>1 DEF Inv, BeginDeploy, InOrder, Begin, TypeOK, RunInv, SchemaInv, UndoInv,
       NothingLostWithoutTrace, AsBefore, Usable, Dropped
  <1>8. ServedDatabaseIsWhole'
    BY <1>1 DEF Inv, BeginDeploy, InOrder, Begin, TypeOK, CopyInv, RunInv, SchemaInv,
       ServedDatabaseIsWhole, Usable, Dropped
  <1>9. NothingLostWithoutTrace'
    BY <1>1 DEF Inv, BeginDeploy, InOrder, Begin, TypeOK, UndoInv, NothingLostWithoutTrace,
       Usable, Dropped
  <1>10. ExitCodesTell'
    BY <1>1 DEF Inv, BeginDeploy, InOrder, Begin, TypeOK, RunInv, SchemaInv, ExitCodesTell, Idle,
       Usable, Dropped
  <1>11. FailedRestoreIsUndone'
    BY <1>1 DEF Inv, BeginDeploy, InOrder, Begin, TypeOK, RunInv, SchemaInv, UndoInv, AsBefore,
       FailedRestoreIsUndone, Idle, Restores, Usable, Dropped
  <1> QED
    BY <1>3, <1>4, <1>5, <1>6, <1>7, <1>8, <1>9, <1>10, <1>11 DEF Inv

LEMMA BeginRollbackKeeps ==
    ASSUME Inv, BeginRollback
    PROVE  Inv'
  <1>1. CASE /\ Usable(backup)
             /\ Begin("rollback", "freeze", TRUE)
    <2>0. run' = NewRun("rollback", "freeze", TRUE)
      BY <1>1 DEF Begin
    <2>n. "rollback" \in {"deploy", "rollback", "restore"} /\ "freeze" \in Phases
      BY PhaseTypes
    <2>1. /\ run' \in Run
          /\ run'.script = "rollback"
          /\ run'.at = "freeze"
          /\ run'.manifest = TRUE
          /\ run'.exit = "none"
          /\ ~run'.swapped
          /\ ~run'.restored
          /\ ~run'.critical
          /\ ~run'.froze
      BY <2>0, <2>n, RunNew, Zenon
    <2>2. runs' \in 0 .. MaxRuns
      BY <1>1, BoundsAssumption DEF Inv, TypeOK, BeginRollback, Begin
    <2>3. TypeOK'
      BY <1>1, <2>1, <2>2 DEF Inv, TypeOK, BeginRollback, Begin, Fault, NoFault
    <2>4. CopyInv'
      BY <1>1, <2>1 DEF Inv, BeginRollback, Begin, TypeOK, CopyInv, RunInv, SchemaInv, Database,
         Usable, Dropped
    <2>5. RunInv'
      BY <1>1, <2>1 DEF Inv, BeginRollback, Begin, TypeOK, RunInv, Restores, Usable, Dropped
    <2>6. SchemaInv'
      BY <1>1, <2>1 DEF Inv, BeginRollback, Begin, TypeOK, CopyInv, RunInv, SchemaInv, Restores,
         Usable, Dropped
    <2>7. UndoInv'
      BY <1>1, <2>1 DEF Inv, BeginRollback, Begin, TypeOK, RunInv, SchemaInv, UndoInv,
         NothingLostWithoutTrace, AsBefore, Usable, Dropped
    <2>8. ServedDatabaseIsWhole'
      BY <1>1, <2>1 DEF Inv, BeginRollback, Begin, TypeOK, CopyInv, RunInv, SchemaInv,
         ServedDatabaseIsWhole, Usable, Dropped
    <2>9. NothingLostWithoutTrace'
      BY <1>1, <2>1 DEF Inv, BeginRollback, Begin, TypeOK, UndoInv, NothingLostWithoutTrace,
         Usable, Dropped
    <2>10. ExitCodesTell'
      BY <1>1, <2>1 DEF Inv, BeginRollback, Begin, TypeOK, RunInv, SchemaInv, ExitCodesTell, Idle,
         Usable, Dropped
    <2>11. FailedRestoreIsUndone'
      BY <1>1, <2>1 DEF Inv, BeginRollback, Begin, TypeOK, RunInv, SchemaInv, UndoInv, AsBefore,
         FailedRestoreIsUndone, Idle, Restores, Usable, Dropped
    <2> QED
      BY <2>3, <2>4, <2>5, <2>6, <2>7, <2>8, <2>9, <2>10, <2>11 DEF Inv
  <1>2. CASE /\ db.schema = "old"
             /\ Begin("rollback", "freeze", FALSE)
    <2>0. run' = NewRun("rollback", "freeze", FALSE)
      BY <1>2 DEF Begin
    <2>n. "rollback" \in {"deploy", "rollback", "restore"} /\ "freeze" \in Phases
      BY PhaseTypes
    <2>1. /\ run' \in Run
          /\ run'.script = "rollback"
          /\ run'.at = "freeze"
          /\ run'.manifest = FALSE
          /\ run'.exit = "none"
          /\ ~run'.swapped
          /\ ~run'.restored
          /\ ~run'.critical
          /\ ~run'.froze
      BY <2>0, <2>n, RunNew, Zenon
    <2>2. runs' \in 0 .. MaxRuns
      BY <1>2, BoundsAssumption DEF Inv, TypeOK, BeginRollback, Begin
    <2>3. TypeOK'
      BY <1>2, <2>1, <2>2 DEF Inv, TypeOK, BeginRollback, Begin, Fault, NoFault
    <2>4. CopyInv'
      BY <1>2, <2>1 DEF Inv, BeginRollback, Begin, TypeOK, CopyInv, RunInv, SchemaInv, Database,
         Usable, Dropped
    <2>5. RunInv'
      BY <1>2, <2>1 DEF Inv, BeginRollback, Begin, TypeOK, RunInv, Restores, Usable, Dropped
    <2>6. SchemaInv'
      BY <1>2, <2>1 DEF Inv, BeginRollback, Begin, TypeOK, CopyInv, RunInv, SchemaInv, Restores,
         Usable, Dropped
    <2>7. UndoInv'
      BY <1>2, <2>1 DEF Inv, BeginRollback, Begin, TypeOK, RunInv, SchemaInv, UndoInv,
         NothingLostWithoutTrace, AsBefore, Usable, Dropped
    <2>8. ServedDatabaseIsWhole'
      BY <1>2, <2>1 DEF Inv, BeginRollback, Begin, TypeOK, CopyInv, RunInv, SchemaInv,
         ServedDatabaseIsWhole, Usable, Dropped
    <2>9. NothingLostWithoutTrace'
      BY <1>2, <2>1 DEF Inv, BeginRollback, Begin, TypeOK, UndoInv, NothingLostWithoutTrace,
         Usable, Dropped
    <2>10. ExitCodesTell'
      BY <1>2, <2>1 DEF Inv, BeginRollback, Begin, TypeOK, RunInv, SchemaInv, ExitCodesTell, Idle,
         Usable, Dropped
    <2>11. FailedRestoreIsUndone'
      BY <1>2, <2>1 DEF Inv, BeginRollback, Begin, TypeOK, RunInv, SchemaInv, UndoInv, AsBefore,
         FailedRestoreIsUndone, Idle, Restores, Usable, Dropped
    <2> QED
      BY <2>3, <2>4, <2>5, <2>6, <2>7, <2>8, <2>9, <2>10, <2>11 DEF Inv
  <1> QED
    BY <1>1, <1>2 DEF BeginRollback

LEMMA BeginRestoreKeeps ==
    ASSUME Inv, BeginRestore
    PROVE  Inv'
  <1>0. run' = NewRun("restore", "freeze", TRUE)
    BY DEF Begin, BeginRestore
  <1>n. "restore" \in {"deploy", "rollback", "restore"} /\ "freeze" \in Phases
    BY PhaseTypes
  <1>1. /\ run' \in Run
        /\ run'.script = "restore"
        /\ run'.at = "freeze"
        /\ run'.manifest = TRUE
        /\ run'.exit = "none"
        /\ ~run'.swapped
        /\ ~run'.restored
        /\ ~run'.critical
        /\ ~run'.froze
    BY <1>0, <1>n, RunNew, Zenon
  <1>2. runs' \in 0 .. MaxRuns
    BY BoundsAssumption DEF Inv, TypeOK, BeginRestore, Begin
  <1>3. TypeOK'
    BY <1>1, <1>2 DEF Inv, TypeOK, BeginRestore, Begin, Fault, NoFault
  <1>4. CopyInv'
    BY <1>1 DEF Inv, BeginRestore, Begin, TypeOK, CopyInv, RunInv, SchemaInv, Database, Usable,
       Dropped
  <1>5. RunInv'
    BY <1>1 DEF Inv, BeginRestore, Begin, TypeOK, RunInv, Restores, Usable, Dropped
  <1>6. SchemaInv'
    BY <1>1 DEF Inv, BeginRestore, Begin, TypeOK, CopyInv, RunInv, SchemaInv, Restores, Usable,
       Dropped
  <1>7. UndoInv'
    BY <1>1 DEF Inv, BeginRestore, Begin, TypeOK, RunInv, SchemaInv, UndoInv,
       NothingLostWithoutTrace, AsBefore, Usable, Dropped
  <1>8. ServedDatabaseIsWhole'
    BY <1>1 DEF Inv, BeginRestore, Begin, TypeOK, CopyInv, RunInv, SchemaInv,
       ServedDatabaseIsWhole, Usable, Dropped
  <1>9. NothingLostWithoutTrace'
    BY <1>1 DEF Inv, BeginRestore, Begin, TypeOK, UndoInv, NothingLostWithoutTrace, Usable,
       Dropped
  <1>10. ExitCodesTell'
    BY <1>1 DEF Inv, BeginRestore, Begin, TypeOK, RunInv, SchemaInv, ExitCodesTell, Idle, Usable,
       Dropped
  <1>11. FailedRestoreIsUndone'
    BY <1>1 DEF Inv, BeginRestore, Begin, TypeOK, RunInv, SchemaInv, UndoInv, AsBefore,
       FailedRestoreIsUndone, Idle, Restores, Usable, Dropped
  <1> QED
    BY <1>3, <1>4, <1>5, <1>6, <1>7, <1>8, <1>9, <1>10, <1>11 DEF Inv

LEMMA PreflightKeeps ==
    ASSUME Inv, Preflight
    PROVE  Inv'
  <1>1. CASE /\ NoFault
             /\ Goes("backup")
    <2>1. /\ run' \in Run
          /\ run'.at = "backup"
          /\ run'.exit = run.exit
          /\ run'.critical = run.critical
          /\ Others(run', run)
      BY <1>1, RunAt, PhaseTypes DEF Inv, TypeOK, Preflight, Goes
    <2>2. TypeOK'
      BY <1>1, <2>1, BoundsAssumption DEF Inv, TypeOK, Preflight, Fault, NoFault
    <2>3. CopyInv'
      BY <1>1, <2>1 DEF Inv, Preflight, TypeOK, CopyInv, RunInv, SchemaInv, Database, Others,
         Usable, Dropped
    <2>4. RunInv'
      BY <1>1, <2>1 DEF Inv, Preflight, TypeOK, RunInv, Restores, Others, Usable, Dropped
    <2>5. SchemaInv'
      BY <1>1, <2>1 DEF Inv, Preflight, TypeOK, CopyInv, RunInv, SchemaInv, Restores, Others,
         Usable, Dropped
    <2>6. UndoInv'
      BY <1>1, <2>1 DEF Inv, Preflight, TypeOK, RunInv, SchemaInv, UndoInv,
         NothingLostWithoutTrace, AsBefore, Others, Usable, Dropped
    <2>7. ServedDatabaseIsWhole'
      BY <1>1, <2>1 DEF Inv, Preflight, TypeOK, CopyInv, RunInv, SchemaInv, ServedDatabaseIsWhole,
         Others, Usable, Dropped
    <2>8. NothingLostWithoutTrace'
      BY <1>1, <2>1 DEF Inv, Preflight, TypeOK, UndoInv, NothingLostWithoutTrace, Others, Usable,
         Dropped
    <2>9. ExitCodesTell'
      BY <1>1, <2>1 DEF Inv, Preflight, TypeOK, RunInv, SchemaInv, ExitCodesTell, Idle, Others,
         Usable, Dropped
    <2>10. FailedRestoreIsUndone'
      BY <1>1, <2>1 DEF Inv, Preflight, TypeOK, RunInv, SchemaInv, UndoInv, AsBefore,
         FailedRestoreIsUndone, Idle, Restores, Others, Usable, Dropped
    <2> QED
      BY <2>2, <2>3, <2>4, <2>5, <2>6, <2>7, <2>8, <2>9, <2>10 DEF Inv
  <1>2. CASE /\ Fault
             /\ Goes("freeze")
    <2>1. /\ run' \in Run
          /\ run'.at = "freeze"
          /\ run'.exit = run.exit
          /\ run'.critical = run.critical
          /\ Others(run', run)
      BY <1>2, RunAt, PhaseTypes DEF Inv, TypeOK, Preflight, Goes
    <2>2. TypeOK'
      BY <1>2, <2>1, BoundsAssumption DEF Inv, TypeOK, Preflight, Fault, NoFault
    <2>3. CopyInv'
      BY <1>2, <2>1 DEF Inv, Preflight, TypeOK, CopyInv, RunInv, SchemaInv, Database, Others,
         Usable, Dropped
    <2>4. RunInv'
      BY <1>2, <2>1 DEF Inv, Preflight, TypeOK, RunInv, Restores, Others, Usable, Dropped
    <2>5. SchemaInv'
      BY <1>2, <2>1 DEF Inv, Preflight, TypeOK, CopyInv, RunInv, SchemaInv, Restores, Others,
         Usable, Dropped
    <2>6. UndoInv'
      BY <1>2, <2>1 DEF Inv, Preflight, TypeOK, RunInv, SchemaInv, UndoInv,
         NothingLostWithoutTrace, AsBefore, Others, Usable, Dropped
    <2>7. ServedDatabaseIsWhole'
      BY <1>2, <2>1 DEF Inv, Preflight, TypeOK, CopyInv, RunInv, SchemaInv, ServedDatabaseIsWhole,
         Others, Usable, Dropped
    <2>8. NothingLostWithoutTrace'
      BY <1>2, <2>1 DEF Inv, Preflight, TypeOK, UndoInv, NothingLostWithoutTrace, Others, Usable,
         Dropped
    <2>9. ExitCodesTell'
      BY <1>2, <2>1 DEF Inv, Preflight, TypeOK, RunInv, SchemaInv, ExitCodesTell, Idle, Others,
         Usable, Dropped
    <2>10. FailedRestoreIsUndone'
      BY <1>2, <2>1 DEF Inv, Preflight, TypeOK, RunInv, SchemaInv, UndoInv, AsBefore,
         FailedRestoreIsUndone, Idle, Restores, Others, Usable, Dropped
    <2> QED
      BY <2>2, <2>3, <2>4, <2>5, <2>6, <2>7, <2>8, <2>9, <2>10 DEF Inv
  <1> QED
    BY <1>1, <1>2 DEF Preflight

LEMMA BackupKeeps ==
    ASSUME Inv, Backup
    PROVE  Inv'
  <1>1. /\ run' \in Run
        /\ run'.at = "audit"
        /\ run'.exit = run.exit
        /\ run'.critical = run.critical
        /\ run'.manifest
        /\ run'.script = run.script
        /\ run'.swapped = run.swapped
        /\ run'.restored = run.restored
        /\ run'.froze = run.froze
    <2>1. /\ run \in Run /\ "audit" \in Phases
          /\ run' = [run EXCEPT !.at = "audit", !.manifest = TRUE]
      BY PhaseTypes DEF Inv, TypeOK, Backup
    <2> QED
      BY <2>1, RunBacked
  <1>2. TypeOK'
    BY <1>1, BoundsAssumption DEF Inv, TypeOK, Backup, Fault, NoFault
  <1>3. CopyInv'
    BY <1>1 DEF Inv, Backup, TypeOK, CopyInv, RunInv, SchemaInv, Database, Usable, Dropped
  <1>4. RunInv'
    BY <1>1 DEF Inv, Backup, TypeOK, RunInv, Restores, Usable, Dropped
  <1>5. SchemaInv'
    BY <1>1 DEF Inv, Backup, TypeOK, CopyInv, RunInv, SchemaInv, Restores, Usable, Dropped
  <1>6. UndoInv'
    BY <1>1 DEF Inv, Backup, TypeOK, RunInv, SchemaInv, UndoInv, NothingLostWithoutTrace,
       AsBefore, Usable, Dropped
  <1>7. ServedDatabaseIsWhole'
    BY <1>1 DEF Inv, Backup, TypeOK, CopyInv, RunInv, SchemaInv, ServedDatabaseIsWhole, Usable,
       Dropped
  <1>8. NothingLostWithoutTrace'
    BY <1>1 DEF Inv, Backup, TypeOK, UndoInv, NothingLostWithoutTrace, Usable, Dropped
  <1>9. ExitCodesTell'
    BY <1>1 DEF Inv, Backup, TypeOK, RunInv, SchemaInv, ExitCodesTell, Idle, Usable, Dropped
  <1>10. FailedRestoreIsUndone'
    BY <1>1 DEF Inv, Backup, TypeOK, RunInv, SchemaInv, UndoInv, AsBefore, FailedRestoreIsUndone,
       Idle, Restores, Usable, Dropped
  <1> QED
    BY <1>2, <1>3, <1>4, <1>5, <1>6, <1>7, <1>8, <1>9, <1>10 DEF Inv

LEMMA BackupFailsKeeps ==
    ASSUME Inv, BackupFails
    PROVE  Inv'
  <1>1. /\ run' \in Run
        /\ run'.at = "freeze"
        /\ run'.exit = run.exit
        /\ run'.critical = run.critical
        /\ Others(run', run)
    BY RunAt, PhaseTypes DEF Inv, TypeOK, BackupFails, Goes
  <1>2. TypeOK'
    BY <1>1, BoundsAssumption DEF Inv, TypeOK, BackupFails, Fault, NoFault
  <1>3. CopyInv'
    BY <1>1 DEF Inv, BackupFails, TypeOK, CopyInv, RunInv, SchemaInv, Database, Others, Usable,
       Dropped
  <1>4. RunInv'
    BY <1>1 DEF Inv, BackupFails, TypeOK, RunInv, Restores, Others, Usable, Dropped
  <1>5. SchemaInv'
    BY <1>1 DEF Inv, BackupFails, TypeOK, CopyInv, RunInv, SchemaInv, Restores, Others, Usable,
       Dropped
  <1>6. UndoInv'
    BY <1>1 DEF Inv, BackupFails, TypeOK, RunInv, SchemaInv, UndoInv, NothingLostWithoutTrace,
       AsBefore, Others, Usable, Dropped
  <1>7. ServedDatabaseIsWhole'
    BY <1>1 DEF Inv, BackupFails, TypeOK, CopyInv, RunInv, SchemaInv, ServedDatabaseIsWhole,
       Others, Usable, Dropped
  <1>8. NothingLostWithoutTrace'
    BY <1>1 DEF Inv, BackupFails, TypeOK, UndoInv, NothingLostWithoutTrace, Others, Usable,
       Dropped
  <1>9. ExitCodesTell'
    BY <1>1 DEF Inv, BackupFails, TypeOK, RunInv, SchemaInv, ExitCodesTell, Idle, Others, Usable,
       Dropped
  <1>10. FailedRestoreIsUndone'
    BY <1>1 DEF Inv, BackupFails, TypeOK, RunInv, SchemaInv, UndoInv, AsBefore,
       FailedRestoreIsUndone, Idle, Restores, Others, Usable, Dropped
  <1> QED
    BY <1>2, <1>3, <1>4, <1>5, <1>6, <1>7, <1>8, <1>9, <1>10 DEF Inv

LEMMA AuditKeeps ==
    ASSUME Inv, Audit
    PROVE  Inv'
  <1>1. CASE /\ NoFault
             /\ Goes("migrate")
    <2>1. /\ run' \in Run
          /\ run'.at = "migrate"
          /\ run'.exit = run.exit
          /\ run'.critical = run.critical
          /\ Others(run', run)
      BY <1>1, RunAt, PhaseTypes DEF Inv, TypeOK, Audit, Goes
    <2>2. TypeOK'
      BY <1>1, <2>1, BoundsAssumption DEF Inv, TypeOK, Audit, Fault, NoFault
    <2>3. CopyInv'
      BY <1>1, <2>1 DEF Inv, Audit, TypeOK, CopyInv, RunInv, SchemaInv, Database, Others, Usable,
         Dropped
    <2>4. RunInv'
      BY <1>1, <2>1 DEF Inv, Audit, TypeOK, RunInv, Restores, Others, Usable, Dropped
    <2>5. SchemaInv'
      BY <1>1, <2>1 DEF Inv, Audit, TypeOK, CopyInv, RunInv, SchemaInv, Restores, Others, Usable,
         Dropped
    <2>6. UndoInv'
      BY <1>1, <2>1 DEF Inv, Audit, TypeOK, RunInv, SchemaInv, UndoInv, NothingLostWithoutTrace,
         AsBefore, Others, Usable, Dropped
    <2>7. ServedDatabaseIsWhole'
      BY <1>1, <2>1 DEF Inv, Audit, TypeOK, CopyInv, RunInv, SchemaInv, ServedDatabaseIsWhole,
         Others, Usable, Dropped
    <2>8. NothingLostWithoutTrace'
      BY <1>1, <2>1 DEF Inv, Audit, TypeOK, UndoInv, NothingLostWithoutTrace, Others, Usable,
         Dropped
    <2>9. ExitCodesTell'
      BY <1>1, <2>1 DEF Inv, Audit, TypeOK, RunInv, SchemaInv, ExitCodesTell, Idle, Others,
         Usable, Dropped
    <2>10. FailedRestoreIsUndone'
      BY <1>1, <2>1 DEF Inv, Audit, TypeOK, RunInv, SchemaInv, UndoInv, AsBefore,
         FailedRestoreIsUndone, Idle, Restores, Others, Usable, Dropped
    <2> QED
      BY <2>2, <2>3, <2>4, <2>5, <2>6, <2>7, <2>8, <2>9, <2>10 DEF Inv
  <1>2. CASE /\ Fault
             /\ Goes("freeze")
    <2>1. /\ run' \in Run
          /\ run'.at = "freeze"
          /\ run'.exit = run.exit
          /\ run'.critical = run.critical
          /\ Others(run', run)
      BY <1>2, RunAt, PhaseTypes DEF Inv, TypeOK, Audit, Goes
    <2>2. TypeOK'
      BY <1>2, <2>1, BoundsAssumption DEF Inv, TypeOK, Audit, Fault, NoFault
    <2>3. CopyInv'
      BY <1>2, <2>1 DEF Inv, Audit, TypeOK, CopyInv, RunInv, SchemaInv, Database, Others, Usable,
         Dropped
    <2>4. RunInv'
      BY <1>2, <2>1 DEF Inv, Audit, TypeOK, RunInv, Restores, Others, Usable, Dropped
    <2>5. SchemaInv'
      BY <1>2, <2>1 DEF Inv, Audit, TypeOK, CopyInv, RunInv, SchemaInv, Restores, Others, Usable,
         Dropped
    <2>6. UndoInv'
      BY <1>2, <2>1 DEF Inv, Audit, TypeOK, RunInv, SchemaInv, UndoInv, NothingLostWithoutTrace,
         AsBefore, Others, Usable, Dropped
    <2>7. ServedDatabaseIsWhole'
      BY <1>2, <2>1 DEF Inv, Audit, TypeOK, CopyInv, RunInv, SchemaInv, ServedDatabaseIsWhole,
         Others, Usable, Dropped
    <2>8. NothingLostWithoutTrace'
      BY <1>2, <2>1 DEF Inv, Audit, TypeOK, UndoInv, NothingLostWithoutTrace, Others, Usable,
         Dropped
    <2>9. ExitCodesTell'
      BY <1>2, <2>1 DEF Inv, Audit, TypeOK, RunInv, SchemaInv, ExitCodesTell, Idle, Others,
         Usable, Dropped
    <2>10. FailedRestoreIsUndone'
      BY <1>2, <2>1 DEF Inv, Audit, TypeOK, RunInv, SchemaInv, UndoInv, AsBefore,
         FailedRestoreIsUndone, Idle, Restores, Others, Usable, Dropped
    <2> QED
      BY <2>2, <2>3, <2>4, <2>5, <2>6, <2>7, <2>8, <2>9, <2>10 DEF Inv
  <1> QED
    BY <1>1, <1>2 DEF Audit

LEMMA MigrateKeeps ==
    ASSUME Inv, Migrate
    PROVE  Inv'
  <1>1. CASE /\ NoFault
             /\ Goes("up")
             /\ db' = [db EXCEPT !.schema = "new"]
    <2>1. /\ run' \in Run
          /\ run'.at = "up"
          /\ run'.exit = run.exit
          /\ run'.critical = run.critical
          /\ Others(run', run)
      BY <1>1, RunAt, PhaseTypes DEF Inv, TypeOK, Migrate, Goes
    <2>2. /\ db' \in Database
          /\ (Usable(db') \/ db' = Dropped)
      BY <1>1 DEF Inv, TypeOK, CopyInv, Database, Usable, Dropped, Migrate
    <2>3. TypeOK'
      BY <1>1, <2>1, <2>2, BoundsAssumption DEF Inv, TypeOK, Migrate, Fault, NoFault
    <2>4. CopyInv'
      BY <1>1, <2>1, <2>2 DEF Inv, Migrate, TypeOK, CopyInv, RunInv, SchemaInv, Database, Others,
         Usable, Dropped
    <2>5. RunInv'
      BY <1>1, <2>1, <2>2 DEF Inv, Migrate, TypeOK, RunInv, Restores, Others, Usable, Dropped
    <2>6. SchemaInv'
      BY <1>1, <2>1, <2>2 DEF Inv, Migrate, TypeOK, CopyInv, RunInv, SchemaInv, Restores, Others,
         Usable, Dropped
    <2>7. UndoInv'
      BY <1>1, <2>1, <2>2 DEF Inv, Migrate, TypeOK, RunInv, SchemaInv, UndoInv,
         NothingLostWithoutTrace, AsBefore, Others, Usable, Dropped
    <2>8. ServedDatabaseIsWhole'
      BY <1>1, <2>1, <2>2 DEF Inv, Migrate, TypeOK, CopyInv, RunInv, SchemaInv,
         ServedDatabaseIsWhole, Others, Usable, Dropped
    <2>9. NothingLostWithoutTrace'
      BY <1>1, <2>1, <2>2 DEF Inv, Migrate, TypeOK, UndoInv, NothingLostWithoutTrace, Others,
         Usable, Dropped
    <2>10. ExitCodesTell'
      BY <1>1, <2>1, <2>2 DEF Inv, Migrate, TypeOK, RunInv, SchemaInv, ExitCodesTell, Idle,
         Others, Usable, Dropped
    <2>11. FailedRestoreIsUndone'
      BY <1>1, <2>1, <2>2 DEF Inv, Migrate, TypeOK, RunInv, SchemaInv, UndoInv, AsBefore,
         FailedRestoreIsUndone, Idle, Restores, Others, Usable, Dropped
    <2> QED
      BY <2>3, <2>4, <2>5, <2>6, <2>7, <2>8, <2>9, <2>10, <2>11 DEF Inv
  <1>2. CASE /\ Fault
             /\ Goes("freeze")
             /\ \E s \in {"old", "partial", "new"} : db' = [db EXCEPT !.schema = s]
    <2>1. /\ run' \in Run
          /\ run'.at = "freeze"
          /\ run'.exit = run.exit
          /\ run'.critical = run.critical
          /\ Others(run', run)
      BY <1>2, RunAt, PhaseTypes DEF Inv, TypeOK, Migrate, Goes
    <2>2. /\ db' \in Database
          /\ (Usable(db') \/ db' = Dropped)
      BY <1>2 DEF Inv, TypeOK, CopyInv, Database, Usable, Dropped, Migrate
    <2>3. TypeOK'
      BY <1>2, <2>1, <2>2, BoundsAssumption DEF Inv, TypeOK, Migrate, Fault, NoFault
    <2>4. CopyInv'
      BY <1>2, <2>1, <2>2 DEF Inv, Migrate, TypeOK, CopyInv, RunInv, SchemaInv, Database, Others,
         Usable, Dropped
    <2>5. RunInv'
      BY <1>2, <2>1, <2>2 DEF Inv, Migrate, TypeOK, RunInv, Restores, Others, Usable, Dropped
    <2>6. SchemaInv'
      BY <1>2, <2>1, <2>2 DEF Inv, Migrate, TypeOK, CopyInv, RunInv, SchemaInv, Restores, Others,
         Usable, Dropped
    <2>7. UndoInv'
      BY <1>2, <2>1, <2>2 DEF Inv, Migrate, TypeOK, RunInv, SchemaInv, UndoInv,
         NothingLostWithoutTrace, AsBefore, Others, Usable, Dropped
    <2>8. ServedDatabaseIsWhole'
      BY <1>2, <2>1, <2>2 DEF Inv, Migrate, TypeOK, CopyInv, RunInv, SchemaInv,
         ServedDatabaseIsWhole, Others, Usable, Dropped
    <2>9. NothingLostWithoutTrace'
      BY <1>2, <2>1, <2>2 DEF Inv, Migrate, TypeOK, UndoInv, NothingLostWithoutTrace, Others,
         Usable, Dropped
    <2>10. ExitCodesTell'
      BY <1>2, <2>1, <2>2 DEF Inv, Migrate, TypeOK, RunInv, SchemaInv, ExitCodesTell, Idle,
         Others, Usable, Dropped
    <2>11. FailedRestoreIsUndone'
      BY <1>2, <2>1, <2>2 DEF Inv, Migrate, TypeOK, RunInv, SchemaInv, UndoInv, AsBefore,
         FailedRestoreIsUndone, Idle, Restores, Others, Usable, Dropped
    <2> QED
      BY <2>3, <2>4, <2>5, <2>6, <2>7, <2>8, <2>9, <2>10, <2>11 DEF Inv
  <1> QED
    BY <1>1, <1>2 DEF Migrate

LEMMA UpKeeps ==
    ASSUME Inv, Up
    PROVE  Inv'
  <1>1. CASE /\ NoFault
             /\ Goes("watch")
             /\ app' = "new"
    <2>1. /\ run' \in Run
          /\ run'.at = "watch"
          /\ run'.exit = run.exit
          /\ run'.critical = run.critical
          /\ Others(run', run)
      BY <1>1, RunAt, PhaseTypes DEF Inv, TypeOK, Up, Goes
    <2>2. TypeOK'
      BY <1>1, <2>1, BoundsAssumption DEF Inv, TypeOK, Up, Fault, NoFault
    <2>3. CopyInv'
      BY <1>1, <2>1 DEF Inv, Up, TypeOK, CopyInv, RunInv, SchemaInv, Database, Others, Usable,
         Dropped
    <2>4. RunInv'
      BY <1>1, <2>1 DEF Inv, Up, TypeOK, RunInv, Restores, Others, Usable, Dropped
    <2>5. SchemaInv'
      BY <1>1, <2>1 DEF Inv, Up, TypeOK, CopyInv, RunInv, SchemaInv, Restores, Others, Usable,
         Dropped
    <2>6. UndoInv'
      BY <1>1, <2>1 DEF Inv, Up, TypeOK, RunInv, SchemaInv, UndoInv, NothingLostWithoutTrace,
         AsBefore, Others, Usable, Dropped
    <2>7. ServedDatabaseIsWhole'
      BY <1>1, <2>1 DEF Inv, Up, TypeOK, CopyInv, RunInv, SchemaInv, ServedDatabaseIsWhole,
         Others, Usable, Dropped
    <2>8. NothingLostWithoutTrace'
      BY <1>1, <2>1 DEF Inv, Up, TypeOK, UndoInv, NothingLostWithoutTrace, Others, Usable, Dropped
    <2>9. ExitCodesTell'
      BY <1>1, <2>1 DEF Inv, Up, TypeOK, RunInv, SchemaInv, ExitCodesTell, Idle, Others, Usable,
         Dropped
    <2>10. FailedRestoreIsUndone'
      BY <1>1, <2>1 DEF Inv, Up, TypeOK, RunInv, SchemaInv, UndoInv, AsBefore,
         FailedRestoreIsUndone, Idle, Restores, Others, Usable, Dropped
    <2> QED
      BY <2>2, <2>3, <2>4, <2>5, <2>6, <2>7, <2>8, <2>9, <2>10 DEF Inv
  <1>2. CASE /\ Fault
             /\ Goes("freeze")
             /\ app' \in {app, "new"}
    <2>1. /\ run' \in Run
          /\ run'.at = "freeze"
          /\ run'.exit = run.exit
          /\ run'.critical = run.critical
          /\ Others(run', run)
      BY <1>2, RunAt, PhaseTypes DEF Inv, TypeOK, Up, Goes
    <2>2. TypeOK'
      BY <1>2, <2>1, BoundsAssumption DEF Inv, TypeOK, Up, Fault, NoFault
    <2>3. CopyInv'
      BY <1>2, <2>1 DEF Inv, Up, TypeOK, CopyInv, RunInv, SchemaInv, Database, Others, Usable,
         Dropped
    <2>4. RunInv'
      BY <1>2, <2>1 DEF Inv, Up, TypeOK, RunInv, Restores, Others, Usable, Dropped
    <2>5. SchemaInv'
      BY <1>2, <2>1 DEF Inv, Up, TypeOK, CopyInv, RunInv, SchemaInv, Restores, Others, Usable,
         Dropped
    <2>6. UndoInv'
      BY <1>2, <2>1 DEF Inv, Up, TypeOK, RunInv, SchemaInv, UndoInv, NothingLostWithoutTrace,
         AsBefore, Others, Usable, Dropped
    <2>7. ServedDatabaseIsWhole'
      BY <1>2, <2>1 DEF Inv, Up, TypeOK, CopyInv, RunInv, SchemaInv, ServedDatabaseIsWhole,
         Others, Usable, Dropped
    <2>8. NothingLostWithoutTrace'
      BY <1>2, <2>1 DEF Inv, Up, TypeOK, UndoInv, NothingLostWithoutTrace, Others, Usable, Dropped
    <2>9. ExitCodesTell'
      BY <1>2, <2>1 DEF Inv, Up, TypeOK, RunInv, SchemaInv, ExitCodesTell, Idle, Others, Usable,
         Dropped
    <2>10. FailedRestoreIsUndone'
      BY <1>2, <2>1 DEF Inv, Up, TypeOK, RunInv, SchemaInv, UndoInv, AsBefore,
         FailedRestoreIsUndone, Idle, Restores, Others, Usable, Dropped
    <2> QED
      BY <2>2, <2>3, <2>4, <2>5, <2>6, <2>7, <2>8, <2>9, <2>10 DEF Inv
  <1> QED
    BY <1>1, <1>2 DEF Up

LEMMA WatchKeeps ==
    ASSUME Inv, Watch
    PROVE  Inv'
  <1>1. CASE /\ NoFault
             /\ Exits("0")
    <2>1. /\ run' \in Run
          /\ run'.at = "idle"
          /\ run'.exit = "0"
          /\ run'.critical = run.critical
          /\ Others(run', run)
      BY <1>1, RunEnds DEF Inv, TypeOK, Watch, Exits, Codes
    <2>2. TypeOK'
      BY <1>1, <2>1, BoundsAssumption DEF Inv, TypeOK, Watch, Fault, NoFault
    <2>3. CopyInv'
      BY <1>1, <2>1 DEF Inv, Watch, TypeOK, CopyInv, RunInv, SchemaInv, Database, Others, Usable,
         Dropped
    <2>4. RunInv'
      BY <1>1, <2>1 DEF Inv, Watch, TypeOK, RunInv, Restores, Others, Usable, Dropped
    <2>5. SchemaInv'
      BY <1>1, <2>1 DEF Inv, Watch, TypeOK, CopyInv, RunInv, SchemaInv, Restores, Others, Usable,
         Dropped
    <2>6. UndoInv'
      BY <1>1, <2>1 DEF Inv, Watch, TypeOK, RunInv, SchemaInv, UndoInv, NothingLostWithoutTrace,
         AsBefore, Others, Usable, Dropped
    <2>7. ServedDatabaseIsWhole'
      BY <1>1, <2>1 DEF Inv, Watch, TypeOK, CopyInv, RunInv, SchemaInv, ServedDatabaseIsWhole,
         Others, Usable, Dropped
    <2>8. NothingLostWithoutTrace'
      BY <1>1, <2>1 DEF Inv, Watch, TypeOK, UndoInv, NothingLostWithoutTrace, Others, Usable,
         Dropped
    <2>9. ExitCodesTell'
      BY <1>1, <2>1 DEF Inv, Watch, TypeOK, RunInv, SchemaInv, ExitCodesTell, Idle, Others,
         Usable, Dropped
    <2>10. FailedRestoreIsUndone'
      BY <1>1, <2>1 DEF Inv, Watch, TypeOK, RunInv, SchemaInv, UndoInv, AsBefore,
         FailedRestoreIsUndone, Idle, Restores, Others, Usable, Dropped
    <2> QED
      BY <2>2, <2>3, <2>4, <2>5, <2>6, <2>7, <2>8, <2>9, <2>10 DEF Inv
  <1>2. CASE /\ Fault
             /\ Goes("freeze")
    <2>1. /\ run' \in Run
          /\ run'.at = "freeze"
          /\ run'.exit = run.exit
          /\ run'.critical = run.critical
          /\ Others(run', run)
      BY <1>2, RunAt, PhaseTypes DEF Inv, TypeOK, Watch, Goes
    <2>2. TypeOK'
      BY <1>2, <2>1, BoundsAssumption DEF Inv, TypeOK, Watch, Fault, NoFault
    <2>3. CopyInv'
      BY <1>2, <2>1 DEF Inv, Watch, TypeOK, CopyInv, RunInv, SchemaInv, Database, Others, Usable,
         Dropped
    <2>4. RunInv'
      BY <1>2, <2>1 DEF Inv, Watch, TypeOK, RunInv, Restores, Others, Usable, Dropped
    <2>5. SchemaInv'
      BY <1>2, <2>1 DEF Inv, Watch, TypeOK, CopyInv, RunInv, SchemaInv, Restores, Others, Usable,
         Dropped
    <2>6. UndoInv'
      BY <1>2, <2>1 DEF Inv, Watch, TypeOK, RunInv, SchemaInv, UndoInv, NothingLostWithoutTrace,
         AsBefore, Others, Usable, Dropped
    <2>7. ServedDatabaseIsWhole'
      BY <1>2, <2>1 DEF Inv, Watch, TypeOK, CopyInv, RunInv, SchemaInv, ServedDatabaseIsWhole,
         Others, Usable, Dropped
    <2>8. NothingLostWithoutTrace'
      BY <1>2, <2>1 DEF Inv, Watch, TypeOK, UndoInv, NothingLostWithoutTrace, Others, Usable,
         Dropped
    <2>9. ExitCodesTell'
      BY <1>2, <2>1 DEF Inv, Watch, TypeOK, RunInv, SchemaInv, ExitCodesTell, Idle, Others,
         Usable, Dropped
    <2>10. FailedRestoreIsUndone'
      BY <1>2, <2>1 DEF Inv, Watch, TypeOK, RunInv, SchemaInv, UndoInv, AsBefore,
         FailedRestoreIsUndone, Idle, Restores, Others, Usable, Dropped
    <2> QED
      BY <2>2, <2>3, <2>4, <2>5, <2>6, <2>7, <2>8, <2>9, <2>10 DEF Inv
  <1> QED
    BY <1>1, <1>2 DEF Watch

LEMMA FreezeKeeps ==
    ASSUME Inv, Freeze
    PROVE  Inv'
  <1>1. CASE Restores(run)
    <2> DEFINE b == [schema |-> db.schema, rows |-> db.rows, files |-> files]
    <2>a. /\ run \in Run /\ "check" \in Phases
         /\ run' = [run EXCEPT !.at = "check", !.froze = TRUE, !.before = b]
      BY <1>1, PhaseTypes DEF Inv, TypeOK, Freeze
    <2>b. b \in [schema: {"old", "new", "partial", "none"}, 
                   rows: SUBSET Writes, files: SUBSET Writes]
      BY DEF Inv, TypeOK, Database
    <2> HIDE DEF b
    <2>c. AfterFreeze(run', run, "check", b)
      BY <2>a, <2>b, RunFrozen, Zenon
    <2>1. /\ run' \in Run
          /\ run'.at = "check"
          /\ run'.exit = run.exit
          /\ run'.critical = run.critical
          /\ run'.froze
          /\ run'.before = [schema |-> db.schema, rows |-> db.rows, files |-> files]
          /\ run'.script = run.script
          /\ run'.manifest = run.manifest
          /\ run'.restored = run.restored
          /\ run'.swapped = run.swapped
      BY <2>c DEF AfterFreeze, b
    <2>2. TypeOK'
      BY <1>1, <2>1, BoundsAssumption DEF Inv, TypeOK, Freeze, Fault, NoFault, Database
    <2>3. CopyInv'
      BY <1>1, <2>1 DEF Inv, Freeze, TypeOK, CopyInv, RunInv, SchemaInv, Database, Usable, Dropped
    <2>4. RunInv'
      BY <1>1, <2>1 DEF Inv, Freeze, TypeOK, RunInv, Restores, Usable, Dropped
    <2>5. SchemaInv'
      BY <1>1, <2>1 DEF Inv, Freeze, TypeOK, CopyInv, RunInv, SchemaInv, Restores, Usable, Dropped
    <2>6. UndoInv'
      BY <1>1, <2>1 DEF Inv, Freeze, TypeOK, RunInv, SchemaInv, UndoInv, NothingLostWithoutTrace,
         AsBefore, Usable, Dropped
    <2>7. ServedDatabaseIsWhole'
      BY <1>1, <2>1 DEF Inv, Freeze, TypeOK, CopyInv, RunInv, SchemaInv, ServedDatabaseIsWhole,
         Usable, Dropped
    <2>8. NothingLostWithoutTrace'
      BY <1>1, <2>1 DEF Inv, Freeze, TypeOK, UndoInv, NothingLostWithoutTrace, Usable, Dropped
    <2>9. ExitCodesTell'
      BY <1>1, <2>1 DEF Inv, Freeze, TypeOK, RunInv, SchemaInv, ExitCodesTell, Idle, Usable,
         Dropped
    <2>10. FailedRestoreIsUndone'
      BY <1>1, <2>1 DEF Inv, Freeze, TypeOK, RunInv, SchemaInv, UndoInv, AsBefore,
         FailedRestoreIsUndone, Idle, Restores, Usable, Dropped
    <2> QED
      BY <2>2, <2>3, <2>4, <2>5, <2>6, <2>7, <2>8, <2>9, <2>10 DEF Inv
  <1>2. CASE ~Restores(run)
    <2> DEFINE b == [schema |-> db.schema, rows |-> db.rows, files |-> files]
    <2>a. /\ run \in Run /\ "boot" \in Phases
         /\ run' = [run EXCEPT !.at = "boot", !.froze = TRUE, !.before = b]
      BY <1>2, PhaseTypes DEF Inv, TypeOK, Freeze
    <2>b. b \in [schema: {"old", "new", "partial", "none"}, 
                   rows: SUBSET Writes, files: SUBSET Writes]
      BY DEF Inv, TypeOK, Database
    <2> HIDE DEF b
    <2>c. AfterFreeze(run', run, "boot", b)
      BY <2>a, <2>b, RunFrozen, Zenon
    <2>1. /\ run' \in Run
          /\ run'.at = "boot"
          /\ run'.exit = run.exit
          /\ run'.critical = run.critical
          /\ run'.froze
          /\ run'.before = [schema |-> db.schema, rows |-> db.rows, files |-> files]
          /\ run'.script = run.script
          /\ run'.manifest = run.manifest
          /\ run'.restored = run.restored
          /\ run'.swapped = run.swapped
      BY <2>c DEF AfterFreeze, b
    <2>2. TypeOK'
      BY <1>2, <2>1, BoundsAssumption DEF Inv, TypeOK, Freeze, Fault, NoFault, Database
    <2>3. CopyInv'
      BY <1>2, <2>1 DEF Inv, Freeze, TypeOK, CopyInv, RunInv, SchemaInv, Database, Usable, Dropped
    <2>4. RunInv'
      BY <1>2, <2>1 DEF Inv, Freeze, TypeOK, RunInv, Restores, Usable, Dropped
    <2>5. SchemaInv'
      BY <1>2, <2>1 DEF Inv, Freeze, TypeOK, CopyInv, RunInv, SchemaInv, Restores, Usable, Dropped
    <2>6. UndoInv'
      BY <1>2, <2>1 DEF Inv, Freeze, TypeOK, RunInv, SchemaInv, UndoInv, NothingLostWithoutTrace,
         AsBefore, Usable, Dropped
    <2>7. ServedDatabaseIsWhole'
      BY <1>2, <2>1 DEF Inv, Freeze, TypeOK, CopyInv, RunInv, SchemaInv, ServedDatabaseIsWhole,
         Usable, Dropped
    <2>8. NothingLostWithoutTrace'
      BY <1>2, <2>1 DEF Inv, Freeze, TypeOK, UndoInv, NothingLostWithoutTrace, Usable, Dropped
    <2>9. ExitCodesTell'
      BY <1>2, <2>1 DEF Inv, Freeze, TypeOK, RunInv, SchemaInv, ExitCodesTell, Idle, Usable,
         Dropped
    <2>10. FailedRestoreIsUndone'
      BY <1>2, <2>1 DEF Inv, Freeze, TypeOK, RunInv, SchemaInv, UndoInv, AsBefore,
         FailedRestoreIsUndone, Idle, Restores, Usable, Dropped
    <2> QED
      BY <2>2, <2>3, <2>4, <2>5, <2>6, <2>7, <2>8, <2>9, <2>10 DEF Inv
  <1> QED
    BY <1>1, <1>2

LEMMA NotBegunKeeps ==
    ASSUME Inv, NotBegun
    PROVE  Inv'
  <1>1. /\ run' \in Run
        /\ run'.at = "idle"
        /\ run'.critical = run.critical
        /\ Others(run', run)
        /\ (run.script = "restore" => run'.exit = "1")
        /\ (run.script # "restore" => run'.exit = "2")
    BY RunFails DEF Inv, TypeOK, NotBegun, Exits
  <1>2. TypeOK'
    BY <1>1, BoundsAssumption DEF Inv, TypeOK, NotBegun, Fault, NoFault
  <1>3. CopyInv'
    BY <1>1 DEF Inv, NotBegun, TypeOK, CopyInv, RunInv, SchemaInv, Database, Others, Usable,
       Dropped
  <1>4. RunInv'
    BY <1>1 DEF Inv, NotBegun, TypeOK, RunInv, Restores, Others, Usable, Dropped
  <1>5. SchemaInv'
    BY <1>1 DEF Inv, NotBegun, TypeOK, CopyInv, RunInv, SchemaInv, Restores, Others, Usable,
       Dropped
  <1>6. UndoInv'
    BY <1>1 DEF Inv, NotBegun, TypeOK, RunInv, SchemaInv, UndoInv, NothingLostWithoutTrace,
       AsBefore, Others, Usable, Dropped
  <1>7. ServedDatabaseIsWhole'
    BY <1>1 DEF Inv, NotBegun, TypeOK, CopyInv, RunInv, SchemaInv, ServedDatabaseIsWhole, Others,
       Usable, Dropped
  <1>8. NothingLostWithoutTrace'
    BY <1>1 DEF Inv, NotBegun, TypeOK, UndoInv, NothingLostWithoutTrace, Others, Usable, Dropped
  <1>9. ExitCodesTell'
    BY <1>1 DEF Inv, NotBegun, TypeOK, RunInv, SchemaInv, ExitCodesTell, Idle, Others, Usable,
       Dropped
  <1>10. FailedRestoreIsUndone'
    BY <1>1 DEF Inv, NotBegun, TypeOK, RunInv, SchemaInv, UndoInv, AsBefore,
       FailedRestoreIsUndone, Idle, Restores, Others, Usable, Dropped
  <1> QED
    BY <1>2, <1>3, <1>4, <1>5, <1>6, <1>7, <1>8, <1>9, <1>10 DEF Inv

LEMMA CheckKeeps ==
    ASSUME Inv, Check
    PROVE  Inv'
  <1>1. CASE /\ MayReplace
             /\ Goes("dump")
             /\ UNCHANGED <<db, frozen>>
    <2>1. /\ run' \in Run
          /\ run'.at = "dump"
          /\ run'.exit = run.exit
          /\ run'.critical = run.critical
          /\ Others(run', run)
      BY <1>1, RunAt, PhaseTypes DEF Inv, TypeOK, Check, Goes
    <2>2. TypeOK'
      BY <1>1, <2>1, BoundsAssumption DEF Inv, TypeOK, Check, Fault, NoFault
    <2>3. CopyInv'
      BY <1>1, <2>1 DEF Inv, Check, TypeOK, CopyInv, RunInv, SchemaInv, Database, Others, Usable,
         Dropped
    <2>4. RunInv'
      BY <1>1, <2>1 DEF Inv, Check, TypeOK, RunInv, Restores, Others, Usable, Dropped
    <2>5. SchemaInv'
      BY <1>1, <2>1 DEF Inv, Check, TypeOK, CopyInv, RunInv, SchemaInv, Restores, Others, Usable,
         Dropped
    <2>6. UndoInv'
      BY <1>1, <2>1 DEF Inv, Check, TypeOK, RunInv, SchemaInv, UndoInv, NothingLostWithoutTrace,
         AsBefore, Others, Usable, Dropped
    <2>7. ServedDatabaseIsWhole'
      BY <1>1, <2>1 DEF Inv, Check, TypeOK, CopyInv, RunInv, SchemaInv, ServedDatabaseIsWhole,
         Others, Usable, Dropped
    <2>8. NothingLostWithoutTrace'
      BY <1>1, <2>1 DEF Inv, Check, TypeOK, UndoInv, NothingLostWithoutTrace, Others, Usable,
         Dropped
    <2>9. ExitCodesTell'
      BY <1>1, <2>1 DEF Inv, Check, TypeOK, RunInv, SchemaInv, ExitCodesTell, Idle, Others,
         Usable, Dropped
    <2>10. FailedRestoreIsUndone'
      BY <1>1, <2>1 DEF Inv, Check, TypeOK, RunInv, SchemaInv, UndoInv, AsBefore,
         FailedRestoreIsUndone, Idle, Restores, Others, Usable, Dropped
    <2> QED
      BY <2>2, <2>3, <2>4, <2>5, <2>6, <2>7, <2>8, <2>9, <2>10 DEF Inv
  <1>2. CASE /\ ~MayReplace
             /\ RestoreFailed(run)
             /\ db' = Forbidden(db)
    <2>1. /\ run' \in Run
          /\ run'.at = "idle"
          /\ run'.critical = run.critical
          /\ Others(run', run)
          /\ (run.script = "restore" => run'.exit = "1")
          /\ (run.script # "restore" => run'.exit = "2")
      BY <1>2, RunFails DEF Inv, TypeOK, Check, RestoreFailed
    <2>2. /\ db' \in Database
          /\ (Usable(db') \/ db' = Dropped)
          /\ db'.schema = db.schema
          /\ db'.rows = db.rows
      BY <1>2, ForbiddenDb DEF Inv, TypeOK, Check
    <2>3. TypeOK'
      BY <1>2, <2>1, <2>2, BoundsAssumption DEF Inv, TypeOK, Check, Fault, NoFault, RestoreFailed,
         StaysFrozen
    <2>4. CopyInv'
      BY <1>2, <2>1, <2>2 DEF Inv, Check, TypeOK, CopyInv, RunInv, SchemaInv, Database, Others,
         RestoreFailed, StaysFrozen, Usable, Dropped
    <2>5. RunInv'
      BY <1>2, <2>1, <2>2 DEF Inv, Check, TypeOK, RunInv, Restores, Others, RestoreFailed,
         StaysFrozen, Usable, Dropped
    <2>6. SchemaInv'
      BY <1>2, <2>1, <2>2 DEF Inv, Check, TypeOK, CopyInv, RunInv, SchemaInv, Restores, Others,
         RestoreFailed, StaysFrozen, Usable, Dropped
    <2>7. UndoInv'
      BY <1>2, <2>1, <2>2 DEF Inv, Check, TypeOK, RunInv, SchemaInv, UndoInv,
         NothingLostWithoutTrace, AsBefore, Others, RestoreFailed, StaysFrozen, Usable, Dropped
    <2>8. ServedDatabaseIsWhole'
      BY <1>2, <2>1, <2>2 DEF Inv, Check, TypeOK, CopyInv, RunInv, SchemaInv,
         ServedDatabaseIsWhole, Others, RestoreFailed, StaysFrozen, Usable, Dropped
    <2>9. NothingLostWithoutTrace'
      BY <1>2, <2>1, <2>2 DEF Inv, Check, TypeOK, UndoInv, NothingLostWithoutTrace, Others,
         RestoreFailed, StaysFrozen, Usable, Dropped
    <2>10. ExitCodesTell'
      BY <1>2, <2>1, <2>2 DEF Inv, Check, TypeOK, RunInv, SchemaInv, ExitCodesTell, Idle, Others,
         RestoreFailed, StaysFrozen, Usable, Dropped
    <2>11. FailedRestoreIsUndone'
      BY <1>2, <2>1, <2>2 DEF Inv, Check, TypeOK, RunInv, SchemaInv, UndoInv, AsBefore,
         FailedRestoreIsUndone, Idle, Restores, Others, RestoreFailed, StaysFrozen, Usable,
         Dropped
    <2> QED
      BY <2>3, <2>4, <2>5, <2>6, <2>7, <2>8, <2>9, <2>10, <2>11 DEF Inv
  <1> QED
    BY <1>1, <1>2 DEF Check

LEMMA StagingFailsKeeps ==
    ASSUME Inv, StagingFails
    PROVE  Inv'
  <1>1. CASE db' = db
    <2>1. /\ run' \in Run
          /\ run'.at = "idle"
          /\ run'.critical = run.critical
          /\ Others(run', run)
          /\ (run.script = "restore" => run'.exit = "1")
          /\ (run.script # "restore" => run'.exit = "2")
      BY <1>1, RunFails DEF Inv, TypeOK, StagingFails, RestoreFailed
    <2>2. TypeOK'
      BY <1>1, <2>1, BoundsAssumption DEF Inv, TypeOK, StagingFails, Fault, NoFault,
         RestoreFailed, StaysFrozen
    <2>3. CopyInv'
      BY <1>1, <2>1 DEF Inv, StagingFails, TypeOK, CopyInv, RunInv, SchemaInv, Database, Others,
         RestoreFailed, StaysFrozen, Usable, Dropped
    <2>4. RunInv'
      BY <1>1, <2>1 DEF Inv, StagingFails, TypeOK, RunInv, Restores, Others, RestoreFailed,
         StaysFrozen, Usable, Dropped
    <2>5. SchemaInv'
      BY <1>1, <2>1 DEF Inv, StagingFails, TypeOK, CopyInv, RunInv, SchemaInv, Restores, Others,
         RestoreFailed, StaysFrozen, Usable, Dropped
    <2>6. UndoInv'
      BY <1>1, <2>1 DEF Inv, StagingFails, TypeOK, RunInv, SchemaInv, UndoInv,
         NothingLostWithoutTrace, AsBefore, Others, RestoreFailed, StaysFrozen, Usable, Dropped
    <2>7. ServedDatabaseIsWhole'
      BY <1>1, <2>1 DEF Inv, StagingFails, TypeOK, CopyInv, RunInv, SchemaInv,
         ServedDatabaseIsWhole, Others, RestoreFailed, StaysFrozen, Usable, Dropped
    <2>8. NothingLostWithoutTrace'
      BY <1>1, <2>1 DEF Inv, StagingFails, TypeOK, UndoInv, NothingLostWithoutTrace, Others,
         RestoreFailed, StaysFrozen, Usable, Dropped
    <2>9. ExitCodesTell'
      BY <1>1, <2>1 DEF Inv, StagingFails, TypeOK, RunInv, SchemaInv, ExitCodesTell, Idle, Others,
         RestoreFailed, StaysFrozen, Usable, Dropped
    <2>10. FailedRestoreIsUndone'
      BY <1>1, <2>1 DEF Inv, StagingFails, TypeOK, RunInv, SchemaInv, UndoInv, AsBefore,
         FailedRestoreIsUndone, Idle, Restores, Others, RestoreFailed, StaysFrozen, Usable,
         Dropped
    <2> QED
      BY <2>2, <2>3, <2>4, <2>5, <2>6, <2>7, <2>8, <2>9, <2>10 DEF Inv
  <1>2. CASE db' = Forbidden(db)
    <2>1. /\ run' \in Run
          /\ run'.at = "idle"
          /\ run'.critical = run.critical
          /\ Others(run', run)
          /\ (run.script = "restore" => run'.exit = "1")
          /\ (run.script # "restore" => run'.exit = "2")
      BY <1>2, RunFails DEF Inv, TypeOK, StagingFails, RestoreFailed
    <2>2. /\ db' \in Database
          /\ (Usable(db') \/ db' = Dropped)
          /\ db'.schema = db.schema
          /\ db'.rows = db.rows
      BY <1>2, ForbiddenDb DEF Inv, TypeOK, StagingFails
    <2>3. TypeOK'
      BY <1>2, <2>1, <2>2, BoundsAssumption DEF Inv, TypeOK, StagingFails, Fault, NoFault,
         RestoreFailed, StaysFrozen
    <2>4. CopyInv'
      BY <1>2, <2>1, <2>2 DEF Inv, StagingFails, TypeOK, CopyInv, RunInv, SchemaInv, Database,
         Others, RestoreFailed, StaysFrozen, Usable, Dropped
    <2>5. RunInv'
      BY <1>2, <2>1, <2>2 DEF Inv, StagingFails, TypeOK, RunInv, Restores, Others, RestoreFailed,
         StaysFrozen, Usable, Dropped
    <2>6. SchemaInv'
      BY <1>2, <2>1, <2>2 DEF Inv, StagingFails, TypeOK, CopyInv, RunInv, SchemaInv, Restores,
         Others, RestoreFailed, StaysFrozen, Usable, Dropped
    <2>7. UndoInv'
      BY <1>2, <2>1, <2>2 DEF Inv, StagingFails, TypeOK, RunInv, SchemaInv, UndoInv,
         NothingLostWithoutTrace, AsBefore, Others, RestoreFailed, StaysFrozen, Usable, Dropped
    <2>8. ServedDatabaseIsWhole'
      BY <1>2, <2>1, <2>2 DEF Inv, StagingFails, TypeOK, CopyInv, RunInv, SchemaInv,
         ServedDatabaseIsWhole, Others, RestoreFailed, StaysFrozen, Usable, Dropped
    <2>9. NothingLostWithoutTrace'
      BY <1>2, <2>1, <2>2 DEF Inv, StagingFails, TypeOK, UndoInv, NothingLostWithoutTrace, Others,
         RestoreFailed, StaysFrozen, Usable, Dropped
    <2>10. ExitCodesTell'
      BY <1>2, <2>1, <2>2 DEF Inv, StagingFails, TypeOK, RunInv, SchemaInv, ExitCodesTell, Idle,
         Others, RestoreFailed, StaysFrozen, Usable, Dropped
    <2>11. FailedRestoreIsUndone'
      BY <1>2, <2>1, <2>2 DEF Inv, StagingFails, TypeOK, RunInv, SchemaInv, UndoInv, AsBefore,
         FailedRestoreIsUndone, Idle, Restores, Others, RestoreFailed, StaysFrozen, Usable,
         Dropped
    <2> QED
      BY <2>3, <2>4, <2>5, <2>6, <2>7, <2>8, <2>9, <2>10, <2>11 DEF Inv
  <1> QED
    BY <1>1, <1>2 DEF StagingFails

LEMMA SafetyDumpKeeps ==
    ASSUME Inv, SafetyDump
    PROVE  Inv'
  <1>1. /\ run' \in Run
        /\ run'.at = "drop"
        /\ run'.exit = run.exit
        /\ run'.critical = run.critical
        /\ Others(run', run)
    BY RunAt, PhaseTypes DEF Inv, TypeOK, SafetyDump, Goes
  <1>2. TypeOK'
    BY <1>1, BoundsAssumption DEF Inv, TypeOK, SafetyDump, Fault, NoFault, Database
  <1>3. CopyInv'
    BY <1>1 DEF Inv, SafetyDump, TypeOK, CopyInv, RunInv, SchemaInv, Database, Others, Usable,
       Dropped
  <1>4. RunInv'
    BY <1>1 DEF Inv, SafetyDump, TypeOK, RunInv, Restores, Others, Usable, Dropped
  <1>5. SchemaInv'
    BY <1>1 DEF Inv, SafetyDump, TypeOK, CopyInv, RunInv, SchemaInv, Restores, Others, Usable,
       Dropped
  <1>6. UndoInv'
    BY <1>1 DEF Inv, SafetyDump, TypeOK, RunInv, SchemaInv, UndoInv, NothingLostWithoutTrace,
       AsBefore, Others, Usable, Dropped
  <1>7. ServedDatabaseIsWhole'
    BY <1>1 DEF Inv, SafetyDump, TypeOK, CopyInv, RunInv, SchemaInv, ServedDatabaseIsWhole,
       Others, Usable, Dropped
  <1>8. NothingLostWithoutTrace'
    BY <1>1 DEF Inv, SafetyDump, TypeOK, UndoInv, NothingLostWithoutTrace, Others, Usable, Dropped
  <1>9. ExitCodesTell'
    BY <1>1 DEF Inv, SafetyDump, TypeOK, RunInv, SchemaInv, ExitCodesTell, Idle, Others, Usable,
       Dropped
  <1>10. FailedRestoreIsUndone'
    BY <1>1 DEF Inv, SafetyDump, TypeOK, RunInv, SchemaInv, UndoInv, AsBefore,
       FailedRestoreIsUndone, Idle, Restores, Others, Usable, Dropped
  <1> QED
    BY <1>2, <1>3, <1>4, <1>5, <1>6, <1>7, <1>8, <1>9, <1>10 DEF Inv

LEMMA DumpFailsKeeps ==
    ASSUME Inv, DumpFails
    PROVE  Inv'
  <1>1. /\ run' \in Run
        /\ run'.at = "idle"
        /\ run'.critical = run.critical
        /\ Others(run', run)
        /\ (run.script = "restore" => run'.exit = "1")
        /\ (run.script # "restore" => run'.exit = "2")
    BY RunFails DEF Inv, TypeOK, DumpFails, RestoreFailed
  <1>2. /\ db' \in Database
        /\ (Usable(db') \/ db' = Dropped)
        /\ db'.schema = db.schema
        /\ db'.rows = db.rows
    BY ForbiddenDb DEF Inv, TypeOK, DumpFails
  <1>3. TypeOK'
    BY <1>1, <1>2, BoundsAssumption DEF Inv, TypeOK, DumpFails, Fault, NoFault, RestoreFailed,
       StaysFrozen
  <1>4. CopyInv'
    BY <1>1, <1>2 DEF Inv, DumpFails, TypeOK, CopyInv, RunInv, SchemaInv, Database, Others,
       RestoreFailed, StaysFrozen, Usable, Dropped
  <1>5. RunInv'
    BY <1>1, <1>2 DEF Inv, DumpFails, TypeOK, RunInv, Restores, Others, RestoreFailed,
       StaysFrozen, Usable, Dropped
  <1>6. SchemaInv'
    BY <1>1, <1>2 DEF Inv, DumpFails, TypeOK, CopyInv, RunInv, SchemaInv, Restores, Others,
       RestoreFailed, StaysFrozen, Usable, Dropped
  <1>7. UndoInv'
    BY <1>1, <1>2 DEF Inv, DumpFails, TypeOK, RunInv, SchemaInv, UndoInv, NothingLostWithoutTrace,
       AsBefore, Others, RestoreFailed, StaysFrozen, Usable, Dropped
  <1>8. ServedDatabaseIsWhole'
    BY <1>1, <1>2 DEF Inv, DumpFails, TypeOK, CopyInv, RunInv, SchemaInv, ServedDatabaseIsWhole,
       Others, RestoreFailed, StaysFrozen, Usable, Dropped
  <1>9. NothingLostWithoutTrace'
    BY <1>1, <1>2 DEF Inv, DumpFails, TypeOK, UndoInv, NothingLostWithoutTrace, Others,
       RestoreFailed, StaysFrozen, Usable, Dropped
  <1>10. ExitCodesTell'
    BY <1>1, <1>2 DEF Inv, DumpFails, TypeOK, RunInv, SchemaInv, ExitCodesTell, Idle, Others,
       RestoreFailed, StaysFrozen, Usable, Dropped
  <1>11. FailedRestoreIsUndone'
    BY <1>1, <1>2 DEF Inv, DumpFails, TypeOK, RunInv, SchemaInv, UndoInv, AsBefore,
       FailedRestoreIsUndone, Idle, Restores, Others, RestoreFailed, StaysFrozen, Usable, Dropped
  <1> QED
    BY <1>3, <1>4, <1>5, <1>6, <1>7, <1>8, <1>9, <1>10, <1>11 DEF Inv

LEMMA DropKeeps ==
    ASSUME Inv, Drop
    PROVE  Inv'
  <1>1. CASE /\ NoFault
             /\ Goes("load")
             /\ db' = Dropped
    <2>1. /\ run' \in Run
          /\ run'.at = "load"
          /\ run'.exit = run.exit
          /\ run'.critical = run.critical
          /\ Others(run', run)
      BY <1>1, RunAt, PhaseTypes DEF Inv, TypeOK, Drop, Goes
    <2>2. /\ db' \in Database
          /\ (Usable(db') \/ db' = Dropped)
      BY <1>1, DroppedDb
    <2>3. TypeOK'
      BY <1>1, <2>1, <2>2, BoundsAssumption DEF Inv, TypeOK, Drop, Fault, NoFault
    <2>4. CopyInv'
      BY <1>1, <2>1, <2>2 DEF Inv, Drop, TypeOK, CopyInv, RunInv, SchemaInv, Database, Others,
         Usable, Dropped
    <2>5. RunInv'
      BY <1>1, <2>1, <2>2 DEF Inv, Drop, TypeOK, RunInv, Restores, Others, Usable, Dropped
    <2>6. SchemaInv'
      BY <1>1, <2>1, <2>2 DEF Inv, Drop, TypeOK, CopyInv, RunInv, SchemaInv, Restores, Others,
         Usable, Dropped
    <2>7. UndoInv'
      BY <1>1, <2>1, <2>2 DEF Inv, Drop, TypeOK, RunInv, SchemaInv, UndoInv,
         NothingLostWithoutTrace, AsBefore, Others, Usable, Dropped
    <2>8. ServedDatabaseIsWhole'
      BY <1>1, <2>1, <2>2 DEF Inv, Drop, TypeOK, CopyInv, RunInv, SchemaInv,
         ServedDatabaseIsWhole, Others, Usable, Dropped
    <2>9. NothingLostWithoutTrace'
      BY <1>1, <2>1, <2>2 DEF Inv, Drop, TypeOK, UndoInv, NothingLostWithoutTrace, Others, Usable,
         Dropped
    <2>10. ExitCodesTell'
      BY <1>1, <2>1, <2>2 DEF Inv, Drop, TypeOK, RunInv, SchemaInv, ExitCodesTell, Idle, Others,
         Usable, Dropped
    <2>11. FailedRestoreIsUndone'
      BY <1>1, <2>1, <2>2 DEF Inv, Drop, TypeOK, RunInv, SchemaInv, UndoInv, AsBefore,
         FailedRestoreIsUndone, Idle, Restores, Others, Usable, Dropped
    <2> QED
      BY <2>3, <2>4, <2>5, <2>6, <2>7, <2>8, <2>9, <2>10, <2>11 DEF Inv
  <1>2. CASE /\ Fault
             /\ Goes(Compensation)
             /\ UNCHANGED db
    <2>1. /\ run' \in Run
          /\ run'.at = "undo"
          /\ run'.exit = run.exit
          /\ run'.critical = run.critical
          /\ Others(run', run)
      BY <1>2, RunAt, PhaseTypes DEF Inv, TypeOK, Drop, Goes, Compensation
    <2>2. TypeOK'
      BY <1>2, <2>1, BoundsAssumption DEF Inv, TypeOK, Drop, Fault, NoFault
    <2>3. CopyInv'
      BY <1>2, <2>1 DEF Inv, Drop, TypeOK, CopyInv, RunInv, SchemaInv, Database, Others, Usable,
         Dropped
    <2>4. RunInv'
      BY <1>2, <2>1 DEF Inv, Drop, TypeOK, RunInv, Restores, Others, Usable, Dropped
    <2>5. SchemaInv'
      BY <1>2, <2>1 DEF Inv, Drop, TypeOK, CopyInv, RunInv, SchemaInv, Restores, Others, Usable,
         Dropped
    <2>6. UndoInv'
      BY <1>2, <2>1 DEF Inv, Drop, TypeOK, RunInv, SchemaInv, UndoInv, NothingLostWithoutTrace,
         AsBefore, Others, Usable, Dropped
    <2>7. ServedDatabaseIsWhole'
      BY <1>2, <2>1 DEF Inv, Drop, TypeOK, CopyInv, RunInv, SchemaInv, ServedDatabaseIsWhole,
         Others, Usable, Dropped
    <2>8. NothingLostWithoutTrace'
      BY <1>2, <2>1 DEF Inv, Drop, TypeOK, UndoInv, NothingLostWithoutTrace, Others, Usable,
         Dropped
    <2>9. ExitCodesTell'
      BY <1>2, <2>1 DEF Inv, Drop, TypeOK, RunInv, SchemaInv, ExitCodesTell, Idle, Others, Usable,
         Dropped
    <2>10. FailedRestoreIsUndone'
      BY <1>2, <2>1 DEF Inv, Drop, TypeOK, RunInv, SchemaInv, UndoInv, AsBefore,
         FailedRestoreIsUndone, Idle, Restores, Others, Usable, Dropped
    <2> QED
      BY <2>2, <2>3, <2>4, <2>5, <2>6, <2>7, <2>8, <2>9, <2>10 DEF Inv
  <1> QED
    BY <1>1, <1>2 DEF Drop

LEMMA LoadKeeps ==
    ASSUME Inv, Load
    PROVE  Inv'
  <1>1. CASE /\ NoFault
             /\ Goes("swap")
             /\ db' = backup
    <2>1. /\ run' \in Run
          /\ run'.at = "swap"
          /\ run'.exit = run.exit
          /\ run'.critical = run.critical
          /\ Others(run', run)
      BY <1>1, RunAt, PhaseTypes DEF Inv, TypeOK, Load, Goes
    <2>2. /\ db' \in Database
          /\ (Usable(db') \/ db' = Dropped)
      BY <1>1 DEF Inv, TypeOK, CopyInv, Usable, Dropped
    <2>3. TypeOK'
      BY <1>1, <2>1, <2>2, BoundsAssumption DEF Inv, TypeOK, Load, Fault, NoFault
    <2>4. CopyInv'
      BY <1>1, <2>1, <2>2 DEF Inv, Load, TypeOK, CopyInv, RunInv, SchemaInv, Database, Others,
         Usable, Dropped
    <2>5. RunInv'
      BY <1>1, <2>1, <2>2 DEF Inv, Load, TypeOK, RunInv, Restores, Others, Usable, Dropped
    <2>6. SchemaInv'
      BY <1>1, <2>1, <2>2 DEF Inv, Load, TypeOK, CopyInv, RunInv, SchemaInv, Restores, Others,
         Usable, Dropped
    <2>7. UndoInv'
      BY <1>1, <2>1, <2>2 DEF Inv, Load, TypeOK, RunInv, SchemaInv, UndoInv,
         NothingLostWithoutTrace, AsBefore, Others, Usable, Dropped
    <2>8. ServedDatabaseIsWhole'
      BY <1>1, <2>1, <2>2 DEF Inv, Load, TypeOK, CopyInv, RunInv, SchemaInv,
         ServedDatabaseIsWhole, Others, Usable, Dropped
    <2>9. NothingLostWithoutTrace'
      BY <1>1, <2>1, <2>2 DEF Inv, Load, TypeOK, UndoInv, NothingLostWithoutTrace, Others, Usable,
         Dropped
    <2>10. ExitCodesTell'
      BY <1>1, <2>1, <2>2 DEF Inv, Load, TypeOK, RunInv, SchemaInv, ExitCodesTell, Idle, Others,
         Usable, Dropped
    <2>11. FailedRestoreIsUndone'
      BY <1>1, <2>1, <2>2 DEF Inv, Load, TypeOK, RunInv, SchemaInv, UndoInv, AsBefore,
         FailedRestoreIsUndone, Idle, Restores, Others, Usable, Dropped
    <2> QED
      BY <2>3, <2>4, <2>5, <2>6, <2>7, <2>8, <2>9, <2>10, <2>11 DEF Inv
  <1>2. CASE /\ Fault
             /\ Goes(Compensation)
             /\ UNCHANGED db
    <2>1. /\ run' \in Run
          /\ run'.at = "undo"
          /\ run'.exit = run.exit
          /\ run'.critical = run.critical
          /\ Others(run', run)
      BY <1>2, RunAt, PhaseTypes DEF Inv, TypeOK, Load, Goes, Compensation
    <2>2. TypeOK'
      BY <1>2, <2>1, BoundsAssumption DEF Inv, TypeOK, Load, Fault, NoFault
    <2>3. CopyInv'
      BY <1>2, <2>1 DEF Inv, Load, TypeOK, CopyInv, RunInv, SchemaInv, Database, Others, Usable,
         Dropped
    <2>4. RunInv'
      BY <1>2, <2>1 DEF Inv, Load, TypeOK, RunInv, Restores, Others, Usable, Dropped
    <2>5. SchemaInv'
      BY <1>2, <2>1 DEF Inv, Load, TypeOK, CopyInv, RunInv, SchemaInv, Restores, Others, Usable,
         Dropped
    <2>6. UndoInv'
      BY <1>2, <2>1 DEF Inv, Load, TypeOK, RunInv, SchemaInv, UndoInv, NothingLostWithoutTrace,
         AsBefore, Others, Usable, Dropped
    <2>7. ServedDatabaseIsWhole'
      BY <1>2, <2>1 DEF Inv, Load, TypeOK, CopyInv, RunInv, SchemaInv, ServedDatabaseIsWhole,
         Others, Usable, Dropped
    <2>8. NothingLostWithoutTrace'
      BY <1>2, <2>1 DEF Inv, Load, TypeOK, UndoInv, NothingLostWithoutTrace, Others, Usable,
         Dropped
    <2>9. ExitCodesTell'
      BY <1>2, <2>1 DEF Inv, Load, TypeOK, RunInv, SchemaInv, ExitCodesTell, Idle, Others, Usable,
         Dropped
    <2>10. FailedRestoreIsUndone'
      BY <1>2, <2>1 DEF Inv, Load, TypeOK, RunInv, SchemaInv, UndoInv, AsBefore,
         FailedRestoreIsUndone, Idle, Restores, Others, Usable, Dropped
    <2> QED
      BY <2>2, <2>3, <2>4, <2>5, <2>6, <2>7, <2>8, <2>9, <2>10 DEF Inv
  <1> QED
    BY <1>1, <1>2 DEF Load

LEMMA SwapKeeps ==
    ASSUME Inv, Swap
    PROVE  Inv'
  <1>1. CASE /\ NoFault
             /\ files' = backup.rows
             /\ run' = [run EXCEPT !.at = "verify", !.aside = files, !.swapped = TRUE]
    <2>0. /\ run \in Run /\ files \in SUBSET Writes
         /\ "verify" \in Phases
         /\ run' = [run EXCEPT !.at = "verify", !.aside = files, !.swapped = TRUE]
      BY <1>1, PhaseTypes DEF Inv, TypeOK
    <2>s. AfterSwap(run', run, "verify", files)
      BY <2>0, RunSwapped, Zenon
    <2>1. /\ run' \in Run
          /\ run'.at = "verify"
          /\ run'.exit = run.exit
          /\ run'.critical = run.critical
          /\ run'.aside = files
          /\ run'.swapped
          /\ run'.script = run.script
          /\ run'.manifest = run.manifest
          /\ run'.restored = run.restored
          /\ run'.froze = run.froze
          /\ run'.before = run.before
      BY <2>s DEF AfterSwap
    <2>2. TypeOK'
      BY <1>1, <2>1, BoundsAssumption DEF Inv, TypeOK, Swap, Fault, NoFault, Database
    <2>3. CopyInv'
      BY <1>1, <2>1 DEF Inv, Swap, TypeOK, CopyInv, RunInv, SchemaInv, Database, Usable, Dropped
    <2>4. RunInv'
      BY <1>1, <2>1 DEF Inv, Swap, TypeOK, RunInv, Restores, Usable, Dropped
    <2>5. SchemaInv'
      BY <1>1, <2>1 DEF Inv, Swap, TypeOK, CopyInv, RunInv, SchemaInv, Restores, Usable, Dropped
    <2>6. UndoInv'
      BY <1>1, <2>1 DEF Inv, Swap, TypeOK, RunInv, SchemaInv, UndoInv, NothingLostWithoutTrace,
         AsBefore, Usable, Dropped
    <2>7. ServedDatabaseIsWhole'
      BY <1>1, <2>1 DEF Inv, Swap, TypeOK, CopyInv, RunInv, SchemaInv, ServedDatabaseIsWhole,
         Usable, Dropped
    <2>8. NothingLostWithoutTrace'
      BY <1>1, <2>1 DEF Inv, Swap, TypeOK, UndoInv, NothingLostWithoutTrace, Usable, Dropped
    <2>9. ExitCodesTell'
      BY <1>1, <2>1 DEF Inv, Swap, TypeOK, RunInv, SchemaInv, ExitCodesTell, Idle, Usable, Dropped
    <2>10. FailedRestoreIsUndone'
      BY <1>1, <2>1 DEF Inv, Swap, TypeOK, RunInv, SchemaInv, UndoInv, AsBefore,
         FailedRestoreIsUndone, Idle, Restores, Usable, Dropped
    <2> QED
      BY <2>2, <2>3, <2>4, <2>5, <2>6, <2>7, <2>8, <2>9, <2>10 DEF Inv
  <1>2. CASE /\ Fault
             /\ Goes(Compensation)
             /\ UNCHANGED files
    <2>1. /\ run' \in Run
          /\ run'.at = "undo"
          /\ run'.exit = run.exit
          /\ run'.critical = run.critical
          /\ Others(run', run)
      BY <1>2, RunAt, PhaseTypes DEF Inv, TypeOK, Swap, Goes, Compensation
    <2>2. TypeOK'
      BY <1>2, <2>1, BoundsAssumption DEF Inv, TypeOK, Swap, Fault, NoFault, Database
    <2>3. CopyInv'
      BY <1>2, <2>1 DEF Inv, Swap, TypeOK, CopyInv, RunInv, SchemaInv, Database, Others, Usable,
         Dropped
    <2>4. RunInv'
      BY <1>2, <2>1 DEF Inv, Swap, TypeOK, RunInv, Restores, Others, Usable, Dropped
    <2>5. SchemaInv'
      BY <1>2, <2>1 DEF Inv, Swap, TypeOK, CopyInv, RunInv, SchemaInv, Restores, Others, Usable,
         Dropped
    <2>6. UndoInv'
      BY <1>2, <2>1 DEF Inv, Swap, TypeOK, RunInv, SchemaInv, UndoInv, NothingLostWithoutTrace,
         AsBefore, Others, Usable, Dropped
    <2>7. ServedDatabaseIsWhole'
      BY <1>2, <2>1 DEF Inv, Swap, TypeOK, CopyInv, RunInv, SchemaInv, ServedDatabaseIsWhole,
         Others, Usable, Dropped
    <2>8. NothingLostWithoutTrace'
      BY <1>2, <2>1 DEF Inv, Swap, TypeOK, UndoInv, NothingLostWithoutTrace, Others, Usable,
         Dropped
    <2>9. ExitCodesTell'
      BY <1>2, <2>1 DEF Inv, Swap, TypeOK, RunInv, SchemaInv, ExitCodesTell, Idle, Others, Usable,
         Dropped
    <2>10. FailedRestoreIsUndone'
      BY <1>2, <2>1 DEF Inv, Swap, TypeOK, RunInv, SchemaInv, UndoInv, AsBefore,
         FailedRestoreIsUndone, Idle, Restores, Others, Usable, Dropped
    <2> QED
      BY <2>2, <2>3, <2>4, <2>5, <2>6, <2>7, <2>8, <2>9, <2>10 DEF Inv
  <1>3. CASE /\ Fault
             /\ files' = {}
             /\ run' = [run EXCEPT !.at = Compensation, !.aside = files, !.swapped = TRUE]
    <2>0. /\ run \in Run /\ files \in SUBSET Writes
         /\ "undo" \in Phases
         /\ run' = [run EXCEPT !.at = "undo", !.aside = files, !.swapped = TRUE]
      BY <1>3, PhaseTypes DEF Inv, TypeOK, Compensation
    <2>s. AfterSwap(run', run, "undo", files)
      BY <2>0, RunSwapped, Zenon
    <2>1. /\ run' \in Run
          /\ run'.at = "undo"
          /\ run'.exit = run.exit
          /\ run'.critical = run.critical
          /\ run'.aside = files
          /\ run'.swapped
          /\ run'.script = run.script
          /\ run'.manifest = run.manifest
          /\ run'.restored = run.restored
          /\ run'.froze = run.froze
          /\ run'.before = run.before
      BY <2>s DEF AfterSwap
    <2>2. TypeOK'
      BY <1>3, <2>1, BoundsAssumption DEF Inv, TypeOK, Swap, Fault, NoFault, Database
    <2>3. CopyInv'
      BY <1>3, <2>1 DEF Inv, Swap, TypeOK, CopyInv, RunInv, SchemaInv, Database, Usable, Dropped
    <2>4. RunInv'
      BY <1>3, <2>1 DEF Inv, Swap, TypeOK, RunInv, Restores, Usable, Dropped
    <2>5. SchemaInv'
      BY <1>3, <2>1 DEF Inv, Swap, TypeOK, CopyInv, RunInv, SchemaInv, Restores, Usable, Dropped
    <2>6. UndoInv'
      BY <1>3, <2>1 DEF Inv, Swap, TypeOK, RunInv, SchemaInv, UndoInv, NothingLostWithoutTrace,
         AsBefore, Usable, Dropped
    <2>7. ServedDatabaseIsWhole'
      BY <1>3, <2>1 DEF Inv, Swap, TypeOK, CopyInv, RunInv, SchemaInv, ServedDatabaseIsWhole,
         Usable, Dropped
    <2>8. NothingLostWithoutTrace'
      BY <1>3, <2>1 DEF Inv, Swap, TypeOK, UndoInv, NothingLostWithoutTrace, Usable, Dropped
    <2>9. ExitCodesTell'
      BY <1>3, <2>1 DEF Inv, Swap, TypeOK, RunInv, SchemaInv, ExitCodesTell, Idle, Usable, Dropped
    <2>10. FailedRestoreIsUndone'
      BY <1>3, <2>1 DEF Inv, Swap, TypeOK, RunInv, SchemaInv, UndoInv, AsBefore,
         FailedRestoreIsUndone, Idle, Restores, Usable, Dropped
    <2> QED
      BY <2>2, <2>3, <2>4, <2>5, <2>6, <2>7, <2>8, <2>9, <2>10 DEF Inv
  <1> QED
    BY <1>1, <1>2, <1>3 DEF Swap

LEMMA VerifyKeeps ==
    ASSUME Inv, Verify
    PROVE  Inv'
  <1>1. CASE run.script = "restore"
    <2>1. /\ run' \in Run
          /\ run'.at = "idle"
          /\ run'.exit = "0"
          /\ run'.critical = run.critical
          /\ run'.restored
          /\ run'.script = run.script
          /\ run'.manifest = run.manifest
          /\ run'.froze = run.froze
      BY <1>1, RunRestored DEF Inv, TypeOK, Verify, CountsMatch
    <2>2. /\ db' \in Database
          /\ (Usable(db') \/ db' = Dropped)
          /\ db'.schema = db.schema
          /\ db'.rows = db.rows
      BY <1>1, ForbiddenDb DEF Inv, TypeOK, Verify, CountsMatch
    <2>3. TypeOK'
      BY <1>1, <2>1, <2>2, BoundsAssumption DEF Inv, TypeOK, Verify, CountsMatch, Fault, NoFault,
         StaysFrozen
    <2>4. CopyInv'
      BY <1>1, <2>1, <2>2 DEF Inv, Verify, CountsMatch, TypeOK, CopyInv, RunInv, SchemaInv,
         Database, StaysFrozen, Usable, Dropped
    <2>5. RunInv'
      BY <1>1, <2>1, <2>2 DEF Inv, Verify, CountsMatch, TypeOK, RunInv, Restores, StaysFrozen,
         Usable, Dropped
    <2>6. SchemaInv'
      BY <1>1, <2>1, <2>2 DEF Inv, Verify, CountsMatch, TypeOK, CopyInv, RunInv, SchemaInv,
         Restores, StaysFrozen, Usable, Dropped
    <2>7. UndoInv'
      BY <1>1, <2>1, <2>2 DEF Inv, Verify, CountsMatch, TypeOK, RunInv, SchemaInv, UndoInv,
         NothingLostWithoutTrace, AsBefore, StaysFrozen, Usable, Dropped
    <2>8. ServedDatabaseIsWhole'
      BY <1>1, <2>1, <2>2 DEF Inv, Verify, CountsMatch, TypeOK, CopyInv, RunInv, SchemaInv,
         ServedDatabaseIsWhole, StaysFrozen, Usable, Dropped
    <2>9. NothingLostWithoutTrace'
      BY <1>1, <2>1, <2>2 DEF Inv, Verify, CountsMatch, TypeOK, UndoInv, NothingLostWithoutTrace,
         StaysFrozen, Usable, Dropped
    <2>10. ExitCodesTell'
      BY <1>1, <2>1, <2>2 DEF Inv, Verify, CountsMatch, TypeOK, RunInv, SchemaInv, ExitCodesTell,
         Idle, StaysFrozen, Usable, Dropped
    <2>11. FailedRestoreIsUndone'
      BY <1>1, <2>1, <2>2 DEF Inv, Verify, CountsMatch, TypeOK, RunInv, SchemaInv, UndoInv,
         AsBefore, FailedRestoreIsUndone, Idle, Restores, StaysFrozen, Usable, Dropped
    <2> QED
      BY <2>3, <2>4, <2>5, <2>6, <2>7, <2>8, <2>9, <2>10, <2>11 DEF Inv
  <1>2. CASE run.script # "restore"
    <2>1. /\ run' \in Run
          /\ run'.at = "boot"
          /\ run'.exit = run.exit
          /\ run'.critical = run.critical
          /\ run'.restored
          /\ run'.script = run.script
          /\ run'.manifest = run.manifest
          /\ run'.froze = run.froze
      BY <1>2, RunRestored DEF Inv, TypeOK, Verify, CountsMatch
    <2>2. /\ db' \in Database
          /\ (Usable(db') \/ db' = Dropped)
          /\ db'.schema = db.schema
          /\ db'.rows = db.rows
      BY <1>2, ForbiddenDb DEF Inv, TypeOK, Verify, CountsMatch
    <2>3. TypeOK'
      BY <1>2, <2>1, <2>2, BoundsAssumption DEF Inv, TypeOK, Verify, CountsMatch, Fault, NoFault,
         StaysFrozen
    <2>4. CopyInv'
      BY <1>2, <2>1, <2>2 DEF Inv, Verify, CountsMatch, TypeOK, CopyInv, RunInv, SchemaInv,
         Database, StaysFrozen, Usable, Dropped
    <2>5. RunInv'
      BY <1>2, <2>1, <2>2 DEF Inv, Verify, CountsMatch, TypeOK, RunInv, Restores, StaysFrozen,
         Usable, Dropped
    <2>6. SchemaInv'
      BY <1>2, <2>1, <2>2 DEF Inv, Verify, CountsMatch, TypeOK, CopyInv, RunInv, SchemaInv,
         Restores, StaysFrozen, Usable, Dropped
    <2>7. UndoInv'
      BY <1>2, <2>1, <2>2 DEF Inv, Verify, CountsMatch, TypeOK, RunInv, SchemaInv, UndoInv,
         NothingLostWithoutTrace, AsBefore, StaysFrozen, Usable, Dropped
    <2>8. ServedDatabaseIsWhole'
      BY <1>2, <2>1, <2>2 DEF Inv, Verify, CountsMatch, TypeOK, CopyInv, RunInv, SchemaInv,
         ServedDatabaseIsWhole, StaysFrozen, Usable, Dropped
    <2>9. NothingLostWithoutTrace'
      BY <1>2, <2>1, <2>2 DEF Inv, Verify, CountsMatch, TypeOK, UndoInv, NothingLostWithoutTrace,
         StaysFrozen, Usable, Dropped
    <2>10. ExitCodesTell'
      BY <1>2, <2>1, <2>2 DEF Inv, Verify, CountsMatch, TypeOK, RunInv, SchemaInv, ExitCodesTell,
         Idle, StaysFrozen, Usable, Dropped
    <2>11. FailedRestoreIsUndone'
      BY <1>2, <2>1, <2>2 DEF Inv, Verify, CountsMatch, TypeOK, RunInv, SchemaInv, UndoInv,
         AsBefore, FailedRestoreIsUndone, Idle, Restores, StaysFrozen, Usable, Dropped
    <2> QED
      BY <2>3, <2>4, <2>5, <2>6, <2>7, <2>8, <2>9, <2>10, <2>11 DEF Inv
  <1> QED
    BY <1>1, <1>2

LEMMA VerifyFailsKeeps ==
    ASSUME Inv, VerifyFails
    PROVE  Inv'
  <1>1. /\ run' \in Run
        /\ run'.at = "undo"
        /\ run'.exit = run.exit
        /\ run'.critical = run.critical
        /\ Others(run', run)
    BY RunAt, PhaseTypes DEF Inv, TypeOK, VerifyFails, Goes, Compensation
  <1>2. TypeOK'
    BY <1>1, BoundsAssumption DEF Inv, TypeOK, VerifyFails, Fault, NoFault
  <1>3. CopyInv'
    BY <1>1 DEF Inv, VerifyFails, TypeOK, CopyInv, RunInv, SchemaInv, Database, Others, Usable,
       Dropped
  <1>4. RunInv'
    BY <1>1 DEF Inv, VerifyFails, TypeOK, RunInv, Restores, Others, Usable, Dropped
  <1>5. SchemaInv'
    BY <1>1 DEF Inv, VerifyFails, TypeOK, CopyInv, RunInv, SchemaInv, Restores, Others, Usable,
       Dropped
  <1>6. UndoInv'
    BY <1>1 DEF Inv, VerifyFails, TypeOK, RunInv, SchemaInv, UndoInv, NothingLostWithoutTrace,
       AsBefore, Others, Usable, Dropped
  <1>7. ServedDatabaseIsWhole'
    BY <1>1 DEF Inv, VerifyFails, TypeOK, CopyInv, RunInv, SchemaInv, ServedDatabaseIsWhole,
       Others, Usable, Dropped
  <1>8. NothingLostWithoutTrace'
    BY <1>1 DEF Inv, VerifyFails, TypeOK, UndoInv, NothingLostWithoutTrace, Others, Usable,
       Dropped
  <1>9. ExitCodesTell'
    BY <1>1 DEF Inv, VerifyFails, TypeOK, RunInv, SchemaInv, ExitCodesTell, Idle, Others, Usable,
       Dropped
  <1>10. FailedRestoreIsUndone'
    BY <1>1 DEF Inv, VerifyFails, TypeOK, RunInv, SchemaInv, UndoInv, AsBefore,
       FailedRestoreIsUndone, Idle, Restores, Others, Usable, Dropped
  <1> QED
    BY <1>2, <1>3, <1>4, <1>5, <1>6, <1>7, <1>8, <1>9, <1>10 DEF Inv

LEMMA UndoKeeps ==
    ASSUME Inv, Undo
    PROVE  Inv'
  <1>1. CASE /\ NoFault
             /\ Goes("reload")
             /\ db' = Dropped
    <2>1. /\ run' \in Run
          /\ run'.at = "reload"
          /\ run'.exit = run.exit
          /\ run'.critical = run.critical
          /\ Others(run', run)
      BY <1>1, RunAt, PhaseTypes DEF Inv, TypeOK, Undo, Goes
    <2>2. /\ db' \in Database
          /\ (Usable(db') \/ db' = Dropped)
      BY <1>1, DroppedDb
    <2>3. TypeOK'
      BY <1>1, <2>1, <2>2, BoundsAssumption DEF Inv, TypeOK, Undo, Fault, NoFault
    <2>4. CopyInv'
      BY <1>1, <2>1, <2>2 DEF Inv, Undo, TypeOK, CopyInv, RunInv, SchemaInv, Database, Others,
         Usable, Dropped
    <2>5. RunInv'
      BY <1>1, <2>1, <2>2 DEF Inv, Undo, TypeOK, RunInv, Restores, Others, Usable, Dropped
    <2>6. SchemaInv'
      BY <1>1, <2>1, <2>2 DEF Inv, Undo, TypeOK, CopyInv, RunInv, SchemaInv, Restores, Others,
         Usable, Dropped
    <2>7. UndoInv'
      BY <1>1, <2>1, <2>2 DEF Inv, Undo, TypeOK, RunInv, SchemaInv, UndoInv,
         NothingLostWithoutTrace, AsBefore, Others, Usable, Dropped
    <2>8. ServedDatabaseIsWhole'
      BY <1>1, <2>1, <2>2 DEF Inv, Undo, TypeOK, CopyInv, RunInv, SchemaInv,
         ServedDatabaseIsWhole, Others, Usable, Dropped
    <2>9. NothingLostWithoutTrace'
      BY <1>1, <2>1, <2>2 DEF Inv, Undo, TypeOK, UndoInv, NothingLostWithoutTrace, Others, Usable,
         Dropped
    <2>10. ExitCodesTell'
      BY <1>1, <2>1, <2>2 DEF Inv, Undo, TypeOK, RunInv, SchemaInv, ExitCodesTell, Idle, Others,
         Usable, Dropped
    <2>11. FailedRestoreIsUndone'
      BY <1>1, <2>1, <2>2 DEF Inv, Undo, TypeOK, RunInv, SchemaInv, UndoInv, AsBefore,
         FailedRestoreIsUndone, Idle, Restores, Others, Usable, Dropped
    <2> QED
      BY <2>3, <2>4, <2>5, <2>6, <2>7, <2>8, <2>9, <2>10, <2>11 DEF Inv
  <1>2. CASE /\ Fault
             /\ UNCHANGED db
             /\ run' = [run EXCEPT !.at = "unswap", !.critical = TRUE]
    <2>1. /\ run' \in Run
          /\ run'.at = "unswap"
          /\ run'.exit = run.exit
          /\ run'.critical
          /\ Others(run', run)
      BY <1>2, RunCritical, PhaseTypes DEF Inv, TypeOK, Undo
    <2>2. TypeOK'
      BY <1>2, <2>1, BoundsAssumption DEF Inv, TypeOK, Undo, Fault, NoFault
    <2>3. CopyInv'
      BY <1>2, <2>1 DEF Inv, Undo, TypeOK, CopyInv, RunInv, SchemaInv, Database, Others, Usable,
         Dropped
    <2>4. RunInv'
      BY <1>2, <2>1 DEF Inv, Undo, TypeOK, RunInv, Restores, Others, Usable, Dropped
    <2>5. SchemaInv'
      BY <1>2, <2>1 DEF Inv, Undo, TypeOK, CopyInv, RunInv, SchemaInv, Restores, Others, Usable,
         Dropped
    <2>6. UndoInv'
      BY <1>2, <2>1 DEF Inv, Undo, TypeOK, RunInv, SchemaInv, UndoInv, NothingLostWithoutTrace,
         AsBefore, Others, Usable, Dropped
    <2>7. ServedDatabaseIsWhole'
      BY <1>2, <2>1 DEF Inv, Undo, TypeOK, CopyInv, RunInv, SchemaInv, ServedDatabaseIsWhole,
         Others, Usable, Dropped
    <2>8. NothingLostWithoutTrace'
      BY <1>2, <2>1 DEF Inv, Undo, TypeOK, UndoInv, NothingLostWithoutTrace, Others, Usable,
         Dropped
    <2>9. ExitCodesTell'
      BY <1>2, <2>1 DEF Inv, Undo, TypeOK, RunInv, SchemaInv, ExitCodesTell, Idle, Others, Usable,
         Dropped
    <2>10. FailedRestoreIsUndone'
      BY <1>2, <2>1 DEF Inv, Undo, TypeOK, RunInv, SchemaInv, UndoInv, AsBefore,
         FailedRestoreIsUndone, Idle, Restores, Others, Usable, Dropped
    <2> QED
      BY <2>2, <2>3, <2>4, <2>5, <2>6, <2>7, <2>8, <2>9, <2>10 DEF Inv
  <1> QED
    BY <1>1, <1>2 DEF Undo

LEMMA ReloadKeeps ==
    ASSUME Inv, Reload
    PROVE  Inv'
  <1>1. CASE /\ NoFault
             /\ Goes("unswap")
             /\ db' = safety
    <2>1. /\ run' \in Run
          /\ run'.at = "unswap"
          /\ run'.exit = run.exit
          /\ run'.critical = run.critical
          /\ Others(run', run)
      BY <1>1, RunAt, PhaseTypes DEF Inv, TypeOK, Reload, Goes
    <2>2. /\ db' \in Database
          /\ (Usable(db') \/ db' = Dropped)
      BY <1>1 DEF Inv, TypeOK, CopyInv, Usable, Dropped
    <2>3. TypeOK'
      BY <1>1, <2>1, <2>2, BoundsAssumption DEF Inv, TypeOK, Reload, Fault, NoFault
    <2>4. CopyInv'
      BY <1>1, <2>1, <2>2 DEF Inv, Reload, TypeOK, CopyInv, RunInv, SchemaInv, Database, Others,
         Usable, Dropped
    <2>5. RunInv'
      BY <1>1, <2>1, <2>2 DEF Inv, Reload, TypeOK, RunInv, Restores, Others, Usable, Dropped
    <2>6. SchemaInv'
      BY <1>1, <2>1, <2>2 DEF Inv, Reload, TypeOK, CopyInv, RunInv, SchemaInv, Restores, Others,
         Usable, Dropped
    <2>7. UndoInv'
      BY <1>1, <2>1, <2>2 DEF Inv, Reload, TypeOK, RunInv, SchemaInv, UndoInv,
         NothingLostWithoutTrace, AsBefore, Others, Usable, Dropped
    <2>8. ServedDatabaseIsWhole'
      BY <1>1, <2>1, <2>2 DEF Inv, Reload, TypeOK, CopyInv, RunInv, SchemaInv,
         ServedDatabaseIsWhole, Others, Usable, Dropped
    <2>9. NothingLostWithoutTrace'
      BY <1>1, <2>1, <2>2 DEF Inv, Reload, TypeOK, UndoInv, NothingLostWithoutTrace, Others,
         Usable, Dropped
    <2>10. ExitCodesTell'
      BY <1>1, <2>1, <2>2 DEF Inv, Reload, TypeOK, RunInv, SchemaInv, ExitCodesTell, Idle, Others,
         Usable, Dropped
    <2>11. FailedRestoreIsUndone'
      BY <1>1, <2>1, <2>2 DEF Inv, Reload, TypeOK, RunInv, SchemaInv, UndoInv, AsBefore,
         FailedRestoreIsUndone, Idle, Restores, Others, Usable, Dropped
    <2> QED
      BY <2>3, <2>4, <2>5, <2>6, <2>7, <2>8, <2>9, <2>10, <2>11 DEF Inv
  <1>2. CASE /\ Fault
             /\ UNCHANGED db
             /\ run' = [run EXCEPT !.at = "unswap", !.critical = TRUE]
    <2>1. /\ run' \in Run
          /\ run'.at = "unswap"
          /\ run'.exit = run.exit
          /\ run'.critical
          /\ Others(run', run)
      BY <1>2, RunCritical, PhaseTypes DEF Inv, TypeOK, Reload
    <2>2. TypeOK'
      BY <1>2, <2>1, BoundsAssumption DEF Inv, TypeOK, Reload, Fault, NoFault
    <2>3. CopyInv'
      BY <1>2, <2>1 DEF Inv, Reload, TypeOK, CopyInv, RunInv, SchemaInv, Database, Others, Usable,
         Dropped
    <2>4. RunInv'
      BY <1>2, <2>1 DEF Inv, Reload, TypeOK, RunInv, Restores, Others, Usable, Dropped
    <2>5. SchemaInv'
      BY <1>2, <2>1 DEF Inv, Reload, TypeOK, CopyInv, RunInv, SchemaInv, Restores, Others, Usable,
         Dropped
    <2>6. UndoInv'
      BY <1>2, <2>1 DEF Inv, Reload, TypeOK, RunInv, SchemaInv, UndoInv, NothingLostWithoutTrace,
         AsBefore, Others, Usable, Dropped
    <2>7. ServedDatabaseIsWhole'
      BY <1>2, <2>1 DEF Inv, Reload, TypeOK, CopyInv, RunInv, SchemaInv, ServedDatabaseIsWhole,
         Others, Usable, Dropped
    <2>8. NothingLostWithoutTrace'
      BY <1>2, <2>1 DEF Inv, Reload, TypeOK, UndoInv, NothingLostWithoutTrace, Others, Usable,
         Dropped
    <2>9. ExitCodesTell'
      BY <1>2, <2>1 DEF Inv, Reload, TypeOK, RunInv, SchemaInv, ExitCodesTell, Idle, Others,
         Usable, Dropped
    <2>10. FailedRestoreIsUndone'
      BY <1>2, <2>1 DEF Inv, Reload, TypeOK, RunInv, SchemaInv, UndoInv, AsBefore,
         FailedRestoreIsUndone, Idle, Restores, Others, Usable, Dropped
    <2> QED
      BY <2>2, <2>3, <2>4, <2>5, <2>6, <2>7, <2>8, <2>9, <2>10 DEF Inv
  <1> QED
    BY <1>1, <1>2 DEF Reload

LEMMA UnswapKeeps ==
    ASSUME Inv, Unswap
    PROVE  Inv'
  <1>1. CASE /\ NoFault
             /\ files' = (IF run.swapped THEN run.aside ELSE files)
             /\ RestoreFailed(run)
    <2>1. /\ run' \in Run
          /\ run'.at = "idle"
          /\ run'.critical = run.critical
          /\ Others(run', run)
          /\ (run.script = "restore" => run'.exit = "1")
          /\ (run.script # "restore" => run'.exit = "2")
      BY <1>1, RunFails DEF Inv, TypeOK, Unswap, RestoreFailed
    <2>2. /\ db' \in Database
          /\ (Usable(db') \/ db' = Dropped)
          /\ db'.schema = db.schema
          /\ db'.rows = db.rows
      BY <1>1, ForbiddenDb DEF Inv, TypeOK, Unswap
    <2>3. files' \subseteq Writes
      BY <1>1 DEF Inv, TypeOK, Run
    <2>4. TypeOK'
      BY <1>1, <2>1, <2>2, <2>3, BoundsAssumption DEF Inv, TypeOK, Unswap, Fault, NoFault,
         RestoreFailed, StaysFrozen
    <2>5. CopyInv'
      BY <1>1, <2>1, <2>2 DEF Inv, Unswap, TypeOK, CopyInv, RunInv, SchemaInv, Database, Others,
         RestoreFailed, StaysFrozen, Usable, Dropped
    <2>6. RunInv'
      BY <1>1, <2>1, <2>2 DEF Inv, Unswap, TypeOK, RunInv, Restores, Others, RestoreFailed,
         StaysFrozen, Usable, Dropped
    <2>7. SchemaInv'
      BY <1>1, <2>1, <2>2 DEF Inv, Unswap, TypeOK, CopyInv, RunInv, SchemaInv, Restores, Others,
         RestoreFailed, StaysFrozen, Usable, Dropped
    <2>8. UndoInv'
      BY <1>1, <2>1, <2>2 DEF Inv, Unswap, TypeOK, RunInv, SchemaInv, UndoInv,
         NothingLostWithoutTrace, AsBefore, Others, RestoreFailed, StaysFrozen, Usable, Dropped
    <2>9. ServedDatabaseIsWhole'
      BY <1>1, <2>1, <2>2 DEF Inv, Unswap, TypeOK, CopyInv, RunInv, SchemaInv,
         ServedDatabaseIsWhole, Others, RestoreFailed, StaysFrozen, Usable, Dropped
    <2>10. NothingLostWithoutTrace'
      BY <1>1, <2>1, <2>2 DEF Inv, Unswap, TypeOK, UndoInv, NothingLostWithoutTrace, Others,
         RestoreFailed, StaysFrozen, Usable, Dropped
    <2>11. ExitCodesTell'
      BY <1>1, <2>1, <2>2 DEF Inv, Unswap, TypeOK, RunInv, SchemaInv, ExitCodesTell, Idle, Others,
         RestoreFailed, StaysFrozen, Usable, Dropped
    <2>12. FailedRestoreIsUndone'
      BY <1>1, <2>1, <2>2 DEF Inv, Unswap, TypeOK, RunInv, SchemaInv, UndoInv, AsBefore,
         FailedRestoreIsUndone, Idle, Restores, Others, RestoreFailed, StaysFrozen, Usable,
         Dropped
    <2> QED
      BY <2>4, <2>5, <2>6, <2>7, <2>8, <2>9, <2>10, <2>11, <2>12 DEF Inv
  <1>2. CASE /\ run.swapped
             /\ Fault
             /\ files' \in {files, {}}
             /\ RestoreFailed([run EXCEPT !.critical = TRUE])
    <2> DEFINE k == [run EXCEPT !.critical = TRUE]
    <2>a. k \in Run /\ k.critical /\ Others(k, run)
      BY RunGivesUp DEF Inv, TypeOK
    <2>b. run' = [k EXCEPT !.at = "idle", !.exit = FailureCode(k)]
      BY <1>2 DEF RestoreFailed
    <2> HIDE DEF k
    <2>c. /\ run' \in Run /\ run'.at = "idle" /\ run'.critical = k.critical /\ Others(run', k)
         /\ (k.script = "restore" => run'.exit = "1")
         /\ (k.script # "restore" => run'.exit = "2")
      BY <2>a, <2>b, RunFails
    <2>1. /\ run' \in Run
          /\ run'.at = "idle"
          /\ run'.critical
          /\ Others(run', run)
          /\ (run.script = "restore" => run'.exit = "1")
          /\ (run.script # "restore" => run'.exit = "2")
      BY <2>a, <2>c DEF Others
    <2>2. /\ db' \in Database
          /\ (Usable(db') \/ db' = Dropped)
          /\ db'.schema = db.schema
          /\ db'.rows = db.rows
      BY <1>2, ForbiddenDb DEF Inv, TypeOK, Unswap
    <2>3. files' \subseteq Writes
      BY <1>2 DEF Inv, TypeOK, Run
    <2>4. TypeOK'
      BY <1>2, <2>1, <2>2, <2>3, BoundsAssumption DEF Inv, TypeOK, Unswap, Fault, NoFault,
         RestoreFailed, StaysFrozen
    <2>5. CopyInv'
      BY <1>2, <2>1, <2>2 DEF Inv, Unswap, TypeOK, CopyInv, RunInv, SchemaInv, Database, Others,
         RestoreFailed, StaysFrozen, Usable, Dropped
    <2>6. RunInv'
      BY <1>2, <2>1, <2>2 DEF Inv, Unswap, TypeOK, RunInv, Restores, Others, RestoreFailed,
         StaysFrozen, Usable, Dropped
    <2>7. SchemaInv'
      BY <1>2, <2>1, <2>2 DEF Inv, Unswap, TypeOK, CopyInv, RunInv, SchemaInv, Restores, Others,
         RestoreFailed, StaysFrozen, Usable, Dropped
    <2>8. UndoInv'
      BY <1>2, <2>1, <2>2 DEF Inv, Unswap, TypeOK, RunInv, SchemaInv, UndoInv,
         NothingLostWithoutTrace, AsBefore, Others, RestoreFailed, StaysFrozen, Usable, Dropped
    <2>9. ServedDatabaseIsWhole'
      BY <1>2, <2>1, <2>2 DEF Inv, Unswap, TypeOK, CopyInv, RunInv, SchemaInv,
         ServedDatabaseIsWhole, Others, RestoreFailed, StaysFrozen, Usable, Dropped
    <2>10. NothingLostWithoutTrace'
      BY <1>2, <2>1, <2>2 DEF Inv, Unswap, TypeOK, UndoInv, NothingLostWithoutTrace, Others,
         RestoreFailed, StaysFrozen, Usable, Dropped
    <2>11. ExitCodesTell'
      BY <1>2, <2>1, <2>2 DEF Inv, Unswap, TypeOK, RunInv, SchemaInv, ExitCodesTell, Idle, Others,
         RestoreFailed, StaysFrozen, Usable, Dropped
    <2>12. FailedRestoreIsUndone'
      BY <1>2, <2>1, <2>2 DEF Inv, Unswap, TypeOK, RunInv, SchemaInv, UndoInv, AsBefore,
         FailedRestoreIsUndone, Idle, Restores, Others, RestoreFailed, StaysFrozen, Usable,
         Dropped
    <2> QED
      BY <2>4, <2>5, <2>6, <2>7, <2>8, <2>9, <2>10, <2>11, <2>12 DEF Inv
  <1> QED
    BY <1>1, <1>2 DEF Unswap

LEMMA BootKeeps ==
    ASSUME Inv, Boot
    PROVE  Inv'
  <1>1. CASE /\ NoFault
             /\ Goes("confirm")
             /\ app' = "old"
    <2>1. /\ run' \in Run
          /\ run'.at = "confirm"
          /\ run'.exit = run.exit
          /\ run'.critical = run.critical
          /\ Others(run', run)
      BY <1>1, RunAt, PhaseTypes DEF Inv, TypeOK, Boot, Goes
    <2>2. TypeOK'
      BY <1>1, <2>1, BoundsAssumption DEF Inv, TypeOK, Boot, Fault, NoFault
    <2>3. CopyInv'
      BY <1>1, <2>1 DEF Inv, Boot, TypeOK, CopyInv, RunInv, SchemaInv, Database, Others, Usable,
         Dropped
    <2>4. RunInv'
      BY <1>1, <2>1 DEF Inv, Boot, TypeOK, RunInv, Restores, Others, Usable, Dropped
    <2>5. SchemaInv'
      BY <1>1, <2>1 DEF Inv, Boot, TypeOK, CopyInv, RunInv, SchemaInv, Restores, Others, Usable,
         Dropped
    <2>6. UndoInv'
      BY <1>1, <2>1 DEF Inv, Boot, TypeOK, RunInv, SchemaInv, UndoInv, NothingLostWithoutTrace,
         AsBefore, Others, Usable, Dropped
    <2>7. ServedDatabaseIsWhole'
      BY <1>1, <2>1 DEF Inv, Boot, TypeOK, CopyInv, RunInv, SchemaInv, ServedDatabaseIsWhole,
         Others, Usable, Dropped
    <2>8. NothingLostWithoutTrace'
      BY <1>1, <2>1 DEF Inv, Boot, TypeOK, UndoInv, NothingLostWithoutTrace, Others, Usable,
         Dropped
    <2>9. ExitCodesTell'
      BY <1>1, <2>1 DEF Inv, Boot, TypeOK, RunInv, SchemaInv, ExitCodesTell, Idle, Others, Usable,
         Dropped
    <2>10. FailedRestoreIsUndone'
      BY <1>1, <2>1 DEF Inv, Boot, TypeOK, RunInv, SchemaInv, UndoInv, AsBefore,
         FailedRestoreIsUndone, Idle, Restores, Others, Usable, Dropped
    <2> QED
      BY <2>2, <2>3, <2>4, <2>5, <2>6, <2>7, <2>8, <2>9, <2>10 DEF Inv
  <1>2. CASE /\ Fault
             /\ Exits("2")
             /\ app' \in {app, "old"}
    <2>1. /\ run' \in Run
          /\ run'.at = "idle"
          /\ run'.exit = "2"
          /\ run'.critical = run.critical
          /\ Others(run', run)
      BY <1>2, RunEnds DEF Inv, TypeOK, Boot, Exits, Codes
    <2>2. TypeOK'
      BY <1>2, <2>1, BoundsAssumption DEF Inv, TypeOK, Boot, Fault, NoFault
    <2>3. CopyInv'
      BY <1>2, <2>1 DEF Inv, Boot, TypeOK, CopyInv, RunInv, SchemaInv, Database, Others, Usable,
         Dropped
    <2>4. RunInv'
      BY <1>2, <2>1 DEF Inv, Boot, TypeOK, RunInv, Restores, Others, Usable, Dropped
    <2>5. SchemaInv'
      BY <1>2, <2>1 DEF Inv, Boot, TypeOK, CopyInv, RunInv, SchemaInv, Restores, Others, Usable,
         Dropped
    <2>6. UndoInv'
      BY <1>2, <2>1 DEF Inv, Boot, TypeOK, RunInv, SchemaInv, UndoInv, NothingLostWithoutTrace,
         AsBefore, Others, Usable, Dropped
    <2>7. ServedDatabaseIsWhole'
      BY <1>2, <2>1 DEF Inv, Boot, TypeOK, CopyInv, RunInv, SchemaInv, ServedDatabaseIsWhole,
         Others, Usable, Dropped
    <2>8. NothingLostWithoutTrace'
      BY <1>2, <2>1 DEF Inv, Boot, TypeOK, UndoInv, NothingLostWithoutTrace, Others, Usable,
         Dropped
    <2>9. ExitCodesTell'
      BY <1>2, <2>1 DEF Inv, Boot, TypeOK, RunInv, SchemaInv, ExitCodesTell, Idle, Others, Usable,
         Dropped
    <2>10. FailedRestoreIsUndone'
      BY <1>2, <2>1 DEF Inv, Boot, TypeOK, RunInv, SchemaInv, UndoInv, AsBefore,
         FailedRestoreIsUndone, Idle, Restores, Others, Usable, Dropped
    <2> QED
      BY <2>2, <2>3, <2>4, <2>5, <2>6, <2>7, <2>8, <2>9, <2>10 DEF Inv
  <1> QED
    BY <1>1, <1>2 DEF Boot

LEMMA ConfirmKeeps ==
    ASSUME Inv, Confirm
    PROVE  Inv'
  <1>1. CASE /\ run.script = "deploy"
             /\ NoFault
             /\ frozen' = FALSE
             /\ Exits("1")
    <2>1. /\ run' \in Run
          /\ run'.at = "idle"
          /\ run'.exit = "1"
          /\ run'.critical = run.critical
          /\ Others(run', run)
      BY <1>1, RunEnds DEF Inv, TypeOK, Confirm, Exits, Codes
    <2>2. TypeOK'
      BY <1>1, <2>1, BoundsAssumption DEF Inv, TypeOK, Confirm, Fault, NoFault
    <2>3. CopyInv'
      BY <1>1, <2>1 DEF Inv, Confirm, TypeOK, CopyInv, RunInv, SchemaInv, Database, Others,
         Usable, Dropped
    <2>4. RunInv'
      BY <1>1, <2>1 DEF Inv, Confirm, TypeOK, RunInv, Restores, Others, Usable, Dropped
    <2>5. SchemaInv'
      BY <1>1, <2>1 DEF Inv, Confirm, TypeOK, CopyInv, RunInv, SchemaInv, Restores, Others,
         Usable, Dropped
    <2>6. UndoInv'
      BY <1>1, <2>1 DEF Inv, Confirm, TypeOK, RunInv, SchemaInv, UndoInv, NothingLostWithoutTrace,
         AsBefore, Others, Usable, Dropped
    <2>7. ServedDatabaseIsWhole'
      BY <1>1, <2>1 DEF Inv, Confirm, TypeOK, CopyInv, RunInv, SchemaInv, ServedDatabaseIsWhole,
         Others, Usable, Dropped
    <2>8. NothingLostWithoutTrace'
      BY <1>1, <2>1 DEF Inv, Confirm, TypeOK, UndoInv, NothingLostWithoutTrace, Others, Usable,
         Dropped
    <2>9. ExitCodesTell'
      BY <1>1, <2>1 DEF Inv, Confirm, TypeOK, RunInv, SchemaInv, ExitCodesTell, Idle, Others,
         Usable, Dropped
    <2>10. FailedRestoreIsUndone'
      BY <1>1, <2>1 DEF Inv, Confirm, TypeOK, RunInv, SchemaInv, UndoInv, AsBefore,
         FailedRestoreIsUndone, Idle, Restores, Others, Usable, Dropped
    <2> QED
      BY <2>2, <2>3, <2>4, <2>5, <2>6, <2>7, <2>8, <2>9, <2>10 DEF Inv
  <1>2. CASE /\ run.script # "deploy"
             /\ NoFault
             /\ frozen' = FALSE
             /\ Exits("0")
    <2>1. /\ run' \in Run
          /\ run'.at = "idle"
          /\ run'.exit = "0"
          /\ run'.critical = run.critical
          /\ Others(run', run)
      BY <1>2, RunEnds DEF Inv, TypeOK, Confirm, Exits, Codes
    <2>2. TypeOK'
      BY <1>2, <2>1, BoundsAssumption DEF Inv, TypeOK, Confirm, Fault, NoFault
    <2>3. CopyInv'
      BY <1>2, <2>1 DEF Inv, Confirm, TypeOK, CopyInv, RunInv, SchemaInv, Database, Others,
         Usable, Dropped
    <2>4. RunInv'
      BY <1>2, <2>1 DEF Inv, Confirm, TypeOK, RunInv, Restores, Others, Usable, Dropped
    <2>5. SchemaInv'
      BY <1>2, <2>1 DEF Inv, Confirm, TypeOK, CopyInv, RunInv, SchemaInv, Restores, Others,
         Usable, Dropped
    <2>6. UndoInv'
      BY <1>2, <2>1 DEF Inv, Confirm, TypeOK, RunInv, SchemaInv, UndoInv, NothingLostWithoutTrace,
         AsBefore, Others, Usable, Dropped
    <2>7. ServedDatabaseIsWhole'
      BY <1>2, <2>1 DEF Inv, Confirm, TypeOK, CopyInv, RunInv, SchemaInv, ServedDatabaseIsWhole,
         Others, Usable, Dropped
    <2>8. NothingLostWithoutTrace'
      BY <1>2, <2>1 DEF Inv, Confirm, TypeOK, UndoInv, NothingLostWithoutTrace, Others, Usable,
         Dropped
    <2>9. ExitCodesTell'
      BY <1>2, <2>1 DEF Inv, Confirm, TypeOK, RunInv, SchemaInv, ExitCodesTell, Idle, Others,
         Usable, Dropped
    <2>10. FailedRestoreIsUndone'
      BY <1>2, <2>1 DEF Inv, Confirm, TypeOK, RunInv, SchemaInv, UndoInv, AsBefore,
         FailedRestoreIsUndone, Idle, Restores, Others, Usable, Dropped
    <2> QED
      BY <2>2, <2>3, <2>4, <2>5, <2>6, <2>7, <2>8, <2>9, <2>10 DEF Inv
  <1>3. CASE /\ Fault
             /\ Exits("2")
             /\ UNCHANGED frozen
    <2>1. /\ run' \in Run
          /\ run'.at = "idle"
          /\ run'.exit = "2"
          /\ run'.critical = run.critical
          /\ Others(run', run)
      BY <1>3, RunEnds DEF Inv, TypeOK, Confirm, Exits, Codes
    <2>2. TypeOK'
      BY <1>3, <2>1, BoundsAssumption DEF Inv, TypeOK, Confirm, Fault, NoFault
    <2>3. CopyInv'
      BY <1>3, <2>1 DEF Inv, Confirm, TypeOK, CopyInv, RunInv, SchemaInv, Database, Others,
         Usable, Dropped
    <2>4. RunInv'
      BY <1>3, <2>1 DEF Inv, Confirm, TypeOK, RunInv, Restores, Others, Usable, Dropped
    <2>5. SchemaInv'
      BY <1>3, <2>1 DEF Inv, Confirm, TypeOK, CopyInv, RunInv, SchemaInv, Restores, Others,
         Usable, Dropped
    <2>6. UndoInv'
      BY <1>3, <2>1 DEF Inv, Confirm, TypeOK, RunInv, SchemaInv, UndoInv, NothingLostWithoutTrace,
         AsBefore, Others, Usable, Dropped
    <2>7. ServedDatabaseIsWhole'
      BY <1>3, <2>1 DEF Inv, Confirm, TypeOK, CopyInv, RunInv, SchemaInv, ServedDatabaseIsWhole,
         Others, Usable, Dropped
    <2>8. NothingLostWithoutTrace'
      BY <1>3, <2>1 DEF Inv, Confirm, TypeOK, UndoInv, NothingLostWithoutTrace, Others, Usable,
         Dropped
    <2>9. ExitCodesTell'
      BY <1>3, <2>1 DEF Inv, Confirm, TypeOK, RunInv, SchemaInv, ExitCodesTell, Idle, Others,
         Usable, Dropped
    <2>10. FailedRestoreIsUndone'
      BY <1>3, <2>1 DEF Inv, Confirm, TypeOK, RunInv, SchemaInv, UndoInv, AsBefore,
         FailedRestoreIsUndone, Idle, Restores, Others, Usable, Dropped
    <2> QED
      BY <2>2, <2>3, <2>4, <2>5, <2>6, <2>7, <2>8, <2>9, <2>10 DEF Inv
  <1> QED
    BY <1>1, <1>2, <1>3 DEF Confirm

LEMMA KillKeeps ==
    ASSUME Inv, Kill
    PROVE  Inv'
  <1>1. /\ run' \in Run
        /\ run'.at = "idle"
        /\ run'.exit = run.exit
        /\ run'.critical = run.critical
        /\ Others(run', run)
    BY RunAt, PhaseTypes DEF Inv, TypeOK, Kill, Goes
  <1>2. TypeOK'
    BY <1>1, BoundsAssumption DEF Inv, TypeOK, Kill, Fault, NoFault
  <1>3. CopyInv'
    BY <1>1 DEF Inv, Kill, TypeOK, CopyInv, RunInv, SchemaInv, Database, Others, Usable, Dropped
  <1>4. RunInv'
    BY <1>1 DEF Inv, Kill, TypeOK, RunInv, Restores, Others, Usable, Dropped
  <1>5. SchemaInv'
    BY <1>1 DEF Inv, Kill, TypeOK, CopyInv, RunInv, SchemaInv, Restores, Others, Usable, Dropped
  <1>6. UndoInv'
    BY <1>1 DEF Inv, Kill, TypeOK, RunInv, SchemaInv, UndoInv, NothingLostWithoutTrace, AsBefore,
       Others, Usable, Dropped
  <1>7. ServedDatabaseIsWhole'
    BY <1>1 DEF Inv, Kill, TypeOK, CopyInv, RunInv, SchemaInv, ServedDatabaseIsWhole, Others,
       Usable, Dropped
  <1>8. NothingLostWithoutTrace'
    BY <1>1 DEF Inv, Kill, TypeOK, UndoInv, NothingLostWithoutTrace, Others, Usable, Dropped
  <1>9. ExitCodesTell'
    BY <1>1 DEF Inv, Kill, TypeOK, RunInv, SchemaInv, ExitCodesTell, Idle, Others, Usable, Dropped
  <1>10. FailedRestoreIsUndone'
    BY <1>1 DEF Inv, Kill, TypeOK, RunInv, SchemaInv, UndoInv, AsBefore, FailedRestoreIsUndone,
       Idle, Restores, Others, Usable, Dropped
  <1> QED
    BY <1>2, <1>3, <1>4, <1>5, <1>6, <1>7, <1>8, <1>9, <1>10 DEF Inv

LEMMA StutterKeeps ==
    ASSUME Inv, UNCHANGED vars
    PROVE  Inv'
  BY DEF vars, Inv, TypeOK, CopyInv, RunInv, SchemaInv, UndoInv, AsBefore, ServedDatabaseIsWhole,
     NothingLostWithoutTrace, ExitCodesTell, FailedRestoreIsUndone, Idle, Restores, Usable

LEMMA NextKeeps ==
    ASSUME Inv, [Next]_vars
    PROVE  Inv'
  <1>1. CASE Site
    BY <1>1, AdmitKeeps, CommitKeeps, RefusedKeeps DEF Site
  <1>2. CASE Operator
    BY <1>2, AllowRestoreKeeps, BeginDeployKeeps, BeginRollbackKeeps,
       BeginRestoreKeeps DEF Operator
  <1>3. CASE Deploy
    BY <1>3, PreflightKeeps, BackupKeeps, BackupFailsKeeps, AuditKeeps, MigrateKeeps, UpKeeps,
       WatchKeeps DEF Deploy
  <1>4. CASE Restore
    BY <1>4, CheckKeeps, StagingFailsKeeps, SafetyDumpKeeps, DumpFailsKeeps, DropKeeps, LoadKeeps,
       SwapKeeps, VerifyKeeps, VerifyFailsKeeps, UndoKeeps, ReloadKeeps, UnswapKeeps DEF Restore
  <1>5. CASE Rollback
    BY <1>5, FreezeKeeps, NotBegunKeeps, BootKeeps, ConfirmKeeps DEF Rollback
  <1>6. CASE Kill
    BY <1>6, KillKeeps
  <1>7. CASE UNCHANGED vars
    BY <1>7, StutterKeeps
  <1> QED
    BY <1>1, <1>2, <1>3, <1>4, <1>5, <1>6, <1>7 DEF Next

-----------------------------------------------------------------------------
(* The theorems. *)

(* The invariant of the scripts, which all below follows from. *)
THEOREM ScriptsInvariant == Spec => []Inv
  <1>1. Inv /\ [Next]_vars => Inv'
    BY NextKeeps
  <1> QED
    BY InitHolds, <1>1, PTL DEF Spec

(* The site, the copies of it and the run of a script are what they are
   declared to be; a database without a schema has no rows. *)
THEOREM TypeCorrect == Spec => []TypeOK
  <1>1. Inv => TypeOK
    BY DEF Inv
  <1> QED
    BY ScriptsInvariant, <1>1, PTL

(* gms-production-restore.ps1:427-463 drops the schema and loads a dump
   into it; between the two, and if it is killed there, the maintenance
   file of :148-159 is still there. *)
THEOREM NoWriteIntoDroppedSchema == Spec => []ServedDatabaseIsWhole
  <1>1. Inv => ServedDatabaseIsWhole
    BY DEF Inv
  <1> QED
    BY ScriptsInvariant, <1>1, PTL

(* Rolling back may throw acknowledged writes away, but what there was at
   a freeze is in the database or in a pre-restore dump (:414-425). *)
THEOREM NothingGoesWithoutTrace == Spec => []NothingLostWithoutTrace
  <1>1. Inv => NothingLostWithoutTrace
    BY DEF Inv
  <1> QED
    BY ScriptsInvariant, <1>1, PTL

(* The exit codes 0, 1 and 2 of deploy-with-rollback.ps1:517-527 say which
   release is up, on which schema, and whether writes are let in. *)
THEOREM ExitCodesAreTrue == Spec => []ExitCodesTell
  <1>1. Inv => ExitCodesTell
    BY DEF Inv
  <1> QED
    BY ScriptsInvariant, <1>1, PTL

(* A restore that fails without a CRITICAL ROLLBACK ERROR (:620-690) has
   put schema, rows and files back and left the site frozen. *)
THEOREM FailedRestoresAreUndone == Spec => []FailedRestoreIsUndone
  <1>1. Inv => FailedRestoreIsUndone
    BY DEF Inv
  <1> QED
    BY ScriptsInvariant, <1>1, PTL
===============================================================================
