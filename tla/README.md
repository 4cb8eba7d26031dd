# Gate Management System: specifications and proofs

The Gate Management System (GMS) takes a truck through a coffee plant: it is
checked in at the gate, weighed, inspected, unloaded or loaded, inspected again,
weighed again and checked out, each step by another person at another screen.
The backend is a NestJS server over PostgreSQL (through Prisma, at PostgreSQL's
default isolation, READ COMMITTED); a Vue client talks to it over HTTP; PowerShell
scripts deploy it, roll it back and restore its database.  This directory holds
TLA+ modules of that logic, the TLC runs that check them on small instances, and
theorems that TLAPS checks for every instance.  Paths below are under `src/`;
`backend/src/` is left out where it is clear.

## 1. Inventory

| Component | State it keeps | Operations | Modelled |
|---|---|---|---|
| Workflow state machine (`common/state-machine`) | none | the status table, `isValidStatusTransition`, `assertValidStatusTransition` | `WorkflowStateMachine` |
| Gate (`gate`) | creates `Transaction` rows; their numbers and plates | `checkIn`, `checkOut`, `cancel` | `GateCheckIn`, `SequentialTruck` |
| Weighbridge (`weighbridge`) | IN and OUT tickets; gross, tare, net of the row | `submitWeighIn`, `submitWeighOut` | `SequentialTruck` |
| Quality control (`qc`) | vehicle checks, incoming material checks | `startQc`, `submitVehicleCheck` (`submitGbjVehicleCheck`), `submitIncomingCheck`, `completeQcAnalysis` | `SequentialTruck`, `GbjChecklist` |
| Warehouse (`warehouse`) | warehouse processes | `startWarehouse`, `completeWarehouse`, `submitIncomingCheck` | `SequentialTruck` |
| Transactions (`transactions`) | ends rows early | `cancel`, `voidTransaction` | `SequentialTruck` |
| Operation log correction (`transactions/operation-log-correction.service.ts`) | corrections and their items; new revisions of records; reopened rows; fraud checks | `correctOperationLog` | `SequentialTruck`, `Corrections`; attachment corrections are not |
| User accounts (`users`) | users, roles, scopes, active and deleted flags | create, update, updateStatus, remove, resetPassword | `UserAccounts` |
| Sessions (`auth`) | refresh token hash, token version | login, refresh, logout, change password | `Sessions`, `SessionRegister`; lockout, password history and expiry, which only refuse a call, are not |
| Attachments (`attachments`) | rows and files | upload, download | `DataRecovery`: the upload |
| Backup and restore (`settings/database-backup.service.ts`) | dumps, manifests, archives, the running flag | backup, retention, restore from media, portable restore | `DataRecovery`, `BackupRetention` |
| Deployment scripts (`scripts/*.ps1`) | the maintenance file, pre-deployment backup, safety dumps | deploy, roll back, restore | `Deployment` |
| Web client (`frontend`) | copies of server rows | views and stores | `Corrections` and `GbjChecklist` for two windows; not the rest |
| Authorization scope, guards, validation, masking | none | filters in front of handlers | no: stateless |
| Activity log, dashboard, reports | append-only rows; none | append; read-only queries | no: nobody decides on them |
| Announcements, system issues, settings | single rows | create, read, update, delete | no: nothing interleaves |

How the components meet:

* *At the truck.*  No component calls another to move a truck: a station's handler
  reads the `Transaction` row, checks the status it needs, and writes the next;
  the next station finds it there.  What a step produces goes into child records
  (tickets, checks, processes), of which one per kind is *current*, and every
  move goes into `TransactionStatusHistory`.
* *At the account.*  Administrators change the `User` row that holds a user's role
  and scopes; logins, renewals and logouts keep their session in the same row
  (`tokenVersion`, the hash of the refresh token).
* *At the database as a whole.*  A backup copies rows and files, which uploads
  change meanwhile; a restore replaces both under everybody's feet, from inside
  the server or, by script, from outside.

What is hard here:

* **Read early, write late.**  Every handler reads the row and decides outside
  the database transaction in which it writes.  The defence is a conditional
  `updateMany` on status and `revision` (trucks), on the stored hash (renewals),
  or nothing (administrators' changes of accounts).
* **READ COMMITTED.**  Inside a database transaction each statement sees what is
  committed when it runs: check-in and the guard of the last administrator count
  first and write after.
* **A second life.**  An administrator may reopen a finished transaction to an
  earlier status and correct finished ones; records are superseded, not
  deleted, and the row keeps some of what the first life left.
* **Two rules for one thing.**  Correction window and server each decide which
  record a weight belongs to; checklist window and server each decide what may
  be passed.
* **Two stores for one thing.**  A row in PostgreSQL and a file on the disk cannot
  be written at once; uploads, backups and restores order the two and compensate.
* **Scripts that die half way.**  A deployment, rollback or restore is a sequence of
  external commands, each of which may fail, and may be killed between any two.

The hazards, each at its line, are in `PROJECT.json`, with the properties that
cover them or the reason why none does.

## 2. Modules

| Module | What it is |
|---|---|
| `WorkflowStateMachine` | the status table and the classes of statuses and process types |
| `SequentialTruck` | one truck's row, records and history; every handler as an action over the row it has *seen*; corrections and reopening; the abstract specification `SeqSpec`, in which every handler sees the row as it is |
| `TruckTransaction` | any number of requests that read (`Receive`), and later commit (`Serve`) or roll back (`Abort`), between each other and the administrators; shown to implement `SeqSpec` |
| `GateCheckIn` | `GateService.checkIn` statement by statement at several posts |
| `Corrections` | the correction window and `correctOperationLog` on weights: row, records, fraud check and audit trail |
| `GbjChecklist` | what the checklist window offers and what the server accepts, as functions of one request |
| `UserAccounts` | administrators' requests as read, count and write |
| `SessionRegister` | abstract specification: at most one renewable session per user, each operation in one step |
| `Sessions` | logins, renewals and revocations as read, hash and write, beside `UserAccounts`; shown to implement `SessionRegister` |
| `BackupRetention` | which backups the grandfather-father-son rule keeps |
| `DataRecovery` | uploads, backups and restores between two awaits, with faults, crashes and losses |
| `Deployment` | the deploy, rollback and restore scripts, with failures and kills, beside the site |
| `MC*` | instances for TLC |
| `*Proofs` | theorems |

`TruckTransaction` extends `SequentialTruck`, which extends `WorkflowStateMachine`;
`Sessions` extends `UserAccounts` and instantiates `SessionRegister`;
`DataRecovery` extends `BackupRetention`; `MCTruckTransaction` instantiates
`GbjChecklist` with today's items.  A proof module extends the module its name
begins with.

Some definitions stand beside one that the specification uses and are used by
none (`CountFromZero` beside `Count`, `Unclaimed` beside `Claimed`): plausible
mistakes in the code they stand next to, which the properties have been tried
against.

### The truck (`SequentialTruck`, `TruckTransaction`)

`row` holds the columns that handlers decide on: process type, status,
revision, void flag, the three weights, and whether the QC analysis and the
warehouse process have ended.  `records` holds, per kind of child record (IN and
OUT ticket, vehicle check, warehouse process, incoming check), the newest
revision ever given, the current one (0: none), its outcome and its weight.
`history` is the newest history row: the older ones are never read or written
again, so what there is to say of the whole table (it is a chain, and ends in the
row's status) is said of each step.

A handler is in two parts, as in the code.  `Accepts(op, t, R)` is what it asks
of the row it has read; `Handle(op, seen, expected)` is its database
transaction, whose claim compares the row with the one it has seen, whose status
assertion speaks of the status seen, and whose other reads are of the tables as
they are then.  `SeqSpec` joins the two in one step.  `TruckTransaction` puts
anything in between: `req[r]` is a request's operation, the row it read, and, for
a void, the revision its client named, which is one the client was shown earlier.

Simplifications, and why they lose nothing:

* Reading the row and the reads of child records before the database transaction
  are one step.  A child record changes only with the row's revision
  (`EveryWriteTakesARevision`), so a read in between that differs belongs to a
  request that will lose its claim.
* A database transaction is one step.  Its claim locks the row; a
  second transaction waits there and then compares with the committed row.  What
  it wrote before the claim (some handlers write the record first) is rolled back
  if the claim fails, and the unique indexes decide between two such writes.  The
  one database transaction that claims no row, check-in, is modelled statement by
  statement.
* Weights are positive (the DTOs ask for at least 0.01 and corrections for more
  than 0), so 0 stands for null.  Timestamps are the flags somebody tests.
* Roles and scopes are left out: any operation may be asked for at any time.
* A correction changes the row's weights, one ticket, or one record.  The fields
  nothing decides on are one unmodelled field: such a correction still makes a
  new revision and takes a revision of the row.  Corrections of several weights
  at once, `actualWeight` and the fraud check are in `Corrections`.
* Remarks, ticket numbers and the activity log are left out: no handler decides
  on them.

### Check-in (`GateCheckIn`)

`rows` is the table: plant day and sequence (the number), the day of creation,
the vehicle, the form its plate is held in, and whether it is open, ended or
reopened.  `post[p]` is the request of a post: which statement comes next, and
what it has read.  `Lock`, `Count`, `Search` and `Create` are the four statements
of the database transaction, each on what is committed when it runs; `Collide` is
the unique index refusing the number, after which `StartOver` spends a retry in a
new database transaction.  A plate is either of the standard shape, which
`normalizePlateNumber` puts into one form, or of another, of which two spellings
stay apart; the lock is on the form without blanks, which is one for both.
`Leave`, `Reopen` and `Midnight` are the rest of the world.  The field `before`
only remembers how many rows there were when a request came, for
`BusyOnlyWhenOvertaken`.

`OneActivePerVehicle` is what the plant wants; `OneAdmissionPerVehicle` is what
check-in itself guarantees even beside administrators who reopen.

### Corrections of weights (`Corrections`)

A weight is kept in the row and again in its ticket or warehouse process.  The
window (`Load`, `Submit`) shows a copy of the transaction, turns every entry that
differs into items for the record it takes for the source (`ItemsFor`), and names
the revision it shows.  The handler reads row and records and compares the
revision (`Receive`), refuses what is invalid (`Refuse`), and writes under a last
claim of the revision (`Save`, or `Collide` when it is gone).  An answer leaves the
window as it was, which is what the page does.  `Init` is a truck that ended at
any station.  The per-record comparison in `supersede` is implied by the row's
claim; reading the row and its relations, which are separate queries, is one step
for the same reason as above.  `Regular` leaves out the one case in which window
and server do not mean the same record (finding 5).

### The finished-goods checklist (`GbjChecklist`)

Not a state machine: a `Request` is what the server gets, a `Sheet` what the
inspector has filled in, and the operators are the decision matrix of
`submitGbjVehicleCheck` and the buttons of `QCVerification.vue`.  `WindowAgrees`,
`PassIsEarned` and `LegacyIsNoBypass` are properties of every sheet and request;
`MCTruckTransaction` evaluates them, as an assumption, for the items and
severity tables of today, and the theorems state them for any.

### Accounts and sessions (`UserAccounts`, `Sessions`, `SessionRegister`)

`account` is the `User` table.  A worker's request (`work[w]`) has read the user
(`Begins`), counts active administrators if it would take one away (`Guard`), and
writes (`Finishes`): three steps, since nothing between them is locked.  A call of
`AuthService` (`call[c]`) has read the user and signed its tokens, then hashes,
then writes: a login by the identifier alone, a renewal only over the hash it had
read (`Rotates`, `Collides`), a revocation by raising the version.  Tokens carry
whole seconds, so two signed in one second may be one string; their hashes differ
by the salt.  `issued` are the tokens that were delivered, any of which may be
presented again.

### Uploads, backups and restores (`DataRecovery`, `BackupRetention`)

The process is single-threaded, so a step is what it does between two awaits.
`rows` and `files` are the two stores of an attachment.  An upload commits its
row, moves its file into place and compensates a failure by deleting the row.
A backup, one at a time by the running flag (`job`), fetches the rows, dumps the
database, archives and compares the files, writes its history and cleans up.  A
restore has a backup made of what there is, goes on only if that is verified,
replaces the database, promotes the files, and puts the safety copy back when
something fails.  `Fault` is an operation that fails, `Crash` the process
stopping, `Loss` the disk or database losing something.  Retention does not look
at `localStatus`, neither does `Kept`.

### The scripts (`Deployment`)

`run` is the script that runs, where it is, and what its compensation will need;
`db`, `files`, `app` and `frozen` are the site (`frozen`: the maintenance file the
backend looks for).  Every step may succeed or fail; `Kill` ends a script between
any two without its `finally`.  `Admit` and `Commit` are a write of the site: the
maintenance file is looked for when the request comes and not when it writes, and
the scripts do not wait for what was let in before.  Taken as given: one operator
runs one script at a time; a deployment begins on a site in order (so a second
deployment on one left broken and frozen is out); `-NoSchemaChangeVerified` is
true when said.  What the model shows beside its properties:
`GMS_RESTORE_ALLOWED` defaults to FALSE, so an automated rollback is refused its
restore unless the operator gave the permission before; without the previous
images' digests a rollback exits 2 without freezing (`NotBegun`); a restore that
succeeded removes the maintenance file before the previous containers are up,
which `ExitCodesTell` excepts; a write admitted before the freeze and committed
between the safety dump and the drop is in neither, which is why
`NothingLostWithoutTrace` speaks of what was there at the freeze.

## 3. Runs

| Run | Question | States | Answer |
|---|---|---|---|
| `stations` | two requests race through one truck's life, every process type | 114 101 | as if one station at a time (`Sequential`); records match the status; nobody is stuck |
| `reopen` | one request races with administrators who reopen and correct | 5 570 510 | history, record lines, stage matrix, weights and voids hold |
| `checkin` | two posts, two vehicles, midnight, reopening | 260 814 | check-in admits a vehicle once; numbers are free; "busy" is honest; everyone is answered |
| `accounts` | one administrator's request at a time beside two calls of users | 4 927 019 | as if each operation were one step (`ImplementsRegister`); renewals carry the account as it is; an administrator is left; scoped roles keep a scope |
| `recovery` | an upload, backups and one restore over three days, one fault, one loss | 1 013 745 | a failed restore loses nothing; retention keeps every period; everything ends |
| `corrections` | two administrators with windows loaded at any time | 2 744 402 | row, records, fraud check and trail agree; what is entered is stored |
| `deployment` | three scripts, three failures or kills, two writes | 911 510 | no write into a dropped schema; nothing lost without a trace; exit codes true; failed restores undone |
| `reopen_stuck` | has every open truck a way on after a reopening? | - | no: finding 1 |
| `checkin_reopen` | one active transaction per vehicle, with reopening? | - | no: finding 2 |
| `checkin_spelling` | and for plates of other shapes? | - | no: finding 3 |
| `last_admin` | an administrator left, with two administrators' requests at a time? | - | no: finding 4 |
| `corrections_gross` | is a corrected gross weight stored, for finished goods too? | - | no: finding 5 |

Findings:

1. A truck cancelled before weigh-in, reopened to `QC_VEHICLE_PENDING` and
   rejected has no first weight: weigh-out refuses it and nothing else accepts it.
2. Cancel, check in again, reopen the cancelled one: two active transactions of
   one plate, since reopening neither takes the plate's lock nor looks.
3. `1234-VII` is stored as `1234 VII`; a check-in of `1234VII` looks for `1234VII`
   only, and finds nothing.
4. Two administrators who take each other's rights at once each count two: the
   count and the write of `update`, `updateStatus` and `remove` are statements of a
   READ COMMITTED transaction that locks nothing in between
   (`users.service.ts:281-288`).
5. The correction window sends a gross weight to the IN ticket; of a truck loaded
   with finished goods (GBJ) that ticket is the tare, and the server takes it so.

Each of the five is a run of its own that expects the violation.  The passing runs
and the theorems show what remains true beside them, and what exactly each is for
want of:

| Finding | Cannot happen as long as | Theorem |
|---|---|---|
| 1 | a reopen that skips steps finds what they leave behind (`ReopensOnGround`) | `GroundedTrucksMoveOn` |
| 2 | a reopening finds no active transaction of the vehicle, and no post that has just looked for one (`FindsRoom`) | `SeenAndLookedForIsOnce` |
| 3 | a search sees every spelling of the plate (`SearchSeesAll`) | `SeenAndLookedForIsOnce` |
| 4 | no two requests that may take an administrator overlap (`OneTaker`) | `OneTakerKeepsAdmin` |
| 5 | inbound trucks alone are corrected | `InboundGrossIsCorrected` |

The code enforces none of these; each theorem has its condition as a hypothesis on
the behaviour and says that nothing else is needed, so a change that establishes
the condition would close the finding.

Seen on the way and contradicting no document: after a reopening the records may
disagree with the status (part of finding 1; `ChildrenMatchStatus` is claimed as
`SomeStationAccepts` is), two overlapping updates of one user may leave a scoped
role without scopes (`Apart` in section 4), and a portable restore that is
cancelled before it changed anything still puts its safety copy over the database
(`database-backup.service.ts:1899`, `Erred`).

### Bounds

* Trucks: `MaxRevision` 11, since a first life, startQc and completeQcAnalysis
  included, takes ten writes at most; in `reopen`, the shorter ways through leave
  room for a reopening, the steps redone and corrections after them.  `Weights`
  {1, 2}: a tare below, equal to and above a gross.  Two requests, since a claim is
  lost to one other write; with administrators one, who are the other party.
  `ClientLag` 1: a void that names the revision before the last.
* Check-in: `MaxRows` 3 and two posts: three check-ins that overtake a fourth,
  which then runs out of retries.  `MaxDay` 2: one midnight.  Two vehicles: posts
  contend for one lock, or for one number only.
* Accounts: two accounts, so that the last administrator is near; `MaxVersion` 1,
  `MaxSalt` 2 and `MaxSecond` 1: a revocation, two hashes stored, and two tokens of
  one second or of different ones.  A token that is presented again ends the session
  whether or not more hashes may be stored, so reuse is detected within these bounds.
  `last_admin` has two workers.
* Recovery: three backups (one to restore, one safety copy, one scheduled), days 0
  to 2 with windows of 0, 1 and 2 days, weeks of one and months of two: every
  border of the three windows.  One fault and one loss: `FailedRestoreLosesNothing`
  is about one operation failing.
* Corrections: `Weights` {1, 2} and emptied fields; `MaxRevision` 3: two corrections
  saved and one from an outdated window; two administrators, exchangeable.
* Deployment: two writes, one on each side of a backup; three scripts (a
  deployment, its failure's cleanup, and one more); three faults (a step, its
  compensation, and a kill).

The theorems hold for every value of these.  `CHECK_DEADLOCK FALSE` in every
configuration: a completed truck rests, and every model stops at its bounds.

### Fairness

* Check-in: `WF(Serve(p))`, the server runs the statements of a request it has
  begun; `SF(Lock(p))`, PostgreSQL queues the waiters of an advisory lock, so one
  that becomes free again and again is granted.
* Recovery: weak fairness of the steps of a backup and of a restore:
  `pg_dump` and `pg_restore` are killed after five and ten minutes, and the event
  loop goes on.  Uploads, crashes and the scheduler are not assumed to happen.
* Nothing is assumed of trucks, operators, administrators, users or the clock, and
  no liveness is claimed of stations, accounts, corrections or scripts: what comes
  next is a person's decision, and the scripts wait for docker without a timeout.
  `SomeStationAccepts` says instead that a next step is always possible.

## 4. Theorems

Every listed theorem holds for all values of the constants under the module's
named assumptions (types and, where needed, finiteness of the accounts); further
assumptions are in its statement.  `PROJECT.json` says which property of which run
each one states.

**Trucks.**  The inductive invariant of one station at a time, `SeqInv`, is the type
invariant, `HistoryMatchesStatus`, `CurrentIsNewest`, `NothingAheadOfStatus`,
`SettledWeights`, and one conjunct no run asks for, `VoidedIsCancelled`: a void
leaves the status cancelled, or `MayReopen` would not protect it.
`NothingAheadOfStatus` needs the stage matrix (`StageMatrix`); `SettledWeights`
needs that corrections replace weights and never forget them; the net of a
rejected truck needs the clamp.  Each action has a lemma that it is `Lawful`: it
keeps `SeqInv` and is what the action properties allow.  Handlers that move the
row share `EffectIsLawful`, corrections share `CorrectionIsLawful`.

For concurrent requests, `Inv` adds the types of the requests and
`SnapshotsExact`: a request has seen the row of an earlier revision, or the row as
it is.  A handler that commits has claimed the revision it saw or, for a void, the
one its client named, which is no newer (`HandleClaims`); so it saw the
row as it is and its step is one of `SeqSpec` (`ServeIsSequential`).  From there
`SnapshotsExact` is kept because every write takes a revision (`WriteOutdates`),
and the refinement theorem `Refinement == Spec => Sequential` carries the
sequential theorems over, one by one: `HistoryEndsInStatus`,
`CurrentRecordsNewest`, `NothingIsAhead` and `WeightsSettle` of every state,
`WritesTakeRevisions`, `HistoryUnbroken`, `StatusByTable` and `VoidsStay` of every
step.

That records match the status, and that some station accepts the truck, needs a
second invariant, `Underway`: no truck waits in `WEIGH_IN_DONE`, a warehouse
process has not ended before its step, only inbound trucks have an incoming check,
and a truck has behind it what its status claims.  Handlers and corrections keep
it; a reopen to the gate keeps it, since nothing is claimed there; a reopen
to a later status keeps it if the truck has the weight, the passed check and the
warehouse process that the skipped steps leave behind (`GroundFor`).
`GroundedTrucksMove` and `GroundedTrucksMoveOn` have that as their hypothesis, which
is about the administrators and not about the constants; `NoTruckIsStuck`,
`ChildrenAgree` and `AlwaysAWayOn` need none, for `ReopenRequests` that name
the gate or nothing.

**Check-in.**  `Inv` is the types; `Numbering` (finitely many rows, none created
before the day of its number, numbers unique, none of today's above the count); `Served` (a
post that has spent a retry has seen one more truck checked in since it came, and
one more still if the number it counted is taken); one holder per lock; one form
per standard vehicle; `Admits` and `OpenOnce` (no second open row, no post past its
search beside one), which need `Special = {}`; and `NoneReopened`.  From it:
`NumbersAreFree`, `BusyIsTrue`, `AdmittedOnce` (standard plates) and
`OnTheSiteOnce` (and no reopening).  For plates of any shape and beside
reopenings, `Alone` (one active row per vehicle, none beside a post that is about
to create) is inductive under `SearchSeesAll` and `FindsRoom`, and gives
`SeenAndLookedForIsOnce`; for standard plates `SearchSeesAll` follows from the
invariant (`StandardPlatesOnce`).  A reopening that looks but does not take the
plate's lock is not enough: without the second half of `FindsRoom` a post between
its search and its insert still comes beside it.

**Sessions.**  `Inv` is the types, that requests and calls underway are
of accounts that exist (`WorkKnown`, `CallKnown`), that no token is ahead of its account's version
(`NotAhead`), that salts are not used twice (`SaltsUsed`, without which a hash that
was replaced could come back), that absent accounts are fresh, and
`WinnerIsCurrent`: a renewal that still finds the hash it read has signed the
account as it is.  From it `WinnersAreCurrent` and
the refinement `SessionsImplementRegister`, one step of `Sessions` to one of
`SessionRegister` or none.  `ChangesEndSessions` follows from that step: whoever
changes an account, and however long ago the request read it, ends its session.

Two more invariants are about administrators' requests, any number of them.
`AdminInv`: there is an active administrator, and when a request past its guard may
take one, another is left.  A request's own idea of the role may be stale, so what
it may take is judged by what it asks for (`MayTakeAdmin`); the count then still
holds when it writes, if no other request that may take one has come between
(`OneTaker`, `OneTakerKeepsAdmin`).  `ScopeInv`: a request
underway knows its user's role as it is, and an update leaves a scoped role a scope,
whatever it names.  It needs that no two requests about one user
overlap (`Apart`, `ApartKeepsScopes`): two can leave a scoped role without any, one
giving the role with its scopes, the other, which had read a role without, clearing
them.  `SerialKeepsAdmin` and `SerialKeepsScopes` are the corollaries for one
request at a time, which is what `accounts` runs.

**Recovery.**  `Inv` is the types, `RestoreInv` and `JobInv` (what a restore and the
backup made for it hold at each stage), `BackupInv` (a verified backup's archive
has the files of its rows) and `DaysInOrder`.  `PeriodKept`, on top of it, rests on
lemma `KeptCovers`: of any history, retention leaves for each backup one no older
of its week and month.  It is for any calendar and windows; `FailedRestores` for any number of uploads, restores and backups.

**Corrections.**  `Inv` is the types, `FirstTicketFirst` (no second ticket without a
first), `RowFollowsRecords`, `FraudFollowsWeights`, `ShowsARevision` (a window shows
the row of an earlier revision, or the row as it is) and `RequestFits` (the items of
a request are those its window made of the copy of the revision it names).
`EnteredStored` and `TrailTells` follow step by step.  `InboundGrossIsCorrected` and
`GbjWeightsExchanged` say what finding 5 comes to: without finished goods nothing,
and with them an exchange of the two weights by every correction of a truck that
has both tickets.

**Checklist.**  `WindowAgreesWithServer`, for any items and equal severity tables;
`PassesAreEarned` and `LegacyRequestsAreNoBypass`, for any tables.

**Deployment.**  `Inv` is the types; `CopyInv` (copies are whole databases, the backup
of the previous schema); `RunInv` (the run's flags, phase by phase); `SchemaInv`
(site and schema, phase by phase); `UndoInv` (what a restore still holds, in safety
dump and directory set aside, of the site as it was frozen); and the four
properties.  It is needed because the exit code is a statement about a site that
was changed many steps earlier, by a script that may have been called by another.

Model-checked only: the liveness properties `EveryCheckInAnswered` and
`EverythingEnds`.  Liveness, ENABLED and induction over data are out of the
prover's reach; there is no recursive definition here.

## 5. Not modelled, and what is left

* Authorization scope and guards, validation, the password policy, masking: functions
  of one request without state.  Any operation may be asked for by anybody in the
  models, which is more than the guards let through.
* The login lockout, password history and expiry: each only refuses a call, and the
  models let calls come or not come as they like.
* Activity log, dashboard, reports, PDF and table output: nothing decides on them.
* Settings, announcements and system issues: single rows, written whole.
* Small side paths: the uploads of quality control and warehouse (`qc.service.ts:830`,
  `warehouse.service.ts:968`), which create the row of a file that lies in the
  quarantine directory already and stays there, where backups look as well; a
  backup manifest whose write fails and is only logged.
* Download of attachments; checksums, signatures, the export format and the status
  page of backups: they refuse or format.
* Most of the web client: views and stores hold copies of server rows.  What the
  server must withstand of them, a stale revision or an old token, is an input of
  the models.
* The scripts of CI, smoke tests and installation: no state of the system.
* PowerShell's own syntax.  `Deployment` is what the two scripts are meant to do.  As
  committed they hold string literals such as `"... exit code $LiveExitCode: ..."`
  (`gms-production-restore.ps1:446`) and `"... error code $LASTEXITCODE: ..."`
  (`deploy-with-rollback.ps1:349`), which PowerShell takes for a variable of a drive
  and refuses when it parses the file, before a line of it runs; `${LiveExitCode}:`
  is what is meant.  `rehearse-historical-db.ps1:207` and
  `gms-health-monitor.ps1:72` have the same.  A backslash, as in
  `\"_prisma_migrations\"` (`gms-production-restore.ps1:458`), does not escape a
  quote there either.  `walkthrough.md:38` reports all four operator scripts as
  "100% syntactically valid", the deployment and the restore script among them.
  That a file parses is no question for a model checker, so it is noted here and not
  a finding with a run; the properties of `Deployment` are about the scripts once
  these literals are mended.
* Around the scripts: whether `maintenance.flag` of the release checklist is the file
  the container looks for (only `./maintenance` is mounted) is outside the model
  of `Deployment`; so is the watchdog's mutex, which lets a deployment report
  healthy when another check runs.

Worth doing next:

1. Tabs of one browser that share the refresh cookie and not their tokens
   (`frontend/src/services/api.js:100`), over `Sessions`.
2. The quality-control window over time: a photo is stored after an await, by its
   index, into whatever checklist is open by then (`QCVerification.vue:793`).
3. Corrections of attachments.
4. A composition of `GateCheckIn` and `TruckTransaction`, in which `Leave` and
   `Reopen` are the handlers' own steps.
