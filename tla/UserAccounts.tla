----------------------------- MODULE UserAccounts -----------------------------
(***************************************************************************)
(* UsersService: administrators create, change, deactivate, delete and     *)
(* reset the accounts of the site.  A request reads the user, then counts  *)
(* the administrators that would be left and writes in a READ COMMITTED    *)
(* transaction of which each statement sees what is committed when it      *)
(* runs: the three are separate steps, and what the first one read may be  *)
(* stale by the last.                                                      *)
(*                                                                         *)
(* Left out: names, addresses and passwords.  The unique indexes on email  *)
(* and username let one of two equal creations through, so that a user is  *)
(* its identifier here.                                                    *)
(***************************************************************************)
EXTENDS Naturals, FiniteSets

CONSTANTS
    Users,        \* identifiers of accounts, created or not yet
    Primary,      \* the account called admin
    Roles,        \* roles in use
    Scopes,       \* processes (GBB, GBJ, GSP) a scoped role is let into
    Workers,      \* administrators' requests served at the same time
    MaxVersion    \* bound: versions of an account at which requests still come

ASSUME AccountAssumption ==
    /\ Primary \in Users
    /\ "ADMIN" \in Roles /\ Roles \subseteq {"ADMIN", "SECURITY", "WAREHOUSE", "QC"}
    /\ IsFiniteSet(Users)
    /\ MaxVersion \in Nat

VARIABLES
    account,    \* the User table
    work        \* per worker, the request it is serving

accountVars == <<account, work>>

ScopedRoles == Roles \cap {"WAREHOUSE", "QC"}

(* What an update may leave out. *)
NotGiven == {"not given"}

Change ==
    [role : Roles \cup {"not given"},
     access : (SUBSET Scopes) \cup {NotGiven},
     active : {"on", "off", "not given"}]

Job ==
    [stage : {"idle", "guard", "write"},
     op : {"update", "status", "remove", "reset"},
     id : Users, role : Roles \cup {"absent"}, change : Change]

Nothing == [role |-> "not given", access |-> NotGiven, active |-> "not given"]

Free == [stage |-> "idle", op |-> "reset", id |-> Primary, role |-> "absent",
         change |-> Nothing]

(* "hash" is the stored hash of the refresh token: a set of at most one. *)
NewAccount(role, scopes) ==
    [role |-> role, scopes |-> scopes, active |-> role # "absent", deleted |-> FALSE,
     version |-> 0, hash |-> {}]

(* The seed creates the primary administrator, with access to everything. *)
AccountInit ==
    /\ account = [u \in Users |-> IF u = Primary THEN NewAccount("ADMIN", Scopes)
                                                 ELSE NewAccount("absent", {})]
    /\ work = [w \in Workers |-> Free]

(* findFirst({ id, isDeleted: false }) *)
Known(u) == account[u].role # "absent" /\ ~account[u].deleted

ActiveAdmins ==
    {u \in Users : account[u].role = "ADMIN" /\ account[u].active /\ ~account[u].deleted}

-----------------------------------------------------------------------------
(* Every write that changes what a user may do revokes its sessions. *)
VersionOnly(a) == [a EXCEPT !.version = @ + 1]
Revoked(a) == [a EXCEPT !.version = @ + 1, !.hash = {}]

Create(u) ==
    /\ account[u].role = "absent"
    /\ \E role \in Roles, scopes \in SUBSET Scopes :
        /\ IF role \in ScopedRoles THEN scopes # {} ELSE scopes = {}
        /\ account' = [account EXCEPT ![u] = NewAccount(role, scopes)]
    /\ UNCHANGED work

(* The role an update leaves, as far as the request knows. *)
RoleBefore(job) == job.role
Target(job) == IF job.change.role = "not given" THEN job.role ELSE job.change.role

(* Whether the request would take an administrator away. *)
ForgetsDemotion(job) ==
    /\ job.role = "ADMIN"
    /\ \/ job.op = "remove"
       \/ job.op \in {"update", "status"} /\ job.change.active = "off"
TakesAdmin(job) ==
    /\ job.role = "ADMIN"
    /\ \/ job.op = "remove"
       \/ job.op = "update" /\ Target(job) # "ADMIN"
       \/ job.op \in {"update", "status"} /\ job.change.active = "off"

(* A request that passed the checks made on the user it read. *)
Takes(w, op, u, change) ==
    LET job == [stage |-> "write", op |-> op, id |-> u, role |-> account[u].role,
                change |-> change]
    IN  /\ work[w].stage = "idle"
        /\ Known(u)
        /\ account[u].version < MaxVersion
        /\ work' = [work EXCEPT ![w] =
                       [job EXCEPT !.stage = IF TakesAdmin(job) THEN "guard" ELSE "write"]]
        /\ UNCHANGED account

(* A scoped role needs a scope: one given, or one the user has. *)
UpdateBegins(w, u) ==
    \E change \in Change :
        /\ Takes(w, "update", u, change)
        /\ Target(work'[w]) \in ScopedRoles =>
               (IF change.access = NotGiven THEN account[u].scopes ELSE change.access) # {}

(* The primary administrator is not deactivated this way. *)
StatusBegins(w, u) ==
    \E active \in {"on", "off"} :
        /\ active = "off" => u # Primary
        /\ Takes(w, "status", u, [Nothing EXCEPT !.active = active])

RemoveBegins(w, u) == Takes(w, "remove", u, Nothing)

ResetBegins(w, u) == Takes(w, "reset", u, Nothing)

(* The count of administrators, the user's own account included. *)
Guard(w) ==
    /\ work[w].stage = "guard"
    /\ work' = [work EXCEPT ![w] =
                   IF Cardinality(ActiveAdmins) <= 1 THEN Free
                                                     ELSE [@ EXCEPT !.stage = "write"]]
    /\ UNCHANGED account

Writes(w, op, new) ==
    /\ work[w].stage = "write"
    /\ work[w].op = op
    /\ account' = [account EXCEPT ![work[w].id] = new]
    /\ work' = [work EXCEPT ![w] = Free]

Switched(active, a) == IF active = "not given" THEN a ELSE [a EXCEPT !.active = active = "on"]

Assigned(role, a) == IF role = "not given" THEN a ELSE [a EXCEPT !.role = role]

(* The scopes an update leaves: none to a role that has no use for them, whatever
   was given. *)
ScopesGiven(job, a) == job.change.access
ScopesLeft(job, a) ==
    IF Target(job) \notin ScopedRoles THEN {}
    ELSE IF job.change.access = NotGiven THEN a.scopes ELSE job.change.access

UpdateWrites(w) ==
    LET job == work[w]
        a == account[job.id]
        b == [Assigned(job.change.role, Switched(job.change.active, a)) EXCEPT
                  !.scopes = ScopesLeft(job, a)]
    IN  Writes(w, "update", IF job.change = Nothing THEN b ELSE Revoked(b))

StatusWrites(w) ==
    Writes(w, "status", Revoked(Switched(work[w].change.active, account[work[w].id])))

RemoveWrites(w) ==
    Writes(w, "remove",
           Revoked([account[work[w].id] EXCEPT !.active = FALSE, !.deleted = TRUE]))

ResetWrites(w) == Writes(w, "reset", Revoked(account[work[w].id]))

Begins(w, u) ==
    UpdateBegins(w, u) \/ StatusBegins(w, u) \/ RemoveBegins(w, u) \/ ResetBegins(w, u)

Finishes(w) == UpdateWrites(w) \/ StatusWrites(w) \/ RemoveWrites(w) \/ ResetWrites(w)

AccountNext ==
    \/ \E u \in Users : Create(u)
    \/ \E w \in Workers : (\E u \in Users : Begins(w, u)) \/ Guard(w) \/ Finishes(w)

AccountSpec == AccountInit /\ [][AccountNext]_accountVars

-----------------------------------------------------------------------------
(* The site always has an administrator who can log in: what the guards of
   update, updateStatus and remove are there for. *)
SomeActiveAdmin == ActiveAdmins # {}

(* Someone whose role is bound to processes is let into at least one, through any
   sequence of changes of role and scopes that name both, one or neither. *)
ScopedRolesHaveScope ==
    \A u \in Users : account[u].role \in ScopedRoles => account[u].scopes # {}
===============================================================================
