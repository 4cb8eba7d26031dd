------------------------------ MODULE GateCheckIn ------------------------------
(***************************************************************************)
(* GateService.checkIn: posts at the gate check trucks in concurrently.    *)
(* A check-in is one READ COMMITTED database transaction of four           *)
(* statements, each of which sees what is committed when it runs: it takes *)
(* the advisory lock of the plate, counts the plant day's transactions to  *)
(* number its own, looks for an active transaction of the plate and        *)
(* inserts the row.  The unique index on the number makes a loser start    *)
(* over, three times at most.                                              *)
(***************************************************************************)
EXTENDS Naturals, FiniteSets

CONSTANTS
    Posts,      \* check-in requests served at the same time
    Standard,   \* vehicles whose plate has the shape  B 1234 XYZ
    Special,    \* vehicles whose plate has another, such as  1234-VII
    Reopens,    \* whether administrators reopen transactions that ended
    MaxDay,     \* bound: plant days
    MaxRows     \* bound: transactions created

ASSUME GateAssumption ==
    /\ Standard \cap Special = {}
    /\ Standard \cup Special # {}
    /\ Reopens \in BOOLEAN
    /\ MaxDay \in Nat \ {0}
    /\ MaxRows \in Nat

VARIABLES
    rows,    \* the Transaction table: number, plate, and whether it has ended
    post,    \* per post, the check-in it is serving
    today    \* the plant day of the server's clock

vars == <<rows, post, today>>

Vehicles == Standard \cup Special

(* How a plate is typed: in one piece, or with punctuation between its parts
   (the DTO takes blanks out, and nothing else). *)
Spelling == {"joined", "split"}

(* How the table may hold it. *)
Form == {"spaced", "joined", "split"}

(* normalizePlateNumber puts single spaces into a plate of the standard shape,
   of either spelling; of another it only turns the punctuation into spaces. *)
Normalized(v, spelling) == IF v \in Standard THEN "spaced" ELSE spelling

(* The search asks for the normalised plate and the raw one, without spaces.
   The third form it asks for, the plate as typed, is one of these or has
   punctuation, which the table never holds. *)
SearchedForms(form) == {form, "joined"}

Stage == {"idle", "lock", "count", "search", "create"}

CheckIn ==
    [stage : Stage, vehicle : Vehicles, form : Form, retries : 0..3,
     day : 0..MaxDay, sequence : Nat, before : Nat]

TransactionRow ==
    [day : 1..MaxDay, sequence : Nat \ {0}, created : 1..MaxDay,
     vehicle : Vehicles, form : Form, state : {"open", "ended", "reopened"}]

Active(r) == r.state # "ended"

(* An idle post remembers nothing. *)
Idle ==
    [stage |-> "idle", vehicle |-> CHOOSE v \in Vehicles : TRUE, form |-> "joined",
     retries |-> 0, day |-> 0, sequence |-> 0, before |-> 0]

TypeOK ==
    /\ rows \subseteq TransactionRow
    /\ post \in [Posts -> CheckIn]
    /\ today \in 1..MaxDay

-----------------------------------------------------------------------------
Init ==
    /\ rows = {}
    /\ post = [p \in Posts |-> Idle]
    /\ today = 1

Goes(p, stage) == post' = [post EXCEPT ![p].stage = stage]

Ended(p) == post' = [post EXCEPT ![p] = Idle]

(* A truck comes to the gate.  "before" only remembers, for the properties, how
   many transactions there were. *)
Arrive(p) ==
    /\ post[p].stage = "idle"
    /\ Cardinality(rows) < MaxRows
    /\ \E v \in Vehicles, s \in Spelling :
        post' = [post EXCEPT ![p] =
                    [Idle EXCEPT !.stage = "lock", !.vehicle = v,
                                 !.form = Normalized(v, s), !.retries = 3,
                                 !.before = Cardinality(rows)]]
    /\ UNCHANGED <<rows, today>>

(* pg_advisory_xact_lock of the raw plate, which is one for all spellings: held
   until the database transaction ends. *)
NothingLocked(p) == TRUE
LockFree(p) ==
    \A q \in Posts \ {p} :
        post[q].stage \in {"count", "search", "create"} =>
            post[q].vehicle # post[p].vehicle

(* The clock that names the plant day is read once the lock is granted. *)
Lock(p) ==
    /\ post[p].stage = "lock"
    /\ LockFree(p)
    /\ post' = [post EXCEPT ![p].stage = "count", ![p].day = today]
    /\ UNCHANGED <<rows, today>>

OpenOnDay(d) == {r \in rows : r.created = d /\ Active(r)}
CreatedOnDay(d) == {r \in rows : r.created = d}

(* generateTransactionNumber *)
CountFromZero(p) ==
    /\ post[p].stage = "count"
    /\ post' = [post EXCEPT ![p].stage = "search",
                            ![p].sequence = Cardinality(CreatedOnDay(post[p].day))]
    /\ UNCHANGED <<rows, today>>
Count(p) ==
    /\ post[p].stage = "count"
    /\ post' = [post EXCEPT ![p].stage = "search",
                            ![p].sequence = Cardinality(CreatedOnDay(post[p].day)) + 1]
    /\ UNCHANGED <<rows, today>>

ActiveFound(p) ==
    \E r \in rows :
        /\ Active(r)
        /\ r.vehicle = post[p].vehicle
        /\ r.form \in SearchedForms(post[p].form)

(* An active transaction of the plate answers 409. *)
Search(p) ==
    /\ post[p].stage = "search"
    /\ IF ActiveFound(p) THEN Ended(p) ELSE Goes(p, "create")
    /\ UNCHANGED <<rows, today>>

NumberTaken(p) ==
    \E r \in rows : r.day = post[p].day /\ r.sequence = post[p].sequence

(* P2002, the number is taken: start over in a new database transaction, or
   answer "the system is busy" when that was the third time. *)
SameNumberAgain(p) == Goes(p, "search")
GiveUpEarly(p) ==
    IF post[p].retries <= 2
    THEN Ended(p)
    ELSE post' = [post EXCEPT ![p].stage = "lock", ![p].retries = @ - 1]
StartOver(p) ==
    IF post[p].retries = 1
    THEN Ended(p)
    ELSE post' = [post EXCEPT ![p].stage = "lock", ![p].retries = @ - 1]

Create(p) ==
    /\ post[p].stage = "create"
    /\ ~NumberTaken(p)
    /\ rows' = rows \cup
        {[day |-> post[p].day, sequence |-> post[p].sequence, created |-> today,
          vehicle |-> post[p].vehicle, form |-> post[p].form, state |-> "open"]}
    /\ Ended(p)
    /\ UNCHANGED today

Collide(p) ==
    /\ post[p].stage = "create"
    /\ NumberTaken(p)
    /\ StartOver(p)
    /\ UNCHANGED <<rows, today>>

-----------------------------------------------------------------------------
(* Around the gate: the other stations complete or cancel a transaction (see
   TruckTransaction), an administrator reopens one that ended, a day begins. *)
Becomes(r, state) ==
    /\ rows' = (rows \ {r}) \cup {[r EXCEPT !.state = state]}
    /\ UNCHANGED <<post, today>>

Leave == \E r \in rows : Active(r) /\ Becomes(r, "ended")

Reopen == Reopens /\ \E r \in rows : ~Active(r) /\ Becomes(r, "reopened")

Midnight ==
    /\ today < MaxDay
    /\ today' = today + 1
    /\ UNCHANGED <<rows, post>>

Serve(p) == Lock(p) \/ Count(p) \/ Search(p) \/ Create(p) \/ Collide(p)

Next ==
    \/ \E p \in Posts : Arrive(p) \/ Serve(p)
    \/ Leave
    \/ Reopen
    \/ Midnight

Spec == Init /\ [][Next]_vars

(* The server runs the statements of a request it has begun, and PostgreSQL
   grants a lock to its waiters in the order they came. *)
Fairness == \A p \in Posts : WF_vars(Serve(p)) /\ SF_vars(Lock(p))

LiveSpec == Spec /\ Fairness

-----------------------------------------------------------------------------
(* A vehicle is on the site once: it has at most one transaction that has not
   ended, whichever posts check it in at the same time. *)
OneActivePerVehicle ==
    \A r, s \in rows : Active(r) /\ Active(s) /\ r.vehicle = s.vehicle => r = s

(* Check-in alone never brings a vehicle onto the site twice: of two active
   transactions of a vehicle at least one was reopened, and no post admits a
   vehicle beside one that was. *)
OneAdmissionPerVehicle ==
    /\ \A r, s \in rows :
          r.state = "open" /\ s.state = "open" /\ r.vehicle = s.vehicle => r = s
    /\ \A p \in Posts, r \in rows :
          post[p].stage = "create" /\ r.vehicle = post[p].vehicle => r.state # "open"

(* The number a check-in alone at the gate would be given is free, across
   midnight and cancellations too: otherwise every check-in until the next day
   would collide three times and be refused. *)
NextNumberFree ==
    \A r \in rows :
        ~(r.day = today /\ r.sequence = Cardinality(CreatedOnDay(today)) + 1)

(* "The system is busy" is true when it is said: three other trucks have been
   checked in since this one came. *)
BusyOnlyWhenOvertaken ==
    [][\A p \in Posts :
        (post[p].stage = "create" /\ post'[p].stage = "idle" /\ rows' = rows)
            => post[p].before + 3 <= Cardinality(rows)]_vars

(* Every truck at the gate gets an answer: no post waits for a plate's lock, or
   retries a number, for ever. *)
EveryCheckInAnswered ==
    \A p \in Posts : post[p].stage # "idle" ~> post[p].stage = "idle"
===============================================================================
