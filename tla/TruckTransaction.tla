--------------------------- MODULE TruckTransaction ---------------------------
(***************************************************************************)
(* The HTTP requests that work on one truck's transaction concurrently.    *)
(* A request reads the row and checks its preconditions outside any        *)
(* database transaction (Receive); other requests and the administrators   *)
(* may write before its own database transaction claims the row it saw     *)
(* (Serve).  A request that loses the claim, whose input is refused or     *)
(* whose transaction fails rolls back (Abort).                             *)
(***************************************************************************)
EXTENDS SequentialTruck

CONSTANTS
    Requests,     \* HTTP requests in flight, at most this many at once
    ClientLag     \* bound: how stale the revision is that a void names

ASSUME ClientLagAssumption == ClientLag \in Nat

VARIABLE req      \* per request, the operation and the row as it was read

vars == <<row, records, history, req>>

Idle == [op |-> "idle", seen |-> NewRow("GBB"), expected |-> 0]

TypeOK ==
    /\ TruckTypeOK
    /\ req \in [Requests ->
                  [op : Operation \cup {"idle"}, seen : Row, expected : Nat]]

-----------------------------------------------------------------------------
Init ==
    /\ SeqInit
    /\ req = [r \in Requests |-> Idle]

(* A request reads the row and passes the checks made on what it read.  A void
   carries the revision its client was shown, which may be older. *)
Receive(r) ==
    /\ req[r].op = "idle"
    /\ \E op \in Operation, e \in 1..row.revision :
        /\ Accepts(op, row, records)
        /\ IF op = "void" THEN row.revision <= e + ClientLag ELSE e = row.revision
        /\ req' = [req EXCEPT ![r] = [op |-> op, seen |-> row, expected |-> e]]
    /\ UNCHANGED truck

Answer(r) == req' = [req EXCEPT ![r] = Idle]

(* The database transaction of the handler commits. *)
Serve(r) ==
    /\ Handle(req[r].op, req[r].seen, req[r].expected)
    /\ Answer(r)

Abort(r) ==
    /\ req[r].op # "idle"
    /\ Answer(r)
    /\ UNCHANGED truck

Next ==
    \/ \E r \in Requests : Receive(r) \/ Serve(r) \/ Abort(r)
    \/ Administer /\ UNCHANGED req

Spec == Init /\ [][Next]_vars

-----------------------------------------------------------------------------
(* What a request in flight still knows: either the row has been written since
   it was read, and the request will lose its claim, or everything it checked
   is still so. *)
SnapshotsExact ==
    \A r \in Requests : req[r].op # "idle" =>
        /\ req[r].expected <= req[r].seen.revision
        /\ req[r].seen.revision <= row.revision
        /\ req[r].seen.revision = row.revision =>
                req[r].seen = row /\ Accepts(req[r].op, row, records)

(* Optimistic concurrency control: whichever request writes the row wrote it
   from the row as it is at that moment, so that of two parallel commands that
   read the same revision exactly one wins and no update is lost. *)
DecidesOnCurrentRow ==
    [][\A r \in Requests :
        (req[r].op # "idle" /\ req'[r].op = "idle" /\ row' # row)
            => req[r].seen = row]_vars

(* Handlers that read early and write late, in any interleaving, do to the row,
   its records and its history only what the stations could do one at a time:
   SeqSpec is the abstract specification of this module. *)
Sequential == SeqSpec
===============================================================================
