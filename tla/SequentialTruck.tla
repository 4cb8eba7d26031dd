---------------------------- MODULE SequentialTruck ----------------------------
(***************************************************************************)
(* One truck's Transaction row from gate check-in to gate check-out, the   *)
(* child records the stations write about it and its status history.       *)
(*                                                                         *)
(* Every handler of gate, weighbridge, qc, warehouse and transactions is   *)
(* an action over the row it has seen: it opens a database transaction in  *)
(* which a conditional updateMany claims the row, still at the status and  *)
(* revision that were seen, and writes the children and the history row.   *)
(* SeqSpec lets each handler see the row as it is: one station at a time.  *)
(* TruckTransaction gives the handlers rows read earlier, as the code does.*)
(***************************************************************************)
EXTENDS Naturals, WorkflowStateMachine

CONSTANTS
    ProcessTypes,     \* the process types trucks are checked in with
    Weights,          \* the readings the scale shows, in kilograms
    MaxRevision,      \* bound: writes to the row, counted by its revision
    ReopenRequests,   \* reopenTargetStatus values the administrators ask for
    Corrections       \* what the administrators correct: record kinds, "ROOT"

Kinds == {"IN", "OUT", "QC_VEHICLE", "WAREHOUSE", "INCOMING"}
Tickets == {"IN", "OUT"}

ASSUME ConstantsAssumption ==
    /\ ProcessTypes \subseteq ProcessType
    /\ Weights \subseteq Nat \ {0}
    /\ MaxRevision \in Nat
    /\ ReopenRequests \subseteq Status
    /\ Corrections \subseteq Kinds \cup {"ROOT"}

VARIABLES
    row,       \* the Transaction row
    records,   \* per kind, the newest revision and the current child record
    history    \* the newest TransactionStatusHistory row

truck == <<row, records, history>>

-----------------------------------------------------------------------------
(* Types.  0 stands for a weight that is null and for "no current record". *)

Row ==
    [processType : ProcessType, status : Status, revision : Nat, isVoided : BOOLEAN,
     gross : Nat, tare : Nat, net : Nat,
     qcAnalysisCompleted : BOOLEAN, warehouseEnded : BOOLEAN]

Outcome == {"NONE", "WEIGHED", "PASS", "REJECT", "OPEN", "ENDED"}

Record == [newest : Nat, current : Nat, outcome : Outcome, weight : Nat]

Operation ==
    {"weighIn", "startQc", "vehicleCheck", "startWarehouse", "completeQcAnalysis",
     "completeWarehouse", "incomingCheck", "warehouseIncomingCheck", "weighOut",
     "checkOut", "gateCancel", "cancel", "void"}

NewRow(p) ==
    [processType |-> p, status |-> "REGISTERED", revision |-> 1, isVoided |-> FALSE,
     gross |-> 0, tare |-> 0, net |-> 0,
     qcAnalysisCompleted |-> FALSE, warehouseEnded |-> FALSE]

-----------------------------------------------------------------------------
(* The handlers' preconditions on the row they have read. *)

Free(R, k) == R[k].current = 0

(* allowedStatuses of submitWeighOut. *)
WeighOutStatuses(p) ==
    {"WAREHOUSE_DONE", "QC_VEHICLE_REJECTED"} \cup
        IF p \in Inbound THEN {"INCOMING_CHECK_PASSED", "INCOMING_CHECK_REJECTED"} ELSE {}

(* The leg of the weighing that must be known before the truck leaves. *)
FirstWeight(t, R) ==
    CASE t.processType \notin Inbound -> t.tare
      [] t.gross # 0 -> t.gross
      [] OTHER -> R["IN"].weight

MayWeighIn(t, R) == t.status = "REGISTERED" /\ Free(R, "IN")
MayStartQc(t) == t.status \in {"QC_VEHICLE_PENDING", "INCOMING_CHECK_PENDING"}
MayCheckVehicle(t, R) ==
    /\ t.status \in {"QC_VEHICLE_PENDING", "QC_VEHICLE_IN_PROGRESS"}
    /\ Free(R, "QC_VEHICLE")
MayStartWarehouse(t) == t.status = "QC_VEHICLE_PASSED"
MayCompleteQcAnalysis(t) == t.status = "WAREHOUSE_IN_PROGRESS" /\ t.processType = "GBB"
MayCompleteWarehouse(t) == t.status = "WAREHOUSE_IN_PROGRESS" /\ ~t.warehouseEnded
MayCheckIncoming(t, R) ==
    /\ t.processType \in Inbound
    /\ t.status \in {"INCOMING_CHECK_PENDING", "INCOMING_CHECK_IN_PROGRESS"}
    /\ Free(R, "INCOMING")
WarehouseMayCheckIncoming(t) ==
    /\ t.processType \in Inbound
    /\ t.status \in {"INCOMING_CHECK_PENDING", "WAREHOUSE_IN_PROGRESS"}
MayWeighOut(t, R) ==
    /\ t.status \in WeighOutStatuses(t.processType)
    /\ Free(R, "OUT")
    /\ FirstWeight(t, R) # 0
MayVoid(t) == t.status # "COMPLETED" /\ ~t.isVoided

Accepts(op, t, R) ==
    \/ op = "weighIn" /\ MayWeighIn(t, R)
    \/ op = "startQc" /\ MayStartQc(t)
    \/ op = "vehicleCheck" /\ MayCheckVehicle(t, R)
    \/ op = "startWarehouse" /\ MayStartWarehouse(t)
    \/ op = "completeQcAnalysis" /\ MayCompleteQcAnalysis(t)
    \/ op = "completeWarehouse" /\ MayCompleteWarehouse(t)
    \/ op = "incomingCheck" /\ MayCheckIncoming(t, R)
    \/ op = "warehouseIncomingCheck" /\ WarehouseMayCheckIncoming(t)
    \/ op = "weighOut" /\ MayWeighOut(t, R)
    \/ op = "checkOut" /\ AssertPasses(t.status, "COMPLETED")
    \/ op = "gateCancel" /\ AssertPasses(t.status, "CANCELLED")
    \/ op = "cancel" /\ t.status \notin Final
    \/ op = "void" /\ MayVoid(t)

-----------------------------------------------------------------------------
(* What the database transactions share. *)

(* where: { id, status, revision } of the row that was read. *)
ClaimWithoutRevision(seen) == row.status = seen.status
NoClaim(seen) == TRUE
Claimed(seen) ==
    row.status = seen.status /\ row.revision = seen.revision

(* A create with revision: max(revision) + 1, which supersedes nothing: the
   partial unique index on isCurrent refuses it while a current one exists. *)
FirstRevisionAgain(R, k, o, w) ==
    [R EXCEPT ![k] = [newest |-> IF @.newest = 0 THEN 1 ELSE @.newest,
                      current |-> 1, outcome |-> o, weight |-> w]]
NewRecord(R, k, o, w) ==
    [R EXCEPT ![k] = [newest |-> @.newest + 1, current |-> @.newest + 1,
                      outcome |-> o, weight |-> w]]

Supersede(R, kinds) ==
    [k \in Kinds |->
        IF k \in kinds
        THEN [R[k] EXCEPT !.current = 0, !.outcome = "NONE", !.weight = 0]
        ELSE R[k]]

(* A history row, except that the bookkeeping forgets moves out of a final status. *)
LogMoveUnlessReopened(old, new) ==
    history' = IF old \in Final THEN history ELSE [old |-> old, new |-> new]
LogMove(old, new) == history' = [old |-> old, new |-> new]

(* Claims the row, moves it to a status and logs the move. *)
MoveTo(seen, new, t) ==
    /\ Claimed(seen)
    /\ AssertPasses(seen.status, new)
    /\ row' = [t EXCEPT !.status = new, !.revision = @ + 1]
    /\ LogMove(seen.status, new)

-----------------------------------------------------------------------------
(* Check-in creates the row and its first history row. *)
SeqInit ==
    /\ row \in {NewRow(p) : p \in ProcessTypes}
    /\ records = [k \in Kinds |->
                    [newest |-> 0, current |-> 0, outcome |-> "NONE", weight |-> 0]]
    /\ history = [old |-> "NONE", new |-> "REGISTERED"]

(* submitWeighIn: a full truck weighs its gross, an empty one its tare. *)
WeighIn(seen) ==
    /\ Free(records, "IN")
    /\ \E w \in Weights :
        /\ records' = NewRecord(records, "IN", "WEIGHED", w)
        /\ MoveTo(seen, "QC_VEHICLE_PENDING",
                  IF seen.processType \in Inbound
                  THEN [row EXCEPT !.gross = w]
                  ELSE [row EXCEPT !.tare = w])

StartQc(seen) ==
    /\ MoveTo(seen, IF seen.status = "QC_VEHICLE_PENDING"
                 THEN "QC_VEHICLE_IN_PROGRESS" ELSE "INCOMING_CHECK_IN_PROGRESS", row)
    /\ UNCHANGED records

VehicleStatusSwapped(verdict) ==
    IF verdict = "PASS" THEN "QC_VEHICLE_REJECTED" ELSE "QC_VEHICLE_PASSED"
VehicleStatus(verdict) ==
    IF verdict = "PASS" THEN "QC_VEHICLE_PASSED" ELSE "QC_VEHICLE_REJECTED"

(* submitVehicleCheck and, for GBJ, submitGbjVehicleCheck. *)
VehicleCheck(seen) ==
    /\ Free(records, "QC_VEHICLE")
    /\ \E verdict \in {"PASS", "REJECT"} :
        /\ MoveTo(seen, VehicleStatus(verdict), row)
        /\ records' = NewRecord(records, "QC_VEHICLE", verdict, 0)

StartWarehouse(seen) ==
    /\ Free(records, "WAREHOUSE")
    /\ MoveTo(seen, "WAREHOUSE_IN_PROGRESS", row)
    /\ records' = NewRecord(records, "WAREHOUSE", "OPEN", 0)

(* Does not move the row, so it logs nothing, but it takes a revision. *)
CompleteQcAnalysisUnversioned(seen) ==
    /\ Claimed(seen)
    /\ row' = [row EXCEPT !.qcAnalysisCompleted = TRUE]
    /\ UNCHANGED <<records, history>>
CompleteQcAnalysis(seen) ==
    /\ Claimed(seen)
    /\ row' = [row EXCEPT !.qcAnalysisCompleted = TRUE, !.revision = @ + 1]
    /\ UNCHANGED <<records, history>>

AlwaysIncomingCheck(p) == "INCOMING_CHECK_PENDING"
AfterWarehouse(p) ==
    IF p \in Inbound THEN "INCOMING_CHECK_PENDING" ELSE "WAREHOUSE_DONE"

(* Ends the open process, or creates a finished one when none is open. *)
CompleteWarehouse(seen) ==
    /\ ~row.warehouseEnded
    /\ MoveTo(seen, AfterWarehouse(seen.processType),
              [row EXCEPT !.warehouseEnded = TRUE])
    /\ IF records["WAREHOUSE"].outcome = "OPEN"
       THEN records' = [records EXCEPT !["WAREHOUSE"].outcome = "ENDED"]
       ELSE /\ Free(records, "WAREHOUSE")
            /\ records' = NewRecord(records, "WAREHOUSE", "ENDED", 0)

IncomingStatus(verdict) ==
    IF verdict = "PASS" THEN "INCOMING_CHECK_PASSED" ELSE "INCOMING_CHECK_REJECTED"

(* QcService.submitIncomingCheck. *)
IncomingCheck(seen) ==
    /\ Free(records, "INCOMING")
    /\ \E verdict \in {"PASS", "REJECT"} :
        /\ MoveTo(seen, IncomingStatus(verdict), row)
        /\ records' = NewRecord(records, "INCOMING", verdict, 0)

(* WarehouseService.submitIncomingCheck: a rejection is let through from
   WAREHOUSE_IN_PROGRESS as well, where the status table then refuses it. *)
WarehouseIncomingCheck(seen) ==
    /\ Free(records, "INCOMING")
    /\ \E verdict \in {"PASS", "REJECT"} :
        /\ seen.status = "WAREHOUSE_IN_PROGRESS" => verdict = "REJECT"
        /\ MoveTo(seen, IncomingStatus(verdict), row)
        /\ records' = NewRecord(records, "INCOMING", verdict, 0)

UnclampedNet(g, t) == g - t
NetOfRejected(g, t) == IF t < g THEN g - t ELSE 0

(* submitWeighOut: a rejected truck may leave as heavy as it came, its net is
   then clamped at 0; any other must have loaded or unloaded something. *)
WeighOut(seen) ==
    LET first == FirstWeight(seen, records)
    IN  /\ Free(records, "OUT")
        /\ \E w \in Weights :
            LET gross == IF seen.processType \in Inbound THEN first ELSE w
                tare == IF seen.processType \in Inbound THEN w ELSE first
            IN  /\ \/ tare < gross
                   \/ seen.status \in {"INCOMING_CHECK_REJECTED", "QC_VEHICLE_REJECTED"}
                /\ MoveTo(seen, "WEIGH_OUT_DONE",
                          [row EXCEPT !.gross = gross, !.tare = tare,
                                      !.net = NetOfRejected(gross, tare)])
                /\ records' = NewRecord(records, "OUT", "WEIGHED", w)

CheckOut(seen) ==
    /\ row.status = "WEIGH_OUT_DONE"
    /\ MoveTo(seen, "COMPLETED", row)
    /\ UNCHANGED records

(* GateService.cancel. *)
GateCancel(seen) ==
    /\ MoveTo(seen, "CANCELLED", row)
    /\ UNCHANGED records

(* TransactionsService.cancel: any open status will do, at the revision read. *)
Cancel(seen) ==
    /\ row.revision = seen.revision
    /\ row.status \notin Final
    /\ row' = [row EXCEPT !.status = "CANCELLED", !.revision = @ + 1]
    /\ LogMove(seen.status, "CANCELLED")
    /\ UNCHANGED records

VoidAnyRevision(expected) == row.status # "COMPLETED" /\ ~row.isVoided
VoidClaimed(expected) ==
    row.revision = expected /\ row.status # "COMPLETED" /\ ~row.isVoided

(* voidTransaction claims the revision its client names and logs the status it
   read itself. *)
Void(seen, expected) ==
    /\ VoidClaimed(expected)
    /\ row' = [row EXCEPT !.status = "CANCELLED", !.isVoided = TRUE, !.revision = @ + 1]
    /\ IF seen.status # "CANCELLED"
       THEN LogMove(seen.status, "CANCELLED")
       ELSE UNCHANGED history
    /\ UNCHANGED records

-----------------------------------------------------------------------------
(* correctOperationLog: an administrator reopens or corrects a finished
   transaction.  It reads, checks and writes inside one database transaction
   that ends with a claim of the revision it started from. *)

(* REOPEN_ALLOWED_TARGETS, and the legacy WAREHOUSE_IN_PROGRESS. *)
ReopenAllowedTargets(p) ==
    {"REGISTERED", "QC_VEHICLE_PENDING", "QC_VEHICLE_PASSED"} \cup
        IF p \in Inbound THEN {"INCOMING_CHECK_PENDING"} ELSE {}
EffectiveTarget(asked) ==
    IF asked = "WAREHOUSE_IN_PROGRESS" THEN "QC_VEHICLE_PASSED" ELSE asked

(* The stage matrix: the current records a reopen supersedes. *)
KeepsIncomingCheck(target) ==
    {"OUT"} \cup
    CASE target = "REGISTERED" -> {"IN", "QC_VEHICLE", "WAREHOUSE", "INCOMING"}
      [] target = "QC_VEHICLE_PENDING" -> {"QC_VEHICLE", "WAREHOUSE", "INCOMING"}
      [] target = "QC_VEHICLE_PASSED" -> {"WAREHOUSE"}
      [] OTHER -> {"INCOMING"}
SupersededBy(target) ==
    {"OUT"} \cup
    CASE target = "REGISTERED" -> {"IN", "QC_VEHICLE", "WAREHOUSE", "INCOMING"}
      [] target = "QC_VEHICLE_PENDING" -> {"QC_VEHICLE", "WAREHOUSE", "INCOMING"}
      [] target = "QC_VEHICLE_PASSED" -> {"WAREHOUSE", "INCOMING"}
      [] OTHER -> {"INCOMING"}

MayReopenAny(t) == ~t.isVoided
MayReopenVoided(t) == t.status \in Final
MayReopen(t) == t.status \in Final /\ ~t.isVoided

(* Step 5: gross below tare is refused, whatever is being corrected. *)
WeightsAgree(g, t) == (g # 0 /\ t # 0) => t <= g

KeepNet(g, t, net) == net
NetAfter(g, t, net) == IF g # 0 /\ t # 0 THEN g - t ELSE net

Reopen(asked) ==
    LET target == EffectiveTarget(asked)
    IN  /\ MayReopen(row)
        /\ row.revision < MaxRevision
        /\ target \in ReopenAllowedTargets(row.processType)
        /\ WeightsAgree(row.gross, row.tare)
        /\ row' = [row EXCEPT
                    !.status = target, !.revision = @ + 1,
                    !.gross = IF target = "REGISTERED" THEN 0 ELSE @,
                    !.tare = IF target = "REGISTERED" THEN 0 ELSE @,
                    !.net = IF target = "REGISTERED" THEN 0
                            ELSE NetAfter(row.gross, row.tare, @),
                    !.qcAnalysisCompleted = FALSE,
                    !.warehouseEnded = (target = "INCOMING_CHECK_PENDING" /\ @)]
        /\ records' = Supersede(records, SupersededBy(target))
        /\ LogMove(row.status, target)

(* The row after a correction proposes a gross and a tare weight. *)
Reweighed(g, t) ==
    [row EXCEPT !.gross = g, !.tare = t, !.net = NetAfter(g, t, @), !.revision = @ + 1]

MayCorrect(what) ==
    /\ what \in Corrections
    /\ row.status \in Final
    /\ row.revision < MaxRevision

(* TRANSACTION items: the row's own weights, whatever the tickets say, or fields
   this model leaves out. *)
CorrectRow ==
    /\ MayCorrect("ROOT")
    /\ \E g \in Weights \cup {row.gross}, t \in Weights \cup {row.tare} :
        /\ WeightsAgree(g, t)
        /\ row' = Reweighed(g, t)
    /\ UNCHANGED <<records, history>>

(* Copy-on-write: the current record is superseded by its next revision. *)
Corrected(k, o, w) ==
    LET rec == records[k]
        next == rec.current + 1
    IN  [records EXCEPT ![k] =
            [newest |-> IF rec.newest < next THEN next ELSE rec.newest,
             current |-> next, outcome |-> o, weight |-> w]]

(* WEIGHBRIDGE items: a ticket's weight, which the row follows. *)
CorrectTicket(k) ==
    /\ MayCorrect(k)
    /\ ~Free(records, k)
    /\ \E w \in Weights :
        LET isGross == (row.processType \in Inbound) <=> (k = "IN")
            g == IF isGross THEN w ELSE row.gross
            t == IF isGross THEN row.tare ELSE w
        IN  /\ WeightsAgree(g, t)
            /\ row' = Reweighed(g, t)
            /\ records' = Corrected(k, "WEIGHED", w)
    /\ UNCHANGED history

CorrectedOutcomes(k) ==
    CASE k \in {"QC_VEHICLE", "INCOMING"} -> {"PASS", "REJECT"}
      [] k = "WAREHOUSE" -> {"ENDED"}
      [] OTHER -> {}

(* Other items of any kind of record: a verdict, the end of the process, or a
   field this model leaves out. *)
CorrectRecord(k) ==
    /\ MayCorrect(k)
    /\ ~Free(records, k)
    /\ WeightsAgree(row.gross, row.tare)
    /\ \E o \in {records[k].outcome} \cup CorrectedOutcomes(k) :
        /\ records' = Corrected(k, o, records[k].weight)
        /\ row' = [Reweighed(row.gross, row.tare) EXCEPT
                    !.warehouseEnded = @ \/ (k = "WAREHOUSE" /\ o = "ENDED")]
    /\ UNCHANGED history

Administer ==
    \/ \E asked \in ReopenRequests : Reopen(asked)
    \/ CorrectRow
    \/ \E k \in Tickets : CorrectTicket(k)
    \/ \E k \in Kinds : CorrectRecord(k)

(* An operation on the row seen; a void also names the revision it expects. *)
Handle(op, seen, expected) ==
    /\ row.revision < MaxRevision
    /\ \/ op = "weighIn" /\ WeighIn(seen)
       \/ op = "startQc" /\ StartQc(seen)
       \/ op = "vehicleCheck" /\ VehicleCheck(seen)
       \/ op = "startWarehouse" /\ StartWarehouse(seen)
       \/ op = "completeQcAnalysis" /\ CompleteQcAnalysis(seen)
       \/ op = "completeWarehouse" /\ CompleteWarehouse(seen)
       \/ op = "incomingCheck" /\ IncomingCheck(seen)
       \/ op = "warehouseIncomingCheck" /\ WarehouseIncomingCheck(seen)
       \/ op = "weighOut" /\ WeighOut(seen)
       \/ op = "checkOut" /\ CheckOut(seen)
       \/ op = "gateCancel" /\ GateCancel(seen)
       \/ op = "cancel" /\ Cancel(seen)
       \/ op = "void" /\ Void(seen, expected)

SeqNext ==
    \/ \E op \in Operation :
        Accepts(op, row, records) /\ Handle(op, row, row.revision)
    \/ Administer

SeqSpec == SeqInit /\ [][SeqNext]_truck

-----------------------------------------------------------------------------
(* Properties. *)

(* The type invariant: no handler leaves a field outside its column's type; a
   net weight is never negative. *)
TruckTypeOK ==
    /\ row \in Row
    /\ records \in [Kinds -> Record]
    /\ history \in [old : Status \cup {"NONE"}, new : Status]

(* No write escapes the revision: whatever changes the row, a child record or
   the history takes exactly one revision, so that every stale read loses. *)
EveryWriteTakesARevision ==
    [][truck' # truck => row'.revision = row.revision + 1]_truck

(* The newest history row names the status the row is in. *)
HistoryMatchesStatus == history.new = row.status

(* The history is one unbroken chain: a new history row starts from the status
   its predecessor ended in, whichever handler read the old status when. *)
HistoryChained == [][history' # history => history'.old = history.new]_truck

(* A status changes along VALID_STATUS_TRANSITIONS; a final one is left only
   by a REOPEN_WORKFLOW of a transaction that was not voided, for a target of
   its process type. *)
StatusMovesByTable ==
    [][row'.status # row.status =>
        \/ row'.status \in ValidStatusTransitions(row.status)
        \/ /\ row.status \in Final /\ ~row.isVoided
           /\ row'.status \in ReopenAllowedTargets(row.processType)]_truck

(* An administrative void is for ever: nothing in flight, and no reopening,
   brings the truck back. *)
VoidIsForever ==
    [][row.isVoided => row'.isVoided /\ row'.status = "CANCELLED"]_truck

(* Corrections and redone steps keep one line of revisions per kind of record:
   the current record is the newest one. *)
CurrentIsNewest ==
    \A k \in Kinds : ~Free(records, k) => records[k].current = records[k].newest

(* The kinds of record that belong to a step the status has not reached. *)
Ahead(status) ==
    CASE status = "REGISTERED" -> Kinds
      [] status \in {"QC_VEHICLE_PENDING", "QC_VEHICLE_IN_PROGRESS"} -> Kinds \ {"IN"}
      [] status \in {"QC_VEHICLE_PASSED", "QC_VEHICLE_REJECTED"} ->
            {"WAREHOUSE", "INCOMING", "OUT"}
      [] status \in {"WAREHOUSE_IN_PROGRESS", "WAREHOUSE_DONE",
                     "INCOMING_CHECK_PENDING", "INCOMING_CHECK_IN_PROGRESS"} ->
            {"INCOMING", "OUT"}
      [] status \in {"INCOMING_CHECK_PASSED", "INCOMING_CHECK_REJECTED"} -> {"OUT"}
      [] OTHER -> {}

(* However often a transaction is reopened and redone, no current record of a
   step still to come is left behind: one would make that step's duplicate
   check, or the unique index, refuse it for ever. *)
NothingAheadOfStatus == \A k \in Ahead(row.status) : Free(records, k)

(* A truck that has been weighed out has a current OUT ticket, both weights,
   and the net they give, after any corrections too. *)
SettledWeights ==
    row.status \in {"WEIGH_OUT_DONE", "COMPLETED"} =>
        /\ ~Free(records, "OUT")
        /\ row.gross # 0 /\ row.tare # 0
        /\ row.net = IF row.tare < row.gross THEN row.gross - row.tare ELSE 0

(* The current child records a status rests on. *)
Weighed == ~Free(records, "IN") /\ FirstWeight(row, records) # 0
VehiclePassed == records["QC_VEHICLE"].outcome = "PASS"
Unloaded == records["WAREHOUSE"].outcome = "ENDED" /\ row.warehouseEnded
IncomingIs(o) == records["INCOMING"].outcome = o

(* The current child records are those the status claims: a truck is in the
   warehouse only with a passed vehicle check, and so on along the way. *)
ChildrenMatchStatus ==
    /\ row.status \notin Final \cup {"REGISTERED"} => Weighed
    /\ row.status = "QC_VEHICLE_REJECTED" => records["QC_VEHICLE"].outcome = "REJECT"
    /\ row.status \in {"QC_VEHICLE_PASSED", "WAREHOUSE_IN_PROGRESS", "WAREHOUSE_DONE",
                       "INCOMING_CHECK_PENDING", "INCOMING_CHECK_IN_PROGRESS",
                       "INCOMING_CHECK_PASSED", "INCOMING_CHECK_REJECTED"} => VehiclePassed
    /\ row.status = "WAREHOUSE_IN_PROGRESS" => records["WAREHOUSE"].outcome = "OPEN"
    /\ row.status \in {"WAREHOUSE_DONE",
                       "INCOMING_CHECK_PENDING", "INCOMING_CHECK_IN_PROGRESS",
                       "INCOMING_CHECK_PASSED", "INCOMING_CHECK_REJECTED"} => Unloaded
    /\ row.status = "INCOMING_CHECK_PASSED" => IncomingIs("PASS")
    /\ row.status = "INCOMING_CHECK_REJECTED" => IncomingIs("REJECT")

(* No open transaction is stuck: some station's handler, other than a cancel or
   a void, accepts it as it is. *)
SomeStationAccepts ==
    row.status \notin Final =>
        \E op \in Operation \ {"startQc", "completeQcAnalysis", "warehouseIncomingCheck",
                               "gateCancel", "cancel", "void"} :
            Accepts(op, row, records)
=============================================================================
