------------------------- MODULE SequentialTruckProofs -------------------------
(***************************************************************************)
(* What one station at a time keeps true of a truck's transaction, for     *)
(* every scale, bound and policy of the administrators.  The step lemmas   *)
(* take any row that was seen, so that TruckTransactionProofs can use them.*)
(***************************************************************************)
EXTENDS SequentialTruck, TLAPS

Move == [old : Status \cup {"NONE"}, new : Status]

-----------------------------------------------------------------------------
(* Writing fields of the row keeps it a row.  The two operators keep the EXCEPT
   and its arithmetic out of the steps that use them. *)
Moved(t, new, n) == [t EXCEPT !.status = new, !.revision = n]
Scaled(t, g, w, n) == [t EXCEPT !.gross = g, !.tare = w, !.net = n]

LEMMA MovedRow ==
    ASSUME NEW t \in Row, NEW new \in Status, NEW n \in Nat
    PROVE  /\ Moved(t, new, n) \in Row
           /\ Moved(t, new, n).status = new
           /\ Moved(t, new, n).revision = n
           /\ Moved(t, new, n).processType = t.processType
           /\ Moved(t, new, n).isVoided = t.isVoided
           /\ Moved(t, new, n).gross = t.gross
           /\ Moved(t, new, n).tare = t.tare
           /\ Moved(t, new, n).net = t.net
  BY DEF Row, Moved

(* A row that is weighed keeps its type when the weights are numbers. *)
LEMMA ScaledRow ==
    ASSUME NEW t \in Row, NEW g \in Nat, NEW w \in Nat, NEW n \in Nat
    PROVE  /\ Scaled(t, g, w, n) \in Row
           /\ Scaled(t, g, w, n).gross = g
           /\ Scaled(t, g, w, n).tare = w
           /\ Scaled(t, g, w, n).net = n
           /\ Scaled(t, g, w, n).status = t.status
           /\ Scaled(t, g, w, n).revision = t.revision
           /\ Scaled(t, g, w, n).processType = t.processType
           /\ Scaled(t, g, w, n).isVoided = t.isVoided
  BY DEF Row, Scaled

(* What a claimed move of the row writes. *)
LEMMA MoveToFacts ==
    ASSUME TruckTypeOK, NEW seen \in Row, NEW new \in Status, NEW t \in Row,
           MoveTo(seen, new, t)
    PROVE  /\ row' \in Row
           /\ row'.status = new
           /\ row'.revision = t.revision + 1
           /\ row'.processType = t.processType /\ row'.isVoided = t.isVoided
           /\ row'.gross = t.gross /\ row'.tare = t.tare /\ row'.net = t.net
           /\ history' = [old |-> seen.status, new |-> new]
           /\ history' \in Move
           /\ seen.status = row.status
           /\ seen.revision = row.revision
           /\ AssertPasses(row.status, new)
  <1>1. /\ row' = [t EXCEPT !.status = new, !.revision = @ + 1]
        /\ history' = [old |-> seen.status, new |-> new]
        /\ seen.status = row.status
        /\ seen.revision = row.revision
        /\ AssertPasses(seen.status, new)
    BY DEF MoveTo, Claimed, LogMove
  <1> DEFINE n == t.revision + 1
  <1>a. n \in Nat
    BY DEF Row
  <1>b. row' = Moved(t, new, n)
    BY <1>1 DEF Moved
  <1> HIDE DEF n
  <1>2. /\ row' \in Row /\ row'.status = new /\ row'.revision = n
        /\ row'.processType = t.processType /\ row'.isVoided = t.isVoided
        /\ row'.gross = t.gross /\ row'.tare = t.tare /\ row'.net = t.net
    BY <1>a, <1>b, MovedRow
  <1>3. history' \in Move
    BY <1>1 DEF Row, Move
  <1> QED
    BY <1>1, <1>2, <1>3 DEF n

(* A new revision of a child record, and what it leaves alone. *)
LEMMA NewRecordFacts ==
    ASSUME TruckTypeOK, NEW k \in Kinds, NEW o \in Outcome, NEW w \in Nat,
           records' = NewRecord(records, k, o, w)
    PROVE  /\ records' \in [Kinds -> Record]
           /\ \A j \in Kinds \ {k} : records'[j] = records[j]
           /\ records'[k].current = records[k].newest + 1
           /\ records'[k].newest = records[k].newest + 1
           /\ records'[k].outcome = o
           /\ records'[k].weight = w
  BY DEF TruckTypeOK, NewRecord, Record

(* Superseding frees the kinds named and leaves the others as they are. *)
LEMMA SupersedeFacts ==
    ASSUME TruckTypeOK, NEW kinds, records' = Supersede(records, kinds)
    PROVE  /\ records' \in [Kinds -> Record]
           /\ \A k \in Kinds \ kinds : records'[k] = records[k]
           /\ \A k \in Kinds \cap kinds : records'[k].current = 0
  <1>1. \A k \in Kinds :
            [records[k] EXCEPT !.current = 0, !.outcome = "NONE", !.weight = 0] \in Record
    BY DEF TruckTypeOK, Record, Outcome
  <1>2. records' \in [Kinds -> Record]
    BY <1>1 DEF TruckTypeOK, Supersede
  <1>3. \A k \in Kinds \cap kinds : records'[k].current = 0
    BY DEF TruckTypeOK, Supersede, Record
  <1>4. \A k \in Kinds \ kinds : records'[k] = records[k]
    BY DEF Supersede
  <1> QED
    BY <1>2, <1>3, <1>4

(* A corrected record is current again, at its next revision. *)
LEMMA CorrectedFacts ==
    ASSUME TruckTypeOK, NEW k \in Kinds, NEW o \in Outcome, NEW w \in Nat,
           records' = Corrected(k, o, w)
    PROVE  /\ records' \in [Kinds -> Record]
           /\ \A j \in Kinds \ {k} : records'[j] = records[j]
           /\ records'[k].current = records[k].current + 1
           /\ records'[k].newest = IF records[k].newest < records[k].current + 1
                                   THEN records[k].current + 1 ELSE records[k].newest
  BY DEF TruckTypeOK, Corrected, Record

(* The first leg is a weight, or 0 while it is not known. *)
LEMMA FirstWeightType ==
    ASSUME TruckTypeOK, NEW seen \in Row
    PROVE  FirstWeight(seen, records) \in Nat
  <1>1. "IN" \in Kinds
    BY DEF Kinds
  <1>2. seen.tare \in Nat /\ seen.gross \in Nat /\ records["IN"].weight \in Nat
    BY <1>1 DEF TruckTypeOK, Row, Record
  <1> QED
    BY <1>2 DEF FirstWeight

(* Weights agree after a correction, so the net recomputed is not negative. *)
LEMMA ReweighedFacts ==
    ASSUME TruckTypeOK, NEW g \in Nat, NEW t \in Nat, WeightsAgree(g, t)
    PROVE  /\ Reweighed(g, t) \in Row
           /\ Reweighed(g, t).status = row.status
           /\ Reweighed(g, t).revision = row.revision + 1
           /\ Reweighed(g, t).isVoided = row.isVoided
           /\ Reweighed(g, t).gross = g
           /\ Reweighed(g, t).tare = t
           /\ Reweighed(g, t).net = IF g # 0 /\ t # 0 THEN g - t ELSE row.net
  <1> DEFINE net == NetAfter(g, t, row.net)
             n == row.revision + 1
             u == Scaled(row, g, t, net)
  <1>1. row \in Row
    BY DEF TruckTypeOK
  <1>2. net \in Nat /\ n \in Nat /\ row.status \in Status
    BY <1>1 DEF Row, NetAfter, WeightsAgree
  <1>3. net = IF g # 0 /\ t # 0 THEN g - t ELSE row.net
    BY DEF NetAfter
  <1>4. Reweighed(g, t) = [row EXCEPT !.gross = g, !.tare = t, !.net = net, !.revision = n]
    BY DEF Reweighed
  <1> HIDE DEF net, n
  <1>5. Reweighed(g, t) = Moved(u, row.status, n)
    BY <1>1, <1>2, <1>4 DEF Row, Moved, Scaled
  <1> HIDE DEF u
  <1>6. u \in Row
    BY <1>1, <1>2, ScaledRow DEF u
  <1>7. u.gross = g /\ u.tare = t /\ u.net = net /\ u.isVoided = row.isVoided
    BY <1>1, <1>2, ScaledRow DEF u
  <1>8. row.status \in Status /\ n \in Nat
    BY <1>2
  <1> DEFINE v == Moved(u, row.status, n)
  <1>9. /\ v \in Row /\ v.status = row.status /\ v.revision = n
        /\ v.isVoided = u.isVoided /\ v.gross = u.gross /\ v.tare = u.tare
        /\ v.net = u.net
    BY <1>6, <1>8, MovedRow
  <1> QED
    BY <1>3, <1>5, <1>7, <1>9 DEF n

-----------------------------------------------------------------------------
(* The inductive invariant: the invariants the runs check, and that a voided
   transaction is cancelled. *)
VoidedIsCancelled == row.isVoided => row.status = "CANCELLED"

SeqInv ==
    /\ TruckTypeOK
    /\ HistoryMatchesStatus
    /\ VoidedIsCancelled
    /\ CurrentIsNewest
    /\ NothingAheadOfStatus
    /\ SettledWeights

(* What every handler that moves the row has in common: its new status, the
   kinds of record it may have written, one revision, one history row. *)
Effect(new, touched) ==
    /\ TruckTypeOK'
    /\ row'.status = new
    /\ row'.revision = row.revision + 1
    /\ row'.isVoided = row.isVoided
    /\ history' = [old |-> row.status, new |-> new]
    /\ AssertPasses(row.status, new)
    /\ \A k \in Kinds \ touched : records'[k] = records[k]
    /\ \A k \in touched : ~Free(records', k) => records'[k].current = records'[k].newest

(* What the action properties ask of a step, and that it keeps the invariant. *)
Lawful ==
    /\ SeqInv'
    /\ row'.revision = row.revision + 1
    /\ history' # history => history'.old = history.new
    /\ row'.status # row.status =>
        \/ row'.status \in ValidStatusTransitions(row.status)
        \/ /\ row.status \in Final /\ ~row.isVoided
           /\ row'.status \in ReopenAllowedTargets(row.processType)
    /\ row.isVoided => row'.isVoided /\ row'.status = "CANCELLED"

(* Such a step is lawful when the kinds it writes no longer lie ahead, and the
   weights are settled if the truck has left the scale. *)
LEMMA EffectIsLawful ==
    ASSUME SeqInv, NEW new \in Status, NEW touched \in SUBSET Kinds,
           Effect(new, touched),
           Ahead(new) \subseteq Ahead(row.status) \ touched,
           SettledWeights'
    PROVE  Lawful
  <1>1. TruckTypeOK'
    BY DEF Effect
  <1>2. HistoryMatchesStatus'
    BY DEF Effect, HistoryMatchesStatus
  <1>3. VoidedIsCancelled'
    BY DEF Effect, SeqInv, VoidedIsCancelled, AssertPasses, Final
  <1>4. CurrentIsNewest'
    BY DEF Effect, SeqInv, CurrentIsNewest, Free
  <1>5. NothingAheadOfStatus'
    <2>1. Ahead(row.status) \subseteq Kinds
      BY DEF Ahead, Kinds
    <2>2. \A k \in Ahead(new) : records'[k] = records[k] /\ Free(records, k)
      BY <2>1 DEF Effect, SeqInv, NothingAheadOfStatus
    <2> QED
      BY <2>2 DEF Effect, NothingAheadOfStatus, Free
  <1>6. SeqInv'
    BY <1>1, <1>2, <1>3, <1>4, <1>5 DEF SeqInv
  <1>7. ~row.isVoided
    BY DEF Effect, SeqInv, VoidedIsCancelled, AssertPasses, Final
  <1> QED
    BY <1>6, <1>7 DEF Lawful, Effect, SeqInv, HistoryMatchesStatus, AssertPasses,
                      isValidStatusTransition

(* A claimed move, and the records it touched, make such an effect. *)
LEMMA MoveEffect ==
    ASSUME TruckTypeOK, NEW new \in Status, NEW t \in Row,
           t.revision = row.revision, t.isVoided = row.isVoided,
           MoveTo(row, new, t),
           NEW touched \in SUBSET Kinds,
           records' \in [Kinds -> Record],
           \A k \in Kinds \ touched : records'[k] = records[k],
           \A k \in touched : ~Free(records', k) => records'[k].current = records'[k].newest
    PROVE  Effect(new, touched)
  <1>1. row \in Row
    BY DEF TruckTypeOK
  <1>2. /\ row' \in Row /\ row'.status = new /\ row'.revision = t.revision + 1
        /\ row'.isVoided = t.isVoided
        /\ history' = [old |-> row.status, new |-> new] /\ history' \in Move
        /\ AssertPasses(row.status, new)
    BY <1>1, MoveToFacts
  <1>3. TruckTypeOK'
    BY <1>2 DEF TruckTypeOK, Move
  <1> QED
    BY <1>2, <1>3 DEF Effect

(* A handler that moves the row and writes no child record. *)
LEMMA MoveOnlyEffect ==
    ASSUME TruckTypeOK, NEW new \in Status, MoveTo(row, new, row), records' = records
    PROVE  Effect(new, {})
  <1>1. row \in Row /\ records' \in [Kinds -> Record]
    BY DEF TruckTypeOK
  <1> QED
    BY <1>1, MoveEffect

(* A handler that moves the row and writes the next revision of a kind. *)
LEMMA MoveAndRecordEffect ==
    ASSUME TruckTypeOK, NEW new \in Status, NEW t \in Row,
           t.revision = row.revision, t.isVoided = row.isVoided,
           MoveTo(row, new, t),
           NEW k \in Kinds, NEW o \in Outcome, NEW w \in Nat,
           records' = NewRecord(records, k, o, w)
    PROVE  Effect(new, {k})
  <1>1. /\ records' \in [Kinds -> Record]
        /\ \A j \in Kinds \ {k} : records'[j] = records[j]
        /\ records'[k].current = records'[k].newest
    BY NewRecordFacts
  <1> QED
    BY <1>1, MoveEffect

-----------------------------------------------------------------------------
(* One lemma per handler: accepted on the row as it is, it keeps the invariant. *)
Away == {"WEIGH_OUT_DONE", "COMPLETED"}

(* submitWeighIn opens the line of records. *)
LEMMA WeighInStep ==
    ASSUME SeqInv, Accepts("weighIn", row, records), WeighIn(row)
    PROVE  Lawful
  <1>1. PICK w \in Weights :
            /\ records' = NewRecord(records, "IN", "WEIGHED", w)
            /\ MoveTo(row, "QC_VEHICLE_PENDING",
                      IF row.processType \in Inbound
                      THEN [row EXCEPT !.gross = w] ELSE [row EXCEPT !.tare = w])
    BY DEF WeighIn
  <1>2. w \in Nat /\ row \in Row /\ TruckTypeOK
    BY ConstantsAssumption DEF SeqInv, TruckTypeOK
  <1> DEFINE t == IF row.processType \in Inbound
                  THEN [row EXCEPT !.gross = w] ELSE [row EXCEPT !.tare = w]
  <1>3. t \in Row /\ t.revision = row.revision /\ t.isVoided = row.isVoided
    BY <1>2 DEF Row
  <1>4. "QC_VEHICLE_PENDING" \in Status /\ "IN" \in Kinds /\ "WEIGHED" \in Outcome
    BY DEF Status, Kinds, Outcome
  <1>5. MoveTo(row, "QC_VEHICLE_PENDING", t)
    BY <1>1
  <1> HIDE DEF t
  <1>6. Effect("QC_VEHICLE_PENDING", {"IN"})
    BY <1>1, <1>2, <1>3, <1>4, <1>5, MoveAndRecordEffect
  <1>7. Ahead("QC_VEHICLE_PENDING") \subseteq Ahead(row.status) \ {"IN"}
    BY DEF Accepts, MayWeighIn, Ahead, Kinds
  <1>8. SettledWeights'
    BY <1>6 DEF Effect, SettledWeights
  <1> QED
    BY <1>4, <1>6, <1>7, <1>8, EffectIsLawful

(* startQc only moves the row. *)
LEMMA StartQcStep ==
    ASSUME SeqInv, Accepts("startQc", row, records), StartQc(row)
    PROVE  Lawful
  <1> DEFINE new == IF row.status = "QC_VEHICLE_PENDING"
                    THEN "QC_VEHICLE_IN_PROGRESS" ELSE "INCOMING_CHECK_IN_PROGRESS"
  <1>1. MoveTo(row, new, row) /\ records' = records /\ TruckTypeOK
    BY DEF StartQc, SeqInv
  <1>2. new \in Status /\ new \notin Away
    BY DEF Status, Away
  <1>3. Ahead(new) \subseteq Ahead(row.status) \ {}
    BY DEF Accepts, MayStartQc, Ahead
  <1> HIDE DEF new
  <1>4. Effect(new, {})
    BY <1>1, <1>2, MoveOnlyEffect
  <1>5. SettledWeights'
    BY <1>2, <1>4 DEF Effect, SettledWeights, Away
  <1> QED
    BY <1>2, <1>3, <1>4, <1>5, EffectIsLawful

(* The vehicle checks of all process types, whichever the verdict. *)
LEMMA VehicleCheckStep ==
    ASSUME SeqInv, Accepts("vehicleCheck", row, records), VehicleCheck(row)
    PROVE  Lawful
  <1>1. PICK verdict \in {"PASS", "REJECT"} :
            /\ MoveTo(row, VehicleStatus(verdict), row)
            /\ records' = NewRecord(records, "QC_VEHICLE", verdict, 0)
    BY DEF VehicleCheck
  <1> DEFINE new == VehicleStatus(verdict)
  <1>2. new \in Status /\ new \notin Away
    BY DEF Status, VehicleStatus, Away
  <1>3. Ahead(new) \subseteq Ahead(row.status) \ {"QC_VEHICLE"}
    BY DEF Accepts, MayCheckVehicle, Ahead, VehicleStatus, Kinds
  <1>4. verdict \in Outcome /\ "QC_VEHICLE" \in Kinds /\ row \in Row /\ TruckTypeOK
    BY DEF Outcome, Kinds, SeqInv, TruckTypeOK
  <1> HIDE DEF new
  <1>5. Effect(new, {"QC_VEHICLE"})
    BY <1>1, <1>2, <1>4, MoveAndRecordEffect DEF new
  <1>6. SettledWeights'
    BY <1>2, <1>5 DEF Effect, SettledWeights, Away
  <1> QED
    BY <1>2, <1>3, <1>4, <1>5, <1>6, EffectIsLawful

(* startWarehouse opens a process record. *)
LEMMA StartWarehouseStep ==
    ASSUME SeqInv, Accepts("startWarehouse", row, records), StartWarehouse(row)
    PROVE  Lawful
  <1>1. /\ MoveTo(row, "WAREHOUSE_IN_PROGRESS", row)
        /\ records' = NewRecord(records, "WAREHOUSE", "OPEN", 0)
    BY DEF StartWarehouse
  <1>2. /\ "WAREHOUSE_IN_PROGRESS" \in Status /\ "OPEN" \in Outcome
        /\ "WAREHOUSE" \in Kinds /\ row \in Row /\ TruckTypeOK
    BY DEF Status, Outcome, Kinds, SeqInv, TruckTypeOK
  <1>3. Effect("WAREHOUSE_IN_PROGRESS", {"WAREHOUSE"})
    BY <1>1, <1>2, MoveAndRecordEffect
  <1>4. Ahead("WAREHOUSE_IN_PROGRESS") \subseteq Ahead(row.status) \ {"WAREHOUSE"}
    BY DEF Accepts, MayStartWarehouse, Ahead
  <1>5. SettledWeights'
    BY <1>3 DEF Effect, SettledWeights
  <1> QED
    BY <1>2, <1>3, <1>4, <1>5, EffectIsLawful

(* The one handler that writes without moving the row. *)
LEMMA CompleteQcAnalysisStep ==
    ASSUME SeqInv, CompleteQcAnalysis(row)
    PROVE  Lawful
  <1> DEFINE n == row.revision + 1
  <1>1. row \in Row /\ n \in Nat
    BY DEF SeqInv, TruckTypeOK, Row
  <1>2. row' = [row EXCEPT !.qcAnalysisCompleted = TRUE, !.revision = n]
    BY DEF CompleteQcAnalysis
  <1> HIDE DEF n
  <1>3. /\ row' \in Row /\ row'.revision = n
        /\ row'.status = row.status /\ row'.isVoided = row.isVoided
        /\ row'.gross = row.gross /\ row'.tare = row.tare /\ row'.net = row.net
    BY <1>1, <1>2 DEF Row
  <1>4. records' = records /\ history' = history
    BY DEF CompleteQcAnalysis
  <1>5. TruckTypeOK' /\ HistoryMatchesStatus' /\ VoidedIsCancelled'
    BY <1>3, <1>4 DEF SeqInv, TruckTypeOK, HistoryMatchesStatus, VoidedIsCancelled
  <1>6. CurrentIsNewest' /\ NothingAheadOfStatus' /\ SettledWeights'
    BY <1>3, <1>4 DEF SeqInv, CurrentIsNewest, NothingAheadOfStatus, SettledWeights, Free
  <1> QED
    BY <1>3, <1>4, <1>5, <1>6 DEF Lawful, SeqInv, VoidedIsCancelled, n

(* A process ended here was opened by startWarehouse, or is created finished. *)
LEMMA CompleteWarehouseStep ==
    ASSUME SeqInv, Accepts("completeWarehouse", row, records), CompleteWarehouse(row)
    PROVE  Lawful
  <1> DEFINE new == AfterWarehouse(row.processType)
             t == [row EXCEPT !.warehouseEnded = TRUE]
  <1>1. MoveTo(row, new, t)
    BY DEF CompleteWarehouse
  <1>2. row \in Row /\ TruckTypeOK /\ "WAREHOUSE" \in Kinds /\ "ENDED" \in Outcome
    BY DEF SeqInv, TruckTypeOK, Kinds, Outcome
  <1>3. t \in Row /\ t.revision = row.revision /\ t.isVoided = row.isVoided
    BY <1>2 DEF Row
  <1>4. new \in Status /\ new \notin Away
    BY DEF AfterWarehouse, Status, Away
  <1>5. Ahead(new) \subseteq Ahead(row.status) \ {"WAREHOUSE"}
    BY DEF AfterWarehouse, Accepts, MayCompleteWarehouse, Ahead
  <1> HIDE DEF new, t
  <1>6. Effect(new, {"WAREHOUSE"})
    <2>1. CASE records' = [records EXCEPT !["WAREHOUSE"].outcome = "ENDED"]
      <3>1. /\ records' \in [Kinds -> Record]
            /\ \A k \in Kinds \ {"WAREHOUSE"} : records'[k] = records[k]
            /\ records'["WAREHOUSE"].current = records["WAREHOUSE"].current
            /\ records'["WAREHOUSE"].newest = records["WAREHOUSE"].newest
        BY <1>2, <2>1 DEF TruckTypeOK, Record
      <3>2. ~Free(records', "WAREHOUSE") =>
                records'["WAREHOUSE"].current = records'["WAREHOUSE"].newest
        BY <1>2, <3>1 DEF SeqInv, CurrentIsNewest, Free
      <3> QED
        BY <1>1, <1>2, <1>3, <1>4, <3>1, <3>2, MoveEffect
    <2>2. CASE records' = NewRecord(records, "WAREHOUSE", "ENDED", 0)
      BY <1>1, <1>2, <1>3, <1>4, <2>2, MoveAndRecordEffect
    <2> QED
      BY <2>1, <2>2 DEF CompleteWarehouse
  <1>7. SettledWeights'
    BY <1>4, <1>6 DEF Effect, SettledWeights, Away
  <1> QED
    BY <1>2, <1>4, <1>5, <1>6, <1>7, EffectIsLawful

(* Both services' incoming material checks, from any status they start in. *)
LEMMA IncomingVerdictStep ==
    ASSUME SeqInv, NEW verdict \in {"PASS", "REJECT"},
           row.status \in {"WAREHOUSE_IN_PROGRESS", "INCOMING_CHECK_PENDING",
                           "INCOMING_CHECK_IN_PROGRESS"},
           MoveTo(row, IncomingStatus(verdict), row),
           records' = NewRecord(records, "INCOMING", verdict, 0)
    PROVE  Lawful
  <1> DEFINE new == IncomingStatus(verdict)
  <1>1. new \in Status /\ new \notin Away
    BY DEF Status, IncomingStatus, Away
  <1>2. Ahead(new) \subseteq Ahead(row.status) \ {"INCOMING"}
    BY DEF Ahead, IncomingStatus
  <1>3. verdict \in Outcome /\ "INCOMING" \in Kinds /\ row \in Row /\ TruckTypeOK
    BY DEF Outcome, Kinds, SeqInv, TruckTypeOK
  <1> HIDE DEF new
  <1>4. Effect(new, {"INCOMING"})
    BY <1>1, <1>3, MoveAndRecordEffect DEF new
  <1>5. SettledWeights'
    BY <1>1, <1>4 DEF Effect, SettledWeights, Away
  <1> QED
    BY <1>1, <1>2, <1>3, <1>4, <1>5, EffectIsLawful

(* QcService.submitIncomingCheck, by its pre-check's process types and statuses. *)
LEMMA IncomingCheckStep ==
    ASSUME SeqInv, Accepts("incomingCheck", row, records), IncomingCheck(row)
    PROVE  Lawful
  <1>1. row.status \in {"INCOMING_CHECK_PENDING", "INCOMING_CHECK_IN_PROGRESS"}
    BY DEF Accepts, MayCheckIncoming
  <1> QED
    BY <1>1, IncomingVerdictStep DEF IncomingCheck

(* WarehouseService.submitIncomingCheck: its rejection from the warehouse is not
   lawful, and the table refuses it. *)
LEMMA WarehouseIncomingCheckStep ==
    ASSUME SeqInv, Accepts("warehouseIncomingCheck", row, records),
           WarehouseIncomingCheck(row)
    PROVE  Lawful
  <1>1. row.status \in {"INCOMING_CHECK_PENDING", "WAREHOUSE_IN_PROGRESS"}
    BY DEF Accepts, WarehouseMayCheckIncoming
  <1> QED
    BY <1>1, IncomingVerdictStep DEF WarehouseIncomingCheck

(* The weights of a truck that leaves the scale are settled there. *)
LEMMA WeighOutStep ==
    ASSUME SeqInv, Accepts("weighOut", row, records), WeighOut(row)
    PROVE  Lawful
  <1> DEFINE first == FirstWeight(row, records)
  <1>1. PICK w \in Weights :
            /\ MoveTo(row, "WEIGH_OUT_DONE",
                      LET g == IF row.processType \in Inbound THEN first ELSE w
                          a == IF row.processType \in Inbound THEN w ELSE first
                      IN [row EXCEPT !.gross = g, !.tare = a, !.net = NetOfRejected(g, a)])
            /\ records' = NewRecord(records, "OUT", "WEIGHED", w)
    BY DEF WeighOut
  <1> DEFINE g == IF row.processType \in Inbound THEN first ELSE w
             a == IF row.processType \in Inbound THEN w ELSE first
             n == NetOfRejected(g, a)
  <1>2. /\ "WEIGH_OUT_DONE" \in Status /\ "OUT" \in Kinds /\ "WEIGHED" \in Outcome
        /\ row \in Row /\ TruckTypeOK
    BY DEF Status, Kinds, Outcome, SeqInv, TruckTypeOK
  <1>3. w \in Nat /\ w # 0 /\ first \in Nat /\ first # 0
    BY <1>2, ConstantsAssumption, FirstWeightType DEF Accepts, MayWeighOut
  <1>4. /\ g \in Nat /\ g # 0 /\ a \in Nat /\ a # 0
        /\ n \in Nat
        /\ n = IF a < g THEN g - a ELSE 0
    BY <1>3 DEF NetOfRejected
  <1> DEFINE t == Scaled(row, g, a, n)
  <1>5. MoveTo(row, "WEIGH_OUT_DONE", t)
    BY <1>1 DEF Scaled
  <1> HIDE DEF first, g, a, n, t
  <1>6. /\ t \in Row /\ t.revision = row.revision /\ t.isVoided = row.isVoided
        /\ t.gross = g /\ t.tare = a /\ t.net = n
    <2>1. row \in Row /\ g \in Nat /\ a \in Nat /\ n \in Nat
      BY <1>2, <1>4
    <2>2. Scaled(row, g, a, n) \in Row
      BY <2>1, ScaledRow
    <2>3. t \in Row
      BY <2>2 DEF t
    <2> QED
      BY <2>1, ScaledRow DEF t
  <1>7. Effect("WEIGH_OUT_DONE", {"OUT"})
    BY <1>1, <1>2, <1>3, <1>5, <1>6, MoveAndRecordEffect
  <1>8. Ahead("WEIGH_OUT_DONE") \subseteq Ahead(row.status) \ {"OUT"}
    BY DEF Ahead
  <1>9. SettledWeights'
    <2>1. row'.gross = t.gross /\ row'.tare = t.tare /\ row'.net = t.net
      BY <1>2, <1>5, <1>6, MoveToFacts
    <2>2. records'["OUT"].current = records["OUT"].newest + 1
      BY <1>1, <1>2, <1>3, NewRecordFacts
    <2>3. records["OUT"].newest + 1 # 0
      BY <1>2 DEF TruckTypeOK, Record
    <2> QED
      BY <1>4, <1>6, <2>1, <2>2, <2>3 DEF SettledWeights, Free
  <1> QED
    BY <1>2, <1>7, <1>8, <1>9, EffectIsLawful

(* checkOut only closes what weigh-out has settled. *)
LEMMA CheckOutStep ==
    ASSUME SeqInv, CheckOut(row)
    PROVE  Lawful
  <1>1. /\ row.status = "WEIGH_OUT_DONE" /\ records' = records
        /\ MoveTo(row, "COMPLETED", row)
    BY DEF CheckOut
  <1>2. "COMPLETED" \in Status /\ row \in Row /\ TruckTypeOK
    BY DEF Status, SeqInv, TruckTypeOK
  <1>3. Effect("COMPLETED", {})
    BY <1>1, <1>2, MoveOnlyEffect
  <1>4. Ahead("COMPLETED") \subseteq Ahead(row.status) \ {}
    BY DEF Ahead
  <1>5. row'.gross = row.gross /\ row'.tare = row.tare /\ row'.net = row.net
    BY <1>1, <1>2, MoveToFacts
  <1>6. SettledWeights'
    BY <1>1, <1>5 DEF SeqInv, SettledWeights, Free
  <1> QED
    BY <1>2, <1>3, <1>4, <1>6, EffectIsLawful

(* Every open status may be cancelled by the table: both cancels are one. *)
LEMMA CancelledStep ==
    ASSUME SeqInv, MoveTo(row, "CANCELLED", row), records' = records
    PROVE  Lawful
  <1>1. "CANCELLED" \in Status /\ TruckTypeOK
    BY DEF Status, SeqInv
  <1>2. Effect("CANCELLED", {})
    BY <1>1, MoveOnlyEffect
  <1>3. Ahead("CANCELLED") \subseteq Ahead(row.status) \ {}
    BY DEF Ahead
  <1>4. SettledWeights'
    BY <1>2 DEF Effect, SettledWeights
  <1> QED
    BY <1>1, <1>2, <1>3, <1>4, EffectIsLawful

(* TransactionsService.cancel claims the revision alone, which is enough. *)
LEMMA CancelStep ==
    ASSUME SeqInv, Cancel(row)
    PROVE  Lawful
  <1>1. AssertPasses(row.status, "CANCELLED")
    BY DEF Cancel, AssertPasses, isValidStatusTransition, ValidStatusTransitions, Final
  <1>2. MoveTo(row, "CANCELLED", row) /\ records' = records
    BY <1>1 DEF Cancel, MoveTo, Claimed
  <1> QED
    BY <1>2, CancelledStep

(* A void leaves the status and, for a cancelled transaction, the history. *)
LEMMA VoidStep ==
    ASSUME SeqInv, Void(row, row.revision)
    PROVE  Lawful
  <1> DEFINE n == row.revision + 1
  <1>1. row \in Row /\ n \in Nat /\ "CANCELLED" \in Status
    BY DEF SeqInv, TruckTypeOK, Row, Status
  <1>2. /\ row' = [row EXCEPT !.status = "CANCELLED", !.isVoided = TRUE, !.revision = n]
        /\ row.status # "COMPLETED" /\ ~row.isVoided
        /\ records' = records
        /\ IF row.status # "CANCELLED"
           THEN history' = [old |-> row.status, new |-> "CANCELLED"]
           ELSE history' = history
    BY DEF Void, VoidClaimed, LogMove
  <1> HIDE DEF n
  <1>3. /\ row' \in Row /\ row'.revision = n
        /\ row'.status = "CANCELLED" /\ row'.isVoided
    BY <1>1, <1>2 DEF Row
  <1>4. TruckTypeOK'
    BY <1>1, <1>2, <1>3 DEF SeqInv, TruckTypeOK, Row
  <1>5. HistoryMatchesStatus' /\ (history' # history => history'.old = history.new)
    BY <1>2, <1>3 DEF SeqInv, HistoryMatchesStatus
  <1>6. VoidedIsCancelled' /\ CurrentIsNewest' /\ SettledWeights'
    BY <1>2, <1>3 DEF SeqInv, VoidedIsCancelled, CurrentIsNewest, SettledWeights, Free
  <1>7. NothingAheadOfStatus'
    BY <1>3 DEF NothingAheadOfStatus, Ahead
  <1>8. row'.status # row.status => row'.status \in ValidStatusTransitions(row.status)
    BY <1>2, <1>3 DEF ValidStatusTransitions, Final
  <1> QED
    BY <1>2, <1>3, <1>4, <1>5, <1>6, <1>7, <1>8 DEF Lawful, SeqInv, n

(* The stage matrix leaves nothing ahead of any target it allows. *)
LEMMA StageMatrix ==
    ASSUME NEW p \in ProcessType, NEW target \in ReopenAllowedTargets(p)
    PROVE  /\ target \in Status \ (Final \cup Away)
           /\ Ahead(target) \subseteq Kinds \cap SupersededBy(target)
  <1>1. target \in {"REGISTERED", "QC_VEHICLE_PENDING", "QC_VEHICLE_PASSED",
                    "INCOMING_CHECK_PENDING"}
    BY DEF ReopenAllowedTargets
  <1> QED
    BY <1>1 DEF Ahead, SupersededBy, Kinds, Status, Final, Away

(* A reopen supersedes exactly the records ahead of its target. *)
LEMMA ReopenStep ==
    ASSUME SeqInv, NEW asked, Reopen(asked)
    PROVE  Lawful
  <1> DEFINE target == EffectiveTarget(asked)
             n == row.revision + 1
             g == IF target = "REGISTERED" THEN 0 ELSE row.gross
             a == IF target = "REGISTERED" THEN 0 ELSE row.tare
             net == IF target = "REGISTERED" THEN 0
                    ELSE NetAfter(row.gross, row.tare, row.net)
             b == target = "INCOMING_CHECK_PENDING" /\ row.warehouseEnded
  <1>1. row \in Row /\ TruckTypeOK
    BY DEF SeqInv, TruckTypeOK
  <1>2. /\ row.status \in Final /\ ~row.isVoided
        /\ target \in ReopenAllowedTargets(row.processType)
        /\ WeightsAgree(row.gross, row.tare)
        /\ records' = Supersede(records, SupersededBy(target))
        /\ history' = [old |-> row.status, new |-> target]
    BY DEF Reopen, MayReopen, LogMove
  <1>3. /\ target \in Status \ (Final \cup Away)
        /\ Ahead(target) \subseteq Kinds \cap SupersededBy(target)
    BY <1>1, <1>2, StageMatrix DEF Row
  <1>4. n \in Nat /\ g \in Nat /\ a \in Nat /\ net \in Nat /\ b \in BOOLEAN
    BY <1>1, <1>2 DEF Row, NetAfter, WeightsAgree
  <1>5. row' = [row EXCEPT !.status = target, !.revision = n, !.gross = g, !.tare = a,
                           !.net = net, !.qcAnalysisCompleted = FALSE,
                           !.warehouseEnded = b]
    BY DEF Reopen
  <1> HIDE DEF target, n, g, a, net, b
  <1>6. /\ row' \in Row /\ row'.status = target /\ row'.revision = n
        /\ row'.isVoided = row.isVoided
    BY <1>1, <1>3, <1>4, <1>5 DEF Row
  <1>7. /\ records' \in [Kinds -> Record]
        /\ \A k \in Kinds \ SupersededBy(target) : records'[k] = records[k]
        /\ \A k \in Kinds \cap SupersededBy(target) : records'[k].current = 0
    BY <1>1, <1>2, SupersedeFacts
  <1>8. TruckTypeOK'
    BY <1>1, <1>2, <1>3, <1>6, <1>7 DEF TruckTypeOK, Row
  <1>9. HistoryMatchesStatus' /\ history'.old = history.new
    BY <1>2, <1>6 DEF SeqInv, HistoryMatchesStatus
  <1>10. VoidedIsCancelled' /\ SettledWeights'
    BY <1>2, <1>3, <1>6 DEF VoidedIsCancelled, SettledWeights, Away
  <1>11. CurrentIsNewest'
    BY <1>7 DEF SeqInv, CurrentIsNewest, Free
  <1>12. NothingAheadOfStatus'
    BY <1>3, <1>6, <1>7 DEF NothingAheadOfStatus, Free
  <1> QED
    BY <1>2, <1>6, <1>8, <1>9, <1>10, <1>11, <1>12 DEF Lawful, SeqInv, n

(* A correction keeps the row's status, takes one revision, and recomputes the
   net; it may replace a known weight, never forget one. *)
LEMMA CorrectionIsLawful ==
    ASSUME SeqInv, row.status \in Final,
           NEW g \in Nat, NEW t \in Nat, WeightsAgree(g, t),
           row.gross # 0 => g # 0, row.tare # 0 => t # 0,
           row' \in Row, row'.status = row.status, row'.revision = row.revision + 1,
           row'.isVoided = row.isVoided, row'.gross = g, row'.tare = t,
           row'.net = IF g # 0 /\ t # 0 THEN g - t ELSE row.net,
           records' \in [Kinds -> Record], CurrentIsNewest',
           ~Free(records, "OUT") => ~Free(records', "OUT"),
           history' = history
    PROVE  Lawful
  <1>1. TruckTypeOK' /\ HistoryMatchesStatus' /\ VoidedIsCancelled'
    BY DEF SeqInv, TruckTypeOK, HistoryMatchesStatus, VoidedIsCancelled
  <1>2. NothingAheadOfStatus'
    BY DEF NothingAheadOfStatus, Ahead, Final
  <1>3. SettledWeights'
    BY DEF SeqInv, SettledWeights, WeightsAgree
  <1> QED
    BY <1>1, <1>2, <1>3 DEF Lawful, SeqInv, VoidedIsCancelled

(* Corrections of the row's own weights. *)
LEMMA CorrectRowStep ==
    ASSUME SeqInv, CorrectRow
    PROVE  Lawful
  <1>1. PICK g \in Weights \cup {row.gross}, t \in Weights \cup {row.tare} :
            WeightsAgree(g, t) /\ row' = Reweighed(g, t)
    BY DEF CorrectRow
  <1>2. TruckTypeOK /\ row \in Row /\ row.status \in Final
    BY DEF SeqInv, TruckTypeOK, CorrectRow, MayCorrect
  <1>3. /\ g \in Nat /\ t \in Nat
        /\ (row.gross # 0 => g # 0) /\ (row.tare # 0 => t # 0)
    BY <1>2, ConstantsAssumption DEF Row
  <1>4. records' = records /\ history' = history
    BY DEF CorrectRow
  <1>5. CurrentIsNewest' /\ records' \in [Kinds -> Record]
    BY <1>4 DEF SeqInv, TruckTypeOK, CurrentIsNewest, Free
  <1>6. /\ row' \in Row /\ row'.status = row.status
        /\ row'.revision = row.revision + 1
        /\ row'.isVoided = row.isVoided /\ row'.gross = g /\ row'.tare = t
        /\ row'.net = IF g # 0 /\ t # 0 THEN g - t ELSE row.net
    BY <1>1, <1>2, <1>3, ReweighedFacts
  <1> QED
    BY <1>1, <1>2, <1>3, <1>4, <1>5, <1>6, CorrectionIsLawful DEF Free

(* The next revision of a current record is the newest of its kind. *)
LEMMA CorrectedIsNewest ==
    ASSUME SeqInv, NEW k \in Kinds, NEW o \in Outcome, NEW w \in Nat,
           ~Free(records, k), records' = Corrected(k, o, w)
    PROVE  /\ records' \in [Kinds -> Record]
           /\ CurrentIsNewest'
           /\ ~Free(records, "OUT") => ~Free(records', "OUT")
  <1>1. TruckTypeOK /\ records[k].current = records[k].newest /\ "OUT" \in Kinds
    BY DEF SeqInv, CurrentIsNewest, Kinds
  <1>2. /\ records' \in [Kinds -> Record]
        /\ \A j \in Kinds \ {k} : records'[j] = records[j]
        /\ records'[k].current = records[k].current + 1
        /\ records'[k].newest = IF records[k].newest < records[k].current + 1
                                THEN records[k].current + 1 ELSE records[k].newest
    BY <1>1, CorrectedFacts
  <1>3. records[k].current \in Nat /\ records[k].newest \in Nat
    BY <1>1 DEF TruckTypeOK, Record
  <1>4. records'[k].current = records'[k].newest /\ records'[k].current # 0
    BY <1>1, <1>2, <1>3
  <1> QED
    BY <1>1, <1>2, <1>4 DEF SeqInv, CurrentIsNewest, Free

(* Corrections of a ticket, which the row follows. *)
LEMMA CorrectTicketStep ==
    ASSUME SeqInv, NEW k \in Tickets, CorrectTicket(k)
    PROVE  Lawful
  <1> DEFINE isGross == (row.processType \in Inbound) <=> (k = "IN")
  <1>1. PICK w \in Weights :
            LET g == IF isGross THEN w ELSE row.gross
                t == IF isGross THEN row.tare ELSE w
            IN  /\ WeightsAgree(g, t) /\ row' = Reweighed(g, t)
                /\ records' = Corrected(k, "WEIGHED", w)
    BY DEF CorrectTicket
  <1> DEFINE g == IF isGross THEN w ELSE row.gross
             t == IF isGross THEN row.tare ELSE w
  <1>2. /\ TruckTypeOK /\ row \in Row /\ row.status \in Final /\ k \in Kinds
        /\ ~Free(records, k) /\ history' = history /\ "WEIGHED" \in Outcome
    BY DEF SeqInv, TruckTypeOK, CorrectTicket, MayCorrect, Tickets, Kinds, Outcome
  <1>3. /\ w \in Nat /\ g \in Nat /\ t \in Nat
        /\ (row.gross # 0 => g # 0) /\ (row.tare # 0 => t # 0)
    BY <1>2, ConstantsAssumption DEF Row
  <1>4. /\ WeightsAgree(g, t) /\ row' = Reweighed(g, t)
        /\ records' = Corrected(k, "WEIGHED", w)
    BY <1>1
  <1> HIDE DEF isGross, g, t
  <1>5. /\ records' \in [Kinds -> Record] /\ CurrentIsNewest'
        /\ (~Free(records, "OUT") => ~Free(records', "OUT"))
    BY <1>2, <1>3, <1>4, CorrectedIsNewest
  <1>6. /\ row' \in Row /\ row'.status = row.status
        /\ row'.revision = row.revision + 1
        /\ row'.isVoided = row.isVoided /\ row'.gross = g /\ row'.tare = t
        /\ row'.net = IF g # 0 /\ t # 0 THEN g - t ELSE row.net
    BY <1>2, <1>3, <1>4, ReweighedFacts
  <1> QED
    BY <1>2, <1>3, <1>4, <1>5, <1>6, CorrectionIsLawful

(* Corrections of any other field of a record. *)
LEMMA CorrectRecordStep ==
    ASSUME SeqInv, NEW k \in Kinds, CorrectRecord(k)
    PROVE  Lawful
  <1>1. PICK o \in {records[k].outcome} \cup CorrectedOutcomes(k) :
            /\ records' = Corrected(k, o, records[k].weight)
            /\ row' = [Reweighed(row.gross, row.tare) EXCEPT
                        !.warehouseEnded = @ \/ (k = "WAREHOUSE" /\ o = "ENDED")]
    BY DEF CorrectRecord
  <1>2. /\ TruckTypeOK /\ row \in Row /\ row.status \in Final
        /\ ~Free(records, k) /\ history' = history
        /\ WeightsAgree(row.gross, row.tare)
    BY DEF SeqInv, TruckTypeOK, CorrectRecord, MayCorrect
  <1>3. /\ o \in Outcome /\ records[k].weight \in Nat
        /\ row.gross \in Nat /\ row.tare \in Nat
    BY <1>2 DEF TruckTypeOK, Row, Record, Outcome, CorrectedOutcomes
  <1>4. /\ records' \in [Kinds -> Record] /\ CurrentIsNewest'
        /\ (~Free(records, "OUT") => ~Free(records', "OUT"))
    BY <1>1, <1>2, <1>3, CorrectedIsNewest
  <1> DEFINE u == Reweighed(row.gross, row.tare)
             b == u.warehouseEnded \/ (k = "WAREHOUSE" /\ o = "ENDED")
  <1>5. /\ u \in Row /\ u.status = row.status /\ u.revision = row.revision + 1
        /\ u.isVoided = row.isVoided /\ u.gross = row.gross /\ u.tare = row.tare
        /\ u.net = IF row.gross # 0 /\ row.tare # 0
                   THEN row.gross - row.tare ELSE row.net
    BY <1>2, <1>3, ReweighedFacts
  <1>6. row' = [u EXCEPT !.warehouseEnded = b]
    BY <1>1
  <1>7. b \in BOOLEAN
    BY <1>5 DEF Row
  <1> HIDE DEF u, b
  <1>8. /\ row' \in Row /\ row'.status = u.status /\ row'.revision = u.revision
        /\ row'.isVoided = u.isVoided /\ row'.gross = u.gross
        /\ row'.tare = u.tare /\ row'.net = u.net
    BY <1>5, <1>6, <1>7 DEF Row
  <1> QED
    BY <1>2, <1>3, <1>4, <1>5, <1>8, CorrectionIsLawful
-----------------------------------------------------------------------------
(* The invariant is inductive. *)
LEMMA InitInv == SeqInit => SeqInv
  <1> SUFFICES ASSUME SeqInit PROVE SeqInv
    OBVIOUS
  <1>1. PICK p \in ProcessTypes : row = NewRow(p)
    BY DEF SeqInit
  <1>2. p \in ProcessType
    BY ConstantsAssumption
  <1>3. row \in Row /\ row.status = "REGISTERED" /\ ~row.isVoided
    BY <1>1, <1>2 DEF NewRow, Row, Status
  <1>4. /\ records \in [Kinds -> Record]
        /\ \A k \in Kinds : records[k].current = 0
    BY DEF SeqInit, Record, Outcome
  <1>5. history = [old |-> "NONE", new |-> "REGISTERED"]
    BY DEF SeqInit
  <1>6. TruckTypeOK
    BY <1>3, <1>4, <1>5 DEF TruckTypeOK, Status
  <1>7. HistoryMatchesStatus /\ VoidedIsCancelled /\ SettledWeights
    BY <1>3, <1>5 DEF HistoryMatchesStatus, VoidedIsCancelled, SettledWeights
  <1>8. CurrentIsNewest /\ NothingAheadOfStatus
    BY <1>3, <1>4 DEF CurrentIsNewest, NothingAheadOfStatus, Ahead, Free
  <1> QED
    BY <1>6, <1>7, <1>8 DEF SeqInv

(* Whatever a station or an administrator does, it does lawfully. *)
LEMMA StepIsLawful ==
    ASSUME SeqInv, SeqNext
    PROVE  Lawful
  <1>1. CASE \E op \in Operation :
                Accepts(op, row, records) /\ Handle(op, row, row.revision)
    <2>1. PICK op \in Operation :
                Accepts(op, row, records) /\ Handle(op, row, row.revision)
      BY <1>1
    <2>2. CASE op = "weighIn" /\ WeighIn(row)
      BY <2>1, <2>2, WeighInStep
    <2>3. CASE op = "startQc" /\ StartQc(row)
      BY <2>1, <2>3, StartQcStep
    <2>4. CASE op = "vehicleCheck" /\ VehicleCheck(row)
      BY <2>1, <2>4, VehicleCheckStep
    <2>5. CASE op = "startWarehouse" /\ StartWarehouse(row)
      BY <2>1, <2>5, StartWarehouseStep
    <2>6. CASE op = "completeQcAnalysis" /\ CompleteQcAnalysis(row)
      BY <2>6, CompleteQcAnalysisStep
    <2>7. CASE op = "completeWarehouse" /\ CompleteWarehouse(row)
      BY <2>1, <2>7, CompleteWarehouseStep
    <2>8. CASE op = "incomingCheck" /\ IncomingCheck(row)
      BY <2>1, <2>8, IncomingCheckStep
    <2>9. CASE op = "warehouseIncomingCheck" /\ WarehouseIncomingCheck(row)
      BY <2>1, <2>9, WarehouseIncomingCheckStep
    <2>10. CASE op = "weighOut" /\ WeighOut(row)
      BY <2>1, <2>10, WeighOutStep
    <2>11. CASE op = "checkOut" /\ CheckOut(row)
      BY <2>11, CheckOutStep
    <2>12. CASE op = "gateCancel" /\ GateCancel(row)
      BY <2>12, CancelledStep DEF GateCancel
    <2>13. CASE op = "cancel" /\ Cancel(row)
      BY <2>13, CancelStep
    <2>14. CASE op = "void" /\ Void(row, row.revision)
      BY <2>14, VoidStep
    <2> QED
      BY <2>1, <2>2, <2>3, <2>4, <2>5, <2>6, <2>7, <2>8, <2>9, <2>10, <2>11, <2>12,
         <2>13, <2>14 DEF Handle
  <1>2. CASE Administer
    <2>1. ASSUME NEW asked \in ReopenRequests, Reopen(asked) PROVE Lawful
      BY <2>1, ReopenStep
    <2> QED
      BY <1>2, <2>1, CorrectRowStep, CorrectTicketStep, CorrectRecordStep DEF Administer
  <1> QED
    BY <1>1, <1>2 DEF SeqNext

(* Nothing changes when nothing happens. *)
LEMMA StutterKeepsInv ==
    ASSUME SeqInv, UNCHANGED truck
    PROVE  SeqInv'
  BY DEF SeqInv, truck, TruckTypeOK, HistoryMatchesStatus, VoidedIsCancelled,
         CurrentIsNewest, NothingAheadOfStatus, SettledWeights, Free

(* All invariants of one station at a time, together. *)
THEOREM SequentialInvariant == SeqSpec => []SeqInv
  <1>1. SeqInv /\ [SeqNext]_truck => SeqInv'
    BY StepIsLawful, StutterKeepsInv DEF Lawful
  <1> QED
    BY <1>1, InitInv, PTL DEF SeqSpec

(* No handler leaves the types: a net weight is never negative. *)
THEOREM SequentialType == SeqSpec => []TruckTypeOK
  BY SequentialInvariant, PTL DEF SeqInv

(* The action properties of one station at a time. *)
THEOREM SequentialSteps ==
    SeqSpec => /\ EveryWriteTakesARevision
               /\ HistoryChained
               /\ StatusMovesByTable
               /\ VoidIsForever
  <1>1. SeqInv /\ [SeqNext]_truck =>
            /\ [truck' # truck => row'.revision = row.revision + 1]_truck
            /\ [history' # history => history'.old = history.new]_truck
            /\ [row'.status # row.status =>
                    \/ row'.status \in ValidStatusTransitions(row.status)
                    \/ /\ row.status \in Final /\ ~row.isVoided
                       /\ row'.status \in ReopenAllowedTargets(row.processType)]_truck
            /\ [row.isVoided => row'.isVoided /\ row'.status = "CANCELLED"]_truck
    BY StepIsLawful DEF Lawful
  <1> QED
    BY <1>1, SequentialInvariant, PTL
       DEF SeqSpec, EveryWriteTakesARevision, HistoryChained, StatusMovesByTable,
           VoidIsForever

-----------------------------------------------------------------------------
(* A truck that has behind it what its status needs: its records are those the
   status claims, and some station accepts it.  The invariant adds what the way
   through the plant alone tells of the row. *)
Underway ==
    /\ ChildrenMatchStatus
    /\ row.status # "WEIGH_IN_DONE"
    /\ row.status \in {"REGISTERED", "QC_VEHICLE_PENDING", "QC_VEHICLE_IN_PROGRESS",
                       "QC_VEHICLE_PASSED", "WAREHOUSE_IN_PROGRESS"} => ~row.warehouseEnded
    /\ row.status \in {"INCOMING_CHECK_PENDING", "INCOMING_CHECK_IN_PROGRESS",
                       "INCOMING_CHECK_PASSED", "INCOMING_CHECK_REJECTED"} =>
           row.processType \in Inbound

(* What a claimed move writes into the columns this invariant speaks of. *)
LEMMA MovedColumns ==
    ASSUME TruckTypeOK, NEW new \in Status, NEW t \in Row, MoveTo(row, new, t)
    PROVE  /\ row'.status = new
           /\ row'.processType = t.processType
           /\ row'.gross = t.gross /\ row'.tare = t.tare
           /\ row'.warehouseEnded = t.warehouseEnded
           /\ AssertPasses(row.status, new)
  BY DEF MoveTo, Row

(* The first weight stays known while row and ticket are left alone. *)
LEMMA StaysWeighed ==
    ASSUME Weighed, records'["IN"] = records["IN"],
           row'.processType = row.processType,
           row'.gross = row.gross, row'.tare = row.tare
    PROVE  Weighed'
  BY DEF Weighed, Free, FirstWeight

(* A station that moves the row alone. *)
LEMMA MoveOnlyUnderway ==
    ASSUME TruckTypeOK, Underway, NEW new \in Status,
           MoveTo(row, new, row), records' = records,
           \/ row.status = "QC_VEHICLE_PENDING" /\ new = "QC_VEHICLE_IN_PROGRESS"
           \/ row.status = "INCOMING_CHECK_PENDING" /\ new = "INCOMING_CHECK_IN_PROGRESS"
           \/ new \in Final
    PROVE  Underway'
  <1>1. row \in Row
    BY DEF TruckTypeOK
  <1>2. /\ row'.status = new /\ row'.processType = row.processType
        /\ row'.gross = row.gross /\ row'.tare = row.tare
        /\ row'.warehouseEnded = row.warehouseEnded
    BY <1>1, MovedColumns
  <1>3. CASE new \in Final
    BY <1>2, <1>3 DEF Underway, ChildrenMatchStatus, Final
  <1>4. CASE new \notin Final
    <2>1. Weighed
      BY <1>4 DEF Underway, ChildrenMatchStatus, Final
    <2>2. Weighed'
      BY <1>2, <2>1, StaysWeighed
    <2> QED
      BY <1>2, <1>4, <2>2
         DEF Underway, ChildrenMatchStatus, VehiclePassed, Unloaded, IncomingIs, Final
  <1> QED
    BY <1>3, <1>4

(* A station that writes the next record of a kind after the first ticket. *)
LEMMA RecordedWeighed ==
    ASSUME TruckTypeOK, Underway, row.status \notin Final \cup {"REGISTERED"},
           NEW new \in Status, NEW t \in Row, MoveTo(row, new, t),
           t.processType = row.processType, t.gross = row.gross, t.tare = row.tare,
           NEW k \in Kinds \ {"IN"}, NEW o \in Outcome,
           records' = NewRecord(records, k, o, 0)
    PROVE  /\ Weighed'
           /\ records'[k].outcome = o
           /\ \A j \in Kinds \ {k} : records'[j] = records[j]
           /\ row'.status = new /\ row'.processType = row.processType
           /\ row'.warehouseEnded = t.warehouseEnded
           /\ AssertPasses(row.status, new)
  <1>1. /\ \A j \in Kinds \ {k} : records'[j] = records[j]
        /\ records'[k].outcome = o
    BY NewRecordFacts
  <1>2. "IN" \in Kinds \ {k}
    BY DEF Kinds
  <1>3. /\ row'.status = new /\ row'.processType = t.processType
        /\ row'.gross = t.gross /\ row'.tare = t.tare
        /\ row'.warehouseEnded = t.warehouseEnded
        /\ AssertPasses(row.status, new)
    BY MovedColumns
  <1>4. Weighed'
    BY <1>1, <1>2, <1>3, StaysWeighed DEF Underway, ChildrenMatchStatus
  <1> QED
    BY <1>1, <1>3, <1>4

LEMMA WeighInUnderway ==
    ASSUME SeqInv, Underway, Accepts("weighIn", row, records), WeighIn(row)
    PROVE  Underway'
  <1>1. PICK w \in Weights :
            /\ records' = NewRecord(records, "IN", "WEIGHED", w)
            /\ MoveTo(row, "QC_VEHICLE_PENDING",
                      IF row.processType \in Inbound
                      THEN [row EXCEPT !.gross = w] ELSE [row EXCEPT !.tare = w])
    BY DEF WeighIn
  <1>2. w \in Nat \ {0} /\ row \in Row /\ TruckTypeOK
    BY ConstantsAssumption DEF SeqInv, TruckTypeOK
  <1> DEFINE t == IF row.processType \in Inbound
                  THEN [row EXCEPT !.gross = w] ELSE [row EXCEPT !.tare = w]
  <1>3. /\ t \in Row /\ t.processType = row.processType
        /\ t.warehouseEnded = row.warehouseEnded
        /\ IF row.processType \in Inbound THEN t.gross = w ELSE t.tare = w
    BY <1>2 DEF Row
  <1>4. "QC_VEHICLE_PENDING" \in Status /\ "IN" \in Kinds /\ "WEIGHED" \in Outcome
    BY DEF Status, Kinds, Outcome
  <1>5. MoveTo(row, "QC_VEHICLE_PENDING", t)
    BY <1>1
  <1> HIDE DEF t
  <1>6. /\ row'.status = "QC_VEHICLE_PENDING" /\ row'.processType = row.processType
        /\ row'.gross = t.gross /\ row'.tare = t.tare
        /\ row'.warehouseEnded = row.warehouseEnded
    BY <1>2, <1>3, <1>4, <1>5, MovedColumns
  <1>7. records'["IN"].current = records["IN"].newest + 1 /\ records["IN"].newest \in Nat
    BY <1>1, <1>2, <1>4, NewRecordFacts DEF TruckTypeOK, Record
  <1>8. Weighed'
    BY <1>2, <1>3, <1>6, <1>7 DEF Weighed, Free, FirstWeight
  <1>9. row.status = "REGISTERED"
    BY DEF Accepts, MayWeighIn
  <1> QED
    BY <1>6, <1>8, <1>9 DEF Underway, ChildrenMatchStatus

LEMMA StartQcUnderway ==
    ASSUME SeqInv, Underway, Accepts("startQc", row, records), StartQc(row)
    PROVE  Underway'
  <1> DEFINE new == IF row.status = "QC_VEHICLE_PENDING"
                    THEN "QC_VEHICLE_IN_PROGRESS" ELSE "INCOMING_CHECK_IN_PROGRESS"
  <1>1. MoveTo(row, new, row) /\ records' = records /\ TruckTypeOK
    BY DEF StartQc, SeqInv
  <1>2. /\ new \in Status
        /\ \/ row.status = "QC_VEHICLE_PENDING" /\ new = "QC_VEHICLE_IN_PROGRESS"
           \/ row.status = "INCOMING_CHECK_PENDING" /\ new = "INCOMING_CHECK_IN_PROGRESS"
    BY DEF Accepts, MayStartQc, Status
  <1> HIDE DEF new
  <1> QED
    BY <1>1, <1>2, MoveOnlyUnderway

LEMMA VehicleCheckUnderway ==
    ASSUME SeqInv, Underway, Accepts("vehicleCheck", row, records), VehicleCheck(row)
    PROVE  Underway'
  <1>1. PICK verdict \in {"PASS", "REJECT"} :
            /\ MoveTo(row, VehicleStatus(verdict), row)
            /\ records' = NewRecord(records, "QC_VEHICLE", verdict, 0)
    BY DEF VehicleCheck
  <1>2. row.status \in {"QC_VEHICLE_PENDING", "QC_VEHICLE_IN_PROGRESS"}
    BY DEF Accepts, MayCheckVehicle
  <1>3. /\ VehicleStatus(verdict) \in Status /\ verdict \in Outcome
        /\ "QC_VEHICLE" \in Kinds \ {"IN"} /\ row \in Row /\ TruckTypeOK
        /\ row.status \notin Final \cup {"REGISTERED"}
    BY <1>2 DEF VehicleStatus, Status, Outcome, Kinds, SeqInv, TruckTypeOK, Final
  <1>4. /\ Weighed' /\ records'["QC_VEHICLE"].outcome = verdict
        /\ row'.status = VehicleStatus(verdict)
        /\ row'.warehouseEnded = row.warehouseEnded
    BY <1>1, <1>3, RecordedWeighed
  <1> QED
    BY <1>2, <1>4 DEF Underway, ChildrenMatchStatus, VehicleStatus, VehiclePassed

LEMMA StartWarehouseUnderway ==
    ASSUME SeqInv, Underway, Accepts("startWarehouse", row, records), StartWarehouse(row)
    PROVE  Underway'
  <1>1. /\ MoveTo(row, "WAREHOUSE_IN_PROGRESS", row)
        /\ records' = NewRecord(records, "WAREHOUSE", "OPEN", 0)
    BY DEF StartWarehouse
  <1>2. row.status = "QC_VEHICLE_PASSED"
    BY DEF Accepts, MayStartWarehouse
  <1>3. /\ "WAREHOUSE_IN_PROGRESS" \in Status /\ "OPEN" \in Outcome
        /\ "WAREHOUSE" \in Kinds \ {"IN"} /\ "QC_VEHICLE" \in Kinds \ {"WAREHOUSE"}
        /\ row \in Row /\ TruckTypeOK
        /\ row.status \notin Final \cup {"REGISTERED"}
    BY <1>2 DEF Status, Outcome, Kinds, SeqInv, TruckTypeOK, Final
  <1>4. /\ Weighed' /\ records'["WAREHOUSE"].outcome = "OPEN"
        /\ records'["QC_VEHICLE"] = records["QC_VEHICLE"]
        /\ row'.status = "WAREHOUSE_IN_PROGRESS"
        /\ row'.warehouseEnded = row.warehouseEnded
    BY <1>1, <1>3, RecordedWeighed
  <1> QED
    BY <1>2, <1>4 DEF Underway, ChildrenMatchStatus, VehiclePassed

LEMMA CompleteQcAnalysisUnderway ==
    ASSUME SeqInv, Underway, CompleteQcAnalysis(row)
    PROVE  Underway'
  <1>1. /\ row'.status = row.status /\ row'.processType = row.processType
        /\ row'.gross = row.gross /\ row'.tare = row.tare
        /\ row'.warehouseEnded = row.warehouseEnded
        /\ records' = records
    BY DEF CompleteQcAnalysis, SeqInv, TruckTypeOK, Row
  <1>2. Weighed => Weighed'
    BY <1>1, StaysWeighed
  <1> QED
    BY <1>1, <1>2 DEF Underway, ChildrenMatchStatus, VehiclePassed, Unloaded, IncomingIs

LEMMA CompleteWarehouseUnderway ==
    ASSUME SeqInv, Underway,
           Accepts("completeWarehouse", row, records), CompleteWarehouse(row)
    PROVE  Underway'
  <1> DEFINE new == AfterWarehouse(row.processType)
             t == [row EXCEPT !.warehouseEnded = TRUE]
  <1>1. row.status = "WAREHOUSE_IN_PROGRESS"
    BY DEF Accepts, MayCompleteWarehouse
  <1>2. row \in Row /\ TruckTypeOK
    BY DEF SeqInv, TruckTypeOK
  <1>3. /\ t \in Row /\ t.processType = row.processType /\ t.gross = row.gross
        /\ t.tare = row.tare /\ t.warehouseEnded = TRUE
    BY <1>2 DEF Row
  <1>4. records["WAREHOUSE"].outcome = "OPEN" /\ Weighed /\ VehiclePassed
    BY <1>1 DEF Underway, ChildrenMatchStatus, Final
  <1>5. MoveTo(row, new, t) /\ records' = [records EXCEPT !["WAREHOUSE"].outcome = "ENDED"]
    BY <1>4 DEF CompleteWarehouse
  <1>6. /\ new \in {"INCOMING_CHECK_PENDING", "WAREHOUSE_DONE"} /\ new \in Status
        /\ new = "INCOMING_CHECK_PENDING" => row.processType \in Inbound
    BY DEF AfterWarehouse, Status
  <1> HIDE DEF new, t
  <1>7. /\ row'.status = new /\ row'.processType = row.processType
        /\ row'.gross = row.gross /\ row'.tare = row.tare /\ row'.warehouseEnded = TRUE
    BY <1>2, <1>3, <1>5, <1>6, MovedColumns
  <1>8. /\ records'["WAREHOUSE"].outcome = "ENDED"
        /\ records'["IN"] = records["IN"]
        /\ records'["QC_VEHICLE"] = records["QC_VEHICLE"]
    BY <1>2, <1>5 DEF TruckTypeOK, Kinds, Record
  <1>9. Weighed'
    BY <1>4, <1>7, <1>8, StaysWeighed
  <1> QED
    BY <1>4, <1>6, <1>7, <1>8, <1>9
       DEF Underway, ChildrenMatchStatus, VehiclePassed, Unloaded

(* Both incoming checks: of quality control, and of the warehouse, whose rejection
   of a truck still in the warehouse the status table refuses. *)
LEMMA IncomingUnderway ==
    ASSUME SeqInv, Underway, NEW verdict \in {"PASS", "REJECT"},
           MoveTo(row, IncomingStatus(verdict), row),
           records' = NewRecord(records, "INCOMING", verdict, 0),
           row.status \in {"INCOMING_CHECK_PENDING", "INCOMING_CHECK_IN_PROGRESS",
                           "WAREHOUSE_IN_PROGRESS"}
    PROVE  Underway'
  <1>1. /\ IncomingStatus(verdict) \in Status /\ verdict \in Outcome
        /\ "INCOMING" \in Kinds \ {"IN"} /\ row \in Row /\ TruckTypeOK
        /\ {"QC_VEHICLE", "WAREHOUSE"} \subseteq Kinds \ {"INCOMING"}
        /\ row.status \notin Final \cup {"REGISTERED"}
    BY DEF IncomingStatus, Status, Outcome, Kinds, SeqInv, TruckTypeOK, Final
  <1>2. /\ Weighed' /\ records'["INCOMING"].outcome = verdict
        /\ \A j \in Kinds \ {"INCOMING"} : records'[j] = records[j]
        /\ row'.status = IncomingStatus(verdict) /\ row'.processType = row.processType
        /\ row'.warehouseEnded = row.warehouseEnded
        /\ AssertPasses(row.status, IncomingStatus(verdict))
    BY <1>1, RecordedWeighed
  <1>3. row.status # "WAREHOUSE_IN_PROGRESS"
    BY <1>2 DEF AssertPasses, isValidStatusTransition, ValidStatusTransitions, Onward,
                IncomingStatus, Final
  <1>4. VehiclePassed /\ Unloaded /\ row.processType \in Inbound
    BY <1>3 DEF Underway, ChildrenMatchStatus
  <1>5. VehiclePassed' /\ Unloaded'
    BY <1>1, <1>2, <1>4 DEF VehiclePassed, Unloaded
  <1> QED
    BY <1>2, <1>4, <1>5 DEF Underway, ChildrenMatchStatus, IncomingStatus, IncomingIs

LEMMA WeighOutUnderway ==
    ASSUME SeqInv, Underway, Accepts("weighOut", row, records), WeighOut(row)
    PROVE  Underway'
  <1> DEFINE first == FirstWeight(row, records)
             gross(w) == IF row.processType \in Inbound THEN first ELSE w
             tare(w) == IF row.processType \in Inbound THEN w ELSE first
             t(w) == [row EXCEPT !.gross = gross(w), !.tare = tare(w),
                                 !.net = NetOfRejected(gross(w), tare(w))]
  <1>1. PICK w \in Weights :
            /\ MoveTo(row, "WEIGH_OUT_DONE", t(w))
            /\ records' = NewRecord(records, "OUT", "WEIGHED", w)
    BY DEF WeighOut
  <1>2. row \in Row /\ TruckTypeOK /\ w \in Nat /\ first \in Nat /\ first # 0
    BY ConstantsAssumption, FirstWeightType
       DEF SeqInv, TruckTypeOK, Accepts, MayWeighOut
  <1>3. "WEIGH_OUT_DONE" \in Status /\ "OUT" \in Kinds /\ "IN" \in Kinds \ {"OUT"}
        /\ "WEIGHED" \in Outcome
    BY DEF Status, Kinds, Outcome
  <1>4. gross(w) \in Nat /\ tare(w) \in Nat
        /\ NetOfRejected(gross(w), tare(w)) \in Nat
        /\ IF row.processType \in Inbound THEN gross(w) = first ELSE tare(w) = first
    BY <1>2 DEF NetOfRejected
  <1>5. t(w) = Scaled(row, gross(w), tare(w), NetOfRejected(gross(w), tare(w)))
    BY DEF Scaled
  <1>6. ~Free(records, "IN")
    BY DEF Accepts, MayWeighOut, WeighOutStatuses, Underway, ChildrenMatchStatus, Final,
           Weighed
  <1> HIDE DEF first, gross, tare
  <1>7. /\ t(w) \in Row /\ t(w).processType = row.processType
        /\ t(w).gross = gross(w) /\ t(w).tare = tare(w)
    BY <1>2, <1>4, <1>5, ScaledRow
  <1> HIDE DEF t
  <1>8. /\ row'.status = "WEIGH_OUT_DONE" /\ row'.processType = row.processType
        /\ row'.gross = gross(w) /\ row'.tare = tare(w)
    BY <1>1, <1>2, <1>3, <1>7, MovedColumns
  <1>9. records'["IN"] = records["IN"]
    BY <1>1, <1>2, <1>3, NewRecordFacts
  <1>10. Weighed'
    BY <1>2, <1>4, <1>6, <1>8, <1>9 DEF Weighed, Free, FirstWeight
  <1> QED
    BY <1>8, <1>10 DEF Underway, ChildrenMatchStatus

(* Nothing is said of a transaction that has ended. *)
LEMMA FinalUnderway ==
    ASSUME row'.status \in Final
    PROVE  Underway'
  BY DEF Underway, ChildrenMatchStatus, Final

LEMMA CorrectedIsFinal ==
    ASSUME SeqInv, CorrectRow \/ (\E k \in Tickets : CorrectTicket(k))
                   \/ (\E k \in Kinds : CorrectRecord(k))
    PROVE  row'.status \in Final
  <1>1. Lawful /\ row.status \in Final
    BY CorrectRowStep, CorrectTicketStep, CorrectRecordStep
       DEF CorrectRow, CorrectTicket, CorrectRecord, MayCorrect
  <1>2. TruckTypeOK
    BY DEF SeqInv
  <1>3. row.status \in Final
    BY <1>1
  <1>4. history' = history
    BY DEF CorrectRow, CorrectTicket, CorrectRecord
  <1> QED
    BY <1>1, <1>4 DEF Lawful, SeqInv, HistoryMatchesStatus

LEMMA HandleUnderway ==
    ASSUME SeqInv, Underway, NEW op \in Operation,
           Accepts(op, row, records), Handle(op, row, row.revision)
    PROVE  Underway'
  <1>1. CASE op = "weighIn" /\ WeighIn(row)
    BY <1>1, WeighInUnderway
  <1>2. CASE op = "startQc" /\ StartQc(row)
    BY <1>2, StartQcUnderway
  <1>3. CASE op = "vehicleCheck" /\ VehicleCheck(row)
    BY <1>3, VehicleCheckUnderway
  <1>4. CASE op = "startWarehouse" /\ StartWarehouse(row)
    BY <1>4, StartWarehouseUnderway
  <1>5. CASE op = "completeQcAnalysis" /\ CompleteQcAnalysis(row)
    BY <1>5, CompleteQcAnalysisUnderway
  <1>6. CASE op = "completeWarehouse" /\ CompleteWarehouse(row)
    BY <1>6, CompleteWarehouseUnderway
  <1>7. CASE op = "incomingCheck" /\ IncomingCheck(row)
    <2>1. row.status \in {"INCOMING_CHECK_PENDING", "INCOMING_CHECK_IN_PROGRESS"}
      BY <1>7 DEF Accepts, MayCheckIncoming
    <2> QED
      BY <1>7, <2>1, IncomingUnderway DEF IncomingCheck
  <1>8. CASE op = "warehouseIncomingCheck" /\ WarehouseIncomingCheck(row)
    <2>1. row.status \in {"INCOMING_CHECK_PENDING", "WAREHOUSE_IN_PROGRESS"}
      BY <1>8 DEF Accepts, WarehouseMayCheckIncoming
    <2> QED
      BY <1>8, <2>1, IncomingUnderway DEF WarehouseIncomingCheck
  <1>9. CASE op = "weighOut" /\ WeighOut(row)
    BY <1>9, WeighOutUnderway
  <1>10. CASE op = "checkOut" /\ CheckOut(row)
    <2>1. "COMPLETED" \in Status /\ "COMPLETED" \in Final /\ TruckTypeOK
      BY DEF Status, Final, SeqInv
    <2> QED
      BY <1>10, <2>1, MoveOnlyUnderway DEF CheckOut
  <1>11. CASE op = "gateCancel" /\ GateCancel(row)
    <2>1. "CANCELLED" \in Status /\ "CANCELLED" \in Final /\ TruckTypeOK
      BY DEF Status, Final, SeqInv
    <2> QED
      BY <1>11, <2>1, MoveOnlyUnderway DEF GateCancel
  <1>12. CASE \/ op = "cancel" /\ Cancel(row)
              \/ op = "void" /\ Void(row, row.revision)
    <2>1. row'.status = "CANCELLED"
      BY <1>12 DEF Cancel, Void, SeqInv, TruckTypeOK, Row
    <2> QED
      BY <2>1, FinalUnderway DEF Final
  <1> QED
    BY <1>1, <1>2, <1>3, <1>4, <1>5, <1>6, <1>7, <1>8, <1>9, <1>10, <1>11, <1>12
       DEF Handle

(* What a truck must have behind it for a status that a reopen puts it back to, and
   the steps that respect it. *)
GroundFor(status) ==
    CASE status = "REGISTERED" -> TRUE
      [] status = "QC_VEHICLE_PENDING" -> Weighed
      [] status = "QC_VEHICLE_PASSED" -> Weighed /\ VehiclePassed
      [] OTHER -> Weighed /\ VehiclePassed /\ Unloaded

Grounded == row.status \in Final /\ row'.status \notin Final => GroundFor(row'.status)

ReopensOnGround == [][Grounded]_truck

(* What a reopen leaves alone: everything, at the gate; the weights and the records
   of the steps before its target, elsewhere. *)
LEMMA ReopenKeepsWeights ==
    ASSUME TruckTypeOK, NEW asked, Reopen(asked), EffectiveTarget(asked) # "REGISTERED"
    PROVE  row'.gross = row.gross /\ row'.tare = row.tare
  BY DEF Reopen, TruckTypeOK, Row

LEMMA ReopenKeepsRecords ==
    ASSUME NEW asked, Reopen(asked), NEW k \in Kinds,
           k \notin SupersededBy(EffectiveTarget(asked))
    PROVE  records'[k] = records[k]
  BY DEF Reopen, Supersede

LEMMA ReopenColumns ==
    ASSUME TruckTypeOK, NEW asked, Reopen(asked)
    PROVE  /\ row'.status = EffectiveTarget(asked)
           /\ row'.processType = row.processType
           /\ row'.warehouseEnded =
                  (EffectiveTarget(asked) = "INCOMING_CHECK_PENDING" /\ row.warehouseEnded)
           /\ EffectiveTarget(asked) \in {"REGISTERED", "QC_VEHICLE_PENDING",
                                          "QC_VEHICLE_PASSED", "INCOMING_CHECK_PENDING"}
           /\ EffectiveTarget(asked) = "INCOMING_CHECK_PENDING" =>
                  row.processType \in Inbound
           /\ row.status \in Final
  BY DEF Reopen, MayReopen, ReopenAllowedTargets, TruckTypeOK, Row

LEMMA ReopenUnderway ==
    ASSUME SeqInv, Grounded, NEW asked, Reopen(asked)
    PROVE  Underway'
  <1> DEFINE target == EffectiveTarget(asked)
  <1>1. TruckTypeOK
    BY DEF SeqInv
  <1>2. /\ row'.status = target /\ row'.processType = row.processType
        /\ row'.warehouseEnded = (target = "INCOMING_CHECK_PENDING" /\ row.warehouseEnded)
        /\ target \in {"REGISTERED", "QC_VEHICLE_PENDING", "QC_VEHICLE_PASSED",
                       "INCOMING_CHECK_PENDING"}
        /\ target = "INCOMING_CHECK_PENDING" => row.processType \in Inbound
        /\ row.status \in Final
    BY <1>1, ReopenColumns
  <1>3. \A k \in Kinds : k \notin SupersededBy(target) => records'[k] = records[k]
    BY ReopenKeepsRecords
  <1>4. target # "REGISTERED" => row'.gross = row.gross /\ row'.tare = row.tare
    BY <1>1, ReopenKeepsWeights
  <1> HIDE DEF target
  <1>5. GroundFor(target)
    BY <1>2 DEF Grounded, Final
  <1>6. CASE target = "REGISTERED"
    BY <1>2, <1>6 DEF Underway, ChildrenMatchStatus
  <1>7. ASSUME target # "REGISTERED" PROVE Weighed'
    <2>1. Weighed
      BY <1>2, <1>5, <1>7 DEF GroundFor
    <2>2. "IN" \in Kinds /\ "IN" \notin SupersededBy(target)
      BY <1>2, <1>7 DEF Kinds, SupersededBy
    <2> QED
      BY <1>2, <1>3, <1>4, <1>7, <2>1, <2>2, StaysWeighed
  <1>8. CASE target = "QC_VEHICLE_PENDING"
    BY <1>2, <1>7, <1>8 DEF Underway, ChildrenMatchStatus
  <1>9. CASE target = "QC_VEHICLE_PASSED"
    <2>1. "QC_VEHICLE" \in Kinds /\ "QC_VEHICLE" \notin SupersededBy(target)
      BY <1>9 DEF Kinds, SupersededBy
    <2>2. VehiclePassed'
      BY <1>3, <1>5, <1>9, <2>1 DEF GroundFor, VehiclePassed
    <2> QED
      BY <1>2, <1>7, <1>9, <2>2 DEF Underway, ChildrenMatchStatus
  <1>10. CASE target = "INCOMING_CHECK_PENDING"
    <2>1. {"QC_VEHICLE", "WAREHOUSE"} \subseteq Kinds \ SupersededBy(target)
      BY <1>10 DEF Kinds, SupersededBy
    <2>2. VehiclePassed /\ Unloaded
      BY <1>5, <1>10 DEF GroundFor
    <2>3. VehiclePassed' /\ Unloaded'
      BY <1>2, <1>3, <1>10, <2>1, <2>2 DEF VehiclePassed, Unloaded
    <2> QED
      BY <1>2, <1>7, <1>10, <2>3 DEF Underway, ChildrenMatchStatus
  <1> QED
    BY <1>2, <1>6, <1>8, <1>9, <1>10

LEMMA UnderwayInductive ==
    ASSUME SeqInv, Underway, [Grounded]_truck, [SeqNext]_truck
    PROVE  Underway'
  <1>1. ASSUME NEW op \in Operation,
               Accepts(op, row, records), Handle(op, row, row.revision)
        PROVE  Underway'
    BY <1>1, HandleUnderway
  <1>2. CASE UNCHANGED truck
    BY <1>2 DEF truck, Underway, ChildrenMatchStatus, Weighed, Free, FirstWeight,
                VehiclePassed, Unloaded, IncomingIs
  <1>3. CASE Grounded /\ Administer
    BY <1>3, ReopenUnderway, CorrectedIsFinal, FinalUnderway DEF Administer
  <1> QED
    BY <1>1, <1>2, <1>3 DEF SeqNext

(* A station never takes a transaction out of a final status. *)
LEMMA HandleStaysFinal ==
    ASSUME TruckTypeOK, NEW op, Handle(op, row, row.revision), row.status \in Final
    PROVE  row'.status \in Final
  <1>1. ASSUME NEW new, NEW t, MoveTo(row, new, t) PROVE FALSE
    BY <1>1 DEF MoveTo, AssertPasses
  <1>2. CASE CompleteQcAnalysis(row)
    BY <1>2 DEF CompleteQcAnalysis, TruckTypeOK, Row
  <1>3. CASE Cancel(row) \/ Void(row, row.revision)
    BY <1>3 DEF Cancel, Void, TruckTypeOK, Row, Final
  <1> QED
    BY <1>1, <1>2, <1>3
    DEF Handle, WeighIn, StartQc, VehicleCheck, StartWarehouse, CompleteWarehouse,
        IncomingCheck, WarehouseIncomingCheck, WeighOut, CheckOut, GateCancel

(* Reopening to the gate only, or not at all, respects it always. *)
LEMMA GateIsGround ==
    ASSUME ReopenRequests \subseteq {"REGISTERED"}, SeqInv, [SeqNext]_truck
    PROVE  [Grounded]_truck
  <1>1. TruckTypeOK
    BY DEF SeqInv
  <1>2. ASSUME NEW op \in Operation, Handle(op, row, row.revision) PROVE Grounded
    BY <1>1, <1>2, HandleStaysFinal DEF Grounded
  <1>3. ASSUME NEW asked \in ReopenRequests, Reopen(asked) PROVE Grounded
    <2>1. EffectiveTarget(asked) = "REGISTERED"
      BY DEF EffectiveTarget
    <2>2. row'.status = "REGISTERED"
      BY <1>1, <1>3, <2>1, ReopenColumns
    <2> QED
      BY <2>2 DEF Grounded, GroundFor
  <1>4. ASSUME CorrectRow \/ (\E k \in Tickets : CorrectTicket(k))
                          \/ (\E k \in Kinds : CorrectRecord(k))
        PROVE  Grounded
    BY <1>4, CorrectedIsFinal DEF Grounded
  <1> QED
    BY <1>2, <1>3, <1>4 DEF SeqNext, Administer

LEMMA InitUnderway == SeqInit => Underway
  <1> SUFFICES ASSUME SeqInit PROVE Underway
    OBVIOUS
  <1>1. row.status = "REGISTERED" /\ ~row.warehouseEnded
    BY DEF SeqInit, NewRow
  <1> QED
    BY <1>1 DEF Underway, ChildrenMatchStatus

(* Every status that is not final has its station. *)
LEMMA UnderwayIsAccepted ==
    ASSUME SeqInv, Underway
    PROVE  SomeStationAccepts
  <1> DEFINE Stations == Operation \ {"startQc", "completeQcAnalysis",
                                      "warehouseIncomingCheck", "gateCancel", "cancel",
                                      "void"}
  <1> SUFFICES ASSUME row.status \notin Final
               PROVE  \E op \in Stations : Accepts(op, row, records)
    BY DEF SomeStationAccepts
  <1>1. row.status \in Status
    BY DEF SeqInv, TruckTypeOK, Row
  <1>2. {"weighIn", "vehicleCheck", "startWarehouse", "completeWarehouse",
         "incomingCheck", "weighOut", "checkOut"} \subseteq Stations
    BY DEF Operation
  <1> HIDE DEF Stations
  <1>3. CASE row.status = "REGISTERED"
    <2>1. "IN" \in Ahead(row.status)
      BY <1>3 DEF Ahead, Kinds
    <2>2. Accepts("weighIn", row, records)
      BY <1>3, <2>1 DEF SeqInv, NothingAheadOfStatus, Accepts, MayWeighIn
    <2> QED
      BY <1>2, <2>2
  <1>4. CASE row.status \in {"QC_VEHICLE_PENDING", "QC_VEHICLE_IN_PROGRESS"}
    <2>1. "QC_VEHICLE" \in Ahead(row.status)
      BY <1>4 DEF Ahead, Kinds
    <2>2. Accepts("vehicleCheck", row, records)
      BY <1>4, <2>1 DEF SeqInv, NothingAheadOfStatus, Accepts, MayCheckVehicle
    <2> QED
      BY <1>2, <2>2
  <1>5. CASE row.status = "QC_VEHICLE_PASSED"
    <2>1. Accepts("startWarehouse", row, records)
      BY <1>5 DEF Accepts, MayStartWarehouse
    <2> QED
      BY <1>2, <2>1
  <1>6. CASE row.status = "WAREHOUSE_IN_PROGRESS"
    <2>1. Accepts("completeWarehouse", row, records)
      BY <1>6 DEF Underway, Accepts, MayCompleteWarehouse
    <2> QED
      BY <1>2, <2>1
  <1>7. CASE row.status \in {"INCOMING_CHECK_PENDING", "INCOMING_CHECK_IN_PROGRESS"}
    <2>1. "INCOMING" \in Ahead(row.status)
      BY <1>7 DEF Ahead
    <2>2. Accepts("incomingCheck", row, records)
      BY <1>7, <2>1 DEF SeqInv, NothingAheadOfStatus, Underway, Accepts, MayCheckIncoming
    <2> QED
      BY <1>2, <2>2
  <1>8. CASE row.status \in {"QC_VEHICLE_REJECTED", "WAREHOUSE_DONE",
                             "INCOMING_CHECK_PASSED", "INCOMING_CHECK_REJECTED"}
    <2>1. "OUT" \in Ahead(row.status)
      BY <1>8 DEF Ahead
    <2>2. Free(records, "OUT")
      BY <2>1 DEF SeqInv, NothingAheadOfStatus
    <2>3. FirstWeight(row, records) # 0
      BY <1>8 DEF Underway, ChildrenMatchStatus, Weighed, Final
    <2>4. row.status \in WeighOutStatuses(row.processType)
      BY <1>8 DEF Underway, WeighOutStatuses
    <2>5. Accepts("weighOut", row, records)
      BY <2>2, <2>3, <2>4 DEF Accepts, MayWeighOut
    <2> QED
      BY <1>2, <2>5
  <1>9. CASE row.status = "WEIGH_OUT_DONE"
    <2>1. AssertPasses(row.status, "COMPLETED")
      BY <1>9 DEF AssertPasses, isValidStatusTransition, ValidStatusTransitions, Onward,
                  Final
    <2>2. Accepts("checkOut", row, records)
      BY <2>1 DEF Accepts
    <2> QED
      BY <1>2, <2>2
  <1>10. row.status # "WEIGH_IN_DONE"
    BY DEF Underway
  <1> QED
    BY <1>1, <1>3, <1>4, <1>5, <1>6, <1>7, <1>8, <1>9, <1>10 DEF Status, Final

(* correctOperationLog: however often trucks are reopened and corrected, their
   records are those the status claims and a station accepts them, as long as a
   reopen that skips steps finds what those steps leave behind.  The code does not
   look, which is why this is an assumption about the administrators. *)
THEOREM GroundedTrucksMove ==
    SeqSpec /\ ReopensOnGround => [](ChildrenMatchStatus /\ SomeStationAccepts)
  <1>1. SeqInv /\ Underway /\ [Grounded]_truck /\ [SeqNext]_truck => Underway'
    BY UnderwayInductive
  <1>2. SeqInv /\ Underway => ChildrenMatchStatus /\ SomeStationAccepts
    BY UnderwayIsAccepted DEF Underway
  <1> QED
    BY <1>1, <1>2, InitUnderway, SequentialInvariant, PTL DEF SeqSpec, ReopensOnGround

(* So it is when trucks are sent back to the gate, or not at all. *)
THEOREM NoTruckIsStuck ==
    ASSUME ReopenRequests \subseteq {"REGISTERED"}
    PROVE  SeqSpec => [](ChildrenMatchStatus /\ SomeStationAccepts)
  <1>1. SeqInv /\ [SeqNext]_truck => [Grounded]_truck
    BY GateIsGround
  <1>2. SeqSpec => ReopensOnGround
    BY <1>1, SequentialInvariant, PTL DEF SeqSpec, ReopensOnGround
  <1> QED
    BY <1>2, GroundedTrucksMove
================================================================================
