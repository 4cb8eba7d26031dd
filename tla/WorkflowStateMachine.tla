------------------------- MODULE WorkflowStateMachine -------------------------
(***************************************************************************)
(* The status table every workflow handler consults                        *)
(* (common/state-machine/workflow-state-machine.ts) and the classes of     *)
(* statuses and process types the services test for.                       *)
(***************************************************************************)

Status ==
    {"REGISTERED", "WEIGH_IN_DONE",
     "QC_VEHICLE_PENDING", "QC_VEHICLE_IN_PROGRESS",
     "QC_VEHICLE_PASSED", "QC_VEHICLE_REJECTED",
     "WAREHOUSE_IN_PROGRESS", "WAREHOUSE_DONE",
     "INCOMING_CHECK_PENDING", "INCOMING_CHECK_IN_PROGRESS",
     "INCOMING_CHECK_PASSED", "INCOMING_CHECK_REJECTED",
     "WEIGH_OUT_DONE", "COMPLETED", "CANCELLED"}

Final == {"COMPLETED", "CANCELLED"}

(* What VALID_STATUS_TRANSITIONS lists for a status, CANCELLED aside. *)
Onward(from) ==
    CASE from = "REGISTERED" -> {"WEIGH_IN_DONE", "QC_VEHICLE_PENDING"}
      [] from = "WEIGH_IN_DONE" -> {"QC_VEHICLE_PENDING"}
      [] from = "QC_VEHICLE_PENDING" ->
            {"QC_VEHICLE_IN_PROGRESS", "QC_VEHICLE_PASSED", "QC_VEHICLE_REJECTED"}
      [] from = "QC_VEHICLE_IN_PROGRESS" -> {"QC_VEHICLE_PASSED", "QC_VEHICLE_REJECTED"}
      [] from = "QC_VEHICLE_PASSED" -> {"WAREHOUSE_IN_PROGRESS"}
      [] from = "WAREHOUSE_IN_PROGRESS" -> {"INCOMING_CHECK_PENDING", "WAREHOUSE_DONE"}
      [] from = "INCOMING_CHECK_PENDING" ->
            {"INCOMING_CHECK_IN_PROGRESS", "INCOMING_CHECK_PASSED", "INCOMING_CHECK_REJECTED"}
      [] from = "INCOMING_CHECK_IN_PROGRESS" ->
            {"INCOMING_CHECK_PASSED", "INCOMING_CHECK_REJECTED"}
      [] from \in {"QC_VEHICLE_REJECTED", "WAREHOUSE_DONE",
                   "INCOMING_CHECK_PASSED", "INCOMING_CHECK_REJECTED"} -> {"WEIGH_OUT_DONE"}
      [] from = "WEIGH_OUT_DONE" -> {"COMPLETED"}
      [] OTHER -> {}

ValidStatusTransitions(from) ==
    IF from \in Final THEN {} ELSE Onward(from) \cup {"CANCELLED"}

isValidStatusTransition(from, to) == from = to \/ to \in ValidStatusTransitions(from)

(* assertValidStatusTransition returns instead of throwing. *)
AssertPasses(from, to) == from \notin Final /\ isValidStatusTransition(from, to)

(* Raw material comes in full (GBB, GSP); finished goods go out full (GBJ). *)
Inbound == {"GBB", "GSP"}
ProcessType == Inbound \cup {"GBJ"}
===============================================================================
