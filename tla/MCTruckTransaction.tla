-------------------------- MODULE MCTruckTransaction --------------------------
(* TruckTransaction on small instances. *)
EXTENDS TruckTransaction, TLC

CONSTANTS r1, r2

TwoRequests == {r1, r2}
OneRequest == {r1}
RequestSymmetry == Permutations(TwoRequests)

NoReopen == {}
EveryReopen == {"REGISTERED", "QC_VEHICLE_PENDING", "QC_VEHICLE_PASSED",
                "WAREHOUSE_IN_PROGRESS", "INCOMING_CHECK_PENDING"}
NoCorrection == {}
EveryCorrection == Kinds \cup {"ROOT"}

AllTypes == ProcessType

(* The checklist of finished goods as it is today, and what GbjChecklist says *)
(* of it, on every sheet and every request.                                   *)
ChecklistItems == 0 .. 4
CriticalItems == {0, 1, 3}
WindowCriticalItems == {0, 1, 3}
Gbj == INSTANCE GbjChecklist WITH Items <- ChecklistItems,
           Critical <- CriticalItems, WindowCritical <- WindowCriticalItems
ASSUME ChecklistAgrees ==
    /\ \A s \in Gbj!Sheet : Gbj!WindowAgrees(s)
    /\ \A q \in Gbj!Request : Gbj!PassIsEarned(q) /\ Gbj!LegacyIsNoBypass(q)
===============================================================================
