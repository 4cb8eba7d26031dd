---------------------------- MODULE GbjChecklist ----------------------------
(***************************************************************************)
(* The vehicle checklist of finished goods (GBJ): items, each in order or  *)
(* not, from which the inspector's window and the server each derive, by   *)
(* tables and rules of their own, what may be decided.  The server is      *)
(* QcService.submitGbjVehicleCheck; the window is QCVerification.vue with  *)
(* utils/gbjQcFlow.js.  Everything here is a function of one request; what *)
(* the verdict does to the truck is VehicleCheck of SequentialTruck.       *)
(* Items and severities are called a temporary policy in the code and are  *)
(* parameters here; MCTruckTransaction gives them their present values.    *)
(***************************************************************************)
CONSTANTS
    Items,            \* GBJ_CHECKLIST_ITEMS
    Critical,         \* those the server's severity table calls CRITICAL
    WindowCritical    \* those the window's copy of the table does

DecisionMode == {"NORMAL_PASS", "APPROVED_WITH_DEVIATION", "REJECTED"}
Verdict      == {"PASS", "REJECT"}

(* A photo: none, one the server takes (a data URI of an allowed type and  *)
(* size), or one it does not.                                              *)
Photo == {"none", "fit", "unfit"}

-----------------------------------------------------------------------------
(* The server.  A request (VehicleCheckResultDto) names a result, perhaps a *)
(* decision mode, perhaps a reason of at least ten characters after         *)
(* trimming, and the items.                                                 *)

Request ==
    [result     : Verdict,
     mode       : DecisionMode \cup {"none"},
     reasonGiven: BOOLEAN,
     ok         : [Items -> BOOLEAN],
     photo      : [Items -> Photo]]

NotOk(q)        == {i \in Items : ~q.ok[i]}
WellFormed(q)   == \A i \in NotOk(q) : q.photo[i] = "fit"
HasDeviation(q) == NotOk(q) # {}

(* The mode a request without one is taken to mean. *)
Derivable(q) ==
    \/ q.result = "PASS" /\ ~HasDeviation(q)
    \/ q.result = "REJECT" /\ HasDeviation(q)

EffectiveMode(q) ==
    IF q.mode # "none" THEN q.mode
    ELSE IF q.result = "PASS" THEN "NORMAL_PASS" ELSE "REJECTED"

(* The decision matrix. *)
MatrixAllows(q) ==
    LET m == EffectiveMode(q) IN
    /\ m = "NORMAL_PASS" => ~HasDeviation(q)
    /\ m = "APPROVED_WITH_DEVIATION" =>
          /\ HasDeviation(q)
          /\ NotOk(q) \cap Critical = {}
          /\ q.reasonGiven
    /\ m = "REJECTED" => HasDeviation(q)

Accepted(q) ==
    /\ WellFormed(q)
    /\ q.mode = "none" => Derivable(q)
    /\ MatrixAllows(q)

(* The result of the record, whatever result the request names. *)
ServerResult(q) ==
    IF EffectiveMode(q) \in {"NORMAL_PASS", "APPROVED_WITH_DEVIATION"}
    THEN "PASS" ELSE "REJECT"

-----------------------------------------------------------------------------
(* The window.  Its photos are JPEGs it has drawn itself, at most 800       *)
(* pixels wide and high, which the server takes.                            *)

Sheet == [status: [Items -> {"none", "ok", "not_ok"}],
          photo : [Items -> {"none", "fit"}]]

Faults(s)     == {i \in Items : s.status[i] = "not_ok"}
IsComplete(s) == \A i \in Items :
                    \/ s.status[i] = "ok"
                    \/ s.status[i] = "not_ok" /\ s.photo[i] # "none"
Passed(s)     == IsComplete(s) /\ Faults(s) = {}
CanApproveWithDeviation(s) ==
    IsComplete(s) /\ Faults(s) # {} /\ Faults(s) \cap WindowCritical = {}

(* The buttons of the window's footer; the deviation button leads to a     *)
(* second window, whose own button asks for ten characters.                *)
Offered(s) ==
    CASE ~IsComplete(s)             -> {}
      [] Passed(s)                  -> {"NORMAL_PASS"}
      [] CanApproveWithDeviation(s) -> {"REJECTED", "APPROVED_WITH_DEVIATION"}
      [] OTHER                      -> {"REJECTED"}

(* buildGbjQcPayload: the result is the checklist's own, not the button's. *)
Payload(s, m) ==
    [result      |-> IF Passed(s) THEN "PASS" ELSE "REJECT",
     mode        |-> m,
     reasonGiven |-> m = "APPROVED_WITH_DEVIATION",
     ok          |-> [i \in Items |-> s.status[i] = "ok"],
     photo       |-> s.photo]

(* What the window tells the inspector afterwards. *)
Told(m) == IF m = "REJECTED" THEN "REJECT" ELSE "PASS"

-----------------------------------------------------------------------------
(* What is to be said of them. *)

(* The window offers what the server accepts, no more and no less, and     *)
(* tells the verdict the server records.                                   *)
WindowAgrees(s) ==
    IsComplete(s) =>
        \A m \in DecisionMode :
            /\ m \in Offered(s) <=> Accepted(Payload(s, m))
            /\ ServerResult(Payload(s, m)) = Told(m)

(* No request, whoever builds it, passes a vehicle with a critical finding, *)
(* or with any finding but with a photo, a reason and the mode that says so. *)
PassIsEarned(q) ==
    Accepted(q) /\ ServerResult(q) = "PASS" =>
        /\ NotOk(q) \cap Critical = {}
        /\ HasDeviation(q) =>
              /\ q.mode = "APPROVED_WITH_DEVIATION"
              /\ q.reasonGiven
              /\ \A i \in NotOk(q) : q.photo[i] = "fit"

(* "Safe legacy derivation - NOT a bypass" (qc.service.ts:441): a request  *)
(* without a mode gets the verdict it names, and only one that a request   *)
(* with a mode, and without a reason, gets as well.                        *)
LegacyIsNoBypass(q) ==
    q.mode = "none" /\ Accepted(q) =>
        /\ ServerResult(q) = q.result
        /\ \E m \in DecisionMode :
              LET explicit == [q EXCEPT !.mode = m, !.reasonGiven = FALSE] IN
              Accepted(explicit) /\ ServerResult(explicit) = q.result
=============================================================================
