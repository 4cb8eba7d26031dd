-------------------------- MODULE GbjChecklistProofs --------------------------
(* What GbjChecklist says of today's checklist holds of any items and any    *)
(* severities, as long as the window and the server have the same table.     *)
EXTENDS GbjChecklist, TLAPS

(* A complete sheet and the request made of it speak of the same findings. *)
LEMMA SameFindings ==
    ASSUME NEW s \in Sheet, NEW m \in DecisionMode, IsComplete(s)
    PROVE  /\ NotOk(Payload(s, m)) = Faults(s)
           /\ WellFormed(Payload(s, m))
           /\ Payload(s, m).mode = m
           /\ Payload(s, m).reasonGiven <=> m = "APPROVED_WITH_DEVIATION"
<1>1. \A i \in Items : Payload(s, m).ok[i] <=> s.status[i] = "ok"
  BY DEF Payload
<1>2. Payload(s, m).photo = s.photo
  BY DEF Payload
<1>3. \A i \in Items : (s.status[i] # "ok") <=> (s.status[i] = "not_ok")
  BY DEF IsComplete
<1>4. NotOk(Payload(s, m)) = Faults(s)
  BY <1>1, <1>3 DEF NotOk, Faults
<1>5. \A i \in Faults(s) : s.photo[i] = "fit"
  BY DEF Faults, IsComplete, Sheet
<1>6. WellFormed(Payload(s, m))
  BY <1>2, <1>4, <1>5 DEF WellFormed
<1> QED  BY <1>4, <1>6 DEF Payload

(* The window offers an inspector exactly the decisions the server accepts   *)
(* of the sheet as it stands, and says afterwards what the server recorded.  *)
THEOREM WindowAgreesWithServer ==
    ASSUME WindowCritical = Critical, NEW s \in Sheet
    PROVE  WindowAgrees(s)
<1> SUFFICES ASSUME IsComplete(s), NEW m \in DecisionMode
             PROVE  /\ m \in Offered(s) <=> Accepted(Payload(s, m))
                    /\ ServerResult(Payload(s, m)) = Told(m)
  BY DEF WindowAgrees
<1> DEFINE q == Payload(s, m)
<1>1. /\ NotOk(q) = Faults(s)
      /\ WellFormed(q)
      /\ q.mode = m
      /\ q.reasonGiven <=> m = "APPROVED_WITH_DEVIATION"
  BY SameFindings
<1> HIDE DEF q
<1>2. q.mode # "none" /\ EffectiveMode(q) = m
  BY <1>1 DEF EffectiveMode, DecisionMode
<1>3. Accepted(q) <=> MatrixAllows(q)
  BY <1>1, <1>2 DEF Accepted
<1>4. CASE m = "NORMAL_PASS"
  <2>1. MatrixAllows(q) <=> Faults(s) = {}
    BY <1>1, <1>2, <1>4 DEF MatrixAllows, HasDeviation
  <2>2. m \in Offered(s) <=> Faults(s) = {}
    BY <1>4 DEF Offered, Passed, CanApproveWithDeviation
  <2> QED  BY <1>2, <1>3, <1>4, <2>1, <2>2 DEF ServerResult, Told, q
<1>5. CASE m = "APPROVED_WITH_DEVIATION"
  <2>1. MatrixAllows(q) <=> Faults(s) # {} /\ Faults(s) \cap Critical = {}
    BY <1>1, <1>2, <1>5 DEF MatrixAllows, HasDeviation
  <2>2. m \in Offered(s) <=> Faults(s) # {} /\ Faults(s) \cap Critical = {}
    BY <1>5 DEF Offered, Passed, CanApproveWithDeviation
  <2> QED  BY <1>2, <1>3, <1>5, <2>1, <2>2 DEF ServerResult, Told, q
<1>6. CASE m = "REJECTED"
  <2>1. MatrixAllows(q) <=> Faults(s) # {}
    BY <1>1, <1>2, <1>6 DEF MatrixAllows, HasDeviation
  <2>2. m \in Offered(s) <=> Faults(s) # {}
    BY <1>6 DEF Offered, Passed, CanApproveWithDeviation
  <2> QED  BY <1>2, <1>3, <1>6, <2>1, <2>2 DEF ServerResult, Told, q
<1> QED  BY <1>4, <1>5, <1>6 DEF DecisionMode, q

(* The server alone keeps a vehicle with a critical finding from passing,    *)
(* and one with any other finding from passing without photo and reason.     *)
THEOREM PassesAreEarned ==
    ASSUME NEW q \in Request
    PROVE  PassIsEarned(q)
<1> SUFFICES ASSUME Accepted(q), ServerResult(q) = "PASS"
             PROVE  /\ NotOk(q) \cap Critical = {}
                    /\ HasDeviation(q) =>
                          /\ q.mode = "APPROVED_WITH_DEVIATION"
                          /\ q.reasonGiven
                          /\ \A i \in NotOk(q) : q.photo[i] = "fit"
  BY DEF PassIsEarned
<1>1. EffectiveMode(q) \in {"NORMAL_PASS", "APPROVED_WITH_DEVIATION"}
  BY DEF ServerResult
<1>2. CASE EffectiveMode(q) = "NORMAL_PASS"
  BY <1>2 DEF Accepted, MatrixAllows, HasDeviation
<1>3. CASE EffectiveMode(q) = "APPROVED_WITH_DEVIATION"
  <2>1. q.mode = "APPROVED_WITH_DEVIATION"
    BY <1>3 DEF EffectiveMode
  <2>2. NotOk(q) \cap Critical = {} /\ q.reasonGiven
    BY <1>3 DEF Accepted, MatrixAllows
  <2> QED  BY <2>1, <2>2 DEF Accepted, WellFormed
<1> QED  BY <1>1, <1>2, <1>3

(* Leaving the mode out gets nothing that naming it would not.               *)
THEOREM LegacyRequestsAreNoBypass ==
    ASSUME NEW q \in Request
    PROVE  LegacyIsNoBypass(q)
<1> SUFFICES ASSUME q.mode = "none", Accepted(q)
             PROVE  /\ ServerResult(q) = q.result
                    /\ \E m \in DecisionMode :
                          LET explicit == [q EXCEPT !.mode = m, !.reasonGiven = FALSE] IN
                          Accepted(explicit) /\ ServerResult(explicit) = q.result
  BY DEF LegacyIsNoBypass
<1> DEFINE m == EffectiveMode(q)
           explicit == [q EXCEPT !.mode = m, !.reasonGiven = FALSE]
<1>1. /\ m \in {"NORMAL_PASS", "REJECTED"}
      /\ m = "NORMAL_PASS" <=> q.result = "PASS"
  BY DEF EffectiveMode
<1>2. ServerResult(q) = q.result
  BY <1>1 DEF ServerResult, Request, Verdict
<1>3. /\ explicit.mode = m
      /\ explicit.ok = q.ok
      /\ explicit.photo = q.photo
      /\ explicit.result = q.result
  BY DEF Request
<1>4. EffectiveMode(explicit) = m
  BY <1>1, <1>3 DEF EffectiveMode
<1>5. NotOk(explicit) = NotOk(q)
  BY <1>3 DEF NotOk
<1> HIDE DEF m, explicit
<1>6. Accepted(explicit)
  BY <1>1, <1>3, <1>4, <1>5 DEF Accepted, WellFormed, MatrixAllows, HasDeviation, m
<1>7. ServerResult(explicit) = ServerResult(q)
  BY <1>4 DEF ServerResult, m
<1> QED  BY <1>1, <1>2, <1>6, <1>7 DEF DecisionMode, m, explicit
=============================================================================
