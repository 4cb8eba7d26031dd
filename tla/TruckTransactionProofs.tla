------------------------ MODULE TruckTransactionProofs ------------------------
(***************************************************************************)
(* Requests that read early and write late do only what the stations could *)
(* do one at a time: TruckTransaction implements SequentialTruck, for any  *)
(* number of requests, and so inherits everything proved of it.            *)
(***************************************************************************)
EXTENDS TruckTransaction, SequentialTruckProofs

Request == [op : Operation \cup {"idle"}, seen : Row, expected : Nat]

(* The inductive invariant.  A snapshot that is still current was taken of the
   row as it is only because every write of the row takes a revision, and that
   is proved from SeqInv. *)
Inv ==
    /\ TypeOK
    /\ SeqInv
    /\ SnapshotsExact

-----------------------------------------------------------------------------
(* Whatever a handler commits, it has claimed the revision it saw or, for a
   void, the revision its client named. *)
LEMMA HandleClaims ==
    ASSUME NEW op, NEW seen, NEW expected, Handle(op, seen, expected)
    PROVE  /\ op \in Operation
           /\ IF op = "void" THEN row.revision = expected
                             ELSE row.revision = seen.revision
  BY DEF Handle, Operation, WeighIn, StartQc, VehicleCheck, StartWarehouse,
         CompleteQcAnalysis, CompleteWarehouse, IncomingCheck, WarehouseIncomingCheck,
         WeighOut, CheckOut, GateCancel, Cancel, Void, VoidClaimed, MoveTo, Claimed

(* Only a void looks at the revision its client expects. *)
LEMMA ExpectedOnlyByVoid ==
    ASSUME NEW op, NEW seen, NEW d, NEW e, Handle(op, seen, d), op = "void" => d = e
    PROVE  Handle(op, seen, e)
  BY DEF Handle

(* So a request that gets to write saw the row as it is, and is a step of the
   sequential specification. *)
LEMMA ServeIsSequential ==
    ASSUME Inv, NEW r \in Requests, Serve(r)
    PROVE  req[r].op # "idle" /\ req[r].seen = row /\ SeqNext
  <1> DEFINE q == req[r]
  <1>1. q \in Request /\ row \in Row
    BY DEF Inv, TypeOK, TruckTypeOK, Request
  <1>2. Handle(q.op, q.seen, q.expected)
    BY DEF Serve
  <1>3. /\ q.op \in Operation
        /\ IF q.op = "void" THEN row.revision = q.expected
                            ELSE row.revision = q.seen.revision
    BY <1>2, HandleClaims
  <1>4. q.op # "idle"
    BY <1>3 DEF Operation
  <1>5. /\ q.expected <= q.seen.revision /\ q.seen.revision <= row.revision
        /\ q.seen.revision = row.revision =>
                q.seen = row /\ Accepts(q.op, row, records)
    BY <1>4 DEF Inv, SnapshotsExact
  <1>6. q.expected \in Nat /\ q.seen.revision \in Nat /\ row.revision \in Nat
    BY <1>1 DEF Request, Row
  <1>7. q.seen.revision = row.revision
    BY <1>3, <1>5, <1>6
  <1>8. q.seen = row /\ Accepts(q.op, row, records)
    BY <1>5, <1>7
  <1>9. Handle(q.op, row, row.revision)
    BY <1>2, <1>3, <1>8, ExpectedOnlyByVoid
  <1> QED
    BY <1>3, <1>4, <1>8, <1>9 DEF SeqNext

(* The steps of Next as the refinement sees them. *)
LEMMA NextIsSequential ==
    ASSUME Inv, Next
    PROVE  SeqNext \/ UNCHANGED truck
  BY ServeIsSequential DEF Next, Receive, Abort, SeqNext

-----------------------------------------------------------------------------
(* A write by anyone takes the snapshots in flight a revision further away. *)
LEMMA WriteOutdates ==
    ASSUME Inv, Lawful,
           NEW r \in Requests, req[r].op # "idle"
    PROVE  /\ req[r].expected <= req[r].seen.revision
           /\ req[r].seen.revision <= row'.revision
           /\ req[r].seen.revision # row'.revision
  <1>1. req[r].seen.revision \in Nat /\ row.revision \in Nat
    BY DEF Inv, TypeOK, TruckTypeOK, Row
  <1> QED
    BY <1>1 DEF Inv, SnapshotsExact, Lawful

(* No request is in flight at first. *)
LEMMA InitKeeps == Init => Inv
  <1> SUFFICES ASSUME Init PROVE Inv
    OBVIOUS
  <1>1. SeqInv /\ TruckTypeOK
    BY InitInv DEF Init, SeqInv
  <1>2. Idle \in Request /\ Idle.op = "idle"
    BY DEF Idle, Request, NewRow, Row, Status, ProcessType, Inbound
  <1>3. \A r \in Requests : req[r] = Idle
    BY DEF Init
  <1>4. TypeOK
    BY <1>1, <1>2 DEF Init, TypeOK, Request
  <1> QED
    BY <1>1, <1>2, <1>3, <1>4 DEF Inv, SnapshotsExact

(* What has just been read is exact. *)
LEMMA ReceiveKeeps ==
    ASSUME Inv, NEW r \in Requests, Receive(r)
    PROVE  Inv'
  <1>1. PICK op \in Operation, e \in 1..row.revision :
            /\ Accepts(op, row, records)
            /\ req' = [req EXCEPT ![r] = [op |-> op, seen |-> row, expected |-> e]]
    BY DEF Receive
  <1>2. row' = row /\ records' = records /\ history' = history
    BY DEF Receive, truck
  <1>3. SeqInv'
    BY <1>2, StutterKeepsInv DEF Inv, truck
  <1>4. row \in Row /\ row.revision \in Nat /\ e \in Nat /\ e <= row.revision
    BY DEF Inv, TypeOK, TruckTypeOK, Row
  <1>5. req \in [Requests -> Request]
    BY DEF Inv, TypeOK, Request
  <1>6. req' \in [Requests -> Request]
    BY <1>1, <1>4, <1>5 DEF Request
  <1>7. TypeOK'
    BY <1>3, <1>6 DEF SeqInv, TypeOK, Request
  <1>8. /\ req'[r].op = op /\ req'[r].seen = row /\ req'[r].expected = e
        /\ \A q \in Requests \ {r} : req'[q] = req[q]
    BY <1>1, <1>5
  <1>9. SnapshotsExact'
    <2> SUFFICES ASSUME NEW q \in Requests, req'[q].op # "idle"
                 PROVE  /\ req'[q].expected <= req'[q].seen.revision
                        /\ req'[q].seen.revision <= row'.revision
                        /\ req'[q].seen.revision = row'.revision =>
                             req'[q].seen = row' /\ Accepts(req'[q].op, row', records')
      BY DEF SnapshotsExact
    <2>1. CASE q = r
      BY <1>1, <1>2, <1>4, <1>8, <2>1
    <2>2. CASE q # r
      <3>1. req'[q] = req[q]
        BY <1>8, <2>2
      <3> QED
        BY <1>2, <3>1 DEF Inv, SnapshotsExact
    <2> QED
      BY <2>1, <2>2
  <1> QED
    BY <1>3, <1>7, <1>9 DEF Inv

(* Answering a request forgets its snapshot and leaves the others. *)
LEMMA AnswerFacts ==
    ASSUME Inv, NEW r \in Requests, Answer(r)
    PROVE  /\ req' \in [Requests -> Request]
           /\ req'[r].op = "idle"
           /\ \A q \in Requests \ {r} : req'[q] = req[q]
  <1>1. Idle \in Request /\ Idle.op = "idle"
    BY DEF Idle, Request, NewRow, Row, Status, ProcessType, Inbound
  <1>2. req \in [Requests -> Request] /\ req' = [req EXCEPT ![r] = Idle]
    BY DEF Inv, TypeOK, Request, Answer
  <1> HIDE DEF Idle
  <1> QED
    BY <1>1, <1>2

(* A request that commits outdates the others and forgets its own snapshot. *)
LEMMA ServeKeeps ==
    ASSUME Inv, NEW r \in Requests, Serve(r)
    PROVE  Inv'
  <1>1. Lawful
    BY ServeIsSequential, StepIsLawful DEF Inv
  <1>2. /\ req' \in [Requests -> Request] /\ req'[r].op = "idle"
        /\ \A q \in Requests \ {r} : req'[q] = req[q]
    BY AnswerFacts DEF Serve
  <1>3. SeqInv' /\ TypeOK'
    BY <1>1, <1>2 DEF Lawful, SeqInv, TypeOK, Request
  <1>4. SnapshotsExact'
    BY <1>1, <1>2, WriteOutdates DEF SnapshotsExact
  <1> QED
    BY <1>3, <1>4 DEF Inv

(* A request that aborts leaves the row and the other snapshots alone. *)
LEMMA AbortKeeps ==
    ASSUME Inv, NEW r \in Requests, Abort(r)
    PROVE  Inv'
  <1>1. row' = row /\ records' = records /\ history' = history
    BY DEF Abort, truck
  <1>2. /\ req' \in [Requests -> Request] /\ req'[r].op = "idle"
        /\ \A q \in Requests \ {r} : req'[q] = req[q]
    BY AnswerFacts DEF Abort
  <1>3. SeqInv'
    BY <1>1, StutterKeepsInv DEF Inv, truck
  <1>4. TypeOK'
    BY <1>2, <1>3 DEF SeqInv, TypeOK, Request
  <1>5. SnapshotsExact'
    BY <1>1, <1>2 DEF Inv, SnapshotsExact
  <1> QED
    BY <1>3, <1>4, <1>5 DEF Inv

(* An administrator outdates every snapshot in flight. *)
LEMMA AdministerKeeps ==
    ASSUME Inv, Administer, UNCHANGED req
    PROVE  Inv'
  <1>1. Lawful
    BY StepIsLawful DEF Inv, SeqNext
  <1>2. SeqInv' /\ TypeOK'
    BY <1>1 DEF Inv, Lawful, SeqInv, TypeOK
  <1>3. SnapshotsExact'
    BY <1>1, WriteOutdates DEF SnapshotsExact
  <1> QED
    BY <1>2, <1>3 DEF Inv

(* Nothing changes when nothing happens. *)
LEMMA StutterKeeps ==
    ASSUME Inv, UNCHANGED vars
    PROVE  Inv'
  <1>1. SeqInv'
    BY StutterKeepsInv DEF Inv, vars, truck
  <1>2. TypeOK' /\ SnapshotsExact'
    BY DEF Inv, vars, TypeOK, TruckTypeOK, SnapshotsExact
  <1> QED
    BY <1>1, <1>2 DEF Inv

(* The invariant holds of every interleaving of any number of requests. *)
THEOREM Invariant == Spec => []Inv
  <1>1. Inv /\ [Next]_vars => Inv'
    BY ReceiveKeeps, ServeKeeps, AbortKeeps, AdministerKeeps, StutterKeeps DEF Next
  <1> QED
    BY <1>1, InitKeeps, PTL DEF Spec

(* Type correctness. *)
THEOREM TypeCorrect == Spec => []TypeOK
  BY Invariant, PTL DEF Inv

(* A snapshot is either exact or about to lose its claim. *)
THEOREM Snapshots == Spec => []SnapshotsExact
  BY Invariant, PTL DEF Inv

(* Optimistic concurrency control: no request writes on a stale decision. *)
THEOREM OptimisticControl == Spec => DecidesOnCurrentRow
  <1> DEFINE Decides == \A r \in Requests :
                (req[r].op # "idle" /\ req'[r].op = "idle" /\ row' # row)
                    => req[r].seen = row
  <1>1. ASSUME Inv, Next PROVE Decides
    <2>1. ASSUME NEW r \in Requests, Serve(r) PROVE Decides
      <3>1. \A q \in Requests \ {r} : req'[q] = req[q]
        BY <2>1, <1>1, AnswerFacts DEF Serve
      <3>2. req[r].seen = row
        BY <2>1, <1>1, ServeIsSequential
      <3> QED
        BY <3>1, <3>2
    <2>2. CASE UNCHANGED truck
      BY <2>2 DEF truck
    <2>3. CASE UNCHANGED req
      BY <2>3
    <2> QED
      BY <1>1, <2>1, <2>2, <2>3 DEF Next, Receive, Abort
  <1>2. Inv /\ [Next]_vars => [Decides]_vars
    BY <1>1
  <1> HIDE DEF Decides
  <1>3. Spec => [][Decides]_vars
    BY <1>2, Invariant, PTL DEF Spec
  <1> QED
    BY <1>3 DEF Decides, DecidesOnCurrentRow

(* The refinement: concurrent requests implement one station at a time. *)
THEOREM Refinement == Spec => Sequential
  <1>1. Init => SeqInit
    BY DEF Init
  <1>2. Inv /\ [Next]_vars => [SeqNext]_truck
    BY NextIsSequential DEF vars, truck
  <1> QED
    BY <1>1, <1>2, Invariant, PTL DEF Spec, Sequential, SeqSpec

-----------------------------------------------------------------------------
(* What the refinement carries over, whatever is in flight and through any number
   of reopenings and corrections. *)

(* TransactionStatusHistory: its newest row names the status the truck is in. *)
THEOREM HistoryEndsInStatus == Spec => []HistoryMatchesStatus
  BY Invariant, PTL DEF Inv, SeqInv

(* Copy-on-write corrections and redone steps never leave an older revision of a
   record current. *)
THEOREM CurrentRecordsNewest == Spec => []CurrentIsNewest
  BY Invariant, PTL DEF Inv, SeqInv

(* The stage matrix of a reopen supersedes all that lies ahead of its target. *)
THEOREM NothingIsAhead == Spec => []NothingAheadOfStatus
  BY Invariant, PTL DEF Inv, SeqInv

(* submitWeighOut: whoever has been weighed out has a ticket, both weights and the
   net they give. *)
THEOREM WeightsSettle == Spec => []SettledWeights
  BY Invariant, PTL DEF Inv, SeqInv

(* Every handler and every correction takes exactly one revision. *)
THEOREM WritesTakeRevisions == Spec => EveryWriteTakesARevision
  BY Refinement, SequentialSteps DEF Sequential

(* Every history row starts from the status its predecessor ended in. *)
THEOREM HistoryUnbroken == Spec => HistoryChained
  BY Refinement, SequentialSteps DEF Sequential

(* assertValidStatusTransition and the reopen targets bound every move. *)
THEOREM StatusByTable == Spec => StatusMovesByTable
  BY Refinement, SequentialSteps DEF Sequential

(* voidTransaction: a void is never taken back. *)
THEOREM VoidsStay == Spec => VoidIsForever
  BY Refinement, SequentialSteps DEF Sequential

(* As long as a reopen that skips steps finds what they leave behind, a truck's
   records are those its status claims and a station accepts it, whatever requests
   race and whatever is corrected. *)
THEOREM GroundedTrucksMoveOn ==
    Spec /\ ReopensOnGround => [](ChildrenMatchStatus /\ SomeStationAccepts)
  BY Refinement, GroundedTrucksMove, PTL DEF Sequential

(* When trucks are only ever reopened to the gate, the current records are those the
   status claims, without looking at how they are reopened. *)
THEOREM ChildrenAgree ==
    ASSUME ReopenRequests \subseteq {"REGISTERED"}
    PROVE  Spec => []ChildrenMatchStatus
  BY Refinement, NoTruckIsStuck, PTL DEF Sequential

(* And a station accepts the truck as it is. *)
THEOREM AlwaysAWayOn ==
    ASSUME ReopenRequests \subseteq {"REGISTERED"}
    PROVE  Spec => []SomeStationAccepts
  BY Refinement, NoTruckIsStuck, PTL DEF Sequential
===============================================================================
