----------------------------- MODULE Corrections -----------------------------
(***************************************************************************)
(* Administrators correct the weights of one transaction that has ended:   *)
(* the correction window of TruckDetailsModal.vue, which turns what was    *)
(* typed into items, and correctOperationLog, which applies the items to   *)
(* the transaction's row and to its records.  The handler reads, computes  *)
(* and writes in one READ COMMITTED transaction, each part of which may    *)
(* find what another administrator has committed in between.               *)
(*                                                                         *)
(* A weight of 0 stands for null.  Left out: fields that are only stored,  *)
(* the verdicts (see SequentialTruck), remarks and evidence.               *)
(***************************************************************************)
EXTENDS Integers

CONSTANTS
    Admins,       \* administrators, each with one window
    Weights,      \* weights that are entered
    Processes,    \* "inbound" (GBB and GSP) and "GBJ"
    MaxRevision   \* bound: revisions of the row

ASSUME CorrectionAssumption ==
    /\ Weights \subseteq Nat \ {0}
    /\ Processes \subseteq {"inbound", "GBJ"}
    /\ MaxRevision \in Nat

VARIABLES
    process,    \* the process type of the transaction
    row,        \* its row
    record,     \* its current tickets and warehouse process, with their weights
    fraud,      \* the newest fraud check: none, or the net and actual weight of it
    trail,      \* the items of the newest correction, with their old values
    screen,     \* per administrator, the copy of the transaction on display
    request     \* per administrator, the correction being saved

vars == <<process, row, record, fraud, trail, screen, request>>

Fields == {"gross", "tare", "actual"}
Kinds == {"IN", "OUT", "WAREHOUSE"}

(* What an item of a correction may speak of: a field of the row, or the weight
   of a record. *)
Places == Fields \cup Kinds

Row == [revision : Nat, gross : Nat, tare : Nat, actual : Nat, net : Nat]

(* Functions of some of S, as the records that there are, each with its weight, or
   the items of a correction, each with its value. *)
IsPartial(f, S) == DOMAIN f \subseteq S /\ f \in [DOMAIN f -> Nat]

IsCopy(copy) ==
    /\ copy = [row |-> copy.row, record |-> copy.record]
    /\ copy.row \in Row
    /\ IsPartial(copy.record, Kinds)

IsRequest(q) ==
    /\ q = [stage |-> q.stage, items |-> q.items, expected |-> q.expected,
            entered |-> q.entered, seen |-> q.seen]
    /\ q.stage \in {"none", "sent", "read"}
    /\ IsPartial(q.items, Places)
    /\ q.expected \in Nat
    /\ q.entered \in [Fields -> Nat]
    /\ IsCopy(q.seen)

TypeOK ==
    /\ process \in Processes
    /\ row \in Row /\ IsPartial(record, Kinds)
    /\ fraud \subseteq [net : Nat, actual : Nat]
    /\ DOMAIN trail \subseteq Places
    /\ \A place \in DOMAIN trail : trail[place] \in [old : Nat, new : Nat]
    /\ screen = [a \in Admins |-> screen[a]] /\ \A a \in Admins : IsCopy(screen[a])
    /\ request = [a \in Admins |-> request[a]] /\ \A a \in Admins : IsRequest(request[a])

Current == [row |-> row, record |-> record]

(* The field of the row that a record's weight is also kept in. *)
FieldOf(kind) ==
    CASE kind = "WAREHOUSE" -> "actual"
      [] kind = "IN" -> IF process = "GBJ" THEN "tare" ELSE "gross"
      [] kind = "OUT" -> IF process = "GBJ" THEN "gross" ELSE "tare"

At(copy, place) == IF place \in Fields THEN copy.row[place] ELSE copy.record[place]

-----------------------------------------------------------------------------
(* What the stations leave of a truck whose transaction ends at some station:
   nothing, a first ticket, a warehouse process with or without a weight, a second
   ticket.  A rejected truck has no warehouse process, and no net below 0. *)
Weight(R, kind) == IF kind \in DOMAIN R THEN R[kind] ELSE 0

NetOf(gross, tare) == IF gross = 0 \/ tare = 0 \/ gross < tare THEN 0 ELSE gross - tare

RowOf(p, R) ==
    LET gross == Weight(R, IF p = "GBJ" THEN "OUT" ELSE "IN")
        tare == Weight(R, IF p = "GBJ" THEN "IN" ELSE "OUT")
    IN  [revision |-> 1, gross |-> gross, tare |-> tare,
         actual |-> Weight(R, "WAREHOUSE"), net |-> NetOf(gross, tare)]

Left(p, R) ==
    /\ \A kind \in DOMAIN R : R[kind] \in Weights \/ (kind = "WAREHOUSE" /\ R[kind] = 0)
    /\ DOMAIN R # {} => "IN" \in DOMAIN R

NoCopy ==
    [row |-> [revision |-> 0, gross |-> 0, tare |-> 0, actual |-> 0, net |-> 0],
     record |-> <<>>]

NoRequest ==
    [stage |-> "none", items |-> <<>>, expected |-> 0,
     entered |-> [field \in Fields |-> 0], seen |-> NoCopy]

Init ==
    /\ process \in Processes
    /\ record \in UNION {[S -> Weights \cup {0}] : S \in SUBSET Kinds}
    /\ Left(process, record)
    /\ row = RowOf(process, record)
    /\ fraud = IF "OUT" \in DOMAIN record /\ row.actual # 0
               THEN {[net |-> row.net, actual |-> row.actual]} ELSE {}
    /\ trail = <<>>
    /\ screen = [a \in Admins |-> Current]
    /\ request = [a \in Admins |-> NoRequest]

-----------------------------------------------------------------------------
(* The window.  The page is loaded (again). *)
Load(a) ==
    /\ request[a].stage = "none"
    /\ screen' = [screen EXCEPT ![a] = Current]
    /\ UNCHANGED <<process, row, record, fraud, trail, request>>

(* A field whose entry differs from the row's becomes an item for the record that
   is taken for its source, if there is one: the first ticket for the gross weight,
   the second for the tare; for the actual weight both items. *)
SourceOf(field) ==
    CASE field = "gross" -> "IN" [] field = "tare" -> "OUT" [] field = "actual" -> "WAREHOUSE"

RowAlone(copy, field) ==
    IF field # "actual" /\ SourceOf(field) \in DOMAIN copy.record
    THEN {SourceOf(field)} ELSE {field}
PlacesOf(copy, field) ==
    IF SourceOf(field) \notin DOMAIN copy.record THEN {field}
    ELSE IF field = "actual" THEN {SourceOf(field), field} ELSE {SourceOf(field)}

ItemsFor(copy, entered) ==
    LET changed == {field \in Fields : entered[field] # copy.row[field]}
        places == UNION {PlacesOf(copy, field) : field \in changed}
    IN  [place \in places |->
            entered[CHOOSE field \in changed : place \in PlacesOf(copy, field)]]

(* Any entry may be changed; one that is emptied counts as 0. *)
Submit(a) ==
    /\ request[a].stage = "none"
    /\ row.revision < MaxRevision
    /\ \E entered \in [Fields -> Weights \cup {0}] :
        LET items == ItemsFor(screen[a], entered)
        IN  /\ DOMAIN items # {}
            /\ request' = [request EXCEPT ![a] =
                  [stage |-> "sent", items |-> items, entered |-> entered,
                   expected |-> screen[a].row.revision, seen |-> NoCopy]]
    /\ UNCHANGED <<process, row, record, fraud, trail, screen>>

-----------------------------------------------------------------------------
(* The handler.  An answer leaves the display as it was: a refusal because it is
   all the window has, and a success because the page copies the parts of the
   answer into the wrong object. *)
Answered(a) == request' = [request EXCEPT ![a] = NoRequest]

(* The transaction is read with its current records and compared with the
   revision that the window names. *)
Receive(a) ==
    /\ request[a].stage = "sent"
    /\ IF row.revision = request[a].expected
       THEN request' = [request EXCEPT ![a] =
                [stage |-> "read", items |-> @.items, expected |-> @.expected,
                 entered |-> @.entered, seen |-> Current]]
       ELSE Answered(a)
    /\ UNCHANGED <<process, row, record, fraud, trail, screen>>

(* The row that the items make of the one that was read: items of the row first,
   then those of the records, each of which the row repeats. *)
Proposed(copy, items) ==
    [field \in Fields |->
        LET kinds == {kind \in Kinds \cap DOMAIN items : FieldOf(kind) = field}
        IN  IF kinds # {} THEN items[CHOOSE kind \in kinds : TRUE]
            ELSE IF field \in DOMAIN items THEN items[field] ELSE copy.row[field]]

BothKnown(weights) == weights.gross # 0 /\ weights.tare # 0

(* validateDomain, the refusal of a correction that changes nothing, and that of a
   gross weight below the tare. *)
WithoutOrder(copy, items) ==
    /\ \A place \in DOMAIN items : items[place] > 0
    /\ \E place \in DOMAIN items : items[place] # At(copy, place)
Acceptable(copy, items) ==
    /\ \A place \in DOMAIN items : items[place] > 0
    /\ \E place \in DOMAIN items : items[place] # At(copy, place)
    /\ LET weights == Proposed(copy, items)
       IN  BothKnown(weights) => weights.gross >= weights.tare

Refuse(a) ==
    /\ request[a].stage = "read"
    /\ ~Acceptable(request[a].seen, request[a].items)
    /\ Answered(a)
    /\ UNCHANGED <<process, row, record, fraud, trail, screen>>

(* The last write asks for the revision again, and whoever comes second finds it
   gone: everything the handler wrote before is rolled back. *)
Unclaimed(a) == TRUE
Claimed(a) == row.revision = request[a].expected

Collide(a) ==
    /\ request[a].stage = "read"
    /\ Acceptable(request[a].seen, request[a].items)
    /\ ~Claimed(a)
    /\ Answered(a)
    /\ UNCHANGED <<process, row, record, fraud, trail, screen>>

(* The old values are those that were read. *)
TrailOfRow(copy, items) ==
    [place \in Fields \cap DOMAIN items |-> [old |-> At(copy, place), new |-> items[place]]]
TrailOf(copy, items) ==
    [place \in DOMAIN items |-> [old |-> At(copy, place), new |-> items[place]]]

(* A fraud check is made of the weights as they are now, when both are known and
   there is a net weight to compare with. *)
CheckOfOld(new) == {[net |-> row.net, actual |-> row.actual]}
CheckOf(new) ==
    IF new.net > 0 /\ new.actual # 0 THEN {[net |-> new.net, actual |-> new.actual]}
                                     ELSE fraud

(* The row takes what the items say and keeps the rest; a record that an item
   speaks of is superseded by one with the new weight. *)
Save(a) ==
    LET items == request[a].items
        weights == Proposed(request[a].seen, items)
        written == {field \in Fields : \/ field \in DOMAIN items
                                       \/ \E kind \in Kinds \cap DOMAIN items : FieldOf(kind) = field}
        new == [field \in Fields |-> IF field \in written THEN weights[field] ELSE row[field]]
    IN  /\ request[a].stage = "read"
        /\ Acceptable(request[a].seen, items)
        /\ Claimed(a)
        /\ row' = [revision |-> row.revision + 1, gross |-> new.gross, tare |-> new.tare,
                   actual |-> new.actual,
                   net |-> IF BothKnown(weights) THEN weights.gross - weights.tare ELSE row.net]
        /\ record' = [kind \in DOMAIN record |->
                         IF kind \in DOMAIN items THEN items[kind] ELSE record[kind]]
        /\ trail' = TrailOf(request[a].seen, items)
        /\ fraud' = CheckOf(row')
        /\ Answered(a)
        /\ UNCHANGED <<process, screen>>

Next ==
    \E a \in Admins :
        Load(a) \/ Submit(a) \/ Receive(a) \/ Refuse(a) \/ Collide(a) \/ Save(a)

Spec == Init /\ [][Next]_vars

-----------------------------------------------------------------------------
(* A truck loaded with finished goods that has only its first ticket is apart: the
   window takes that ticket for its gross weight, and the server for its tare. *)
Regular == process = "inbound" \/ "OUT" \in DOMAIN record

Saves(a) == request[a].stage = "read" /\ row'.revision # row.revision /\ request'[a] = NoRequest

(* Row and records, which the window addresses one by one and in different ways,
   keep telling the same weights. *)
RowFollowsRecords ==
    Regular => \A kind \in DOMAIN record : row[FieldOf(kind)] = record[kind]

(* Once saved, the row has the weights of the form, those too that were only left
   as they were: nothing another administrator saved since the window was loaded
   is overwritten or kept unseen. *)
EnteredIsStored ==
    [][\A a \in Admins :
          Saves(a) /\ process = "inbound" =>
              \A field \in Fields : row'[field] = request[a].entered[field]]_vars

(* Whatever the process, a corrected gross weight becomes the row's. *)
GrossIsCorrected ==
    [][\A a \in Admins :
          Saves(a) => row'.gross = request[a].entered.gross]_vars

(* The audit trail tells every change, and tells it as it was: what is written
   down as new now stands, as old stood before, and nothing changed untold. *)
TrailTellsAll ==
    [][Regular /\ row'.revision # row.revision =>
          /\ \A place \in DOMAIN trail' :
                /\ trail'[place].old = At(Current, place)
                /\ trail'[place].new = At(Current', place)
          /\ \A kind \in DOMAIN record :
                record'[kind] # record[kind] => kind \in DOMAIN trail'
          /\ \A field \in Fields :
                row'[field] # row[field] =>
                    \/ field \in DOMAIN trail'
                    \/ \E kind \in Kinds \cap DOMAIN trail' : FieldOf(kind) = field]_vars

(* The newest fraud check speaks of the net and actual weight as they are, through
   corrections of either, as long as there is something to compare. *)
FraudFollowsWeights ==
    row.net > 0 /\ row.actual > 0 => fraud = {[net |-> row.net, actual |-> row.actual]}
===============================================================================
