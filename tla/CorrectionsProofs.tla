-------------------------- MODULE CorrectionsProofs --------------------------
(***************************************************************************)
(* For any administrators, weights and bounds: a correction that is saved  *)
(* stores what the form shows, row and records tell the same weights, the  *)
(* trail tells every change and the fraud check follows.                   *)
(***************************************************************************)
EXTENDS Corrections, TLAPS

(* A second ticket is only written where there is a first. *)
FirstTicketFirst == "OUT" \in DOMAIN record => "IN" \in DOMAIN record

(* A window shows an earlier revision, or the transaction as it is. *)
ShowsARevision(a) ==
    /\ screen[a].row.revision <= row.revision
    /\ screen[a].row.revision = row.revision => screen[a] = Current

(* A request carries the items of its window's copy, and the handler that read the
   revision of that copy read the same. *)
RequestFits(a) ==
    request[a].stage # "none" =>
        /\ request[a].expected = screen[a].row.revision
        /\ request[a].items = ItemsFor(screen[a], request[a].entered)
        /\ request[a].stage = "read" => request[a].seen = screen[a]

Inv ==
    /\ TypeOK
    /\ FirstTicketFirst
    /\ RowFollowsRecords
    /\ FraudFollowsWeights
    /\ \A a \in Admins : ShowsARevision(a) /\ RequestFits(a)

-----------------------------------------------------------------------------
(* What ItemsFor makes of a form: for every entry that differs from the row an item
   for the record it is taken from or, without that record, for the field. *)
LEMMA ItemsMeaning ==
    ASSUME NEW copy, IsCopy(copy), NEW entered \in [Fields -> Nat]
    PROVE  LET items == ItemsFor(copy, entered)
           IN  /\ IsPartial(items, Places)
               /\ \A field \in Fields : field \in DOMAIN items <=>
                      /\ entered[field] # copy.row[field]
                      /\ SourceOf(field) \notin DOMAIN copy.record \/ field = "actual"
               /\ \A field \in Fields : SourceOf(field) \in DOMAIN items <=>
                      /\ entered[field] # copy.row[field]
                      /\ SourceOf(field) \in DOMAIN copy.record
               /\ \A field \in Fields :
                      /\ field \in DOMAIN items => items[field] = entered[field]
                      /\ SourceOf(field) \in DOMAIN items =>
                             items[SourceOf(field)] = entered[field]
<1> DEFINE changed == {field \in Fields : entered[field] # copy.row[field]}
           places == UNION {PlacesOf(copy, field) : field \in changed}
           items == ItemsFor(copy, entered)
<1>1. /\ SourceOf("gross") = "IN" /\ SourceOf("tare") = "OUT"
      /\ SourceOf("actual") = "WAREHOUSE"
  BY DEF SourceOf
<1>2. \A field \in Fields : PlacesOf(copy, field) \subseteq {field, SourceOf(field)}
  BY DEF PlacesOf
<1>3. \A f, g \in Fields : f # g =>
          {f, SourceOf(f)} \cap {g, SourceOf(g)} = {}
  BY <1>1 DEF Fields
<1>4. \A field \in changed : \A place \in PlacesOf(copy, field) :
          (CHOOSE f \in changed : place \in PlacesOf(copy, f)) = field
  <2> SUFFICES ASSUME NEW field \in changed, NEW place \in PlacesOf(copy, field)
               PROVE  (CHOOSE f \in changed : place \in PlacesOf(copy, f)) = field
    OBVIOUS
  <2>1. \A f \in changed : place \in PlacesOf(copy, f) => f = field
    BY <1>2, <1>3
  <2> QED BY <2>1
<1>5. /\ DOMAIN items = places
      /\ \A field \in changed : \A place \in PlacesOf(copy, field) :
            place \in places /\ items[place] = entered[field]
  BY <1>4 DEF ItemsFor
<1>6. \A place \in places : \E field \in changed : place \in PlacesOf(copy, field)
  OBVIOUS
<1>7. IsPartial(items, Places)
  <2>1. places \subseteq Places
    BY <1>1, <1>2 DEF Places, Fields, Kinds
  <2>2. \A place \in places : items[place] \in Nat
    BY <1>5, <1>6
  <2>3. items = [place \in DOMAIN items |-> items[place]]
    BY DEF ItemsFor
  <2> QED BY <1>5, <2>1, <2>2, <2>3 DEF IsPartial
<1>8. ASSUME NEW field \in Fields
      PROVE  /\ field \in places <=>
                    /\ field \in changed
                    /\ SourceOf(field) \notin DOMAIN copy.record \/ field = "actual"
             /\ SourceOf(field) \in places <=>
                    field \in changed /\ SourceOf(field) \in DOMAIN copy.record
  <2>1. /\ field \in PlacesOf(copy, field) <=>
               SourceOf(field) \notin DOMAIN copy.record \/ field = "actual"
        /\ SourceOf(field) \in PlacesOf(copy, field) <=> SourceOf(field) \in DOMAIN copy.record
    BY <1>1 DEF PlacesOf, Fields
  <2>2. \A g \in Fields : g # field =>
            field \notin PlacesOf(copy, g) /\ SourceOf(field) \notin PlacesOf(copy, g)
    BY <1>2, <1>3
  <2> QED BY <1>6, <2>1, <2>2
<1>9. ASSUME NEW field \in Fields
      PROVE  /\ field \in DOMAIN items => items[field] = entered[field]
             /\ SourceOf(field) \in DOMAIN items => items[SourceOf(field)] = entered[field]
  <2>1. /\ field \in PlacesOf(copy, field) <=>
               SourceOf(field) \notin DOMAIN copy.record \/ field = "actual"
        /\ SourceOf(field) \in PlacesOf(copy, field) <=> SourceOf(field) \in DOMAIN copy.record
    BY <1>1 DEF PlacesOf, Fields
  <2> QED BY <1>5, <1>8, <2>1
<1> QED BY <1>5, <1>7, <1>8, <1>9

-----------------------------------------------------------------------------
(* The fields of the row that records are repeated in, for either process. *)
LEMMA FieldsOfKinds ==
    /\ \A k \in Kinds : FieldOf(k) \in Fields
    /\ \A k, l \in Kinds : FieldOf(k) = FieldOf(l) => k = l
    /\ process # "GBJ" => \A field \in Fields : FieldOf(SourceOf(field)) = field
    /\ process = "GBJ" => /\ FieldOf("IN") = "tare" /\ FieldOf("OUT") = "gross"
                          /\ FieldOf("WAREHOUSE") = "actual"
    /\ \A field \in Fields : SourceOf(field) \in Kinds
    /\ \A k \in Kinds : \E field \in Fields : SourceOf(field) = k
<1>1. /\ SourceOf("gross") = "IN" /\ SourceOf("tare") = "OUT"
      /\ SourceOf("actual") = "WAREHOUSE"
  BY DEF SourceOf
<1>2. /\ FieldOf("WAREHOUSE") = "actual"
      /\ process = "GBJ" => FieldOf("IN") = "tare" /\ FieldOf("OUT") = "gross"
      /\ process # "GBJ" => FieldOf("IN") = "gross" /\ FieldOf("OUT") = "tare"
  BY DEF FieldOf
<1> QED BY <1>1, <1>2 DEF Fields, Kinds

(* What becomes of a row whose records it repeats: a record with an item gives its
   field the item's value; one without keeps its field as it was. *)
LEMMA ProposedMeaning ==
    ASSUME NEW copy, IsCopy(copy), NEW entered \in [Fields -> Nat],
           "OUT" \in DOMAIN copy.record => "IN" \in DOMAIN copy.record
    PROVE  LET items == ItemsFor(copy, entered)
               weights == Proposed(copy, items)
           IN  /\ weights \in [Fields -> Nat]
               /\ \A field \in Fields :
                     /\ field \notin DOMAIN items
                     /\ \A k \in Kinds \cap DOMAIN items : FieldOf(k) # field
                     => weights[field] = copy.row[field]
               /\ \A k \in Kinds \cap DOMAIN items : weights[FieldOf(k)] = items[k]
               /\ process # "GBJ" => \A field \in Fields : weights[field] = entered[field]
               /\ process # "GBJ" \/ "OUT" \in DOMAIN copy.record =>
                     /\ \A field \in Fields \cap DOMAIN items : weights[field] = items[field]
                     /\ \A k \in DOMAIN copy.record \ DOMAIN items :
                           weights[FieldOf(k)] = copy.row[FieldOf(k)]
<1> DEFINE items == ItemsFor(copy, entered)
           weights == Proposed(copy, items)
<1> HIDE DEF items
<1>1. /\ IsPartial(items, Places)
      /\ \A field \in Fields : field \in DOMAIN items <=>
             /\ entered[field] # copy.row[field]
             /\ SourceOf(field) \notin DOMAIN copy.record \/ field = "actual"
      /\ \A field \in Fields : SourceOf(field) \in DOMAIN items <=>
             /\ entered[field] # copy.row[field]
             /\ SourceOf(field) \in DOMAIN copy.record
      /\ \A field \in Fields :
             /\ field \in DOMAIN items => items[field] = entered[field]
             /\ SourceOf(field) \in DOMAIN items => items[SourceOf(field)] = entered[field]
  BY ItemsMeaning DEF items
<1>2. /\ \A field \in Fields : copy.row[field] \in Nat
      /\ \A place \in DOMAIN items : items[place] \in Nat
      /\ DOMAIN copy.record \subseteq Kinds
  BY <1>1 DEF IsCopy, IsPartial, Row, Fields
<1>3. \A k \in Kinds \cap DOMAIN items : weights[FieldOf(k)] = items[k]
  <2> SUFFICES ASSUME NEW k \in Kinds \cap DOMAIN items
               PROVE  weights[FieldOf(k)] = items[k]
    OBVIOUS
  <2>1. {l \in Kinds \cap DOMAIN items : FieldOf(l) = FieldOf(k)} = {k}
    BY FieldsOfKinds
  <2>2. (CHOOSE l \in {l \in Kinds \cap DOMAIN items : FieldOf(l) = FieldOf(k)} : TRUE) = k
    BY <2>1
  <2> QED BY <2>1, <2>2, FieldsOfKinds DEF Proposed
<1>4. \A field \in Fields :
          (\A k \in Kinds \cap DOMAIN items : FieldOf(k) # field) =>
              weights[field] = IF field \in DOMAIN items THEN items[field] ELSE copy.row[field]
  <2> SUFFICES ASSUME NEW field \in Fields,
                      \A k \in Kinds \cap DOMAIN items : FieldOf(k) # field
               PROVE  weights[field] =
                          IF field \in DOMAIN items THEN items[field] ELSE copy.row[field]
    OBVIOUS
  <2>1. {k \in Kinds \cap DOMAIN items : FieldOf(k) = field} = {}
    OBVIOUS
  <2> QED BY <2>1 DEF Proposed
<1>5. weights \in [Fields -> Nat]
  <2>1. weights = [field \in Fields |-> weights[field]]
    BY DEF Proposed
  <2>2. ASSUME NEW field \in Fields PROVE weights[field] \in Nat
    <3>1. CASE \E k \in Kinds \cap DOMAIN items : FieldOf(k) = field
      BY <3>1, <1>2, <1>3
    <3>2. CASE \A k \in Kinds \cap DOMAIN items : FieldOf(k) # field
      BY <3>2, <1>2, <1>4
    <3> QED BY <3>1, <3>2
  <2> QED BY <2>1, <2>2
<1>6. ASSUME process # "GBJ", NEW field \in Fields PROVE weights[field] = entered[field]
  <2>1. FieldOf(SourceOf(field)) = field /\ SourceOf(field) \in Kinds
    BY <1>6, FieldsOfKinds
  <2>2. CASE SourceOf(field) \in DOMAIN items
    BY <2>1, <2>2, <1>1, <1>3
  <2>3. CASE SourceOf(field) \notin DOMAIN items
    <3>1. \A k \in Kinds \cap DOMAIN items : FieldOf(k) # field
      BY <2>1, <2>3, FieldsOfKinds
    <3> QED BY <3>1, <2>3, <1>1, <1>4
  <2> QED BY <2>2, <2>3
<1>7. ASSUME process # "GBJ" \/ "OUT" \in DOMAIN copy.record,
             NEW field \in Fields \cap DOMAIN items
      PROVE  weights[field] = items[field]
  <2>1. CASE process # "GBJ"
    BY <2>1, <1>1, <1>6
  <2>2. CASE process = "GBJ"
    <3>1. field = "actual"
      BY <1>1, <1>7, <2>2 DEF Fields, SourceOf
    <3>2. CASE "WAREHOUSE" \in DOMAIN items
      <4>1. items["WAREHOUSE"] = entered["actual"] /\ items["actual"] = entered["actual"]
        BY <1>1, <3>1, <3>2 DEF Fields, SourceOf
      <4> QED BY <4>1, <3>1, <3>2, <1>3, <2>2, FieldsOfKinds DEF Kinds
    <3>3. CASE "WAREHOUSE" \notin DOMAIN items
      <4>1. \A k \in Kinds \cap DOMAIN items : FieldOf(k) # field
        BY <3>1, <3>3, <2>2, FieldsOfKinds DEF Kinds
      <4> QED BY <4>1, <1>4
    <3> QED BY <3>2, <3>3
  <2> QED BY <2>1, <2>2
<1>8. ASSUME process # "GBJ" \/ "OUT" \in DOMAIN copy.record,
             NEW k \in DOMAIN copy.record \ DOMAIN items
      PROVE  weights[FieldOf(k)] = copy.row[FieldOf(k)]
  <2>1. k \in Kinds /\ FieldOf(k) \in Fields
    BY <1>2, FieldsOfKinds
  <2>2. \A l \in Kinds \cap DOMAIN items : FieldOf(l) # FieldOf(k)
    BY <2>1, FieldsOfKinds
  <2>3. FieldOf(k) \notin DOMAIN items
    <3>1. CASE process # "GBJ"
      <4>1. PICK field \in Fields : SourceOf(field) = k
        BY <2>1, FieldsOfKinds
      <4>2. FieldOf(k) = field
        BY <3>1, <4>1, FieldsOfKinds
      <4> QED BY <4>1, <4>2, <1>1, <1>8
    <3>2. CASE process = "GBJ"
      <4>1. /\ "IN" \in DOMAIN copy.record /\ "OUT" \in DOMAIN copy.record
            /\ "gross" \notin DOMAIN items /\ "tare" \notin DOMAIN items
        BY <3>2, <1>1, <1>8 DEF Fields, SourceOf
      <4>2. k = "WAREHOUSE" => "actual" \notin DOMAIN items
        BY <1>1, <1>8 DEF Fields, SourceOf
      <4> QED BY <4>1, <4>2, <3>2, <2>1, FieldsOfKinds DEF Kinds
    <3> QED BY <3>1, <3>2
  <2> QED BY <2>1, <2>2, <2>3, <1>4
<1> QED BY <1>3, <1>4, <1>5, <1>6, <1>7, <1>8 DEF items

-----------------------------------------------------------------------------
(* A correction that is saved was made of the transaction as it is, and makes of
   it what Proposed says. *)
LEMMA SaveEffect ==
    ASSUME Inv, NEW a \in Admins, Save(a)
    PROVE  LET items == ItemsFor(Current, request[a].entered)
               weights == Proposed(Current, items)
           IN  /\ IsCopy(Current)
               /\ request[a].items = items
               /\ weights \in [Fields -> Nat]
               /\ row' \in Row
               /\ row'.revision = row.revision + 1
               /\ \A field \in Fields : row'[field] = weights[field]
               /\ record' = [kind \in DOMAIN record |->
                                IF kind \in DOMAIN items THEN items[kind] ELSE record[kind]]
               /\ trail' = TrailOf(Current, items)
               /\ fraud' = CheckOf(row')
               /\ request' = [request EXCEPT ![a] = NoRequest]
               /\ UNCHANGED <<process, screen>>
<1> DEFINE items == ItemsFor(Current, request[a].entered)
           weights == Proposed(Current, items)
           written == {field \in Fields : \/ field \in DOMAIN items
                                          \/ \E kind \in Kinds \cap DOMAIN items : FieldOf(kind) = field}
<1> HIDE DEF items, weights
<1>1. /\ request[a].items = items
      /\ request[a].seen = Current
      /\ request[a].entered \in [Fields -> Nat]
  BY DEF Inv, TypeOK, IsRequest, ShowsARevision, RequestFits, Save, Claimed, items
<1>2. IsCopy(Current) /\ Current.row = row /\ Current.record = record /\ row \in Row
  BY DEF Inv, TypeOK, Current, IsCopy
<1>3. /\ weights \in [Fields -> Nat]
      /\ \A field \in Fields :
            /\ field \notin DOMAIN items
            /\ \A k \in Kinds \cap DOMAIN items : FieldOf(k) # field
            => weights[field] = row[field]
  BY <1>1, <1>2, ProposedMeaning DEF Inv, FirstTicketFirst, items, weights
<1>4. /\ request[a].stage = "read"
      /\ Acceptable(Current, items)
      /\ row' = [revision |-> row.revision + 1,
                 gross |-> [field \in Fields |->
                               IF field \in written THEN weights[field] ELSE row[field]].gross,
                 tare |-> [field \in Fields |->
                               IF field \in written THEN weights[field] ELSE row[field]].tare,
                 actual |-> [field \in Fields |->
                               IF field \in written THEN weights[field] ELSE row[field]].actual,
                 net |-> IF BothKnown(weights) THEN weights.gross - weights.tare ELSE row.net]
      /\ record' = [kind \in DOMAIN record |->
                       IF kind \in DOMAIN items THEN items[kind] ELSE record[kind]]
      /\ trail' = TrailOf(Current, items)
      /\ fraud' = CheckOf(row')
      /\ request' = [request EXCEPT ![a] = NoRequest]
      /\ UNCHANGED <<process, screen>>
  BY <1>1 DEF Save, Answered, weights
<1>5. \A field \in Fields :
         [f \in Fields |-> IF f \in written THEN weights[f] ELSE row[f]][field] = weights[field]
  BY <1>3
<1>6. /\ row'.revision = row.revision + 1
      /\ row'.gross = weights.gross /\ row'.tare = weights.tare /\ row'.actual = weights.actual
      /\ row'.net = IF BothKnown(weights) THEN weights.gross - weights.tare ELSE row.net
      /\ row' = [revision |-> row'.revision, gross |-> row'.gross, tare |-> row'.tare,
                 actual |-> row'.actual, net |-> row'.net]
  BY <1>4, <1>5 DEF Fields
<1>7. BothKnown(weights) => weights.gross >= weights.tare
  BY <1>4 DEF Acceptable, weights
<1>8. row' \in Row
  <2>1. /\ weights.gross \in Nat /\ weights.tare \in Nat /\ weights.actual \in Nat
        /\ row.revision \in Nat /\ row.net \in Nat
    BY <1>2, <1>3 DEF Fields, Row
  <2>2. row'.net \in Nat /\ row'.revision \in Nat
    BY <1>6, <1>7, <2>1
  <2> QED BY <1>6, <2>1, <2>2 DEF Row
<1>9. \A field \in Fields : row'[field] = weights[field]
  BY <1>6 DEF Fields
<1> QED BY <1>1, <1>2, <1>3, <1>4, <1>6, <1>8, <1>9 DEF items, weights

(* What every other step leaves alone. *)
LEMMA Quiet ==
    ASSUME Inv, NEW a \in Admins, Load(a) \/ Submit(a) \/ Receive(a) \/ Refuse(a) \/ Collide(a)
    PROVE  UNCHANGED <<process, row, record, fraud, trail>>
BY DEF Load, Submit, Receive, Refuse, Collide

LEMMA NoRequestType == IsRequest(NoRequest) /\ NoRequest.stage = "none"
<1>1. IsPartial(<<>>, Kinds) /\ IsPartial(<<>>, Places)
  BY DEF IsPartial
<1>2. IsCopy(NoCopy)
  BY <1>1 DEF IsCopy, NoCopy, Row
<1> QED BY <1>1, <1>2 DEF IsRequest, NoRequest

-----------------------------------------------------------------------------
LEMMA InitInv == Init => Inv
<1> SUFFICES ASSUME Init PROVE Inv
  OBVIOUS
<1> USE CorrectionAssumption
<1>1. /\ IsPartial(record, Kinds)
      /\ process \in {"inbound", "GBJ"} /\ process \in Processes
  BY DEF Init, IsPartial
<1>2. \A kind \in Kinds :
          /\ Weight(record, kind) \in Nat
          /\ kind \in DOMAIN record => Weight(record, kind) = record[kind]
          /\ kind \notin DOMAIN record => Weight(record, kind) = 0
  BY <1>1 DEF Weight, IsPartial
<1>3. \A gross, tare \in Nat : NetOf(gross, tare) \in Nat
  BY DEF NetOf
<1>4. row = RowOf(process, record) /\ row \in Row
  BY <1>1, <1>2, <1>3 DEF Init, RowOf, Row, Kinds
<1>5. IsCopy(Current) /\ Current.row = row /\ Current.record = record
  BY <1>1, <1>4 DEF IsCopy, Current
<1>6. TypeOK
  <2>1. fraud \subseteq [net : Nat, actual : Nat]
    BY <1>4 DEF Init, Row
  <2>2. screen = [a \in Admins |-> screen[a]] /\ \A a \in Admins : IsCopy(screen[a])
    BY <1>5 DEF Init
  <2>3. request = [a \in Admins |-> request[a]] /\ \A a \in Admins : IsRequest(request[a])
    BY NoRequestType DEF Init
  <2>4. DOMAIN trail = {}
    BY DEF Init
  <2> QED BY <1>1, <1>4, <2>1, <2>2, <2>3, <2>4 DEF TypeOK
<1>7. FirstTicketFirst
  BY DEF Init, Left, FirstTicketFirst
<1>8. RowFollowsRecords
  <2> SUFFICES ASSUME NEW kind \in DOMAIN record PROVE row[FieldOf(kind)] = record[kind]
    BY DEF RowFollowsRecords
  <2>1. kind \in Kinds
    BY <1>1 DEF IsPartial
  <2>2. CASE process = "GBJ"
    BY <2>1, <2>2, <1>2, <1>4, FieldsOfKinds DEF RowOf, Kinds
  <2>3. CASE process = "inbound"
    BY <2>1, <2>3, <1>2, <1>4 DEF RowOf, Kinds, FieldOf
  <2> QED BY <1>1, <2>2, <2>3
<1>9. FraudFollowsWeights
  <2> SUFFICES ASSUME row.net > 0, row.actual > 0
               PROVE  fraud = {[net |-> row.net, actual |-> row.actual]}
    BY DEF FraudFollowsWeights
  <2>1. row.net = NetOf(row.gross, row.tare) /\ row.actual # 0
    BY <1>4 DEF RowOf
  <2>2. row.gross # 0 /\ row.tare # 0
    BY <2>1 DEF NetOf
  <2>3. "OUT" \in DOMAIN record
    BY <2>2, <1>1, <1>2, <1>4 DEF RowOf, Kinds
  <2> QED BY <2>1, <2>3 DEF Init
<1>10. ASSUME NEW a \in Admins PROVE ShowsARevision(a) /\ RequestFits(a)
  <2>1. screen[a] = Current /\ request[a] = NoRequest
    BY DEF Init
  <2> QED BY <2>1, <1>4, <1>5, NoRequestType DEF ShowsARevision, RequestFits, Row
<1> QED BY <1>6, <1>7, <1>8, <1>9, <1>10 DEF Inv

(* A step of an administrator that leaves the transaction alone keeps the invariant
   when the window's copy is as before or current and the request still fits. *)
LEMMA QuietInv ==
    ASSUME Inv, NEW a \in Admins,
           UNCHANGED <<process, row, record, fraud, trail>>,
           NEW shown, NEW asked,
           screen' = [screen EXCEPT ![a] = shown], shown \in {screen[a], Current},
           request' = [request EXCEPT ![a] = asked], IsRequest(asked),
           asked.stage # "none" =>
               /\ asked.expected = shown.row.revision
               /\ asked.items = ItemsFor(shown, asked.entered)
               /\ asked.stage = "read" => asked.seen = shown
    PROVE  Inv'
<1>1. Current' = Current /\ IsCopy(Current) /\ Current.row = row /\ row.revision \in Nat
  BY DEF Inv, TypeOK, Current, IsCopy, Row
<1>2. /\ screen'[a] = shown /\ request'[a] = asked
      /\ \A b \in Admins \ {a} : screen'[b] = screen[b] /\ request'[b] = request[b]
  BY DEF Inv, TypeOK
<1>3. TypeOK'
  <2>1. screen' = [b \in Admins |-> screen'[b]] /\ \A b \in Admins : IsCopy(screen'[b])
    BY <1>1, <1>2 DEF Inv, TypeOK
  <2>2. request' = [b \in Admins |-> request'[b]] /\ \A b \in Admins : IsRequest(request'[b])
    BY <1>2 DEF Inv, TypeOK
  <2> QED BY <2>1, <2>2 DEF Inv, TypeOK
<1>4. FirstTicketFirst' /\ RowFollowsRecords' /\ FraudFollowsWeights'
  BY DEF Inv, FirstTicketFirst, RowFollowsRecords, Regular, FieldOf, FraudFollowsWeights
<1>5. ASSUME NEW b \in Admins PROVE ShowsARevision(b)' /\ RequestFits(b)'
  <2>1. ShowsARevision(b) /\ RequestFits(b)
    BY DEF Inv
  <2>2. CASE b = a
    BY <2>1, <2>2, <1>1, <1>2 DEF ShowsARevision, RequestFits
  <2>3. CASE b # a
    BY <2>1, <2>3, <1>1, <1>2 DEF ShowsARevision, RequestFits
  <2> QED BY <2>2, <2>3
<1> QED BY <1>3, <1>4, <1>5 DEF Inv

LEMMA AnsweredInv ==
    ASSUME Inv, NEW a \in Admins, Answered(a),
           UNCHANGED <<process, row, record, fraud, trail, screen>>
    PROVE  Inv'
<1>1. screen' = [screen EXCEPT ![a] = screen[a]]
  BY DEF Inv, TypeOK
<1> QED BY <1>1, NoRequestType, QuietInv DEF Answered

LEMMA LoadInv == ASSUME Inv, NEW a \in Admins, Load(a) PROVE Inv'
<1>1. request' = [request EXCEPT ![a] = request[a]] /\ IsRequest(request[a])
  BY DEF Inv, TypeOK, Load
<1> QED BY <1>1, QuietInv DEF Load

LEMMA SubmitInv == ASSUME Inv, NEW a \in Admins, Submit(a) PROVE Inv'
<1>1. PICK entered \in [Fields -> Weights \cup {0}] :
          request' = [request EXCEPT ![a] =
              [stage |-> "sent", items |-> ItemsFor(screen[a], entered), entered |-> entered,
               expected |-> screen[a].row.revision, seen |-> NoCopy]]
  BY DEF Submit
<1>2. entered \in [Fields -> Nat] /\ IsCopy(screen[a]) /\ screen[a].row.revision \in Nat
  BY CorrectionAssumption DEF Inv, TypeOK, IsCopy, Row
<1> DEFINE asked == [stage |-> "sent", items |-> ItemsFor(screen[a], entered), entered |-> entered,
                     expected |-> screen[a].row.revision, seen |-> NoCopy]
<1>3. IsPartial(ItemsFor(screen[a], entered), Places)
  BY <1>2, ItemsMeaning
<1>4. IsCopy(NoCopy)
  BY NoRequestType DEF IsRequest, NoRequest
<1>5. IsRequest(asked)
  BY <1>2, <1>3, <1>4 DEF IsRequest
<1>6. screen' = [screen EXCEPT ![a] = screen[a]]
  BY DEF Inv, TypeOK, Submit
<1>7. /\ asked.stage = "sent" /\ asked.expected = screen[a].row.revision
      /\ asked.items = ItemsFor(screen[a], asked.entered)
  OBVIOUS
<1>8. UNCHANGED <<process, row, record, fraud, trail>>
  BY DEF Submit
<1> HIDE DEF asked
<1> QED BY <1>1, <1>5, <1>6, <1>7, <1>8, QuietInv DEF asked

LEMMA ReceiveInv == ASSUME Inv, NEW a \in Admins, Receive(a) PROVE Inv'
<1>1. CASE row.revision = request[a].expected
  <2> DEFINE asked == [stage |-> "read", items |-> request[a].items,
                       expected |-> request[a].expected, entered |-> request[a].entered,
                       seen |-> Current]
  <2>1. IsRequest(request[a]) /\ RequestFits(a) /\ ShowsARevision(a) /\ request[a].stage = "sent"
    BY DEF Inv, TypeOK, Receive
  <2>2. IsCopy(Current)
    BY DEF Inv, TypeOK, Current, IsCopy
  <2>3. request' = [request EXCEPT ![a] = asked]
    BY <1>1 DEF Receive, Inv, TypeOK
  <2>4. /\ asked.stage = "read" /\ asked.seen = Current
        /\ asked.items = request[a].items /\ asked.expected = request[a].expected
        /\ asked.entered = request[a].entered
    OBVIOUS
  <2>5. IsRequest(asked)
    BY <2>1, <2>2 DEF IsRequest
  <2>6. screen[a] = Current
    BY <1>1, <2>1 DEF RequestFits, ShowsARevision
  <2>7. screen' = [screen EXCEPT ![a] = screen[a]]
    BY DEF Inv, TypeOK, Receive
  <2>8. UNCHANGED <<process, row, record, fraud, trail>>
    BY DEF Receive
  <2>9. /\ asked.expected = screen[a].row.revision
        /\ asked.items = ItemsFor(screen[a], asked.entered)
        /\ asked.seen = screen[a]
    BY <2>1, <2>4, <2>6 DEF RequestFits
  <2> HIDE DEF asked
  <2> QED BY <2>3, <2>5, <2>7, <2>8, <2>9, QuietInv
<1>2. CASE row.revision # request[a].expected
  BY <1>2, AnsweredInv DEF Receive
<1> QED BY <1>1, <1>2

-----------------------------------------------------------------------------
(* Of a saved correction: every item's value stands where it belongs, and what no
   item speaks of stays as it was. *)
LEMMA SaveKeepsAgreement ==
    ASSUME Inv, NEW a \in Admins, Save(a)
    PROVE  LET items == request[a].items
           IN  /\ IsPartial(items, Places)
               /\ \A k \in Kinds \cap DOMAIN items :
                     k \in DOMAIN record /\ row'[FieldOf(k)] = items[k]
               /\ \A field \in Fields :
                     /\ field \notin DOMAIN items
                     /\ \A k \in Kinds \cap DOMAIN items : FieldOf(k) # field
                     => row'[field] = row[field]
               /\ process # "GBJ" =>
                     \A field \in Fields : row'[field] = request[a].entered[field]
               /\ Regular =>
                     /\ \A field \in Fields \cap DOMAIN items : row'[field] = items[field]
                     /\ \A k \in DOMAIN record \ DOMAIN items :
                           row'[FieldOf(k)] = row[FieldOf(k)]
<1> DEFINE entered == request[a].entered
           items == ItemsFor(Current, entered)
           weights == Proposed(Current, items)
<1>1. /\ IsCopy(Current) /\ request[a].items = items
      /\ \A field \in Fields : row'[field] = weights[field]
  BY SaveEffect
<1>2. /\ entered \in [Fields -> Nat]
      /\ Current.row = row /\ Current.record = record /\ process \in {"inbound", "GBJ"}
      /\ "OUT" \in DOMAIN Current.record => "IN" \in DOMAIN Current.record
  BY CorrectionAssumption DEF Inv, TypeOK, IsRequest, Current, FirstTicketFirst
<1>3. /\ IsPartial(items, Places)
      /\ \A field \in Fields : SourceOf(field) \in DOMAIN items =>
             SourceOf(field) \in DOMAIN record
  BY <1>1, <1>2, ItemsMeaning
<1>4. /\ \A field \in Fields :
            /\ field \notin DOMAIN items
            /\ \A k \in Kinds \cap DOMAIN items : FieldOf(k) # field
            => weights[field] = row[field]
      /\ \A k \in Kinds \cap DOMAIN items : weights[FieldOf(k)] = items[k]
      /\ process # "GBJ" => \A field \in Fields : weights[field] = entered[field]
      /\ Regular =>
            /\ \A field \in Fields \cap DOMAIN items : weights[field] = items[field]
            /\ \A k \in DOMAIN record \ DOMAIN items : weights[FieldOf(k)] = row[FieldOf(k)]
  BY <1>1, <1>2, ProposedMeaning DEF Regular
<1> HIDE DEF entered, items, weights
<1>5. \A k \in Kinds : FieldOf(k) \in Fields /\ \E field \in Fields : SourceOf(field) = k
  BY FieldsOfKinds
<1>6. DOMAIN record \subseteq Kinds
  BY DEF Inv, TypeOK, IsPartial
<1> QED BY <1>1, <1>3, <1>4, <1>5, <1>6 DEF entered

LEMMA SaveInv == ASSUME Inv, NEW a \in Admins, Save(a) PROVE Inv'
<1> DEFINE items == request[a].items
<1>1. /\ IsPartial(items, Places)
      /\ \A k \in Kinds \cap DOMAIN items :
            k \in DOMAIN record /\ row'[FieldOf(k)] = items[k]
      /\ Regular => \A k \in DOMAIN record \ DOMAIN items :
                        row'[FieldOf(k)] = row[FieldOf(k)]
  BY SaveKeepsAgreement
<1>2. /\ IsCopy(Current)
      /\ row' \in Row /\ row'.revision = row.revision + 1
      /\ record' = [kind \in DOMAIN record |->
                       IF kind \in DOMAIN items THEN items[kind] ELSE record[kind]]
      /\ trail' = TrailOf(Current, items)
      /\ fraud' = CheckOf(row')
      /\ request' = [request EXCEPT ![a] = NoRequest]
      /\ UNCHANGED <<process, screen>>
  BY SaveEffect
<1> HIDE DEF items
<1>3. /\ row \in Row /\ IsPartial(record, Kinds)
      /\ Current.row = row /\ Current.record = record
      /\ DOMAIN record' = DOMAIN record
  BY <1>2 DEF Inv, TypeOK, Current
<1>4. IsPartial(record', Kinds)
  BY <1>1, <1>2, <1>3 DEF IsPartial
<1>5. fraud' \subseteq [net : Nat, actual : Nat]
  <2>1. row'.net \in Nat /\ row'.actual \in Nat
    BY <1>2 DEF Row
  <2> QED BY <2>1, <1>2 DEF CheckOf, Inv, TypeOK
<1>6. /\ DOMAIN trail' \subseteq Places
      /\ \A place \in DOMAIN trail' : trail'[place] \in [old : Nat, new : Nat]
  <2>1. \A place \in DOMAIN items : At(Current, place) \in Nat /\ items[place] \in Nat
    <3> SUFFICES ASSUME NEW place \in DOMAIN items
                 PROVE  At(Current, place) \in Nat /\ items[place] \in Nat
      OBVIOUS
    <3>1. CASE place \in Fields
      BY <3>1, <1>1, <1>3 DEF At, Fields, Row, IsPartial
    <3>2. CASE place \notin Fields
      BY <3>2, <1>1, <1>3 DEF At, Places, IsPartial
    <3> QED BY <3>1, <3>2
  <2> QED BY <2>1, <1>1, <1>2 DEF TrailOf, IsPartial
<1>7. /\ \A b \in Admins : screen'[b] = screen[b]
      /\ request'[a] = NoRequest
      /\ \A b \in Admins \ {a} : request'[b] = request[b]
  BY <1>2 DEF Inv, TypeOK
<1>8. TypeOK'
  <2>1. request' = [b \in Admins |-> request'[b]] /\ \A b \in Admins : IsRequest(request'[b])
    BY <1>2, <1>7, NoRequestType DEF Inv, TypeOK
  <2> QED BY <2>1, <1>2, <1>4, <1>5, <1>6 DEF Inv, TypeOK
<1>9. FirstTicketFirst'
  BY <1>3 DEF Inv, FirstTicketFirst
<1>10. RowFollowsRecords'
  <2> SUFFICES ASSUME Regular', NEW kind \in DOMAIN record'
               PROVE  row'[FieldOf(kind)'] = record'[kind]
    BY DEF RowFollowsRecords
  <2>1. /\ Regular /\ kind \in DOMAIN record /\ kind \in Kinds
        /\ FieldOf(kind)' = FieldOf(kind)
    BY <1>2, <1>3 DEF Regular, FieldOf, IsPartial
  <2>2. CASE kind \in DOMAIN items
    BY <2>1, <2>2, <1>1, <1>2
  <2>3. CASE kind \notin DOMAIN items
    BY <2>1, <2>3, <1>1, <1>2 DEF Inv, RowFollowsRecords
  <2> QED BY <2>2, <2>3
<1>11. FraudFollowsWeights'
  BY <1>2 DEF CheckOf, FraudFollowsWeights, Row
<1>12. ASSUME NEW b \in Admins PROVE ShowsARevision(b)' /\ RequestFits(b)'
  <2>1. ShowsARevision(b) /\ RequestFits(b)
    BY DEF Inv
  <2>2. screen[b].row.revision \in Nat /\ row.revision \in Nat
    BY DEF Inv, TypeOK, IsCopy, Row
  <2>3. ShowsARevision(b)'
    BY <2>1, <2>2, <1>2, <1>7 DEF ShowsARevision
  <2>4. RequestFits(b)'
    <3>1. CASE b = a
      BY <3>1, <1>7, NoRequestType DEF RequestFits
    <3>2. CASE b # a
      BY <3>2, <2>1, <1>7 DEF RequestFits
    <3> QED BY <3>1, <3>2
  <2> QED BY <2>3, <2>4
<1> QED BY <1>8, <1>9, <1>10, <1>11, <1>12 DEF Inv

-----------------------------------------------------------------------------
LEMMA StepInv == Inv /\ [Next]_vars => Inv'
<1> SUFFICES ASSUME Inv, [Next]_vars PROVE Inv'
  OBVIOUS
<1>1. CASE UNCHANGED vars
  BY <1>1 DEF vars, Inv, TypeOK, FirstTicketFirst, RowFollowsRecords, Regular, FieldOf,
              FraudFollowsWeights, ShowsARevision, RequestFits, Current
<1>2. ASSUME NEW a \in Admins,
             Load(a) \/ Submit(a) \/ Receive(a) \/ Refuse(a) \/ Collide(a) \/ Save(a)
      PROVE  Inv'
  <2>1. CASE Load(a)
    BY <2>1, LoadInv
  <2>2. CASE Submit(a)
    BY <2>2, SubmitInv
  <2>3. CASE Receive(a)
    BY <2>3, ReceiveInv
  <2>4. CASE Refuse(a)
    BY <2>4, AnsweredInv DEF Refuse
  <2>5. CASE Collide(a)
    BY <2>5, AnsweredInv DEF Collide
  <2>6. CASE Save(a)
    BY <2>6, SaveInv
  <2> QED BY <1>2, <2>1, <2>2, <2>3, <2>4, <2>5, <2>6
<1> QED BY <1>1, <1>2 DEF Next

LEMMA Invariant == Spec => []Inv
BY InitInv, StepInv, PTL DEF Spec

(* The types of all variables, in particular that no correction makes a weight or a
   net weight negative. *)
THEOREM CorrectionsTyped == Spec => []TypeOK
<1>1. Inv => TypeOK
  BY DEF Inv
<1> QED BY <1>1, Invariant, PTL

(* Whatever administrators correct, and in whatever order their windows were
   loaded, the row and its records tell the same weights. *)
THEOREM RowsFollow == Spec => []RowFollowsRecords
<1>1. Inv => RowFollowsRecords
  BY DEF Inv
<1> QED BY <1>1, Invariant, PTL

(* The newest fraud check compares the weights as they stand. *)
THEOREM FraudFollows == Spec => []FraudFollowsWeights
<1>1. Inv => FraudFollowsWeights
  BY DEF Inv
<1> QED BY <1>1, Invariant, PTL

-----------------------------------------------------------------------------
(* The step that raises the revision is a save; the one whose request it answers is
   the saving administrator's. *)
LEMMA SavesSave ==
    ASSUME Inv, [Next]_vars, row'.revision # row.revision
    PROVE  \E a \in Admins : Save(a) /\ \A b \in Admins : Saves(b) => b = a
<1>1. PICK a \in Admins :
          Load(a) \/ Submit(a) \/ Receive(a) \/ Refuse(a) \/ Collide(a) \/ Save(a)
  BY DEF Next, vars
<1>2. Save(a)
  BY <1>1, Quiet
<1>3. request' = [request EXCEPT ![a] = NoRequest]
  BY <1>2, SaveEffect
<1>4. ASSUME NEW b \in Admins, Saves(b), b # a PROVE FALSE
  BY <1>3, <1>4, NoRequestType DEF Saves, Inv, TypeOK
<1> QED BY <1>2, <1>4

(* A correction of a truck that brings goods stores the weights of the whole form,
   also those that were left as they were displayed. *)
THEOREM EnteredStored == Spec => EnteredIsStored
<1>1. ASSUME Inv, [Next]_vars, NEW a \in Admins, Saves(a), process = "inbound",
             NEW field \in Fields
      PROVE  row'[field] = request[a].entered[field]
  <2>1. Save(a)
    BY <1>1, SavesSave DEF Saves
  <2> QED BY <2>1, <1>1, SaveKeepsAgreement
<1>2. Inv /\ [Next]_vars =>
          [\A a \in Admins :
              Saves(a) /\ process = "inbound" =>
                  \A field \in Fields : row'[field] = request[a].entered[field]]_vars
  BY <1>1
<1> QED BY <1>2, Invariant, PTL DEF Spec, EnteredIsStored

(* So a corrected gross weight becomes the row's where only such trucks are
   corrected; what breaks it is told by the next theorem. *)
THEOREM InboundGrossIsCorrected ==
    ASSUME Processes \subseteq {"inbound"}
    PROVE  Spec => GrossIsCorrected
<1>1. ASSUME Inv, [Next]_vars, NEW a \in Admins, Saves(a)
      PROVE  row'.gross = request[a].entered.gross
  <2>1. Save(a)
    BY <1>1, SavesSave DEF Saves
  <2>2. process # "GBJ" /\ "gross" \in Fields
    BY <1>1 DEF Inv, TypeOK, Fields
  <2> QED BY <1>1, <2>1, <2>2, SaveKeepsAgreement
<1>2. Inv /\ [Next]_vars =>
          [\A a \in Admins : Saves(a) => row'.gross = request[a].entered.gross]_vars
  BY <1>1
<1> QED BY <1>2, Invariant, PTL DEF Spec, GrossIsCorrected

(* The weights of the row, exchanged: a new gross weight becomes the tare and a new
   tare the gross. *)
Exchanged(entered) ==
    /\ row'.tare = IF entered.gross # row.gross THEN entered.gross ELSE row.tare
    /\ row'.gross = IF entered.tare # row.tare THEN entered.tare ELSE row.gross
    /\ row'.actual = entered.actual

LEMMA SaveExchanges ==
    ASSUME Inv, NEW a \in Admins, Save(a), process = "GBJ", "OUT" \in DOMAIN record
    PROVE  Exchanged(request[a].entered)
<1> DEFINE entered == request[a].entered
           items == request[a].items
<1>1. /\ IsCopy(Current) /\ items = ItemsFor(Current, entered)
      /\ Current.row = row /\ Current.record = record
      /\ entered \in [Fields -> Nat]
      /\ "IN" \in DOMAIN record
  BY SaveEffect DEF Current, Inv, TypeOK, IsRequest, FirstTicketFirst
<1>2. /\ \A field \in Fields : field \in DOMAIN items <=>
             /\ entered[field] # row[field]
             /\ SourceOf(field) \notin DOMAIN record \/ field = "actual"
      /\ \A field \in Fields : SourceOf(field) \in DOMAIN items <=>
             /\ entered[field] # row[field]
             /\ SourceOf(field) \in DOMAIN record
      /\ \A field \in Fields :
             /\ field \in DOMAIN items => items[field] = entered[field]
             /\ SourceOf(field) \in DOMAIN items => items[SourceOf(field)] = entered[field]
  BY <1>1, ItemsMeaning
<1>3. /\ \A k \in Kinds \cap DOMAIN items : row'[FieldOf(k)] = items[k]
      /\ \A field \in Fields \cap DOMAIN items : row'[field] = items[field]
      /\ \A field \in Fields :
            /\ field \notin DOMAIN items
            /\ \A k \in Kinds \cap DOMAIN items : FieldOf(k) # field
            => row'[field] = row[field]
  BY SaveKeepsAgreement DEF Regular
<1> HIDE DEF entered, items
<1>4. /\ SourceOf("gross") = "IN" /\ SourceOf("tare") = "OUT"
      /\ SourceOf("actual") = "WAREHOUSE"
      /\ FieldOf("IN") = "tare" /\ FieldOf("OUT") = "gross"
      /\ FieldOf("WAREHOUSE") = "actual"
  BY FieldsOfKinds DEF SourceOf
<1>5. /\ "gross" \notin DOMAIN items /\ "tare" \notin DOMAIN items
      /\ "IN" \in DOMAIN items <=> entered.gross # row.gross
      /\ "OUT" \in DOMAIN items <=> entered.tare # row.tare
      /\ "IN" \in DOMAIN items => items["IN"] = entered.gross
      /\ "OUT" \in DOMAIN items => items["OUT"] = entered.tare
      /\ "actual" \in DOMAIN items <=> entered.actual # row.actual
      /\ "actual" \in DOMAIN items => items["actual"] = entered.actual
      /\ "WAREHOUSE" \in DOMAIN items => entered.actual # row.actual
  BY <1>1, <1>2, <1>4 DEF Fields
<1>6. row'.tare = IF entered.gross # row.gross THEN entered.gross ELSE row.tare
  <2>1. CASE "IN" \in DOMAIN items
    BY <2>1, <1>3, <1>4, <1>5 DEF Kinds
  <2>2. CASE "IN" \notin DOMAIN items
    BY <2>2, <1>3, <1>4, <1>5 DEF Kinds, Fields
  <2> QED BY <2>1, <2>2
<1>7. row'.gross = IF entered.tare # row.tare THEN entered.tare ELSE row.gross
  <2>1. CASE "OUT" \in DOMAIN items
    BY <2>1, <1>3, <1>4, <1>5 DEF Kinds
  <2>2. CASE "OUT" \notin DOMAIN items
    BY <2>2, <1>3, <1>4, <1>5 DEF Kinds, Fields
  <2> QED BY <2>1, <2>2
<1>8. row'.actual = entered.actual
  <2>1. CASE "actual" \in DOMAIN items
    BY <2>1, <1>3, <1>5 DEF Fields
  <2>2. CASE "actual" \notin DOMAIN items
    BY <2>2, <1>3, <1>4, <1>5 DEF Kinds, Fields
  <2> QED BY <2>1, <2>2
<1> QED BY <1>6, <1>7, <1>8 DEF Exchanged, entered

(* correctOperationLog and TruckDetailsModal: a saved correction of a truck that took
   finished goods away, and has both its tickets, exchanges its weights, every time
   and whatever the window showed.  Only an entry that was left alone is right. *)
THEOREM GbjWeightsExchanged ==
    Spec => [][\A a \in Admins :
                  Saves(a) /\ process = "GBJ" /\ "OUT" \in DOMAIN record =>
                      Exchanged(request[a].entered)]_vars
<1>1. ASSUME Inv, [Next]_vars, NEW a \in Admins, Saves(a),
             process = "GBJ", "OUT" \in DOMAIN record
      PROVE  Exchanged(request[a].entered)
  <2>1. Save(a)
    BY <1>1, SavesSave DEF Saves
  <2> QED BY <1>1, <2>1, SaveExchanges
<1>2. Inv /\ [Next]_vars =>
          [\A a \in Admins :
              Saves(a) /\ process = "GBJ" /\ "OUT" \in DOMAIN record =>
                  Exchanged(request[a].entered)]_vars
  BY <1>1
<1> QED BY <1>2, Invariant, PTL DEF Spec

(* What the trail of a correction calls old stood before it, what it calls new
   stands after it, and no weight of the row or of a record changed without it. *)
THEOREM TrailTells == Spec => TrailTellsAll
<1>1. ASSUME Inv, [Next]_vars, Regular, row'.revision # row.revision
      PROVE  /\ \A place \in DOMAIN trail' :
                   /\ trail'[place].old = At(Current, place)
                   /\ trail'[place].new = At(Current', place)
             /\ \A kind \in DOMAIN record :
                   record'[kind] # record[kind] => kind \in DOMAIN trail'
             /\ \A field \in Fields :
                   row'[field] # row[field] =>
                       \/ field \in DOMAIN trail'
                       \/ \E kind \in Kinds \cap DOMAIN trail' : FieldOf(kind) = field
  <2>1. PICK a \in Admins : Save(a)
    BY <1>1, SavesSave
  <2> DEFINE items == request[a].items
  <2>2. /\ trail' = TrailOf(Current, items)
        /\ record' = [kind \in DOMAIN record |->
                         IF kind \in DOMAIN items THEN items[kind] ELSE record[kind]]
    BY <1>1, <2>1, SaveEffect
  <2>3. /\ IsPartial(items, Places)
        /\ \A k \in Kinds \cap DOMAIN items : k \in DOMAIN record
        /\ \A field \in Fields \cap DOMAIN items : row'[field] = items[field]
        /\ \A field \in Fields :
              /\ field \notin DOMAIN items
              /\ \A k \in Kinds \cap DOMAIN items : FieldOf(k) # field
              => row'[field] = row[field]
    BY <1>1, <2>1, SaveKeepsAgreement
  <2> HIDE DEF items
  <2>4. /\ DOMAIN trail' = DOMAIN items
        /\ \A place \in DOMAIN items :
              trail'[place] = [old |-> At(Current, place), new |-> items[place]]
    BY <2>2 DEF TrailOf
  <2>5. \A place \in DOMAIN items : At(Current', place) = items[place]
    BY <2>2, <2>3 DEF At, Current, Places, IsPartial
  <2>6. \A kind \in DOMAIN record : record'[kind] # record[kind] => kind \in DOMAIN items
    BY <2>2
  <2> QED BY <2>3, <2>4, <2>5, <2>6
<1>2. Inv /\ [Next]_vars =>
          [Regular /\ row'.revision # row.revision =>
              /\ \A place \in DOMAIN trail' :
                    /\ trail'[place].old = At(Current, place)
                    /\ trail'[place].new = At(Current', place)
              /\ \A kind \in DOMAIN record :
                    record'[kind] # record[kind] => kind \in DOMAIN trail'
              /\ \A field \in Fields :
                    row'[field] # row[field] =>
                        \/ field \in DOMAIN trail'
                        \/ \E kind \in Kinds \cap DOMAIN trail' : FieldOf(kind) = field]_vars
  BY <1>1
<1> QED BY <1>2, Invariant, PTL DEF Spec, TrailTellsAll
===============================================================================
