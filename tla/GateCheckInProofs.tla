--------------------------- MODULE GateCheckInProofs ---------------------------
(***************************************************************************)
(* For any posts, vehicles and days: the number check-in would give next   *)
(* is free, whoever is told that the system is busy has been overtaken by  *)
(* three trucks, and, for plates of the standard shape, check-in admits no *)
(* vehicle twice.  A vehicle has one active transaction as long as every   *)
(* search sees every spelling and every reopening looks first.             *)
(***************************************************************************)
EXTENDS GateCheckIn, FiniteSetTheorems, TLAPS

Holds(j) == j.stage \in {"count", "search", "create"}

Taken(d, n) == \E r \in rows : r.day = d /\ r.sequence = n

(* A truck has been checked in for each retry a check-in has spent; and one more
   if the number it has counted, or is about to count, is taken. *)
Spent(j) == j.before + 3 <= Cardinality(rows) + j.retries

Overtaken(j) == j.before + 4 <= Cardinality(rows) + j.retries

Counted(j) ==
    /\ j.sequence >= 1
    /\ j.day = today => j.sequence <= Cardinality(CreatedOnDay(today)) + 1
    /\ Taken(j.day, j.sequence) => Overtaken(j)

Served(j) ==
    j.stage # "idle" =>
        /\ j.retries \in 1..3
        /\ Spent(j)
        /\ Holds(j) => j.day \in 1..today
        /\ (j.stage = "count" /\ j.day < today
               /\ Taken(j.day, Cardinality(CreatedOnDay(j.day)) + 1)) => Overtaken(j)
        /\ j.stage \in {"search", "create"} => Counted(j)

(* Numbers: no day before its time, no number twice, and on the present day none
   beyond the count. *)
Numbering ==
    /\ IsFiniteSet(rows)
    /\ \A r \in rows : r.day <= r.created /\ r.created <= today
    /\ \A r, s \in rows : r.day = s.day /\ r.sequence = s.sequence => r = s
    /\ \A r \in rows : r.day = today => r.sequence <= Cardinality(CreatedOnDay(today))

(* The lock of a plate is held once. *)
Exclusive ==
    \A p, q \in Posts :
        Holds(post[p]) /\ Holds(post[q]) /\ post[p].vehicle = post[q].vehicle => p = q

(* Plates of the standard shape have one form. *)
OneForm ==
    Special = {} =>
        /\ \A r \in rows : r.form = "spaced"
        /\ \A p \in Posts : post[p].stage # "idle" => post[p].form = "spaced"

(* What OneAdmissionPerVehicle says of a post. *)
Admits(j) ==
    j.stage = "create" => \A r \in rows : r.vehicle = j.vehicle => r.state # "open"

OpenOnce ==
    Special = {} =>
        \A r, s \in rows :
            r.state = "open" /\ s.state = "open" /\ r.vehicle = s.vehicle => r = s

NoneReopened == ~Reopens => \A r \in rows : r.state # "reopened"

Inv ==
    /\ TypeOK
    /\ Numbering
    /\ \A p \in Posts : Served(post[p])
    /\ Exclusive
    /\ OneForm
    /\ Special = {} => \A p \in Posts : Admits(post[p])
    /\ OpenOnce
    /\ NoneReopened

-----------------------------------------------------------------------------
(* Counting. *)

LEMMA CountsAreNumbers ==
    ASSUME IsFiniteSet(rows)
    PROVE  /\ Cardinality(rows) \in Nat
           /\ \A d : IsFiniteSet(CreatedOnDay(d)) /\ Cardinality(CreatedOnDay(d)) \in Nat
  <1>1. Cardinality(rows) \in Nat
    BY FS_CardinalityType
  <1>2. ASSUME NEW d
        PROVE  IsFiniteSet(CreatedOnDay(d)) /\ Cardinality(CreatedOnDay(d)) \in Nat
    <2>1. CreatedOnDay(d) \in SUBSET rows
      BY DEF CreatedOnDay
    <2>2. IsFiniteSet(CreatedOnDay(d))
      BY <2>1, FS_Subset
    <2> QED
      BY <2>2, FS_CardinalityType
  <1> QED
    BY <1>1, <1>2

(* A new row counts one more, on the day it is created. *)
LEMMA NewRowCounts ==
    ASSUME IsFiniteSet(rows), NEW n, n \notin rows, rows' = rows \cup {n}
    PROVE  /\ IsFiniteSet(rows)'
           /\ Cardinality(rows)' = Cardinality(rows) + 1
           /\ \A d : Cardinality(CreatedOnDay(d))' =
                         IF n.created = d THEN Cardinality(CreatedOnDay(d)) + 1
                                          ELSE Cardinality(CreatedOnDay(d))
  <1>1. IsFiniteSet(rows)' /\ Cardinality(rows)' = Cardinality(rows) + 1
    BY FS_AddElement
  <1>2. ASSUME NEW d
        PROVE  Cardinality(CreatedOnDay(d))' =
                   IF n.created = d THEN Cardinality(CreatedOnDay(d)) + 1
                                    ELSE Cardinality(CreatedOnDay(d))
    <2>1. CASE n.created = d
      <3>1. CreatedOnDay(d)' = CreatedOnDay(d) \cup {n}
        BY <2>1 DEF CreatedOnDay
      <3>2. n \notin CreatedOnDay(d)
        BY DEF CreatedOnDay
      <3> QED
        BY <2>1, <3>1, <3>2, CountsAreNumbers, FS_AddElement
    <2>2. CASE n.created # d
      <3>1. CreatedOnDay(d)' = CreatedOnDay(d)
        BY <2>2 DEF CreatedOnDay
      <3> QED
        BY <2>2, <3>1
    <2> QED
      BY <2>1, <2>2
  <1> QED
    BY <1>1, <1>2

(* One that takes the place of another of the same day counts the same. *)
LEMMA ReplacedRowCounts ==
    ASSUME IsFiniteSet(rows), NEW r \in rows, NEW n, n \notin rows,
           n.created = r.created, rows' = (rows \ {r}) \cup {n}
    PROVE  /\ IsFiniteSet(rows)'
           /\ Cardinality(rows)' = Cardinality(rows)
           /\ \A d : Cardinality(CreatedOnDay(d))' = Cardinality(CreatedOnDay(d))
  <1>1. IsFiniteSet(rows)' /\ Cardinality(rows)' = Cardinality(rows)
    <2>1. /\ IsFiniteSet(rows \ {r})
          /\ Cardinality(rows \ {r}) = Cardinality(rows) - 1
      BY FS_RemoveElement
    <2>2. /\ IsFiniteSet((rows \ {r}) \cup {n})
          /\ Cardinality((rows \ {r}) \cup {n}) = Cardinality(rows \ {r}) + 1
      BY <2>1, FS_AddElement
    <2> QED
      BY <2>1, <2>2, CountsAreNumbers
  <1>2. ASSUME NEW d
        PROVE  Cardinality(CreatedOnDay(d))' = Cardinality(CreatedOnDay(d))
    <2>1. CASE r.created = d
      <3>1. CreatedOnDay(d)' = (CreatedOnDay(d) \ {r}) \cup {n}
        BY <2>1 DEF CreatedOnDay
      <3>2. n \notin CreatedOnDay(d) \ {r} /\ r \in CreatedOnDay(d)
        BY <2>1 DEF CreatedOnDay
      <3>3. IsFiniteSet(CreatedOnDay(d)) /\ Cardinality(CreatedOnDay(d)) \in Nat
        BY CountsAreNumbers
      <3>4. /\ IsFiniteSet(CreatedOnDay(d) \ {r})
            /\ Cardinality(CreatedOnDay(d) \ {r}) = Cardinality(CreatedOnDay(d)) - 1
        BY <3>2, <3>3, FS_RemoveElement
      <3>5. Cardinality((CreatedOnDay(d) \ {r}) \cup {n})
                = Cardinality(CreatedOnDay(d) \ {r}) + 1
        BY <3>2, <3>4, FS_AddElement
      <3> QED
        BY <3>1, <3>3, <3>4, <3>5
    <2>2. CASE r.created # d
      <3>1. CreatedOnDay(d)' = CreatedOnDay(d)
        BY <2>2 DEF CreatedOnDay
      <3> QED
        BY <3>1
    <2> QED
      BY <2>1, <2>2
  <1> QED
    BY <1>1, <1>2

-----------------------------------------------------------------------------
(* The steps of one post. *)

LEMMA IdleType == Idle \in CheckIn
  <1>1. (CHOOSE v \in Vehicles : TRUE) \in Vehicles
    BY GateAssumption DEF Vehicles
  <1> QED
    BY <1>1, GateAssumption DEF Idle, CheckIn, Stage, Form

(* A step that only one post notices keeps the invariant if that post is served,
   alone with the lock of its plate, and admits nobody twice. *)
LEMMA OnePostMoves ==
    ASSUME Inv, NEW p \in Posts, UNCHANGED <<rows, today>>,
           post' \in [Posts -> CheckIn],
           \A q \in Posts : q # p => post'[q] = post[q],
           Served(post[p])',
           Holds(post'[p]) =>
               \A q \in Posts \ {p} : Holds(post[q]) => post[q].vehicle # post'[p].vehicle,
           Special = {} =>
               /\ post'[p].stage # "idle" => post'[p].form = "spaced"
               /\ Admits(post[p])'
    PROVE  Inv'
  <1>1. TypeOK'
    BY DEF Inv, TypeOK
  <1>2. Numbering'
    BY DEF Inv, Numbering, CreatedOnDay
  <1>3. ASSUME NEW q \in Posts PROVE Served(post[q])'
    <2>1. CASE q = p
      BY <2>1
    <2>2. CASE q # p
      <3>1. Served(post[q]) /\ post'[q] = post[q]
        BY <2>2 DEF Inv
      <3> QED
        BY <3>1 DEF Served, Spent, Overtaken, Counted, Taken, CreatedOnDay, Holds
    <2> QED
      BY <2>1, <2>2
  <1>4. Exclusive'
    <2> SUFFICES ASSUME NEW a \in Posts, NEW b \in Posts,
                        Holds(post'[a]), Holds(post'[b]),
                        post'[a].vehicle = post'[b].vehicle
                 PROVE  a = b
      BY DEF Exclusive, Holds
    <2>1. CASE a # p /\ b # p
      BY <2>1 DEF Inv, Exclusive
    <2>2. CASE a = p \/ b = p
      BY <2>2
    <2> QED
      BY <2>1, <2>2
  <1>5. OneForm'
    BY DEF Inv, OneForm
  <1>6. Special = {} => \A q \in Posts : Admits(post[q])'
    BY DEF Inv, Admits
  <1>7. OpenOnce' /\ NoneReopened'
    BY DEF Inv, OpenOnce, NoneReopened
  <1> QED
    BY <1>1, <1>2, <1>3, <1>4, <1>5, <1>6, <1>7 DEF Inv

LEMMA ArriveKeeps ==
    ASSUME Inv, NEW p \in Posts, Arrive(p)
    PROVE  Inv'
  <1>1. PICK v \in Vehicles, s \in Spelling :
           post' = [post EXCEPT ![p] =
                       [Idle EXCEPT !.stage = "lock", !.vehicle = v,
                                    !.form = Normalized(v, s), !.retries = 3,
                                    !.before = Cardinality(rows)]]
    BY DEF Arrive
  <1> DEFINE form == Normalized(v, s)
             before == Cardinality(rows)
             j == [Idle EXCEPT !.stage = "lock", !.vehicle = v, !.form = form,
                               !.retries = 3, !.before = before]
  <1>2. post \in [Posts -> CheckIn] /\ before \in Nat
    BY CountsAreNumbers DEF Inv, TypeOK, Numbering
  <1>3. form \in Form /\ (Special = {} => form = "spaced")
    BY DEF Normalized, Form, Spelling, Vehicles
  <1>4. /\ post'[p] \in CheckIn
        /\ post'[p].stage = "lock" /\ post'[p].form = form
        /\ post'[p].retries = 3 /\ post'[p].before = before
    <2>1. post'[p] = j
      BY <1>1, <1>2
    <2> HIDE DEF form, before
    <2> DEFINE i == [Idle EXCEPT !.stage = "lock", !.vehicle = v]
    <2>2. i \in CheckIn /\ i.stage = "lock"
      BY IdleType DEF CheckIn, Stage
    <2> DEFINE k == [i EXCEPT !.form = form]
    <2>3. j = [k EXCEPT !.retries = 3, !.before = before]
      OBVIOUS
    <2> HIDE DEF i
    <2>4. k \in CheckIn /\ k.stage = "lock" /\ k.form = form
      BY <1>3, <2>2 DEF CheckIn
    <2> HIDE DEF k, j
    <2>5. before \in Nat /\ 3 \in 0..3
      BY <1>2
    <2>6. /\ j \in CheckIn /\ j.stage = "lock"
          /\ j.form = form /\ j.retries = 3
      BY <2>3, <2>4, <2>5 DEF CheckIn
    <2>7. j.before = before
      BY <2>3, <2>4 DEF CheckIn
    <2> QED
      BY <2>1, <2>6, <2>7
  <1>5. post' \in [Posts -> CheckIn] /\ \A q \in Posts : q # p => post'[q] = post[q]
    BY <1>1, <1>2, <1>4
  <1>6. UNCHANGED <<rows, today>>
    BY DEF Arrive
  <1>7. Served(post[p])'
    BY <1>2, <1>4, <1>6 DEF Served, Spent, Holds
  <1> QED
    BY <1>3, <1>4, <1>5, <1>6, <1>7, OnePostMoves DEF Holds, Admits

(* What the statements of a check-in have in common. *)
LEMMA ServedPost ==
    ASSUME Inv, NEW p \in Posts, post[p].stage # "idle"
    PROVE  /\ post \in [Posts -> CheckIn]
           /\ post[p] \in CheckIn
           /\ post[p].retries \in 1..3
           /\ post[p].before \in Nat /\ post[p].sequence \in Nat
           /\ today \in Nat /\ today \in 1..MaxDay
           /\ Cardinality(rows) \in Nat
           /\ \A d : Cardinality(CreatedOnDay(d)) \in Nat
           /\ Spent(post[p])
           /\ Special = {} => post[p].form = "spaced"
  BY CountsAreNumbers, GateAssumption DEF Inv, TypeOK, Numbering, Served, OneForm, CheckIn

LEMMA LockKeeps ==
    ASSUME Inv, NEW p \in Posts, Lock(p)
    PROVE  Inv'
  <1>1. post[p].stage = "lock"
    BY DEF Lock
  <1>2. UNCHANGED <<rows, today>>
    BY DEF Lock
  <1>3. /\ post' \in [Posts -> CheckIn]
        /\ \A q \in Posts : q # p => post'[q] = post[q]
        /\ post'[p].stage = "count" /\ post'[p].day = today
        /\ post'[p].retries = post[p].retries /\ post'[p].before = post[p].before
        /\ post'[p].vehicle = post[p].vehicle /\ post'[p].form = post[p].form
    BY <1>1, ServedPost, GateAssumption DEF Lock, CheckIn, Stage
  <1>4. Served(post[p])'
    BY <1>1, <1>2, <1>3, ServedPost DEF Served, Spent, Holds
  <1>5. \A q \in Posts \ {p} : Holds(post[q]) => post[q].vehicle # post'[p].vehicle
    BY <1>3 DEF Lock, LockFree, Holds
  <1> QED
    BY <1>1, <1>2, <1>3, <1>4, <1>5, ServedPost, OnePostMoves DEF Admits

(* The number that is counted is free, unless a day has begun since the lock was
   granted and the row that has it came after. *)
LEMMA CountKeeps ==
    ASSUME Inv, NEW p \in Posts, Count(p)
    PROVE  Inv'
  <1> DEFINE c == Cardinality(CreatedOnDay(post[p].day)) + 1
  <1>1. post[p].stage = "count"
    BY DEF Count
  <1>2. UNCHANGED <<rows, today>>
    BY DEF Count
  <1>3. c \in Nat
    BY <1>1, ServedPost
  <1>4. /\ post' \in [Posts -> CheckIn]
        /\ \A q \in Posts : q # p => post'[q] = post[q]
        /\ post'[p].stage = "search" /\ post'[p].sequence = c
        /\ post'[p].day = post[p].day
        /\ post'[p].retries = post[p].retries /\ post'[p].before = post[p].before
        /\ post'[p].vehicle = post[p].vehicle /\ post'[p].form = post[p].form
    BY <1>1, <1>3, ServedPost DEF Count, CheckIn, Stage
  <1>5. Served(post[p]) /\ post[p].day \in 1..today
    BY <1>1 DEF Inv, Served, Holds
  <1>6. Taken(post[p].day, c) => Overtaken(post[p])
    <2>1. CASE post[p].day < today
      BY <1>1, <1>5, <2>1 DEF Served
    <2>2. CASE post[p].day = today
      <3>1. \A r \in rows : r.day = today => r.sequence <= Cardinality(CreatedOnDay(today))
        BY DEF Inv, Numbering
      <3>2. \A r \in rows : r.sequence \in Nat
        BY DEF Inv, TypeOK, TransactionRow
      <3> QED
        BY <1>1, <2>2, <3>1, <3>2, ServedPost DEF Taken
    <2> QED
      BY <1>1, <1>5, <2>1, <2>2, ServedPost
  <1>7. c >= 1 /\ (post[p].day = today => c <= Cardinality(CreatedOnDay(today)) + 1)
    BY <1>1, ServedPost
  <1>8. Counted(post[p])'
    BY <1>2, <1>4, <1>6, <1>7 DEF Counted, Taken, Overtaken, CreatedOnDay
  <1>9. Served(post[p])'
    BY <1>1, <1>2, <1>4, <1>5, <1>8, ServedPost DEF Served, Spent, Holds
  <1>10. \A q \in Posts \ {p} : Holds(post[q]) => post[q].vehicle # post'[p].vehicle
    BY <1>1, <1>4 DEF Inv, Exclusive, Holds
  <1> QED
    BY <1>1, <1>2, <1>4, <1>9, <1>10, ServedPost, OnePostMoves DEF Admits

(* A check-in that is answered is no longer served. *)
LEMMA EndedKeeps ==
    ASSUME Inv, NEW p \in Posts, UNCHANGED <<rows, today>>, Ended(p)
    PROVE  Inv'
  <1>1. post \in [Posts -> CheckIn]
    BY DEF Inv, TypeOK
  <1>2. post' = [post EXCEPT ![p] = Idle] /\ Idle.stage = "idle"
    BY DEF Ended, Idle
  <1>3. /\ post' \in [Posts -> CheckIn]
        /\ \A q \in Posts : q # p => post'[q] = post[q]
        /\ post'[p].stage = "idle"
    BY <1>1, <1>2, IdleType
  <1>4. Served(post[p])'
    BY <1>3 DEF Served
  <1> QED
    BY <1>3, <1>4, OnePostMoves DEF Holds, Admits

LEMMA SearchKeeps ==
    ASSUME Inv, NEW p \in Posts, Search(p)
    PROVE  Inv'
  <1>1. post[p].stage = "search" /\ UNCHANGED <<rows, today>>
    BY DEF Search
  <1>2. CASE ActiveFound(p)
    BY <1>1, <1>2, EndedKeeps DEF Search
  <1>3. CASE ~ActiveFound(p)
    <2>1. /\ post' \in [Posts -> CheckIn]
          /\ \A q \in Posts : q # p => post'[q] = post[q]
          /\ post'[p] = [post[p] EXCEPT !.stage = "create"]
      BY <1>1, <1>3, ServedPost DEF Search, Goes, CheckIn, Stage
    <2>2. /\ post'[p].stage = "create"
          /\ post'[p].sequence = post[p].sequence /\ post'[p].day = post[p].day
          /\ post'[p].retries = post[p].retries /\ post'[p].before = post[p].before
          /\ post'[p].vehicle = post[p].vehicle /\ post'[p].form = post[p].form
      BY <1>1, <2>1, ServedPost DEF CheckIn
    <2>3. Served(post[p])
      BY DEF Inv
    <2>4. Served(post[p])'
      BY <1>1, <2>2, <2>3
         DEF Served, Spent, Overtaken, Counted, Taken, CreatedOnDay, Holds
    <2>5. \A q \in Posts \ {p} : Holds(post[q]) => post[q].vehicle # post'[p].vehicle
      BY <1>1, <2>2 DEF Inv, Exclusive, Holds
    <2>6. Special = {} => Admits(post[p])'
      <3> SUFFICES ASSUME Special = {}, NEW r \in rows, r.vehicle = post[p].vehicle
                   PROVE  r.state # "open"
        BY <1>1, <2>2 DEF Admits
      <3>1. r.form = "spaced" /\ post[p].form = "spaced"
        BY <1>1, ServedPost DEF Inv, OneForm
      <3> QED
        BY <1>3, <3>1 DEF ActiveFound, SearchedForms, Active
    <2> QED
      BY <1>1, <2>1, <2>2, <2>4, <2>5, <2>6, ServedPost, OnePostMoves
  <1> QED
    BY <1>2, <1>3

LEMMA CollideKeeps ==
    ASSUME Inv, NEW p \in Posts, Collide(p)
    PROVE  Inv'
  <1>1. post[p].stage = "create" /\ UNCHANGED <<rows, today>> /\ NumberTaken(p)
    BY DEF Collide
  <1>2. CASE post[p].retries = 1
    BY <1>1, <1>2, EndedKeeps DEF Collide, StartOver
  <1>3. CASE post[p].retries # 1
    <2>1. /\ post' \in [Posts -> CheckIn]
          /\ \A q \in Posts : q # p => post'[q] = post[q]
          /\ post'[p].stage = "lock" /\ post'[p].retries = post[p].retries - 1
          /\ post'[p].before = post[p].before /\ post'[p].form = post[p].form
      BY <1>1, <1>3, ServedPost DEF Collide, StartOver, CheckIn, Stage
    <2>2. Overtaken(post[p])
      BY <1>1 DEF Inv, Served, Counted, NumberTaken, Taken
    <2>3. Served(post[p])'
      BY <1>1, <1>3, <2>1, <2>2, ServedPost DEF Served, Spent, Overtaken, Holds
    <2> QED
      BY <1>1, <2>1, <2>3, ServedPost, OnePostMoves DEF Holds, Admits
  <1> QED
    BY <1>2, <1>3

-----------------------------------------------------------------------------
(* The steps that change the table or the day. *)

LEMMA CreateKeeps ==
    ASSUME Inv, NEW p \in Posts, Create(p)
    PROVE  Inv'
  <1> DEFINE n == [day |-> post[p].day, sequence |-> post[p].sequence, created |-> today,
                   vehicle |-> post[p].vehicle, form |-> post[p].form, state |-> "open"]
  <1>1. /\ post[p].stage = "create" /\ ~NumberTaken(p) /\ today' = today
        /\ rows' = rows \cup {n}
        /\ post' = [post EXCEPT ![p] = Idle]
    BY DEF Create, Ended
  <1>2. /\ n.day = post[p].day /\ n.sequence = post[p].sequence /\ n.created = today
        /\ n.vehicle = post[p].vehicle /\ n.form = post[p].form /\ n.state = "open"
    OBVIOUS
  <1>3. Served(post[p]) /\ Counted(post[p]) /\ post[p].day \in 1..today
    BY <1>1 DEF Inv, Served, Holds
  <1>4. n \in TransactionRow
    BY <1>1, <1>3, ServedPost DEF TransactionRow, Counted, CheckIn
  <1> HIDE DEF n
  <1>5. n \notin rows
    BY <1>1, <1>2 DEF NumberTaken
  <1>6. IsFiniteSet(rows)
    BY DEF Inv, Numbering
  <1>7. /\ IsFiniteSet(rows)'
        /\ Cardinality(rows)' = Cardinality(rows) + 1
        /\ \A d : Cardinality(CreatedOnDay(d))' =
                      IF n.created = d THEN Cardinality(CreatedOnDay(d)) + 1
                                       ELSE Cardinality(CreatedOnDay(d))
    BY <1>1, <1>5, <1>6, NewRowCounts
  <1>8. /\ post' \in [Posts -> CheckIn]
        /\ \A q \in Posts : q # p => post'[q] = post[q]
        /\ post'[p].stage = "idle"
    <2>1. post \in [Posts -> CheckIn] /\ Idle.stage = "idle"
      BY DEF Inv, TypeOK, Idle
    <2> QED
      BY <1>1, <2>1, IdleType
  <1>9. TypeOK'
    BY <1>1, <1>4, <1>8 DEF Inv, TypeOK
  <1> DEFINE C == Cardinality(CreatedOnDay(today))
  <1>10. C' = C + 1
    <2>1. CreatedOnDay(today)' = {r \in rows' : r.created = today}
      BY <1>1 DEF CreatedOnDay
    <2>2. \A d : Cardinality({r \in rows' : r.created = d}) =
                     IF n.created = d THEN Cardinality(CreatedOnDay(d)) + 1
                                      ELSE Cardinality(CreatedOnDay(d))
      BY <1>7 DEF CreatedOnDay
    <2> QED
      BY <1>2, <2>1, <2>2
  <1>11. Numbering'
    <2>2. \A r \in rows' : r.day <= r.created /\ r.created <= today'
      BY <1>1, <1>2, <1>3, ServedPost DEF Inv, Numbering
    <2>3. ASSUME NEW r \in rows', NEW s \in rows', r.day = s.day, r.sequence = s.sequence
          PROVE  r = s
      BY <1>1, <1>2, <2>3 DEF Inv, Numbering, NumberTaken
    <2>4. ASSUME NEW r \in rows', r.day = today'
          PROVE  r.sequence <= Cardinality(CreatedOnDay(today)) + 1
      <3>1. CASE r = n
        BY <1>1, <1>2, <1>3, <2>4, <3>1 DEF Counted
      <3>2. CASE r \in rows
        <4>1. r.sequence <= Cardinality(CreatedOnDay(today)) /\ r.sequence \in Nat
          BY <1>1, <2>4, <3>2 DEF Inv, Numbering, TypeOK, TransactionRow
        <4> QED
          BY <1>1, <4>1, ServedPost
      <3> QED
        BY <1>1, <3>1, <3>2
    <2> QED
      BY <1>1, <1>7, <1>10, <2>2, <2>3, <2>4 DEF Numbering
  <1>12. ASSUME NEW q \in Posts PROVE Served(post[q])'
    <2>1. CASE q = p
      BY <1>8, <2>1 DEF Served
    <2>2. CASE q # p /\ post[q].stage # "idle"
      <3>1. Served(post[q]) /\ post'[q] = post[q]
        BY <1>8, <2>2 DEF Inv
      <3>2. /\ post[q].retries \in 1..3 /\ post[q].before \in Nat
            /\ Cardinality(rows) \in Nat /\ Spent(post[q]) /\ today \in Nat
            /\ post[q].sequence \in Nat
            /\ Cardinality(CreatedOnDay(today)) \in Nat
        BY <2>2, ServedPost
      <3>3. Spent(post[q])' /\ Overtaken(post[q])'
        BY <1>7, <3>1, <3>2 DEF Spent, Overtaken
      <3>5. post[q].stage \in {"search", "create"} => Counted(post[q])'
        <4>1. post[q].stage \in {"search", "create"} => Counted(post[q])
          BY <2>2, <3>1 DEF Served
        <4> QED
          BY <1>1, <3>1, <3>2, <3>3, <4>1, <1>10 DEF Counted
      <3> QED
        BY <1>1, <2>2, <3>1, <3>2, <3>3, <3>5 DEF Served, Holds
    <2>3. CASE q # p /\ post[q].stage = "idle"
      BY <1>8, <2>3 DEF Served
    <2> QED
      BY <2>1, <2>2, <2>3
  <1>13. Exclusive'
    BY <1>8 DEF Inv, Exclusive, Holds
  <1>14. OneForm'
    BY <1>1, <1>2, <1>8, ServedPost DEF Inv, OneForm
  <1>15. Special = {} => \A q \in Posts : Admits(post[q])'
    <2> SUFFICES ASSUME Special = {}, NEW q \in Posts, post'[q].stage = "create",
                        NEW r \in rows', r.vehicle = post'[q].vehicle
                 PROVE  r.state # "open"
      BY DEF Admits
    <2>1. q # p /\ post'[q] = post[q]
      BY <1>8
    <2>2. CASE r = n
      BY <1>1, <1>2, <2>1, <2>2 DEF Inv, Exclusive, Holds
    <2>3. CASE r \in rows
      BY <2>1, <2>3 DEF Inv, Admits
    <2> QED
      BY <1>1, <2>2, <2>3
  <1>16. OpenOnce'
    <2> SUFFICES ASSUME Special = {}, NEW r \in rows', NEW s \in rows',
                        r.state = "open", s.state = "open", r.vehicle = s.vehicle
                 PROVE  r = s
      BY DEF OpenOnce
    <2>1. \A t \in rows : t.state = "open" => t.vehicle # n.vehicle
      BY <1>1, <1>2 DEF Inv, Admits
    <2> QED
      BY <1>1, <2>1 DEF Inv, OpenOnce
  <1>17. NoneReopened'
    BY <1>1, <1>2 DEF Inv, NoneReopened
  <1> QED
    BY <1>9, <1>11, <1>12, <1>13, <1>14, <1>15, <1>16, <1>17 DEF Inv

(* A row that ends or is reopened keeps its number, and is the only one with it. *)
LEMMA BecomesKeeps ==
    ASSUME Inv, NEW r \in rows, NEW state \in {"ended", "reopened"}, r.state # state,
           state = "reopened" => Reopens, Becomes(r, state)
    PROVE  Inv'
  <1> DEFINE n == [r EXCEPT !.state = state]
  <1>1. rows' = (rows \ {r}) \cup {n} /\ post' = post /\ today' = today
    BY DEF Becomes
  <1>2. r \in TransactionRow
    BY DEF Inv, TypeOK
  <1>3. /\ n \in TransactionRow
        /\ n.day = r.day /\ n.sequence = r.sequence /\ n.created = r.created
        /\ n.vehicle = r.vehicle /\ n.form = r.form /\ n.state = state
    BY <1>2 DEF TransactionRow
  <1> HIDE DEF n
  <1>4. n \notin rows
    BY <1>3 DEF Inv, Numbering
  <1>5. IsFiniteSet(rows)
    BY DEF Inv, Numbering
  <1>6. /\ IsFiniteSet(rows)'
        /\ Cardinality(rows)' = Cardinality(rows)
        /\ \A d : Cardinality(CreatedOnDay(d))' = Cardinality(CreatedOnDay(d))
    BY <1>1, <1>3, <1>4, <1>5, ReplacedRowCounts
  <1>7. \A s \in rows' : \E t \in rows :
           /\ s.day = t.day /\ s.sequence = t.sequence /\ s.created = t.created
           /\ s.vehicle = t.vehicle /\ s.form = t.form
           /\ s = t \/ (t = r /\ s = n)
    BY <1>1, <1>3
  <1>8. TypeOK'
    BY <1>1, <1>3 DEF Inv, TypeOK
  <1>9. Numbering'
    <2>1. \A s \in rows' : s.day <= s.created /\ s.created <= today
      BY <1>7 DEF Inv, Numbering
    <2>2. ASSUME NEW s \in rows', NEW t \in rows', s.day = t.day, s.sequence = t.sequence
          PROVE  s = t
      BY <1>1, <1>3, <2>2 DEF Inv, Numbering
    <2>3. \A s \in rows' : s.day = today => s.sequence <= Cardinality(CreatedOnDay(today))
      BY <1>7 DEF Inv, Numbering
    <2>4. Cardinality(CreatedOnDay(today))' = Cardinality(CreatedOnDay(today))
      BY <1>1, <1>6 DEF CreatedOnDay
    <2> QED
      BY <1>1, <1>6, <2>1, <2>2, <2>3, <2>4 DEF Numbering
  <1>10. ASSUME NEW q \in Posts PROVE Served(post[q])'
    <2>1. Served(post[q])
      BY DEF Inv
    <2>2. \A d, k : Taken(d, k)' => Taken(d, k)
      BY <1>7 DEF Taken
    <2>3. \A d : Cardinality(CreatedOnDay(d))' = Cardinality(CreatedOnDay(d))
      BY <1>6
    <2>4. /\ Cardinality(CreatedOnDay(post[q].day))' = Cardinality(CreatedOnDay(post[q].day))
          /\ Cardinality(CreatedOnDay(today))' = Cardinality(CreatedOnDay(today))
      BY <1>1, <2>3 DEF CreatedOnDay
    <2>5. /\ Taken(post[q].day, Cardinality(CreatedOnDay(post[q].day)) + 1)' =>
                 Taken(post[q].day, Cardinality(CreatedOnDay(post[q].day)) + 1)
          /\ Taken(post[q].day, post[q].sequence)' => Taken(post[q].day, post[q].sequence)
      BY <1>1, <2>2, <2>4 DEF Taken
    <2>6. Spent(post[q])' = Spent(post[q]) /\ Overtaken(post[q])' = Overtaken(post[q])
      BY <1>1, <1>6 DEF Spent, Overtaken
    <2>7. Counted(post[q]) => Counted(post[q])'
      BY <1>1, <2>4, <2>5, <2>6 DEF Counted
    <2> QED
      BY <1>1, <2>1, <2>5, <2>6, <2>7 DEF Served, Holds
  <1>11. Exclusive'
    BY <1>1 DEF Inv, Exclusive, Holds
  <1>12. OneForm'
    BY <1>1, <1>7 DEF Inv, OneForm
  <1>13. Special = {} => \A q \in Posts : Admits(post[q])'
    BY <1>1, <1>3 DEF Inv, Admits
  <1>14. OpenOnce'
    BY <1>1, <1>3 DEF Inv, OpenOnce
  <1>15. NoneReopened'
    BY <1>1, <1>3 DEF Inv, NoneReopened
  <1> QED
    BY <1>8, <1>9, <1>10, <1>11, <1>12, <1>13, <1>14, <1>15 DEF Inv

(* A new day has no numbers.  A check-in that has the lock since yesterday is about
   to count a number that is free. *)
LEMMA MidnightKeeps ==
    ASSUME Inv, Midnight
    PROVE  Inv'
  <1>1. today' = today + 1 /\ today < MaxDay /\ rows' = rows /\ post' = post
    BY DEF Midnight
  <1>2. today \in Nat /\ today' \in 1..MaxDay
    BY <1>1, GateAssumption DEF Inv, TypeOK
  <1>3. TypeOK'
    BY <1>1, <1>2 DEF Inv, TypeOK
  <1>4. \A r \in rows : r.day \in Nat /\ r.created \in Nat /\ r.sequence \in Nat
    BY DEF Inv, TypeOK, TransactionRow
  <1>5. \A r \in rows : r.day <= today
    BY <1>2, <1>4 DEF Inv, Numbering
  <1>6. Numbering'
    BY <1>1, <1>2, <1>4, <1>5 DEF Inv, Numbering
  <1>7. ASSUME NEW q \in Posts PROVE Served(post[q])'
    <2>1. CASE post[q].stage = "idle"
      BY <1>1, <2>1 DEF Served
    <2>2. CASE post[q].stage # "idle"
      <3>1. Served(post[q])
        BY DEF Inv
      <3>2. Spent(post[q])' /\ (Overtaken(post[q]) => Overtaken(post[q])')
        BY <1>1, <2>2, <3>1 DEF Served, Spent, Overtaken
      <3>3. Holds(post[q]) => post[q].day \in 1..today' /\ post[q].day # today'
        BY <1>1, <1>2, <2>2, <3>1 DEF Served
      <3>4. ASSUME post[q].stage = "count",
                   Taken(post[q].day, Cardinality(CreatedOnDay(post[q].day)) + 1)
            PROVE  Overtaken(post[q])
        <4>1. post[q].day \in 1..today
          BY <2>2, <3>1, <3>4 DEF Served, Holds
        <4>2. CASE post[q].day < today
          BY <2>2, <3>1, <3>4, <4>2 DEF Served
        <4>3. CASE post[q].day = today
          <5>1. \A r \in rows :
                   r.day = today => r.sequence <= Cardinality(CreatedOnDay(today))
            BY DEF Inv, Numbering
          <5>2. Cardinality(CreatedOnDay(today)) \in Nat
            BY <2>2, ServedPost
          <5> QED
            BY <1>4, <3>4, <4>3, <5>1, <5>2 DEF Taken
        <4> QED
          BY <1>2, <4>1, <4>2, <4>3
      <3>5. Taken(post[q].day, Cardinality(CreatedOnDay(post[q].day)) + 1)' =>
                Taken(post[q].day, Cardinality(CreatedOnDay(post[q].day)) + 1)
        BY <1>1 DEF Taken, CreatedOnDay
      <3>6. post[q].stage \in {"search", "create"} => Counted(post[q])'
        <4>1. post[q].stage \in {"search", "create"} => Counted(post[q]) /\ Holds(post[q])
          BY <2>2, <3>1 DEF Served, Holds
        <4> QED
          BY <1>1, <3>2, <3>3, <4>1 DEF Counted, Taken
      <3> QED
        BY <1>1, <2>2, <3>1, <3>2, <3>3, <3>4, <3>5, <3>6 DEF Served, Holds
    <2> QED
      BY <2>1, <2>2
  <1>8. Exclusive' /\ OneForm' /\ OpenOnce' /\ NoneReopened'
    BY <1>1 DEF Inv, Exclusive, OneForm, OpenOnce, NoneReopened, Holds
  <1>9. Special = {} => \A q \in Posts : Admits(post[q])'
    BY <1>1 DEF Inv, Admits
  <1> QED
    BY <1>3, <1>6, <1>7, <1>8, <1>9 DEF Inv

-----------------------------------------------------------------------------
LEMMA InitHolds ==
    ASSUME Init
    PROVE  Inv
  <1>1. rows = {} /\ today = 1 /\ post = [p \in Posts |-> Idle]
    BY DEF Init
  <1>2. \A p \in Posts : post[p] = Idle /\ post[p].stage = "idle"
    BY <1>1 DEF Idle
  <1>3. TypeOK
    BY <1>1, IdleType, GateAssumption DEF TypeOK
  <1>4. Numbering
    BY <1>1, FS_EmptySet DEF Numbering
  <1>5. \A p \in Posts : Served(post[p]) /\ Admits(post[p])
    BY <1>2 DEF Served, Admits
  <1>6. Exclusive
    BY <1>2 DEF Exclusive, Holds
  <1>7. OneForm /\ OpenOnce /\ NoneReopened
    BY <1>1, <1>2 DEF OneForm, OpenOnce, NoneReopened
  <1> QED
    BY <1>3, <1>4, <1>5, <1>6, <1>7 DEF Inv

LEMMA StutterKeeps ==
    ASSUME Inv, UNCHANGED vars
    PROVE  Inv'
  <1>1. rows' = rows /\ post' = post /\ today' = today
    BY DEF vars
  <1>2. TypeOK' /\ Numbering' /\ OpenOnce' /\ NoneReopened' /\ OneForm' /\ Exclusive'
    BY <1>1 DEF Inv, TypeOK, Numbering, CreatedOnDay, OpenOnce, NoneReopened, OneForm,
                Exclusive, Holds
  <1>3. \A p \in Posts : Served(post[p])'
    BY <1>1 DEF Inv, Served, Spent, Overtaken, Counted, Taken, CreatedOnDay, Holds
  <1>4. Special = {} => \A p \in Posts : Admits(post[p])'
    BY <1>1 DEF Inv, Admits
  <1> QED
    BY <1>2, <1>3, <1>4 DEF Inv

LEMMA NextKeeps ==
    ASSUME Inv, [Next]_vars
    PROVE  Inv'
  <1>1. ASSUME NEW p \in Posts, Arrive(p) \/ Serve(p)
        PROVE  Inv'
    BY <1>1, ArriveKeeps, LockKeeps, CountKeeps, SearchKeeps, CreateKeeps, CollideKeeps
       DEF Serve
  <1>2. ASSUME Leave
        PROVE  Inv'
    BY <1>2, BecomesKeeps DEF Leave, Active
  <1>3. ASSUME Reopen
        PROVE  Inv'
    BY <1>3, BecomesKeeps DEF Reopen, Active
  <1> QED
    BY <1>1, <1>2, <1>3, MidnightKeeps, StutterKeeps DEF Next

(* The inductive invariant of GateService.checkIn, at any number of posts, for any
   vehicles and days, administrators who reopen included. *)
THEOREM CheckInInvariant == Spec => []Inv
  BY InitHolds, NextKeeps, PTL DEF Spec

(* Type correctness of the table and of the check-ins in progress. *)
THEOREM TypeCorrect == Spec => []TypeOK
  <1>1. Inv => TypeOK
    BY DEF Inv
  <1> QED
    BY <1>1, CheckInInvariant, PTL

(* generateTransactionNumber: whatever was cancelled, reopened or created after
   midnight under yesterday's number, the next number of the day is free. *)
THEOREM NumbersAreFree == Spec => []NextNumberFree
  <1>1. ASSUME Inv PROVE NextNumberFree
    <2>1. Cardinality(CreatedOnDay(today)) \in Nat
      BY <1>1, CountsAreNumbers DEF Inv, Numbering
    <2>2. \A r \in rows : r.sequence \in Nat
      BY <1>1 DEF Inv, TypeOK, TransactionRow
    <2> QED
      BY <1>1, <2>1, <2>2 DEF Inv, Numbering, NextNumberFree
  <1> QED
    BY <1>1, CheckInInvariant, PTL

(* A post that gives up has collided three times, each time with another truck. *)
LEMMA BusyStep ==
    ASSUME Inv, [Next]_vars, NEW p \in Posts,
           post[p].stage = "create", post'[p].stage = "idle", rows' = rows
    PROVE  post[p].before + 3 <= Cardinality(rows)
  <1>1. post \in [Posts -> CheckIn] /\ Served(post[p])
    BY DEF Inv, TypeOK
  <1>2. ASSUME NEW q \in Posts, Arrive(q) \/ Lock(q) \/ Count(q) \/ Search(q)
        PROVE  FALSE
    <2>1. q # p
      BY <1>2 DEF Arrive, Lock, Count, Search
    <2>2. post'[p] = post[p]
      BY <1>1, <1>2, <2>1 DEF Arrive, Lock, Count, Search, Ended, Goes
    <2> QED
      BY <2>2
  <1>3. ASSUME NEW q \in Posts, Create(q)
        PROVE  FALSE
    <2> DEFINE n == [day |-> post[q].day, sequence |-> post[q].sequence,
                     created |-> today, vehicle |-> post[q].vehicle,
                     form |-> post[q].form, state |-> "open"]
    <2>1. n \in rows
      BY <1>3 DEF Create
    <2>2. n.day = post[q].day /\ n.sequence = post[q].sequence
      OBVIOUS
    <2> QED
      BY <1>3, <2>1, <2>2 DEF Create, NumberTaken
  <1>4. ASSUME NEW q \in Posts, Collide(q)
        PROVE  post[p].before + 3 <= Cardinality(rows)
    <2>1. q = p
      BY <1>1, <1>4 DEF Collide, StartOver, Ended
    <2>2. NumberTaken(p) /\ StartOver(p)
      BY <1>4, <2>1 DEF Collide
    <2>3. post[p].retries = 1
      <3>1. CASE post[p].retries # 1
        BY <1>1, <2>2, <3>1 DEF StartOver, CheckIn
      <3> QED
        BY <3>1
    <2>4. Overtaken(post[p])
      BY <1>1, <2>2 DEF Served, Counted, NumberTaken, Taken
    <2>5. post[p].before \in Nat /\ Cardinality(rows) \in Nat
      BY ServedPost
    <2> QED
      BY <2>3, <2>4, <2>5 DEF Overtaken
  <1>5. ASSUME Leave \/ Reopen \/ Midnight \/ UNCHANGED vars
        PROVE  FALSE
    BY <1>5 DEF Leave, Reopen, Midnight, Becomes, vars
  <1> QED
    BY <1>2, <1>3, <1>4, <1>5 DEF Next, Serve

(* StartOver: "the system is busy" is true when it is said, midnight included. *)
THEOREM BusyIsTrue == Spec => BusyOnlyWhenOvertaken
  <1>1. Inv /\ [Next]_vars =>
           [\A p \in Posts :
               (post[p].stage = "create" /\ post'[p].stage = "idle" /\ rows' = rows)
                   => post[p].before + 3 <= Cardinality(rows)]_vars
    BY BusyStep
  <1> QED
    BY <1>1, CheckInInvariant, PTL DEF Spec, BusyOnlyWhenOvertaken

(* For plates of the standard shape check-in alone admits no vehicle twice. *)
THEOREM AdmittedOnce ==
    ASSUME Special = {}
    PROVE  Spec => []OneAdmissionPerVehicle
  <1>1. Inv => OneAdmissionPerVehicle
    BY DEF Inv, OpenOnce, Admits, OneAdmissionPerVehicle
  <1> QED
    BY <1>1, CheckInInvariant, PTL

(* What each of the two findings about plates is for want of.  A search sees an
   active transaction of the vehicle, however its plate was spelt. *)
SearchSeesAll ==
    \A p \in Posts, r \in rows :
        post[p].stage = "search" /\ Active(r) /\ r.vehicle = post[p].vehicle =>
            r.form \in SearchedForms(post[p].form)

(* A transaction is reopened only when its vehicle has no other that is active, and
   no post has just looked for one in vain. *)
FindsRoom ==
    \A r \in rows :
        ~Active(r) /\ [r EXCEPT !.state = "reopened"] \in rows' =>
            /\ \A s \in rows : Active(s) => s.vehicle # r.vehicle
            /\ \A p \in Posts : post[p].stage = "create" => post[p].vehicle # r.vehicle

(* With these a post that is about to create has no rival. *)
Alone ==
    /\ OneActivePerVehicle
    /\ \A p \in Posts, r \in rows :
          post[p].stage = "create" /\ r.vehicle = post[p].vehicle => ~Active(r)

(* Whatever else happens at the posts: nobody comes to create, nothing to be active. *)
LEMMA NobodyCreates ==
    ASSUME Alone, UNCHANGED rows,
           \A q \in Posts : post'[q].stage = "create" => post'[q] = post[q]
    PROVE  Alone'
  <1>1. OneActivePerVehicle'
    BY DEF Alone, OneActivePerVehicle, Active
  <1>2. ASSUME NEW q \in Posts, NEW r \in rows, post'[q].stage = "create",
               r.vehicle = post'[q].vehicle
        PROVE  ~Active(r)
    BY <1>2 DEF Alone
  <1> QED
    BY <1>1, <1>2 DEF Alone, Active

LEMMA ServeKeepsAlone ==
    ASSUME Inv, Alone, SearchSeesAll, NEW p \in Posts, Arrive(p) \/ Serve(p)
    PROVE  Alone'
  <1>0. post \in [Posts -> CheckIn] /\ Idle.stage = "idle"
    BY DEF Inv, TypeOK, Idle
  <1>1. CASE Arrive(p)
    <2>1. PICK v \in Vehicles, s \in Spelling :
             post' = [post EXCEPT ![p] =
                         [Idle EXCEPT !.stage = "lock", !.vehicle = v,
                                      !.form = Normalized(v, s), !.retries = 3,
                                      !.before = Cardinality(rows)]]
      BY <1>1 DEF Arrive
    <2> DEFINE form == Normalized(v, s)
               before == Cardinality(rows)
               j == [Idle EXCEPT !.stage = "lock", !.vehicle = v, !.form = form,
                                 !.retries = 3, !.before = before]
    <2>2. post' = [post EXCEPT ![p] = j]
      BY <2>1
    <2>3. j.stage = "lock"
      <3> HIDE DEF form, before
      <3> QED
        BY DEF Idle
    <2> HIDE DEF j
    <2>4. UNCHANGED rows
      BY <1>1 DEF Arrive
    <2> QED
      BY <1>0, <2>2, <2>3, <2>4, NobodyCreates
  <1>2. CASE Lock(p) \/ Count(p)
    <2>1. post'[p].stage \in {"count", "search"} /\ \A q \in Posts \ {p} : post'[q] = post[q]
      BY <1>0, <1>2 DEF Lock, Count, CheckIn
    <2> QED
      BY <1>2, <2>1, NobodyCreates DEF Lock, Count
  <1>3. CASE Collide(p)
    <2>1. CASE post[p].retries = 1
      <3>1. post' = [post EXCEPT ![p] = Idle]
        BY <1>3, <2>1 DEF Collide, StartOver, Ended
      <3> QED
        BY <1>0, <1>3, <3>1, NobodyCreates DEF Collide
    <2>2. CASE post[p].retries # 1
      <3>1. post'[p].stage = "lock" /\ \A q \in Posts \ {p} : post'[q] = post[q]
        BY <1>0, <1>3, <2>2 DEF Collide, StartOver, CheckIn
      <3> QED
        BY <1>3, <3>1, NobodyCreates DEF Collide
    <2> QED
      BY <2>1, <2>2
  <1>4. CASE Search(p)
    <2>1. post[p].stage = "search" /\ UNCHANGED rows
      BY <1>4 DEF Search
    <2>2. CASE ActiveFound(p)
      <3>1. post' = [post EXCEPT ![p] = Idle]
        BY <1>4, <2>2 DEF Search, Ended
      <3> QED
        BY <1>0, <2>1, <3>1, NobodyCreates
    <2>3. CASE ~ActiveFound(p)
      <3>1. /\ post'[p].vehicle = post[p].vehicle
            /\ \A q \in Posts \ {p} : post'[q] = post[q]
        BY <1>0, <1>4, <2>3 DEF Search, Goes, CheckIn
      <3>2. \A r \in rows : r.vehicle = post[p].vehicle => ~Active(r)
        BY <2>1, <2>3 DEF SearchSeesAll, ActiveFound
      <3>3. OneActivePerVehicle'
        BY <2>1 DEF Alone, OneActivePerVehicle, Active
      <3>4. ASSUME NEW q \in Posts, NEW r \in rows, post'[q].stage = "create",
                   r.vehicle = post'[q].vehicle
            PROVE  ~Active(r)
        BY <3>1, <3>2, <3>4 DEF Alone
      <3> QED
        BY <2>1, <3>3, <3>4 DEF Alone, Active
    <2> QED
      BY <2>2, <2>3
  <1>5. CASE Create(p)
    <2> DEFINE n == [day |-> post[p].day, sequence |-> post[p].sequence,
                     created |-> today, vehicle |-> post[p].vehicle,
                     form |-> post[p].form, state |-> "open"]
    <2>1. post[p].stage = "create" /\ rows' = rows \cup {n} /\ post' = [post EXCEPT ![p] = Idle]
      BY <1>5 DEF Create, Ended
    <2>2. n.vehicle = post[p].vehicle
      OBVIOUS
    <2> HIDE DEF n
    <2>3. \A r \in rows : Active(r) => r.vehicle # n.vehicle
      BY <2>1, <2>2 DEF Alone
    <2>4. OneActivePerVehicle'
      BY <2>1, <2>3 DEF Alone, OneActivePerVehicle, Active
    <2>5. ASSUME NEW q \in Posts, post'[q].stage = "create"
          PROVE  q # p /\ post'[q] = post[q] /\ post[q].vehicle # n.vehicle
      <3>1. q # p /\ post'[q] = post[q]
        BY <1>0, <2>1, <2>5
      <3> QED
        BY <2>1, <2>2, <2>5, <3>1 DEF Inv, Exclusive, Holds
    <2>6. ASSUME NEW q \in Posts, NEW r \in rows', post'[q].stage = "create",
                 r.vehicle = post'[q].vehicle
          PROVE  ~Active(r)
      <3>1. r \in rows
        BY <2>1, <2>5, <2>6
      <3> QED
        BY <2>5, <2>6, <3>1 DEF Alone
    <2> QED
      BY <2>4, <2>6 DEF Alone, Active
  <1> QED
    BY <1>1, <1>2, <1>3, <1>4, <1>5 DEF Serve

LEMMA BecomesKeepsAlone ==
    ASSUME Inv, Alone, FindsRoom, NEW r \in rows, NEW state \in {"ended", "reopened"},
           state = "ended" \/ ~Active(r), Becomes(r, state)
    PROVE  Alone'
  <1> DEFINE n == [r EXCEPT !.state = state]
  <1>1. rows' = (rows \ {r}) \cup {n} /\ post' = post
    BY DEF Becomes
  <1>2. n.state = state /\ n.vehicle = r.vehicle
    BY DEF Inv, TypeOK, TransactionRow
  <1>3. CASE state = "ended"
    <2>1. ~Active(n)
      BY <1>2, <1>3 DEF Active
    <2> HIDE DEF n
    <2>2. \A s \in rows' : Active(s) => s \in rows
      BY <1>1, <2>1
    <2> QED
      BY <1>1, <2>2 DEF Alone, OneActivePerVehicle, Active
  <1>4. CASE state = "reopened"
    <2>1. /\ \A s \in rows : Active(s) => s.vehicle # r.vehicle
          /\ \A p \in Posts : post[p].stage = "create" => post[p].vehicle # r.vehicle
      BY <1>1, <1>4 DEF FindsRoom, Active
    <2> HIDE DEF n
    <2>2. OneActivePerVehicle'
      BY <1>1, <1>2, <2>1 DEF Alone, OneActivePerVehicle, Active
    <2>3. ASSUME NEW p \in Posts, NEW s \in rows', post'[p].stage = "create",
                 s.vehicle = post'[p].vehicle
          PROVE  ~Active(s)
      BY <1>1, <1>2, <2>1, <2>3 DEF Alone
    <2> QED
      BY <2>2, <2>3 DEF Alone, Active
  <1> QED
    BY <1>3, <1>4

(* checkIn and correctOperationLog: a vehicle has at most one active transaction,
   at any number of posts and beside administrators who reopen, as long as every
   search sees every spelling and every reopening looks first, up to the posts that
   have looked already.  The code does neither: these are the two findings about
   plates, and there is no third. *)
THEOREM SeenAndLookedForIsOnce ==
    Spec /\ []SearchSeesAll /\ [][FindsRoom]_vars => []OneActivePerVehicle
  <1>1. Init => Alone
    BY DEF Init, Alone, OneActivePerVehicle
  <1>2. ASSUME Inv, Alone, SearchSeesAll, [FindsRoom]_vars, [Next]_vars
        PROVE  Alone'
    <2>1. CASE \E p \in Posts : Arrive(p) \/ Serve(p)
      BY <1>2, <2>1, ServeKeepsAlone
    <2>2. CASE Leave
      <3>1. PICK r \in rows : Active(r) /\ Becomes(r, "ended")
        BY <2>2 DEF Leave
      <3>2. CASE UNCHANGED vars
        BY <1>2, <3>2, NobodyCreates DEF vars
      <3> QED
        BY <1>2, <3>1, <3>2, BecomesKeepsAlone
    <2>3. CASE Reopen
      <3>1. PICK r \in rows : ~Active(r) /\ Becomes(r, "reopened")
        BY <2>3 DEF Reopen
      <3>2. CASE UNCHANGED vars
        BY <1>2, <3>2, NobodyCreates DEF vars
      <3> QED
        BY <1>2, <3>1, <3>2, BecomesKeepsAlone
    <2>4. CASE Midnight \/ UNCHANGED vars
      BY <1>2, <2>4, NobodyCreates DEF Midnight, vars
    <2> QED
      BY <1>2, <2>1, <2>2, <2>3, <2>4 DEF Next
  <1>3. Alone => OneActivePerVehicle
    BY DEF Alone
  <1> QED
    BY <1>1, <1>2, <1>3, CheckInInvariant, PTL DEF Spec

(* So for plates of the standard shape, of which the table holds one form, it is
   enough that a reopening looks. *)
THEOREM StandardPlatesOnce ==
    ASSUME Special = {}
    PROVE  Spec /\ [][FindsRoom]_vars => []OneActivePerVehicle
  <1>1. Inv => SearchSeesAll
    BY DEF Inv, OneForm, SearchSeesAll, SearchedForms
  <1> QED
    BY <1>1, CheckInInvariant, SeenAndLookedForIsOnce, PTL

(* And when nobody reopens anything, nothing else is needed. *)
THEOREM OnTheSiteOnce ==
    ASSUME Special = {}, Reopens = FALSE
    PROVE  Spec => []OneActivePerVehicle
  <1>1. ASSUME Inv PROVE OneActivePerVehicle
    <2>1. \A r \in rows : Active(r) => r.state = "open"
      BY <1>1 DEF Inv, TypeOK, TransactionRow, NoneReopened, Active
    <2> QED
      BY <1>1, <2>1 DEF Inv, OpenOnce, OneActivePerVehicle
  <1> QED
    BY <1>1, CheckInInvariant, PTL
================================================================================
