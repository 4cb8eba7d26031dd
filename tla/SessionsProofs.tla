---------------------------- MODULE SessionsProofs ----------------------------
(***************************************************************************)
(* For any number of users, calls and administrators at work: a renewal    *)
(* that wins its compare-and-swap carries the account as it is, and the    *)
(* sessions behave as if each operation were done at once.  The last       *)
(* administrator stays as long as no two requests that may take one        *)
(* overlap.                                                                *)
(***************************************************************************)
EXTENDS Sessions, FiniteSetTheorems, TLAPS

(* An account that was not created yet has nothing. *)
AbsentIsFresh ==
    \A u \in Users :
        account[u].role = "absent" =>
            /\ account[u].version = 0
            /\ account[u].hash = {}
            /\ ~account[u].active

(* Requests and calls are about accounts that exist. *)
WorkKnown == \A w \in Workers : work[w].stage # "idle" => account[work[w].id].role # "absent"

CallKnown ==
    \A c \in Calls : call[c].stage # "idle" => account[call[c].token.user].role # "absent"

(* No token that is being signed is of a version still to come. *)
NotAhead ==
    \A c \in Calls :
        call[c].stage \in {"login", "rotate"} =>
            call[c].token.version <= account[call[c].token.user].version

(* Salts are used once, and a renewal read a hash. *)
SaltsUsed ==
    /\ \A u \in Users : \A h \in account[u].hash : h.salt <= salt
    /\ \A c \in Calls : \A h \in call[c].hash : h.salt <= salt
    /\ \A c \in Calls : call[c].stage = "rotate" => call[c].hash # {}

Inv ==
    /\ TypeOK
    /\ AbsentIsFresh
    /\ WorkKnown
    /\ CallKnown
    /\ NotAhead
    /\ SaltsUsed
    /\ WinnerIsCurrent

-----------------------------------------------------------------------------
(* What a write about an existing account may do: it revokes the sessions, or
   leaves all that sessions depend on. *)
Revises(u) ==
    /\ account[u].role # "absent"
    /\ \E b \in Account :
        /\ account' = [account EXCEPT ![u] = b]
        /\ b.role # "absent"
        /\ \/ b.version = account[u].version + 1 /\ b.hash = {}
           \/ /\ b.version = account[u].version /\ b.hash = account[u].hash
              /\ b.role = account[u].role /\ b.active = account[u].active

LEMMA RevokedType ==
    ASSUME NEW a \in Account
    PROVE  /\ Revoked(a) \in Account
           /\ Revoked(a).version = a.version + 1
           /\ Revoked(a).hash = {}
           /\ Revoked(a).role = a.role
  <1> DEFINE b == [a EXCEPT !.version = @ + 1]
  <1>1. b \in Account /\ b.version = a.version + 1 /\ b.role = a.role
    BY DEF Account
  <1>2. Revoked(a) = [b EXCEPT !.hash = {}]
    BY DEF Account, Revoked
  <1> HIDE DEF b
  <1>3. [b EXCEPT !.hash = {}] \in Account
    BY <1>1 DEF Account
  <1>4. [b EXCEPT !.hash = {}].version = b.version /\ [b EXCEPT !.hash = {}].hash = {}
        /\ [b EXCEPT !.hash = {}].role = b.role
    BY <1>1 DEF Account
  <1> QED
    BY <1>1, <1>2, <1>3, <1>4

LEMMA UpdateType ==
    ASSUME NEW a \in Account, NEW job \in Job, a.role # "absent",
           NEW b, b = [Assigned(job.change.role, Switched(job.change.active, a)) EXCEPT
                          !.scopes = ScopesLeft(job, a)]
    PROVE  /\ b \in Account
           /\ b.role # "absent"
           /\ b.version = a.version /\ b.hash = a.hash
           /\ job.change = Nothing => b.role = a.role /\ b.active = a.active
  <1>1. job.change \in Change
    BY DEF Job
  <1>2. PICK s : s = Switched(job.change.active, a)
    OBVIOUS
  <1>3. s \in Account /\ s.role = a.role /\ s.version = a.version /\ s.hash = a.hash
        /\ (job.change.active = "not given" => s = a)
    BY <1>2 DEF Switched, Account
  <1>4. PICK r : r = Assigned(job.change.role, s)
    OBVIOUS
  <1>5. "absent" \notin Roles
    BY AccountAssumption
  <1>6. r \in Account /\ r.role # "absent" /\ r.version = a.version /\ r.hash = a.hash
        /\ (job.change.role = "not given" => r = s)
    BY <1>1, <1>3, <1>4, <1>5 DEF Assigned, Account, Change
  <1>7. ScopesLeft(job, a) \subseteq Scopes
    BY <1>1 DEF ScopesLeft, Change, Account
  <1>8. b = [r EXCEPT !.scopes = ScopesLeft(job, a)]
    BY <1>2, <1>4
  <1>9. b \in Account
    BY <1>6, <1>7, <1>8 DEF Account
  <1>10. /\ b.role = r.role /\ b.version = r.version /\ b.hash = r.hash
         /\ b.active = r.active
    BY <1>6, <1>8 DEF Account
  <1>11. job.change = Nothing => r = a
    <2>1. Nothing.role = "not given" /\ Nothing.active = "not given"
      BY DEF Nothing
    <2> QED
      BY <1>3, <1>6, <2>1
  <1> QED
    BY <1>6, <1>9, <1>10, <1>11

(* Every finished request revises its account, and leaves the rest. *)
LEMMA FinishRevises ==
    ASSUME TypeOK, WorkKnown, NEW w \in Workers, Finishes(w)
    PROVE  /\ work[w].id \in Users
           /\ Revises(work[w].id)
           /\ work' = [work EXCEPT ![w] = Free]
  <1> DEFINE job == work[w]
             a == account[job.id]
  <1>1. job \in Job /\ job.id \in Users /\ a \in Account
    BY DEF TypeOK, Job
  <1>2. job.stage = "write" /\ work' = [work EXCEPT ![w] = Free]
    BY DEF Finishes, UpdateWrites, StatusWrites, RemoveWrites, ResetWrites, Writes
  <1>3. a.role # "absent"
    BY <1>2 DEF WorkKnown
  <1>4. CASE UpdateWrites(w)
    <2> DEFINE b == [Assigned(job.change.role, Switched(job.change.active, a)) EXCEPT
                         !.scopes = ScopesLeft(job, a)]
    <2>1. account' = [account EXCEPT ![job.id] =
                          IF job.change = Nothing THEN b ELSE Revoked(b)]
      BY <1>4 DEF UpdateWrites, Writes
    <2>2. /\ b \in Account
          /\ b.role # "absent"
          /\ b.version = a.version /\ b.hash = a.hash
          /\ job.change = Nothing => b.role = a.role /\ b.active = a.active
      BY <1>1, <1>3, UpdateType
    <2>3. /\ Revoked(b) \in Account
          /\ Revoked(b).version = a.version + 1
          /\ Revoked(b).hash = {}
          /\ Revoked(b).role # "absent"
      BY <2>2, RevokedType
    <2> HIDE DEF b, a, job
    <2>4. CASE job.change = Nothing
      BY <1>1, <1>2, <1>3, <2>1, <2>2, <2>4 DEF Revises, a, job
    <2>5. CASE job.change # Nothing
      BY <1>1, <1>2, <1>3, <2>1, <2>3, <2>5 DEF Revises, a, job
    <2> QED
      BY <2>4, <2>5
  <1>5. CASE StatusWrites(w) \/ RemoveWrites(w) \/ ResetWrites(w)
    <2>1. PICK b \in Account : /\ account' = [account EXCEPT ![job.id] = Revoked(b)]
                               /\ b.role = a.role /\ b.version = a.version
      <3>1. CASE StatusWrites(w)
        <4>1. Switched(job.change.active, a) \in Account
              /\ Switched(job.change.active, a).role = a.role
              /\ Switched(job.change.active, a).version = a.version
          BY <1>1 DEF Switched, Account
        <4> QED
          BY <3>1, <4>1 DEF StatusWrites, Writes
      <3>2. CASE RemoveWrites(w)
        <4>1. [a EXCEPT !.active = FALSE, !.deleted = TRUE] \in Account
              /\ [a EXCEPT !.active = FALSE, !.deleted = TRUE].role = a.role
              /\ [a EXCEPT !.active = FALSE, !.deleted = TRUE].version = a.version
          BY <1>1 DEF Account
        <4> QED
          BY <3>2, <4>1 DEF RemoveWrites, Writes
      <3>3. CASE ResetWrites(w)
        BY <1>1, <3>3 DEF ResetWrites, Writes
      <3> QED
        BY <1>5, <3>1, <3>2, <3>3
    <2>2. Revoked(b) \in Account /\ Revoked(b).version = a.version + 1
          /\ Revoked(b).hash = {} /\ Revoked(b).role # "absent"
      BY <1>3, <2>1, RevokedType
    <2> QED
      BY <1>1, <1>2, <1>3, <2>1, <2>2 DEF Revises
  <1> QED
    BY <1>4, <1>5 DEF Finishes

-----------------------------------------------------------------------------
LEMMA WaitingType == Waiting \in Call /\ NoToken \in Token
  <1>1. NoToken \in Token
    BY AccountAssumption, SessionAssumption DEF NoToken, Token
  <1> QED
    BY <1>1 DEF Waiting, Call

LEMMA FreeType == Free \in Job
  <1>1. Nothing \in Change
    BY DEF Nothing, Change
  <1> QED
    BY <1>1, AccountAssumption DEF Free, Job

(* A revision keeps the invariant, whether a worker or a call made it: a renewal
   in flight whose hash it took can no longer win. *)
LEMMA ReviseKeeps ==
    ASSUME Inv, NEW u \in Users, Revises(u),
           work' \in [Workers -> Job],
           \A w \in Workers : work'[w] = work[w] \/ work'[w] = Free,
           call' \in [Calls -> Call],
           \A c \in Calls : call'[c] = call[c] \/ call'[c] = Waiting,
           issued' = issued, salt' = salt, second' = second
    PROVE  Inv'
  <1>1. PICK b \in Account :
            /\ account' = [account EXCEPT ![u] = b]
            /\ b.role # "absent"
            /\ \/ b.version = account[u].version + 1 /\ b.hash = {}
               \/ /\ b.version = account[u].version /\ b.hash = account[u].hash
                  /\ b.role = account[u].role /\ b.active = account[u].active
    BY DEF Revises
  <1>2. account \in [Users -> Account] /\ call \in [Calls -> Call]
    BY DEF Inv, TypeOK
  <1>3. account' \in [Users -> Account] /\ account'[u] = b
        /\ \A v \in Users \ {u} : account'[v] = account[v]
    BY <1>1, <1>2
  <1>4. \A v \in Users : /\ account'[v].version >= account[v].version
                         /\ account'[v].hash \subseteq account[v].hash
                         /\ account[v].role # "absent" => account'[v].role # "absent"
                         /\ account[v].version \in Nat /\ account'[v].version \in Nat
    BY <1>1, <1>2, <1>3 DEF Account
  <1>5. \A c \in Calls : call[c].token.user \in Users /\ call'[c].token.user \in Users
                         /\ call[c].token.version \in Nat
    BY <1>2 DEF Call, Token
  <1>6. \A c \in Calls : call'[c].stage # "idle" => call'[c] = call[c]
    BY DEF Waiting
  <1>7. TypeOK'
    BY <1>3 DEF Inv, TypeOK
  <1>8. AbsentIsFresh'
    BY <1>1, <1>3 DEF Inv, AbsentIsFresh
  <1>9. WorkKnown'
    <2>1. \A w \in Workers : work'[w].stage # "idle" => work'[w] = work[w]
      BY DEF Free
    <2>2. \A w \in Workers : work[w].id \in Users
      BY DEF Inv, TypeOK, Job
    <2> QED
      BY <1>4, <2>1, <2>2 DEF Inv, WorkKnown
  <1>10. CallKnown'
    BY <1>4, <1>5, <1>6 DEF Inv, CallKnown
  <1>11. NotAhead'
    <2> SUFFICES ASSUME NEW c \in Calls, call'[c].stage \in {"login", "rotate"}
                 PROVE  call'[c].token.version <= account'[call'[c].token.user].version
      BY DEF NotAhead
    <2>1. call'[c] = call[c]
      BY <1>6
    <2> QED
      BY <1>4, <1>5, <2>1 DEF Inv, NotAhead
  <1>12. SaltsUsed'
    <2>1. \A c \in Calls : call'[c].hash \subseteq call[c].hash
      BY DEF Waiting
    <2> QED
      BY <1>4, <1>6, <2>1 DEF Inv, SaltsUsed
  <1>13. WinnerIsCurrent'
    <2> SUFFICES ASSUME NEW c \in Calls, call'[c].stage = "rotate", StillStored(c)'
                 PROVE  LET t == call'[c].token
                        IN  /\ account'[t.user].active
                            /\ t.version = account'[t.user].version
                            /\ t.role = account'[t.user].role
      BY DEF WinnerIsCurrent
    <2>1. call'[c] = call[c]
      BY <1>6
    <2> DEFINE v == call[c].token.user
    <2>2. account'[v].hash = call[c].hash /\ call[c].hash # {}
      BY <2>1 DEF StillStored, Inv, SaltsUsed
    <2>3. /\ account'[v].hash = account[v].hash /\ account'[v].role = account[v].role
          /\ account'[v].version = account[v].version /\ account'[v].active = account[v].active
      BY <1>1, <1>3, <1>5, <2>2
    <2>4. StillStored(c)
      BY <2>2, <2>3 DEF StillStored
    <2> QED
      BY <2>1, <2>3, <2>4 DEF Inv, WinnerIsCurrent
  <1> QED
    BY <1>7, <1>8, <1>9, <1>10, <1>11, <1>12, <1>13 DEF Inv

(* A call that enters has signed, at most, the account as it is. *)
LEMMA EnterKeeps ==
    ASSUME Inv, NEW c \in Calls, NEW stage \in {"login", "rotate", "revoke"},
           NEW t \in Token, NEW hash \in SUBSET Hash,
           Enters(c, stage, t, hash),
           account[t.user].role # "absent",
           stage # "revoke" => t.version <= account[t.user].version,
           \A h \in hash : h.salt <= salt,
           stage = "rotate" => /\ hash # {}
                               /\ account[t.user].active
                               /\ t.version = account[t.user].version
                               /\ t.role = account[t.user].role
    PROVE  Inv'
  <1> DEFINE r == [stage |-> stage, token |-> t, hash |-> hash]
  <1>1. /\ call' = [call EXCEPT ![c] = r]
        /\ account' = account /\ work' = work /\ issued' = issued
        /\ salt' = salt /\ second' = second
    BY DEF Enters
  <1>2. call \in [Calls -> Call] /\ r \in Call
    BY DEF Inv, TypeOK, Call
  <1>3. /\ call' \in [Calls -> Call] /\ call'[c] = r
        /\ \A d \in Calls \ {c} : call'[d] = call[d]
    BY <1>1, <1>2
  <1>4. TypeOK' /\ AbsentIsFresh' /\ WorkKnown'
    BY <1>1, <1>3 DEF Inv, TypeOK, AbsentIsFresh, WorkKnown
  <1>5. CallKnown' /\ NotAhead'
    BY <1>1, <1>3 DEF Inv, CallKnown, NotAhead
  <1>6. SaltsUsed'
    BY <1>1, <1>3 DEF Inv, SaltsUsed
  <1>7. WinnerIsCurrent'
    BY <1>1, <1>3 DEF Inv, WinnerIsCurrent, StillStored
  <1> QED
    BY <1>4, <1>5, <1>6, <1>7 DEF Inv

(* What is delivered is stored under a salt that no call has read. *)
LEMMA DeliverKeeps ==
    ASSUME Inv, NEW c \in Calls, call[c].stage # "idle",
           NEW by \in {"login", "renewal"}, Delivers(c, by)
    PROVE  Inv'
  <1> DEFINE t == call[c].token
             u == t.user
             h == [token |-> t, salt |-> salt + 1]
             b == [account[u] EXCEPT !.hash = {h}]
  <1>1. /\ call' = [call EXCEPT ![c] = Waiting]
        /\ account' = [account EXCEPT ![u] = b]
        /\ issued' = issued \cup {[by |-> by, token |-> t]}
        /\ work' = work /\ salt' = salt + 1 /\ second' = second
    BY DEF Delivers, Answers
  <1>2. account \in [Users -> Account] /\ call \in [Calls -> Call] /\ salt \in Nat
    BY DEF Inv, TypeOK
  <1>3. t \in Token /\ u \in Users /\ h \in Hash
    BY <1>2 DEF Call, Token, Hash
  <1>4. b \in Account /\ b.hash = {h} /\ b.role = account[u].role
        /\ b.version = account[u].version /\ b.active = account[u].active
    BY <1>2, <1>3 DEF Account
  <1> HIDE DEF b
  <1>5. /\ account' \in [Users -> Account] /\ account'[u] = b
        /\ \A v \in Users \ {u} : account'[v] = account[v]
    BY <1>1, <1>2, <1>3, <1>4
  <1>6. /\ call' \in [Calls -> Call] /\ call'[c] = Waiting
        /\ \A d \in Calls \ {c} : call'[d] = call[d]
    BY <1>1, <1>2, WaitingType
  <1>7. \A v \in Users : /\ account'[v].role = account[v].role
                         /\ account'[v].version = account[v].version
                         /\ account'[v].active = account[v].active
                         /\ account'[v].version \in Nat
    BY <1>2, <1>4, <1>5 DEF Account
  <1>8. account[u].role # "absent"
    BY DEF Inv, CallKnown
  <1>9. \A d \in Calls : call[d].token.user \in Users
    BY <1>2 DEF Call, Token
  <1>10. TypeOK'
    <2>1. [by |-> by, token |-> t] \in [by : {"login", "renewal"}, token : Token]
      BY <1>3
    <2> QED
      BY <1>1, <1>2, <1>5, <1>6, <2>1 DEF Inv, TypeOK
  <1>11. AbsentIsFresh'
    BY <1>5, <1>7, <1>8 DEF Inv, AbsentIsFresh
  <1>12. WorkKnown'
    <2>1. \A w \in Workers : work[w].id \in Users
      BY DEF Inv, TypeOK, Job
    <2> QED
      BY <1>1, <1>7, <2>1 DEF Inv, WorkKnown
  <1>13. CallKnown'
    BY <1>6, <1>7, <1>9 DEF Inv, CallKnown, Waiting
  <1>14. NotAhead'
    BY <1>6, <1>7, <1>9 DEF Inv, NotAhead, Waiting
  <1>15. SaltsUsed'
    <2>1. \A v \in Users : \A k \in account'[v].hash : k.salt <= salt'
      <3>1. \A v \in Users : \A k \in account[v].hash : k.salt \in Nat
        BY <1>2 DEF Account, Hash
      <3> QED
        BY <1>1, <1>2, <1>4, <1>5, <3>1 DEF Inv, SaltsUsed
    <2>2. \A d \in Calls : \A k \in call[d].hash : k.salt \in Nat
      BY <1>2 DEF Call, Hash
    <2> QED
      BY <1>1, <1>2, <1>6, <2>1, <2>2 DEF Inv, SaltsUsed, Waiting
  <1>16. WinnerIsCurrent'
    <2> SUFFICES ASSUME NEW d \in Calls, call'[d].stage = "rotate", StillStored(d)'
                 PROVE  LET s == call'[d].token
                        IN  /\ account'[s.user].active
                            /\ s.version = account'[s.user].version
                            /\ s.role = account'[s.user].role
      BY DEF WinnerIsCurrent
    <2>1. d # c /\ call'[d] = call[d]
      BY <1>6 DEF Waiting
    <2>2. call[d].token.user # u
      <3> SUFFICES ASSUME call[d].token.user = u PROVE FALSE
        OBVIOUS
      <3>1. h \in call[d].hash
        BY <1>4, <1>5, <2>1 DEF StillStored
      <3>2. h.salt <= salt
        BY <3>1 DEF Inv, SaltsUsed
      <3> QED
        BY <1>2, <3>2
    <2>3. StillStored(d)
      BY <1>5, <1>9, <2>1, <2>2 DEF StillStored
    <2> QED
      BY <1>7, <1>9, <2>1, <2>3 DEF Inv, WinnerIsCurrent
  <1> QED
    BY <1>10, <1>11, <1>12, <1>13, <1>14, <1>15, <1>16 DEF Inv

-----------------------------------------------------------------------------
LEMMA InvInit == SessionInit => Inv
  <1> SUFFICES ASSUME SessionInit PROVE Inv
    OBVIOUS
  <1>1. \A u \in Users : account[u] = IF u = Primary THEN NewAccount("ADMIN", Scopes)
                                                    ELSE NewAccount("absent", {})
    BY DEF SessionInit, AccountInit
  <1>2. \A role \in Roles \cup {"absent"}, scopes \in SUBSET Scopes :
            /\ NewAccount(role, scopes) \in Account
            /\ NewAccount(role, scopes).version = 0 /\ NewAccount(role, scopes).hash = {}
            /\ NewAccount(role, scopes).role = role
            /\ role = "absent" => ~NewAccount(role, scopes).active
    BY DEF NewAccount, Account
  <1>3. "ADMIN" \in Roles
    BY AccountAssumption
  <1>4. account \in [Users -> Account]
    BY <1>1, <1>2, <1>3 DEF SessionInit, AccountInit
  <1>5. \A c \in Calls : call[c] = Waiting
    BY DEF SessionInit
  <1>6. TypeOK
    BY <1>4, WaitingType, FreeType, SessionAssumption
    DEF SessionInit, AccountInit, TypeOK
  <1>7. AbsentIsFresh
    BY <1>1, <1>2, <1>3 DEF AbsentIsFresh
  <1>8. WorkKnown
    BY DEF SessionInit, AccountInit, WorkKnown, Free
  <1>9. CallKnown /\ NotAhead
    BY <1>1, <1>2, <1>3, <1>5, AccountAssumption DEF CallKnown, NotAhead, Waiting, NoToken
  <1>10. SaltsUsed /\ WinnerIsCurrent
    BY <1>1, <1>2, <1>3, <1>5 DEF SaltsUsed, WinnerIsCurrent, Waiting
  <1> QED
    BY <1>6, <1>7, <1>8, <1>9, <1>10 DEF Inv

(* A request that is taken up or counted leaves the accounts as they are. *)
LEMMA TakesType ==
    ASSUME TypeOK, NEW w \in Workers, NEW u \in Users, NEW change \in Change,
           NEW op \in {"update", "status", "remove", "reset"},
           Takes(w, op, u, change)
    PROVE  /\ account' = account
           /\ account[u].role # "absent"
           /\ \E job \in Job : work' = [work EXCEPT ![w] = job] /\ job.id = u
  <1> DEFINE j == [stage |-> "write", op |-> op, id |-> u, role |-> account[u].role,
                   change |-> change]
             k == [j EXCEPT !.stage = IF TakesAdmin(j) THEN "guard" ELSE "write"]
  <1>1. account' = account /\ Known(u) /\ work' = [work EXCEPT ![w] = k]
    BY DEF Takes
  <1>2. account[u].role \in Roles \cup {"absent"}
    BY DEF TypeOK, Account
  <1>3. j \in Job
    BY <1>2 DEF Job
  <1> HIDE DEF j
  <1>4. k \in Job /\ k.id = j.id
    BY <1>3 DEF Job
  <1>5. j.id = u
    BY DEF j
  <1> QED
    BY <1>1, <1>4, <1>5 DEF Known

LEMMA BeginsType ==
    ASSUME TypeOK, NEW w \in Workers, NEW u \in Users, Begins(w, u)
    PROVE  /\ account' = account
           /\ account[u].role # "absent"
           /\ \E job \in Job : work' = [work EXCEPT ![w] = job] /\ job.id = u
  <1>1. Nothing \in Change
    BY DEF Nothing, Change
  <1>2. \A x \in {"on", "off"} : [Nothing EXCEPT !.active = x] \in Change
    BY DEF Nothing, Change
  <1>3. CASE UpdateBegins(w, u)
    BY <1>3, TakesType DEF UpdateBegins
  <1>4. CASE StatusBegins(w, u)
    BY <1>2, <1>4, TakesType DEF StatusBegins
  <1>5. CASE RemoveBegins(w, u)
    BY <1>1, <1>5, TakesType DEF RemoveBegins
  <1>6. CASE ResetBegins(w, u)
    BY <1>1, <1>6, TakesType DEF ResetBegins
  <1> QED
    BY <1>3, <1>4, <1>5, <1>6 DEF Begins

LEMMA WorkKeeps ==
    ASSUME Inv, UNCHANGED callVars, account' = account,
           NEW w \in Workers, NEW job \in Job, work' = [work EXCEPT ![w] = job],
           job.stage # "idle" => account[job.id].role # "absent"
    PROVE  Inv'
  <1>1. work' \in [Workers -> Job]
    BY DEF Inv, TypeOK
  <1>2. WorkKnown'
    BY DEF Inv, TypeOK, WorkKnown
  <1> QED
    BY <1>1, <1>2 DEF Inv, TypeOK, AbsentIsFresh, CallKnown, NotAhead, SaltsUsed,
                      WinnerIsCurrent, StillStored, callVars

(* A new account has no session and is no one's business yet. *)
LEMMA CreateKeeps ==
    ASSUME Inv, UNCHANGED callVars, NEW u \in Users, Create(u)
    PROVE  Inv' /\ account[u].hash = {} /\ account'[u].hash = {}
  <1>1. PICK role \in Roles, scopes \in SUBSET Scopes :
            account' = [account EXCEPT ![u] = NewAccount(role, scopes)]
    BY DEF Create
  <1> DEFINE b == NewAccount(role, scopes)
  <1>2. b \in Account /\ b.version = 0 /\ b.hash = {} /\ b.role = role
    BY DEF NewAccount, Account
  <1>3. role # "absent"
    BY AccountAssumption
  <1> HIDE DEF b
  <1>4. account \in [Users -> Account] /\ call \in [Calls -> Call] /\ work' = work
        /\ account[u].role = "absent"
    BY DEF Inv, TypeOK, Create
  <1>5. /\ account' \in [Users -> Account] /\ account'[u] = b
        /\ \A v \in Users \ {u} : account'[v] = account[v]
    BY <1>1, <1>2, <1>4 DEF b
  <1>6. account[u].version = 0 /\ account[u].hash = {} /\ ~account[u].active
    BY <1>4 DEF Inv, AbsentIsFresh
  <1>7. \A c \in Calls : call[c].token.user \in Users /\ call[c].token.version \in Nat
    BY <1>4 DEF Call, Token
  <1>8. TypeOK' /\ AbsentIsFresh'
    BY <1>2, <1>3, <1>4, <1>5 DEF Inv, TypeOK, AbsentIsFresh, callVars
  <1>9. WorkKnown'
    <2>1. \A w \in Workers : work[w].id \in Users
      BY DEF Inv, TypeOK, Job
    <2> QED
      BY <1>2, <1>3, <1>4, <1>5, <2>1 DEF Inv, WorkKnown
  <1>10. CallKnown' /\ NotAhead'
    BY <1>2, <1>3, <1>4, <1>5, <1>6, <1>7 DEF Inv, CallKnown, NotAhead, callVars
  <1>11. SaltsUsed'
    BY <1>2, <1>4, <1>5 DEF Inv, SaltsUsed, callVars
  <1>12. WinnerIsCurrent'
    <2> SUFFICES ASSUME NEW c \in Calls, call[c].stage = "rotate", StillStored(c)'
                 PROVE  LET t == call[c].token
                        IN  /\ account'[t.user].active
                            /\ t.version = account'[t.user].version
                            /\ t.role = account'[t.user].role
      BY DEF WinnerIsCurrent, callVars
    <2>1. call[c].token.user # u
      BY <1>4 DEF Inv, CallKnown
    <2> QED
      BY <1>5, <1>7, <2>1 DEF Inv, WinnerIsCurrent, StillStored, callVars
  <1> QED
    BY <1>2, <1>5, <1>6, <1>8, <1>9, <1>10, <1>11, <1>12 DEF Inv

-----------------------------------------------------------------------------
LEMMA SignedType ==
    ASSUME TypeOK, NEW u \in Users
    PROVE  /\ Signed(u) \in Token
           /\ Signed(u).user = u
           /\ Signed(u).version = account[u].version
           /\ Signed(u).role = account[u].role
  BY DEF TypeOK, Signed, Token, Account

(* Why a call may enter: what it read of the account bears the token out. *)
LEMMA ReadsKeep ==
    ASSUME Inv, NEW c \in Calls,
           \/ \E u \in Users : LoginReads(c, u)
           \/ \E t \in Tokens : RefreshReads(c, t) \/ RefreshMistrusts(c, t) \/ LogoutBegins(c, t)
    PROVE  Inv' /\ UNCHANGED <<account, issued>>
  <1>1. CASE \E u \in Users : LoginReads(c, u)
    <2>1. PICK u \in Users : LoginReads(c, u)
      BY <1>1
    <2>2. account[u].version \in Nat /\ account[u].role # "absent"
      BY <2>1 DEF Inv, TypeOK, Account, LoginReads, Known
    <2>3. Inv'
      BY <2>1, <2>2, SignedType, EnterKeeps DEF LoginReads, Inv
    <2> QED
      BY <2>1, <2>3 DEF LoginReads, Enters
  <1>2. ASSUME NEW t \in Tokens,
               RefreshReads(c, t) \/ RefreshMistrusts(c, t) \/ LogoutBegins(c, t)
        PROVE  Inv' /\ UNCHANGED <<account, issued>>
    <2>1. t \in Token /\ t.user \in Users
      BY DEF Inv, TypeOK, Tokens, Token
    <2> DEFINE a == account[t.user]
    <2>2. a.version \in Nat /\ a.hash \in SUBSET Hash /\ \A h \in a.hash : h.salt <= salt
      BY <2>1 DEF Inv, TypeOK, Account, SaltsUsed
    <2>3. CASE RefreshReads(c, t)
      <3>1. a.active /\ a.hash # {} /\ a.role # "absent"
        BY <2>1, <2>3 DEF RefreshReads, Renewable, Inv, AbsentIsFresh
      <3>2. Enters(c, "rotate", Signed(t.user), a.hash)
        BY <2>3 DEF RefreshReads
      <3>3. Inv'
        BY <2>1, <2>2, <3>1, <3>2, SignedType, EnterKeeps DEF Inv
      <3> QED
        BY <3>2, <3>3 DEF Enters
    <2>4. CASE RefreshMistrusts(c, t) \/ LogoutBegins(c, t)
      <3>1. a.active /\ a.role # "absent" /\ Enters(c, "revoke", t, {})
        BY <2>1, <2>4 DEF RefreshMistrusts, LogoutBegins, Renewable, Accepted, Inv, AbsentIsFresh
      <3>2. Inv'
        BY <2>1, <3>1, EnterKeeps
      <3> QED
        BY <3>1, <3>2 DEF Enters
    <2> QED
      BY <1>2, <2>3, <2>4
  <1> QED
    BY <1>1, <1>2

-----------------------------------------------------------------------------
(* The register as this specification sees it. *)
Standing ==
    [u \in Users |-> [role |-> account[u].role, active |-> account[u].active,
                      version |-> account[u].version]]
Session == [u \in Users |-> account[u].hash]

RegisterStep == Register!Next \/ UNCHANGED <<Standing, Session, issued>>

(* A revision ends the session, or the register does not notice it. *)
LEMMA ReviseRegister ==
    ASSUME Inv, NEW u \in Users, Revises(u), issued' = issued
    PROVE  RegisterStep
  <1>1. PICK b \in Account :
            /\ account' = [account EXCEPT ![u] = b]
            /\ b.role # "absent"
            /\ \/ b.version = account[u].version + 1 /\ b.hash = {}
               \/ /\ b.version = account[u].version /\ b.hash = account[u].hash
                  /\ b.role = account[u].role /\ b.active = account[u].active
    BY DEF Revises
  <1>2. account \in [Users -> Account] /\ account[u].version \in Nat
    BY DEF Inv, TypeOK, Account
  <1>3. account'[u] = b /\ \A v \in Users \ {u} : account'[v] = account[v]
    BY <1>1, <1>2
  <1>4. CASE b.version = account[u].version + 1 /\ b.hash = {}
    <2>1. Standing' = [Standing EXCEPT ![u] = Standing'[u]]
      BY <1>3 DEF Standing
    <2>2. Session' = [Session EXCEPT ![u] = {}]
      BY <1>3, <1>4 DEF Session
    <2>3. Standing'[u].version > Standing[u].version
      BY <1>2, <1>3, <1>4 DEF Standing
    <2>4. Register!Revise(u)
      BY <2>1, <2>2, <2>3 DEF Register!Revise, Standing, Session
    <2> QED
      BY <2>4 DEF RegisterStep, Register!Next
  <1>5. CASE /\ b.version = account[u].version /\ b.hash = account[u].hash
             /\ b.role = account[u].role /\ b.active = account[u].active
    <2>1. Standing' = Standing /\ Session' = Session
      BY <1>3, <1>5 DEF Standing, Session
    <2> QED
      BY <2>1 DEF RegisterStep
  <1> QED
    BY <1>1, <1>4, <1>5

(* What is delivered is a login of the register, or a renewal: for the latter the
   compare-and-swap is needed. *)
LEMMA DeliverRegister ==
    ASSUME Inv, NEW c \in Calls, LoginWrites(c) \/ Rotates(c)
    PROVE  RegisterStep
  <1>0. PICK u \in Users : u = call[c].token.user
    BY DEF Inv, TypeOK, Call, Token
  <1> DEFINE t == call[c].token
             h == [token |-> t, salt |-> salt + 1]
             by == IF call[c].stage = "login" THEN "login" ELSE "renewal"
  <1>1. /\ account' = [account EXCEPT ![u].hash = {h}]
        /\ issued' = issued \cup {[by |-> by, token |-> t]}
    BY <1>0 DEF LoginWrites, Rotates, Delivers
  <1>2. account \in [Users -> Account] /\ salt \in Nat
        /\ call[c] \in Call
    BY DEF Inv, TypeOK
  <1>3. /\ Standing' = Standing
        /\ Session' = [Session EXCEPT ![u] = {h}]
        /\ Session'[u] = {h}
    BY <1>1, <1>2 DEF Standing, Session, Account
  <1>4. h.token = t
    OBVIOUS
  <1> HIDE DEF h
  <1>5. CASE LoginWrites(c)
    <2>1. call[c].stage = "login" /\ t.version <= Standing[u].version
      BY <1>0, <1>5 DEF LoginWrites, Inv, NotAhead, Standing
    <2>2. Register!Login(u)
      BY <1>1, <1>3, <1>4, <2>1
      DEF Register!Login, Register!Grants, Standing, Session
    <2> QED
      BY <2>2 DEF RegisterStep, Register!Next
  <1>6. CASE Rotates(c)
    <2>1. call[c].stage = "rotate" /\ StillStored(c)
      BY <1>6 DEF Rotates
    <2>2. /\ Session[u] # {}
          /\ Standing[u].active
          /\ t.version = Standing[u].version
          /\ t.role = Standing[u].role
      BY <1>0, <2>1 DEF Inv, WinnerIsCurrent, SaltsUsed, StillStored, Standing, Session
    <2>3. h \notin Session[u]
      <3>1. h.salt = salt + 1
        BY DEF h
      <3>2. \A k \in Session[u] : k.salt <= salt
        BY <1>2 DEF Inv, SaltsUsed, Session
      <3> QED
        BY <1>2, <3>1, <3>2
    <2>4. Register!Renew(u)
      BY <1>1, <1>3, <1>4, <2>1, <2>2, <2>3
      DEF Register!Renew, Register!Grants, Standing, Session
    <2> QED
      BY <2>4 DEF RegisterStep, Register!Next
  <1> QED
    BY <1>5, <1>6

LEMMA SameRegister ==
    ASSUME account' = account, issued' = issued
    PROVE  RegisterStep
  BY DEF RegisterStep, Standing, Session

-----------------------------------------------------------------------------
LEMMA AccountKeeps ==
    ASSUME Inv, AccountNext, UNCHANGED callVars
    PROVE  Inv' /\ RegisterStep
  <1>1. ASSUME NEW u \in Users, Create(u)
        PROVE  Inv' /\ RegisterStep
    <2>1. Inv' /\ account[u].hash = {} /\ account'[u].hash = {}
      BY <1>1, CreateKeeps
    <2>2. account[u].role = "absent" /\ account \in [Users -> Account]
      BY <1>1 DEF Create, Inv, TypeOK
    <2>3. \A v \in Users \ {u} : account'[v] = account[v]
      BY <1>1, <2>2 DEF Create
    <2>4. /\ Standing' = [Standing EXCEPT ![u] = Standing'[u]]
          /\ Session' = Session /\ Session[u] = {} /\ Standing[u].role = "absent"
      BY <2>1, <2>2, <2>3 DEF Standing, Session
    <2>5. Register!Enrol(u)
      BY <2>4 DEF Register!Enrol, Standing, Session, callVars
    <2> QED
      BY <2>1, <2>5 DEF RegisterStep, Register!Next
  <1>2. ASSUME NEW w \in Workers, NEW u \in Users, Begins(w, u)
        PROVE  Inv' /\ RegisterStep
    <2>1. TypeOK
      BY DEF Inv
    <2>2. PICK job \in Job : /\ account' = account /\ account[u].role # "absent"
                             /\ work' = [work EXCEPT ![w] = job] /\ job.id = u
      BY <1>2, <2>1, BeginsType
    <2> QED
      BY <2>2, WorkKeeps, SameRegister DEF callVars
  <1>3. ASSUME NEW w \in Workers, Guard(w)
        PROVE  Inv' /\ RegisterStep
    <2>1. work[w] \in Job /\ account' = account /\ work[w].stage = "guard"
      BY <1>3 DEF Inv, TypeOK, Guard
    <2>2. [work[w] EXCEPT !.stage = "write"] \in Job
          /\ [work[w] EXCEPT !.stage = "write"].id = work[w].id
      BY <2>1 DEF Job
    <2>3. PICK job : /\ job = Free \/ job = [work[w] EXCEPT !.stage = "write"]
                     /\ work' = [work EXCEPT ![w] = job]
      BY <1>3 DEF Guard
    <2>4. job \in Job /\ (job.stage # "idle" => account[job.id].role # "absent")
      <3>1. CASE job = Free
        BY <3>1, FreeType DEF Free
      <3>2. CASE job = [work[w] EXCEPT !.stage = "write"]
        BY <2>1, <2>2, <3>2 DEF Inv, WorkKnown
      <3> QED
        BY <2>3, <3>1, <3>2
    <2> QED
      BY <2>1, <2>3, <2>4, WorkKeeps, SameRegister DEF callVars
  <1>4. ASSUME NEW w \in Workers, Finishes(w)
        PROVE  Inv' /\ RegisterStep
    <2>1. TypeOK /\ WorkKnown
      BY DEF Inv
    <2>2. work[w].id \in Users /\ Revises(work[w].id) /\ work' = [work EXCEPT ![w] = Free]
      BY <1>4, <2>1, FinishRevises
    <2>3. work' \in [Workers -> Job] /\ \A x \in Workers : work'[x] = work[x] \/ work'[x] = Free
      BY <2>1, <2>2, FreeType DEF TypeOK
    <2>4. call' \in [Calls -> Call] /\ call' = call /\ issued' = issued /\ salt' = salt
          /\ second' = second
      BY <2>1 DEF TypeOK, callVars
    <2> QED
      BY <2>2, <2>3, <2>4, ReviseKeeps, ReviseRegister
  <1> QED
    BY <1>1, <1>2, <1>3, <1>4 DEF AccountNext

LEMMA CallKeeps ==
    ASSUME Inv, NEW c \in Calls, LoginWrites(c) \/ Rotates(c) \/ Collides(c) \/ Revokes(c)
    PROVE  Inv' /\ RegisterStep
  <1>0. TypeOK
    BY DEF Inv
  <1>1. CASE LoginWrites(c) \/ Rotates(c)
    BY <1>1, DeliverKeeps, DeliverRegister DEF LoginWrites, Rotates
  <1>2. CASE Collides(c)
    <2>1. account' = account /\ work' = work /\ issued' = issued /\ salt' = salt
          /\ second' = second /\ call' = [call EXCEPT ![c] = Waiting]
      BY <1>2 DEF Collides, Answers
    <2>2. call' \in [Calls -> Call] /\ \A d \in Calls : call'[d] = call[d] \/ call'[d] = Waiting
      BY <1>0, <2>1, WaitingType DEF TypeOK
    <2>3. TypeOK' /\ AbsentIsFresh' /\ WorkKnown'
      BY <2>1, <2>2 DEF Inv, TypeOK, AbsentIsFresh, WorkKnown
    <2>4. CallKnown' /\ NotAhead' /\ SaltsUsed' /\ WinnerIsCurrent'
      BY <2>1, <2>2 DEF Inv, CallKnown, NotAhead, SaltsUsed, WinnerIsCurrent, StillStored, Waiting
    <2> QED
      BY <2>1, <2>3, <2>4, SameRegister DEF Inv
  <1>3. CASE Revokes(c)
    <2> DEFINE u == call[c].token.user
    <2>1. u \in Users /\ account[u] \in Account /\ account[u].role # "absent"
      BY <1>0, <1>3 DEF TypeOK, Call, Token, Inv, CallKnown, Revokes
    <2>2. account' = [account EXCEPT ![u] = Revoked(account[u])]
      BY <1>3 DEF Revokes
    <2>3. Revises(u)
      BY <2>1, <2>2, RevokedType DEF Revises
    <2>4. call' \in [Calls -> Call] /\ \A d \in Calls : call'[d] = call[d] \/ call'[d] = Waiting
      BY <1>0, <1>3, WaitingType DEF TypeOK, Revokes, Answers
    <2>5. work' \in [Workers -> Job] /\ work' = work /\ issued' = issued /\ salt' = salt
          /\ second' = second
      BY <1>0, <1>3 DEF TypeOK, Revokes
    <2> QED
      BY <2>1, <2>3, <2>4, <2>5, ReviseKeeps, ReviseRegister
  <1> QED
    BY <1>1, <1>2, <1>3

LEMMA NextKeeps ==
    ASSUME Inv, [Next]_vars
    PROVE  Inv' /\ RegisterStep
  <1>1. CASE AccountNext /\ UNCHANGED callVars
    BY <1>1, AccountKeeps
  <1>2. CASE CallNext
    <2>1. PICK c \in Calls :
             \/ \E u \in Users : LoginReads(c, u)
             \/ \E t \in Tokens : RefreshReads(c, t) \/ RefreshMistrusts(c, t) \/ LogoutBegins(c, t)
             \/ LoginWrites(c) \/ Rotates(c) \/ Collides(c) \/ Revokes(c)
      BY <1>2 DEF CallNext
    <2> QED
      BY <2>1, ReadsKeep, CallKeeps, SameRegister
  <1>3. CASE Tick
    <2>1. /\ account' = account /\ work' = work /\ call' = call /\ issued' = issued
          /\ salt' = salt /\ second' \in 0..MaxSecond
      BY <1>3, SessionAssumption DEF Tick, Inv, TypeOK
    <2> QED
      BY <2>1, SameRegister DEF Inv, TypeOK, AbsentIsFresh, WorkKnown, CallKnown, NotAhead,
                                SaltsUsed, WinnerIsCurrent, StillStored
  <1>4. CASE UNCHANGED vars
    BY <1>4, SameRegister DEF vars, Inv, TypeOK, AbsentIsFresh, WorkKnown, CallKnown, NotAhead,
                              SaltsUsed, WinnerIsCurrent, StillStored
  <1> QED
    BY <1>1, <1>2, <1>3, <1>4 DEF Next

(* The inductive invariant of the sessions. *)
THEOREM Invariance == Spec => []Inv
  <1>1. Inv /\ [Next]_vars => Inv'
    BY NextKeeps
  <1> QED
    BY <1>1, InvInit, PTL DEF Spec

(* The tables and the calls of AuthService and UsersService keep their types. *)
THEOREM SessionsTyped == Spec => []TypeOK
  <1>1. Inv => TypeOK
    BY DEF Inv
  <1> QED
    BY <1>1, Invariance, PTL

(* refreshTokens: a renewal that wins its compare-and-swap has signed the account
   as it is, whoever revoked, demoted or deactivated it since it was read. *)
THEOREM WinnersAreCurrent == Spec => []WinnerIsCurrent
  <1>1. Inv => WinnerIsCurrent
    BY DEF Inv
  <1> QED
    BY <1>1, Invariance, PTL

(* AuthService and UsersService, each operation of several steps, implement the
   register, where each is one. *)
THEOREM SessionsImplementRegister == Spec => ImplementsRegister
  <1>1. SessionInit => Register!Init
    BY DEF SessionInit, AccountInit, NewAccount, Register!Init
  <1>2. Inv /\ [Next]_vars => [Register!Next]_<<Standing, Session, issued>>
    BY NextKeeps DEF RegisterStep
  <1>3. SessionInit /\ [][Next]_vars /\ []Inv =>
            Register!Init /\ [][Register!Next]_<<Standing, Session, issued>>
    BY <1>1, <1>2, PTL
  <1>4. Register!Init /\ [][Register!Next]_<<Standing, Session, issued>> => ImplementsRegister
    BY DEF ImplementsRegister, Register!Spec, Register!registerVars, Standing, Session
  <1> QED
    BY <1>3, <1>4, Invariance, PTL DEF Spec

(* What the register promises of administrators' changes: whatever the write of
   UsersService or AuthService, whenever its request read the user and whoever
   renews meanwhile, an account of another role, of another state or of another
   version than before has no session that could be renewed, and its access tokens
   are of a version that is gone. *)
NoSessionOutlivesAChange ==
    [][\A u \in Users :
          Standing'[u] # Standing[u] /\ account[u].role # "absent" =>
              account'[u].version > account[u].version /\ account'[u].hash = {}]_vars

(* Requests that read, hash and write keep that promise of the register. *)
THEOREM ChangesEndSessions == Spec => NoSessionOutlivesAChange
  <1>1. ASSUME Inv, [Next]_vars, NEW u \in Users,
               Standing'[u] # Standing[u], account[u].role # "absent"
        PROVE  account'[u].version > account[u].version /\ account'[u].hash = {}
    <2>1. Inv' /\ RegisterStep
      BY <1>1, NextKeeps
    <2>2. PICK v \in Users : Register!Login(v) \/ Register!Renew(v) \/ Register!Revise(v)
                                              \/ Register!Enrol(v)
      BY <1>1, <2>1 DEF RegisterStep, Register!Next
    <2>3. Standing' # Standing
      BY <1>1
    <2>4. ~ Register!Login(v) /\ ~ Register!Renew(v)
      BY <2>3 DEF Register!Login, Register!Renew, Register!Grants, Standing
    <2>5. Standing' = [Standing EXCEPT ![v] = Standing'[v]]
      BY <2>2, <2>4 DEF Register!Revise, Register!Enrol, Standing
    <2>6. v = u
      BY <1>1, <2>5 DEF Standing
    <2>7. ~ Register!Enrol(v)
      BY <1>1, <2>6 DEF Register!Enrol
    <2>8. Register!Revise(u)
      BY <2>2, <2>4, <2>6, <2>7
    <2> QED
      BY <2>8 DEF Register!Revise
  <1>2. Inv /\ [Next]_vars =>
            [\A u \in Users :
                Standing'[u] # Standing[u] /\ account[u].role # "absent" =>
                    account'[u].version > account[u].version /\ account'[u].hash = {}]_vars
    BY <1>1
  <1> QED
    BY <1>2, Invariance, PTL DEF Spec, NoSessionOutlivesAChange

-----------------------------------------------------------------------------
(* A request under way that may cost the site an administrator, whatever role its
   user had when it was read. *)
MayTakeAdmin(job) ==
    /\ job.stage # "idle"
    /\ \/ job.op = "remove"
       \/ job.op = "update" /\ job.change.role \notin {"not given", "ADMIN"}
       \/ job.op \in {"update", "status"} /\ job.change.active = "off"

(* At most one of those is under way. *)
OneTaker ==
    \A v, w \in Workers : MayTakeAdmin(work[v]) /\ MayTakeAdmin(work[w]) => v = w

(* No two requests under way are about one user. *)
Apart ==
    \A v, w \in Workers :
        work[v].stage # "idle" /\ work[w].stage # "idle" /\ work[v].id = work[w].id
            => v = w

IsActiveAdmin(a) == a.role = "ADMIN" /\ a.active = TRUE /\ a.deleted = FALSE

LEMMA SwitchedType ==
    ASSUME NEW a \in Account, NEW active \in {"on", "off", "not given"}
    PROVE  /\ Switched(active, a) \in Account
           /\ Switched(active, a).role = a.role
           /\ Switched(active, a).scopes = a.scopes
           /\ IsActiveAdmin(a) /\ active # "off" => IsActiveAdmin(Switched(active, a))
  <1>1. CASE active = "not given"
    BY <1>1 DEF Switched
  <1>2. CASE active # "not given"
    <2> DEFINE b == [a EXCEPT !.active = active = "on"]
    <2>1. Switched(active, a) = b
      BY <1>2 DEF Switched
    <2>2. b \in Account /\ b.role = a.role /\ b.scopes = a.scopes /\ b.deleted = a.deleted
      BY DEF Account
    <2>3. active # "off" => b.active = TRUE
      BY <1>2 DEF Account
    <2> QED
      BY <2>1, <2>2, <2>3 DEF IsActiveAdmin
  <1> QED
    BY <1>1, <1>2

LEMMA AssignedType ==
    ASSUME NEW a \in Account, NEW role \in Roles \cup {"not given"}
    PROVE  /\ Assigned(role, a) \in Account
           /\ Assigned(role, a).role = IF role = "not given" THEN a.role ELSE role
           /\ IsActiveAdmin(a) /\ role \in {"not given", "ADMIN"}
                  => IsActiveAdmin(Assigned(role, a))
  <1>1. CASE role = "not given"
    BY <1>1 DEF Assigned
  <1>2. CASE role # "not given"
    <2> DEFINE b == [a EXCEPT !.role = role]
    <2>1. Assigned(role, a) = b
      BY <1>2 DEF Assigned
    <2>2. b \in Account /\ b.role = role /\ b.active = a.active /\ b.deleted = a.deleted
      BY <1>2 DEF Account
    <2> QED
      BY <1>2, <2>1, <2>2 DEF IsActiveAdmin
  <1> QED
    BY <1>1, <1>2

LEMMA RevokedRank ==
    ASSUME NEW a \in Account
    PROVE  /\ Revoked(a).role = a.role
           /\ Revoked(a).scopes = a.scopes
           /\ IsActiveAdmin(a) => IsActiveAdmin(Revoked(a))
  BY DEF Revoked, Account, IsActiveAdmin

(* What finishing a request makes of its account. *)
Outcome(job, a, b) ==
    /\ IF job.op = "update"
       THEN /\ b.role = IF job.change.role = "not given" THEN a.role ELSE job.change.role
            /\ b.scopes = ScopesLeft(job, a)
       ELSE b.role = a.role /\ b.scopes = a.scopes
    /\ IsActiveAdmin(a) /\ ~MayTakeAdmin(job) => IsActiveAdmin(b)

LEMMA UpdateOutcome ==
    ASSUME NEW a \in Account, NEW job \in Job, job.op = "update", job.stage = "write",
           NEW b, b = [Assigned(job.change.role, Switched(job.change.active, a)) EXCEPT
                          !.scopes = ScopesLeft(job, a)]
    PROVE  Outcome(job, a, b) /\ Outcome(job, a, Revoked(b))
  <1>1. /\ job.change.role \in Roles \cup {"not given"}
        /\ job.change.active \in {"on", "off", "not given"}
        /\ ScopesLeft(job, a) \subseteq Scopes
    BY DEF Job, Change, ScopesLeft, Account
  <1>2. PICK s \in Account :
            /\ s = Switched(job.change.active, a)
            /\ s.role = a.role
            /\ IsActiveAdmin(a) /\ job.change.active # "off" => IsActiveAdmin(s)
    BY <1>1, SwitchedType
  <1>3. PICK r \in Account :
            /\ r = Assigned(job.change.role, s)
            /\ r.role = IF job.change.role = "not given" THEN s.role ELSE job.change.role
            /\ IsActiveAdmin(s) /\ job.change.role \in {"not given", "ADMIN"}
                   => IsActiveAdmin(r)
    BY <1>1, AssignedType
  <1>4. b = [r EXCEPT !.scopes = ScopesLeft(job, a)]
    BY <1>2, <1>3
  <1>5. /\ b \in Account /\ b.role = r.role /\ b.scopes = ScopesLeft(job, a)
        /\ b.active = r.active /\ b.deleted = r.deleted
    BY <1>1, <1>4 DEF Account
  <1>6. Outcome(job, a, b)
    <2>1. ~MayTakeAdmin(job) => /\ job.change.active # "off"
                                /\ job.change.role \in {"not given", "ADMIN"}
      BY DEF MayTakeAdmin
    <2>2. IsActiveAdmin(r) => IsActiveAdmin(b)
      BY <1>5 DEF IsActiveAdmin
    <2> QED
      BY <1>2, <1>3, <1>5, <2>1, <2>2 DEF Outcome
  <1> QED
    BY <1>5, <1>6, RevokedRank DEF Outcome

LEMMA FinishOutcome ==
    ASSUME Inv, NEW w \in Workers, Finishes(w)
    PROVE  /\ work[w].id \in Users
           /\ work[w].stage = "write"
           /\ work' = [work EXCEPT ![w] = Free]
           /\ \A u \in Users \ {work[w].id} : account'[u] = account[u]
           /\ Outcome(work[w], account[work[w].id], account'[work[w].id])
  <1> DEFINE job == work[w]
             a == account[job.id]
  <1>1. job \in Job /\ job.id \in Users /\ a \in Account /\ account \in [Users -> Account]
    BY DEF Inv, TypeOK, Job
  <1>2. job.stage = "write" /\ work' = [work EXCEPT ![w] = Free]
    BY DEF Finishes, UpdateWrites, StatusWrites, RemoveWrites, ResetWrites, Writes
  <1>3. PICK b : account' = [account EXCEPT ![job.id] = b]
    BY DEF Finishes, UpdateWrites, StatusWrites, RemoveWrites, ResetWrites, Writes
  <1>4. account'[job.id] = b /\ \A u \in Users \ {job.id} : account'[u] = account[u]
    BY <1>1, <1>3
  <1>5. CASE UpdateWrites(w)
    <2>1. job.op = "update"
      BY <1>5 DEF UpdateWrites, Writes
    <2>2. PICK q : q = [Assigned(job.change.role, Switched(job.change.active, a)) EXCEPT
                            !.scopes = ScopesLeft(job, a)]
      OBVIOUS
    <2>3. account' = [account EXCEPT ![job.id] =
                          IF job.change = Nothing THEN q ELSE Revoked(q)]
      BY <1>5, <2>2 DEF UpdateWrites, Writes
    <2>4. account'[job.id] = q \/ account'[job.id] = Revoked(q)
      BY <1>1, <2>3
    <2>5. Outcome(job, a, q) /\ Outcome(job, a, Revoked(q))
      BY <1>1, <1>2, <2>1, <2>2, UpdateOutcome
    <2> QED
      BY <1>1, <1>2, <1>4, <2>4, <2>5
  <1>6. CASE StatusWrites(w)
    <2>1. job.op = "status" /\ job.change.active \in {"on", "off", "not given"}
      BY <1>1, <1>6 DEF StatusWrites, Writes, Job, Change
    <2>2. PICK s \in Account :
              /\ s = Switched(job.change.active, a)
              /\ s.role = a.role /\ s.scopes = a.scopes
              /\ IsActiveAdmin(a) /\ job.change.active # "off" => IsActiveAdmin(s)
      BY <1>1, <2>1, SwitchedType
    <2>3. account'[job.id] = Revoked(s)
      BY <1>1, <1>6, <2>2 DEF StatusWrites, Writes
    <2>4. /\ Revoked(s).role = s.role /\ Revoked(s).scopes = s.scopes
          /\ IsActiveAdmin(s) => IsActiveAdmin(Revoked(s))
      BY RevokedRank
    <2>5. ~MayTakeAdmin(job) => job.change.active # "off"
      BY <1>2, <2>1 DEF MayTakeAdmin
    <2> QED
      BY <1>1, <1>2, <1>4, <2>1, <2>2, <2>3, <2>4, <2>5 DEF Outcome
  <1>7. CASE RemoveWrites(w)
    <2>1. PICK s : s = [a EXCEPT !.active = FALSE, !.deleted = TRUE]
      OBVIOUS
    <2>2. s \in Account /\ s.role = a.role /\ s.scopes = a.scopes
      BY <1>1, <2>1 DEF Account
    <2>3. job.op = "remove" /\ account'[job.id] = Revoked(s)
      BY <1>1, <1>7, <2>1 DEF RemoveWrites, Writes
    <2>4. MayTakeAdmin(job)
      BY <1>2, <2>3 DEF MayTakeAdmin
    <2>5. Revoked(s).role = s.role /\ Revoked(s).scopes = s.scopes
      BY <2>2, RevokedRank
    <2> QED
      BY <1>1, <1>2, <1>4, <2>2, <2>3, <2>4, <2>5 DEF Outcome
  <1>8. CASE ResetWrites(w)
    <2>1. job.op = "reset" /\ account'[job.id] = Revoked(a)
      BY <1>1, <1>8 DEF ResetWrites, Writes
    <2>2. /\ Revoked(a).role = a.role /\ Revoked(a).scopes = a.scopes
          /\ IsActiveAdmin(a) => IsActiveAdmin(Revoked(a))
      BY <1>1, RevokedRank
    <2> QED
      BY <1>1, <1>2, <1>4, <2>1, <2>2 DEF Outcome
  <1> QED
    BY <1>5, <1>6, <1>7, <1>8 DEF Finishes

(* What a request that begins knows, and where it starts. *)
LEMMA TakesJob ==
    ASSUME Inv, NEW w \in Workers, NEW op, NEW u, NEW change, Takes(w, op, u, change)
    PROVE  /\ account' = account
           /\ \A v \in Workers \ {w} : work'[v] = work[v]
           /\ work'[w].op = op /\ work'[w].id = u /\ work'[w].change = change
           /\ work'[w].role = account[u].role
           /\ work'[w].stage = IF TakesAdmin(work'[w]) THEN "guard" ELSE "write"
  <1> DEFINE j == [stage |-> "write", op |-> op, id |-> u, role |-> account[u].role,
                   change |-> change]
             k == [j EXCEPT !.stage = IF TakesAdmin(j) THEN "guard" ELSE "write"]
  <1>1. work' = [work EXCEPT ![w] = k] /\ account' = account
    BY DEF Takes
  <1>2. work'[w] = k /\ \A v \in Workers \ {w} : work'[v] = work[v]
    BY <1>1 DEF Inv, TypeOK
  <1>3. k.stage = (IF TakesAdmin(j) THEN "guard" ELSE "write") /\ k.op = op /\ k.id = u
        /\ k.role = account[u].role /\ k.change = change
    OBVIOUS
  <1>4. TakesAdmin(k) <=> TakesAdmin(j)
    BY <1>3 DEF TakesAdmin, Target
  <1> HIDE DEF k, j
  <1> QED
    BY <1>1, <1>2, <1>3, <1>4

LEMMA GuardJob ==
    ASSUME Inv, NEW w \in Workers, Guard(w)
    PROVE  /\ account' = account
           /\ \A v \in Workers \ {w} : work'[v] = work[v]
           /\ work[w].stage = "guard"
           /\ \/ work'[w].stage = "idle"
              \/ /\ ~(Cardinality(ActiveAdmins) <= 1)
                 /\ work'[w].stage = "write"
                 /\ work'[w].op = work[w].op /\ work'[w].id = work[w].id
                 /\ work'[w].role = work[w].role /\ work'[w].change = work[w].change
  <1>1. work \in [Workers -> Job] /\ account' = account /\ work[w].stage = "guard"
    BY DEF Inv, TypeOK, Guard
  <1>2. \A v \in Workers \ {w} : work'[v] = work[v]
    BY <1>1 DEF Guard
  <1>3. CASE Cardinality(ActiveAdmins) <= 1
    BY <1>1, <1>2, <1>3 DEF Guard, Free
  <1>4. CASE ~(Cardinality(ActiveAdmins) <= 1)
    <2>1. work'[w] = [work[w] EXCEPT !.stage = "write"]
      BY <1>1, <1>4 DEF Guard
    <2> QED
      BY <1>1, <1>2, <1>4, <2>1 DEF Job
  <1> QED
    BY <1>3, <1>4

(* What the calls of the users leave alone. *)
SameRanks ==
    \A u \in Users : /\ account'[u].role = account[u].role
                     /\ account'[u].scopes = account[u].scopes
                     /\ account'[u].active = account[u].active
                     /\ account'[u].deleted = account[u].deleted

LEMMA CallsKeepRanks ==
    ASSUME Inv, CallNext \/ Tick \/ UNCHANGED vars
    PROVE  work' = work /\ SameRanks
  <1>1. SameRanks
    <2>1. account \in [Users -> Account]
      BY DEF Inv, TypeOK
    <2>2. CASE account' = account
      BY <2>2 DEF SameRanks
    <2>3. ASSUME NEW c \in Calls, NEW by, Delivers(c, by)
          PROVE  SameRanks
      BY <2>1, <2>3 DEF Delivers, Account, SameRanks
    <2>4. ASSUME NEW c \in Calls, Revokes(c)
          PROVE  SameRanks
      BY <2>1, <2>4 DEF Revokes, Revoked, Account, SameRanks
    <2> QED
      BY <2>2, <2>3, <2>4
      DEF CallNext, Tick, vars, LoginReads, RefreshReads, RefreshMistrusts, LogoutBegins,
          Enters, LoginWrites, Rotates, Collides
  <1>2. work' = work
    BY DEF CallNext, Tick, vars, LoginReads, RefreshReads, RefreshMistrusts, LogoutBegins,
           Enters, LoginWrites, Rotates, Collides, Revokes, Delivers
  <1> QED
    BY <1>1, <1>2

(* A created account is one that did not exist. *)
LEMMA CreateJob ==
    ASSUME Inv, NEW u \in Users, Create(u)
    PROVE  /\ work' = work
           /\ account[u].role = "absent"
           /\ \A v \in Users \ {u} : account'[v] = account[v]
           /\ account'[u].role \in ScopedRoles => account'[u].scopes # {}
  <1>1. PICK role \in Roles, scopes \in SUBSET Scopes :
            /\ IF role \in ScopedRoles THEN scopes # {} ELSE scopes = {}
            /\ account' = [account EXCEPT ![u] = NewAccount(role, scopes)]
    BY DEF Create
  <1>2. NewAccount(role, scopes).role = role /\ NewAccount(role, scopes).scopes = scopes
    BY DEF NewAccount
  <1>3. /\ account[u].role = "absent" /\ work' = work
        /\ account \in [Users -> Account]
    BY DEF Create, Inv, TypeOK
  <1> HIDE DEF NewAccount
  <1>4. account'[u] = NewAccount(role, scopes)
        /\ \A v \in Users \ {u} : account'[v] = account[v]
    BY <1>1, <1>3
  <1> QED
    BY <1>1, <1>2, <1>3, <1>4

-----------------------------------------------------------------------------
(* A request that may take an administrator, once it is past the count, leaves
   another: the count found two, or its user was none. *)
SpareAdmin ==
    \A w \in Workers :
        work[w].stage = "write" /\ MayTakeAdmin(work[w]) =>
            \E u \in ActiveAdmins : u # work[w].id

AdminInv == SomeActiveAdmin /\ SpareAdmin

LEMMA TwoAdmins ==
    ASSUME NEW u, ~(Cardinality(ActiveAdmins) <= 1)
    PROVE  \E v \in ActiveAdmins : v # u
  <1> SUFFICES ASSUME ActiveAdmins \subseteq {u} PROVE FALSE
    OBVIOUS
  <1>1. IsFiniteSet({u}) /\ Cardinality({u}) = 1
    BY FS_Singleton
  <1>2. Cardinality(ActiveAdmins) <= Cardinality({u})
    BY <1>1, FS_Subset
  <1> QED
    BY <1>1, <1>2

(* Who is an active administrator, told by the account. *)
LEMMA AdminsByAccount ==
    ASSUME account \in [Users -> Account], NEW u \in Users
    PROVE  u \in ActiveAdmins <=> IsActiveAdmin(account[u])
  BY DEF ActiveAdmins, IsActiveAdmin, Account

(* The only requests that skip the count are about users who are none. *)
LEMMA CountedOrOther ==
    ASSUME NEW job \in Job, MayTakeAdmin(job), ~TakesAdmin(job)
    PROVE  job.role # "ADMIN"
  BY DEF MayTakeAdmin, TakesAdmin, Target

LEMMA InitAdmin == SessionInit => AdminInv
  <1> SUFFICES ASSUME SessionInit PROVE AdminInv
    OBVIOUS
  <1>1. account[Primary] = NewAccount("ADMIN", Scopes)
    BY AccountAssumption DEF SessionInit, AccountInit
  <1>2. Primary \in ActiveAdmins
    <2> DEFINE a == NewAccount("ADMIN", Scopes)
    <2>1. a.role = "ADMIN" /\ a.deleted = FALSE /\ a.active = ("ADMIN" # "absent")
      BY DEF NewAccount
    <2> HIDE DEF a
    <2>2. a.active
      BY <2>1
    <2> QED
      BY <1>1, <2>1, <2>2, AccountAssumption DEF ActiveAdmins, a
  <1>3. \A w \in Workers : work[w] = Free
    BY DEF SessionInit, AccountInit
  <1> QED
    BY <1>2, <1>3 DEF AdminInv, SomeActiveAdmin, SpareAdmin, Free

(* A step that leaves the requests alone and takes no administrator away. *)
LEMMA OthersKeepAdmin ==
    ASSUME AdminInv, work' = work, ActiveAdmins \subseteq ActiveAdmins'
    PROVE  AdminInv'
  BY DEF AdminInv, SomeActiveAdmin, SpareAdmin, MayTakeAdmin

LEMMA BeginsKeepsAdmin ==
    ASSUME Inv, Inv', AdminInv, NEW w \in Workers, NEW u \in Users, Begins(w, u)
    PROVE  AdminInv'
  <1>1. PICK op, change : Takes(w, op, u, change)
    BY DEF Begins, UpdateBegins, StatusBegins, RemoveBegins, ResetBegins
  <1>2. ActiveAdmins' = ActiveAdmins
    BY <1>1, TakesJob DEF ActiveAdmins
  <1>3. ASSUME NEW v \in Workers, work'[v].stage = "write", MayTakeAdmin(work'[v])
        PROVE  \E x \in ActiveAdmins' : x # work'[v].id
    <2>1. CASE v # w
      BY <1>1, <1>2, <1>3, <2>1, TakesJob DEF AdminInv, SpareAdmin
    <2>2. CASE v = w
      <3>1. work'[w] \in Job
        BY DEF Inv, TypeOK
      <3>2. account[u].role # "ADMIN" /\ work'[w].id = u
        BY <1>1, <1>3, <2>2, <3>1, TakesJob, CountedOrOther
      <3>3. u \notin ActiveAdmins
        BY <3>2 DEF ActiveAdmins
      <3> QED
        BY <1>2, <2>2, <3>2, <3>3 DEF AdminInv, SomeActiveAdmin
    <2> QED
      BY <2>1, <2>2
  <1> QED
    BY <1>2, <1>3 DEF AdminInv, SomeActiveAdmin, SpareAdmin

LEMMA GuardKeepsAdmin ==
    ASSUME Inv, AdminInv, NEW w \in Workers, Guard(w)
    PROVE  AdminInv'
  <1>1. ActiveAdmins' = ActiveAdmins
    BY GuardJob DEF ActiveAdmins
  <1>2. ASSUME NEW v \in Workers, work'[v].stage = "write", MayTakeAdmin(work'[v])
        PROVE  \E x \in ActiveAdmins' : x # work'[v].id
    <2>1. CASE v # w
      BY <1>1, <1>2, <2>1, GuardJob DEF AdminInv, SpareAdmin
    <2>2. CASE v = w
      <3>1. ~(Cardinality(ActiveAdmins) <= 1)
        BY <1>2, <2>2, GuardJob
      <3> QED
        BY <1>1, <2>2, <3>1, TwoAdmins
    <2> QED
      BY <2>1, <2>2
  <1> QED
    BY <1>1, <1>2 DEF AdminInv, SomeActiveAdmin, SpareAdmin

(* What is written takes no administrator but the one of the one request that may,
   and that one left a spare. *)
LEMMA FinishKeepsAdmin ==
    ASSUME Inv, Inv', OneTaker, AdminInv, NEW w \in Workers, Finishes(w)
    PROVE  AdminInv'
  <1> DEFINE job == work[w]
  <1>1. /\ account \in [Users -> Account] /\ account' \in [Users -> Account]
        /\ work \in [Workers -> Job]
    BY DEF Inv, TypeOK
  <1>2. /\ job.id \in Users /\ job.stage = "write" /\ work' = [work EXCEPT ![w] = Free]
        /\ \A u \in Users \ {job.id} : account'[u] = account[u]
        /\ Outcome(job, account[job.id], account'[job.id])
    BY FinishOutcome
  <1>3. ActiveAdmins \subseteq Users
    BY DEF ActiveAdmins
  <1>4. \A u \in ActiveAdmins : u # job.id => u \in ActiveAdmins'
    BY <1>2, <1>3 DEF ActiveAdmins
  <1>5. work'[w].stage = "idle" /\ \A v \in Workers \ {w} : work'[v] = work[v]
    BY <1>1, <1>2 DEF Free
  <1>6. CASE MayTakeAdmin(job)
    <2>1. PICK u \in ActiveAdmins : u # job.id
      BY <1>2, <1>6 DEF AdminInv, SpareAdmin
    <2>2. SomeActiveAdmin'
      BY <1>4, <2>1 DEF SomeActiveAdmin
    <2>3. ASSUME NEW v \in Workers, work'[v].stage = "write" PROVE ~MayTakeAdmin(work'[v])
      BY <1>5, <1>6, <2>3 DEF OneTaker
    <2> QED
      BY <2>2, <2>3 DEF AdminInv, SpareAdmin
  <1>7. CASE ~MayTakeAdmin(job)
    <2>1. job.id \in ActiveAdmins => job.id \in ActiveAdmins'
      <3>1. job.id \in ActiveAdmins => IsActiveAdmin(account[job.id])
        BY <1>1, <1>2, AdminsByAccount
      <3>2. IsActiveAdmin(account[job.id]) => IsActiveAdmin(account'[job.id])
        BY <1>2, <1>7 DEF Outcome
      <3>3. IsActiveAdmin(account'[job.id]) => job.id \in ActiveAdmins'
        BY <1>2 DEF ActiveAdmins, IsActiveAdmin
      <3> QED
        BY <3>1, <3>2, <3>3
    <2>2. ActiveAdmins \subseteq ActiveAdmins'
      BY <1>4, <2>1
    <2>3. SpareAdmin'
      BY <1>5, <2>2 DEF AdminInv, SpareAdmin
    <2> QED
      BY <2>2, <2>3 DEF AdminInv, SomeActiveAdmin
  <1> QED
    BY <1>6, <1>7

LEMMA StepKeepsAdmin ==
    ASSUME Inv, Inv', OneTaker, AdminInv, [Next]_vars
    PROVE  AdminInv'
  <1>1. ASSUME NEW u \in Users, Create(u) PROVE AdminInv'
    <2>1. ActiveAdmins \subseteq ActiveAdmins'
      BY <1>1, CreateJob DEF ActiveAdmins
    <2> QED
      BY <1>1, <2>1, CreateJob, OthersKeepAdmin
  <1>2. CASE CallNext \/ Tick \/ UNCHANGED vars
    <2>1. ActiveAdmins \subseteq ActiveAdmins'
      BY <1>2, CallsKeepRanks DEF ActiveAdmins, SameRanks
    <2> QED
      BY <1>2, <2>1, CallsKeepRanks, OthersKeepAdmin
  <1> QED
    BY <1>1, <1>2, BeginsKeepsAdmin, GuardKeepsAdmin, FinishKeepsAdmin DEF Next, AccountNext

(* UsersService: with any number of administrators' requests under way, the count of
   update, updateStatus and remove keeps an active administrator as long as no two of
   the requests that demote, deactivate or delete overlap: whatever else is created,
   promoted or reset meanwhile, and however stale the role a request has read. *)
THEOREM OneTakerKeepsAdmin == Spec /\ []OneTaker => []SomeActiveAdmin
  <1>1. Inv /\ Inv' /\ OneTaker /\ AdminInv /\ [Next]_vars => AdminInv'
    BY StepKeepsAdmin
  <1>2. AdminInv => SomeActiveAdmin
    BY DEF AdminInv
  <1> QED
    BY <1>1, <1>2, InitAdmin, Invariance, PTL DEF Spec

(* So it does when administrators' requests are served one at a time.  (With two at
   a time that take each other's administrator it does not.) *)
THEOREM SerialKeepsAdmin ==
    ASSUME NEW w \in Workers, Workers = {w}
    PROVE  Spec => []SomeActiveAdmin
  <1>1. OneTaker
    BY DEF OneTaker
  <1> QED
    BY <1>1, OneTakerKeepsAdmin, PTL

-----------------------------------------------------------------------------
(* What a request has read of its user's role is the role. *)
JobCurrent ==
    \A w \in Workers : work[w].stage # "idle" => work[w].role = account[work[w].id].role

(* The scopes an update leaves a scoped role with, while it is under way. *)
Access(job, a) ==
    IF job.change.access = NotGiven THEN a.scopes ELSE job.change.access

UpdateGivesScope ==
    \A w \in Workers :
        (work[w].stage # "idle" /\ work[w].op = "update" /\ Target(work[w]) \in ScopedRoles)
            => Access(work[w], account[work[w].id]) # {}

ScopeInv == ScopedRolesHaveScope /\ JobCurrent /\ UpdateGivesScope

LEMMA InitScope == SessionInit => ScopeInv
  <1> SUFFICES ASSUME SessionInit PROVE ScopeInv
    OBVIOUS
  <1>1. \A u \in Users : account[u].role \in {"ADMIN", "absent"}
    BY DEF SessionInit, AccountInit, NewAccount
  <1>2. \A w \in Workers : work[w].stage = "idle"
    BY DEF SessionInit, AccountInit, Free
  <1> QED
    BY <1>1, <1>2
    DEF ScopeInv, ScopedRolesHaveScope, JobCurrent, UpdateGivesScope, ScopedRoles

(* A step that leaves the requests, and the roles and scopes there are, alone. *)
LEMMA OthersKeepScope ==
    ASSUME Inv, ScopeInv, work' = work,
           \A u \in Users : account[u].role # "absent" =>
               account'[u].role = account[u].role /\ account'[u].scopes = account[u].scopes,
           \A u \in Users : account[u].role = "absent" /\ account'[u].role \in ScopedRoles =>
               account'[u].scopes # {}
    PROVE  ScopeInv'
  <1>1. ScopedRolesHaveScope'
    BY DEF ScopeInv, ScopedRolesHaveScope, ScopedRoles
  <1>2. \A w \in Workers : work[w].id \in Users
    BY DEF Inv, TypeOK, Job
  <1>3. JobCurrent'
    BY <1>2 DEF ScopeInv, JobCurrent, Inv, WorkKnown
  <1>4. UpdateGivesScope'
    BY <1>2 DEF ScopeInv, UpdateGivesScope, Access, Inv, WorkKnown, Target, ScopedRoles
  <1> QED
    BY <1>1, <1>3, <1>4 DEF ScopeInv

LEMMA BeginsKeepsScope ==
    ASSUME Inv, ScopeInv, NEW w \in Workers, NEW u \in Users, Begins(w, u)
    PROVE  ScopeInv'
  <1>1. PICK op, change :
            /\ Takes(w, op, u, change)
            /\ op = "update" => (Target(work'[w]) \in ScopedRoles =>
                   (IF change.access = NotGiven THEN account[u].scopes ELSE change.access) # {})
    BY DEF Begins, UpdateBegins, StatusBegins, RemoveBegins, ResetBegins
  <1>2. /\ account' = account
        /\ \A v \in Workers \ {w} : work'[v] = work[v]
        /\ work'[w].op = op /\ work'[w].id = u /\ work'[w].change = change
        /\ work'[w].role = account[u].role
    BY <1>1, TakesJob
  <1>3. ScopedRolesHaveScope'
    BY <1>2 DEF ScopeInv, ScopedRolesHaveScope
  <1>4. JobCurrent'
    BY <1>2 DEF ScopeInv, JobCurrent
  <1>5. ASSUME NEW v \in Workers, work'[v].stage # "idle", work'[v].op = "update",
               Target(work'[v]) \in ScopedRoles
        PROVE  Access(work'[v], account'[work'[v].id]) # {}
    <2>1. CASE v = w
      BY <1>1, <1>2, <1>5, <2>1 DEF Access
    <2>2. CASE v # w
      BY <1>2, <1>5, <2>2 DEF ScopeInv, UpdateGivesScope, Access
    <2> QED
      BY <2>1, <2>2
  <1>6. UpdateGivesScope'
    BY <1>5 DEF UpdateGivesScope
  <1> QED
    BY <1>3, <1>4, <1>6 DEF ScopeInv

LEMMA GuardKeepsScope ==
    ASSUME Inv, ScopeInv, NEW w \in Workers, Guard(w)
    PROVE  ScopeInv'
  <1>1. ScopedRolesHaveScope'
    BY GuardJob DEF ScopeInv, ScopedRolesHaveScope
  <1>2. JobCurrent'
    BY GuardJob DEF ScopeInv, JobCurrent
  <1>3. ASSUME NEW v \in Workers, work'[v].stage # "idle", work'[v].op = "update",
               Target(work'[v]) \in ScopedRoles
        PROVE  Access(work'[v], account'[work'[v].id]) # {}
    <2>1. CASE v # w
      BY <1>3, <2>1, GuardJob DEF ScopeInv, UpdateGivesScope
    <2>2. CASE v = w
      <3>1. /\ work[w].stage # "idle" /\ work[w].op = "update"
            /\ work'[w].id = work[w].id /\ work'[w].change = work[w].change
            /\ work'[w].role = work[w].role /\ account' = account
        BY <1>3, <2>2, GuardJob
      <3>2. Target(work'[w]) = Target(work[w])
        BY <3>1 DEF Target
      <3> QED
        BY <1>3, <2>2, <3>1, <3>2 DEF ScopeInv, UpdateGivesScope, Access
    <2> QED
      BY <2>1, <2>2
  <1>4. UpdateGivesScope'
    BY <1>3 DEF UpdateGivesScope
  <1> QED
    BY <1>1, <1>2, <1>4 DEF ScopeInv

(* What is written keeps role and scopes, but for an update, which gives the role it
   aims at the scopes it was seen to leave; the other requests are about others. *)
LEMMA FinishKeepsScope ==
    ASSUME Inv, Apart, ScopeInv, NEW w \in Workers, Finishes(w)
    PROVE  ScopeInv'
  <1> DEFINE job == work[w]
             a == account[job.id]
             b == account'[job.id]
  <1>1. /\ job.id \in Users /\ job.stage = "write" /\ work' = [work EXCEPT ![w] = Free]
        /\ \A u \in Users \ {job.id} : account'[u] = account[u]
        /\ Outcome(job, a, b)
    BY FinishOutcome
  <1>2. work \in [Workers -> Job] /\ \A v \in Workers : work[v].id \in Users
    BY DEF Inv, TypeOK, Job
  <1>3. work'[w].stage = "idle" /\ \A v \in Workers \ {w} : work'[v] = work[v]
    BY <1>1, <1>2 DEF Free
  <1>4. \A v \in Workers : work'[v].stage # "idle" =>
            work'[v] = work[v] /\ account'[work[v].id] = account[work[v].id]
    BY <1>1, <1>2, <1>3 DEF Apart
  <1>5. b.role \in ScopedRoles => b.scopes # {}
    <2>1. CASE job.op = "update"
      <3>1. job.role = a.role
        BY <1>1 DEF ScopeInv, JobCurrent
      <3>2. b.role = Target(job) /\ b.scopes = ScopesLeft(job, a)
        BY <1>1, <2>1, <3>1 DEF Outcome, Target
      <3>3. Target(job) \in ScopedRoles => Access(job, a) # {}
        BY <1>1, <2>1 DEF ScopeInv, UpdateGivesScope
      <3> QED
        BY <3>2, <3>3 DEF ScopesLeft, Access
    <2>2. CASE job.op # "update"
      BY <1>1, <2>2 DEF Outcome, ScopeInv, ScopedRolesHaveScope
    <2> QED
      BY <2>1, <2>2
  <1>6. ScopedRolesHaveScope'
    BY <1>1, <1>5 DEF ScopeInv, ScopedRolesHaveScope
  <1>7. JobCurrent'
    BY <1>4 DEF ScopeInv, JobCurrent
  <1>8. UpdateGivesScope'
    BY <1>4 DEF ScopeInv, UpdateGivesScope, Access
  <1> QED
    BY <1>6, <1>7, <1>8 DEF ScopeInv

LEMMA StepKeepsScope ==
    ASSUME Inv, Apart, ScopeInv, [Next]_vars
    PROVE  ScopeInv'
  <1>1. "absent" \notin ScopedRoles
    BY DEF ScopedRoles
  <1>2. ASSUME NEW u \in Users, Create(u) PROVE ScopeInv'
    BY <1>1, <1>2, CreateJob, OthersKeepScope
  <1>3. CASE CallNext \/ Tick \/ UNCHANGED vars
    BY <1>1, <1>3, CallsKeepRanks, OthersKeepScope DEF SameRanks
  <1> QED
    BY <1>2, <1>3, BeginsKeepsScope, GuardKeepsScope, FinishKeepsScope DEF Next, AccountNext

(* UsersService.update: with any number of administrators' requests under way, nobody
   whose role is bound to processes is left without any, whether an update names role
   and scopes, one of them or neither, as long as no two requests about one user
   overlap. *)
THEOREM ApartKeepsScopes == Spec /\ []Apart => []ScopedRolesHaveScope
  <1>1. Inv /\ Apart /\ ScopeInv /\ [Next]_vars => ScopeInv'
    BY StepKeepsScope
  <1>2. ScopeInv => ScopedRolesHaveScope
    BY DEF ScopeInv
  <1> QED
    BY <1>1, <1>2, InitScope, Invariance, PTL DEF Spec

(* So it is when administrators' requests are served one at a time. *)
THEOREM SerialKeepsScopes ==
    ASSUME NEW w \in Workers, Workers = {w}
    PROVE  Spec => []ScopedRolesHaveScope
  <1>1. Apart
    BY DEF Apart
  <1> QED
    BY <1>1, ApartKeepsScopes, PTL
===============================================================================
