------------------------------- MODULE Sessions -------------------------------
(***************************************************************************)
(* AuthService: logins, renewals, logouts and password changes of the      *)
(* users, concurrently with the administrators of UserAccounts.  Each      *)
(* reads the user, spends its time hashing, and then writes: with a        *)
(* compare-and-swap on the stored hash when it is a renewal, by the        *)
(* identifier alone when it is anything else.                              *)
(*                                                                         *)
(* Left out: passwords and their lockout and expiry, and the expiry of     *)
(* tokens, each of which only refuses a call.                              *)
(***************************************************************************)
EXTENDS UserAccounts

CONSTANTS
    Calls,      \* calls of AuthService served at the same time
    MaxSalt,    \* bound: hashes stored before calls stop coming, reused tokens apart
    MaxSecond   \* bound: seconds of the server's clock

ASSUME SessionAssumption ==
    /\ MaxSalt \in Nat
    /\ MaxSecond \in Nat

VARIABLES
    call,      \* per call, the stage it is at and the tokens it signed
    issued,    \* refresh tokens delivered, each with the operation that did
    salt,      \* hashes stored so far: argon2 salts each differently
    second     \* the server's clock, as far as a token tells it

callVars == <<call, issued, salt, second>>
vars == <<account, work, call, issued, salt, second>>

(* A token says whose it is and when it was signed, in whole seconds: two that
   are signed in one second of equal data are the same string. *)
Token ==
    [user : Users, version : Nat, role : Roles \cup {"absent"}, second : 0..MaxSecond]

Hash == [token : Token, salt : Nat]

Account ==
    [role : Roles \cup {"absent"}, scopes : SUBSET Scopes, active : BOOLEAN,
     deleted : BOOLEAN, version : Nat, hash : SUBSET Hash]

Call ==
    [stage : {"idle", "login", "rotate", "revoke"}, token : Token, hash : SUBSET Hash]

Signed(u) ==
    [user |-> u, version |-> account[u].version, role |-> account[u].role,
     second |-> second]

NoToken == [user |-> Primary, version |-> 0, role |-> "absent", second |-> 0]

Waiting == [stage |-> "idle", token |-> NoToken, hash |-> {}]

Tokens == {g.token : g \in issued}

SessionInit ==
    /\ AccountInit
    /\ call = [c \in Calls |-> Waiting]
    /\ issued = {}
    /\ salt = 0
    /\ second = 0

-----------------------------------------------------------------------------
Enters(c, stage, token, hash) ==
    /\ call[c].stage = "idle"
    /\ call' = [call EXCEPT ![c] = [stage |-> stage, token |-> token, hash |-> hash]]
    /\ UNCHANGED <<account, work, issued, salt, second>>

Answers(c) == call' = [call EXCEPT ![c] = Waiting]

(* The tokens the call signed are stored, under a salt of their own, and sent. *)
Delivers(c, by) ==
    LET token == call[c].token
    IN  /\ account' = [account EXCEPT ![token.user].hash =
                                          {[token |-> token, salt |-> salt + 1]}]
        /\ salt' = salt + 1
        /\ issued' = issued \cup {[by |-> by, token |-> token]}
        /\ Answers(c)
        /\ UNCHANGED <<work, second>>

(* login: the password fits an account that is active. *)
LoginReads(c, u) ==
    /\ Known(u) /\ account[u].active
    /\ salt < MaxSalt
    /\ Enters(c, "login", Signed(u), {})

LoginWrites(c) ==
    /\ call[c].stage = "login"
    /\ Delivers(c, "login")

(* refreshTokens: a token that was delivered, now or long ago, is presented. *)
Renewable(t) == account[t.user].active /\ account[t.user].hash # {}

Fits(t) == \E h \in account[t.user].hash : h.token = t

RefreshReads(c, t) ==
    /\ Renewable(t) /\ Fits(t)
    /\ salt < MaxSalt
    /\ Enters(c, "rotate", Signed(t.user), account[t.user].hash)

(* The compare-and-swap finds the hash that was read. *)
Unguarded(c) == TRUE
StillStored(c) == account[call[c].token.user].hash = call[c].hash

Rotates(c) ==
    /\ call[c].stage = "rotate"
    /\ StillStored(c)
    /\ Delivers(c, "renewal")

Collides(c) ==
    /\ call[c].stage = "rotate"
    /\ ~StillStored(c)
    /\ Answers(c)
    /\ UNCHANGED <<account, work, issued, salt, second>>

(* A token that does not fit the stored one ends the session. *)
RefreshMistrusts(c, t) ==
    /\ Renewable(t) /\ ~Fits(t)
    /\ account[t.user].version < MaxVersion
    /\ Enters(c, "revoke", t, {})

(* logout and changePassword: the guard accepts the access token that came with
   the refresh token. *)
Accepted(t) == account[t.user].active /\ account[t.user].version = t.version

LogoutBegins(c, t) ==
    /\ Accepted(t)
    /\ salt < MaxSalt
    /\ account[t.user].version < MaxVersion
    /\ Enters(c, "revoke", t, {})

Revokes(c) ==
    /\ call[c].stage = "revoke"
    /\ account' = [account EXCEPT ![call[c].token.user] = Revoked(@)]
    /\ Answers(c)
    /\ UNCHANGED <<work, issued, salt, second>>

Tick ==
    /\ second < MaxSecond
    /\ second' = second + 1
    /\ UNCHANGED <<account, work, call, issued, salt>>

CallNext ==
    \E c \in Calls :
        \/ \E u \in Users : LoginReads(c, u)
        \/ \E t \in Tokens : RefreshReads(c, t) \/ RefreshMistrusts(c, t) \/ LogoutBegins(c, t)
        \/ LoginWrites(c) \/ Rotates(c) \/ Collides(c) \/ Revokes(c)

Next ==
    \/ AccountNext /\ UNCHANGED callVars
    \/ CallNext
    \/ Tick

Spec == SessionInit /\ [][Next]_vars

-----------------------------------------------------------------------------
TypeOK ==
    /\ account \in [Users -> Account]
    /\ work \in [Workers -> Job]
    /\ call \in [Calls -> Call]
    /\ issued \subseteq [by : {"login", "renewal"}, token : Token]
    /\ salt \in Nat
    /\ second \in 0..MaxSecond

(* A renewal that is going to win its compare-and-swap signed the account as it
   is: no revocation, change of role or deactivation lies between its read and
   its write, however long the hashing took. *)
WinnerIsCurrent ==
    \A c \in Calls :
        call[c].stage = "rotate" /\ StillStored(c) =>
            LET t == call[c].token
            IN  /\ account[t.user].active
                /\ t.version = account[t.user].version
                /\ t.role = account[t.user].role

(* What each operation does to the sessions, it does in one step. *)
Register ==
    INSTANCE SessionRegister WITH
        standing <- [u \in Users |-> [role |-> account[u].role,
                                      active |-> account[u].active,
                                      version |-> account[u].version]],
        session <- [u \in Users |-> account[u].hash],
        granted <- issued

(* Logins, renewals, revocations and administrators' changes, interleaved in any
   way, come to the same as if each were done at once. *)
ImplementsRegister == Register!Spec
===============================================================================
