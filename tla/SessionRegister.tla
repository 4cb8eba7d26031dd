---------------------------- MODULE SessionRegister ----------------------------
(***************************************************************************)
(* What the sessions of an account promise its users and administrators,   *)
(* each operation in one step.  An account has at most one session that    *)
(* can be renewed, a renewal carries the account as it is and not as it    *)
(* was, and no change of an account leaves a session standing.             *)
(***************************************************************************)
EXTENDS Naturals

CONSTANT Users

VARIABLES
    standing,    \* per user: role, active, and the version of its sessions
    session,     \* per user, the session that can be renewed: at most one
    granted      \* the tokens handed out, each with the operation that did

registerVars == <<standing, session, granted>>

Init ==
    /\ session = [u \in Users |-> {}]
    /\ granted = {}

Grants(u, by, s) ==
    /\ session' = [session EXCEPT ![u] = {s}]
    /\ granted' = granted \cup {[by |-> by, token |-> s.token]}
    /\ UNCHANGED standing

(* A login works from the account as it was when the password was checked. *)
Login(u) ==
    \E s \in session'[u] :
        /\ s.token.version <= standing[u].version
        /\ Grants(u, "login", s)

(* A renewal replaces the session by one of the account as it is. *)
Renew(u) ==
    \E s \in session'[u] :
        /\ session[u] # {} /\ s \notin session[u]
        /\ standing[u].active
        /\ s.token.version = standing[u].version
        /\ s.token.role = standing[u].role
        /\ Grants(u, "renewal", s)

(* Whatever changes a user's standing, or only ends its session. *)
Revise(u) ==
    /\ standing' = [standing EXCEPT ![u] = standing'[u]]
    /\ standing'[u].version > standing[u].version
    /\ session' = [session EXCEPT ![u] = {}]
    /\ UNCHANGED granted

(* An account that did not exist has no session. *)
Enrol(u) ==
    /\ standing[u].role = "absent" /\ session[u] = {}
    /\ standing' = [standing EXCEPT ![u] = standing'[u]]
    /\ UNCHANGED <<session, granted>>

Next == \E u \in Users : Login(u) \/ Renew(u) \/ Revise(u) \/ Enrol(u)

Spec == Init /\ [][Next]_registerVars
===============================================================================
