---------------------------- MODULE AuthSessions ----------------------------
(***************************************************************************)
(* Accounts and refresh tokens (backend/app/services/auth_service.py),     *)
(* each request served inside one database session                         *)
(* (backend/app/db/session.py).                                            *)
(*                                                                         *)
(* A refresh token row is named by the request that issued it.  A family   *)
(* is named by its first token: login and signup start one, refreshing     *)
(* extends it.  Objects changed in memory are written when the session     *)
(* commits; a bulk UPDATE takes effect on the rows its snapshot shows, and *)
(* holds their locks until its transaction ends.                           *)
(***************************************************************************)
EXTENDS Naturals

CONSTANTS Users,      \* the addresses accounts are made for
          Registered, \* the accounts that exist when the model starts
          Devices,    \* tokens issued before the model starts ...
          HolderOf,   \* ... and the account each belongs to
          Requests,   \* the requests clients will send, each at most once
          Overlap,    \* may requests about one account overlap in time?
          None        \* no row, no unit of work, no parent

ASSUME RegisteredAssumption == Registered \subseteq Users

ASSUME DevicesAssumption == HolderOf \in [Devices -> Registered]

ASSUME OverlapAssumption == Overlap \in BOOLEAN

ASSUME NamesAssumption == Devices \cap Requests = {}

TokenIds == Devices \cup Requests

VARIABLES
    account,   \* the users table, by address
    token,     \* the refresh_tokens table
    pc,        \* where each request is
    unit,      \* each request's unit of work while it is served
    parent,    \* history: the token that each token was issued against
    founders,  \* history: the signups that were answered ok, by address
    loggedOut, \* history: the families a logout was answered for, and by which
    reused     \* history: the families answered "reuse detected; all sessions revoked"

vars == <<account, token, pc, unit, parent, founders, loggedOut, reused>>
-----------------------------------------------------------------------------
Token == [user : Users, family : TokenIds, revoked : BOOLEAN, expired : BOOLEAN]

(***************************************************************************)
(* user:      the account the request is about.                            *)
(* presented: the refresh token a client sent with it, if any.             *)
(* revokes:   the rows a bulk UPDATE has already revoked, uncommitted.     *)
(***************************************************************************)
Work == [op : {"signup", "login", "refresh", "logout", "logout_all"}, user : Users,
         presented : TokenIds \cup {None}, revokes : SUBSET TokenIds]

ASSUME NoneAssumption == None \notin Token \cup Work \cup TokenIds

Running == {"insert", "user", "raise", "exit"}

Finished == {"ok", "refused", "denied", "conflict", "reuse", "error", "lost"}

\* Slip: the family is left out.
NewTokenUnchained(u, family) ==
    [user |-> u, family |-> None, revoked |-> FALSE, expired |-> FALSE]

NewToken(u, family) ==
    [user |-> u, family |-> family, revoked |-> FALSE, expired |-> FALSE]

Init ==
    /\ account = [u \in Users |-> IF u \in Registered THEN "active" ELSE "absent"]
    /\ token = [t \in TokenIds |-> IF t \in Devices THEN NewToken(HolderOf[t], t) ELSE None]
    /\ pc = [r \in Requests |-> "idle"]
    /\ unit = [r \in Requests |-> None]
    /\ parent = [t \in TokenIds |-> None]
    /\ founders = [u \in Users |-> {}]
    /\ loggedOut = {}
    /\ reused = {}

Tables == <<account, token, parent, founders>>

\* The request is answered without a commit; what it did is rolled back.
Answer(r, outcome) ==
    /\ pc' = [pc EXCEPT ![r] = outcome]
    /\ unit' = [unit EXCEPT ![r] = None]
    /\ UNCHANGED Tables

Proceed(r, step, w) ==
    /\ pc' = [pc EXCEPT ![r] = step]
    /\ unit' = [unit EXCEPT ![r] = w]
    /\ UNCHANGED Tables

Doing(op, u, presented, revokes) ==
    [op |-> op, user |-> u, presented |-> presented, revokes |-> revokes]

\* No request about u is under way, or there may be several.
Quiet(u) ==
    Overlap \/ \A q \in Requests : pc[q] \in Running => unit[q].user # u

Stored(t) == token[t] # None

Live(t) == Stored(t) /\ ~token[t].revoked

\* The rows that _revoke_family and logout_all would update now.
LiveFamily(f) == {t \in TokenIds : Live(t) /\ token[t].family = f}

LiveTokens(u) == {t \in TokenIds : Live(t) /\ token[t].user = u}

\* No other transaction has updated one of these rows and not yet ended.
Unlocked(r, rows) ==
    \A q \in Requests \ {r} : pc[q] \in Running => unit[q].revokes \cap rows = {}

\* The dependencies turn the request away: rate limited, or a malformed body.
TurnedAway(r) ==
    /\ pc[r] = "idle"
    /\ Answer(r, "refused")
    /\ UNCHANGED <<loggedOut, reused>>

\* POST /auth/signup, up to the read that looks for the address.
Signup(r, u) ==
    /\ pc[r] = "idle"
    /\ Quiet(u)
    /\ IF account[u] = "absent"
       THEN Proceed(r, "insert", Doing("signup", u, None, {}))
       ELSE Answer(r, "conflict")
    /\ UNCHANGED <<loggedOut, reused>>

\* Slip: each of two twins waits for the other before either has inserted.
AddressWanted(r) ==
    \E q \in Requests \ {r} :
        /\ pc[q] \in {"insert", "exit"} /\ unit[q].op = "signup"
        /\ unit[q].user = unit[r].user

\* Another transaction has inserted the same address and not committed.
AddressPending(r) ==
    \E q \in Requests \ {r} :
        pc[q] = "exit" /\ unit[q].op = "signup" /\ unit[q].user = unit[r].user

\* Slip: the users table has no unique address.
InsertAnyway(r) ==
    /\ pc[r] = "insert"
    /\ Proceed(r, "exit", unit[r])
    /\ UNCHANGED <<loggedOut, reused>>

\* signup's flush: the unique address waits for a twin and fails on a committed one.
InsertUser(r) ==
    /\ pc[r] = "insert"
    /\ ~AddressPending(r)
    /\ IF account[unit[r].user] = "absent"
       THEN Proceed(r, "exit", unit[r])
       ELSE Answer(r, "error")
    /\ UNCHANGED <<loggedOut, reused>>

\* POST /auth/login: the password may be wrong, the account absent or disabled.
Login(r, u) ==
    /\ pc[r] = "idle"
    /\ Quiet(u)
    /\ \/ Answer(r, "denied")
       \/ account[u] = "active" /\ Proceed(r, "exit", Doing("login", u, None, {}))
    /\ UNCHANGED <<loggedOut, reused>>

(***************************************************************************)
(* POST /auth/refresh, up to what the token row decides.  A revoked token  *)
(* has its whole family revoked, and then the handler raises.              *)
(***************************************************************************)
Refresh(r, t) ==
    /\ pc[r] = "idle"
    /\ Stored(t) => Quiet(token[t].user)
    /\ \/ ~Stored(t) /\ Answer(r, "denied")
       \/ /\ Stored(t) /\ token[t].revoked
          /\ LET rows == LiveFamily(token[t].family)
             IN  /\ Unlocked(r, rows)
                 /\ Proceed(r, "raise", Doing("refresh", token[t].user, t, rows))
       \/ Live(t) /\ token[t].expired /\ Answer(r, "denied")
       \/ /\ Live(t) /\ ~token[t].expired
          /\ Proceed(r, "user", Doing("refresh", token[t].user, t, {}))
    /\ UNCHANGED <<loggedOut, reused>>

\* Slip: the token is marked as used, and stays so, before the account is checked.
CheckUserTooLate(r) ==
    /\ pc[r] = "user"
    /\ \/ account[unit[r].user] = "active" /\ Proceed(r, "exit", unit[r])
       \/ /\ account[unit[r].user] # "active"
          /\ token' = [token EXCEPT ![unit[r].presented].revoked = TRUE]
          /\ pc' = [pc EXCEPT ![r] = "denied"]
          /\ unit' = [unit EXCEPT ![r] = None]
          /\ UNCHANGED <<account, parent, founders>>
    /\ UNCHANGED <<loggedOut, reused>>

\* refresh goes on to read the account, in a statement of its own.
CheckUser(r) ==
    /\ pc[r] = "user"
    /\ IF account[unit[r].user] = "active"
       THEN Proceed(r, "exit", unit[r])
       ELSE Answer(r, "denied")
    /\ UNCHANGED <<loggedOut, reused>>

\* The replay's AuthenticationError passes through get_db, which rolls back.
Raise(r) ==
    /\ pc[r] = "raise"
    /\ Answer(r, "reuse")
    /\ reused' = reused \cup {token[unit[r].presented].family}
    /\ UNCHANGED loggedOut

\* POST /auth/logout: silent on an unknown token.
Logout(r, t) ==
    /\ pc[r] = "idle"
    /\ Stored(t) => Quiet(token[t].user)
    /\ \/ ~Stored(t) /\ Answer(r, "ok")
       \/ /\ Stored(t)
          /\ LET rows == LiveFamily(token[t].family)
             IN  /\ Unlocked(r, rows)
                 /\ Proceed(r, "exit", Doing("logout", token[t].user, t, rows))
    /\ UNCHANGED <<loggedOut, reused>>

\* POST /auth/logout-all, by the holder of an access token.
LogoutAll(r, u) ==
    /\ pc[r] = "idle"
    /\ Quiet(u)
    /\ \/ account[u] # "active" /\ Answer(r, "refused")
       \/ /\ account[u] = "active"
          /\ Unlocked(r, LiveTokens(u))
          /\ Proceed(r, "exit", Doing("logout_all", u, None, LiveTokens(u)))
    /\ UNCHANGED <<loggedOut, reused>>
-----------------------------------------------------------------------------
\* A new account and the first token of its first family, or the latter alone.
CommitFirst(r, w) ==
    /\ w.op \in {"signup", "login"}
    /\ account' = IF w.op = "signup" THEN [account EXCEPT ![w.user] = "active"] ELSE account
    /\ founders' = IF w.op = "signup" THEN [founders EXCEPT ![w.user] = @ \cup {r}] ELSE founders
    /\ token' = [token EXCEPT ![r] = NewToken(w.user, r)]
    /\ UNCHANGED <<parent, loggedOut>>

\* Slip: the successor starts a family of its own.
CommitRotationAlone(r, w) ==
    /\ w.op = "refresh"
    /\ Unlocked(r, {w.presented})
    /\ token' = [token EXCEPT ![w.presented].revoked = TRUE, ![r] = NewToken(w.user, r)]
    /\ parent' = [parent EXCEPT ![r] = w.presented]
    /\ UNCHANGED <<account, founders, loggedOut>>

\* Slip: the presented token stays live.
CommitSuccessorOnly(r, w) ==
    /\ w.op = "refresh"
    /\ Unlocked(r, {w.presented})
    /\ token' = [token EXCEPT ![r] = NewToken(w.user, token[w.presented].family)]
    /\ parent' = [parent EXCEPT ![r] = w.presented]
    /\ UNCHANGED <<account, founders, loggedOut>>

\* The presented token is revoked, whatever it is by now, and its successor inserted.
CommitRotation(r, w) ==
    /\ w.op = "refresh"
    /\ Unlocked(r, {w.presented})
    /\ token' = [token EXCEPT ![w.presented].revoked = TRUE,
                              ![r] = NewToken(w.user, token[w.presented].family)]
    /\ parent' = [parent EXCEPT ![r] = w.presented]
    /\ UNCHANGED <<account, founders, loggedOut>>

\* The sessions a logout is about to report as ended.
FamiliesEnded(w) ==
    {[op |-> w.op, family |-> token[t].family] :
        t \in w.revokes \cup ({w.presented} \ {None})}

\* Slip: only the presented token is revoked.
CommitOneRevocation(r, w) ==
    /\ w.op \in {"logout", "logout_all"}
    /\ token' = [t \in TokenIds |->
                    IF t = w.presented THEN [token[t] EXCEPT !.revoked = TRUE] ELSE token[t]]
    /\ loggedOut' = loggedOut \cup FamiliesEnded(w)
    /\ UNCHANGED <<account, parent, founders>>

CommitRevocation(r, w) ==
    /\ w.op \in {"logout", "logout_all"}
    /\ token' = [t \in TokenIds |->
                    IF t \in w.revokes THEN [token[t] EXCEPT !.revoked = TRUE] ELSE token[t]]
    /\ loggedOut' = loggedOut \cup FamiliesEnded(w)
    /\ UNCHANGED <<account, parent, founders>>

\* get_db commits once the handler has returned.
Commit(r) ==
    /\ pc[r] = "exit"
    /\ \/ CommitFirst(r, unit[r])
       \/ CommitRotation(r, unit[r])
       \/ CommitRevocation(r, unit[r])
    /\ pc' = [pc EXCEPT ![r] = "ok"]
    /\ unit' = [unit EXCEPT ![r] = None]
    /\ UNCHANGED reused

\* The process or the connection dies, or PostgreSQL breaks a deadlock.
Crash(r) ==
    /\ pc[r] \in Running
    /\ Answer(r, "lost")
    /\ UNCHANGED <<loggedOut, reused>>

\* REFRESH_TOKEN_TTL_DAYS have passed since the token was issued.
Expire(t) ==
    /\ Stored(t) /\ ~token[t].expired
    /\ token' = [token EXCEPT ![t].expired = TRUE]
    /\ UNCHANGED <<account, pc, unit, parent, founders, loggedOut, reused>>

\* An operator disables the account in the database; no endpoint does.
Disable(u) ==
    /\ account[u] = "active"
    /\ account' = [account EXCEPT ![u] = "disabled"]
    /\ UNCHANGED <<token, pc, unit, parent, founders, loggedOut, reused>>

Begin(r) ==
    \/ TurnedAway(r)
    \/ \E u \in Users : Signup(r, u) \/ Login(r, u) \/ LogoutAll(r, u)
    \/ \E t \in TokenIds : Refresh(r, t) \/ Logout(r, t)

Serve(r) == InsertUser(r) \/ CheckUser(r) \/ Raise(r) \/ Commit(r)

Next ==
    \/ \E r \in Requests : Begin(r) \/ Serve(r) \/ Crash(r)
    \/ \E t \in TokenIds : Expire(t)
    \/ \E u \in Users : Disable(u)

\* A request that has begun is served; clients and operators need do nothing.
Fairness == \A r \in Requests : WF_vars(Serve(r))

Spec == Init /\ [][Next]_vars /\ Fairness
-----------------------------------------------------------------------------
TypeOK ==
    /\ account \in [Users -> {"absent", "active", "disabled"}]
    /\ token \in [TokenIds -> Token \cup {None}]
    /\ pc \in [Requests -> {"idle"} \cup Running \cup Finished]
    /\ unit \in [Requests -> Work \cup {None}]
    /\ parent \in [TokenIds -> TokenIds \cup {None}]
    /\ founders \in [Users -> SUBSET Requests]
    /\ loggedOut \in SUBSET [op : {"logout", "logout_all"}, family : TokenIds]
    /\ reused \in SUBSET TokenIds
    /\ \A r \in Requests : pc[r] \in Running <=> unit[r] # None

(***************************************************************************)
(* A successor and the end of its predecessor are one step, and both stay  *)
(* in one family of one account: _issue_token_pair is given the family of  *)
(* the token it replaces, and the commit writes both rows or neither.      *)
(***************************************************************************)
RotationIsAtomic ==
    \A t \in TokenIds : parent[t] # None =>
        /\ Stored(t) /\ Stored(parent[t])
        /\ token[parent[t]].revoked
        /\ token[parent[t]].family = token[t].family
        /\ token[parent[t]].user = token[t].user

(***************************************************************************)
(* No token is revoked for nothing: it was traded for a successor, or its  *)
(* session was logged out or answered as reused.  A refresh that fails, at *)
(* whatever point, leaves its client with a token that still works.        *)
(***************************************************************************)
RevocationsAreEarned ==
    \A t \in TokenIds : Stored(t) /\ token[t].revoked =>
        \/ \E s \in TokenIds : parent[s] = t
        \/ token[t].family \in reused \cup {l.family : l \in loggedOut}

(***************************************************************************)
(* An address is signed up once, however many signups for it overlap, and  *)
(* whatever issues a token does so for an account that exists and is       *)
(* answered ok.                                                            *)
(***************************************************************************)
OneSignupWins ==
    /\ \A u \in Users :
           /\ \A q, r \in founders[u] : q = r
           /\ founders[u] = {} <=> u \in Registered \/ account[u] = "absent"
    /\ \A t \in TokenIds : Stored(t) =>
           /\ account[token[t].user] # "absent"
           /\ t \in Requests => pc[t] = "ok"

\* Every request the server took up comes to an end, blocked ones too.
RequestsFinish == \A r \in Requests : pc[r] \in Running ~> pc[r] \in Finished
-----------------------------------------------------------------------------
\* What rotation and logout are for, and the overlaps that stand in their way.

\* r has found its token live, and goes on to trade it for a successor.
Rotating(r) == pc[r] \in {"user", "exit"} /\ unit[r].op = "refresh"

SessionOf(r) == token[unit[r].presented].family

\* r has revoked rows, and is about to report their sessions as ended.
LoggingOut(r) == pc[r] = "exit" /\ unit[r].op \in {"logout", "logout_all"}

Ends(w, f) == \E t \in w.revokes \cup ({w.presented} \ {None}) : token[t].family = f

\* No token is being traded twice.
RotationsTakeTurns ==
    \A q, r \in Requests :
        Rotating(q) /\ Rotating(r) /\ unit[q].presented = unit[r].presented => q = r

\* No session is being extended while it is being ended.
LogoutsMeetNoRotation ==
    \A q, r \in Requests : Rotating(q) /\ LoggingOut(r) => ~Ends(unit[r], SessionOf(q))

\* At most one token of a family is usable.
OneLiveTokenPerFamily ==
    \A s, t \in TokenIds :
        Live(s) /\ Live(t) /\ token[s].family = token[t].family => s = t

\* No token of a session that a logout of either kind was answered for is usable.
LogoutEndsSessions == \A l \in loggedOut : LiveFamily(l.family) = {}

(***************************************************************************)
(* "Using a token marks it revoked": if no token is ever being traded by   *)
(* two refreshes at once, a family has one usable token at most, whatever  *)
(* else overlaps, fails, crashes and is repeated.                          *)
(***************************************************************************)
OneLiveTokenIfRotationsTakeTurns == []RotationsTakeTurns => []OneLiveTokenPerFamily

(***************************************************************************)
(* After a logout of one device or of all is answered, no token it covered *)
(* can be followed, if no refresh is ever extending a session that is just *)
(* being ended; logins, other logouts and refreshes of other sessions may  *)
(* overlap with it.                                                        *)
(***************************************************************************)
LogoutEndsSessionsThatRest == []LogoutsMeetNoRotation => []LogoutEndsSessions

(***************************************************************************)
(* After POST /auth/logout is answered, no token of the device's session   *)
(* is usable ("Revoke the presented token's whole family (this device's    *)
(* session)").                                                             *)
(***************************************************************************)
LogoutEndsThisSession ==
    \A l \in loggedOut : l.op = "logout" => LiveFamily(l.family) = {}

(***************************************************************************)
(* After "Refresh token reuse detected; all sessions revoked" is answered, *)
(* no token of that family is usable.                                      *)
(***************************************************************************)
ReuseEndsTheFamily == \A f \in reused : LiveFamily(f) = {}
=============================================================================
